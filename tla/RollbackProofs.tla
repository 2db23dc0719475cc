--------------------------- MODULE RollbackProofs ---------------------------
(***************************************************************************)
(* Proof that rollback restores, for any tasks, paths, texts, actions and  *)
(* configurations: the relation between what a preparation captured, what  *)
(* the worker did and what is found at the path, across every other task.  *)
(***************************************************************************)
EXTENDS ExecutionProofs

\* A rollback step that puts back what the preparation of t found.
PutsBack(t, step) ==
  \/ step = DeleteStep(action[t].path) /\ origin[t] = Absent
  \/ step = WriteStep(action[t].path, origin[t])

\* The plan kept for t is one such step, or none for the deletion of nothing.
PlanFits(t) ==
  preparation[t].reversible =>
    \/ preparation[t].plan = <<>> /\ action[t].kind = "file_delete" /\ origin[t] = Absent
    \/ \E step \in Action : preparation[t].plan = <<step>> /\ PutsBack(t, step)

\* What is at the path of t, as long as nobody else has changed it.
AtPath(t) == workspace[action[t].path]

FileFollows(t) ==
  /\ pc[t] = "asking" => AtPath(t) = origin[t]
  /\ pc[t] = "executing" /\ worker[t] = "queued" => AtPath(t) = origin[t]
  /\ pc[t] = "executing" /\ worker[t] = "ok" => AtPath(t) = StepResult(action[t])
  /\ pc[t] = "executing" /\ worker[t] = "error" /\ action[t].kind = "file_delete"
       => AtPath(t) = origin[t]
  /\ pc[t] = "compensating" /\ worker[t] = "ok" => AtPath(t) = origin[t]
  /\ status[t] = "rolled_back" => AtPath(t) = origin[t]
  /\ status[t] = "succeeded" => AtPath(t) = StepResult(action[t])

\* What holds of a submission of a file action.
Restorable(t) ==
  action[t].kind \in FileKinds =>
    /\ PlanFits(t)
    /\ pc[t] = "compensating" =>
         /\ worker[t] # "unsuccessful"
         /\ \E step \in Action : undo[t] = <<step>> /\ PutsBack(t, step)
    /\ t \notin disturbed => FileFollows(t)

NotYetPrepared(t) == pc[t] \in {"idle", "preparing", "raised"} => ~preparation[t].reversible

RInv == IInv /\ \A t \in Tasks : Restorable(t) /\ NotYetPrepared(t)

-----------------------------------------------------------------------------
(* The other tasks *)

\* The locals of t, and whether its file was changed by somebody else.
Same(t) ==
  /\ pc'[t] = pc[t] /\ action'[t] = action[t] /\ preparation'[t] = preparation[t]
  /\ undo'[t] = undo[t] /\ worker'[t] = worker[t] /\ status'[t] = status[t]
  /\ origin'[t] = origin[t]

\* A step that leaves t alone and its file too, or marks t as disturbed.
LEMMA SameKeeps ==
  ASSUME NEW t \in Tasks, Restorable(t), NotYetPrepared(t), Same(t),
         t \in disturbed => t \in disturbed',
         t \notin disturbed' /\ action[t].kind \in FileKinds
           => workspace'[action[t].path] = workspace[action[t].path]
  PROVE  Restorable(t)' /\ NotYetPrepared(t)'
<1>1. NotYetPrepared(t)'
  BY DEF NotYetPrepared, Same
<1>2. ASSUME action[t].kind \in FileKinds PROVE Restorable(t)'
  <2>1. PlanFits(t)'
    BY <1>2 DEF Restorable, PlanFits, PutsBack, Same
  <2>2. pc[t] = "compensating" =>
          worker[t] # "unsuccessful" /\ \E step \in Action : undo[t] = <<step>> /\ PutsBack(t, step)
    BY <1>2 DEF Restorable
  <2>3. ASSUME t \notin disturbed' PROVE FileFollows(t)'
    <3>1. FileFollows(t) /\ AtPath(t)' = AtPath(t)
      BY <1>2, <2>3 DEF Restorable, Same, AtPath
    <3> QED
      BY <3>1 DEF FileFollows, Same, StepResult
  <2> QED
    BY <2>1, <2>2, <2>3 DEF Restorable, PutsBack, Same
<1>3. CASE action[t].kind \notin FileKinds
  BY <1>1, <1>3 DEF Restorable, Same
<1> QED
  BY <1>1, <1>2, <1>3

\* A step of t that runs no worker.
Alone(t) ==
  /\ workspace' = workspace
  /\ \A u \in Tasks \ {t} : Same(u) /\ (u \in disturbed <=> u \in disturbed')

LEMMA AloneKeeps ==
  ASSUME RInv, IInv', NEW t \in Tasks, Alone(t), Restorable(t)', NotYetPrepared(t)'
  PROVE  RInv'
<1>1. ASSUME NEW u \in Tasks \ {t} PROVE Restorable(u)' /\ NotYetPrepared(u)'
  <2>1. Restorable(u) /\ NotYetPrepared(u) /\ Same(u)
    BY DEF RInv, Alone
  <2>2. /\ u \in disturbed => u \in disturbed'
        /\ workspace'[action[u].path] = workspace[action[u].path]
    BY DEF Alone
  <2> QED
    BY <2>1, <2>2, SameKeeps
<1> QED
  BY <1>1 DEF RInv

-----------------------------------------------------------------------------
(* Up to the permit *)

\* The places submit may reach from a decision.
Reached(t) ==
  /\ \/ pc'[t] = "journalling" /\ status'[t] \in {"rejected", "denied", "skipped"}
     \/ pc'[t] = "executing" /\ worker'[t] = Started(action'[t].kind) /\ status'[t] = status[t]
     \/ pc'[t] = "asking" /\ status'[t] = status[t]
  /\ \A u \in Tasks \ {t} :
       pc'[u] = pc[u] /\ status'[u] = status[u] /\ worker'[u] = worker[u] /\ undo'[u] = undo[u]

LEMMA FinishReaches ==
  ASSUME TypeOK, NEW t \in Tasks, NEW s \in {"rejected", "denied", "skipped"}, NEW perm,
         Finish(t, s, perm)
  PROVE  Reached(t)
BY DEF Finish, TypeOK, Reached

LEMMA ProceedReaches ==
  ASSUME TypeOK, NEW t \in Tasks, NEW a, NEW perm, Proceed(t, a, perm), action'[t] = a
  PROVE  Reached(t)
<1>1. CASE config.dry_run
  BY <1>1, FinishReaches DEF Proceed
<1>2. CASE ~config.dry_run
  BY <1>2 DEF Proceed, Execute, TypeOK, Reached
<1> QED
  BY <1>1, <1>2

LEMMA AuthoriseReaches ==
  ASSUME TypeOK, NEW t \in Tasks, NEW a, NEW p, Authorise(t, a, p), action'[t] = a
  PROVE  Reached(t)
<1> DEFINE v == Verify(a, p)
<1>1. CASE Decision(config, v) = "refuse"
  <2>1. Finish(t, IF Blocked(config, v) THEN "rejected" ELSE "denied", Refused)
    BY <1>1 DEF Authorise
  <2> QED
    BY <2>1, FinishReaches
<1>2. CASE Decision(config, v) = "proceed"
  <2>1. Proceed(t, a, [granted |-> TRUE, mode |-> "automatic"])
    BY <1>2 DEF Authorise
  <2> QED
    BY <2>1, ProceedReaches
<1>3. CASE Decision(config, v) = "ask"
  <2>1. AskGate(t, a)
    BY <1>3 DEF Authorise
  <2>2. config.gate \in {"denying", "approving", "web"}
    BY ConfigAssumption DEF TypeOK, ExecutionConfig
  <2>3. CASE config.gate = "denying"
    <3>1. Finish(t, "denied", [granted |-> FALSE, mode |-> "confirm"])
      BY <2>1, <2>3 DEF AskGate
    <3> QED
      BY <3>1, FinishReaches
  <2>4. CASE config.gate = "approving"
    <3>1. Proceed(t, a, [granted |-> TRUE, mode |-> "confirm"])
      BY <2>1, <2>4 DEF AskGate
    <3> QED
      BY <3>1, ProceedReaches
  <2>5. CASE config.gate = "web"
    <3>1. pc' = [pc EXCEPT ![t] = "asking"] /\ UNCHANGED <<status, worker, undo>>
      BY <2>1, <2>5 DEF AskGate
    <3> QED
      BY <3>1 DEF Reached, TypeOK
  <2> QED
    BY <2>2, <2>3, <2>4, <2>5
<1> QED
  BY <1>1, <1>2, <1>3 DEF Decision

\* Reaching such a place with a fitting plan and the file as it was found.
LEMMA ReachedKeeps ==
  ASSUME RInv, IInv', NEW t \in Tasks, Reached(t), status[t] = "none", workspace' = workspace,
         \A u \in Tasks \ {t} :
           /\ action'[u] = action[u] /\ preparation'[u] = preparation[u] /\ origin'[u] = origin[u]
           /\ u \in disturbed <=> u \in disturbed',
         action'[t].kind \in FileKinds =>
           /\ PlanFits(t)'
           /\ t \notin disturbed' => AtPath(t)' = origin'[t]
  PROVE  RInv'
<1>1. Alone(t)
  BY DEF Reached, Alone, Same
<1>2. NotYetPrepared(t)'
  BY DEF Reached, NotYetPrepared
<1>3. ASSUME action'[t].kind \in FileKinds, t \notin disturbed' PROVE FileFollows(t)'
  <2>1. Started(action'[t].kind) = "queued"
    BY <1>3 DEF Started, FileKinds
  <2> QED
    BY <1>3, <2>1 DEF Reached, FileFollows
<1>4. Restorable(t)'
  BY <1>3 DEF Restorable, Reached
<1> QED
  BY <1>1, <1>2, <1>4, AloneKeeps

\* The plans the file handlers make.
LEMMA PreparedFits ==
  ASSUME NEW a \in Actions, a.kind \in FileKinds, NEW ws \in [Paths -> Content],
         NEW p \in PreparedAtOnce(a, ws) \cup PreparedByRead(a, ws), p.reversible
  PROVE  \/ p.plan = <<>> /\ a.kind = "file_delete" /\ ws[a.path] = Absent
         \/ p.plan = <<DeleteStep(a.path)>> /\ DeleteStep(a.path) \in Action /\ ws[a.path] = Absent
         \/ p.plan = <<WriteStep(a.path, ws[a.path])>> /\ WriteStep(a.path, ws[a.path]) \in Action
<1>1. a \in Action /\ a.path \in Paths /\ ws[a.path] \in Content /\ Absent \in Content
  BY ActionsAssumption DEF Action, Content
<1>2. DeleteStep(a.path) \in Action /\ WriteStep(a.path, ws[a.path]) \in Action
  BY <1>1 DEF DeleteStep, WriteStep, Action, ActionKind
<1>3. ~Irreversible(TRUE).reversible /\ ~Irreversible(FALSE).reversible
  BY DEF Irreversible
<1>4. \A plan, e : ReversibleBy(e, plan).plan = plan
  BY DEF ReversibleBy
<1> HIDE DEF DeleteStep, WriteStep
<1>5. CASE p \in PreparedByRead(a, ws)
  <2>1. p = Irreversible(TRUE) \/ p = Irreversible(FALSE)
        \/ p = ReversibleBy(TRUE, <<WriteStep(a.path, ws[a.path])>>)
    BY <1>5 DEF PreparedByRead
  <2> QED
    BY <1>2, <1>3, <1>4, <2>1
<1>6. CASE p \in PreparedAtOnce(a, ws) /\ a.kind = "file_write"
  <2>1. p = Irreversible(FALSE)
        \/ (p = ReversibleBy(FALSE, <<DeleteStep(a.path)>>) /\ ws[a.path] = Absent)
    BY <1>6 DEF PreparedAtOnce
  <2> QED
    BY <1>2, <1>3, <1>4, <2>1
<1>7. CASE p \in PreparedAtOnce(a, ws) /\ a.kind = "file_delete"
  <2>1. p = Irreversible(FALSE) \/ (p = ReversibleBy(FALSE, <<>>) /\ ws[a.path] = Absent)
    BY <1>7 DEF PreparedAtOnce
  <2> QED
    BY <1>3, <1>4, <1>7, <2>1
<1> QED
  BY <1>5, <1>6, <1>7 DEF FileKinds

LEMMA AuthoriseRestorable ==
  ASSUME RInv, IInv', NEW t \in Tasks, NEW a \in Actions,
         NEW p \in PreparedAtOnce(a, workspace) \cup PreparedByRead(a, workspace),
         pc[t] \in {"idle", "preparing"}, action' = [action EXCEPT ![t] = a],
         Authorise(t, a, p), workspace' = workspace
  PROVE  RInv'
<1>1. TypeOK /\ status[t] = "none"
  BY DEF RInv, IInv, Shape
<1>2. /\ preparation' = [preparation EXCEPT ![t] = p]
      /\ origin' = [origin EXCEPT ![t] = workspace[a.path]]
      /\ disturbed' = disturbed \ {t}
  BY DEF Authorise
<1>3. /\ action'[t] = a /\ preparation'[t] = p /\ origin'[t] = workspace[a.path]
      /\ \A u \in Tasks \ {t} :
           action'[u] = action[u] /\ preparation'[u] = preparation[u] /\ origin'[u] = origin[u]
  BY <1>1, <1>2 DEF TypeOK
<1>4. Reached(t)
  BY <1>1, <1>3, AuthoriseReaches
<1>5. ASSUME a.kind \in FileKinds PROVE PlanFits(t)' /\ AtPath(t)' = origin'[t]
  <2>1. p.reversible =>
          \/ p.plan = <<>> /\ a.kind = "file_delete" /\ workspace[a.path] = Absent
          \/ /\ p.plan = <<DeleteStep(a.path)>> /\ DeleteStep(a.path) \in Action
             /\ workspace[a.path] = Absent
          \/ /\ p.plan = <<WriteStep(a.path, workspace[a.path])>>
             /\ WriteStep(a.path, workspace[a.path]) \in Action
    BY <1>1, <1>5, PreparedFits DEF TypeOK
  <2>2. PlanFits(t)'
    BY <1>3, <2>1 DEF PlanFits, PutsBack
  <2> QED
    BY <1>3, <2>2 DEF AtPath
<1> QED
  BY <1>1, <1>2, <1>3, <1>4, <1>5, ReachedKeeps

\* The answer, or the silence, of the gate.
LEMMA AskingReaches ==
  ASSUME RInv, IInv', NEW t \in Tasks, pc[t] = "asking", Reached(t),
         UNCHANGED <<workspace, action, preparation, origin, disturbed>>
  PROVE  RInv'
<1>1. status[t] = "none"
  BY DEF RInv, IInv, Shape
<1>2. action[t].kind \in FileKinds =>
        PlanFits(t) /\ (t \notin disturbed => AtPath(t) = origin[t])
  BY DEF RInv, Restorable, FileFollows
<1>3. action'[t].kind \in FileKinds =>
        PlanFits(t)' /\ (t \notin disturbed' => AtPath(t)' = origin'[t])
  BY <1>2 DEF PlanFits, PutsBack, AtPath
<1> QED
  BY <1>1, <1>3, ReachedKeeps

LEMMA GateRestorable ==
  ASSUME RInv, IInv', NEW t \in Tasks, GateAnswers(t) \/ GateTimesOut(t)
  PROVE  RInv'
<1>1. /\ pc[t] = "asking" /\ TypeOK
      /\ UNCHANGED <<workspace, action, preparation, origin, disturbed>>
  BY DEF GateAnswers, GateTimesOut, RefuseInSilence, historyVars, RInv, IInv
<1>2. Reached(t)
  <2>1. CASE GateTimesOut(t)
    BY <1>1, <2>1, FinishReaches DEF GateTimesOut, RefuseInSilence
  <2>2. CASE GateAnswers(t) /\ answer[t] = "yes"
    BY <1>1, <2>2, ProceedReaches DEF GateAnswers
  <2>3. CASE GateAnswers(t) /\ answer[t] # "yes"
    BY <1>1, <2>3, FinishReaches DEF GateAnswers
  <2> QED
    BY <2>1, <2>2, <2>3
<1> QED
  BY <1>1, <1>2, AskingReaches

LEMMA SubmitRestorable ==
  ASSUME RInv, IInv', NEW t \in Tasks, NEW a \in Actions, Submit(t, a)
  PROVE  RInv'
<1>1. CASE SubmitPrepared(t, a)
  <2>1. PICK p \in PreparedAtOnce(a, workspace) : Authorise(t, a, p)
    BY <1>1 DEF SubmitPrepared
  <2> QED
    BY <1>1, <2>1, AuthoriseRestorable DEF SubmitPrepared
<1>2. CASE SubmitUnhandled(t, a) \/ SubmitReading(t, a)
  <2>0. /\ pc[t] = "idle" /\ TypeOK
        /\ action' = [action EXCEPT ![t] = a]
        /\ UNCHANGED <<workspace, preparation, undo, worker, status, origin, disturbed>>
    BY <1>2 DEF SubmitUnhandled, SubmitReading, historyVars, RInv, IInv
  <2>a. \/ pc' = [pc EXCEPT ![t] = "raised"]
        \/ pc' = [pc EXCEPT ![t] = "preparing"]
    BY <1>2 DEF SubmitUnhandled, SubmitReading
  <2>b. NotYetPrepared(t) /\ status[t] = "none"
    BY <2>0 DEF RInv, IInv, Shape
  <2>1. /\ ~preparation[t].reversible /\ pc'[t] \in {"raised", "preparing"}
        /\ \A u \in Tasks \ {t} : pc'[u] = pc[u] /\ action'[u] = action[u]
    BY <2>0, <2>a, <2>b DEF TypeOK, NotYetPrepared
  <2>2. Alone(t)
    BY <2>0, <2>1 DEF Alone, Same
  <2>3. Restorable(t)' /\ NotYetPrepared(t)'
    BY <2>0, <2>b, <2>1 DEF Restorable, NotYetPrepared, PlanFits, FileFollows
  <2> QED
    BY <2>2, <2>3, AloneKeeps
<1> QED
  BY <1>1, <1>2 DEF Submit

LEMMA FinishPreparingRestorable ==
  ASSUME RInv, IInv', NEW t \in Tasks, FinishPreparing(t)
  PROVE  RInv'
<1>1. action[t] \in Actions /\ action' = [action EXCEPT ![t] = action[t]]
  BY DEF FinishPreparing, RInv, IInv, TypeOK, Shape
<1>2. PICK p \in PreparedByRead(action[t], workspace) : Authorise(t, action[t], p)
  BY DEF FinishPreparing
<1> QED
  BY <1>1, <1>2, AuthoriseRestorable DEF FinishPreparing

-----------------------------------------------------------------------------
(* The worker *)

\* How a file step ends: with its effect, or with an error; a failed deletion
\* has changed nothing.
LEMMA FileStepEnds ==
  ASSUME NEW a \in Action, a.kind \in FileKinds, NEW ws \in [Paths -> Content],
         NEW o \in Outcomes(a, ws)
  PROVE  \/ o.result = "ok" /\ o.workspace[a.path] = StepResult(a)
         \/ /\ o.result = "error"
            /\ a.kind = "file_delete" => o.workspace[a.path] = ws[a.path]
<1>1. a.path \in Paths
  BY DEF Action
<1>2. CASE a.kind = "file_write"
  BY <1>1, <1>2 DEF Outcomes, WriteOutcomes, Put, Ends, StepResult
<1>3. CASE a.kind = "file_delete"
  BY <1>1, <1>3 DEF Outcomes, DeleteOutcomes, Put, Ends, StepResult
<1> QED
  BY <1>2, <1>3 DEF FileKinds

LEMMA WorkerRestorable ==
  ASSUME RInv, IInv', NEW t \in Tasks, WorkerEnds(t)
  PROVE  RInv'
<1>1. PICK o \in Outcomes(StepOf(t), workspace) :
        /\ workspace' = o.workspace
        /\ worker' = [worker EXCEPT ![t] = o.result]
        /\ disturbed' = disturbed \cup
             {u \in Tasks \ {t} : /\ action[u] # NoAction
                                  /\ o.workspace[action[u].path] # workspace[action[u].path]}
  BY DEF WorkerEnds
<1>2. /\ TypeOK /\ worker[t] = "queued"
      /\ UNCHANGED <<pc, action, preparation, undo, status, origin>>
  BY DEF WorkerEnds, RInv, IInv
<1>3. ASSUME NEW u \in Tasks \ {t} PROVE Restorable(u)' /\ NotYetPrepared(u)'
  <2>1. Restorable(u) /\ NotYetPrepared(u)
    BY DEF RInv
  <2>2. Same(u)
    BY <1>1, <1>2 DEF Same, TypeOK
  <2>3. u \in disturbed => u \in disturbed'
    BY <1>1
  <2>4. ASSUME u \notin disturbed', action[u].kind \in FileKinds
        PROVE  workspace'[action[u].path] = workspace[action[u].path]
    <3>1. action[u] # NoAction
      BY <2>4 DEF NoAction, FileKinds
    <3> QED
      BY <1>1, <2>4, <3>1
  <2> QED
    BY <2>1, <2>2, <2>3, <2>4, SameKeeps
<1>4. NotYetPrepared(t)'
  BY <1>2 DEF RInv, NotYetPrepared
<1>5. status[t] = "none" /\ pc[t] \in {"executing", "compensating", "cancelled"}
      /\ worker'[t] = o.result
  BY <1>1, <1>2 DEF RInv, IInv, Shape, TypeOK
<1>6. t \in disturbed <=> t \in disturbed'
  BY <1>1
<1>7. ASSUME action[t].kind \in FileKinds PROVE Restorable(t)'
  <2>1. /\ Restorable(t) /\ PlanFits(t) /\ PlanFits(t)'
        /\ action[t] \in Action /\ workspace \in [Paths -> Content]
        /\ workspace' = o.workspace
    <3>1. Restorable(t)
      BY DEF RInv
    <3>2. PlanFits(t) /\ PlanFits(t)'
      BY <1>2, <1>7, <3>1 DEF Restorable, PlanFits, PutsBack
    <3>3. action[t] # NoAction
      BY <1>7 DEF NoAction, FileKinds
    <3> QED
      BY <1>1, <1>2, <3>1, <3>2, <3>3, ActionsAssumption DEF TypeOK
  <2>2. CASE pc[t] = "executing"
    <3>1. StepOf(t) = action[t]
      BY <2>2 DEF StepOf, RInv, IInv, Shape
    <3>2. \/ o.result = "ok" /\ o.workspace[action[t].path] = StepResult(action[t])
          \/ /\ o.result = "error"
             /\ action[t].kind = "file_delete"
                  => o.workspace[action[t].path] = workspace[action[t].path]
      BY <1>7, <2>1, <3>1, FileStepEnds
    <3>3. ASSUME t \notin disturbed PROVE FileFollows(t)'
      <4>1. workspace[action[t].path] = origin[t]
        BY <1>2, <1>7, <2>1, <2>2, <3>3 DEF Restorable, FileFollows, AtPath
      <4> QED
        BY <1>2, <1>5, <2>1, <2>2, <3>2, <4>1 DEF FileFollows, AtPath, StepResult
    <3> QED
      BY <1>2, <1>6, <1>7, <2>1, <2>2, <3>3 DEF Restorable
  <2>3. CASE pc[t] = "compensating"
    <3>1. PICK step \in Action : undo[t] = <<step>> /\ PutsBack(t, step)
      BY <1>7, <2>1, <2>3 DEF Restorable
    <3>2. StepOf(t) = step
      BY <3>1 DEF StepOf
    <3>3. step.kind \in FileKinds /\ step.path = action[t].path /\ StepResult(step) = origin[t]
      BY <3>1 DEF PutsBack, DeleteStep, WriteStep, FileKinds, StepResult
    <3>4. \/ o.result = "ok" /\ o.workspace[action[t].path] = origin[t]
          \/ o.result = "error"
      BY <2>1, <3>2, <3>3, FileStepEnds
    <3>5. FileFollows(t)'
      BY <1>2, <1>5, <2>1, <2>3, <3>4 DEF FileFollows, AtPath
    <3>6. undo'[t] = <<step>> /\ PutsBack(t, step)'
      BY <1>2, <3>1 DEF PutsBack
    <3> QED
      BY <1>2, <1>5, <2>1, <3>4, <3>5, <3>6 DEF Restorable
  <2>4. CASE pc[t] = "cancelled"
    BY <1>2, <1>5, <2>1, <2>4 DEF Restorable, FileFollows
  <2> QED
    BY <1>5, <2>2, <2>3, <2>4
<1>8. Restorable(t)'
  BY <1>2, <1>7 DEF Restorable
<1> QED
  BY <1>3, <1>4, <1>8 DEF RInv

-----------------------------------------------------------------------------
(* From the worker to the record *)

\* The end of a submission: what its status claims is what is at the path.
LEMMA EndKeeps ==
  ASSUME RInv, IInv', NEW t \in Tasks, Alone(t),
         pc'[t] \in {"journalling", "done", "cancelled"},
         action'[t] = action[t], preparation'[t] = preparation[t], origin'[t] = origin[t],
         t \in disturbed <=> t \in disturbed',
         action[t].kind \in FileKinds /\ t \notin disturbed =>
           /\ status'[t] = "rolled_back" => AtPath(t) = origin[t]
           /\ status'[t] = "succeeded" => AtPath(t) = StepResult(action[t])
  PROVE  RInv'
<1>1. NotYetPrepared(t)'
  BY DEF NotYetPrepared
<1>2. ASSUME action[t].kind \in FileKinds PROVE Restorable(t)'
  <2>1. PlanFits(t)'
    BY <1>2 DEF RInv, Restorable, PlanFits, PutsBack
  <2>2. AtPath(t)' = AtPath(t)
    BY DEF AtPath, Alone
  <2>3. StepResult(action'[t]) = StepResult(action[t])
    OBVIOUS
  <2>4. ASSUME t \notin disturbed PROVE FileFollows(t)'
    BY <1>2, <2>2, <2>3, <2>4 DEF FileFollows
  <2> QED
    BY <2>1, <2>4 DEF Restorable
<1>3. Restorable(t)'
  BY <1>2 DEF Restorable
<1> QED
  BY <1>1, <1>3, AloneKeeps

LEMMA FinishKeeps ==
  ASSUME RInv, IInv', NEW t \in Tasks, NEW s \in Status, NEW perm, Finish(t, s, perm),
         UNCHANGED <<workspace, action, preparation, origin, disturbed>>,
         action[t].kind \in FileKinds /\ t \notin disturbed =>
           /\ s = "rolled_back" => AtPath(t) = origin[t]
           /\ s = "succeeded" => AtPath(t) = StepResult(action[t])
  PROVE  RInv'
<1>1. TypeOK
  BY DEF RInv, IInv
<1>2. pc'[t] = "journalling" /\ status'[t] = s
  BY <1>1 DEF Finish, TypeOK
<1>3. Alone(t)
  BY <1>1 DEF Finish, TypeOK, Alone, Same
<1> QED
  BY <1>2, <1>3, EndKeeps

LEMMA ResumeExecuteRestorable ==
  ASSUME RInv, IInv', NEW t \in Tasks, ResumeExecute(t)
  PROVE  RInv'
<1>1. /\ TypeOK /\ pc[t] = "executing" /\ worker[t] \in CallResult
      /\ UNCHANGED <<workspace, action, preparation, origin, disturbed>>
  BY DEF ResumeExecute, RInv, IInv
<1>2. action[t].kind \in FileKinds => PlanFits(t) /\ (t \notin disturbed => FileFollows(t))
  BY DEF RInv, Restorable
<1>3. CASE worker[t] = "ok"
  <2>1. Finish(t, "succeeded", permit[t])
    BY <1>3 DEF ResumeExecute
  <2> QED
    BY <1>1, <1>2, <1>3, <2>1, FinishKeeps DEF FileFollows, Status
<1>4. CASE worker[t] = "unsuccessful"
  <2>1. Finish(t, "failed", permit[t])
    BY <1>4 DEF ResumeExecute
  <2> QED
    BY <1>1, <2>1, FinishKeeps DEF Status
<1>5. CASE worker[t] = "error" /\ ~preparation[t].reversible
  <2>1. Finish(t, "failed", permit[t])
    BY <1>5 DEF ResumeExecute, CompensateOne
  <2> QED
    BY <1>1, <2>1, FinishKeeps DEF Status
<1>6. CASE worker[t] = "error" /\ preparation[t].reversible
  <2> DEFINE steps == preparation[t].plan
  <2>1. RunRollback(t, steps)
    BY <1>6 DEF ResumeExecute, CompensateOne
  <2>2. CASE steps = <<>>
    <3>1. Finish(t, "rolled_back", permit[t])
      BY <2>1, <2>2 DEF RunRollback
    <3>2. action[t].kind \in FileKinds => action[t].kind = "file_delete"
      BY <1>2, <1>6, <2>2 DEF PlanFits
    <3> QED
      BY <1>1, <1>2, <1>6, <3>1, <3>2, FinishKeeps DEF FileFollows, Status
  <2>3. CASE steps # <<>> /\ Head(steps).kind \notin config.handlers
    <3>1. Finish(t, "failed", permit[t])
      BY <2>1, <2>3 DEF RunRollback
    <3> QED
      BY <1>1, <3>1, FinishKeeps DEF Status
  <2>4. CASE steps # <<>> /\ Head(steps).kind \in config.handlers
    <3>1. /\ pc'     = [pc EXCEPT ![t] = "compensating"]
          /\ worker' = [worker EXCEPT ![t] = Started(Head(steps).kind)]
          /\ undo'   = [undo EXCEPT ![t] = steps]
          /\ status' = status
      BY <2>1, <2>4 DEF RunRollback
    <3>2. Alone(t) /\ NotYetPrepared(t)'
      BY <1>1, <3>1 DEF TypeOK, Alone, Same, NotYetPrepared
    <3>3. /\ pc'[t] = "compensating" /\ undo'[t] = steps
          /\ worker'[t] = Started(Head(steps).kind)
          /\ status'[t] = "none"
      BY <1>1, <3>1 DEF TypeOK, RInv, IInv, Shape
    <3>4. ASSUME action[t].kind \in FileKinds PROVE Restorable(t)'
      <4>1. PlanFits(t)'
        BY <1>1, <1>2, <3>4 DEF PlanFits, PutsBack
      <4>2. PICK step \in Action : steps = <<step>> /\ PutsBack(t, step)
        BY <1>2, <1>6, <2>4, <3>4 DEF PlanFits
      <4>3. worker'[t] = "queued"
        BY <3>3, <4>2 DEF PutsBack, DeleteStep, WriteStep, Started
      <4>4. PutsBack(t, step)'
        BY <1>1, <4>2 DEF PutsBack
      <4>5. undo'[t] = <<step>>
        BY <3>3, <4>2
      <4> QED
        BY <3>3, <4>1, <4>3, <4>4, <4>5 DEF Restorable, FileFollows
    <3>5. Restorable(t)'
      BY <1>1, <3>4 DEF Restorable
    <3> QED
      BY <3>2, <3>5, AloneKeeps
  <2> QED
    BY <2>2, <2>3, <2>4
<1> QED
  BY <1>1, <1>3, <1>4, <1>5, <1>6 DEF CallResult

LEMMA ResumeRollbackRestorable ==
  ASSUME RInv, IInv', NEW t \in Tasks, ResumeRollback(t)
  PROVE  RInv'
<1>1. /\ TypeOK /\ pc[t] = "compensating" /\ worker[t] \in CallResult
      /\ UNCHANGED <<workspace, action, preparation, origin, disturbed>>
  BY DEF ResumeRollback, historyVars, RInv, IInv
<1>2. CASE worker[t] = "error"
  <2>1. Finish(t, "failed", permit[t])
    BY <1>2 DEF ResumeRollback
  <2> QED
    BY <1>1, <2>1, FinishKeeps DEF Status
<1>3. CASE worker[t] # "error" /\ action[t].kind \in FileKinds
  <2>1. PICK step \in Action : undo[t] = <<step>>
    BY <1>1, <1>3 DEF RInv, Restorable
  <2>2. worker[t] = "ok"
    BY <1>1, <1>3 DEF RInv, Restorable, CallResult
  <2>3. Tail(undo[t]) = <<>>
    BY <2>1
  <2>4. Finish(t, "rolled_back", permit[t])
    BY <1>3, <2>3 DEF ResumeRollback, RunRollback
  <2>5. t \notin disturbed => AtPath(t) = origin[t]
    BY <1>1, <1>3, <2>2 DEF RInv, Restorable, FileFollows
  <2> QED
    BY <1>1, <2>4, <2>5, FinishKeeps DEF Status
<1>4. CASE worker[t] # "error" /\ action[t].kind \notin FileKinds
  <2>1. RunRollback(t, Tail(undo[t]))
    BY <1>4 DEF ResumeRollback
  <2>2. CASE pc'[t] = "compensating" /\ Alone(t)
    <3>1. Restorable(t)' /\ NotYetPrepared(t)'
      BY <1>1, <1>4, <2>2 DEF Restorable, NotYetPrepared
    <3> QED
      BY <2>2, <3>1, AloneKeeps
  <2>3. CASE \E s \in {"rolled_back", "failed"} : Finish(t, s, permit[t])
    BY <1>1, <1>4, <2>3, FinishKeeps DEF Status
  <2>4. \/ pc'[t] = "compensating" /\ Alone(t)
        \/ \E s \in {"rolled_back", "failed"} : Finish(t, s, permit[t])
    BY <1>1, <2>1 DEF RunRollback, TypeOK, Alone, Same
  <2> QED
    BY <2>2, <2>3, <2>4
<1> QED
  BY <1>2, <1>3, <1>4

LEMMA JournalRestorable ==
  ASSUME RInv, IInv', NEW t \in Tasks, Journal(t) \/ LoseRecord(t) \/ Cancel(t)
  PROVE  RInv'
<1>1. /\ TypeOK
      /\ UNCHANGED <<workspace, action, preparation, undo, status, origin, disturbed>>
  BY DEF Journal, LoseRecord, Cancel, Unwind, historyVars, RInv, IInv
<1>2. \/ pc' = [pc EXCEPT ![t] = "done"]
      \/ pc' = [pc EXCEPT ![t] = "cancelled"]
  BY DEF Journal, LoseRecord, Cancel, Unwind
<1>3. worker' = worker \/ worker' = [worker EXCEPT ![t] = "none"]
  BY DEF Journal, LoseRecord, Cancel, Unwind
<1>4. Alone(t) /\ pc'[t] \in {"done", "cancelled"}
  BY <1>1, <1>2, <1>3 DEF TypeOK, Alone, Same
<1>5. action[t].kind \in FileKinds /\ t \notin disturbed =>
        /\ status'[t] = "rolled_back" => AtPath(t) = origin[t]
        /\ status'[t] = "succeeded" => AtPath(t) = StepResult(action[t])
  BY <1>1 DEF RInv, Restorable, FileFollows
<1> QED
  BY <1>1, <1>4, <1>5, EndKeeps

-----------------------------------------------------------------------------
(* The invariant *)

LEMMA QuietRestorable ==
  ASSUME RInv, IInv',
         UNCHANGED <<workspace, pc, action, preparation, undo, worker, status, origin, disturbed>>
  PROVE  RInv'
<1>1. ASSUME NEW u \in Tasks PROVE Restorable(u)' /\ NotYetPrepared(u)'
  <2>1. Restorable(u) /\ NotYetPrepared(u) /\ Same(u)
    BY DEF RInv, Same
  <2> QED
    BY <2>1, SameKeeps
<1> QED
  BY <1>1 DEF RInv

LEMMA RInitEstablishes == Init => RInv
<1> SUFFICES ASSUME Init PROVE RInv
  OBVIOUS
<1>1. ASSUME NEW t \in Tasks PROVE Restorable(t) /\ NotYetPrepared(t)
  BY DEF Init, Restorable, NotYetPrepared, NoAction, NoPreparation, FileKinds
<1> QED
  BY <1>1, InitEstablishes DEF RInv

LEMMA RNextKeeps == RInv /\ [Next]_vars => RInv'
<1> SUFFICES ASSUME RInv, [Next]_vars PROVE RInv'
  OBVIOUS
<1>1. IInv'
  BY NextKeeps DEF RInv
<1>2. CASE UNCHANGED vars
  BY <1>1, <1>2, QuietRestorable DEF vars
<1>3. CASE Next
  <2>1. PICK t \in Tasks :
          \/ \E a \in Actions : Submit(t, a)
          \/ \E yes \in BOOLEAN : Resolve(t, yes)
          \/ TaskStep(t)
          \/ Cancel(t)
    BY <1>3 DEF Next
  <2>2. CASE \E a \in Actions : Submit(t, a)
    BY <1>1, <2>2, SubmitRestorable
  <2>3. CASE \E yes \in BOOLEAN : Resolve(t, yes)
    BY <1>1, <2>3, QuietRestorable DEF Resolve
  <2>4. CASE TaskStep(t)
    BY <1>1, <2>4, FinishPreparingRestorable, GateRestorable, WorkerRestorable,
       ResumeExecuteRestorable, ResumeRollbackRestorable, JournalRestorable DEF TaskStep
  <2>5. CASE Cancel(t)
    BY <1>1, <2>5, JournalRestorable
  <2> QED
    BY <2>1, <2>2, <2>3, <2>4, <2>5
<1> QED
  BY <1>2, <1>3

\* A file action recorded as rolled back left its file as its preparation found
\* it, and one recorded as succeeded left its own content, unless another
\* task's worker has changed that file since: for any number of tasks, however
\* submit, the worker threads, the gate and cancellation interleave.
THEOREM RolledBackMeansRestored == Spec => []RollbackRestores
<1>1. RInv => RollbackRestores
  BY DEF RInv, Restorable, FileFollows, AtPath, RollbackRestores
<1> QED
  BY RInitEstablishes, RNextKeeps, <1>1, PTL DEF Spec
=============================================================================
