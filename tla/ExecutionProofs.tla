-------------------------- MODULE ExecutionProofs --------------------------
(***************************************************************************)
(* Proofs about ExecutionEngine for any set of tasks, paths, texts,        *)
(* configurations and actions, and that it implements ActionPipeline.      *)
(***************************************************************************)
EXTENDS ExecutionEngine, SequenceTheorems, TLAPS

-----------------------------------------------------------------------------
(* What the pure operators return. *)

LEMMA PreparedAtOnceType ==
  ASSUME NEW a \in Actions, NEW ws \in [Paths -> Content],
         NEW p \in PreparedAtOnce(a, ws)
  PROVE  p \in Preparation
<1>1. a \in Action /\ a.path \in Paths
  BY ActionsAssumption DEF Action
<1>2. /\ DeleteStep(a.path) \in Action
      /\ \A plan \in CustomPlans : plan \in Seq(Action)
  BY <1>1, CustomPlansAssumption DEF DeleteStep, Action, ActionKind, Content
<1>3. /\ <<>> \in Seq(Action)
      /\ <<DeleteStep(a.path)>> \in Seq(Action)
  BY <1>2
<1>4. /\ Irreversible(FALSE) \in Preparation
      /\ ReversibleBy(FALSE, <<>>) \in Preparation
      /\ ReversibleBy(FALSE, <<DeleteStep(a.path)>>) \in Preparation
      /\ \A plan \in CustomPlans : ReversibleBy(FALSE, plan) \in Preparation
  BY <1>2, <1>3 DEF Preparation, Irreversible, ReversibleBy
<1> HIDE DEF Preparation, Irreversible, ReversibleBy
<1>5. CASE a.kind = "custom"
  <2>1. p \in {Irreversible(FALSE)} \cup {ReversibleBy(FALSE, plan) : plan \in CustomPlans}
    BY <1>5 DEF PreparedAtOnce
  <2> QED
    BY <2>1, <1>4
<1>6. CASE a.kind # "custom"
  <2>1. p \in {Irreversible(FALSE), ReversibleBy(FALSE, <<>>),
               ReversibleBy(FALSE, <<DeleteStep(a.path)>>)}
    BY <1>6 DEF PreparedAtOnce, FileKinds
  <2> QED
    BY <2>1, <1>4
<1> QED
  BY <1>5, <1>6

LEMMA PreparedByReadType ==
  ASSUME NEW a \in Actions, NEW ws \in [Paths -> Content],
         NEW p \in PreparedByRead(a, ws)
  PROVE  p \in Preparation
<1>1. a \in Action /\ a.path \in Paths /\ a.kind \in ActionKind
  BY ActionsAssumption DEF Action
<1>2. WriteStep(a.path, ws[a.path]) \in Action
  BY <1>1 DEF WriteStep, Action, ActionKind
<1>3. <<>> \in Seq(Action) /\ <<WriteStep(a.path, ws[a.path])>> \in Seq(Action)
  BY <1>2
<1>4. /\ Irreversible(a.kind = "file_write") \in Preparation
      /\ ReversibleBy(TRUE, <<WriteStep(a.path, ws[a.path])>>) \in Preparation
  BY <1>3 DEF Preparation, Irreversible, ReversibleBy
<1> QED
  BY <1>4 DEF PreparedByRead

LEMMA VerifyType ==
  ASSUME NEW a \in Actions, NEW p \in Preparation
  PROVE  Verify(a, p) \in Verdict
<1>1. a \in Action /\ a.defects \in SUBSET Defect
  BY ActionsAssumption DEF Action
<1> QED
  BY <1>1 DEF Verify, Verdict, CommandFindings, ReversibilityFindings,
              DestructiveFindings, FindingCode, Preparation

LEMMA OutcomesType ==
  ASSUME NEW a \in Action \cup {NoAction}, NEW ws \in [Paths -> Content],
         NEW o \in Outcomes(a, ws)
  PROVE  o.workspace \in [Paths -> Content] /\ o.result \in CallResult
<1>1. CASE a = NoAction
  BY <1>1 DEF NoAction, Outcomes, Ends, CallResult
<1>2. CASE a \in Action
  <2>1. a.path \in Paths /\ a.content \in Content /\ Absent \in Content /\ Torn \in Content
    BY <1>2 DEF Action, Content
  <2>2. CASE a.kind = "file_write"
    BY <2>1, <2>2 DEF Outcomes, WriteOutcomes, Put, Ends, CallResult
  <2>3. CASE a.kind = "file_delete"
    BY <2>1, <2>3 DEF Outcomes, DeleteOutcomes, Put, Ends, CallResult
  <2>4. CASE a.kind = "shell_command"
    <3>1. o \in ShellOutcomes(ws)
      BY <2>4 DEF Outcomes
    <3>2. Texts \cup {Absent} \subseteq Content
      BY DEF Content
    <3>3. ASSUME NEW q \in Paths, NEW c \in Texts \cup {Absent}
          PROVE  Put(ws, q, c) \in [Paths -> Content]
      BY <3>2 DEF Put
    <3>4. \E r \in {"ok", "error"}, w \in [Paths -> Content] : o = Ends(r, w)
      <4>1. CASE o \in {Ends(r, ws) : r \in {"ok", "error"}}
        BY <4>1
      <4>2. CASE o \in {Ends(r, Put(ws, q, c)) : r \in {"ok", "error"}, q \in Paths,
                                               c \in Texts \cup {Absent}}
        <5>1. PICK r \in {"ok", "error"}, q \in Paths, c \in Texts \cup {Absent} :
                   o = Ends(r, Put(ws, q, c))
          BY <4>2
        <5> QED
          BY <5>1, <3>3
      <4> QED
        BY <3>1, <4>1, <4>2 DEF ShellOutcomes
    <3> QED
      BY <3>4 DEF Ends, CallResult
  <2>5. CASE a.kind = "custom"
    BY <2>5 DEF Outcomes, Ends, CallResult
  <2>6. CASE a.kind \notin {"file_write", "file_delete", "shell_command", "custom"}
    BY <2>6 DEF Outcomes, Ends, CallResult
  <2> QED
    BY <2>2, <2>3, <2>4, <2>5, <2>6
<1> QED
  BY <1>1, <1>2

-----------------------------------------------------------------------------
(* The inductive invariant. *)

LEMMA InitEstablishes == Init => IInv
<1> SUFFICES ASSUME Init PROVE IInv
  OBVIOUS
<1>1. Absent \in Content /\ Content \ {Torn} \subseteq Content
  BY DEF Content
<1>2. TypeOK
  BY <1>1 DEF Init, TypeOK, Ended, Suspended, Preparation, Verdict, Permit, NoPreparation,
              NoVerdict, NoPermit
<1>3. \A t \in Tasks : Shape(t) /\ BeforePermit(t) /\ BeforeRecord(t)
  BY DEF Init, Shape, BeforePermit, BeforeRecord, NoPermit
<1>4. EffectsAuthorised /\ GrantsEarned /\ OpenApprovalsExact
  BY DEF Init, EffectsAuthorised, GrantsEarned, OpenApprovalsExact, NoPermit
<1>5. RecordsTruthful /\ OneRecordEach
  BY DEF Init, RecordsTruthful, OneRecordEach
<1> QED
  BY <1>2, <1>3, <1>4, <1>5 DEF IInv

LEMMA SubmitUnhandledKeeps ==
  ASSUME IInv, NEW t \in Tasks, NEW a \in Actions, SubmitUnhandled(t, a)
  PROVE  IInv'
<1>0. a # NoAction
  BY ActionsAssumption DEF NoAction, Action, ActionKind
<1>1. TypeOK'
  BY DEF IInv, TypeOK, SubmitUnhandled, gateVars, historyVars, Ended
<1>2. ASSUME NEW u \in Tasks PROVE (Shape(u) /\ BeforePermit(u) /\ BeforeRecord(u))'
  BY <1>0, <1>1 DEF IInv, TypeOK, SubmitUnhandled, gateVars, historyVars, Shape, BeforePermit,
         BeforeRecord, MustRefuse, Blocked, Blocking, RiskWithin
<1>3. (EffectsAuthorised /\ GrantsEarned /\ OpenApprovalsExact)'
  BY <1>1 DEF IInv, TypeOK, SubmitUnhandled, gateVars, historyVars, EffectsAuthorised, GrantsEarned,
         OpenApprovalsExact, MustRefuse, Blocked, Blocking, RiskWithin
<1>4. (RecordsTruthful /\ OneRecordEach)'
  BY <1>1 DEF IInv, TypeOK, SubmitUnhandled, gateVars, historyVars, RecordsTruthful, OneRecordEach
<1> QED
  BY <1>1, <1>2, <1>3, <1>4 DEF IInv

-----------------------------------------------------------------------------
(* Submissions up to the permit.  Deciding(t, a, p, v) is what the actions  *)
(* that reach a decision have in common: the locals they set, and what they *)
(* leave alone.                                                             *)

Deciding(t, a, p, v) ==
  /\ pc[t] \in {"idle", "preparing", "asking"}
  /\ action' = [action EXCEPT ![t] = a]
  /\ preparation' = [preparation EXCEPT ![t] = p]
  /\ verdict' = [verdict EXCEPT ![t] = v]
  /\ origin' \in [Tasks -> Content]
  /\ disturbed' \subseteq Tasks
  /\ UNCHANGED <<config, workspace, journal, answer, approved, ran, lost>>

\* A permit that may be given for preparation p and verdict v.
Earned(t, p, v, perm) ==
  perm.granted =>
    \/ /\ perm.mode = "automatic"
       /\ p.reversible
       /\ RiskWithin(v, config.auto_approve_max_risk)
    \/ /\ perm.mode = "confirm"
       /\ config.default_mode # "deny"
       /\ config.gate = "web" => t \in approved \ silenced'

LEMMA DeclineKeeps ==
  ASSUME IInv, NEW t \in Tasks, NEW a \in Actions, NEW p \in Preparation, NEW v \in Verdict,
         NEW s \in {"rejected", "denied", "skipped"}, NEW perm \in Permit,
         Deciding(t, a, p, v), Finish(t, s, perm), Earned(t, p, v, perm),
         pending' = pending \ {t}, silenced' = silenced \/ silenced' = silenced \cup {t},
         silenced' # silenced => ~perm.granted
  PROVE  IInv'
<1>0. a # NoAction
  BY ActionsAssumption DEF NoAction, Action, ActionKind
<1>1. TypeOK'
  BY DEF IInv, TypeOK, Deciding, Finish, Suspended, Status
<1>2. ASSUME NEW u \in Tasks PROVE (Shape(u) /\ BeforePermit(u) /\ BeforeRecord(u))'
  BY <1>0, <1>1 DEF IInv, TypeOK, Deciding, Finish, Shape, BeforePermit,
         BeforeRecord, MustRefuse, Blocked, Blocking, RiskWithin
<1>3. EffectsAuthorised'
  BY <1>1 DEF IInv, TypeOK, Deciding, Finish, EffectsAuthorised,
         MustRefuse, Blocked, Blocking, RiskWithin
<1>4. GrantsEarned'
  BY <1>1 DEF IInv, TypeOK, Deciding, Finish, GrantsEarned, Earned, RiskWithin
<1>5. OpenApprovalsExact'
  BY <1>1 DEF IInv, TypeOK, Deciding, Finish, OpenApprovalsExact
<1>6. (RecordsTruthful /\ OneRecordEach)'
  BY <1>1 DEF IInv, TypeOK, Deciding, Finish, RecordsTruthful, OneRecordEach, BeforePermit,
         BeforeRecord
<1> QED
  BY <1>1, <1>2, <1>3, <1>4, <1>5, <1>6 DEF IInv

LEMMA ExecuteKeeps ==
  ASSUME IInv, NEW t \in Tasks, NEW a \in Actions, NEW p \in Preparation, NEW v \in Verdict,
         NEW perm \in Permit,
         Deciding(t, a, p, v), Execute(t, a, perm), perm.granted, Earned(t, p, v, perm),
         ~config.dry_run, ~MustRefuse(config, v),
         pending' = pending \ {t}, UNCHANGED silenced
  PROVE  IInv'
<1>0. a # NoAction
  BY ActionsAssumption DEF NoAction, Action, ActionKind
<1>1. TypeOK'
  BY DEF IInv, TypeOK, Deciding, Execute, Suspended, Started, CallResult
<1>2. ASSUME NEW u \in Tasks PROVE (Shape(u) /\ BeforePermit(u) /\ BeforeRecord(u))'
  BY <1>0, <1>1 DEF IInv, TypeOK, Deciding, Execute, Started, Shape, BeforePermit,
         BeforeRecord, MustRefuse, Blocked, Blocking, RiskWithin
<1>3. EffectsAuthorised'
  BY <1>1 DEF IInv, TypeOK, Deciding, Execute, EffectsAuthorised,
         MustRefuse, Blocked, Blocking, RiskWithin
<1>4. GrantsEarned'
  BY <1>1 DEF IInv, TypeOK, Deciding, Execute, GrantsEarned, Earned, RiskWithin
<1>5. OpenApprovalsExact'
  BY <1>1 DEF IInv, TypeOK, Deciding, Execute, OpenApprovalsExact
<1>6. (RecordsTruthful /\ OneRecordEach)'
  BY <1>1 DEF IInv, TypeOK, Deciding, Execute, RecordsTruthful, OneRecordEach, BeforePermit,
         BeforeRecord, Shape
<1> QED
  BY <1>1, <1>2, <1>3, <1>4, <1>5, <1>6 DEF IInv

LEMMA AskKeeps ==
  ASSUME IInv, NEW t \in Tasks, NEW a \in Actions, NEW p \in Preparation, NEW v \in Verdict,
         Deciding(t, a, p, v), pc[t] \in {"idle", "preparing"},
         pc' = [pc EXCEPT ![t] = "asking"], pending' = pending \cup {t},
         UNCHANGED <<permit, status, worker, undo, silenced>>,
         config.gate = "web", config.default_mode # "deny", ~MustRefuse(config, v)
  PROVE  IInv'
<1>0. a # NoAction
  BY ActionsAssumption DEF NoAction, Action, ActionKind
<1>1. TypeOK'
  BY DEF IInv, TypeOK, Deciding, Suspended
<1>2. ASSUME NEW u \in Tasks PROVE (Shape(u) /\ BeforePermit(u) /\ BeforeRecord(u))'
  BY <1>0, <1>1 DEF IInv, TypeOK, Deciding, Shape, BeforePermit,
         BeforeRecord, MustRefuse, Blocked, Blocking, RiskWithin
<1>3. EffectsAuthorised'
  BY <1>1 DEF IInv, TypeOK, Deciding, EffectsAuthorised, Shape,
         MustRefuse, Blocked, Blocking, RiskWithin
<1>4. GrantsEarned'
  BY <1>1 DEF IInv, TypeOK, Deciding, GrantsEarned, BeforePermit, RiskWithin
<1>5. OpenApprovalsExact'
  BY <1>1 DEF IInv, TypeOK, Deciding, OpenApprovalsExact, BeforePermit
<1>6. (RecordsTruthful /\ OneRecordEach)'
  BY <1>1 DEF IInv, TypeOK, Deciding, RecordsTruthful, OneRecordEach, BeforePermit,
         BeforeRecord, Shape
<1> QED
  BY <1>1, <1>2, <1>3, <1>4, <1>5, <1>6 DEF IInv

\* A grant leads to a dry-run record or to the handler.
LEMMA ProceedKeeps ==
  ASSUME IInv, NEW t \in Tasks, NEW a \in Actions, NEW p \in Preparation, NEW v \in Verdict,
         NEW perm \in Permit,
         Deciding(t, a, p, v), Proceed(t, a, perm), perm.granted, Earned(t, p, v, perm),
         ~MustRefuse(config, v), pending' = pending \ {t}, UNCHANGED silenced
  PROVE  IInv'
<1>1. CASE config.dry_run
  <2>1. Finish(t, "skipped", perm)
    BY <1>1 DEF Proceed
  <2> QED
    BY <2>1, DeclineKeeps
<1>2. CASE ~config.dry_run
  <2>1. Execute(t, a, perm)
    BY <1>2 DEF Proceed
  <2> QED
    BY <1>2, <2>1, ExecuteKeeps
<1> QED
  BY <1>1, <1>2

LEMMA AuthoriseKeeps ==
  ASSUME IInv, NEW t \in Tasks, NEW a \in Actions, NEW p \in Preparation,
         pc[t] \in {"idle", "preparing"}, action' = [action EXCEPT ![t] = a],
         Authorise(t, a, p),
         UNCHANGED <<config, workspace, journal, answer, approved, silenced, ran, lost>>
  PROVE  IInv'
<1> DEFINE v == Verify(a, p)
<1>1. v \in Verdict /\ v.reversible = p.reversible
  BY VerifyType DEF Verify
<1>2. Deciding(t, a, p, v)
  <2>1. a.path \in Paths
    BY ActionsAssumption DEF Action
  <2> QED
    BY <2>1 DEF Deciding, Authorise, IInv, TypeOK
<1>3. t \notin pending
  BY DEF IInv, OpenApprovalsExact
<1>4. config.gate \in {"denying", "approving", "web"}
  BY ConfigAssumption DEF IInv, TypeOK, ExecutionConfig
<1> HIDE DEF v
<1>5. CASE Decision(config, v) = "refuse"
  <2>1. /\ Finish(t, IF Blocked(config, v) THEN "rejected" ELSE "denied", Refused)
        /\ pending' = pending
    BY <1>5 DEF Authorise, v
  <2>2. Refused \in Permit /\ ~Refused.granted
    BY DEF Refused, Permit, PermissionMode
  <2> QED
    BY <1>1, <1>2, <1>3, <2>1, <2>2, DeclineKeeps DEF Earned
<1>6. CASE Decision(config, v) = "proceed"
  <2> DEFINE perm == [granted |-> TRUE, mode |-> "automatic"]
  <2>1. Proceed(t, a, perm) /\ pending' = pending
    BY <1>6 DEF Authorise, v
  <2>2. perm \in Permit
    BY DEF Permit, PermissionMode
  <2>3. ~MustRefuse(config, v) /\ Earned(t, p, v, perm)
    BY <1>1, <1>6 DEF Decision, QualifiesForAutomatic, Earned
  <2> QED
    BY <1>1, <1>2, <1>3, <2>1, <2>2, <2>3, ProceedKeeps
<1>7. CASE Decision(config, v) = "ask"
  <2>1. AskGate(t, a)
    BY <1>7 DEF Authorise, v
  <2>2. ~MustRefuse(config, v) /\ config.default_mode # "deny"
    BY <1>7 DEF Decision
  <2>3. CASE config.gate = "denying"
    <3> DEFINE perm == [granted |-> FALSE, mode |-> "confirm"]
    <3>1. Finish(t, "denied", perm) /\ pending' = pending
      BY <2>1, <2>3 DEF AskGate
    <3>2. perm \in Permit
      BY DEF Permit, PermissionMode
    <3> QED
      BY <1>1, <1>2, <1>3, <3>1, <3>2, DeclineKeeps DEF Earned
  <2>4. CASE config.gate = "approving"
    <3> DEFINE perm == [granted |-> TRUE, mode |-> "confirm"]
    <3>1. Proceed(t, a, perm) /\ pending' = pending
      BY <2>1, <2>4 DEF AskGate
    <3>2. perm \in Permit /\ Earned(t, p, v, perm)
      BY <2>2, <2>4 DEF Permit, PermissionMode, Earned
    <3> QED
      BY <1>1, <1>2, <1>3, <2>2, <3>1, <3>2, ProceedKeeps
  <2>5. CASE config.gate = "web"
    BY <1>1, <1>2, <2>1, <2>2, <2>5, AskKeeps DEF AskGate
  <2> QED
    BY <1>4, <2>3, <2>4, <2>5
<1> QED
  BY <1>5, <1>6, <1>7 DEF Decision

LEMMA SubmitPreparedKeeps ==
  ASSUME IInv, NEW t \in Tasks, NEW a \in Actions, SubmitPrepared(t, a)
  PROVE  IInv'
<1>1. PICK p \in PreparedAtOnce(a, workspace) : Authorise(t, a, p)
  BY DEF SubmitPrepared
<1>2. p \in Preparation
  BY PreparedAtOnceType DEF IInv, TypeOK
<1> QED
  BY <1>1, <1>2, AuthoriseKeeps DEF SubmitPrepared

LEMMA FinishPreparingKeeps ==
  ASSUME IInv, NEW t \in Tasks, FinishPreparing(t)
  PROVE  IInv'
<1>1. action[t] \in Actions /\ action' = [action EXCEPT ![t] = action[t]]
  BY DEF IInv, TypeOK, Shape, FinishPreparing
<1>2. PICK p \in PreparedByRead(action[t], workspace) : Authorise(t, action[t], p)
  BY DEF FinishPreparing
<1>3. p \in Preparation
  BY <1>1, PreparedByReadType DEF IInv, TypeOK
<1> QED
  BY <1>1, <1>2, <1>3, AuthoriseKeeps DEF FinishPreparing

LEMMA SubmitReadingKeeps ==
  ASSUME IInv, NEW t \in Tasks, NEW a \in Actions, SubmitReading(t, a)
  PROVE  IInv'
<1>0. a # NoAction
  BY ActionsAssumption DEF NoAction, Action, ActionKind
<1>1. TypeOK'
  BY DEF IInv, TypeOK, SubmitReading, gateVars, historyVars, Suspended
<1>2. ASSUME NEW u \in Tasks PROVE (Shape(u) /\ BeforePermit(u) /\ BeforeRecord(u))'
  BY <1>0, <1>1 DEF IInv, TypeOK, SubmitReading, gateVars, historyVars, Shape, BeforePermit,
         BeforeRecord, MustRefuse, Blocked, Blocking, RiskWithin
<1>3. (EffectsAuthorised /\ GrantsEarned /\ OpenApprovalsExact)'
  BY <1>1 DEF IInv, TypeOK, SubmitReading, gateVars, historyVars, EffectsAuthorised, GrantsEarned,
         OpenApprovalsExact, MustRefuse, Blocked, Blocking, RiskWithin
<1>4. (RecordsTruthful /\ OneRecordEach)'
  BY <1>1 DEF IInv, TypeOK, SubmitReading, gateVars, historyVars, RecordsTruthful, OneRecordEach
<1> QED
  BY <1>1, <1>2, <1>3, <1>4 DEF IInv

-----------------------------------------------------------------------------
(* The approval gate. *)

LEMMA ResolveKeeps ==
  ASSUME IInv, NEW t \in Tasks, NEW yes \in BOOLEAN, Resolve(t, yes)
  PROVE  IInv'
<1>1. TypeOK'
  BY DEF IInv, TypeOK, Resolve
<1>2. pc[t] = "asking" /\ t \notin silenced
  BY DEF IInv, TypeOK, OpenApprovalsExact, BeforePermit, Resolve
<1>3. ASSUME NEW u \in Tasks PROVE (Shape(u) /\ BeforePermit(u) /\ BeforeRecord(u))'
  BY <1>1, <1>2 DEF IInv, TypeOK, Resolve, Shape, BeforePermit,
         BeforeRecord, MustRefuse, Blocked, Blocking, RiskWithin
<1>4. (EffectsAuthorised /\ GrantsEarned /\ OpenApprovalsExact)'
  BY <1>1, <1>2 DEF IInv, TypeOK, Resolve, EffectsAuthorised, GrantsEarned,
         OpenApprovalsExact, MustRefuse, Blocked, Blocking, RiskWithin
<1>5. (RecordsTruthful /\ OneRecordEach)'
  BY <1>1 DEF IInv, TypeOK, Resolve, RecordsTruthful, OneRecordEach
<1> QED
  BY <1>1, <1>3, <1>4, <1>5 DEF IInv

\* The locals of a task that waits for its gate, as Deciding wants them.
LEMMA AskingDecides ==
  ASSUME IInv, NEW t \in Tasks, pc[t] = "asking",
         UNCHANGED <<config, workspace, action, preparation, verdict, journal, answer,
                     approved, ran, origin, disturbed, lost>>
  PROVE  /\ action[t] \in Actions /\ preparation[t] \in Preparation /\ verdict[t] \in Verdict
         /\ Deciding(t, action[t], preparation[t], verdict[t])
<1>1. action[t] \in Actions
  BY DEF IInv, TypeOK, Shape
<1> QED
  BY <1>1 DEF IInv, TypeOK, Deciding

LEMMA GateAnswersKeeps ==
  ASSUME IInv, NEW t \in Tasks, GateAnswers(t)
  PROVE  IInv'
<1>1. /\ action[t] \in Actions /\ preparation[t] \in Preparation /\ verdict[t] \in Verdict
      /\ Deciding(t, action[t], preparation[t], verdict[t])
  BY AskingDecides DEF GateAnswers, gateVars, historyVars
<1>2. pending' = pending \ {t} /\ silenced' = silenced
  BY DEF GateAnswers, gateVars, historyVars, IInv, TypeOK, OpenApprovalsExact
<1>3. ~MustRefuse(config, verdict[t]) /\ config.default_mode # "deny" /\ t \notin silenced
  BY DEF GateAnswers, IInv, BeforePermit
<1>4. CASE answer[t] = "yes"
  <2> DEFINE perm == [granted |-> TRUE, mode |-> "confirm"]
  <2>1. Proceed(t, action[t], perm)
    BY <1>4 DEF GateAnswers
  <2>2. perm \in Permit
    BY DEF Permit, PermissionMode
  <2>3. Earned(t, preparation[t], verdict[t], perm)
    BY <1>2, <1>3, <1>4 DEF Earned, IInv, BeforePermit
  <2> QED
    BY <1>1, <1>2, <1>3, <2>1, <2>2, <2>3, ProceedKeeps
<1>5. CASE answer[t] # "yes"
  <2> DEFINE perm == [granted |-> FALSE, mode |-> "confirm"]
  <2>1. Finish(t, "denied", perm)
    BY <1>5 DEF GateAnswers
  <2>2. perm \in Permit
    BY DEF Permit, PermissionMode
  <2> QED
    BY <1>1, <1>2, <2>1, <2>2, DeclineKeeps DEF Earned
<1> QED
  BY <1>4, <1>5

LEMMA GateTimesOutKeeps ==
  ASSUME IInv, NEW t \in Tasks, GateTimesOut(t)
  PROVE  IInv'
<1> DEFINE perm == [granted |-> FALSE, mode |-> "confirm"]
<1>1. /\ action[t] \in Actions /\ preparation[t] \in Preparation /\ verdict[t] \in Verdict
      /\ Deciding(t, action[t], preparation[t], verdict[t])
  BY AskingDecides DEF GateTimesOut, RefuseInSilence
<1>2. /\ pending' = pending \ {t} /\ silenced' = silenced \cup {t}
      /\ Finish(t, "denied", perm)
  BY DEF GateTimesOut, RefuseInSilence
<1>3. perm \in Permit
  BY DEF Permit, PermissionMode
<1> QED
  BY <1>1, <1>2, <1>3, DeclineKeeps DEF Earned

-----------------------------------------------------------------------------
(* Execution, compensation, the journal, cancellation. *)

LEMMA WorkerEndsKeeps ==
  ASSUME IInv, NEW t \in Tasks, WorkerEnds(t)
  PROVE  IInv'
<1>1. PICK o \in Outcomes(StepOf(t), workspace) :
        /\ workspace' = o.workspace
        /\ worker' = [worker EXCEPT ![t] = o.result]
        /\ disturbed' = disturbed \cup
             {u \in Tasks \ {t} : /\ action[u] # NoAction
                                  /\ o.workspace[action[u].path] # workspace[action[u].path]}
  BY DEF WorkerEnds
<1>2. StepOf(t) \in Action \cup {NoAction}
  <2>1. CASE undo[t] = <<>>
    BY <2>1, ActionsAssumption DEF StepOf, IInv, TypeOK
  <2>2. CASE undo[t] # <<>>
    <3>1. undo[t] \in Seq(Action)
      BY DEF IInv, TypeOK
    <3> QED
      BY <2>2, <3>1 DEF StepOf
  <2> QED
    BY <2>1, <2>2
<1>3. workspace' \in [Paths -> Content] /\ o.result \in CallResult
  BY <1>1, <1>2, OutcomesType DEF IInv, TypeOK
<1>4. /\ ran' \in {ran, ran \cup {t}} /\ disturbed' \subseteq Tasks
  BY <1>1 DEF WorkerEnds, IInv, TypeOK
<1>5. TypeOK'
  BY <1>1, <1>3, <1>4 DEF IInv, TypeOK, WorkerEnds, gateVars
<1>6. ASSUME NEW u \in Tasks PROVE (Shape(u) /\ BeforePermit(u) /\ BeforeRecord(u))'
  <2>1. /\ status[t] = "none" /\ pc[t] \in {"executing", "compensating", "cancelled"}
        /\ UNCHANGED <<config, pc, action, verdict, permit, undo, status, journal, answer,
                       approved, silenced>>
    BY DEF IInv, Shape, WorkerEnds, gateVars
  <2>2. worker' \in [Tasks -> {"none", "queued"} \cup CallResult] /\ worker'[t] # "none"
    BY <1>1, <1>3 DEF IInv, TypeOK, CallResult
  <2>3. Shape(u) /\ BeforePermit(u) /\ BeforeRecord(u)
    BY DEF IInv
  <2>4. u # t => worker'[u] = worker[u]
    BY <1>1 DEF IInv, TypeOK
  <2>5. Shape(u)'
    BY <2>1, <2>2, <2>3, <2>4 DEF Shape
  <2>6. BeforePermit(u)'
    BY <1>4, <2>1, <2>3 DEF BeforePermit, MustRefuse, Blocked, Blocking, RiskWithin
  <2>7. BeforeRecord(u)'
    BY <1>4, <2>1, <2>3 DEF BeforeRecord
  <2> QED
    BY <2>5, <2>6, <2>7
<1>7. (EffectsAuthorised /\ GrantsEarned /\ OpenApprovalsExact)'
  BY <1>1, <1>5 DEF IInv, TypeOK, WorkerEnds, gateVars, EffectsAuthorised, GrantsEarned,
         OpenApprovalsExact, MustRefuse, Blocked, Blocking, RiskWithin
<1>8. (RecordsTruthful /\ OneRecordEach)'
  BY <1>1, <1>4, <1>5 DEF IInv, TypeOK, WorkerEnds, gateVars, Shape, RecordsTruthful, OneRecordEach
<1> QED
  BY <1>5, <1>6, <1>7, <1>8 DEF IInv

\* What the two actions that resume after a worker have in common.
Resuming(t) ==
  /\ pc[t] \in {"executing", "compensating"}
  /\ t \in ran'
  /\ ran' \subseteq ran \cup {t} /\ ran \subseteq ran'
  /\ UNCHANGED <<config, workspace, action, preparation, verdict, journal, gateVars,
                 approved, silenced, origin, disturbed, lost>>

LEMMA RecordKeeps ==
  ASSUME IInv, NEW t \in Tasks, Resuming(t), UNCHANGED pending,
         NEW s \in {"succeeded", "failed", "rolled_back"}, Finish(t, s, permit[t])
  PROVE  IInv'
<1>1. TypeOK'
  BY DEF IInv, TypeOK, Resuming, Finish, gateVars, Suspended, Status
<1>2. ASSUME NEW u \in Tasks PROVE (Shape(u) /\ BeforePermit(u) /\ BeforeRecord(u))'
  BY <1>1 DEF IInv, TypeOK, Resuming, Finish, gateVars, Shape, BeforePermit,
         BeforeRecord, MustRefuse, Blocked, Blocking, RiskWithin
<1>3. (EffectsAuthorised /\ GrantsEarned /\ OpenApprovalsExact)'
  BY <1>1 DEF IInv, TypeOK, Resuming, Finish, gateVars, EffectsAuthorised, GrantsEarned,
         OpenApprovalsExact, MustRefuse, Blocked, Blocking, RiskWithin
<1>4. RecordsTruthful'
  BY <1>1 DEF IInv, TypeOK, Resuming, Finish, RecordsTruthful
<1>5. OneRecordEach'
  BY <1>1 DEF IInv, TypeOK, Resuming, Finish, OneRecordEach, BeforeRecord
<1> QED
  BY <1>1, <1>2, <1>3, <1>4, <1>5 DEF IInv

LEMMA RunRollbackKeeps ==
  ASSUME IInv, NEW t \in Tasks, Resuming(t), NEW steps \in Seq(Action), RunRollback(t, steps)
  PROVE  IInv'
<1>1. CASE steps = <<>>
  <2>1. Finish(t, "rolled_back", permit[t])
    BY <1>1 DEF RunRollback
  <2> QED
    BY <2>1, RecordKeeps DEF Resuming, gateVars
<1>2. CASE steps # <<>> /\ Head(steps).kind \notin config.handlers
  <2>1. Finish(t, "failed", permit[t])
    BY <1>2 DEF RunRollback
  <2> QED
    BY <2>1, RecordKeeps DEF Resuming, gateVars
<1>3. CASE steps # <<>> /\ Head(steps).kind \in config.handlers
  <2>1. /\ pc'     = [pc EXCEPT ![t] = "compensating"]
        /\ worker' = [worker EXCEPT ![t] = Started(Head(steps).kind)]
        /\ undo'   = [undo EXCEPT ![t] = steps]
        /\ UNCHANGED <<status, permit>>
    BY <1>3 DEF RunRollback
  <2>2. TypeOK'
    BY <2>1 DEF IInv, TypeOK, Resuming, gateVars, Suspended, Started, CallResult
  <2>3. ASSUME NEW u \in Tasks PROVE (Shape(u) /\ BeforePermit(u) /\ BeforeRecord(u))'
    BY <1>3, <2>1, <2>2 DEF IInv, TypeOK, Resuming, gateVars, Started, Shape, BeforePermit,
           BeforeRecord, MustRefuse, Blocked, Blocking, RiskWithin
  <2>4. EffectsAuthorised'
    BY <2>1, <2>2 DEF IInv, TypeOK, Resuming, gateVars, EffectsAuthorised, Shape,
           MustRefuse, Blocked, Blocking, RiskWithin
  <2>5. (GrantsEarned /\ OpenApprovalsExact)'
    BY <2>1, <2>2 DEF IInv, TypeOK, Resuming, gateVars, GrantsEarned,
           OpenApprovalsExact, RiskWithin
  <2>6. (RecordsTruthful /\ OneRecordEach)'
    BY <2>1, <2>2 DEF IInv, TypeOK, Resuming, Shape, RecordsTruthful, OneRecordEach, BeforeRecord
  <2> QED
    BY <2>2, <2>3, <2>4, <2>5, <2>6 DEF IInv
<1> QED
  BY <1>1, <1>2, <1>3

LEMMA ResumeExecuteKeeps ==
  ASSUME IInv, NEW t \in Tasks, ResumeExecute(t)
  PROVE  IInv'
<1>1. Resuming(t)
  BY DEF Resuming, ResumeExecute, gateVars
<1>2. CASE worker[t] = "ok"
  <2>1. Finish(t, "succeeded", permit[t])
    BY <1>2 DEF ResumeExecute
  <2> QED
    BY <1>1, <2>1, RecordKeeps DEF Resuming, gateVars
<1>3. CASE worker[t] = "unsuccessful"
  <2>1. Finish(t, "failed", permit[t])
    BY <1>3 DEF ResumeExecute
  <2> QED
    BY <1>1, <2>1, RecordKeeps DEF Resuming, gateVars
<1>4. CASE worker[t] = "error"
  <2>1. CompensateOne(t)
    BY <1>4 DEF ResumeExecute
  <2>2. CASE preparation[t].reversible
    <3>1. preparation[t].plan \in Seq(Action)
      BY DEF IInv, TypeOK, Preparation
    <3>2. RunRollback(t, preparation[t].plan)
      BY <2>1, <2>2 DEF CompensateOne
    <3> QED
      BY <1>1, <3>1, <3>2, RunRollbackKeeps
  <2>3. CASE ~preparation[t].reversible
    <3>1. Finish(t, "failed", permit[t])
      BY <2>1, <2>3 DEF CompensateOne
    <3> QED
      BY <1>1, <3>1, RecordKeeps DEF Resuming, gateVars
  <2> QED
    BY <2>2, <2>3
<1> QED
  BY <1>2, <1>3, <1>4 DEF ResumeExecute, CallResult

LEMMA ResumeRollbackKeeps ==
  ASSUME IInv, NEW t \in Tasks, ResumeRollback(t)
  PROVE  IInv'
<1>1. Resuming(t)
  BY DEF Resuming, ResumeRollback, gateVars, historyVars, IInv, BeforeRecord
<1>2. undo[t] \in Seq(Action) /\ undo[t] # <<>>
  BY DEF ResumeRollback, IInv, TypeOK, Shape
<1>3. CASE worker[t] = "error"
  <2>1. Finish(t, "failed", permit[t])
    BY <1>3 DEF ResumeRollback
  <2> QED
    BY <1>1, <2>1, RecordKeeps DEF Resuming, gateVars
<1>4. CASE worker[t] # "error"
  <2>1. RunRollback(t, Tail(undo[t]))
    BY <1>4 DEF ResumeRollback
  <2>2. Tail(undo[t]) \in Seq(Action)
    BY <1>2
  <2> QED
    BY <1>1, <2>1, <2>2, RunRollbackKeeps
<1> QED
  BY <1>3, <1>4

LEMMA JournalKeeps ==
  ASSUME IInv, NEW t \in Tasks, Journal(t) \/ LoseRecord(t)
  PROVE  IInv'
<1>1. pc[t] = "journalling" /\ pc' = [pc EXCEPT ![t] = "done"]
  BY DEF Journal, LoseRecord
<1>2. journal[t] = <<>> /\ status[t] \in Status
  BY <1>1 DEF IInv, TypeOK, Shape, BeforeRecord
<1>3. /\ journal' \in {journal, [journal EXCEPT ![t] = <<status[t]>>]}
      /\ (config.journal_enabled /\ t \notin lost')
           => journal' = [journal EXCEPT ![t] = <<status[t]>>]
  BY <1>2 DEF Journal, LoseRecord, WriteLine, AppendLine, IInv, TypeOK
<1>4. lost' \subseteq Tasks /\ lost \subseteq lost' /\ lost' \subseteq lost \cup {t}
  BY DEF Journal, LoseRecord, historyVars, IInv, TypeOK
<1>5. UNCHANGED <<config, workspace, action, preparation, verdict, permit, undo, worker, status,
                  gateVars, approved, silenced, ran, origin, disturbed>>
  BY DEF Journal, LoseRecord, historyVars
<1>a. journal' \in [Tasks -> Seq(Status)]
  <2>1. <<status[t]>> \in Seq(Status)
    BY <1>2
  <2> QED
    BY <2>1, <1>3 DEF IInv, TypeOK
<1>6. TypeOK'
  BY <1>1, <1>4, <1>5, <1>a DEF IInv, TypeOK, gateVars, Ended
<1>7. ASSUME NEW u \in Tasks PROVE (Shape(u) /\ BeforePermit(u) /\ BeforeRecord(u))'
  BY <1>1, <1>3, <1>5, <1>6 DEF IInv, TypeOK, gateVars, Shape, BeforePermit,
         BeforeRecord, MustRefuse, Blocked, Blocking, RiskWithin
<1>8. (EffectsAuthorised /\ GrantsEarned /\ OpenApprovalsExact)'
  BY <1>1, <1>5, <1>6 DEF IInv, TypeOK, gateVars, EffectsAuthorised, GrantsEarned,
         OpenApprovalsExact, MustRefuse, Blocked, Blocking, RiskWithin
<1>9. RecordsTruthful'
  BY <1>5, <1>6 DEF IInv, TypeOK, RecordsTruthful
<1>10. OneRecordEach'
  BY <1>1, <1>2, <1>3, <1>4, <1>5, <1>6 DEF IInv, TypeOK, OneRecordEach
<1> QED
  BY <1>6, <1>7, <1>8, <1>9, <1>10 DEF IInv

LEMMA CancelKeeps ==
  ASSUME IInv, NEW t \in Tasks, Cancel(t)
  PROVE  IInv'
<1>1. pc[t] \in Suspended /\ pc' = [pc EXCEPT ![t] = "cancelled"]
  BY DEF Cancel, Unwind, Interruptible
<1>2. worker' \in {worker, [worker EXCEPT ![t] = "none"]} /\ pending' = pending \ {t}
  BY DEF Cancel, Unwind
<1>3. journal[t] = <<>>
  BY <1>1 DEF IInv, BeforeRecord, Suspended
<1>4. \/ journal' = journal
      \/ status[t] \in Status /\ journal' = [journal EXCEPT ![t] = <<status[t]>>]
  BY <1>3 DEF Cancel, Unwind, LineInFlight, WriteLine, AppendLine, IInv, TypeOK, Shape
<1>5. UNCHANGED <<config, workspace, action, preparation, verdict, permit, undo,
                  status, answer, historyVars>>
  BY DEF Cancel, Unwind
<1>a. journal' \in [Tasks -> Seq(Status)]
  <2>1. CASE journal' = journal
    BY <2>1 DEF IInv, TypeOK
  <2>2. CASE status[t] \in Status /\ journal' = [journal EXCEPT ![t] = <<status[t]>>]
    <3>1. <<status[t]>> \in Seq(Status)
      BY <2>2
    <3> QED
      BY <2>2, <3>1 DEF IInv, TypeOK
  <2> QED
    BY <1>4, <2>1, <2>2
<1>6. TypeOK'
  BY <1>1, <1>2, <1>5, <1>a DEF IInv, TypeOK, historyVars, Ended
<1>7. ASSUME NEW u \in Tasks PROVE (Shape(u) /\ BeforePermit(u) /\ BeforeRecord(u))'
  BY <1>1, <1>2, <1>4, <1>5, <1>6 DEF IInv, TypeOK, historyVars, Shape, BeforePermit, Suspended,
         BeforeRecord, MustRefuse, Blocked, Blocking, RiskWithin
<1>8. EffectsAuthorised'
  BY <1>1, <1>2, <1>5, <1>6 DEF IInv, TypeOK, historyVars, EffectsAuthorised, GrantsEarned,
         OpenApprovalsExact, MustRefuse, Blocked, Blocking, RiskWithin
<1>9. (GrantsEarned /\ OpenApprovalsExact)'
  BY <1>1, <1>2, <1>5, <1>6 DEF IInv, TypeOK, historyVars, GrantsEarned,
         OpenApprovalsExact, RiskWithin
<1>10. RecordsTruthful'
  BY <1>5, <1>6 DEF IInv, TypeOK, historyVars, RecordsTruthful
<1>11. OneRecordEach'
  BY <1>1, <1>3, <1>4, <1>5, <1>6 DEF IInv, TypeOK, historyVars, OneRecordEach
<1> QED
  BY <1>6, <1>7, <1>8, <1>9, <1>10, <1>11 DEF IInv

LEMMA StutterKeeps ==
  ASSUME IInv, UNCHANGED vars
  PROVE  IInv'
<1>1. TypeOK'
  BY DEF IInv, TypeOK, vars
<1>2. \A u \in Tasks : (Shape(u) /\ BeforePermit(u) /\ BeforeRecord(u))'
  BY DEF IInv, vars, Shape, BeforePermit, BeforeRecord, MustRefuse, Blocked, Blocking, RiskWithin
<1>3. (EffectsAuthorised /\ GrantsEarned /\ OpenApprovalsExact)'
  BY DEF IInv, vars, EffectsAuthorised, GrantsEarned,
         OpenApprovalsExact, MustRefuse, Blocked, Blocking, RiskWithin
<1>4. (RecordsTruthful /\ OneRecordEach)'
  BY DEF IInv, vars, RecordsTruthful, OneRecordEach
<1> QED
  BY <1>1, <1>2, <1>3, <1>4 DEF IInv

LEMMA NextKeeps == IInv /\ [Next]_vars => IInv'
<1> SUFFICES ASSUME IInv, [Next]_vars PROVE IInv'
  OBVIOUS
<1>1. CASE UNCHANGED vars
  BY <1>1, StutterKeeps
<1>2. ASSUME NEW t \in Tasks, NEW a \in Actions, Submit(t, a) PROVE IInv'
  BY <1>2, SubmitUnhandledKeeps, SubmitPreparedKeeps, SubmitReadingKeeps DEF Submit
<1>3. ASSUME NEW t \in Tasks, NEW yes \in BOOLEAN, Resolve(t, yes) PROVE IInv'
  BY <1>3, ResolveKeeps
<1>4. ASSUME NEW t \in Tasks, TaskStep(t) PROVE IInv'
  BY <1>4, FinishPreparingKeeps, GateAnswersKeeps, GateTimesOutKeeps, WorkerEndsKeeps,
     ResumeExecuteKeeps, ResumeRollbackKeeps, JournalKeeps DEF TaskStep
<1>5. ASSUME NEW t \in Tasks, Cancel(t) PROVE IInv'
  BY <1>5, CancelKeeps
<1> QED
  BY <1>1, <1>2, <1>3, <1>4, <1>5 DEF Next

\* The invariant holds in every reachable state, for any number of tasks.
THEOREM Inductive == Spec => []IInv
<1>1. Init => IInv
  BY InitEstablishes
<1>2. IInv /\ [Next]_vars => IInv'
  BY NextKeeps
<1> QED
  BY <1>1, <1>2, PTL DEF Spec

-----------------------------------------------------------------------------
(* The properties the runs check. *)

\* Every variable keeps its type: submit never leaves a local half-built.
THEOREM TypeCorrect == Spec => []TypeOK
<1>1. IInv => TypeOK
  BY DEF IInv
<1> QED
  BY <1>1, Inductive, PTL

\* No handler runs without a grant, past a blocking finding, past the risk
\* ceiling or in a dry run (PolicyEngine.decide, ExecutionEngine.submit).
THEOREM OnlyAuthorisedEffects == Spec => []EffectsAuthorised
<1>1. IInv => EffectsAuthorised
  BY DEF IInv
<1> QED
  BY <1>1, Inductive, PTL

\* A grant rests on low risk and reversibility, or on a human's yes given in
\* time (PolicyEngine.decide, WebApprovalGate.request).
THEOREM OnlyEarnedGrants == Spec => []GrantsEarned
<1>1. IInv => GrantsEarned
  BY DEF IInv
<1> QED
  BY <1>1, Inductive, PTL

\* The operator's list holds exactly the approvals that still wait
\* (WebApprovalGate.request and resolve).
THEOREM ApprovalsExact == Spec => []OpenApprovalsExact
<1>1. IInv => OpenApprovalsExact
  BY DEF IInv
<1> QED
  BY <1>1, Inductive, PTL

\* What a record says of the handler having run is so
\* (ExecutionEngine._execute and _finish).
THEOREM TruthfulRecords == Spec => []RecordsTruthful
<1>1. IInv => RecordsTruthful
  BY DEF IInv
<1> QED
  BY <1>1, Inductive, PTL

\* One record per submission that ends by itself, with its final status
\* (ExecutionEngine._finish, ExecutionJournal.append).
THEOREM ExactlyOneRecord == Spec => []OneRecordEach
<1>1. IInv => OneRecordEach
  BY DEF IInv
<1> QED
  BY <1>1, Inductive, PTL

-----------------------------------------------------------------------------
(* The abstract pipeline: each step of the engine is a step of one task of   *)
(* it, or none.                                                              *)

Stages == [t \in Tasks |-> StageOf(t)]

-----------------------------------------------------------------------------
(* The stage of one task *)

\* What StageOf says, place by place.
Told(t, st, place, perm, s) ==
  /\ st # "none" => s = "settled"
  /\ st = "none" /\ place \in {"idle", "preparing", "asking"} => s = "open"
  /\ st = "none" /\ place \in {"executing", "compensating"} => s = "granted"
  /\ st = "none" /\ place \in {"raised", "cancelled"} =>
       s = IF perm.granted THEN "orphaned" ELSE "withdrawn"

LEMMA StageTold ==
  ASSUME NEW t \in Tasks
  PROVE  /\ Told(t, status[t], pc[t], permit[t], StageOf(t))
         /\ Told(t, status'[t], pc'[t], permit'[t], StageOf(t)')
BY DEF Told, StageOf

\* A step that leaves the other tasks alone moves at most one of them on.
LEMMA OneMoves ==
  ASSUME NEW t \in Tasks, NEW s, StageOf(t)' = s,
         \A u \in Tasks \ {t} : pc'[u] = pc[u] /\ status'[u] = status[u] /\ permit'[u] = permit[u]
  PROVE  Stages' = [Stages EXCEPT ![t] = s]
<1>1. ASSUME NEW u \in Tasks \ {t} PROVE StageOf(u)' = StageOf(u)
  BY DEF StageOf
<1> QED
  BY <1>1 DEF Stages

\* A step that changes neither the file system nor a record nor a stage.
LEMMA NothingMoves ==
  ASSUME NEW t \in Tasks, StageOf(t)' = StageOf(t), UNCHANGED <<workspace, status>>,
         \A u \in Tasks \ {t} : pc'[u] = pc[u] /\ permit'[u] = permit[u]
  PROVE  UNCHANGED Pipeline!vars
<1>1. Stages' = [Stages EXCEPT ![t] = StageOf(t)]
  BY OneMoves
<1>2. Stages' = Stages
  BY <1>1 DEF Stages
<1> QED
  BY <1>2 DEF Pipeline!vars, Stages

-----------------------------------------------------------------------------
(* The moves *)

\* A record ends a task that is undecided, with an outcome that says nothing was
\* done, or one that was granted, with one that says something was.
LEMMA FinishMoves ==
  ASSUME IInv, NEW t \in Tasks, NEW s, NEW perm, Finish(t, s, perm), workspace' = workspace,
         \/ StageOf(t) = "open" /\ s \in {"rejected", "denied", "skipped"}
         \/ StageOf(t) = "granted" /\ s \in {"succeeded", "failed", "rolled_back"}
  PROVE  Pipeline!Next
<1>1. TypeOK
  BY DEF IInv
<1>2. status' = [status EXCEPT ![t] = s] /\ status'[t] = s /\ s # "none"
  BY <1>1 DEF Finish, TypeOK
<1>3. Stages' = [Stages EXCEPT ![t] = "settled"]
  <2>1. StageOf(t)' = "settled"
    BY <1>2, StageTold DEF Told
  <2>2. \A u \in Tasks \ {t} : pc'[u] = pc[u] /\ status'[u] = status[u] /\ permit'[u] = permit[u]
    BY <1>1 DEF Finish, TypeOK
  <2> QED
    BY <2>1, <2>2, OneMoves
<1>4. Stages[t] = StageOf(t)
  BY DEF Stages
<1>5. Pipeline!Decline(t) \/ Pipeline!Settle(t)
  BY <1>2, <1>3, <1>4 DEF Pipeline!Decline, Pipeline!Settle, Stages
<1> QED
  BY <1>5 DEF Pipeline!Next

LEMMA ExecuteMoves ==
  ASSUME IInv, NEW t \in Tasks, NEW a, NEW perm, Execute(t, a, perm), workspace' = workspace,
         status[t] = "none", StageOf(t) = "open"
  PROVE  Pipeline!Next
<1>1. TypeOK
  BY DEF IInv
<1>2. pc'[t] = "executing" /\ status' = status
  BY <1>1 DEF Execute, TypeOK
<1>3. Stages' = [Stages EXCEPT ![t] = "granted"]
  <2>1. StageOf(t)' = "granted"
    BY <1>2, StageTold DEF Told
  <2>2. \A u \in Tasks \ {t} : pc'[u] = pc[u] /\ status'[u] = status[u] /\ permit'[u] = permit[u]
    BY <1>1 DEF Execute, TypeOK
  <2> QED
    BY <2>1, <2>2, OneMoves
<1>4. Stages[t] = "open"
  BY DEF Stages
<1>5. Pipeline!Grant(t)
  BY <1>2, <1>3, <1>4 DEF Pipeline!Grant, Stages
<1> QED
  BY <1>5 DEF Pipeline!Next

LEMMA ProceedMoves ==
  ASSUME IInv, NEW t \in Tasks, NEW a, NEW perm, Proceed(t, a, perm), workspace' = workspace,
         status[t] = "none", StageOf(t) = "open"
  PROVE  Pipeline!Next
<1>1. CASE config.dry_run
  BY <1>1, FinishMoves DEF Proceed
<1>2. CASE ~config.dry_run
  BY <1>2, ExecuteMoves DEF Proceed
<1> QED
  BY <1>1, <1>2

LEMMA AuthoriseMoves ==
  ASSUME IInv, NEW t \in Tasks, NEW a, NEW p, Authorise(t, a, p), workspace' = workspace,
         pc[t] \in {"idle", "preparing"}
  PROVE  [Pipeline!Next]_(Pipeline!vars)
<1> DEFINE v == Verify(a, p)
<1>0. status[t] = "none" /\ StageOf(t) = "open"
  <2>1. status[t] = "none"
    BY DEF IInv, Shape
  <2> QED
    BY <2>1, StageTold DEF Told
<1>1. CASE Decision(config, v) = "refuse"
  <2>1. Finish(t, IF Blocked(config, v) THEN "rejected" ELSE "denied", Refused)
    BY <1>1 DEF Authorise
  <2> QED
    BY <1>0, <2>1, FinishMoves
<1>2. CASE Decision(config, v) = "proceed"
  <2>1. Proceed(t, a, [granted |-> TRUE, mode |-> "automatic"])
    BY <1>2 DEF Authorise
  <2> QED
    BY <1>0, <2>1, ProceedMoves
<1>3. CASE Decision(config, v) = "ask"
  <2>1. AskGate(t, a)
    BY <1>3 DEF Authorise
  <2>2. config.gate \in {"denying", "approving", "web"}
    BY ConfigAssumption DEF IInv, TypeOK, ExecutionConfig
  <2>3. CASE config.gate = "denying"
    <3>1. Finish(t, "denied", [granted |-> FALSE, mode |-> "confirm"])
      BY <2>1, <2>3 DEF AskGate
    <3> QED
      BY <1>0, <3>1, FinishMoves
  <2>4. CASE config.gate = "approving"
    <3>1. Proceed(t, a, [granted |-> TRUE, mode |-> "confirm"])
      BY <2>1, <2>4 DEF AskGate
    <3> QED
      BY <1>0, <3>1, ProceedMoves
  <2>5. CASE config.gate = "web"
    <3>1. pc' = [pc EXCEPT ![t] = "asking"] /\ UNCHANGED <<permit, status>>
      BY <2>1, <2>5 DEF AskGate
    <3>2. pc'[t] = "asking" /\ \A u \in Tasks \ {t} : pc'[u] = pc[u]
      BY <3>1 DEF IInv, TypeOK
    <3>3. StageOf(t)' = StageOf(t)
      BY <1>0, <3>1, <3>2, StageTold DEF Told
    <3> QED
      BY <3>1, <3>2, <3>3, NothingMoves
  <2> QED
    BY <2>2, <2>3, <2>4, <2>5
<1> QED
  BY <1>1, <1>2, <1>3 DEF Decision

LEMMA SubmitMoves ==
  ASSUME IInv, NEW t \in Tasks, NEW a \in Actions, Submit(t, a)
  PROVE  [Pipeline!Next]_(Pipeline!vars)
<1>1. pc[t] = "idle" /\ TypeOK
  BY DEF Submit, SubmitUnhandled, SubmitReading, SubmitPrepared, IInv
<1>2. status[t] = "none" /\ ~permit[t].granted /\ StageOf(t) = "open"
  <2>1. status[t] = "none" /\ ~permit[t].granted
    BY <1>1 DEF IInv, Shape, BeforePermit
  <2> QED
    BY <1>1, <2>1, StageTold DEF Told
<1>3. CASE SubmitPrepared(t, a)
  BY <1>1, <1>3, AuthoriseMoves DEF SubmitPrepared
<1>4. CASE SubmitReading(t, a)
  <2>1. pc' = [pc EXCEPT ![t] = "preparing"] /\ UNCHANGED <<workspace, permit, status>>
    BY <1>4 DEF SubmitReading
  <2>2. pc'[t] = "preparing" /\ \A u \in Tasks \ {t} : pc'[u] = pc[u]
    BY <1>1, <2>1 DEF TypeOK
  <2>3. StageOf(t)' = StageOf(t)
    BY <1>2, <2>1, <2>2, StageTold DEF Told
  <2> QED
    BY <2>1, <2>2, <2>3, NothingMoves
<1>5. CASE SubmitUnhandled(t, a)
  <2>1. pc' = [pc EXCEPT ![t] = "raised"] /\ UNCHANGED <<workspace, permit, status>>
    BY <1>5 DEF SubmitUnhandled
  <2>2. pc'[t] = "raised" /\ \A u \in Tasks \ {t} : pc'[u] = pc[u]
    BY <1>1, <2>1 DEF TypeOK
  <2>3. Stages' = [Stages EXCEPT ![t] = "withdrawn"] /\ Stages[t] = "open"
    <3>1. StageOf(t)' = "withdrawn"
      BY <1>2, <2>1, <2>2, StageTold DEF Told
    <3>2. Stages[t] = "open"
      BY <1>2 DEF Stages
    <3> QED
      BY <2>1, <2>2, <3>1, <3>2, OneMoves
  <2>4. Pipeline!GiveUp(t)
    BY <2>1, <2>3 DEF Pipeline!GiveUp, Stages
  <2> QED
    BY <2>4 DEF Pipeline!Next
<1> QED
  BY <1>3, <1>4, <1>5 DEF Submit

LEMMA GateMoves ==
  ASSUME IInv, NEW t \in Tasks, GateAnswers(t) \/ GateTimesOut(t)
  PROVE  Pipeline!Next
<1>1. pc[t] = "asking" /\ workspace' = workspace
  BY DEF GateAnswers, GateTimesOut, RefuseInSilence
<1>2. status[t] = "none" /\ StageOf(t) = "open"
  <2>1. status[t] = "none"
    BY <1>1 DEF IInv, Shape
  <2> QED
    BY <1>1, <2>1, StageTold DEF Told
<1>3. \/ Proceed(t, action[t], [granted |-> TRUE, mode |-> "confirm"])
      \/ Finish(t, "denied", [granted |-> FALSE, mode |-> "confirm"])
  BY DEF GateAnswers, GateTimesOut, RefuseInSilence
<1> QED
  BY <1>1, <1>2, <1>3, ProceedMoves, FinishMoves

\* A worker acts for a task that was granted, be it cancelled since.
LEMMA WorkerMoves ==
  ASSUME IInv, IInv', NEW t \in Tasks, WorkerEnds(t)
  PROVE  Pipeline!Next
<1>1. /\ worker[t] = "queued" /\ UNCHANGED <<pc, permit, status>>
      /\ workspace' \in [Paths -> Content]
  BY DEF WorkerEnds, IInv, TypeOK
<1>2. /\ status[t] = "none" /\ pc[t] \in {"executing", "compensating", "cancelled"}
      /\ permit[t].granted
  BY <1>1 DEF IInv, Shape, EffectsAuthorised
<1>3. StageOf(t) \in {"granted", "orphaned"}
  BY <1>2, StageTold DEF Told
<1>4. Stages[t] \in {"granted", "orphaned"} /\ Stages' = Stages
  BY <1>1, <1>3 DEF Stages, StageOf
<1>5. Pipeline!Act(t)
  BY <1>1, <1>4 DEF Pipeline!Act, Stages
<1> QED
  BY <1>5 DEF Pipeline!Next

\* A worker's result is recorded, or leads to the next step of the rollback.
LEMMA ResumeMoves ==
  ASSUME IInv, NEW t \in Tasks, ResumeExecute(t) \/ ResumeRollback(t)
  PROVE  [Pipeline!Next]_(Pipeline!vars)
<1>1. pc[t] \in {"executing", "compensating"} /\ workspace' = workspace /\ TypeOK
  BY DEF ResumeExecute, ResumeRollback, IInv
<1>2. status[t] = "none" /\ StageOf(t) = "granted"
  <2>1. status[t] = "none"
    BY <1>1 DEF IInv, Shape
  <2> QED
    BY <1>1, <2>1, StageTold DEF Told
<1>3. \/ \E s \in {"succeeded", "failed", "rolled_back"} : Finish(t, s, permit[t])
      \/ pc' = [pc EXCEPT ![t] = "compensating"] /\ UNCHANGED <<status, permit>>
  <2>1. ASSUME NEW steps, RunRollback(t, steps)
        PROVE  \/ \E s \in {"succeeded", "failed", "rolled_back"} : Finish(t, s, permit[t])
               \/ pc' = [pc EXCEPT ![t] = "compensating"] /\ UNCHANGED <<status, permit>>
    BY <2>1 DEF RunRollback
  <2>2. CASE ResumeExecute(t)
    BY <2>1, <2>2 DEF ResumeExecute, CompensateOne, CallResult
  <2>3. CASE ResumeRollback(t)
    BY <2>1, <2>3 DEF ResumeRollback
  <2> QED
    BY <2>2, <2>3
<1>4. CASE \E s \in {"succeeded", "failed", "rolled_back"} : Finish(t, s, permit[t])
  BY <1>1, <1>2, <1>4, FinishMoves
<1>5. CASE pc' = [pc EXCEPT ![t] = "compensating"] /\ UNCHANGED <<status, permit>>
  <2>1. pc'[t] = "compensating" /\ \A u \in Tasks \ {t} : pc'[u] = pc[u]
    BY <1>1, <1>5 DEF TypeOK
  <2>2. StageOf(t)' = StageOf(t)
    BY <1>2, <1>5, <2>1, StageTold DEF Told
  <2> QED
    BY <1>1, <1>5, <2>1, <2>2, NothingMoves
<1> QED
  BY <1>3, <1>4, <1>5

\* Once there is a record its fate in the journal changes nothing; a task that is
\* cancelled before that gives up, and keeps what it was granted.
LEMMA EndMoves ==
  ASSUME IInv, NEW t \in Tasks, Journal(t) \/ LoseRecord(t) \/ Cancel(t)
  PROVE  [Pipeline!Next]_(Pipeline!vars)
<1>1. /\ TypeOK /\ UNCHANGED <<workspace, permit, status>>
      /\ \/ pc[t] = "journalling" /\ pc' = [pc EXCEPT ![t] = "done"]
         \/ pc[t] \in Suspended /\ pc' = [pc EXCEPT ![t] = "cancelled"]
  BY DEF Journal, LoseRecord, Cancel, Unwind, Interruptible, IInv
<1>2. pc'[t] \in {"done", "cancelled"} /\ \A u \in Tasks \ {t} : pc'[u] = pc[u]
  BY <1>1 DEF TypeOK
<1>3. CASE status[t] # "none"
  <2>1. StageOf(t)' = StageOf(t)
    BY <1>1, <1>3, StageTold DEF Told
  <2> QED
    BY <1>1, <1>2, <2>1, NothingMoves
<1>4. CASE status[t] = "none"
  <2>1. /\ pc[t] \in {"preparing", "asking", "executing", "compensating"}
        /\ pc'[t] = "cancelled"
    BY <1>1, <1>4 DEF IInv, Shape, Suspended, TypeOK
  <2>2. permit[t].granted <=> pc[t] \in {"executing", "compensating"}
    BY <2>1 DEF IInv, Shape, BeforePermit, EffectsAuthorised
  <2>3. \/ StageOf(t) = "open" /\ StageOf(t)' = "withdrawn"
        \/ StageOf(t) = "granted" /\ StageOf(t)' = "orphaned"
    BY <1>1, <1>4, <2>1, <2>2, StageTold DEF Told
  <2>4. \/ Stages[t] = "open" /\ Stages' = [Stages EXCEPT ![t] = "withdrawn"]
        \/ Stages[t] = "granted" /\ Stages' = [Stages EXCEPT ![t] = "orphaned"]
    <3>1. Stages[t] = StageOf(t)
      BY DEF Stages
    <3> QED
      BY <1>1, <1>2, <2>3, <3>1, OneMoves
  <2>5. Pipeline!GiveUp(t)
    BY <1>1, <2>4 DEF Pipeline!GiveUp, Stages
  <2> QED
    BY <2>5 DEF Pipeline!Next
<1> QED
  BY <1>3, <1>4

-----------------------------------------------------------------------------
LEMMA InitMaps == Init => Pipeline!Init
<1> SUFFICES ASSUME Init PROVE Pipeline!Init
  OBVIOUS
<1>1. workspace \in [Paths -> Content] /\ status = [t \in Tasks |-> "none"]
  BY DEF Init, Content
<1>2. ASSUME NEW t \in Tasks PROVE StageOf(t) = "open"
  BY <1>2, StageTold DEF Init, Told
<1> QED
  BY <1>1, <1>2 DEF Pipeline!Init

LEMMA StepMaps == IInv /\ IInv' /\ [Next]_vars => [Pipeline!Next]_(Pipeline!vars)
<1> SUFFICES ASSUME IInv, IInv', [Next]_vars PROVE [Pipeline!Next]_(Pipeline!vars)
  OBVIOUS
<1>1. CASE UNCHANGED <<workspace, pc, permit, status>>
  BY <1>1 DEF Pipeline!vars, StageOf
<1>2. CASE UNCHANGED vars
  BY <1>1, <1>2 DEF vars
<1>3. CASE Next
  <2>1. PICK t \in Tasks :
          \/ \E a \in Actions : Submit(t, a)
          \/ \E yes \in BOOLEAN : Resolve(t, yes)
          \/ TaskStep(t)
          \/ Cancel(t)
    BY <1>3 DEF Next
  <2>2. CASE \E a \in Actions : Submit(t, a)
    BY <2>2, SubmitMoves
  <2>3. CASE \E yes \in BOOLEAN : Resolve(t, yes)
    BY <1>1, <2>3 DEF Resolve
  <2>4. CASE FinishPreparing(t)
    BY <2>4, AuthoriseMoves DEF FinishPreparing
  <2>5. CASE TaskStep(t) /\ ~FinishPreparing(t)
    BY <2>5, GateMoves, WorkerMoves, ResumeMoves, EndMoves DEF TaskStep
  <2>6. CASE Cancel(t)
    BY <2>6, EndMoves
  <2> QED
    BY <2>1, <2>2, <2>3, <2>4, <2>5, <2>6
<1> QED
  BY <1>2, <1>3

\* The engine keeps every promise of the abstract pipeline, for any number of
\* submissions: nothing acts before it was granted or after its outcome, what
\* was declined never acts, and no outcome is revised (submit, `_execute`,
\* `_compensate_one`, `_finish`).
THEOREM EngineImplementsPipeline == Spec => ImplementsPipeline
<1>1. IInv /\ [Next]_vars => IInv'
  BY NextKeeps
<1> QED
  BY Inductive, InitMaps, StepMaps, <1>1, PTL DEF Spec, ImplementsPipeline, Pipeline!Spec
=============================================================================
