-------------------------- MODULE ExecutionPolicy --------------------------
(***************************************************************************)
(* The pure part of the execution layer: what an action is, what the       *)
(* verification suite finds in it, and how the policy engine turns those   *)
(* findings into a decision                                                *)
(*   (eden/execution/{types,verification,permissions}.py and the           *)
(*    ExecutionConfig of eden/config/schema.py).                           *)
(*                                                                         *)
(* A path or a payload is a model value.  The checks that depend on its    *)
(* spelling (inside the workspace, a protected pattern, an allowlisted     *)
(* command, the payload's size) are abstracted to the set of "defects" the *)
(* checks would report: an action carries the codes of the findings its    *)
(* parameters earn, and the operators below do what the code does with     *)
(* them.                                                                   *)
(***************************************************************************)
EXTENDS Naturals, Sequences

CONSTANTS
  Paths,       \* the files an action may name
  Texts,       \* the text payloads an action may write
  Absent,      \* content of a path where no file exists
  Torn,        \* readable text left behind by a write that failed half-way
  Binary,      \* a file that does not decode as UTF-8
  Directory,   \* a directory
  Configs,     \* the execution configurations under study
  CustomPlans  \* rollback plans an embedding program's own handler may return

-----------------------------------------------------------------------------
(* Actions, preparations, verdicts, permits. *)

ActionKind == {"noop", "file_write", "file_delete", "shell_command",
               "device_command", "custom"}

\* What may be found at a path.
Content == Texts \cup {Absent, Torn, Binary, Directory}

\* A text file: its content can be captured and put back.
Readable == Texts \cup {Torn}

\* Findings that a malformed or forbidden action earns; all of them block.
Defect == {"schema.missing_parameter", "schema.invalid_parameter",
           "path.outside_workspace", "path.sensitive", "command.metacharacters",
           "command.no_allowlist", "command.not_allowlisted", "payload.too_large",
           "verification.invalid_action", "verification.rule_failed"}

FindingCode == Defect \cup
  {"command.execution", "rollback.unavailable",
   "effect.create", "effect.overwrite", "effect.delete"}

Action == [kind : ActionKind, path : Paths, content : Content,
           defects : SUBSET Defect]

\* `plan` is the sequence of compensating actions; it means nothing when the
\* preparation is not reversible (rollback is None).
Preparation == [reversible : BOOLEAN, existed : BOOLEAN, plan : Seq(Action)]

Verdict == [findings : SUBSET FindingCode, reversible : BOOLEAN]

PermissionMode == {"automatic", "confirm", "deny"}

Permit == [granted : BOOLEAN, mode : PermissionMode \cup {"none"}]

RiskLevel == 0 .. 4
NONE     == 0
LOW      == 1
MODERATE == 2
HIGH     == 3
CRITICAL == 4

ExecutionConfig ==
  [dry_run : BOOLEAN, default_mode : PermissionMode,
   auto_approve_max_risk : RiskLevel, deny_above_risk : RiskLevel,
   require_reversible : BOOLEAN, journal_enabled : BOOLEAN,
   gate : {"denying", "approving", "web"},
   handlers : SUBSET (ActionKind \ {"device_command"})]

-----------------------------------------------------------------------------
ASSUME ContentAssumption ==
  /\ Absent \notin Texts \cup {Torn, Binary, Directory}
  /\ Torn \notin Texts \cup {Binary, Directory}
  /\ Binary \notin Texts \cup {Directory}
  /\ Directory \notin Texts

\* A contradictory pair of thresholds is rejected when the config is built.
ASSUME ConfigAssumption ==
  /\ Configs \subseteq ExecutionConfig
  /\ \A c \in Configs : c.auto_approve_max_risk <= c.deny_above_risk

ASSUME CustomPlansAssumption == CustomPlans \subseteq Seq(Action)

-----------------------------------------------------------------------------
(* Verification. *)

RiskOf(code) ==
  CASE code \in {"path.outside_workspace", "path.sensitive",
                 "command.metacharacters", "verification.rule_failed"} -> CRITICAL
    [] code \in {"schema.missing_parameter", "schema.invalid_parameter",
                 "command.no_allowlist", "command.not_allowlisted",
                 "payload.too_large", "verification.invalid_action",
                 "rollback.unavailable"} -> HIGH
    [] code \in {"command.execution", "effect.overwrite",
                 "effect.delete"} -> MODERATE
    [] OTHER -> LOW

CommandFindings(a) ==
  IF a.kind = "shell_command" /\ a.defects = {} THEN {"command.execution"} ELSE {}

ReversibilityFindings(p) ==
  IF p.reversible THEN {} ELSE {"rollback.unavailable"}

DestructiveFindings(a, p) ==
  CASE a.kind = "file_delete" /\ p.existed -> {"effect.delete"}
    [] a.kind = "file_write" /\ p.existed  -> {"effect.overwrite"}
    [] a.kind = "file_write" /\ ~p.existed -> {"effect.create"}
    [] OTHER -> {}

\* Every rule runs; its findings accumulate.
Verify(a, p) ==
  [findings   |-> a.defects \cup CommandFindings(a)
                    \cup ReversibilityFindings(p) \cup DestructiveFindings(a, p),
   reversible |-> p.reversible]

Blocking(c, code) ==
  \/ code \in Defect
  \/ code = "rollback.unavailable" /\ c.require_reversible

Blocked(c, v) == \E code \in v.findings : Blocking(c, code)

\* Verdict.risk is the highest risk among the findings, NONE without any, so
\* comparing it with a ceiling is comparing every finding with it.
RiskWithin(v, ceiling) == \A code \in v.findings : RiskOf(code) <= ceiling

-----------------------------------------------------------------------------
(* The decision ladder of PolicyEngine.decide. *)

\* Faulty variant: irreversibility does not disqualify.
QualifiesByRiskOnly(c, v) ==
  /\ c.default_mode # "deny"
  /\ RiskWithin(v, c.auto_approve_max_risk)

QualifiesForAutomatic(c, v) ==
  /\ v.reversible
  /\ c.default_mode # "deny"
  /\ RiskWithin(v, c.auto_approve_max_risk)

MustRefuse(c, v) == Blocked(c, v) \/ ~RiskWithin(v, c.deny_above_risk)

Decision(c, v) ==
  IF MustRefuse(c, v) THEN "refuse"
  ELSE IF QualifiesForAutomatic(c, v) THEN "proceed"
  ELSE IF c.default_mode = "deny" THEN "refuse"
  ELSE "ask"
=============================================================================
