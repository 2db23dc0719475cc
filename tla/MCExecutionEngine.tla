------------------------- MODULE MCExecutionEngine -------------------------
(* Instance of ExecutionEngine for TLC: two submissions on one file. *)
EXTENDS ExecutionEngine

CONSTANTS t1, t2, p, x, y, absent, torn, binary, directory

MCTasks == {t1, t2}
MCPaths == {p}
MCTexts == {x, y}

A(kind, content, defects) ==
  [kind |-> kind, path |-> p, content |-> content, defects |-> defects]

MCActions ==
  {A("file_write", x, {}), A("file_delete", absent, {}),
   A("file_write", x, {"path.sensitive"}),
   A("file_delete", absent, {"schema.missing_parameter"}),
   A("shell_command", absent, {}), A("noop", absent, {}), A("custom", absent, {}),
   A("device_command", absent, {})}

\* Multi-step plans come only from an embedding program's handlers; the second
\* names a handler that may not be registered.
MCCustomPlans ==
  {<<DeleteStep(p), WriteStep(p, y)>>,
   <<A("noop", absent, {}), A("shell_command", absent, {})>>}

AllHandlers == {"noop", "file_write", "file_delete", "shell_command", "custom"}

Default ==
  [dry_run |-> FALSE, default_mode |-> "confirm", auto_approve_max_risk |-> LOW,
   deny_above_risk |-> HIGH, require_reversible |-> FALSE, journal_enabled |-> TRUE,
   gate |-> "web", handlers |-> AllHandlers]

MCConfigs ==
  {Default,
   [Default EXCEPT !.dry_run = TRUE],
   [Default EXCEPT !.default_mode = "deny", !.journal_enabled = FALSE],
   [Default EXCEPT !.auto_approve_max_risk = MODERATE, !.deny_above_risk = MODERATE,
                   !.gate = "denying", !.handlers = AllHandlers \ {"shell_command"}],
   [Default EXCEPT !.gate = "approving", !.require_reversible = TRUE],
   [Default EXCEPT !.auto_approve_max_risk = HIGH, !.deny_above_risk = CRITICAL]}

\* The smaller instance on which liveness and refinement are checked.
MCFewActions ==
  {A("file_write", x, {}), A("file_delete", absent, {}), A("shell_command", absent, {})}

MCFewConfigs ==
  {Default,
   [Default EXCEPT !.auto_approve_max_risk = MODERATE, !.gate = "approving"]}
=============================================================================
