--------------------------- MODULE MCTransaction ---------------------------
(* Instance of Transaction for TLC: one batch of up to three actions on one *)
(* file, and one submission by somebody else on the same file.              *)
EXTENDS Transaction

CONSTANTS s1, s2, s3, other, p, x, absent, torn, binary, directory

MCTasks == {s1, s2, s3, other}
MCSlot == <<s1, s2, s3>>
MCPaths == {p}
MCTexts == {x}

A(kind, content, defects) ==
  [kind |-> kind, path |-> p, content |-> content, defects |-> defects]

Write == A("file_write", x, {})
Delete == A("file_delete", absent, {})
Forbidden == A("file_write", x, {"path.sensitive"})
Shell == A("shell_command", absent, {})
Device == A("device_command", absent, {})

MCActions == {Write, Delete, Forbidden, Shell, Device}

MCBatches ==
  {<<>>, <<Write, Delete, Forbidden>>, <<Delete, Write, Shell>>,
   <<Shell, Write, Device>>, <<Write, Delete, Write, Delete>>}

MCOtherActions == {Delete}

MCCustomPlans == {}

AllHandlers == {"noop", "file_write", "file_delete", "shell_command"}

Default ==
  [dry_run |-> FALSE, default_mode |-> "confirm", auto_approve_max_risk |-> MODERATE,
   deny_above_risk |-> HIGH, require_reversible |-> FALSE, journal_enabled |-> FALSE,
   gate |-> "web", handlers |-> AllHandlers]

\* The third registers no handler for the step that undoes a creation.
MCConfigs ==
  {Default, [Default EXCEPT !.gate = "approving", !.dry_run = TRUE],
   [Default EXCEPT !.gate = "denying", !.handlers = AllHandlers \ {"file_delete"}]}
=============================================================================
