--------------------------- MODULE ActionHandlers ---------------------------
(***************************************************************************)
(* The built-in action handlers (eden/execution/handlers.py) over a        *)
(* workspace, a function from paths to what is found there.  A handler is  *)
(* two operators: what its `prepare` may capture and what its `execute`    *)
(* may do.  Both return sets, because the operating system decides: a file *)
(* may be unreadable, a write may fail before it opened the file or after  *)
(* it truncated it, a program may do anything before it is killed.         *)
(*                                                                         *)
(* File contents are read and written in a worker thread                   *)
(* (asyncio.to_thread), so the look at the path that begins `prepare` and  *)
(* the read that ends it are two moments, and so are the approval of an    *)
(* effect and the effect.                                                  *)
(***************************************************************************)
EXTENDS ExecutionPolicy

ShippedKinds == {"noop", "file_write", "file_delete", "shell_command"}

FileKinds == {"file_write", "file_delete"}

Irreversible(existed) ==
  [reversible |-> FALSE, existed |-> existed, plan |-> <<>>]

ReversibleBy(existed, plan) ==
  [reversible |-> TRUE, existed |-> existed, plan |-> plan]

DeleteStep(p) ==
  [kind |-> "file_delete", path |-> p, content |-> Absent, defects |-> {}]

WriteStep(p, text) ==
  [kind |-> "file_write", path |-> p, content |-> text, defects |-> {}]

-----------------------------------------------------------------------------
(* prepare *)

\* resolve_path raises when the path is missing or malformed, and the engine
\* reads a failed preparation as "no rollback plan".
MayLackPath(a) ==
  a.kind \in FileKinds /\
  a.defects \cap {"schema.missing_parameter", "schema.invalid_parameter",
                 "verification.rule_failed"} # {}

\* Whether `prepare` has to read the file before it can answer.
NeedsRead(a, ws) ==
  \/ a.kind = "file_write" /\ ws[a.path] # Absent
  \/ a.kind = "file_delete" /\ ws[a.path] \notin {Absent, Directory}

\* The preparations reached without waiting for a read.
PreparedAtOnce(a, ws) ==
  (IF MayLackPath(a) THEN {Irreversible(FALSE)} ELSE {}) \cup
  CASE a.kind = "noop" -> {ReversibleBy(FALSE, <<>>)}
    [] a.kind = "shell_command" -> {Irreversible(FALSE)}
    [] a.kind = "custom" ->
         {Irreversible(FALSE)} \cup {ReversibleBy(FALSE, plan) : plan \in CustomPlans}
    [] a.kind = "file_write" /\ ws[a.path] = Absent ->
         {ReversibleBy(FALSE, <<DeleteStep(a.path)>>)}
    [] a.kind = "file_delete" /\ ws[a.path] = Absent -> {ReversibleBy(FALSE, <<>>)}
    [] a.kind = "file_delete" /\ ws[a.path] = Directory -> {Irreversible(FALSE)}
    [] OTHER -> {}

\* The preparations reached once the read returns: text is captured, and
\* anything that cannot be read as text makes the action irreversible.
PreparedByRead(a, ws) ==
  {Irreversible(a.kind = "file_write")} \cup
  (IF ws[a.path] \in Readable
   THEN {ReversibleBy(TRUE, <<WriteStep(a.path, ws[a.path])>>)}
   ELSE {})

-----------------------------------------------------------------------------
(* execute: the possible outcomes of running one action or one rollback     *)
(* step, as records of how the call ended and the workspace it leaves.      *)

CallResult == {"ok", "unsuccessful", "error"}

Ends(result, ws) == [result |-> result, workspace |-> ws]

Put(ws, p, x) == [ws EXCEPT ![p] = x]

\* Opening a directory fails; any other write may fail untouched, fail after
\* the file was truncated, or succeed.
WriteOutcomes(a, ws) ==
  {Ends("error", ws)} \cup
  (IF ws[a.path] = Directory THEN {}
   ELSE {Ends("ok", Put(ws, a.path, a.content)),
         Ends("error", Put(ws, a.path, Torn))})

\* unlink(missing_ok=True): deleting nothing succeeds.
DeleteOutcomes(a, ws) ==
  {Ends("error", ws)} \cup
  (IF ws[a.path] = Directory THEN {} ELSE {Ends("ok", Put(ws, a.path, Absent))})

\* An allowlisted program may leave the workspace alone or change a file of
\* it, whether it exits cleanly, exits non-zero or is killed at its timeout.
ShellOutcomes(ws) ==
  {Ends(r, ws) : r \in {"ok", "error"}} \cup
  {Ends(r, Put(ws, p, x)) : r \in {"ok", "error"}, p \in Paths, x \in Texts \cup {Absent}}

\* A handler registered by the embedding program acts outside the workspace;
\* it alone may return a result that reports failure without raising.
Outcomes(a, ws) ==
  CASE a.kind = "file_write"    -> WriteOutcomes(a, ws)
    [] a.kind = "file_delete"   -> DeleteOutcomes(a, ws)
    [] a.kind = "shell_command" -> ShellOutcomes(ws)
    [] a.kind = "custom"        -> {Ends(r, ws) : r \in CallResult}
    [] OTHER                    -> {Ends("ok", ws)}
=============================================================================
