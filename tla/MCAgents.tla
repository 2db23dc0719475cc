------------------------------ MODULE MCAgents ------------------------------
(* Instance of Agents for TLC: the built-in agents and an editor that makes   *)
(* plans of several steps.  A batch of a task that nobody takes, one whose    *)
(* named agent declines it, a question and a task for the editor, next to a   *)
(* task that has the same file drafted and written.  The tables are           *)
(* definitions of their own because TLC evaluates those only once.            *)
EXTENDS Agents, BuiltinAgents, TLC

CONSTANTS c1, c2, t1, t2, t3, t4, t5, p, q, x, y, absent, torn, binary

MCCallers == {c1, c2}
MCTasks == {t1, t2, t3, t4, t5}
Batches == c1 :> <<t2, t5, t3, t1>> @@ c2 :> <<t4>>
MCBatch == Batches
MCRoster == <<"conversation", "echo", "editor", "filetask", "search">>
MCForced == t5 :> "echo" @@ [t \in {t1, t2, t3, t4} |-> NoAgent]

Goal(words) ==
  [words |-> words, path |-> None, content |-> None, pattern |-> None, asked |-> "", aloof |-> FALSE]
MCGoal ==
  t1 :> [Goal({"edit"}) EXCEPT !.path = p] @@ t2 :> [Goal({"save"}) EXCEPT !.aloof = TRUE]
  @@ t3 :> Goal({"find"}) @@ t4 :> [Goal({"write", "file"}) EXCEPT !.path = p] @@ t5 :> Goal({})

SuitsTable == [t \in MCTasks |-> [a \in Range(MCRoster) |->
  IF a = "editor" THEN (IF t = t1 THEN 95 ELSE 0) ELSE CanHandle(a, MCGoal[t])]]
MCScore == SuitsTable

Write(f, content) == PlanStep("write", f, content, FALSE)
Command == PlanStep("command", None, None, FALSE)
Send == PlanStep("device", None, None, FALSE)
EditorPlans == {<<Write(p, x), Write(p, y)>>, <<Write(q, x), Deletes(p), Command>>, <<Send>>}

PlanTable == [t \in MCTasks |-> [a \in Range(MCRoster) |->
  IF a = "editor" THEN EditorPlans ELSE PlansFor(a, MCGoal[t])]]
MCPlans == PlanTable
ThoughtTable == [a \in Range(MCRoster) |-> ThoughtEnds(a)]
MCThoughts == ThoughtTable
JudgeTable == [a \in Range(MCRoster) |-> IF a = "editor" THEN {"met", "undo"} ELSE Judgements(a)]
MCJudges == JudgeTable

MCHandled == {"write", "delete", "command"}
MCPaths == {p, q}
MCContents == {x, y, absent, torn, binary}
MCUnreadable == {binary}
MCWorld == p :> absent @@ q :> binary
MCDrafts == {y, None}
MCSearchRoots == {}
=============================================================================
