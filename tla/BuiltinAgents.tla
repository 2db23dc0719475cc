---------------------------- MODULE BuiltinAgents ----------------------------
(***************************************************************************)
(* The four agents the system ships with (eden/agents/builtin.py): how     *)
(* well each suits a task, the plans it may make for one and what it may   *)
(* find when it judges its work.  Agents takes them as its roster.         *)
(*                                                                         *)
(* A task is a record: the words of its goal, and the context it carries,  *)
(* [words, path, content, pattern, asked, aloof], where path, content and  *)
(* pattern may be None, asked is the agent it names and aloof says that    *)
(* it must not be talked about.                                            *)
(***************************************************************************)
EXTENDS Naturals, Sequences

CONSTANTS
  None,
  HasExecution,     \* whether the context was given an execution engine
  SearchRoots,      \* agents.search_roots
  Drafts,           \* the contents a model may draft, None for a blank one
  Nothing           \* the content of a file that is not there

ASSUME BuiltinAssumption == HasExecution \in BOOLEAN

Builtins == <<"conversation", "echo", "filetask", "search">>

FileKeywords == {"file", "write", "save"}
DeleteKeywords == {"delete"}
SearchKeywords == {"find", "list"}
FileNouns == {"file", "files"}
TypeHints == {"python"}

Mentions(task, keywords) == task.words \intersect keywords # {}

-----------------------------------------------------------------------------
(* can_handle; scores are in hundredths and 0 declines *)

ConversationSuits(task) == IF task.aloof THEN 0 ELSE 30

FileSuits(task) ==
  IF ~HasExecution \/ task.path = None THEN 0
  ELSE IF Mentions(task, FileKeywords \union DeleteKeywords) THEN 90 ELSE 20

HasSearch == SearchRoots # {} \/ HasExecution

\* A pattern, or words for a search together with words for files.
AsksForFiles(task) ==
  \/ task.pattern # None
  \/ Mentions(task, SearchKeywords) /\ Mentions(task, FileNouns \union TypeHints)

SearchSuits(task) ==
  IF ~HasSearch THEN 0
  ELSE IF AsksForFiles(task) THEN 95
  ELSE IF Mentions(task, SearchKeywords) THEN 30 ELSE 0

EchoSuits(task) == IF task.asked = "echo" THEN 100 ELSE 0

CanHandle(agent, task) ==
  CASE agent = "conversation" -> ConversationSuits(task)
    [] agent = "filetask" -> FileSuits(task)
    [] agent = "search" -> SearchSuits(task)
    [] agent = "echo" -> EchoSuits(task)

-----------------------------------------------------------------------------
(* plan: every plan that may be made for a task *)

PlanStep(kind, path, content, optional) ==
  [kind |-> kind, path |-> path, content |-> content, optional |-> optional]

Thinks == PlanStep("thought", None, None, FALSE)
Deletes(path) == PlanStep("delete", path, Nothing, FALSE)

\* One question, of the goal and of what is recalled for it.
ConversationPlans(task) == {<<Thinks>>}

\* The removal of the file; or the write of what the task supplies; or a draft,
\* made while planning, that a model is asked to confirm and then written.  A
\* blank draft makes no plan.
FilePlans(task) ==
  IF task.path = None THEN {}
  ELSE IF Mentions(task, DeleteKeywords) THEN {<<Deletes(task.path)>>}
  ELSE IF task.content # None THEN {<<PlanStep("write", task.path, task.content, FALSE)>>}
  ELSE {<<PlanStep("thought", None, None, TRUE), PlanStep("write", task.path, draft, FALSE)>> :
          draft \in Drafts \ {None}}

\* One walk of the file system.
SearchPlans(task) == {<<Thinks>>}

EchoPlans(task) == {<<Thinks>>}

PlansFor(agent, task) ==
  CASE agent = "conversation" -> ConversationPlans(task)
    [] agent = "filetask" -> FilePlans(task)
    [] agent = "search" -> SearchPlans(task)
    [] agent = "echo" -> EchoPlans(task)

-----------------------------------------------------------------------------
(* The ends of a thought, and the judgement on steps that all succeeded *)

\* A model answers or does not, and so does the memory an answer is put into.
ConversationThinks == {"succeeded", "failed"}

\* A search fails only for want of a place to look.
SearchThinks == {"succeeded"} \union (IF HasSearch THEN {} ELSE {"failed"})

ThoughtEnds(agent) ==
  CASE agent = "search" -> SearchThinks
    [] agent = "echo" -> {"succeeded"}
    [] OTHER -> ConversationThinks

\* A blank answer does not meet the goal, and leaves nothing to undo.
ConversationJudges == {"met", "unmet"}

\* A file task whose operations all took effect is remembered, which may raise.
FileTaskJudges == {"met", "error"}

Judgements(agent) ==
  CASE agent = "conversation" -> ConversationJudges
    [] agent = "filetask" -> FileTaskJudges
    [] OTHER -> {"met"}
=============================================================================
