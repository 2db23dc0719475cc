------------------------------- MODULE Memory -------------------------------
(***************************************************************************)
(* Conversation memory, its consolidation into long-term memory, and the   *)
(* facts kept in project memory (eden/memory: manager.py, conversation.py, *)
(* consolidation.py, stores.py), over the repositories of RecordFiles, for *)
(* one namespace.                                                          *)
(*                                                                         *)
(* Clients are coroutines of one event loop: agents, which observe a turn  *)
(* and consolidate, chats, which observe one and build a window, and       *)
(* callers of forget.  A client is interrupted where it awaits a           *)
(* repository or the summariser and nowhere else, so each action below     *)
(* runs from one such await to the next.  at names the await.              *)
(*                                                                         *)
(* A turn is its number.  A summary is the set of the turns it was made    *)
(* of.  Facts all have the same key, and a fact is the turn that states it. *)
(***************************************************************************)
EXTENDS RecordFiles, FiniteSets, SequencesExt

CONSTANTS
  MaxTurns,         \* bound: turns observed in a behaviour
  FactTurns,        \* the user turns a fact is recognised in
  TurnLimit,        \* memory.conversation_turn_limit
  ConsolidateAfter, \* memory.consolidate_after_turns
  KeepTurns,        \* memory.consolidation_keep_turns
  MaxRecords,       \* memory.long_term_max_records
  MaxAsides,        \* bound: calls of remember, forget_fact and forget
  MaxMishaps,       \* bound: failed file operations and crashes
  NoCache           \* the conversation is not in ConversationMemory._turns

Turn == 1 .. MaxTurns

ASSUME MemoryAssumption ==
  /\ IsFiniteSet(Clients)
  /\ MaxTurns \in Nat /\ MaxAsides \in Nat /\ MaxMishaps \in Nat
  /\ TurnLimit \in Nat \ {0} /\ MaxRecords \in Nat \ {0} /\ KeepTurns \in Nat \ {0}
  /\ ConsolidateAfter \in Nat /\ KeepTurns < ConsolidateAfter
  /\ FactTurns \subseteq Turn
  /\ Files = {"long_term", "conversation", "project"}
  /\ NoCache \notin Seq(Turn)

\* MemoryManager's stores, in the order build_memory_manager lists them.
Stores == <<"long_term", "conversation", "project">>

VARIABLES
  cache,      \* ConversationMemory._turns for the namespace
  at,         \* what each client awaits
  turn,       \* the turn it observes, 0 for none
  batch,      \* the turns it consolidates
  todo,       \* the records its deletions still have to look at
  owed,       \* how many more of them _prune has to delete
  hit,        \* whether the cache held the record being deleted
  kept,       \* what a deletion is about to write back
  toClear     \* the stores its forget has not cleared yet

(* Counters that bound the behaviours. *)
VARIABLES
  told,       \* the turns observed so far
  asides,     \* the other calls that change something
  mishaps

(* History, read by the properties only. *)
VARIABLES
  acked,      \* turns whose observation was acknowledged by the file
  dropped,    \* turns a call of forget may have removed
  exposed,    \* turns that met one of the known losses, see Remembered
  crossed,    \* clients whose consolidation others got in the way of
  leaving,    \* the turns a forget found acknowledged when it started
  spoilt,     \* whether it met anything but the arrival of new turns
  erased,     \* the turns of the forgets that were not spoilt
  known,      \* the fact stored last, 0 once it is deleted
  mixed       \* whether updates of the fact overlapped or broke off

localVars == <<at, turn, batch, todo, owed, hit, kept, toClear>>
boundVars == <<told, asides, mishaps>>
historyVars == <<acked, dropped, exposed, crossed, leaving, spoilt, erased, known, mixed>>
vars == <<fileVars, cache, localVars, boundVars, historyVars>>

OnFile == {"stores_turn", "counts", "lists", "looks_for_turn", "drops_turn", "loads"}
OnSummaries == {"weighs_summary", "stores_summary"}
OnFacts == {"finds_fact", "looks_for_fact", "drops_fact", "weighs_fact", "stores_fact"}
Forgetting == {"clears", "unlinks"}
Compressing == {"summarises", "lists", "looks_for_turn", "drops_turn"} \union OnSummaries
Position == {"idle", "summarises"} \union OnFile \union OnSummaries \union OnFacts \union Forgetting

\* The repository a client awaits.
FileOf(c) ==
  CASE at[c] \in OnFile -> "conversation"
    [] at[c] \in OnSummaries -> "long_term"
    [] at[c] \in OnFacts -> "project"
    [] at[c] \in Forgetting -> Head(toClear[c])
    [] OTHER -> Nowhere

Waits(c, position) == at[c] = position /\ First(c, FileOf(c))

To(c, position) == at' = [at EXCEPT ![c] = position]

\* What c was working on is no longer needed, but for a batch of turns.
Starts(c, turns) ==
  /\ turn' = [turn EXCEPT ![c] = 0]
  /\ batch' = [batch EXCEPT ![c] = turns]
  /\ todo' = [todo EXCEPT ![c] = <<>>]
  /\ owed' = [owed EXCEPT ![c] = 0]
  /\ hit' = [hit EXCEPT ![c] = FALSE]
  /\ kept' = [kept EXCEPT ![c] = <<>>]
  /\ toClear' = [toClear EXCEPT ![c] = <<>>]

\* c is finished: its call returns or raises.
Done(c, from) == To(c, "idle") /\ Goes(c, from, Nowhere) /\ Starts(c, <<>>)

\* s without r, record after record.
Filtered(s, r) ==
  LET rest[n \in 0 .. Len(s)] ==
        IF n = 0 THEN <<>> ELSE IF s[n] = r THEN rest[n - 1] ELSE Append(rest[n - 1], s[n])
  IN rest[Len(s)]
Holds(s, r) == \E i \in DOMAIN s : s[i] = r
Cached == IF cache = NoCache THEN <<>> ELSE cache

-----------------------------------------------------------------------------
(* Consolidation *)

\* Faulty variant: the most recent turns are compressed and the oldest kept.
Youngest(turns) == SubSeq(turns, KeepTurns + 1, Len(turns))

\* All but the most recent turns.
Oldest(turns) == SubSeq(turns, 1, Len(turns) - KeepTurns)

\* due and the choice of the turns, on a history.
CompressOrEnd(c, from, turns) ==
  IF Len(turns) > ConsolidateAfter
  THEN To(c, "summarises") /\ Goes(c, from, Nowhere) /\ Starts(c, Oldest(turns))
  ELSE Done(c, from)

\* observe is over.  An agent goes on to consolidate, with the cached history
\* or with the one it reads; a chat does not.
AfterObserve(c, from) ==
  \/ Done(c, from)
  \/ cache # NoCache /\ CompressOrEnd(c, from, cache)
  \/ cache = NoCache /\ To(c, "counts") /\ Goes(c, from, "conversation") /\ Starts(c, <<>>)

\* _prune, from a deletion to the next: the record leaves the cache, which is
\* made if it was not there, and the repository is asked to remove it.
PruneNext(c, from, list, due, turns) ==
  IF due = 0 \/ list = <<>>
  THEN cache' = turns /\ Done(c, from)
  ELSE LET present == IF turns = NoCache THEN <<>> ELSE turns
       IN /\ cache' = Filtered(present, Head(list))
          /\ hit' = [hit EXCEPT ![c] = Holds(present, Head(list))]
          /\ todo' = [todo EXCEPT ![c] = list]
          /\ owed' = [owed EXCEPT ![c] = due]
          /\ To(c, "looks_for_turn")
          /\ Goes(c, from, "conversation")
          /\ kept' = [kept EXCEPT ![c] = <<>>]
          /\ UNCHANGED <<turn, batch, toClear>>

\* The history for due, read because the conversation was not cached.
Counts(c) ==
  /\ Waits(c, "counts")
  /\ cache' = records["conversation"]
  /\ CompressOrEnd(c, "conversation", records["conversation"])
  /\ UNCHANGED <<records, tail, boundVars>>

\* The summariser answers.  An empty summary ends the consolidation.
Summarised(c) ==
  /\ at[c] = "summarises"
  /\ \/ Done(c, Nowhere)
     \/ /\ To(c, "weighs_summary")
        /\ Goes(c, Nowhere, "long_term")
        /\ UNCHANGED <<turn, batch, todo, owed, hit, kept, toClear>>
  /\ UNCHANGED <<records, tail, cache, boundVars>>

Full(f) == Len(records[f]) >= MaxRecords

\* Faulty variant: the ceiling admits one record too many.
WeighsSummaryLate(c) ==
  /\ Waits(c, "weighs_summary")
  /\ IF Len(records["long_term"]) > MaxRecords
     THEN Done(c, "long_term")
     ELSE /\ To(c, "stores_summary")
          /\ Goes(c, "long_term", "long_term")
          /\ UNCHANGED <<turn, batch, todo, owed, hit, kept, toClear>>
  /\ UNCHANGED <<records, tail, cache, boundVars>>

\* LongTermMemory.add of the summary: the ceiling is looked at first.
WeighsSummary(c) ==
  /\ Waits(c, "weighs_summary")
  /\ IF Full("long_term")
     THEN Done(c, "long_term")
     ELSE /\ To(c, "stores_summary")
          /\ Goes(c, "long_term", "long_term")
          /\ UNCHANGED <<turn, batch, todo, owed, hit, kept, toClear>>
  /\ UNCHANGED <<records, tail, cache, boundVars>>

\* The summary is stored, and the turns are pruned; a note is only stored.
StoresSummary(c) ==
  /\ Waits(c, "stores_summary")
  /\ AppendLine("long_term", ToSet(batch[c]))
  /\ IF batch[c] = <<>> THEN Done(c, "long_term") /\ UNCHANGED cache
     ELSE IF cache = NoCache
     THEN /\ To(c, "lists")
          /\ Goes(c, "long_term", "conversation")
          /\ UNCHANGED <<cache, turn, batch, todo, owed, hit, kept, toClear>>
     ELSE PruneNext(c, "long_term", cache, Len(batch[c]), cache)
  /\ UNCHANGED boundVars

\* The history for _prune, read because the conversation was not cached.
Lists(c) ==
  /\ Waits(c, "lists")
  /\ PruneNext(c, "conversation", records["conversation"], Len(batch[c]), records["conversation"])
  /\ UNCHANGED <<records, tail, boundVars>>

\* JsonlRecordRepository.remove reads; if the record is not there, the deletion
\* is over, and counts if the cache held it.
LooksForTurn(c) ==
  /\ Waits(c, "looks_for_turn")
  /\ LET victim == Head(todo[c])
     IN IF Holds(records["conversation"], victim)
        THEN /\ kept' = [kept EXCEPT ![c] = Filtered(records["conversation"], victim)]
             /\ To(c, "drops_turn")
             /\ Goes(c, "conversation", "conversation")
             /\ UNCHANGED <<cache, turn, batch, todo, owed, hit, toClear>>
        ELSE PruneNext(c, "conversation", Tail(todo[c]),
                       IF hit[c] THEN owed[c] - 1 ELSE owed[c], cache)
  /\ UNCHANGED <<records, tail, boundVars>>

\* It rewrites the file with what it read, but for the record.
DropsTurn(c) ==
  /\ Waits(c, "drops_turn")
  /\ Rewrite("conversation", kept[c])
  /\ PruneNext(c, "conversation", Tail(todo[c]), owed[c] - 1, cache)
  /\ UNCHANGED boundVars

\* remember, of a note for long-term memory: a summary of no turns.
Remember(c) ==
  /\ at[c] = "idle"
  /\ asides < MaxAsides
  /\ asides' = asides + 1
  /\ To(c, "weighs_summary")
  /\ Goes(c, Nowhere, "long_term")
  /\ UNCHANGED <<records, tail, cache, turn, batch, todo, owed, hit, kept, toClear, told, mishaps>>

-----------------------------------------------------------------------------
(* Facts.  A client with a turn updates the fact, one without deletes it. *)

Replaces(c) == turn[c] # 0

\* forget_fact
ForgetFact(c) ==
  /\ at[c] = "idle"
  /\ asides < MaxAsides
  /\ asides' = asides + 1
  /\ To(c, "finds_fact")
  /\ Goes(c, Nowhere, "project")
  /\ UNCHANGED <<records, tail, cache, turn, batch, todo, owed, hit, kept, toClear, told, mishaps>>

\* The old value is gone, or there was none.
FactGone(c) ==
  IF Replaces(c)
  THEN /\ To(c, "weighs_fact")
       /\ Goes(c, "project", "project")
       /\ todo' = [todo EXCEPT ![c] = <<>>]
       /\ kept' = [kept EXCEPT ![c] = <<>>]
       /\ UNCHANGED <<turn, batch, owed, hit, toClear>>
  ELSE Done(c, "project")

\* Both look for the key among the facts; of several they take the most recent,
\* which search ranks first.
FindsFact(c) ==
  /\ Waits(c, "finds_fact")
  /\ IF records["project"] = <<>>
     THEN FactGone(c)
     ELSE /\ To(c, "looks_for_fact")
          /\ todo' = [todo EXCEPT ![c] = <<Last(records["project"])>>]
          /\ Goes(c, "project", "project")
          /\ UNCHANGED <<turn, batch, owed, hit, kept, toClear>>
  /\ UNCHANGED <<records, tail, cache, boundVars>>

LooksForFact(c) ==
  /\ Waits(c, "looks_for_fact")
  /\ LET victim == Head(todo[c])
     IN IF Holds(records["project"], victim)
        THEN /\ kept' = [kept EXCEPT ![c] = Filtered(records["project"], victim)]
             /\ To(c, "drops_fact")
             /\ Goes(c, "project", "project")
             /\ UNCHANGED <<turn, batch, todo, owed, hit, toClear>>
        ELSE FactGone(c)
  /\ UNCHANGED <<records, tail, cache, boundVars>>

\* Faulty variant: what is left of the file is not written back.
LeavesFact(c) ==
  /\ Waits(c, "drops_fact")
  /\ FactGone(c)
  /\ UNCHANGED <<records, tail, cache, boundVars>>

DropsFact(c) ==
  /\ Waits(c, "drops_fact")
  /\ Rewrite("project", kept[c])
  /\ FactGone(c)
  /\ UNCHANGED <<cache, boundVars>>

\* A full store refuses the fact, and observe carries on without it.
WeighsFact(c) ==
  /\ Waits(c, "weighs_fact")
  /\ IF Full("project")
     THEN AfterObserve(c, "project")
     ELSE /\ To(c, "stores_fact")
          /\ Goes(c, "project", "project")
          /\ UNCHANGED <<turn, batch, todo, owed, hit, kept, toClear>>
  /\ UNCHANGED <<records, tail, cache, boundVars>>

StoresFact(c) ==
  /\ Waits(c, "stores_fact")
  /\ AppendLine("project", turn[c])
  /\ AfterObserve(c, "project")
  /\ UNCHANGED <<cache, boundVars>>

-----------------------------------------------------------------------------
(* The calls *)

Trimmed(s) == IF Len(s) > TurnLimit THEN SubSeq(s, Len(s) - TurnLimit + 1, Len(s)) ELSE s

\* observe: the turn enters the cache, which is made if it was not there, and
\* then the file.
Observe(c) ==
  /\ at[c] = "idle"
  /\ told < MaxTurns
  /\ told' = told + 1
  /\ turn' = [turn EXCEPT ![c] = told + 1]
  /\ cache' = Trimmed(Append(Cached, told + 1))
  /\ To(c, "stores_turn")
  /\ Goes(c, Nowhere, "conversation")
  /\ UNCHANGED <<records, tail, batch, todo, owed, hit, kept, toClear, asides, mishaps>>

StoresTurn(c) ==
  /\ Waits(c, "stores_turn")
  /\ AppendLine("conversation", turn[c])
  /\ IF turn[c] \in FactTurns
     THEN /\ To(c, "finds_fact")
          /\ Goes(c, "conversation", "project")
          /\ UNCHANGED <<turn, batch, todo, owed, hit, kept, toClear>>
     ELSE AfterObserve(c, "conversation")
  /\ UNCHANGED <<cache, boundVars>>

\* history, search_records or window of a conversation that is not cached.
Load(c) ==
  /\ at[c] = "idle"
  /\ cache = NoCache
  /\ To(c, "loads")
  /\ Goes(c, Nowhere, "conversation")
  /\ UNCHANGED <<records, tail, cache, turn, batch, todo, owed, hit, kept, toClear, boundVars>>

Loaded(c) ==
  /\ Waits(c, "loads")
  /\ cache' = records["conversation"]
  /\ Done(c, "conversation")
  /\ UNCHANGED <<records, tail, boundVars>>

\* Faulty variant: clearing a store leaves the cache alone.
KeepsCache(stores) == cache

\* The cache goes when the purge of the conversation begins.
CacheAfterPurge(stores) == IF stores # <<>> /\ Head(stores) = "conversation" THEN NoCache ELSE cache

\* forget, of every store or of the one of a kind.
Forget(c) ==
  /\ at[c] = "idle"
  /\ asides < MaxAsides
  /\ asides' = asides + 1
  /\ \E stores \in {Stores} \union {<<f>> : f \in Files} :
       /\ toClear' = [toClear EXCEPT ![c] = stores]
       /\ cache' = CacheAfterPurge(stores)
       /\ Goes(c, Nowhere, Head(stores))
  /\ To(c, "clears")
  /\ UNCHANGED <<records, tail, turn, batch, todo, owed, hit, kept, told, mishaps>>

\* purge counts what is there with one call and unlinks the file with another.
Clears(c) ==
  /\ Waits(c, "clears")
  /\ To(c, "unlinks")
  /\ Goes(c, FileOf(c), FileOf(c))
  /\ UNCHANGED <<records, tail, cache, turn, batch, todo, owed, hit, kept, toClear, boundVars>>

Unlinks(c) ==
  /\ Waits(c, "unlinks")
  /\ Unlink(FileOf(c))
  /\ LET rest == Tail(toClear[c])
     IN /\ cache' = CacheAfterPurge(rest)
        /\ IF rest = <<>>
           THEN Done(c, FileOf(c))
           ELSE /\ toClear' = [toClear EXCEPT ![c] = rest]
                /\ To(c, "clears")
                /\ Goes(c, FileOf(c), Head(rest))
                /\ UNCHANGED <<turn, batch, todo, owed, hit, kept>>
  /\ UNCHANGED boundVars

-----------------------------------------------------------------------------
(* Mishaps *)

Appends(c) == at[c] \in {"stores_turn", "stores_summary", "stores_fact"}
InFlight(c) == IF at[c] = "stores_summary" THEN ToSet(batch[c]) ELSE turn[c]

\* A file operation raises OSError.  An append may have written some of its line;
\* a rewrite or an unlink changes nothing.  observe survives the loss of a fact.
Fails(c) ==
  /\ mishaps < MaxMishaps
  /\ mishaps' = mishaps + 1
  /\ FileOf(c) # Nowhere
  /\ First(c, FileOf(c))
  /\ \E cut \in IF Appends(c) THEN Cuts ELSE {"nothing"} :
       /\ records' = [records EXCEPT ![FileOf(c)] = AfterCut(FileOf(c), InFlight(c), cut)]
       /\ tail' = [tail EXCEPT ![FileOf(c)] = TailAfterCut(FileOf(c), cut)]
  /\ IF at[c] \in OnFacts /\ Replaces(c) THEN AfterObserve(c, "project") ELSE Done(c, FileOf(c))
  /\ UNCHANGED <<cache, told, asides>>

\* The call at the head of a queue may be cut off by the end of the process.
Interrupts(f, position) == queue[f] # <<>> /\ at[Head(queue[f])] \in position
Renames == {"drops_turn", "drops_fact", "unlinks"}
CutsOf(f) == IF queue[f] # <<>> /\ Appends(Head(queue[f])) THEN Cuts ELSE {"nothing"}

\* The process ends and is started again: only the files are left.
Crash ==
  /\ mishaps < MaxMishaps
  /\ mishaps' = mishaps + 1
  /\ \E cut \in [Files -> Cuts], renamed \in SUBSET {f \in Files : Interrupts(f, Renames)} :
       /\ \A f \in Files : cut[f] \in CutsOf(f)
       /\ records' = [f \in Files |->
            IF f \in renamed THEN kept[Head(queue[f])]
            ELSE IF cut[f] = "nothing" THEN records[f]
            ELSE AfterCut(f, InFlight(Head(queue[f])), cut[f])]
       /\ tail' = [f \in Files |-> IF f \in renamed THEN "clean" ELSE TailAfterCut(f, cut[f])]
  /\ queue' = [f \in Files |-> <<>>]
  /\ cache' = NoCache
  /\ at' = [c \in Clients |-> "idle"]
  /\ turn' = [c \in Clients |-> 0]
  /\ batch' = [c \in Clients |-> <<>>]
  /\ todo' = [c \in Clients |-> <<>>]
  /\ owed' = [c \in Clients |-> 0]
  /\ hit' = [c \in Clients |-> FALSE]
  /\ kept' = [c \in Clients |-> <<>>]
  /\ toClear' = [c \in Clients |-> <<>>]
  /\ UNCHANGED <<told, asides>>

-----------------------------------------------------------------------------
(* The history *)

Arrives(c) == at[c] = "stores_turn" /\ mishaps' = mishaps

\* The cache or the file changed otherwise than by a turn added at its end.
Disturbed ==
  \/ cache' # cache /\ ~(cache # NoCache /\ cache' # NoCache /\ IsPrefix(cache, cache'))
  \/ ~IsPrefix(records["conversation"], records'["conversation"])

\* The turns a step of c exposes to a loss that is known.
Exposes(c) ==
  (IF at[c] = "stores_turn" /\ (tail["conversation"] # "clean"
                                 \/ \E d \in Clients \ {c} : at[d] = "drops_turn")
   THEN {turn[c]} ELSE {})
  \union (IF at[c] = "stores_summary" /\ tail["long_term"] # "clean" THEN ToSet(batch[c]) ELSE {})
  \union (IF at[c] = "drops_turn" /\ c \in crossed THEN {Head(todo[c])} ELSE {})

\* The turns a forget may remove: those acknowledged, and those that are in a
\* summary, although the file may still have to acknowledge them.
Removable == acked \union UNION ToSet(records["long_term"])

\* Who is changing the facts: an update of one, or the purge of their file.
OnProject(place, stores) ==
  place \in OnFacts \/ (place \in Forgetting /\ Head(stores) = "project")

Learns(c) ==
  /\ acked' = IF Arrives(c) THEN acked \union {turn[c]} ELSE acked
  /\ dropped' = IF {at[c], at'[c]} \intersect Forgetting # {}
                 THEN dropped \union Removable ELSE dropped
  /\ exposed' = exposed \union Exposes(c)
  /\ crossed' = {d \in Clients : /\ at[d] \in Compressing /\ at'[d] \in Compressing
                                 /\ d \in crossed \/ (d # c /\ Disturbed)}
  /\ leaving' = [leaving EXCEPT ![c] =
       IF at'[c] \notin Forgetting THEN {}
       ELSE IF toClear'[c] = Stores /\ at[c] = "idle" THEN acked ELSE @]
  /\ spoilt' = /\ \E d \in Clients : at'[d] \in Forgetting
               /\ \/ spoilt
                  \/ \E d \in Clients : at'[d] \notin Forgetting \union {"idle", "stores_turn"}
  /\ erased' = IF /\ at[c] = "unlinks" /\ Tail(toClear[c]) = <<>>
                  /\ mishaps' = mishaps /\ ~spoilt
               THEN erased \union leaving[c] ELSE erased
  /\ known' = IF mishaps' # mishaps THEN known
              ELSE IF at[c] = "stores_fact" THEN turn[c]
              ELSE IF at[c] = "drops_fact" \/ (at[c] = "unlinks" /\ Head(toClear[c]) = "project")
              THEN 0 ELSE known
  /\ mixed' = \/ mixed
              \/ OnProject(at[c], toClear[c]) /\ mishaps' # mishaps
              \/ /\ OnProject(at'[c], toClear'[c])
                 /\ \E d \in Clients \ {c} : OnProject(at[d], toClear[d])

LearnsOfCrash ==
  /\ dropped' = IF \E c \in Clients : at[c] \in Forgetting THEN dropped \union Removable ELSE dropped
  /\ exposed' = exposed \union UNION {Exposes(c) : c \in {d \in Clients : at[d] = "drops_turn"}}
  /\ crossed' = {} /\ spoilt' = FALSE
  /\ leaving' = [c \in Clients |-> {}]
  /\ mixed' = (mixed \/ queue["project"] # <<>>)
  /\ UNCHANGED <<acked, erased, known>>

-----------------------------------------------------------------------------
Init ==
  /\ FilesInit
  /\ cache = NoCache
  /\ at = [c \in Clients |-> "idle"]
  /\ turn = [c \in Clients |-> 0]
  /\ batch = [c \in Clients |-> <<>>]
  /\ todo = [c \in Clients |-> <<>>]
  /\ owed = [c \in Clients |-> 0]
  /\ hit = [c \in Clients |-> FALSE]
  /\ kept = [c \in Clients |-> <<>>]
  /\ toClear = [c \in Clients |-> <<>>]
  /\ told = 0 /\ asides = 0 /\ mishaps = 0
  /\ acked = {} /\ dropped = {} /\ exposed = {} /\ crossed = {} /\ erased = {}
  /\ leaving = [c \in Clients |-> {}]
  /\ spoilt = FALSE /\ mixed = FALSE
  /\ known = 0

Conversing(c) == Observe(c) \/ StoresTurn(c) \/ Load(c) \/ Loaded(c)
Consolidating(c) ==
  Remember(c) \/ Counts(c) \/ Summarised(c) \/ WeighsSummary(c) \/ StoresSummary(c) \/ Lists(c)
  \/ LooksForTurn(c) \/ DropsTurn(c)
UpdatingFacts(c) ==
  ForgetFact(c) \/ FindsFact(c) \/ LooksForFact(c) \/ DropsFact(c) \/ WeighsFact(c) \/ StoresFact(c)
Erasing(c) == Forget(c) \/ Clears(c) \/ Unlinks(c)

Step(c) == Conversing(c) \/ Consolidating(c) \/ UpdatingFacts(c) \/ Erasing(c) \/ Fails(c)

Next == (\E c \in Clients : Step(c) /\ Learns(c)) \/ (Crash /\ LearnsOfCrash)

Spec == Init /\ [][Next]_vars

-----------------------------------------------------------------------------
(* Properties *)

\* The types; and only those whose deletion has read the file hold what it is
\* to be written back.
MemoryTypeOK ==
  /\ FilesTypeOK
  /\ records["long_term"] \in Seq(SUBSET Turn)
  /\ records["conversation"] \in Seq(Turn) /\ records["project"] \in Seq(Turn)
  /\ cache \in Seq(Turn) \union {NoCache}
  /\ cache # NoCache => Len(cache) <= MaxTurns
  /\ at \in [Clients -> Position]
  /\ turn \in [Clients -> Turn \union {0}]
  /\ batch \in [Clients -> Seq(Turn)] /\ todo \in [Clients -> Seq(Turn)]
  /\ owed \in [Clients -> Nat] /\ hit \in [Clients -> BOOLEAN]
  /\ kept \in [Clients -> Seq(Turn)]
  /\ toClear \in [Clients -> Seq(Files)]
  /\ \A c \in Clients :
       /\ kept[c] # <<>> => at[c] \in {"drops_turn", "drops_fact"}
       /\ FileOf(c) # Nowhere => \E i \in DOMAIN queue[FileOf(c)] : queue[FileOf(c)][i] = c

\* A turn whose observation was acknowledged is in the conversation's file or in
\* a summary that is in the long-term file, unless a forget was to remove it, or
\* it was exposed: appended after a line that was cut off, or while a deletion had
\* read the file and not written it back; summarised by a record appended after
\* such a line; or pruned by a consolidation that another client got in the way of.
Remembered ==
  \A t \in acked \ (dropped \union exposed) :
    \/ Holds(records["conversation"], t)
    \/ \E i \in DOMAIN records["long_term"] : t \in records["long_term"][i]

\* What a forget found acknowledged is in no file, no summary and no cache after
\* it, and stays so, when nothing but new turns arrived while it ran.
ForgetForgets ==
  \A t \in erased :
    /\ ~Holds(records["conversation"], t) /\ ~Holds(records["project"], t)
    /\ ~Holds(Cached, t)
    /\ \A i \in DOMAIN records["long_term"] : t \notin records["long_term"][i]

\* The ceiling is looked at with one call of the repository and the record
\* appended with another; the ceiling may be passed, but by no more records than
\* there are other clients.
CeilingOverrun == Len(records["long_term"]) <= MaxRecords + Cardinality(Clients) - 1

\* The project file holds the fact stored last and no other, and none from its
\* deletion to the next that is stored, unless two updates overlapped or one broke off.
FactFollows == mixed \/ records["project"] = IF known = 0 THEN <<>> ELSE <<known>>
=============================================================================
