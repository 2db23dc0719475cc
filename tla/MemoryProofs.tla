---------------------------- MODULE MemoryProofs ----------------------------
(***************************************************************************)
(* Proofs about Memory for any clients, turns and limits: who waits for    *)
(* which repository, how far the ceiling of long-term memory can be        *)
(* passed, that everything keeps its type, which fact is on file, that     *)
(* what was forgotten stays so, and that what was acknowledged is still    *)
(* remembered.                                                             *)
(***************************************************************************)
EXTENDS Memory, FiniteSetTheorems, FunctionTheorems, SequenceTheorems, WellFoundedInduction, TLAPS

\* The repository that is awaited at a position, forgetting apart.
PlaceOf(p) ==
  CASE p \in OnFile -> "conversation"
    [] p \in OnSummaries -> "long_term"
    [] p \in OnFacts -> "project"
    [] OTHER -> Nowhere

\* Everyone in a queue is about that repository, and is in it once; and everyone
\* who awaits a repository is in its queue.
QueuesOK ==
  /\ queue \in [Files -> Seq(Clients)]
  /\ \A f \in Files, c \in Clients : \A i \in 1 .. Len(queue[f]) : queue[f][i] = c => FileOf(c) = f
  /\ \A f \in Files : \A i, j \in 1 .. Len(queue[f]) : queue[f][i] = queue[f][j] => i = j
  /\ \A f \in Files, c \in Clients : FileOf(c) = f => \E i \in 1 .. Len(queue[f]) : queue[f][i] = c

\* What the locals of a client hold where it is; a sequence of whatever records.
IsFile(s) == \E S : s \in Seq(S)

LocalsOK ==
  /\ at \in [Clients -> Position]
  /\ toClear \in [Clients -> Seq(Files)]
  /\ DOMAIN kept = Clients
  /\ \A c \in Clients :
       /\ at[c] \in Forgetting => toClear[c] # <<>>
       /\ at[c] \in Forgetting \union {"idle"} => kept[c] = <<>>

\* The clients that found room in long-term memory and have not used it yet.
Writers == {c \in Clients : at[c] = "stores_summary"}

RoomKept ==
  /\ DOMAIN records = Files
  /\ IsFile(records["long_term"])
  /\ Len(records["long_term"]) + Cardinality(Writers) <= MaxRecords + Cardinality(Clients) - 1

IInv == QueuesOK /\ LocalsOK /\ RoomKept

-----------------------------------------------------------------------------
(* Sequences of records *)

LEMMA EmptyFile == IsFile(<<>>) /\ Len(<<>>) = 0
<1>1. <<>> \in Seq({})
  OBVIOUS
<1> QED
  BY <1>1 DEF IsFile

LEMMA LongerFile ==
  ASSUME NEW s, IsFile(s), NEW r
  PROVE  IsFile(Append(s, r)) /\ Len(Append(s, r)) = Len(s) + 1 /\ Len(s) \in Nat
<1>1. PICK S : s \in Seq(S)
  BY DEF IsFile
<1>2. s \in Seq(S \union {r})
  BY <1>1, SeqMonotonic
<1>3. Append(s, r) \in Seq(S \union {r}) /\ Len(Append(s, r)) = Len(s) + 1
  BY <1>2, AppendProperties
<1> QED
  BY <1>1, <1>3 DEF IsFile

LEMMA ShorterFile ==
  ASSUME NEW s, IsFile(s)
  PROVE  LET t == SubSeq(s, 1, Len(s) - 1) IN IsFile(t) /\ Len(t) <= Len(s) /\ Len(t) \in Nat
<1>1. PICK S : s \in Seq(S)
  BY DEF IsFile
<1>2. Len(s) \in Nat /\ Len(s) - 1 \in Int /\ \A i \in 1 .. Len(s) - 1 : s[i] \in S
  BY <1>1
<1>3. /\ SubSeq(s, 1, Len(s) - 1) \in Seq(S)
      /\ Len(SubSeq(s, 1, Len(s) - 1)) = IF 1 <= Len(s) - 1 THEN Len(s) - 1 - 1 + 1 ELSE 0
  BY <1>2, SubSeqProperties
<1> QED
  BY <1>2, <1>3 DEF IsFile

-----------------------------------------------------------------------------
(* The queues *)

\* Nowhere is not a repository.
LEMMA NowhereElse == Nowhere \notin Files
BY MemoryAssumption DEF Nowhere

\* A client gives back the lock it holds, if any, and joins a queue, if any.
LEMMA Requeues ==
  ASSUME QueuesOK, NEW c \in Clients, NEW to \in Files \union {Nowhere},
         FileOf(c) \in Files => First(c, FileOf(c)),
         Goes(c, FileOf(c), to),
         FileOf(c)' = to, \A d \in Clients \ {c} : FileOf(d)' = FileOf(d)
  PROVE  QueuesOK'
<1> DEFINE rest(f) == IF f = FileOf(c) THEN Tail(queue[f]) ELSE queue[f]
<1>1. ASSUME NEW f \in Files
      PROVE  /\ rest(f) \in Seq(Clients)
             /\ \A d \in Clients : \A i \in 1 .. Len(rest(f)) :
                  rest(f)[i] = d => d # c /\ FileOf(d) = f
             /\ \A i, j \in 1 .. Len(rest(f)) : rest(f)[i] = rest(f)[j] => i = j
             /\ \A d \in Clients \ {c} :
                  FileOf(d) = f => \E i \in 1 .. Len(rest(f)) : rest(f)[i] = d
  <2>1. /\ queue[f] \in Seq(Clients)
        /\ \A d \in Clients : \A i \in 1 .. Len(queue[f]) : queue[f][i] = d => FileOf(d) = f
        /\ \A i, j \in 1 .. Len(queue[f]) : queue[f][i] = queue[f][j] => i = j
        /\ \A d \in Clients : FileOf(d) = f => \E i \in 1 .. Len(queue[f]) : queue[f][i] = d
    BY DEF QueuesOK
  <2>2. CASE f = FileOf(c)
    <3>1. queue[f] # <<>> /\ Head(queue[f]) = c
      BY <2>2 DEF First
    <3>2. /\ Tail(queue[f]) \in Seq(Clients) /\ Len(Tail(queue[f])) = Len(queue[f]) - 1
          /\ \A i \in 1 .. Len(queue[f]) - 1 : Tail(queue[f])[i] = queue[f][i + 1]
          /\ Len(queue[f]) \in Nat \ {0} /\ queue[f][1] = c
      BY <2>1, <3>1, EmptySeq
    <3>3. \A i \in 1 .. Len(queue[f]) - 1 : i + 1 \in 1 .. Len(queue[f]) /\ i + 1 # 1
      BY <3>2
    <3>4. 1 \in 1 .. Len(queue[f])
      BY <3>2
    <3>5. \A i, j \in 1 .. Len(queue[f]) - 1 : i + 1 = j + 1 => i = j
      BY <3>2
    <3>6. ASSUME NEW d \in Clients \ {c}, FileOf(d) = f
          PROVE  \E i \in 1 .. Len(Tail(queue[f])) : Tail(queue[f])[i] = d
      <4>1. PICK i \in 1 .. Len(queue[f]) : queue[f][i] = d
        BY <2>1, <3>6
      <4>2. i # 1
        BY <3>2, <4>1
      <4>3. i - 1 \in 1 .. Len(Tail(queue[f])) /\ (i - 1) + 1 = i
        BY <3>2, <4>2
      <4> QED
        BY <3>2, <4>1, <4>3
    <3> QED
      BY <2>1, <2>2, <3>2, <3>3, <3>4, <3>5, <3>6
  <2>3. CASE f # FileOf(c)
    BY <2>1, <2>3
  <2> QED
    BY <2>2, <2>3
<1>2. queue' = [f \in Files |-> IF f = to THEN Append(rest(f), c) ELSE rest(f)]
  BY DEF Goes
<1> HIDE DEF rest
<1>3. ASSUME NEW f \in Files
      PROVE  /\ queue'[f] \in Seq(Clients)
             /\ \A d \in Clients : \A i \in 1 .. Len(queue'[f]) :
                  queue'[f][i] = d => FileOf(d)' = f
             /\ \A i, j \in 1 .. Len(queue'[f]) : queue'[f][i] = queue'[f][j] => i = j
             /\ \A d \in Clients :
                  FileOf(d)' = f => \E i \in 1 .. Len(queue'[f]) : queue'[f][i] = d
  <2>1. CASE f = to
    <3>1. queue'[f] = Append(rest(f), c)
      BY <1>2, <2>1
    <3>2. /\ Append(rest(f), c) \in Seq(Clients)
          /\ Len(Append(rest(f), c)) = Len(rest(f)) + 1 /\ Len(rest(f)) \in Nat
          /\ \A i \in 1 .. Len(rest(f)) : Append(rest(f), c)[i] = rest(f)[i]
          /\ Append(rest(f), c)[Len(rest(f)) + 1] = c
      BY <1>1, AppendProperties
    <3>3. \A i \in 1 .. Len(rest(f)) + 1 : i \in 1 .. Len(rest(f)) \/ i = Len(rest(f)) + 1
      BY <3>2
    <3>4. \A i \in 1 .. Len(rest(f)) : rest(f)[i] \in Clients \ {c}
      BY <1>1
    <3>5. ASSUME NEW d \in Clients, NEW i \in 1 .. Len(queue'[f]), queue'[f][i] = d
          PROVE  FileOf(d)' = f
      <4>1. CASE i \in 1 .. Len(rest(f))
        <5>1. d # c /\ FileOf(d) = f
          BY <1>1, <3>1, <3>2, <3>5, <4>1
        <5> QED
          BY <5>1
      <4>2. CASE i = Len(rest(f)) + 1
        <5>1. d = c
          BY <3>1, <3>2, <3>5, <4>2
        <5> QED
          BY <2>1, <5>1
      <4> QED
        BY <3>1, <3>2, <3>3, <4>1, <4>2
    <3>6. \A i, j \in 1 .. Len(queue'[f]) : queue'[f][i] = queue'[f][j] => i = j
      BY <1>1, <3>1, <3>2, <3>3
    <3>7. ASSUME NEW d \in Clients, FileOf(d)' = f
          PROVE  \E i \in 1 .. Len(queue'[f]) : queue'[f][i] = d
      <4>1. CASE d = c
        <5>1. Len(rest(f)) + 1 \in 1 .. Len(queue'[f])
          BY <3>1, <3>2
        <5> QED
          BY <3>1, <3>2, <4>1, <5>1
      <4>2. CASE d # c
        <5>1. PICK i \in 1 .. Len(rest(f)) : rest(f)[i] = d
          BY <1>1, <3>7, <4>2
        <5>2. i \in 1 .. Len(queue'[f])
          BY <3>1, <3>2
        <5> QED
          BY <3>1, <3>2, <5>1, <5>2
      <4> QED
        BY <4>1, <4>2
    <3> QED
      BY <3>1, <3>2, <3>5, <3>6, <3>7
  <2>2. CASE f # to
    <3>1. queue'[f] = rest(f)
      BY <1>2, <2>2
    <3>2. ASSUME NEW d \in Clients, NEW i \in 1 .. Len(queue'[f]), queue'[f][i] = d
          PROVE  FileOf(d)' = f
      <4>1. d # c /\ FileOf(d) = f
        BY <1>1, <3>1, <3>2
      <4> QED
        BY <4>1
    <3>3. ASSUME NEW d \in Clients, FileOf(d)' = f
          PROVE  \E i \in 1 .. Len(queue'[f]) : queue'[f][i] = d
      <4>1. d # c /\ FileOf(d) = f
        BY <2>2, <3>3
      <4> QED
        BY <1>1, <3>1, <4>1
    <3> QED
      BY <1>1, <3>1, <3>2, <3>3
  <2> QED
    BY <2>1, <2>2
<1>4. queue' \in [Files -> Seq(Clients)]
  <2>1. queue' = [f \in Files |-> queue'[f]]
    BY <1>2
  <2> QED
    BY <1>3, <2>1
<1> QED
  BY <1>3, <1>4 DEF QueuesOK

-----------------------------------------------------------------------------
(* Steps of a client that take it anywhere but to forgetting and to the use   *)
(* of the room it found.                                                      *)

Elsewhere == Position \ (Forgetting \union {"stores_summary"})

Moved(c) ==
  \E p \in Elsewhere :
    /\ at' = [at EXCEPT ![c] = p]
    /\ Goes(c, FileOf(c), PlaceOf(p))
    /\ toClear' = toClear \/ toClear' = [toClear EXCEPT ![c] = <<>>]
    /\ DOMAIN kept' = Clients /\ \A d \in Clients \ {c} : kept'[d] = kept[d]
    /\ p = "idle" => kept'[c] = <<>>

\* Who takes such a step holds the lock it gives back.
HasTurn(c) == FileOf(c) \in Files => First(c, FileOf(c))

LEMMA PlaceType == \A p : PlaceOf(p) \in Files \union {Nowhere}
BY MemoryAssumption DEF PlaceOf

LEMMA MovedKeeps ==
  ASSUME QueuesOK, LocalsOK, NEW c \in Clients, HasTurn(c), Moved(c)
  PROVE  QueuesOK' /\ LocalsOK' /\ Writers' \subseteq Writers \ {c}
<1>1. PICK p \in Elsewhere :
        /\ at' = [at EXCEPT ![c] = p]
        /\ Goes(c, FileOf(c), PlaceOf(p))
        /\ toClear' = toClear \/ toClear' = [toClear EXCEPT ![c] = <<>>]
        /\ DOMAIN kept' = Clients /\ \A d \in Clients \ {c} : kept'[d] = kept[d]
        /\ p = "idle" => kept'[c] = <<>>
  BY DEF Moved
<1>2. p \in Position /\ p \notin Forgetting /\ p # "stores_summary"
  BY DEF Elsewhere
<1>3. /\ at' \in [Clients -> Position] /\ at'[c] = p
      /\ \A d \in Clients \ {c} : at'[d] = at[d]
  BY <1>1, <1>2 DEF LocalsOK
<1>4. /\ toClear' \in [Clients -> Seq(Files)]
      /\ \A d \in Clients \ {c} : toClear'[d] = toClear[d]
  <2>1. CASE toClear' = toClear
    BY <2>1 DEF LocalsOK
  <2>2. CASE toClear' = [toClear EXCEPT ![c] = <<>>]
    <3>1. <<>> \in Seq(Files)
      OBVIOUS
    <3> QED
      BY <2>2, <3>1 DEF LocalsOK
  <2> QED
    BY <1>1, <2>1, <2>2
<1>5. FileOf(c)' = PlaceOf(p)
  BY <1>2, <1>3 DEF FileOf, PlaceOf
<1>6. \A d \in Clients \ {c} : FileOf(d)' = FileOf(d)
  BY <1>3, <1>4 DEF FileOf
<1>7. QueuesOK'
  BY <1>1, <1>5, <1>6, PlaceType, Requeues DEF HasTurn
<1>8. LocalsOK'
  BY <1>1, <1>2, <1>3, <1>4 DEF LocalsOK
<1>9. Writers' \subseteq Writers \ {c}
  BY <1>2, <1>3 DEF Writers
<1> QED
  BY <1>7, <1>8, <1>9

LEMMA DoneMoves ==
  ASSUME LocalsOK, NEW c \in Clients, Done(c, FileOf(c))
  PROVE  Moved(c)
<1>1. /\ at' = [at EXCEPT ![c] = "idle"] /\ Goes(c, FileOf(c), Nowhere)
      /\ toClear' = [toClear EXCEPT ![c] = <<>>] /\ kept' = [kept EXCEPT ![c] = <<>>]
  BY DEF Done, To, Starts
<1>2. "idle" \in Elsewhere /\ PlaceOf("idle") = Nowhere
  BY DEF Elsewhere, Position, Forgetting, PlaceOf, OnFile, OnSummaries, OnFacts
<1> QED
  BY <1>1, <1>2 DEF Moved, LocalsOK

LEMMA CompressOrEndMoves ==
  ASSUME LocalsOK, NEW c \in Clients, NEW turns, CompressOrEnd(c, FileOf(c), turns)
  PROVE  Moved(c)
<1>1. CASE Len(turns) > ConsolidateAfter
  <2>1. /\ at' = [at EXCEPT ![c] = "summarises"] /\ Goes(c, FileOf(c), Nowhere)
        /\ toClear' = [toClear EXCEPT ![c] = <<>>] /\ kept' = [kept EXCEPT ![c] = <<>>]
    BY <1>1 DEF CompressOrEnd, To, Starts
  <2>2. "summarises" \in Elsewhere /\ PlaceOf("summarises") = Nowhere
    BY DEF Elsewhere, Position, Forgetting, PlaceOf, OnFile, OnSummaries, OnFacts
  <2> QED
    BY <2>1, <2>2 DEF Moved, LocalsOK
<1>2. CASE ~(Len(turns) > ConsolidateAfter)
  BY <1>2, DoneMoves DEF CompressOrEnd
<1> QED
  BY <1>1, <1>2

LEMMA AfterObserveMoves ==
  ASSUME LocalsOK, NEW c \in Clients, AfterObserve(c, FileOf(c))
  PROVE  Moved(c)
<1>1. CASE Done(c, FileOf(c))
  BY <1>1, DoneMoves
<1>2. CASE CompressOrEnd(c, FileOf(c), cache)
  BY <1>2, CompressOrEndMoves
<1>3. CASE To(c, "counts") /\ Goes(c, FileOf(c), "conversation") /\ Starts(c, <<>>)
  <2>1. /\ at' = [at EXCEPT ![c] = "counts"] /\ Goes(c, FileOf(c), "conversation")
        /\ toClear' = [toClear EXCEPT ![c] = <<>>] /\ kept' = [kept EXCEPT ![c] = <<>>]
    BY <1>3 DEF To, Starts
  <2>2. "counts" \in Elsewhere /\ PlaceOf("counts") = "conversation"
    BY DEF Elsewhere, Position, Forgetting, PlaceOf, OnFile, OnSummaries, OnFacts
  <2> QED
    BY <2>1, <2>2 DEF Moved, LocalsOK
<1> QED
  BY <1>1, <1>2, <1>3 DEF AfterObserve

LEMMA PruneNextMoves ==
  ASSUME LocalsOK, NEW c \in Clients, NEW list, NEW due, NEW turns,
         PruneNext(c, FileOf(c), list, due, turns)
  PROVE  Moved(c)
<1>1. CASE due = 0 \/ list = <<>>
  BY <1>1, DoneMoves DEF PruneNext
<1>2. CASE ~(due = 0 \/ list = <<>>)
  <2>1. /\ at' = [at EXCEPT ![c] = "looks_for_turn"] /\ Goes(c, FileOf(c), "conversation")
        /\ toClear' = toClear /\ kept' = [kept EXCEPT ![c] = <<>>]
    BY <1>2 DEF PruneNext, To
  <2>2. "looks_for_turn" \in Elsewhere /\ PlaceOf("looks_for_turn") = "conversation"
    BY DEF Elsewhere, Position, Forgetting, PlaceOf, OnFile, OnSummaries, OnFacts
  <2> QED
    BY <2>1, <2>2 DEF Moved, LocalsOK
<1> QED
  BY <1>1, <1>2

LEMMA FactGoneMoves ==
  ASSUME LocalsOK, NEW c \in Clients, FileOf(c) = "project", FactGone(c)
  PROVE  Moved(c)
<1>1. CASE Replaces(c)
  <2>1. /\ at' = [at EXCEPT ![c] = "weighs_fact"] /\ Goes(c, FileOf(c), "project")
        /\ toClear' = toClear /\ kept' = [kept EXCEPT ![c] = <<>>]
    BY <1>1 DEF FactGone, To
  <2>2. "weighs_fact" \in Elsewhere /\ PlaceOf("weighs_fact") = "project"
    BY DEF Elsewhere, Position, Forgetting, PlaceOf, OnFile, OnSummaries, OnFacts
  <2> QED
    BY <2>1, <2>2 DEF Moved, LocalsOK
<1>2. CASE ~Replaces(c)
  BY <1>2, DoneMoves DEF FactGone
<1> QED
  BY <1>1, <1>2

\* A step to another await, none of whose locals but kept change.
LEMMA GoesOn ==
  ASSUME LocalsOK, NEW c \in Clients, NEW p \in Elsewhere \ {"idle"},
         To(c, p), Goes(c, FileOf(c), PlaceOf(p)), UNCHANGED toClear,
         UNCHANGED kept \/ \E s : kept' = [kept EXCEPT ![c] = s]
  PROVE  Moved(c)
<1>1. at' = [at EXCEPT ![c] = p]
  BY DEF To
<1>2. DOMAIN kept' = Clients /\ \A d \in Clients \ {c} : kept'[d] = kept[d]
  <2>1. CASE UNCHANGED kept
    BY <2>1 DEF LocalsOK
  <2>2. ASSUME NEW s, kept' = [kept EXCEPT ![c] = s]
        PROVE  DOMAIN kept' = Clients /\ \A d \in Clients \ {c} : kept'[d] = kept[d]
    BY <2>2 DEF LocalsOK
  <2> QED
    BY <2>1, <2>2
<1> QED
  BY <1>1, <1>2 DEF Moved

LEMMA Places ==
  /\ \A p \in OnFile \union OnFacts \union {"weighs_summary"} : p \in Elsewhere \ {"idle"}
  /\ \A p \in OnFile : PlaceOf(p) = "conversation"
  /\ \A p \in OnSummaries : PlaceOf(p) = "long_term"
  /\ \A p \in OnFacts : PlaceOf(p) = "project"
BY DEF Elsewhere, Position, Forgetting, PlaceOf, OnFile, OnSummaries, OnFacts

LEMMA WhereItIs ==
  ASSUME NEW c
  PROVE  /\ at[c] \in OnFile => FileOf(c) = "conversation"
         /\ at[c] \in OnSummaries => FileOf(c) = "long_term"
         /\ at[c] \in OnFacts => FileOf(c) = "project"
         /\ at[c] \in {"idle", "summarises"} => FileOf(c) = Nowhere
BY DEF FileOf, OnFile, OnSummaries, OnFacts, Forgetting

LEMMA WaitingHasTurn ==
  ASSUME NEW c, NEW p, Waits(c, p)
  PROVE  HasTurn(c) /\ at[c] = p
BY DEF Waits, HasTurn

LEMMA UnboundHasTurn ==
  ASSUME NEW c, FileOf(c) = Nowhere
  PROVE  HasTurn(c)
BY NowhereElse DEF HasTurn

-----------------------------------------------------------------------------
(* The actions that leave long-term memory alone *)

SameLongTerm == DOMAIN records' = Files /\ records'["long_term"] = records["long_term"]

LEMMA OtherFiles ==
  ASSUME DOMAIN records = Files, NEW f \in Files \ {"long_term"}, NEW s,
         records' = [records EXCEPT ![f] = s]
  PROVE  SameLongTerm
BY DEF SameLongTerm

LEMMA ConversingMoves ==
  ASSUME LocalsOK, DOMAIN records = Files, NEW c \in Clients, Conversing(c)
  PROVE  Moved(c) /\ HasTurn(c) /\ SameLongTerm
<1>1. {"stores_turn", "loads"} \subseteq OnFile /\ "finds_fact" \in OnFacts
  BY DEF OnFile, OnFacts
<1>2. CASE Observe(c)
  <2>1. FileOf(c) = Nowhere
    BY <1>2, WhereItIs DEF Observe
  <2>2. Moved(c)
    BY <1>1, <1>2, <2>1, Places, GoesOn DEF Observe
  <2> QED
    BY <1>2, <2>1, <2>2, UnboundHasTurn DEF Observe, SameLongTerm
<1>3. CASE Load(c)
  <2>1. FileOf(c) = Nowhere
    BY <1>3, WhereItIs DEF Load
  <2>2. Moved(c)
    BY <1>1, <1>3, <2>1, Places, GoesOn DEF Load
  <2> QED
    BY <1>3, <2>1, <2>2, UnboundHasTurn DEF Load, SameLongTerm
<1>4. CASE Loaded(c)
  <2>1. HasTurn(c) /\ FileOf(c) = "conversation"
    BY <1>1, <1>4, WaitingHasTurn, WhereItIs DEF Loaded
  <2> QED
    BY <1>4, <2>1, DoneMoves DEF Loaded, SameLongTerm
<1>5. CASE StoresTurn(c)
  <2>1. HasTurn(c) /\ FileOf(c) = "conversation"
    BY <1>1, <1>5, WaitingHasTurn, WhereItIs DEF StoresTurn
  <2>2. Moved(c)
    <3>1. CASE turn[c] \in FactTurns
      BY <1>1, <1>5, <2>1, <3>1, Places, GoesOn DEF StoresTurn
    <3>2. CASE turn[c] \notin FactTurns
      BY <1>5, <2>1, <3>2, AfterObserveMoves DEF StoresTurn
    <3> QED
      BY <3>1, <3>2
  <2>3. SameLongTerm
    BY <1>5, OtherFiles, MemoryAssumption DEF StoresTurn, AppendLine
  <2> QED
    BY <2>1, <2>2, <2>3
<1> QED
  BY <1>2, <1>3, <1>4, <1>5 DEF Conversing

LEMMA ConsolidatingMoves ==
  ASSUME LocalsOK, DOMAIN records = Files, NEW c \in Clients,
         Remember(c) \/ Counts(c) \/ Summarised(c) \/ Lists(c) \/ LooksForTurn(c) \/ DropsTurn(c)
  PROVE  Moved(c) /\ HasTurn(c) /\ SameLongTerm
<1>1. /\ {"counts", "lists", "looks_for_turn", "drops_turn"} \subseteq OnFile
      /\ "weighs_summary" \in OnSummaries
  BY DEF OnFile, OnSummaries
<1>2. CASE Remember(c)
  <2>1. FileOf(c) = Nowhere
    BY <1>2, WhereItIs DEF Remember
  <2>2. Moved(c)
    BY <1>1, <1>2, <2>1, Places, GoesOn DEF Remember
  <2> QED
    BY <1>2, <2>1, <2>2, UnboundHasTurn DEF Remember, SameLongTerm
<1>3. CASE Summarised(c)
  <2>1. FileOf(c) = Nowhere
    BY <1>3, WhereItIs DEF Summarised
  <2>2. Moved(c)
    <3>1. CASE Done(c, Nowhere)
      BY <2>1, <3>1, DoneMoves
    <3>2. CASE ~Done(c, Nowhere)
      BY <1>1, <1>3, <2>1, <3>2, Places, GoesOn DEF Summarised
    <3> QED
      BY <3>1, <3>2
  <2> QED
    BY <1>3, <2>1, <2>2, UnboundHasTurn DEF Summarised, SameLongTerm
<1>4. CASE Counts(c)
  <2>1. HasTurn(c) /\ FileOf(c) = "conversation"
    BY <1>1, <1>4, WaitingHasTurn, WhereItIs DEF Counts
  <2> QED
    BY <1>4, <2>1, CompressOrEndMoves DEF Counts, SameLongTerm
<1>5. CASE Lists(c)
  <2>1. HasTurn(c) /\ FileOf(c) = "conversation"
    BY <1>1, <1>5, WaitingHasTurn, WhereItIs DEF Lists
  <2> QED
    BY <1>5, <2>1, PruneNextMoves DEF Lists, SameLongTerm
<1>6. CASE LooksForTurn(c)
  <2>1. HasTurn(c) /\ FileOf(c) = "conversation"
    BY <1>1, <1>6, WaitingHasTurn, WhereItIs DEF LooksForTurn
  <2>2. Moved(c)
    <3>1. CASE Holds(records["conversation"], Head(todo[c]))
      BY <1>1, <1>6, <2>1, <3>1, Places, GoesOn DEF LooksForTurn
    <3>2. CASE ~Holds(records["conversation"], Head(todo[c]))
      BY <1>6, <2>1, <3>2, PruneNextMoves DEF LooksForTurn
    <3> QED
      BY <3>1, <3>2
  <2> QED
    BY <1>6, <2>1, <2>2 DEF LooksForTurn, SameLongTerm
<1>7. CASE DropsTurn(c)
  <2>1. HasTurn(c) /\ FileOf(c) = "conversation"
    BY <1>1, <1>7, WaitingHasTurn, WhereItIs DEF DropsTurn
  <2>2. Moved(c)
    BY <1>7, <2>1, PruneNextMoves DEF DropsTurn
  <2>3. SameLongTerm
    BY <1>7, OtherFiles, MemoryAssumption DEF DropsTurn, Rewrite
  <2> QED
    BY <2>1, <2>2, <2>3
<1> QED
  BY <1>2, <1>3, <1>4, <1>5, <1>6, <1>7

LEMMA UpdatingFactsMoves ==
  ASSUME LocalsOK, DOMAIN records = Files, NEW c \in Clients, UpdatingFacts(c)
  PROVE  Moved(c) /\ HasTurn(c) /\ SameLongTerm
<1>1. /\ {"finds_fact", "looks_for_fact", "drops_fact", "weighs_fact", "stores_fact"}
            \subseteq OnFacts
  BY DEF OnFacts
<1>2. CASE ForgetFact(c)
  <2>1. FileOf(c) = Nowhere
    BY <1>2, WhereItIs DEF ForgetFact
  <2>2. Moved(c)
    BY <1>1, <1>2, <2>1, Places, GoesOn DEF ForgetFact
  <2> QED
    BY <1>2, <2>1, <2>2, UnboundHasTurn DEF ForgetFact, SameLongTerm
<1>3. CASE FindsFact(c)
  <2>1. HasTurn(c) /\ FileOf(c) = "project"
    BY <1>1, <1>3, WaitingHasTurn, WhereItIs DEF FindsFact
  <2>2. Moved(c)
    <3>1. CASE records["project"] = <<>>
      BY <1>3, <2>1, <3>1, FactGoneMoves DEF FindsFact
    <3>2. CASE records["project"] # <<>>
      BY <1>1, <1>3, <2>1, <3>2, Places, GoesOn DEF FindsFact
    <3> QED
      BY <3>1, <3>2
  <2> QED
    BY <1>3, <2>1, <2>2 DEF FindsFact, SameLongTerm
<1>4. CASE LooksForFact(c)
  <2>1. HasTurn(c) /\ FileOf(c) = "project"
    BY <1>1, <1>4, WaitingHasTurn, WhereItIs DEF LooksForFact
  <2>2. Moved(c)
    <3>1. CASE Holds(records["project"], Head(todo[c]))
      BY <1>1, <1>4, <2>1, <3>1, Places, GoesOn DEF LooksForFact
    <3>2. CASE ~Holds(records["project"], Head(todo[c]))
      BY <1>4, <2>1, <3>2, FactGoneMoves DEF LooksForFact
    <3> QED
      BY <3>1, <3>2
  <2> QED
    BY <1>4, <2>1, <2>2 DEF LooksForFact, SameLongTerm
<1>5. CASE DropsFact(c)
  <2>1. HasTurn(c) /\ FileOf(c) = "project"
    BY <1>1, <1>5, WaitingHasTurn, WhereItIs DEF DropsFact
  <2>2. Moved(c)
    BY <1>5, <2>1, FactGoneMoves DEF DropsFact
  <2>3. SameLongTerm
    BY <1>5, OtherFiles, MemoryAssumption DEF DropsFact, Rewrite
  <2> QED
    BY <2>1, <2>2, <2>3
<1>6. CASE WeighsFact(c)
  <2>1. HasTurn(c) /\ FileOf(c) = "project"
    BY <1>1, <1>6, WaitingHasTurn, WhereItIs DEF WeighsFact
  <2>2. Moved(c)
    <3>1. CASE Full("project")
      BY <1>6, <2>1, <3>1, AfterObserveMoves DEF WeighsFact
    <3>2. CASE ~Full("project")
      BY <1>1, <1>6, <2>1, <3>2, Places, GoesOn DEF WeighsFact
    <3> QED
      BY <3>1, <3>2
  <2> QED
    BY <1>6, <2>1, <2>2 DEF WeighsFact, SameLongTerm
<1>7. CASE StoresFact(c)
  <2>1. HasTurn(c) /\ FileOf(c) = "project"
    BY <1>1, <1>7, WaitingHasTurn, WhereItIs DEF StoresFact
  <2>2. Moved(c)
    BY <1>7, <2>1, AfterObserveMoves DEF StoresFact
  <2>3. SameLongTerm
    BY <1>7, OtherFiles, MemoryAssumption DEF StoresFact, AppendLine
  <2> QED
    BY <2>1, <2>2, <2>3
<1> QED
  BY <1>2, <1>3, <1>4, <1>5, <1>6, <1>7 DEF UpdatingFacts

-----------------------------------------------------------------------------
(* Room in long-term memory *)

LEMMA FileLength == ASSUME NEW s, IsFile(s) PROVE Len(s) \in Nat
<1>1. PICK S : s \in Seq(S)
  BY DEF IsFile
<1> QED
  BY <1>1

LEMMA SomeClients ==
  ASSUME NEW W, W \subseteq Clients
  PROVE  /\ IsFiniteSet(W) /\ Cardinality(W) \in Nat
         /\ Cardinality(Clients) \in Nat /\ Cardinality(W) <= Cardinality(Clients)
<1>1. IsFiniteSet(Clients)
  BY MemoryAssumption
<1>2. IsFiniteSet(W) /\ Cardinality(W) <= Cardinality(Clients)
  BY <1>1, FS_Subset
<1> QED
  BY <1>1, <1>2, FS_CardinalityType

LEMMA FewerClients ==
  ASSUME NEW W, W \subseteq Clients, NEW V, V \subseteq W
  PROVE  Cardinality(V) \in Nat /\ Cardinality(W) \in Nat /\ Cardinality(V) <= Cardinality(W)
<1>1. V \subseteq Clients
  OBVIOUS
<1>2. IsFiniteSet(W) /\ Cardinality(V) \in Nat /\ Cardinality(W) \in Nat
  BY <1>1, SomeClients
<1> QED
  BY <1>2, FS_Subset

LEMMA OneFewer ==
  ASSUME NEW W, W \subseteq Clients, NEW c \in W, NEW V, V \subseteq W \ {c}
  PROVE  /\ Cardinality(V) \in Nat /\ Cardinality(W) \in Nat
         /\ Cardinality(V) + 1 <= Cardinality(W)
<1>1. IsFiniteSet(W) /\ Cardinality(W) \in Nat
  BY SomeClients
<1>2. Cardinality(W \ {c}) = Cardinality(W) - 1
  BY <1>1, FS_RemoveElement
<1>3. Cardinality(V) \in Nat /\ Cardinality(V) <= Cardinality(W \ {c})
  BY FewerClients
<1> QED
  BY <1>1, <1>2, <1>3

LEMMA WritersAre == Writers \subseteq Clients /\ Writers' \subseteq Clients
BY DEF Writers

\* A step that leaves long-term memory alone and lets no one in.
LEMMA RoomUntouched ==
  ASSUME RoomKept, SameLongTerm, Writers' \subseteq Writers
  PROVE  RoomKept'
<1>1. Len(records["long_term"]) \in Nat
  BY FileLength DEF RoomKept
<1>2. /\ Cardinality(Writers') \in Nat /\ Cardinality(Writers) \in Nat
      /\ Cardinality(Writers') <= Cardinality(Writers) /\ Cardinality(Clients) \in Nat
  BY WritersAre, FewerClients, SomeClients
<1> QED
  BY <1>1, <1>2, MemoryAssumption DEF RoomKept, SameLongTerm

\* One who found room uses it, or gives up.
LEMMA RoomUsed ==
  ASSUME RoomKept, DOMAIN records' = Files, IsFile(records["long_term"]'),
         Len(records["long_term"]') <= Len(records["long_term"]) + 1,
         NEW c \in Writers, Writers' \subseteq Writers \ {c}
  PROVE  RoomKept'
<1>1. Len(records["long_term"]) \in Nat /\ Len(records["long_term"]') \in Nat
  BY FileLength DEF RoomKept
<1>2. /\ Cardinality(Writers') \in Nat /\ Cardinality(Writers) \in Nat
      /\ Cardinality(Writers') + 1 <= Cardinality(Writers) /\ Cardinality(Clients) \in Nat
  BY WritersAre, OneFewer, SomeClients
<1> QED
  BY <1>1, <1>2, MemoryAssumption DEF RoomKept

\* One more finds room: the file is below the ceiling, whoever else was let in.
LEMMA RoomFound ==
  ASSUME RoomKept, SameLongTerm, ~Full("long_term")
  PROVE  RoomKept'
<1>1. /\ Len(records["long_term"]) \in Nat
      /\ Len(records["long_term"]) < MaxRecords
  BY FileLength, MemoryAssumption DEF RoomKept, Full
<1>2. /\ Cardinality(Writers') \in Nat /\ Cardinality(Clients) \in Nat
      /\ Cardinality(Writers') <= Cardinality(Clients)
  BY WritersAre, SomeClients
<1> QED
  BY <1>1, <1>2, MemoryAssumption DEF RoomKept, SameLongTerm

\* The file is removed.
LEMMA RoomMade ==
  ASSUME DOMAIN records' = Files, records["long_term"]' = <<>>
  PROVE  RoomKept'
<1>1. /\ Cardinality(Writers') \in Nat /\ Cardinality(Clients) \in Nat
      /\ Cardinality(Writers') <= Cardinality(Clients)
  BY WritersAre, SomeClients
<1> QED
  BY <1>1, EmptyFile, MemoryAssumption DEF RoomKept

\* Whatever is left of an append, the file grows by a record at most.
LEMMA CutFile ==
  ASSUME NEW f, IsFile(records[f]), NEW r, NEW cut
  PROVE  IsFile(AfterCut(f, r, cut)) /\ Len(AfterCut(f, r, cut)) <= Len(records[f]) + 1
<1>1. Len(records[f]) \in Nat
  BY FileLength
<1>2. IsFile(Ended(f)) /\ Len(Ended(f)) \in Nat /\ Len(Ended(f)) <= Len(records[f])
  <2> DEFINE shorter == SubSeq(records[f], 1, Len(records[f]) - 1)
  <2>1. IsFile(shorter) /\ Len(shorter) <= Len(records[f]) /\ Len(shorter) \in Nat
    BY ShorterFile
  <2>2. Ended(f) = shorter \/ Ended(f) = records[f]
    BY DEF Ended
  <2> HIDE DEF shorter
  <2> QED
    BY <1>1, <2>1, <2>2
<1>3. IsFile(Append(records[f], r)) /\ Len(Append(records[f], r)) = Len(records[f]) + 1
  BY LongerFile
<1> QED
  BY <1>1, <1>2, <1>3 DEF AfterCut

-----------------------------------------------------------------------------
(* The other actions *)

LEMMA WriterGoes ==
  ASSUME NEW c, at'[c] = "stores_summary"
  PROVE  FileOf(c)' = "long_term"
BY DEF FileOf, OnFile, OnSummaries, OnFacts, Forgetting

\* A step to the use of the room, or to forgetting.
LEMMA ShiftKeeps ==
  ASSUME QueuesOK, LocalsOK, NEW c \in Clients, HasTurn(c),
         NEW p \in Forgetting \union {"stores_summary"}, NEW s \in Seq(Files),
         at' = [at EXCEPT ![c] = p], toClear' = [toClear EXCEPT ![c] = s], kept' = kept,
         p \in Forgetting => s # <<>> /\ kept[c] = <<>>,
         NEW to, to = IF p \in Forgetting THEN Head(s) ELSE "long_term",
         Goes(c, FileOf(c), to)
  PROVE  QueuesOK' /\ LocalsOK'
<1>1. p \in Position /\ p # "idle"
  BY DEF Forgetting, Position, OnSummaries
<1>2. /\ at' \in [Clients -> Position] /\ at'[c] = p
      /\ \A d \in Clients \ {c} : at'[d] = at[d]
  BY <1>1 DEF LocalsOK
<1>3. /\ toClear' \in [Clients -> Seq(Files)] /\ toClear'[c] = s
      /\ \A d \in Clients \ {c} : toClear'[d] = toClear[d]
  BY DEF LocalsOK
<1>4. to \in Files /\ FileOf(c)' = to
  <2>1. CASE p \in Forgetting
    <3>1. Head(s) \in Files
      BY <2>1, EmptySeq
    <3> QED
      BY <1>2, <1>3, <2>1, <3>1 DEF FileOf, OnFile, OnSummaries, OnFacts, Forgetting
  <2>2. CASE p \notin Forgetting
    <3>1. p = "stores_summary" /\ to = "long_term"
      BY <2>2
    <3>2. at'[c] = "stores_summary" /\ to \in Files
      BY <1>2, <3>1, MemoryAssumption
    <3> QED
      BY <3>1, <3>2, WriterGoes
  <2> QED
    BY <2>1, <2>2
<1>5. \A d \in Clients \ {c} : FileOf(d)' = FileOf(d)
  BY <1>2, <1>3 DEF FileOf
<1>6. QueuesOK'
  BY <1>4, <1>5, Requeues DEF HasTurn
<1>7. LocalsOK'
  BY <1>1, <1>2, <1>3 DEF LocalsOK
<1> QED
  BY <1>6, <1>7

LEMMA WeighsSummaryKeeps ==
  ASSUME IInv, NEW c \in Clients, WeighsSummary(c)
  PROVE  IInv'
<1>1. HasTurn(c) /\ at[c] = "weighs_summary" /\ FileOf(c) = "long_term"
  BY WaitingHasTurn, WhereItIs DEF WeighsSummary, OnSummaries
<1>2. SameLongTerm
  BY DEF WeighsSummary, IInv, RoomKept, SameLongTerm
<1>3. CASE Full("long_term")
  <2>1. Moved(c)
    BY <1>1, <1>3, DoneMoves DEF WeighsSummary, IInv
  <2>2. QueuesOK' /\ LocalsOK' /\ Writers' \subseteq Writers \ {c}
    BY <1>1, <2>1, MovedKeeps DEF IInv
  <2> QED
    BY <1>2, <2>2, RoomUntouched DEF IInv
<1>4. CASE ~Full("long_term")
  <2>1. /\ at' = [at EXCEPT ![c] = "stores_summary"] /\ Goes(c, FileOf(c), "long_term")
        /\ toClear' = toClear /\ kept' = kept
    BY <1>1, <1>4 DEF WeighsSummary, To
  <2>2. toClear[c] \in Seq(Files) /\ toClear' = [toClear EXCEPT ![c] = toClear[c]]
    BY <2>1 DEF IInv, LocalsOK
  <2>3. "stores_summary" \notin Forgetting
    BY DEF Forgetting
  <2>4. QueuesOK' /\ LocalsOK'
    BY <1>1, <2>1, <2>2, <2>3, ShiftKeeps DEF IInv
  <2> QED
    BY <1>2, <1>4, <2>4, RoomFound DEF IInv
<1> QED
  BY <1>3, <1>4

LEMMA StoresSummaryKeeps ==
  ASSUME IInv, NEW c \in Clients, StoresSummary(c)
  PROVE  IInv'
<1>1. HasTurn(c) /\ at[c] = "stores_summary" /\ FileOf(c) = "long_term"
  BY WaitingHasTurn, WhereItIs DEF StoresSummary, OnSummaries
<1>2. Moved(c)
  <2>1. CASE batch[c] = <<>>
    BY <1>1, <2>1, DoneMoves DEF StoresSummary, IInv
  <2>2. CASE batch[c] # <<>> /\ cache = NoCache
    BY <1>1, <2>2, Places, GoesOn DEF StoresSummary, IInv, OnFile
  <2>3. CASE batch[c] # <<>> /\ cache # NoCache
    BY <1>1, <2>3, PruneNextMoves DEF StoresSummary, IInv
  <2> QED
    BY <2>1, <2>2, <2>3
<1>3. QueuesOK' /\ LocalsOK' /\ Writers' \subseteq Writers \ {c}
  BY <1>1, <1>2, MovedKeeps DEF IInv
<1>4. /\ DOMAIN records' = Files /\ IsFile(records["long_term"]')
      /\ Len(records["long_term"]') <= Len(records["long_term"]) + 1
  <2>1. records' = [records EXCEPT !["long_term"] =
                      IF tail["long_term"] = "clean"
                      THEN Append(records["long_term"], ToSet(batch[c])) ELSE Ended("long_term")]
    BY DEF StoresSummary, AppendLine
  <2>2. /\ DOMAIN records' = Files
        /\ records'["long_term"] = AfterCut("long_term", ToSet(batch[c]), "line")
    BY <2>1, MemoryAssumption DEF IInv, RoomKept, AfterCut
  <2> QED
    BY <2>2, CutFile DEF IInv, RoomKept
<1>5. c \in Writers
  BY <1>1 DEF Writers
<1> QED
  BY <1>3, <1>4, <1>5, RoomUsed DEF IInv

LEMMA ErasingKeeps ==
  ASSUME IInv, NEW c \in Clients, Erasing(c)
  PROVE  IInv'
<1>1. Writers' \subseteq Writers /\ ("clears" \in Forgetting /\ "unlinks" \in Forgetting)
  <2>1. \E p \in {"clears", "unlinks", "idle"} : at' = [at EXCEPT ![c] = p]
    BY DEF Erasing, Forget, Clears, Unlinks, Done, To
  <2> QED
    BY <2>1 DEF IInv, LocalsOK, Writers, Forgetting
<1>2. CASE Forget(c)
  <2>1. FileOf(c) = Nowhere /\ HasTurn(c) /\ kept[c] = <<>>
    BY <1>2, WhereItIs, UnboundHasTurn DEF Forget, IInv, LocalsOK
  <2>2. PICK s \in {Stores} \union {<<f>> : f \in Files} :
          toClear' = [toClear EXCEPT ![c] = s] /\ Goes(c, Nowhere, Head(s))
    BY <1>2 DEF Forget
  <2>3. s \in Seq(Files) /\ s # <<>>
    <3>1. CASE s = Stores
      BY <3>1, MemoryAssumption DEF Stores
    <3>2. ASSUME NEW f \in Files, s = <<f>> PROVE s \in Seq(Files) /\ s # <<>>
      BY <3>2
    <3> QED
      BY <3>1, <3>2
  <2>4. at' = [at EXCEPT ![c] = "clears"] /\ kept' = kept
    BY <1>2 DEF Forget, To
  <2>5. QueuesOK' /\ LocalsOK'
    BY <1>1, <2>1, <2>2, <2>3, <2>4, ShiftKeeps DEF IInv
  <2>6. SameLongTerm
    BY <1>2 DEF Forget, IInv, RoomKept, SameLongTerm
  <2> QED
    BY <1>1, <2>5, <2>6, RoomUntouched DEF IInv
<1>3. CASE Clears(c)
  <2>1. HasTurn(c) /\ at[c] = "clears"
    BY <1>3, WaitingHasTurn DEF Clears
  <2>2. toClear[c] \in Seq(Files) /\ toClear[c] # <<>> /\ kept[c] = <<>>
    BY <1>1, <2>1 DEF IInv, LocalsOK
  <2>3. FileOf(c) = Head(toClear[c])
    BY <2>1 DEF FileOf, OnFile, OnSummaries, OnFacts, Forgetting
  <2>4. /\ at' = [at EXCEPT ![c] = "unlinks"] /\ kept' = kept
        /\ toClear' = [toClear EXCEPT ![c] = toClear[c]]
        /\ Goes(c, FileOf(c), Head(toClear[c]))
    BY <1>3, <2>3 DEF Clears, To, IInv, LocalsOK
  <2>5. QueuesOK' /\ LocalsOK'
    BY <1>1, <2>1, <2>2, <2>4, ShiftKeeps DEF IInv
  <2>6. SameLongTerm
    BY <1>3 DEF Clears, IInv, RoomKept, SameLongTerm
  <2> QED
    BY <1>1, <2>5, <2>6, RoomUntouched DEF IInv
<1>4. CASE Unlinks(c)
  <2>1. HasTurn(c) /\ at[c] = "unlinks"
    BY <1>4, WaitingHasTurn DEF Unlinks
  <2>2. toClear[c] \in Seq(Files) /\ toClear[c] # <<>> /\ kept[c] = <<>>
    BY <1>1, <2>1 DEF IInv, LocalsOK
  <2>3. QueuesOK' /\ LocalsOK'
    <3>1. CASE Tail(toClear[c]) = <<>>
      <4>1. Moved(c)
        BY <1>4, <3>1, DoneMoves DEF Unlinks, IInv
      <4> QED
        BY <2>1, <4>1, MovedKeeps DEF IInv
    <3>2. CASE Tail(toClear[c]) # <<>>
      <4>1. Tail(toClear[c]) \in Seq(Files)
        BY <2>2, EmptySeq
      <4>2. /\ at' = [at EXCEPT ![c] = "clears"] /\ kept' = kept
            /\ toClear' = [toClear EXCEPT ![c] = Tail(toClear[c])]
            /\ Goes(c, FileOf(c), Head(Tail(toClear[c])))
        BY <1>4, <3>2 DEF Unlinks, To
      <4> QED
        BY <1>1, <2>1, <2>2, <3>2, <4>1, <4>2, ShiftKeeps DEF IInv
    <3> QED
      BY <3>1, <3>2
  <2>4. records' = [records EXCEPT ![FileOf(c)] = <<>>]
    BY <1>4 DEF Unlinks, Unlink, Rewrite
  <2>5. RoomKept'
    <3>1. CASE FileOf(c) = "long_term"
      BY <2>4, <3>1, RoomMade, MemoryAssumption DEF IInv, RoomKept
    <3>2. CASE FileOf(c) # "long_term"
      BY <1>1, <2>4, <3>2, RoomUntouched DEF IInv, RoomKept, SameLongTerm
    <3> QED
      BY <3>1, <3>2
  <2> QED
    BY <2>3, <2>5 DEF IInv
<1> QED
  BY <1>2, <1>3, <1>4 DEF Erasing

\* Only the store of a summary appends to long-term memory.
LEMMA AppendingTo ==
  ASSUME NEW c \in Clients, FileOf(c) = "long_term", Appends(c)
  PROVE  c \in Writers
BY WhereItIs DEF Appends, Writers, OnFile, OnFacts

LEMMA FailsKeeps ==
  ASSUME IInv, NEW c \in Clients, Fails(c)
  PROVE  IInv'
<1>1. HasTurn(c)
  BY DEF Fails, HasTurn
<1>2. Moved(c)
  <2>1. CASE at[c] \in OnFacts /\ Replaces(c)
    BY <2>1, WhereItIs, AfterObserveMoves DEF Fails, IInv
  <2>2. CASE ~(at[c] \in OnFacts /\ Replaces(c))
    BY <2>2, DoneMoves DEF Fails, IInv
  <2> QED
    BY <2>1, <2>2
<1>3. QueuesOK' /\ LocalsOK' /\ Writers' \subseteq Writers \ {c}
  BY <1>1, <1>2, MovedKeeps DEF IInv
<1>4. PICK cut \in IF Appends(c) THEN Cuts ELSE {"nothing"} :
        records' = [records EXCEPT ![FileOf(c)] = AfterCut(FileOf(c), InFlight(c), cut)]
  BY DEF Fails
<1>5. RoomKept'
  <2>1. CASE FileOf(c) = "long_term" /\ Appends(c)
    <3>1. c \in Writers
      BY <2>1, AppendingTo
    <3>2. /\ DOMAIN records' = Files
          /\ records'["long_term"] = AfterCut("long_term", InFlight(c), cut)
      BY <1>4, <2>1, MemoryAssumption DEF IInv, RoomKept
    <3>3. /\ IsFile(records["long_term"]')
          /\ Len(records["long_term"]') <= Len(records["long_term"]) + 1
      BY <3>2, CutFile DEF IInv, RoomKept
    <3> QED
      BY <1>3, <3>1, <3>2, <3>3, RoomUsed DEF IInv
  <2>2. CASE FileOf(c) = "long_term" /\ ~Appends(c)
    <3>1. AfterCut("long_term", InFlight(c), cut) = records["long_term"]
      BY <2>2 DEF AfterCut
    <3>2. SameLongTerm
      BY <1>4, <2>2, <3>1, MemoryAssumption DEF IInv, RoomKept, SameLongTerm
    <3> QED
      BY <1>3, <3>2, RoomUntouched DEF IInv
  <2>3. CASE FileOf(c) # "long_term"
    <3>1. SameLongTerm
      BY <1>4, <2>3 DEF IInv, RoomKept, SameLongTerm
    <3> QED
      BY <1>3, <3>1, RoomUntouched DEF IInv
  <2> QED
    BY <2>1, <2>2, <2>3
<1> QED
  BY <1>3, <1>5 DEF IInv

\* The end of the process finishes at most one append to long-term memory.
LEMMA CrashKeeps ==
  ASSUME IInv, Crash
  PROVE  IInv'
<1>1. PICK cut \in [Files -> Cuts], renamed \in SUBSET {f \in Files : Interrupts(f, Renames)} :
        /\ \A f \in Files : cut[f] \in CutsOf(f)
        /\ records' = [f \in Files |->
             IF f \in renamed THEN kept[Head(queue[f])]
             ELSE IF cut[f] = "nothing" THEN records[f]
             ELSE AfterCut(f, InFlight(Head(queue[f])), cut[f])]
  BY DEF Crash
<1>2. /\ queue' = [f \in Files |-> <<>>] /\ at' = [c \in Clients |-> "idle"]
      /\ kept' = [c \in Clients |-> <<>>] /\ toClear' = [c \in Clients |-> <<>>]
  BY DEF Crash
<1>3. "idle" \notin Forgetting /\ "idle" \in Position /\ \A S : <<>> \in Seq(S)
  BY DEF Forgetting, Position
<1>4. QueuesOK'
  <2>1. queue' \in [Files -> Seq(Clients)] /\ \A f \in Files : 1 .. Len(queue'[f]) = {}
    BY <1>2, <1>3
  <2>2. \A c \in Clients : FileOf(c)' \notin Files
    BY <1>2, NowhereElse DEF FileOf, OnFile, OnSummaries, OnFacts, Forgetting
  <2> QED
    BY <2>1, <2>2 DEF QueuesOK
<1>5. LocalsOK'
  <2>1. at' \in [Clients -> Position] /\ toClear' \in [Clients -> Seq(Files)]
    BY <1>2, <1>3
  <2>2. DOMAIN kept' = Clients /\ \A c \in Clients : at'[c] = "idle" /\ kept'[c] = <<>>
    BY <1>2
  <2> QED
    BY <1>3, <2>1, <2>2 DEF LocalsOK
<1>6. Writers' = {}
  BY <1>2 DEF Writers
<1>7. DOMAIN records' = Files
  BY <1>1
<1> DEFINE first == Head(queue["long_term"])
<1>8. ASSUME queue["long_term"] # <<>>
      PROVE  first \in Clients /\ FileOf(first) = "long_term"
  <2>1. queue["long_term"] \in Seq(Clients)
    BY MemoryAssumption DEF IInv, QueuesOK
  <2>2. 1 \in 1 .. Len(queue["long_term"]) /\ first = queue["long_term"][1] /\ first \in Clients
    BY <1>8, <2>1, EmptySeq
  <2> QED
    BY <2>2, MemoryAssumption DEF IInv, QueuesOK
<1> HIDE DEF first
<1>9. CASE "long_term" \in renamed
  <2>1. queue["long_term"] # <<>> /\ at[first] \in Renames
    BY <1>9 DEF Interrupts, first
  <2>2. at[first] = "unlinks"
    BY <1>8, <2>1, WhereItIs DEF Renames, OnFile, OnFacts
  <2>3. kept[first] = <<>>
    BY <1>8, <2>1, <2>2 DEF IInv, LocalsOK, Forgetting
  <2>4. records["long_term"]' = <<>>
    BY <1>1, <1>9, <2>3, MemoryAssumption DEF first
  <2> QED
    BY <1>4, <1>5, <1>7, <2>4, RoomMade DEF IInv
<1>10. CASE "long_term" \notin renamed /\ cut["long_term"] = "nothing"
  <2>1. SameLongTerm
    BY <1>1, <1>7, <1>10, MemoryAssumption DEF SameLongTerm
  <2> QED
    BY <1>4, <1>5, <1>6, <2>1, RoomUntouched DEF IInv
<1>11. CASE "long_term" \notin renamed /\ cut["long_term"] # "nothing"
  <2>1. cut["long_term"] \in CutsOf("long_term")
    BY <1>1, MemoryAssumption
  <2>2. queue["long_term"] # <<>> /\ Appends(first)
    BY <1>11, <2>1 DEF CutsOf, first
  <2>3. first \in Writers
    BY <1>8, <2>2, AppendingTo
  <2>4. records'["long_term"] = AfterCut("long_term", InFlight(first), cut["long_term"])
    BY <1>1, <1>11, MemoryAssumption DEF first
  <2>5. /\ IsFile(records["long_term"]')
        /\ Len(records["long_term"]') <= Len(records["long_term"]) + 1
    BY <2>4, CutFile DEF IInv, RoomKept
  <2> QED
    BY <1>4, <1>5, <1>6, <1>7, <2>3, <2>5, RoomUsed DEF IInv
<1> QED
  BY <1>9, <1>10, <1>11

-----------------------------------------------------------------------------
(* The theorems *)

LEMMA InitIInv == ASSUME Init PROVE IInv
<1>1. /\ records = [f \in Files |-> <<>>] /\ queue = [f \in Files |-> <<>>]
      /\ at = [c \in Clients |-> "idle"] /\ kept = [c \in Clients |-> <<>>]
      /\ toClear = [c \in Clients |-> <<>>]
  BY DEF Init, FilesInit
<1>2. "idle" \notin Forgetting /\ "idle" \in Position /\ \A S : <<>> \in Seq(S)
  BY DEF Forgetting, Position
<1>3. QueuesOK
  <2>1. queue \in [Files -> Seq(Clients)] /\ \A f \in Files : 1 .. Len(queue[f]) = {}
    BY <1>1, <1>2
  <2>2. \A c \in Clients : FileOf(c) \notin Files
    BY <1>1, NowhereElse DEF FileOf, OnFile, OnSummaries, OnFacts, Forgetting
  <2> QED
    BY <2>1, <2>2 DEF QueuesOK
<1>4. LocalsOK
  BY <1>1, <1>2 DEF LocalsOK
<1>5. RoomKept
  <2>1. DOMAIN records = Files /\ records["long_term"] = <<>> /\ Writers = {}
    BY <1>1, MemoryAssumption DEF Writers
  <2>2. Cardinality(Writers) = 0 /\ Cardinality(Clients) \in Nat
    BY <2>1, SomeClients, FS_EmptySet
  <2> QED
    BY <2>1, <2>2, EmptyFile, MemoryAssumption DEF RoomKept
<1> QED
  BY <1>3, <1>4, <1>5 DEF IInv

LEMMA MovedRoomKeeps ==
  ASSUME IInv, NEW c \in Clients, Moved(c) /\ HasTurn(c) /\ SameLongTerm
  PROVE  IInv'
<1>1. QueuesOK' /\ LocalsOK' /\ Writers' \subseteq Writers \ {c}
  BY MovedKeeps DEF IInv
<1> QED
  BY <1>1, RoomUntouched DEF IInv

LEMMA StepKeeps ==
  ASSUME IInv, NEW c \in Clients, Step(c)
  PROVE  IInv'
<1>1. LocalsOK /\ DOMAIN records = Files
  BY DEF IInv, RoomKept
<1>2. CASE Conversing(c)
  BY <1>1, <1>2, ConversingMoves, MovedRoomKeeps
<1>3. CASE Consolidating(c)
  <2>1. CASE WeighsSummary(c)
    BY <2>1, WeighsSummaryKeeps
  <2>2. CASE StoresSummary(c)
    BY <2>2, StoresSummaryKeeps
  <2>3. CASE Remember(c) \/ Counts(c) \/ Summarised(c) \/ Lists(c) \/ LooksForTurn(c) \/ DropsTurn(c)
    BY <1>1, <2>3, ConsolidatingMoves, MovedRoomKeeps
  <2> QED
    BY <1>3, <2>1, <2>2, <2>3 DEF Consolidating
<1>4. CASE UpdatingFacts(c)
  BY <1>1, <1>4, UpdatingFactsMoves, MovedRoomKeeps
<1>5. CASE Erasing(c)
  BY <1>5, ErasingKeeps
<1>6. CASE Fails(c)
  BY <1>6, FailsKeeps
<1> QED
  BY <1>2, <1>3, <1>4, <1>5, <1>6 DEF Step

\* Whoever waits for the lock of a repository waits for it once and for no other,
\* the locals of a deletion are empty outside it, and every append to long-term
\* memory that is still to come has its place below the ceiling and one record
\* for every other client: for any clients, turns, limits and mishaps.
THEOREM Invariant == Spec => []IInv
<1>1. Init => IInv
  BY InitIInv
<1>2. IInv /\ [Next]_vars => IInv'
  <2> SUFFICES ASSUME IInv, [Next]_vars
               PROVE  IInv'
    OBVIOUS
  <2>1. ASSUME NEW c \in Clients, Step(c) PROVE IInv'
    BY <2>1, StepKeeps
  <2>2. CASE Crash
    BY <2>2, CrashKeeps
  <2>3. CASE UNCHANGED vars
    BY <2>3 DEF vars, fileVars, localVars, IInv, QueuesOK, LocalsOK, RoomKept, Writers, FileOf
  <2> QED
    BY <2>1, <2>2, <2>3 DEF Next
<1> QED
  BY <1>1, <1>2, PTL DEF Spec

\* CeilingOverrun for any clients and any ceiling: the look at the ceiling and the
\* append are two calls of the repository (LongTermMemory.add), and yet the file
\* never holds more records than the ceiling and one for every other client, for
\* those who passed the look hold their place until they append or give up,
\* crashes, cut lines and purges included.
THEOREM CeilingNearlyHolds == Spec => []CeilingOverrun
<1>1. IInv => CeilingOverrun
  <2> SUFFICES ASSUME IInv PROVE CeilingOverrun
    OBVIOUS
  <2>1. Len(records["long_term"]) \in Nat
    BY FileLength DEF IInv, RoomKept
  <2>2. Cardinality(Writers) \in Nat /\ Cardinality(Clients) \in Nat
    BY WritersAre, SomeClients
  <2> QED
    BY <2>1, <2>2, MemoryAssumption DEF IInv, RoomKept, CeilingOverrun
<1> QED
  BY <1>1, Invariant, PTL

-----------------------------------------------------------------------------
(* Sequences without a record.  Filtered is a recursive function; what it     *)
(* returns is shown by induction over its argument, and the induction is on    *)
(* the set of the numbers a fact holds of, since the theorems of the library    *)
(* that take the fact as an operator cannot be instantiated.                    *)

NatLess == {ss \in Nat \X Nat : ss[1] < ss[2]}

LEMMA LeastNumber ==
  ASSUME NEW T, T \subseteq Nat, T # {}
  PROVE  \E n \in T : \A m \in T : n <= m
<1>1. PICK x \in T : \A y \in T : <<y, x>> \notin NatLess
  <2>1. IsWellFoundedOn(NatLess, Nat)
    BY NatLessThanWellFounded DEF OpToRel, NatLess
  <2> QED
    BY <2>1, WFMin
<1>2. ASSUME NEW y \in T PROVE x <= y
  <2>1. <<y, x>> \in Nat \X Nat /\ ~(y < x)
    BY <1>1 DEF NatLess
  <2> QED
    BY <2>1
<1> QED
  BY <1>2

LEMMA SetInduction ==
  ASSUME NEW T, 0 \in T, \A n \in Nat : n \in T => n + 1 \in T
  PROVE  Nat \subseteq T
<1> SUFFICES ASSUME Nat \ T # {} PROVE FALSE
  OBVIOUS
<1>1. PICK n \in Nat \ T : \A m \in Nat \ T : n <= m
  BY LeastNumber
<1>2. n # 0 /\ n - 1 \in Nat /\ ~(n <= n - 1) /\ (n - 1) + 1 = n
  BY <1>1
<1> QED
  BY <1>1, <1>2

\* What is left of the first n elements of s.
Leaves(rest, s, r, n) ==
  rest = [m \in 0 .. n |->
            IF m = 0 THEN <<>> ELSE IF s[m] = r THEN rest[m - 1] ELSE Append(rest[m - 1], s[m])]

LEMMA SomethingIsLeft ==
  ASSUME NEW s, NEW r
  PROVE  \A n \in Nat : \E rest : Leaves(rest, s, r, n)
<1> DEFINE T == {n \in Nat : \E rest : Leaves(rest, s, r, n)}
<1>1. 0 \in T
  <2> DEFINE none == [m \in 0 .. 0 |-> <<>>]
  <2>1. Leaves(none, s, r, 0)
    BY DEF Leaves
  <2> QED
    BY <2>1
<1>2. ASSUME NEW n \in Nat, n \in T PROVE n + 1 \in T
  <2>1. PICK rest : Leaves(rest, s, r, n)
    BY <1>2
  <2> DEFINE next == IF s[n + 1] = r THEN rest[n] ELSE Append(rest[n], s[n + 1])
             more == [m \in 0 .. n + 1 |-> IF m = n + 1 THEN next ELSE rest[m]]
  <2>2. \A m \in 0 .. n : rest[m] =
            IF m = 0 THEN <<>> ELSE IF s[m] = r THEN rest[m - 1] ELSE Append(rest[m - 1], s[m])
    BY <2>1 DEF Leaves
  <2>3. ASSUME NEW m \in 0 .. n + 1
        PROVE  more[m] =
          IF m = 0 THEN <<>> ELSE IF s[m] = r THEN more[m - 1] ELSE Append(more[m - 1], s[m])
    <3>1. CASE m = n + 1
      <4>1. m # 0 /\ m - 1 = n /\ more[m - 1] = rest[n]
        BY <3>1
      <4> QED
        BY <3>1, <4>1
    <3>2. CASE m # n + 1
      <4>1. m \in 0 .. n /\ more[m] = rest[m]
        BY <3>2
      <4>2. m # 0 => m - 1 \in 0 .. n + 1 /\ m - 1 # n + 1 /\ more[m - 1] = rest[m - 1]
        BY <4>1
      <4> QED
        BY <2>2, <4>1, <4>2
    <3> QED
      BY <3>1, <3>2
  <2> HIDE DEF next
  <2>4. Leaves(more, s, r, n + 1)
    BY <2>3 DEF Leaves
  <2> QED
    BY <2>4
<1>3. Nat \subseteq T
  <2> HIDE DEF T
  <2> QED
    BY <1>1, <1>2, SetInduction
<1> QED
  BY <1>3

\* No two places of s hold the same.
Once(s) == \A i, j \in 1 .. Len(s) : s[i] = s[j] => i = j

LEMMA AppendHolds ==
  ASSUME NEW S, NEW s \in Seq(S), NEW e \in S
  PROVE  /\ Append(s, e) \in Seq(S)
         /\ \A x : Holds(Append(s, e), x) <=> Holds(s, x) \/ x = e
         /\ Once(s) /\ ~Holds(s, e) => Once(Append(s, e))
<1>1. /\ Append(s, e) \in Seq(S) /\ Len(Append(s, e)) = Len(s) + 1
      /\ \A i \in 1 .. Len(s) : Append(s, e)[i] = s[i]
      /\ Append(s, e)[Len(s) + 1] = e
      /\ DOMAIN s = 1 .. Len(s) /\ DOMAIN Append(s, e) = 1 .. Len(s) + 1 /\ Len(s) \in Nat
  BY AppendProperties
<1>2. \A i \in 1 .. Len(s) + 1 : i \in 1 .. Len(s) \/ i = Len(s) + 1
  BY <1>1
<1>3. 1 .. Len(s) \subseteq 1 .. Len(s) + 1 /\ Len(s) + 1 \in 1 .. Len(s) + 1
  BY <1>1
<1>4. ASSUME NEW x PROVE Holds(Append(s, e), x) <=> Holds(s, x) \/ x = e
  BY <1>1, <1>2, <1>3 DEF Holds
<1>5. ASSUME Once(s), ~Holds(s, e) PROVE Once(Append(s, e))
  BY <1>1, <1>2, <1>5 DEF Once, Holds
<1> QED
  BY <1>1, <1>4, <1>5

\* Filtered leaves the other records, each as often as it was.
LEMMA FilteredLeaves ==
  ASSUME NEW S, NEW s \in Seq(S), NEW r
  PROVE  /\ Filtered(s, r) \in Seq(S)
         /\ \A x : Holds(Filtered(s, r), x) <=> Holds(s, x) /\ x # r
         /\ Once(s) => Once(Filtered(s, r))
<1> DEFINE rest == CHOOSE f : Leaves(f, s, r, Len(s))
<1>0. Len(s) \in Nat /\ DOMAIN s = 1 .. Len(s) /\ \A i \in 1 .. Len(s) : s[i] \in S
  OBVIOUS
<1>1. Filtered(s, r) = rest[Len(s)]
  BY DEF Filtered, Leaves
<1>2. Leaves(rest, s, r, Len(s))
  BY <1>0, SomethingIsLeft
<1> HIDE DEF rest
<1> DEFINE OK(n) == /\ rest[n] \in Seq(S)
                    /\ \A x : Holds(rest[n], x) <=> x # r /\ \E i \in 1 .. n : s[i] = x
                    /\ Once(s) => Once(rest[n])
           T == {n \in Nat : n <= Len(s) => OK(n)}
<1>3. 0 \in T
  <2>1. rest[0] = <<>>
    BY <1>0, <1>2 DEF Leaves
  <2>2. <<>> \in Seq(S) /\ Once(<<>>) /\ \A x : ~Holds(<<>>, x)
    BY DEF Once, Holds
  <2>3. 1 .. 0 = {}
    OBVIOUS
  <2> QED
    BY <2>1, <2>2, <2>3
<1>4. ASSUME NEW n \in Nat, n \in T PROVE n + 1 \in T
  <2> SUFFICES ASSUME n + 1 <= Len(s) PROVE OK(n + 1)
    OBVIOUS
  <2>1. n + 1 \in 0 .. Len(s) /\ n + 1 # 0 /\ (n + 1) - 1 = n /\ n + 1 \in 1 .. Len(s)
    BY <1>0
  <2>2. rest[n + 1] = IF s[n + 1] = r THEN rest[n] ELSE Append(rest[n], s[n + 1])
    BY <1>2, <2>1 DEF Leaves
  <2>3. OK(n)
    BY <1>0, <1>4, <2>1
  <2>4. \A i \in 1 .. n + 1 : i \in 1 .. n \/ i = n + 1
    OBVIOUS
  <2>5. 1 .. n \subseteq 1 .. n + 1 /\ n + 1 \in 1 .. n + 1 /\ 1 .. n \subseteq 1 .. Len(s)
    BY <2>1
  <2>6. CASE s[n + 1] = r
    <3>1. rest[n + 1] = rest[n]
      BY <2>2, <2>6
    <3>2. ASSUME NEW x
          PROVE  (x # r /\ \E i \in 1 .. n : s[i] = x) <=> (x # r /\ \E i \in 1 .. n + 1 : s[i] = x)
      BY <2>4, <2>5, <2>6
    <3> QED
      BY <2>3, <3>1, <3>2
  <2>7. CASE s[n + 1] # r
    <3>1. rest[n + 1] = Append(rest[n], s[n + 1]) /\ s[n + 1] \in S
      BY <1>0, <2>1, <2>2, <2>7
    <3>2. /\ Append(rest[n], s[n + 1]) \in Seq(S)
          /\ \A x : Holds(Append(rest[n], s[n + 1]), x) <=> Holds(rest[n], x) \/ x = s[n + 1]
          /\ Once(rest[n]) /\ ~Holds(rest[n], s[n + 1]) => Once(Append(rest[n], s[n + 1]))
      BY <2>3, <3>1, AppendHolds
    <3>3. ASSUME NEW x
          PROVE  Holds(rest[n + 1], x) <=> x # r /\ \E i \in 1 .. n + 1 : s[i] = x
      <4>1. (\E i \in 1 .. n + 1 : s[i] = x) <=> x = s[n + 1] \/ \E i \in 1 .. n : s[i] = x
        BY <2>4, <2>5
      <4> QED
        BY <2>3, <2>7, <3>1, <3>2, <4>1
    <3>4. ASSUME Once(s) PROVE ~Holds(rest[n], s[n + 1])
      <4>1. \A i \in 1 .. n : i \in 1 .. Len(s) /\ i # n + 1
        BY <2>5
      <4> QED
        BY <2>1, <2>3, <3>4, <4>1 DEF Once
    <3> QED
      BY <2>3, <3>1, <3>2, <3>3, <3>4
  <2> QED
    BY <2>6, <2>7
<1>5. OK(Len(s))
  <2>1. Nat \subseteq T
    <3> HIDE DEF T
    <3> QED
      BY <1>3, <1>4, SetInduction
  <2>2. Len(s) \in T
    BY <1>0, <2>1
  <2> HIDE DEF OK
  <2> QED
    BY <1>0, <2>2
<1> QED
  BY <1>0, <1>1, <1>5 DEF Holds

\* Nothing is left of one record without it.
LEMMA FilteredAlone ==
  ASSUME NEW r
  PROVE  Filtered(<<r>>, r) = <<>>
<1>1. <<r>> \in Seq({r}) /\ \A x : Holds(<<r>>, x) => x = r
  BY DEF Holds
<1>2. Filtered(<<r>>, r) \in Seq({r}) /\ \A x : ~Holds(Filtered(<<r>>, r), x)
  BY <1>1, FilteredLeaves
<1> QED
  BY <1>2, EmptySeq DEF Holds

\* So many different numbers up to n are at most n.
LEMMA OnceIsShort ==
  ASSUME NEW s, NEW n \in Nat, s \in Seq(1 .. n), Once(s)
  PROVE  Len(s) <= n
<1>1. s \in [1 .. Len(s) -> 1 .. n] /\ Len(s) \in Nat
  BY LenProperties
<1>2. s \in Injection(1 .. Len(s), 1 .. n)
  BY <1>1, Fun_IsInj DEF Once
<1>3. ASSUME NEW m \in Nat PROVE IsFiniteSet(1 .. m) /\ Cardinality(1 .. m) = m
  <2>1. /\ IsFiniteSet(1 .. m)
        /\ Cardinality(1 .. m) = IF 1 > m THEN 0 ELSE m - 1 + 1
    BY FS_Interval
  <2> QED
    BY <2>1
<1>4. Cardinality(1 .. Len(s)) <= Cardinality(1 .. n)
  BY <1>2, <1>3, FS_Injection
<1> QED
  BY <1>1, <1>3, <1>4

-----------------------------------------------------------------------------
(* The types *)

\* What the records of a repository are.
KindOf(f) == IF f = "long_term" THEN SUBSET Turn ELSE Turn

FilesTyped ==
  /\ tail \in [Files -> LastLine]
  /\ \A f \in Files : /\ records[f] \in Seq(KindOf(f))
                      /\ tail[f] = "whole" => records[f] # <<>>

\* What c holds, and when it must or cannot hold something.
LocalTyped(c) ==
  /\ turn[c] \in Turn \union {0}
  /\ batch[c] \in Seq(Turn) /\ todo[c] \in Seq(Turn) /\ kept[c] \in Seq(Turn)
  /\ owed[c] \in Nat /\ hit[c] \in BOOLEAN
  /\ at[c] \in {"stores_turn", "weighs_fact", "stores_fact"} => turn[c] # 0
  /\ turn[c] # 0 => at[c] \in {"stores_turn"} \union OnFacts
  /\ at[c] \in {"looks_for_turn", "drops_turn"} => owed[c] # 0 /\ todo[c] # <<>>
  /\ at[c] \in {"looks_for_fact", "drops_fact"} => todo[c] # <<>>
  /\ kept[c] # <<>> => at[c] \in {"drops_turn", "drops_fact"}
  /\ batch[c] # <<>> => at[c] \in Compressing

LocalsTyped ==
  /\ turn \in [Clients -> Turn \union {0}]
  /\ batch \in [Clients -> Seq(Turn)] /\ todo \in [Clients -> Seq(Turn)]
  /\ kept \in [Clients -> Seq(Turn)]
  /\ owed \in [Clients -> Nat] /\ hit \in [Clients -> BOOLEAN]
  /\ \A c \in Clients : LocalTyped(c)

CacheTyped == cache \in Seq(Turn) \union {NoCache}

Typed == FilesTyped /\ LocalsTyped /\ CacheTyped /\ told \in 0 .. MaxTurns /\ mishaps \in Nat

\* Only the locals of c change.
Alone(c) ==
  /\ at' = [at EXCEPT ![c] = at'[c]] /\ turn' = [turn EXCEPT ![c] = turn'[c]]
  /\ batch' = [batch EXCEPT ![c] = batch'[c]] /\ todo' = [todo EXCEPT ![c] = todo'[c]]
  /\ owed' = [owed EXCEPT ![c] = owed'[c]] /\ hit' = [hit EXCEPT ![c] = hit'[c]]
  /\ kept' = [kept EXCEPT ![c] = kept'[c]] /\ toClear' = [toClear EXCEPT ![c] = toClear'[c]]

LocalStep(c) == Alone(c) /\ LocalTyped(c)'

LEMMA LocalStepKeeps ==
  ASSUME LocalsOK, LocalsTyped, NEW c \in Clients, LocalStep(c)
  PROVE  LocalsTyped'
<1>1. Alone(c) /\ LocalTyped(c)'
  BY DEF LocalStep
<1>2. /\ turn' \in [Clients -> Turn \union {0}]
      /\ batch' \in [Clients -> Seq(Turn)] /\ todo' \in [Clients -> Seq(Turn)]
      /\ kept' \in [Clients -> Seq(Turn)]
      /\ owed' \in [Clients -> Nat] /\ hit' \in [Clients -> BOOLEAN]
  BY <1>1 DEF LocalsTyped, Alone, LocalTyped
<1>3. ASSUME NEW d \in Clients \ {c} PROVE LocalTyped(d)'
  <2>1. /\ at'[d] = at[d] /\ turn'[d] = turn[d] /\ batch'[d] = batch[d] /\ todo'[d] = todo[d]
        /\ owed'[d] = owed[d] /\ hit'[d] = hit[d] /\ kept'[d] = kept[d]
    BY <1>1 DEF LocalsOK, LocalsTyped, Alone
  <2> QED
    BY <2>1 DEF LocalsTyped, LocalTyped
<1> QED
  BY <1>1, <1>2, <1>3 DEF LocalsTyped

LEMMA NothingTyped == \A S : <<>> \in Seq(S)
OBVIOUS

LEMMA DoneLocal ==
  ASSUME LocalsOK, LocalsTyped, NEW c \in Clients, NEW from, Done(c, from)
  PROVE  LocalStep(c) /\ at'[c] = "idle"
<1>1. /\ at' = [at EXCEPT ![c] = "idle"] /\ turn' = [turn EXCEPT ![c] = 0]
      /\ batch' = [batch EXCEPT ![c] = <<>>] /\ todo' = [todo EXCEPT ![c] = <<>>]
      /\ owed' = [owed EXCEPT ![c] = 0] /\ hit' = [hit EXCEPT ![c] = FALSE]
      /\ kept' = [kept EXCEPT ![c] = <<>>] /\ toClear' = [toClear EXCEPT ![c] = <<>>]
  BY DEF Done, To, Starts
<1>2. Alone(c)
  BY <1>1 DEF LocalsOK, LocalsTyped, Alone
<1>3. LocalTyped(c)'
  BY <1>1, NothingTyped DEF LocalsOK, LocalsTyped, LocalTyped
<1> QED
  BY <1>1, <1>2, <1>3 DEF LocalsOK, LocalStep

\* All but the most recent turns come first.
LEMMA OldestComeFirst ==
  ASSUME NEW turns \in Seq(Turn), Len(turns) > ConsolidateAfter
  PROVE  /\ Oldest(turns) \in Seq(Turn) /\ Len(Oldest(turns)) <= Len(turns)
         /\ \A i \in 1 .. Len(Oldest(turns)) : Oldest(turns)[i] = turns[i]
<1>1. Len(turns) - KeepTurns \in Nat /\ Len(turns) - KeepTurns <= Len(turns) /\ Len(turns) \in Nat
  BY MemoryAssumption
<1>2. \A i \in 1 .. Len(turns) - KeepTurns : turns[i] \in Turn
  BY <1>1
<1>3. /\ Oldest(turns) \in Seq(Turn)
      /\ Len(Oldest(turns)) = IF 1 <= Len(turns) - KeepTurns
                              THEN Len(turns) - KeepTurns - 1 + 1 ELSE 0
      /\ \A i \in 1 .. Len(turns) - KeepTurns - 1 + 1 : Oldest(turns)[i] = turns[1 + i - 1]
  BY <1>1, <1>2, SubSeqProperties DEF Oldest
<1> QED
  BY <1>1, <1>3

LEMMA CompressOrEndLocal ==
  ASSUME LocalsOK, LocalsTyped, NEW c \in Clients, NEW from, NEW turns \in Seq(Turn),
         CompressOrEnd(c, from, turns)
  PROVE  /\ LocalStep(c) /\ at'[c] \in {"idle", "summarises"}
         /\ at'[c] = "summarises" => batch'[c] = Oldest(turns) /\ Len(turns) > ConsolidateAfter
<1>1. CASE Len(turns) > ConsolidateAfter
  <2>1. /\ at' = [at EXCEPT ![c] = "summarises"] /\ turn' = [turn EXCEPT ![c] = 0]
        /\ batch' = [batch EXCEPT ![c] = Oldest(turns)] /\ todo' = [todo EXCEPT ![c] = <<>>]
        /\ owed' = [owed EXCEPT ![c] = 0] /\ hit' = [hit EXCEPT ![c] = FALSE]
        /\ kept' = [kept EXCEPT ![c] = <<>>] /\ toClear' = [toClear EXCEPT ![c] = <<>>]
    BY <1>1 DEF CompressOrEnd, To, Starts
  <2>2. Alone(c)
    BY <2>1 DEF LocalsOK, LocalsTyped, Alone
  <2>3. Oldest(turns) \in Seq(Turn)
    BY <1>1, OldestComeFirst
  <2>4. LocalTyped(c)'
    BY <2>1, <2>3, NothingTyped DEF LocalsOK, LocalsTyped, LocalTyped, Compressing
  <2> QED
    BY <1>1, <2>1, <2>2, <2>4 DEF LocalsOK, LocalsTyped, LocalStep
<1>2. CASE ~(Len(turns) > ConsolidateAfter)
  BY <1>2, DoneLocal DEF CompressOrEnd
<1> QED
  BY <1>1, <1>2

LEMMA AfterObserveLocal ==
  ASSUME LocalsOK, LocalsTyped, CacheTyped, NEW c \in Clients, NEW from, AfterObserve(c, from)
  PROVE  /\ LocalStep(c) /\ at'[c] \in {"idle", "summarises", "counts"}
         /\ at'[c] = "summarises" =>
              cache # NoCache /\ batch'[c] = Oldest(cache) /\ Len(cache) > ConsolidateAfter
<1>1. CASE Done(c, from)
  BY <1>1, DoneLocal
<1>2. CASE cache # NoCache /\ CompressOrEnd(c, from, cache)
  BY <1>2, CompressOrEndLocal DEF CacheTyped
<1>3. CASE To(c, "counts") /\ Starts(c, <<>>)
  <2>1. /\ at' = [at EXCEPT ![c] = "counts"] /\ turn' = [turn EXCEPT ![c] = 0]
        /\ batch' = [batch EXCEPT ![c] = <<>>] /\ todo' = [todo EXCEPT ![c] = <<>>]
        /\ owed' = [owed EXCEPT ![c] = 0] /\ hit' = [hit EXCEPT ![c] = FALSE]
        /\ kept' = [kept EXCEPT ![c] = <<>>] /\ toClear' = [toClear EXCEPT ![c] = <<>>]
    BY <1>3 DEF To, Starts
  <2>2. Alone(c)
    BY <2>1 DEF LocalsOK, LocalsTyped, Alone
  <2>3. LocalTyped(c)'
    BY <2>1, NothingTyped DEF LocalsOK, LocalsTyped, LocalTyped
  <2> QED
    BY <2>1, <2>2, <2>3 DEF LocalsOK, LocalStep
<1> QED
  BY <1>1, <1>2, <1>3 DEF AfterObserve

\* A deletion that is to be followed by another takes its record out of the cache.
Prunes(c, list, due, turns) ==
  LET present == IF turns = NoCache THEN <<>> ELSE turns
  IN /\ due # 0 /\ list # <<>>
     /\ todo'[c] = list /\ owed'[c] = due
     /\ hit'[c] = Holds(present, Head(list)) /\ cache' = Filtered(present, Head(list))
     /\ turn'[c] = turn[c] /\ batch'[c] = batch[c]

LEMMA PruneNextLocal ==
  ASSUME LocalsOK, LocalsTyped, NEW c \in Clients, NEW from, at[c] \in Compressing,
         NEW list \in Seq(Turn), NEW due \in Nat, NEW turns \in Seq(Turn) \union {NoCache},
         PruneNext(c, from, list, due, turns)
  PROVE  /\ LocalStep(c) /\ at'[c] \in {"idle", "looks_for_turn"} /\ CacheTyped'
         /\ at'[c] = "idle" => cache' = turns
         /\ at'[c] = "looks_for_turn" => Prunes(c, list, due, turns)
<1>1. CASE due = 0 \/ list = <<>>
  BY <1>1, DoneLocal DEF PruneNext, CacheTyped
<1>2. CASE ~(due = 0 \/ list = <<>>)
  <2> DEFINE present == IF turns = NoCache THEN <<>> ELSE turns
  <2>1. /\ at' = [at EXCEPT ![c] = "looks_for_turn"] /\ todo' = [todo EXCEPT ![c] = list]
        /\ owed' = [owed EXCEPT ![c] = due]
        /\ hit' = [hit EXCEPT ![c] = Holds(present, Head(list))]
        /\ cache' = Filtered(present, Head(list))
        /\ kept' = [kept EXCEPT ![c] = <<>>]
        /\ turn' = turn /\ batch' = batch /\ toClear' = toClear
    BY <1>2 DEF PruneNext, To
  <2>2. present \in Seq(Turn)
    BY NothingTyped
  <2>3. Filtered(present, Head(list)) \in Seq(Turn) /\ Holds(present, Head(list)) \in BOOLEAN
    <3> HIDE DEF present
    <3> QED
      BY <2>2, FilteredLeaves DEF Holds
  <2> HIDE DEF present
  <2>4. Alone(c)
    BY <2>1 DEF LocalsOK, LocalsTyped, Alone
  <2>5. turn[c] = 0
    BY DEF LocalsTyped, LocalTyped, Compressing, OnSummaries, OnFacts
  <2>6. LocalTyped(c)'
    BY <1>2, <2>1, <2>3, <2>5, NothingTyped DEF LocalsOK, LocalsTyped, LocalTyped, Compressing
  <2>7. Prunes(c, list, due, turns)
    BY <1>2, <2>1 DEF Prunes, LocalsTyped, present
  <2> QED
    BY <2>1, <2>3, <2>4, <2>6, <2>7 DEF LocalsOK, LocalStep, CacheTyped
<1> QED
  BY <1>1, <1>2

LEMMA FactGoneLocal ==
  ASSUME LocalsOK, LocalsTyped, NEW c \in Clients, at[c] \in OnFacts, FactGone(c)
  PROVE  LocalStep(c) /\ at'[c] \in {"idle", "weighs_fact"}
<1>1. CASE Replaces(c)
  <2>1. /\ at' = [at EXCEPT ![c] = "weighs_fact"] /\ todo' = [todo EXCEPT ![c] = <<>>]
        /\ kept' = [kept EXCEPT ![c] = <<>>]
        /\ turn' = turn /\ batch' = batch /\ owed' = owed /\ hit' = hit /\ toClear' = toClear
    BY <1>1 DEF FactGone, To
  <2>2. Alone(c)
    BY <2>1 DEF LocalsOK, LocalsTyped, Alone
  <2>3. batch[c] = <<>>
    BY DEF LocalsTyped, LocalTyped, Compressing, OnSummaries, OnFacts
  <2>4. LocalTyped(c)'
    BY <1>1, <2>1, <2>3, NothingTyped DEF LocalsOK, LocalsTyped, LocalTyped, Replaces, OnFacts
  <2> QED
    BY <2>1, <2>2, <2>4 DEF LocalsOK, LocalStep
<1>2. CASE ~Replaces(c)
  BY <1>2, DoneLocal DEF FactGone
<1> QED
  BY <1>1, <1>2

-----------------------------------------------------------------------------
(* What becomes of the files *)

\* The call c makes of repository f ends, or is cut off: it appends, some of the
\* line at least, or puts another file in the place of this one.
Touches(f, c) ==
  \/ /\ Appends(c)
     /\ \E cut \in Cuts : /\ records'[f] = AfterCut(f, InFlight(c), cut)
                          /\ tail'[f] = TailAfterCut(f, cut)
  \/ at[c] \in Renames /\ records'[f] = kept[c] /\ tail'[f] = "clean"

\* Only the calls of C touch the files.
FilesStep(C) ==
  /\ DOMAIN records' = Files /\ tail' \in [Files -> LastLine]
  /\ \A f \in Files :
       \/ records'[f] = records[f] /\ tail'[f] = tail[f]
       \/ \E c \in C : FileOf(c) = f /\ Touches(f, c)

LEMMA TailType ==
  ASSUME tail \in [Files -> LastLine], NEW f \in Files, NEW cut \in Cuts
  PROVE  TailAfterCut(f, cut) \in LastLine
BY DEF TailAfterCut, LastLine, Cuts

LEMMA AppendLineTouches ==
  ASSUME DOMAIN records = Files, tail \in [Files -> LastLine],
         NEW c \in Clients, NEW f \in Files, FileOf(c) = f, Appends(c), NEW r, r = InFlight(c),
         AppendLine(f, r)
  PROVE  FilesStep({c})
<1>1. /\ records' = [records EXCEPT ![f] = AfterCut(f, r, "line")]
      /\ tail' = [tail EXCEPT ![f] = TailAfterCut(f, "line")]
  BY DEF AppendLine, AfterCut, TailAfterCut
<1>2. "line" \in Cuts /\ TailAfterCut(f, "line") \in LastLine
  BY DEF Cuts, TailAfterCut, LastLine
<1>3. Touches(f, c)
  BY <1>1, <1>2 DEF Touches
<1> QED
  BY <1>1, <1>2, <1>3 DEF FilesStep

LEMMA RewriteTouches ==
  ASSUME DOMAIN records = Files, tail \in [Files -> LastLine],
         NEW c \in Clients, NEW f \in Files, FileOf(c) = f, at[c] \in Renames,
         Rewrite(f, kept[c])
  PROVE  FilesStep({c})
<1>1. /\ records' = [records EXCEPT ![f] = kept[c]]
      /\ tail' = [tail EXCEPT ![f] = "clean"]
  BY DEF Rewrite
<1>2. Touches(f, c)
  BY <1>1 DEF Touches
<1> QED
  BY <1>1, <1>2 DEF FilesStep, LastLine

LEMMA NoFileTouched ==
  ASSUME DOMAIN records = Files, tail \in [Files -> LastLine], UNCHANGED <<records, tail>>, NEW C
  PROVE  FilesStep(C)
BY DEF FilesStep

\* Who forgets a store is purging it.
LEMMA Purges ==
  ASSUME IInv, NEW c \in Clients, at[c] = "unlinks"
  PROVE  FileOf(c) \in Files /\ kept[c] = <<>> /\ at[c] \in Renames
<1>1. toClear[c] \in Seq(Files) /\ toClear[c] # <<>> /\ kept[c] = <<>>
  BY DEF IInv, LocalsOK, Forgetting
<1>2. FileOf(c) = Head(toClear[c])
  BY DEF FileOf, OnFile, OnSummaries, OnFacts, Forgetting
<1> QED
  BY <1>1, <1>2 DEF Renames

LEMMA StepTouches ==
  ASSUME IInv, Typed, NEW c \in Clients, Step(c)
  PROVE  FilesStep({c})
<1>1. DOMAIN records = Files /\ tail \in [Files -> LastLine]
  BY DEF IInv, RoomKept, Typed, FilesTyped
<1>2. {"long_term", "conversation", "project"} = Files
  BY MemoryAssumption
<1>3. CASE StoresTurn(c)
  <2>1. at[c] = "stores_turn" /\ FileOf(c) = "conversation"
    BY <1>3, WhereItIs DEF StoresTurn, Waits, OnFile
  <2> QED
    BY <1>1, <1>2, <1>3, <2>1, AppendLineTouches DEF StoresTurn, Appends, InFlight
<1>4. CASE StoresSummary(c)
  <2>1. at[c] = "stores_summary" /\ FileOf(c) = "long_term"
    BY <1>4, WhereItIs DEF StoresSummary, Waits, OnSummaries
  <2> QED
    BY <1>1, <1>2, <1>4, <2>1, AppendLineTouches DEF StoresSummary, Appends, InFlight
<1>5. CASE StoresFact(c)
  <2>1. at[c] = "stores_fact" /\ FileOf(c) = "project"
    BY <1>5, WhereItIs DEF StoresFact, Waits, OnFacts
  <2> QED
    BY <1>1, <1>2, <1>5, <2>1, AppendLineTouches DEF StoresFact, Appends, InFlight
<1>6. CASE DropsTurn(c)
  <2>1. at[c] = "drops_turn" /\ FileOf(c) = "conversation"
    BY <1>6, WhereItIs DEF DropsTurn, Waits, OnFile
  <2> QED
    BY <1>1, <1>2, <1>6, <2>1, RewriteTouches DEF DropsTurn, Renames
<1>7. CASE DropsFact(c)
  <2>1. at[c] = "drops_fact" /\ FileOf(c) = "project"
    BY <1>7, WhereItIs DEF DropsFact, Waits, OnFacts
  <2> QED
    BY <1>1, <1>2, <1>7, <2>1, RewriteTouches DEF DropsFact, Renames
<1>8. CASE Unlinks(c)
  <2>1. at[c] = "unlinks"
    BY <1>8 DEF Unlinks, Waits
  <2>2. FileOf(c) \in Files /\ kept[c] = <<>> /\ at[c] \in Renames
    BY <2>1, Purges
  <2> QED
    BY <1>1, <1>8, <2>2, RewriteTouches DEF Unlinks, Unlink
<1>9. CASE Fails(c)
  <2>1. PICK cut \in IF Appends(c) THEN Cuts ELSE {"nothing"} :
          /\ records' = [records EXCEPT ![FileOf(c)] = AfterCut(FileOf(c), InFlight(c), cut)]
          /\ tail' = [tail EXCEPT ![FileOf(c)] = TailAfterCut(FileOf(c), cut)]
    BY <1>9 DEF Fails
  <2>2. CASE FileOf(c) \in Files
    <3>1. cut \in Cuts /\ TailAfterCut(FileOf(c), cut) \in LastLine
      BY <1>1, <2>2, TailType DEF Cuts
    <3>2. DOMAIN records' = Files /\ tail' \in [Files -> LastLine]
      BY <1>1, <2>1, <3>1
    <3>3. \A f \in Files \ {FileOf(c)} : records'[f] = records[f] /\ tail'[f] = tail[f]
      BY <1>1, <2>1
    <3>4. /\ records'[FileOf(c)] = AfterCut(FileOf(c), InFlight(c), cut)
          /\ tail'[FileOf(c)] = TailAfterCut(FileOf(c), cut)
      BY <1>1, <2>1, <2>2
    <3>5. CASE Appends(c)
      <4>1. Touches(FileOf(c), c)
        BY <3>1, <3>4, <3>5 DEF Touches
      <4> QED
        BY <3>2, <3>3, <4>1 DEF FilesStep
    <3>6. CASE ~Appends(c)
      <4>1. /\ records'[FileOf(c)] = records[FileOf(c)] /\ tail'[FileOf(c)] = tail[FileOf(c)]
        BY <2>1, <3>4, <3>6 DEF AfterCut, TailAfterCut
      <4> QED
        BY <3>2, <3>3, <4>1 DEF FilesStep
    <3> QED
      BY <3>5, <3>6
  <2>3. CASE FileOf(c) \notin Files
    BY <1>1, <2>1, <2>3 DEF FilesStep
  <2> QED
    BY <2>2, <2>3
<1>10. CASE UNCHANGED <<records, tail>>
  BY <1>1, <1>10, NoFileTouched
<1>11. Conversing(c) => StoresTurn(c) \/ UNCHANGED <<records, tail>>
  BY DEF Conversing, Observe, Load, Loaded
<1>12. Consolidating(c) => StoresSummary(c) \/ DropsTurn(c) \/ UNCHANGED <<records, tail>>
  BY DEF Consolidating, Remember, Counts, Summarised, WeighsSummary, Lists, LooksForTurn
<1>13. UpdatingFacts(c) => StoresFact(c) \/ DropsFact(c) \/ UNCHANGED <<records, tail>>
  BY DEF UpdatingFacts, ForgetFact, FindsFact, LooksForFact, WeighsFact
<1>14. Erasing(c) => Unlinks(c) \/ UNCHANGED <<records, tail>>
  BY DEF Erasing, Forget, Clears
<1> QED
  BY <1>3, <1>4, <1>5, <1>6, <1>7, <1>8, <1>9, <1>10, <1>11, <1>12, <1>13, <1>14 DEF Step

LEMMA CrashTouches ==
  ASSUME IInv, Typed, Crash
  PROVE  FilesStep(Clients)
<1>1. DOMAIN records = Files /\ tail \in [Files -> LastLine]
  BY DEF IInv, RoomKept, Typed, FilesTyped
<1>2. PICK cut \in [Files -> Cuts], renamed \in SUBSET {f \in Files : Interrupts(f, Renames)} :
        /\ \A f \in Files : cut[f] \in CutsOf(f)
        /\ records' = [f \in Files |->
             IF f \in renamed THEN kept[Head(queue[f])]
             ELSE IF cut[f] = "nothing" THEN records[f]
             ELSE AfterCut(f, InFlight(Head(queue[f])), cut[f])]
        /\ tail' = [f \in Files |-> IF f \in renamed THEN "clean" ELSE TailAfterCut(f, cut[f])]
  BY DEF Crash
<1>3. DOMAIN records' = Files /\ tail' \in [Files -> LastLine]
  <2>1. \A f \in Files : TailAfterCut(f, cut[f]) \in LastLine
    BY <1>1, TailType
  <2> QED
    BY <1>2, <2>1 DEF LastLine
<1>4. ASSUME NEW f \in Files
      PROVE  \/ records'[f] = records[f] /\ tail'[f] = tail[f]
             \/ \E c \in Clients : FileOf(c) = f /\ Touches(f, c)
  <2>1. ASSUME queue[f] # <<>> PROVE Head(queue[f]) \in Clients /\ FileOf(Head(queue[f])) = f
    <3>1. queue[f] \in Seq(Clients)
      BY DEF IInv, QueuesOK
    <3>2. 1 \in 1 .. Len(queue[f]) /\ Head(queue[f]) = queue[f][1] /\ Head(queue[f]) \in Clients
      BY <2>1, <3>1, EmptySeq
    <3> QED
      BY <3>2 DEF IInv, QueuesOK
  <2>2. CASE f \in renamed
    <3>1. queue[f] # <<>> /\ at[Head(queue[f])] \in Renames
      BY <1>2, <2>2 DEF Interrupts
    <3>2. Touches(f, Head(queue[f]))
      BY <1>2, <2>2, <3>1 DEF Touches
    <3> QED
      BY <2>1, <3>1, <3>2
  <2>3. CASE f \notin renamed /\ cut[f] = "nothing"
    BY <1>2, <2>3 DEF TailAfterCut
  <2>4. CASE f \notin renamed /\ cut[f] # "nothing"
    <3>1. queue[f] # <<>> /\ Appends(Head(queue[f])) /\ cut[f] \in Cuts
      BY <1>2, <2>4 DEF CutsOf
    <3>2. Touches(f, Head(queue[f]))
      BY <1>2, <2>4, <3>1 DEF Touches
    <3> QED
      BY <2>1, <3>1, <3>2
  <2> QED
    BY <2>2, <2>3, <2>4
<1> QED
  BY <1>3, <1>4 DEF FilesStep

\* What is in flight to a repository is a record of its kind.
LEMMA InFlightKind ==
  ASSUME Typed, NEW c \in Clients, Appends(c)
  PROVE  InFlight(c) \in KindOf(FileOf(c))
<1>1. CASE at[c] = "stores_summary"
  <2>1. FileOf(c) = "long_term" /\ InFlight(c) = ToSet(batch[c])
    BY <1>1, WhereItIs DEF OnSummaries, InFlight
  <2>2. batch[c] \in Seq(Turn)
    BY DEF Typed, LocalsTyped
  <2>3. ToSet(batch[c]) \subseteq Turn
    BY <2>2 DEF ToSet
  <2> QED
    BY <2>1, <2>3 DEF KindOf
<1>2. CASE at[c] \in {"stores_turn", "stores_fact"}
  <2>1. FileOf(c) # "long_term" /\ InFlight(c) = turn[c]
    BY <1>2, WhereItIs DEF OnFile, OnFacts, InFlight
  <2>2. turn[c] \in Turn
    BY <1>2 DEF Typed, LocalsTyped, LocalTyped
  <2> QED
    BY <2>1, <2>2 DEF KindOf
<1> QED
  BY <1>1, <1>2 DEF Appends

\* A line cut off leaves a sequence of records of the same kind.
LEMMA CutTyped ==
  ASSUME FilesTyped, NEW f \in Files, NEW r \in KindOf(f), NEW cut \in Cuts
  PROVE  /\ AfterCut(f, r, cut) \in Seq(KindOf(f))
         /\ TailAfterCut(f, cut) = "whole" => AfterCut(f, r, cut) # <<>>
<1>1. records[f] \in Seq(KindOf(f)) /\ (tail[f] = "whole" => records[f] # <<>>)
  BY DEF FilesTyped
<1>2. Len(records[f]) \in Nat /\ \A i \in 1 .. Len(records[f]) - 1 : records[f][i] \in KindOf(f)
  BY <1>1
<1>3. Ended(f) \in Seq(KindOf(f))
  BY <1>1, <1>2, SubSeqProperties DEF Ended
<1>4. Append(records[f], r) \in Seq(KindOf(f)) /\ Append(records[f], r) # <<>>
  BY <1>1, AppendProperties
<1>5. AfterCut(f, r, cut) \in Seq(KindOf(f))
  BY <1>1, <1>3, <1>4 DEF AfterCut
<1>6. ASSUME TailAfterCut(f, cut) = "whole" PROVE AfterCut(f, r, cut) # <<>>
  BY <1>1, <1>4, <1>6 DEF AfterCut, TailAfterCut, Cuts
<1> QED
  BY <1>5, <1>6

LEMMA FilesStepTyped ==
  ASSUME IInv, Typed, NEW C, C \subseteq Clients, FilesStep(C)
  PROVE  FilesTyped'
<1>1. ASSUME NEW f \in Files
      PROVE  records'[f] \in Seq(KindOf(f)) /\ (tail'[f] = "whole" => records'[f] # <<>>)
  <2>1. CASE records'[f] = records[f] /\ tail'[f] = tail[f]
    BY <2>1 DEF Typed, FilesTyped
  <2>2. ASSUME NEW c \in C, FileOf(c) = f, Touches(f, c)
        PROVE  records'[f] \in Seq(KindOf(f)) /\ (tail'[f] = "whole" => records'[f] # <<>>)
    <3>1. CASE Appends(c) /\ \E cut \in Cuts : /\ records'[f] = AfterCut(f, InFlight(c), cut)
                                              /\ tail'[f] = TailAfterCut(f, cut)
      <4>1. InFlight(c) \in KindOf(f)
        BY <2>2, <3>1, InFlightKind
      <4> QED
        BY <3>1, <4>1, CutTyped DEF Typed
    <3>2. CASE at[c] \in Renames /\ records'[f] = kept[c] /\ tail'[f] = "clean"
      <4>1. kept[c] \in Seq(Turn)
        BY DEF Typed, LocalsTyped
      <4>2. CASE f = "long_term"
        <5>1. at[c] = "unlinks"
          BY <2>2, <3>2, <4>2, WhereItIs DEF Renames, OnFile, OnFacts
        <5>2. kept[c] = <<>>
          BY <5>1, Purges
        <5> QED
          BY <3>2, <5>2, NothingTyped
      <4>3. CASE f # "long_term"
        BY <3>2, <4>1, <4>3 DEF KindOf
      <4> QED
        BY <4>2, <4>3
    <3> QED
      BY <2>2, <3>1, <3>2 DEF Touches
  <2> QED
    BY <2>1, <2>2 DEF FilesStep
<1> QED
  BY <1>1 DEF FilesStep, FilesTyped, KindOf

-----------------------------------------------------------------------------
(* Where what a client holds, and the cache, come from *)

\* The cache is kept, dropped, or made anew from turns that are there.
CacheStep ==
  \/ cache' \in {cache, NoCache, records["conversation"]}
  \/ \E x : \E P \in {Cached, records["conversation"]} : cache' = Filtered(P, x)
  \/ told' = told + 1 /\ cache' = Trimmed(Append(Cached, told + 1))

HeldStep(c) ==
  /\ turn'[c] \in {turn[c], 0} \/ (told' = told + 1 /\ turn'[c] = told + 1)
  /\ \/ batch'[c] \in {batch[c], <<>>}
     \/ \E P \in {Cached, records["conversation"]} :
          Len(P) > ConsolidateAfter /\ batch'[c] = Oldest(P)
  /\ \/ kept'[c] \in {kept[c], <<>>}
     \/ \E x : \E f \in Files \ {"long_term"} : kept'[c] = Filtered(records[f], x)

\* The turns are counted as they are observed, and only then is one to be stored.
ToldStep(c) ==
  \/ told' = told /\ at'[c] # "stores_turn"
  \/ /\ told < MaxTurns /\ told' = told + 1
     /\ at[c] = "idle" /\ at'[c] = "stores_turn" /\ turn'[c] = told + 1

\* A rewrite of the conversation follows a look at it.
LookStep(c) ==
  at'[c] = "drops_turn" =>
    /\ at[c] = "looks_for_turn" /\ todo'[c] = todo[c]
    /\ kept'[c] = Filtered(records["conversation"], Head(todo[c]))

Effect(c) == LocalStep(c) /\ CacheStep /\ HeldStep(c) /\ ToldStep(c) /\ LookStep(c)

LEMMA ConversationTyped ==
  ASSUME Typed
  PROVE  /\ records["conversation"] \in Seq(Turn) /\ records["project"] \in Seq(Turn)
         /\ records["long_term"] \in Seq(SUBSET Turn)
         /\ records["conversation"] # NoCache
         /\ Cached \in Seq(Turn) /\ (cache # NoCache => Cached = cache)
BY MemoryAssumption DEF Typed, FilesTyped, KindOf, CacheTyped, Cached

LEMMA DoneEffect ==
  ASSUME IInv, Typed, NEW c \in Clients, NEW from, Done(c, from), told' = told,
         cache' \in {cache, NoCache, records["conversation"]}
  PROVE  Effect(c)
<1>1. LocalStep(c) /\ at'[c] = "idle"
  BY DoneLocal DEF IInv, Typed
<1>2. turn'[c] = 0 /\ batch'[c] = <<>> /\ kept'[c] = <<>>
  BY <1>1 DEF LocalStep, LocalTyped, OnFacts, Compressing, OnSummaries
<1> QED
  BY <1>1, <1>2 DEF Effect, CacheStep, HeldStep, ToldStep, LookStep

LEMMA CompressOrEndEffect ==
  ASSUME IInv, Typed, NEW c \in Clients, NEW from, NEW turns \in {Cached, records["conversation"]},
         CompressOrEnd(c, from, turns), told' = told,
         cache' \in {cache, NoCache, records["conversation"]}
  PROVE  Effect(c)
<1>1. turns \in Seq(Turn)
  BY ConversationTyped
<1>2. /\ LocalStep(c) /\ at'[c] \in {"idle", "summarises"}
      /\ at'[c] = "summarises" => batch'[c] = Oldest(turns) /\ Len(turns) > ConsolidateAfter
  BY <1>1, CompressOrEndLocal DEF IInv, Typed
<1>3. turn'[c] = 0 /\ kept'[c] = <<>> /\ (at'[c] = "idle" => batch'[c] = <<>>)
  BY <1>2 DEF LocalStep, LocalTyped, OnFacts, Compressing, OnSummaries
<1> QED
  BY <1>2, <1>3 DEF Effect, CacheStep, HeldStep, ToldStep, LookStep

LEMMA AfterObserveEffect ==
  ASSUME IInv, Typed, NEW c \in Clients, NEW from, AfterObserve(c, from), told' = told,
         cache' = cache
  PROVE  Effect(c)
<1>1. /\ LocalStep(c) /\ at'[c] \in {"idle", "summarises", "counts"}
      /\ at'[c] = "summarises" =>
           cache # NoCache /\ batch'[c] = Oldest(cache) /\ Len(cache) > ConsolidateAfter
  BY AfterObserveLocal DEF IInv, Typed
<1>2. turn'[c] = 0 /\ kept'[c] = <<>> /\ (at'[c] # "summarises" => batch'[c] = <<>>)
  BY <1>1 DEF LocalStep, LocalTyped, OnFacts, Compressing, OnSummaries
<1> QED
  BY <1>1, <1>2, ConversationTyped DEF Effect, CacheStep, HeldStep, ToldStep, LookStep

LEMMA PruneNextEffect ==
  ASSUME IInv, Typed, NEW c \in Clients, NEW from, at[c] \in Compressing,
         NEW list \in Seq(Turn), NEW due \in Nat, NEW turns \in {cache, records["conversation"]},
         PruneNext(c, from, list, due, turns), told' = told
  PROVE  Effect(c)
<1>1. turns \in Seq(Turn) \union {NoCache}
  BY ConversationTyped DEF Typed, CacheTyped
<1>2. /\ LocalStep(c) /\ at'[c] \in {"idle", "looks_for_turn"}
      /\ at'[c] = "idle" => cache' = turns
      /\ at'[c] = "looks_for_turn" => Prunes(c, list, due, turns)
  BY <1>1, PruneNextLocal DEF IInv, Typed
<1>3. turn'[c] = 0 /\ kept'[c] = <<>> /\ (at'[c] = "idle" => batch'[c] = <<>>)
  BY <1>2 DEF LocalStep, LocalTyped, OnFacts, Compressing, OnSummaries
<1>4. CASE at'[c] = "idle"
  BY <1>2, <1>3, <1>4 DEF Effect, CacheStep, HeldStep, ToldStep, LookStep
<1>5. CASE at'[c] = "looks_for_turn"
  <2>1. batch'[c] = batch[c]
    BY <1>2, <1>5 DEF Prunes
  <2>2. \E x : \E P \in {Cached, records["conversation"]} : cache' = Filtered(P, x)
    BY <1>2, <1>5, ConversationTyped DEF Prunes, Cached
  <2> QED
    BY <1>2, <1>3, <1>5, <2>1, <2>2 DEF Effect, CacheStep, HeldStep, ToldStep, LookStep
<1> QED
  BY <1>2, <1>4, <1>5

LEMMA FactGoneEffect ==
  ASSUME IInv, Typed, NEW c \in Clients, at[c] \in OnFacts, FactGone(c), told' = told, cache' = cache
  PROVE  Effect(c)
<1>1. LocalStep(c) /\ at'[c] \in {"idle", "weighs_fact"}
  BY FactGoneLocal DEF IInv, Typed
<1>2. batch'[c] = <<>> /\ kept'[c] = <<>>
  BY <1>1 DEF LocalStep, LocalTyped, OnFacts, Compressing, OnSummaries
<1>3. turn'[c] \in {turn[c], 0}
  <2>1. CASE Replaces(c)
    BY <2>1 DEF FactGone
  <2>2. CASE ~Replaces(c)
    <3>1. at'[c] = "idle"
      BY <2>2, DoneLocal DEF FactGone, IInv, Typed
    <3> QED
      BY <1>1, <3>1 DEF LocalStep, LocalTyped, OnFacts
  <2> QED
    BY <2>1, <2>2
<1> QED
  BY <1>1, <1>2, <1>3 DEF Effect, CacheStep, HeldStep, ToldStep, LookStep

\* A step on to another await at which c holds what it held.
LEMMA GoesOnEffect ==
  ASSUME IInv, Typed, NEW c \in Clients, NEW p, To(c, p),
         UNCHANGED <<turn, batch, todo, owed, hit, kept>>,
         toClear' = toClear \/ \E s : toClear' = [toClear EXCEPT ![c] = s],
         told' = told, cache' \in {cache, NoCache},
         p \in {"weighs_fact", "stores_fact"} => turn[c] # 0,
         turn[c] # 0 => p \in OnFacts,
         p \notin {"stores_turn", "looks_for_turn", "drops_turn", "looks_for_fact", "drops_fact"},
         kept[c] = <<>>, batch[c] # <<>> => p \in Compressing
  PROVE  Effect(c)
<1>1. at' = [at EXCEPT ![c] = p]
  BY DEF To
<1>2. toClear' = [toClear EXCEPT ![c] = toClear'[c]]
  BY DEF IInv, LocalsOK
<1>3. Alone(c)
  BY <1>1, <1>2 DEF IInv, LocalsOK, Typed, LocalsTyped, Alone
<1>4. LocalTyped(c)'
  BY <1>1 DEF IInv, LocalsOK, Typed, LocalsTyped, LocalTyped
<1>5. at'[c] = p
  BY <1>1 DEF IInv, LocalsOK
<1> QED
  BY <1>3, <1>4, <1>5 DEF LocalStep, Effect, CacheStep, HeldStep, ToldStep, LookStep
\* What a client has not got where it is.
LEMMA HoldsNothing ==
  ASSUME Typed, NEW c \in Clients
  PROVE  /\ at[c] \notin {"drops_turn", "drops_fact"} => kept[c] = <<>>
         /\ at[c] \notin Compressing => batch[c] = <<>>
         /\ at[c] \notin {"stores_turn"} \union OnFacts => turn[c] = 0
         /\ at[c] \in {"stores_turn", "weighs_fact", "stores_fact"} => turn[c] # 0
         /\ turn[c] \in Turn \union {0} /\ todo[c] \in Seq(Turn) /\ batch[c] \in Seq(Turn)
         /\ at[c] \in {"looks_for_turn", "drops_turn"} =>
              owed[c] \in Nat \ {0} /\ todo[c] # <<>>
         /\ at[c] \in {"looks_for_fact", "drops_fact"} => todo[c] # <<>>
BY DEF Typed, LocalsTyped, LocalTyped

LEMMA TrimmedLast ==
  ASSUME NEW s \in Seq(Turn)
  PROVE  /\ Trimmed(s) \in Seq(Turn) /\ Len(Trimmed(s)) <= Len(s)
         /\ \A i \in 1 .. Len(Trimmed(s)) :
              /\ Len(s) - Len(Trimmed(s)) + i \in 1 .. Len(s)
              /\ Trimmed(s)[i] = s[Len(s) - Len(Trimmed(s)) + i]
<1>0. Len(s) \in Nat /\ TurnLimit \in Nat \ {0}
  BY MemoryAssumption
<1>1. CASE Len(s) > TurnLimit
  <2> DEFINE m == Len(s) - TurnLimit + 1
  <2>1. m \in 1 .. Len(s) /\ Trimmed(s) = SubSeq(s, m, Len(s))
    BY <1>0, <1>1 DEF Trimmed
  <2>2. \A i \in m .. Len(s) : s[i] \in Turn
    BY <1>0, <2>1
  <2> HIDE DEF m
  <2>3. /\ SubSeq(s, m, Len(s)) \in Seq(Turn)
        /\ Len(SubSeq(s, m, Len(s))) = IF m <= Len(s) THEN Len(s) - m + 1 ELSE 0
        /\ \A i \in 1 .. Len(s) - m + 1 : SubSeq(s, m, Len(s))[i] = s[m + i - 1]
    BY <1>0, <2>1, <2>2, SubSeqProperties
  <2>4. Trimmed(s) \in Seq(Turn) /\ Len(Trimmed(s)) = Len(s) - m + 1
    BY <1>0, <2>1, <2>3
  <2>5. ASSUME NEW i \in 1 .. Len(Trimmed(s))
        PROVE  /\ Len(s) - Len(Trimmed(s)) + i \in 1 .. Len(s)
               /\ Trimmed(s)[i] = s[Len(s) - Len(Trimmed(s)) + i]
    <3>1. Len(s) - Len(Trimmed(s)) + i = m + i - 1 /\ i \in 1 .. Len(s) - m + 1
      BY <1>0, <2>1, <2>4
    <3>2. m + i - 1 \in 1 .. Len(s)
      BY <1>0, <2>1, <3>1
    <3> QED
      BY <2>1, <2>3, <3>1, <3>2
  <2> QED
    BY <1>0, <2>1, <2>4, <2>5
<1>2. CASE ~(Len(s) > TurnLimit)
  <2>1. Trimmed(s) = s
    BY <1>2 DEF Trimmed
  <2> QED
    BY <1>0, <2>1
<1> QED
  BY <1>1, <1>2

LEMMA ConversingEffect ==
  ASSUME IInv, Typed, NEW c \in Clients, Conversing(c)
  PROVE  Effect(c)
<1>1. CASE Observe(c)
  <2>1. /\ at[c] = "idle" /\ told < MaxTurns /\ told' = told + 1
        /\ at' = [at EXCEPT ![c] = "stores_turn"] /\ turn' = [turn EXCEPT ![c] = told + 1]
        /\ cache' = Trimmed(Append(Cached, told + 1))
        /\ UNCHANGED <<batch, todo, owed, hit, kept, toClear>>
    BY <1>1 DEF Observe, To
  <2>2. told + 1 \in Turn /\ told \in Nat
    BY <2>1, MemoryAssumption DEF Turn, Typed
  <2>3. Alone(c)
    BY <2>1 DEF IInv, LocalsOK, Typed, LocalsTyped, Alone
  <2>5. at'[c] = "stores_turn" /\ turn'[c] = told + 1 /\ batch'[c] = batch[c] /\ kept'[c] = kept[c]
    BY <2>1 DEF IInv, LocalsOK, Typed, LocalsTyped
  <2>6. batch[c] = <<>> /\ kept[c] = <<>>
    BY <2>1, HoldsNothing DEF Compressing, OnSummaries
  <2>7. /\ batch'[c] \in Seq(Turn) /\ todo'[c] \in Seq(Turn) /\ kept'[c] \in Seq(Turn)
        /\ owed'[c] \in Nat /\ hit'[c] \in BOOLEAN
    BY <2>1 DEF Typed, LocalsTyped
  <2>4. LocalTyped(c)'
    BY <2>2, <2>5, <2>6, <2>7 DEF LocalTyped
  <2> QED
    BY <2>1, <2>3, <2>4, <2>5 DEF LocalStep, Effect, CacheStep, HeldStep, ToldStep, LookStep
<1>2. CASE StoresTurn(c)
  <2>1. at[c] = "stores_turn" /\ told' = told /\ cache' = cache
    BY <1>2 DEF StoresTurn, Waits, boundVars
  <2>2. kept[c] = <<>> /\ batch[c] = <<>> /\ turn[c] # 0
    BY <2>1, HoldsNothing DEF Compressing, OnSummaries
  <2>3. CASE turn[c] \in FactTurns
    BY <1>2, <2>1, <2>2, <2>3, GoesOnEffect DEF StoresTurn, OnFacts
  <2>4. CASE turn[c] \notin FactTurns
    BY <1>2, <2>1, <2>4, AfterObserveEffect DEF StoresTurn
  <2> QED
    BY <2>3, <2>4
<1>3. CASE Load(c)
  <2>1. at[c] = "idle" /\ told' = told /\ cache' = cache
    BY <1>3 DEF Load, boundVars
  <2>2. kept[c] = <<>> /\ batch[c] = <<>> /\ turn[c] = 0
    BY <2>1, HoldsNothing DEF Compressing, OnSummaries, OnFacts
  <2> QED
    BY <1>3, <2>1, <2>2, GoesOnEffect DEF Load
<1>4. CASE Loaded(c)
  BY <1>4, DoneEffect DEF Loaded, boundVars
<1> QED
  BY <1>1, <1>2, <1>3, <1>4 DEF Conversing

LEMMA ConsolidatingEffect ==
  ASSUME IInv, Typed, NEW c \in Clients, Consolidating(c)
  PROVE  Effect(c)
<1>0. {"summarises", "weighs_summary", "stores_summary", "lists", "looks_for_turn", "drops_turn"}
        \subseteq Compressing /\ OnFacts \intersect Compressing = {} /\ "idle" \notin OnFacts
  BY DEF Compressing, OnSummaries, OnFacts
<1>1. CASE Remember(c)
  <2>1. at[c] = "idle" /\ told' = told /\ cache' = cache
    BY <1>1 DEF Remember
  <2>2. kept[c] = <<>> /\ batch[c] = <<>> /\ turn[c] = 0
    BY <1>0, <2>1, HoldsNothing DEF Compressing, OnSummaries
  <2> QED
    BY <1>1, <2>1, <2>2, GoesOnEffect DEF Remember
<1>2. CASE Counts(c)
  BY <1>2, CompressOrEndEffect DEF Counts, boundVars
<1>3. CASE Summarised(c)
  <2>1. at[c] = "summarises" /\ told' = told /\ cache' = cache
    BY <1>3 DEF Summarised, boundVars
  <2>2. kept[c] = <<>> /\ turn[c] = 0
    BY <1>0, <2>1, HoldsNothing DEF OnFacts
  <2>3. CASE Done(c, Nowhere)
    BY <2>1, <2>3, DoneEffect
  <2>4. CASE ~Done(c, Nowhere)
    BY <1>0, <1>3, <2>1, <2>2, <2>4, GoesOnEffect DEF Summarised
  <2> QED
    BY <2>3, <2>4
<1>4. CASE WeighsSummary(c)
  <2>1. at[c] = "weighs_summary" /\ told' = told /\ cache' = cache
    BY <1>4 DEF WeighsSummary, Waits, boundVars
  <2>2. kept[c] = <<>> /\ turn[c] = 0
    BY <1>0, <2>1, HoldsNothing DEF OnFacts
  <2>3. CASE Full("long_term")
    BY <1>4, <2>1, <2>3, DoneEffect DEF WeighsSummary
  <2>4. CASE ~Full("long_term")
    BY <1>0, <1>4, <2>1, <2>2, <2>4, GoesOnEffect DEF WeighsSummary
  <2> QED
    BY <2>3, <2>4
<1>5. CASE StoresSummary(c)
  <2>1. at[c] = "stores_summary" /\ told' = told
    BY <1>5 DEF StoresSummary, Waits, boundVars
  <2>2. kept[c] = <<>> /\ turn[c] = 0 /\ batch[c] \in Seq(Turn)
    BY <1>0, <2>1, HoldsNothing DEF OnFacts
  <2>3. CASE batch[c] = <<>>
    BY <1>5, <2>1, <2>3, DoneEffect DEF StoresSummary
  <2>4. CASE batch[c] # <<>> /\ cache = NoCache
    BY <1>0, <1>5, <2>1, <2>2, <2>4, GoesOnEffect DEF StoresSummary
  <2>5. CASE batch[c] # <<>> /\ cache # NoCache
    <3>1. cache \in Seq(Turn) /\ Len(batch[c]) \in Nat
      BY <2>2, <2>5 DEF Typed, CacheTyped
    <3>2. PruneNext(c, "long_term", cache, Len(batch[c]), cache)
      BY <1>5, <2>5 DEF StoresSummary
    <3> QED
      BY <1>0, <2>1, <3>1, <3>2, PruneNextEffect
  <2> QED
    BY <2>3, <2>4, <2>5
<1>6. CASE Lists(c)
  <2>1. at[c] = "lists" /\ told' = told /\ batch[c] \in Seq(Turn)
    BY <1>6, HoldsNothing DEF Lists, Waits, boundVars
  <2>2. records["conversation"] \in Seq(Turn) /\ Len(batch[c]) \in Nat
    BY <2>1, ConversationTyped
  <2> QED
    BY <1>0, <1>6, <2>1, <2>2, PruneNextEffect DEF Lists
<1>7. CASE LooksForTurn(c)
  <2>1. at[c] = "looks_for_turn" /\ told' = told
    BY <1>7 DEF LooksForTurn, Waits, boundVars
  <2>2. kept[c] = <<>> /\ turn[c] = 0 /\ todo[c] \in Seq(Turn) /\ todo[c] # <<>> /\ owed[c] \in Nat \ {0}
    BY <1>0, <2>1, HoldsNothing DEF OnFacts
  <2>3. CASE Holds(records["conversation"], Head(todo[c]))
    <3> DEFINE left == Filtered(records["conversation"], Head(todo[c]))
    <3>1. /\ at' = [at EXCEPT ![c] = "drops_turn"] /\ kept' = [kept EXCEPT ![c] = left]
          /\ UNCHANGED <<cache, turn, batch, todo, owed, hit, toClear>>
      BY <1>7, <2>3 DEF LooksForTurn, To
    <3>2. left \in Seq(Turn)
      BY ConversationTyped, FilteredLeaves
    <3> HIDE DEF left
    <3>3. Alone(c)
      BY <3>1 DEF IInv, LocalsOK, Typed, LocalsTyped, Alone
    <3>4. LocalTyped(c)'
      BY <1>0, <2>1, <3>1, <3>2 DEF IInv, LocalsOK, Typed, LocalsTyped, LocalTyped
    <3>5. /\ at'[c] = "drops_turn" /\ turn'[c] = turn[c] /\ batch'[c] = batch[c]
          /\ kept'[c] = left /\ todo'[c] = todo[c]
      BY <3>1 DEF IInv, LocalsOK, Typed, LocalsTyped
    <3>6. HeldStep(c)
      BY <3>5, MemoryAssumption DEF HeldStep, left
    <3> QED
      BY <2>1, <3>1, <3>3, <3>4, <3>5, <3>6 DEF LocalStep, Effect, CacheStep, ToldStep, LookStep, left
  <2>4. CASE ~Holds(records["conversation"], Head(todo[c]))
    <3>1. PruneNext(c, "conversation", Tail(todo[c]),
                    IF hit[c] THEN owed[c] - 1 ELSE owed[c], cache)
      BY <1>7, <2>4 DEF LooksForTurn
    <3>2. Tail(todo[c]) \in Seq(Turn) /\ (IF hit[c] THEN owed[c] - 1 ELSE owed[c]) \in Nat
      BY <2>2, HeadTailProperties
    <3> QED
      BY <1>0, <2>1, <3>1, <3>2, PruneNextEffect
  <2> QED
    BY <2>3, <2>4
<1>8. CASE DropsTurn(c)
  <2>1. at[c] = "drops_turn" /\ told' = told
    BY <1>8 DEF DropsTurn, Waits, boundVars
  <2>2. todo[c] \in Seq(Turn) /\ todo[c] # <<>> /\ owed[c] \in Nat \ {0}
    BY <2>1, HoldsNothing
  <2>3. PruneNext(c, "conversation", Tail(todo[c]), owed[c] - 1, cache)
    BY <1>8 DEF DropsTurn
  <2>4. Tail(todo[c]) \in Seq(Turn) /\ owed[c] - 1 \in Nat
    BY <2>2, HeadTailProperties
  <2> QED
    BY <1>0, <2>1, <2>3, <2>4, PruneNextEffect
<1> QED
  BY <1>1, <1>2, <1>3, <1>4, <1>5, <1>6, <1>7, <1>8 DEF Consolidating
LEMMA UpdatingFactsEffect ==
  ASSUME IInv, Typed, NEW c \in Clients, UpdatingFacts(c)
  PROVE  Effect(c)
<1>0. /\ {"finds_fact", "looks_for_fact", "drops_fact", "weighs_fact", "stores_fact"} = OnFacts
      /\ OnFacts \intersect Compressing = {}
  BY DEF Compressing, OnSummaries, OnFacts
<1>1. CASE ForgetFact(c)
  <2>1. at[c] = "idle" /\ told' = told /\ cache' = cache
    BY <1>1 DEF ForgetFact
  <2>2. kept[c] = <<>> /\ batch[c] = <<>> /\ turn[c] = 0
    BY <2>1, HoldsNothing DEF Compressing, OnSummaries, OnFacts
  <2> QED
    BY <1>1, <2>1, <2>2, GoesOnEffect DEF ForgetFact
<1>2. CASE FindsFact(c)
  <2>1. at[c] = "finds_fact" /\ told' = told /\ cache' = cache
    BY <1>2 DEF FindsFact, Waits, boundVars
  <2>2. kept[c] = <<>> /\ batch[c] = <<>>
    BY <1>0, <2>1, HoldsNothing
  <2>3. CASE records["project"] = <<>>
    BY <1>0, <1>2, <2>1, <2>3, FactGoneEffect DEF FindsFact
  <2>4. CASE records["project"] # <<>>
    <3> DEFINE last == <<Last(records["project"])>>
    <3>1. /\ at' = [at EXCEPT ![c] = "looks_for_fact"] /\ todo' = [todo EXCEPT ![c] = last]
          /\ UNCHANGED <<turn, batch, owed, hit, kept, toClear>>
      BY <1>2, <2>4 DEF FindsFact, To
    <3>2. Last(records["project"]) \in Turn
      BY <2>4, ConversationTyped, EmptySeq, LenProperties DEF Last
    <3>3. last \in Seq(Turn) /\ last # <<>>
      BY <3>2
    <3> HIDE DEF last
    <3>4. Alone(c)
      BY <3>1 DEF IInv, LocalsOK, Typed, LocalsTyped, Alone
    <3>5. /\ at'[c] = "looks_for_fact" /\ turn'[c] = turn[c] /\ batch'[c] = batch[c]
          /\ kept'[c] = kept[c] /\ todo'[c] = last
      BY <3>1 DEF IInv, LocalsOK, Typed, LocalsTyped
    <3>6. turn'[c] \in Turn \union {0} /\ owed'[c] \in Nat /\ hit'[c] \in BOOLEAN
      BY <3>1 DEF Typed, LocalsTyped
    <3>7. LocalTyped(c)'
      BY <1>0, <2>2, <3>3, <3>5, <3>6, NothingTyped DEF LocalTyped
    <3> QED
      BY <2>1, <3>4, <3>5, <3>7 DEF LocalStep, Effect, CacheStep, HeldStep, ToldStep, LookStep
  <2> QED
    BY <2>3, <2>4
<1>3. CASE LooksForFact(c)
  <2>1. at[c] = "looks_for_fact" /\ told' = told /\ cache' = cache
    BY <1>3 DEF LooksForFact, Waits, boundVars
  <2>2. batch[c] = <<>> /\ todo[c] # <<>>
    BY <1>0, <2>1, HoldsNothing
  <2>3. CASE Holds(records["project"], Head(todo[c]))
    <3> DEFINE left == Filtered(records["project"], Head(todo[c]))
    <3>1. /\ at' = [at EXCEPT ![c] = "drops_fact"] /\ kept' = [kept EXCEPT ![c] = left]
          /\ UNCHANGED <<turn, batch, todo, owed, hit, toClear>>
      BY <1>3, <2>3 DEF LooksForFact, To
    <3>2. left \in Seq(Turn)
      BY ConversationTyped, FilteredLeaves
    <3> HIDE DEF left
    <3>3. Alone(c)
      BY <3>1 DEF IInv, LocalsOK, Typed, LocalsTyped, Alone
    <3>4. /\ at'[c] = "drops_fact" /\ turn'[c] = turn[c] /\ batch'[c] = batch[c]
          /\ kept'[c] = left /\ todo'[c] = todo[c]
      BY <3>1 DEF IInv, LocalsOK, Typed, LocalsTyped
    <3>5. turn'[c] \in Turn \union {0} /\ owed'[c] \in Nat /\ hit'[c] \in BOOLEAN
      BY <3>1 DEF Typed, LocalsTyped
    <3>6. LocalTyped(c)'
      BY <1>0, <2>2, <3>2, <3>4, <3>5, HoldsNothing DEF LocalTyped
    <3>7. HeldStep(c)
      BY <3>4, MemoryAssumption DEF HeldStep, left
    <3> QED
      BY <2>1, <3>3, <3>4, <3>6, <3>7 DEF LocalStep, Effect, CacheStep, ToldStep, LookStep
  <2>4. CASE ~Holds(records["project"], Head(todo[c]))
    BY <1>0, <1>3, <2>1, <2>4, FactGoneEffect DEF LooksForFact
  <2> QED
    BY <2>3, <2>4
<1>4. CASE DropsFact(c)
  BY <1>0, <1>4, FactGoneEffect DEF DropsFact, Waits, boundVars
<1>5. CASE WeighsFact(c)
  <2>1. at[c] = "weighs_fact" /\ told' = told /\ cache' = cache
    BY <1>5 DEF WeighsFact, Waits, boundVars
  <2>2. kept[c] = <<>> /\ batch[c] = <<>> /\ turn[c] # 0
    BY <1>0, <2>1, HoldsNothing
  <2>3. CASE Full("project")
    BY <1>5, <2>1, <2>3, AfterObserveEffect DEF WeighsFact
  <2>4. CASE ~Full("project")
    BY <1>0, <1>5, <2>1, <2>2, <2>4, GoesOnEffect DEF WeighsFact
  <2> QED
    BY <2>3, <2>4
<1>6. CASE StoresFact(c)
  BY <1>6, AfterObserveEffect DEF StoresFact, boundVars
<1> QED
  BY <1>1, <1>2, <1>3, <1>4, <1>5, <1>6 DEF UpdatingFacts

LEMMA ErasingEffect ==
  ASSUME IInv, Typed, NEW c \in Clients, Erasing(c)
  PROVE  Effect(c)
<1>1. ASSUME at[c] \in {"idle", "clears", "unlinks"}
      PROVE  kept[c] = <<>> /\ batch[c] = <<>> /\ turn[c] = 0
  BY <1>1, HoldsNothing DEF Compressing, OnSummaries, OnFacts
<1>2. \A s : CacheAfterPurge(s) \in {cache, NoCache}
  BY DEF CacheAfterPurge
<1>3. CASE Forget(c)
  BY <1>1, <1>2, <1>3, GoesOnEffect DEF Forget
<1>4. CASE Clears(c)
  BY <1>1, <1>4, GoesOnEffect DEF Clears, Waits, boundVars
<1>5. CASE Unlinks(c)
  <2>1. at[c] = "unlinks" /\ told' = told /\ cache' \in {cache, NoCache}
    BY <1>2, <1>5 DEF Unlinks, Waits, boundVars
  <2>2. CASE Tail(toClear[c]) = <<>>
    BY <1>5, <2>1, <2>2, DoneEffect DEF Unlinks
  <2>3. CASE Tail(toClear[c]) # <<>>
    BY <1>1, <1>5, <2>1, <2>3, GoesOnEffect DEF Unlinks
  <2> QED
    BY <2>2, <2>3
<1> QED
  BY <1>3, <1>4, <1>5 DEF Erasing

LEMMA StepEffect ==
  ASSUME IInv, Typed, NEW c \in Clients, Step(c)
  PROVE  Effect(c)
<1>1. CASE Fails(c)
  <2>1. told' = told /\ cache' = cache
    BY <1>1 DEF Fails
  <2> QED
    BY <1>1, <2>1, AfterObserveEffect, DoneEffect DEF Fails
<1> QED
  BY <1>1, ConversingEffect, ConsolidatingEffect, UpdatingFactsEffect, ErasingEffect DEF Step

LEMMA CacheStepTyped ==
  ASSUME Typed, CacheStep, told' \in 0 .. MaxTurns
  PROVE  CacheTyped'
<1>1. CASE cache' \in {cache, NoCache, records["conversation"]}
  BY <1>1, ConversationTyped DEF Typed, CacheTyped
<1>2. ASSUME NEW P \in {Cached, records["conversation"]}, NEW x, cache' = Filtered(P, x)
      PROVE  CacheTyped'
  BY <1>2, ConversationTyped, FilteredLeaves DEF CacheTyped
<1>3. CASE told' = told + 1 /\ cache' = Trimmed(Append(Cached, told + 1))
  <2>1. told + 1 \in Turn
    BY <1>3, MemoryAssumption DEF Turn, Typed
  <2>2. Append(Cached, told + 1) \in Seq(Turn)
    BY <2>1, ConversationTyped, AppendProperties
  <2> QED
    BY <1>3, <2>2, TrimmedLast DEF CacheTyped
<1> QED
  BY <1>1, <1>2, <1>3 DEF CacheStep

LEMMA StepMishaps ==
  ASSUME NEW c \in Clients, Step(c)
  PROVE  mishaps' = mishaps \/ (Fails(c) /\ mishaps' = mishaps + 1)
<1>1. Conversing(c) => mishaps' = mishaps
  BY DEF Conversing, Observe, StoresTurn, Load, Loaded, boundVars
<1>2. Consolidating(c) => mishaps' = mishaps
  BY DEF Consolidating, Remember, Counts, Summarised, WeighsSummary, StoresSummary, Lists,
         LooksForTurn, DropsTurn, boundVars
<1>3. UpdatingFacts(c) => mishaps' = mishaps
  BY DEF UpdatingFacts, ForgetFact, FindsFact, LooksForFact, DropsFact, WeighsFact, StoresFact, boundVars
<1>4. Erasing(c) => mishaps' = mishaps
  BY DEF Erasing, Forget, Clears, Unlinks, boundVars
<1> QED
  BY <1>1, <1>2, <1>3, <1>4 DEF Step, Fails

LEMMA StepTyped ==
  ASSUME IInv, Typed, NEW c \in Clients, Step(c)
  PROVE  Typed'
<1>1. Effect(c)
  BY StepEffect
<1>2. told' \in 0 .. MaxTurns
  BY <1>1, MemoryAssumption DEF Effect, ToldStep, Typed
<1>3. FilesTyped'
  BY StepTouches, FilesStepTyped
<1>4. mishaps' \in Nat
  BY StepMishaps DEF Typed
<1> QED
  BY <1>1, <1>2, <1>3, <1>4, CacheStepTyped, LocalStepKeeps DEF Effect, Typed, IInv

LEMMA CrashTyped ==
  ASSUME IInv, Typed, Crash
  PROVE  Typed'
<1>1. FilesTyped'
  BY CrashTouches, FilesStepTyped
<1>2. /\ at' = [c \in Clients |-> "idle"] /\ turn' = [c \in Clients |-> 0]
      /\ batch' = [c \in Clients |-> <<>>] /\ todo' = [c \in Clients |-> <<>>]
      /\ owed' = [c \in Clients |-> 0] /\ hit' = [c \in Clients |-> FALSE]
      /\ kept' = [c \in Clients |-> <<>>]
      /\ cache' = NoCache /\ told' = told
  BY DEF Crash
<1>3. LocalsTyped'
  BY <1>2, NothingTyped DEF LocalsTyped, LocalTyped
<1>4. mishaps' \in Nat
  BY DEF Crash, Typed
<1> QED
  BY <1>1, <1>2, <1>3, <1>4 DEF Typed, CacheTyped

LEMMA InitTyped == ASSUME Init PROVE Typed
<1>1. /\ records = [f \in Files |-> <<>>] /\ tail = [f \in Files |-> "clean"]
      /\ at = [c \in Clients |-> "idle"] /\ turn = [c \in Clients |-> 0]
      /\ batch = [c \in Clients |-> <<>>] /\ todo = [c \in Clients |-> <<>>]
      /\ owed = [c \in Clients |-> 0] /\ hit = [c \in Clients |-> FALSE]
      /\ kept = [c \in Clients |-> <<>>]
      /\ cache = NoCache /\ told = 0 /\ mishaps = 0
  BY DEF Init, FilesInit
<1>2. FilesTyped
  BY <1>1, NothingTyped DEF FilesTyped, LastLine
<1>3. LocalsTyped
  BY <1>1, NothingTyped DEF LocalsTyped, LocalTyped
<1> QED
  BY <1>1, <1>2, <1>3, MemoryAssumption DEF Typed, CacheTyped

LEMMA TypedAlways == Spec => []Typed
<1>1. Init => Typed
  BY InitTyped
<1>2. IInv /\ Typed /\ [Next]_vars => Typed'
  <2> SUFFICES ASSUME IInv, Typed, [Next]_vars PROVE Typed'
    OBVIOUS
  <2>1. ASSUME NEW c \in Clients, Step(c) PROVE Typed'
    BY <2>1, StepTyped
  <2>2. CASE Crash
    BY <2>2, CrashTyped
  <2>3. CASE UNCHANGED vars
    BY <2>3 DEF vars, fileVars, localVars, boundVars, Typed, FilesTyped, LocalsTyped, LocalTyped,
                CacheTyped
  <2> QED
    BY <2>1, <2>2, <2>3 DEF Next
<1> QED
  BY <1>1, <1>2, Invariant, PTL DEF Spec

-----------------------------------------------------------------------------
(* What becomes of each file *)

LEMMA AppendingThere ==
  ASSUME NEW c, Appends(c)
  PROVE  /\ FileOf(c) = "conversation" <=> at[c] = "stores_turn"
         /\ FileOf(c) = "long_term" <=> at[c] = "stores_summary"
         /\ FileOf(c) = "project" <=> at[c] = "stores_fact"
         /\ at[c] # "stores_summary" => InFlight(c) = turn[c]
         /\ at[c] = "stores_summary" => InFlight(c) = ToSet(batch[c])
BY WhereItIs DEF Appends, InFlight, OnFile, OnSummaries, OnFacts

LEMMA ConversationStep ==
  ASSUME IInv, NEW C, C \subseteq Clients, FilesStep(C)
  PROVE  \/ records'["conversation"] = records["conversation"] /\ tail'["conversation"] = tail["conversation"]
         \/ \E c \in C, cut \in Cuts :
              /\ at[c] = "stores_turn"
              /\ records'["conversation"] = AfterCut("conversation", turn[c], cut)
              /\ tail'["conversation"] = TailAfterCut("conversation", cut)
         \/ \E c \in C : /\ at[c] = "drops_turn" /\ tail'["conversation"] = "clean"
                         /\ records'["conversation"] = kept[c]
         \/ \E c \in C : /\ at[c] = "unlinks" /\ tail'["conversation"] = "clean"
                         /\ records'["conversation"] = <<>>
<1>0. "conversation" \in Files
  BY MemoryAssumption
<1>1. ASSUME NEW c \in C, FileOf(c) = "conversation", Touches("conversation", c),
             ~Appends(c)
      PROVE  /\ at[c] \in {"drops_turn", "unlinks"} /\ tail'["conversation"] = "clean"
             /\ records'["conversation"] = kept[c]
             /\ at[c] = "unlinks" => kept[c] = <<>>
  BY <1>1, WhereItIs DEF Touches, Renames, OnFacts, IInv, LocalsOK, Forgetting
<1>2. ASSUME NEW c \in C, FileOf(c) = "conversation", Appends(c), Touches("conversation", c)
      PROVE  /\ at[c] = "stores_turn"
             /\ \E cut \in Cuts :
                  /\ records'["conversation"] = AfterCut("conversation", turn[c], cut)
                  /\ tail'["conversation"] = TailAfterCut("conversation", cut)
  BY <1>2, AppendingThere DEF Touches, Renames, Appends
<1> QED
  BY <1>0, <1>1, <1>2 DEF FilesStep

LEMMA LongTermStep ==
  ASSUME IInv, NEW C, C \subseteq Clients, FilesStep(C)
  PROVE  \/ records'["long_term"] = records["long_term"] /\ tail'["long_term"] = tail["long_term"]
         \/ \E c \in C, cut \in Cuts :
              /\ at[c] = "stores_summary"
              /\ records'["long_term"] = AfterCut("long_term", ToSet(batch[c]), cut)
              /\ tail'["long_term"] = TailAfterCut("long_term", cut)
         \/ \E c \in C : /\ at[c] = "unlinks" /\ tail'["long_term"] = "clean"
                         /\ records'["long_term"] = <<>>
<1>0. "long_term" \in Files
  BY MemoryAssumption
<1>1. ASSUME NEW c \in C, FileOf(c) = "long_term", Touches("long_term", c), ~Appends(c)
      PROVE  /\ at[c] = "unlinks" /\ tail'["long_term"] = "clean"
             /\ records'["long_term"] = <<>>
  BY <1>1, WhereItIs DEF Touches, Renames, OnFile, OnFacts, IInv, LocalsOK, Forgetting
<1>2. ASSUME NEW c \in C, FileOf(c) = "long_term", Appends(c), Touches("long_term", c)
      PROVE  /\ at[c] = "stores_summary"
             /\ \E cut \in Cuts :
                  /\ records'["long_term"] = AfterCut("long_term", ToSet(batch[c]), cut)
                  /\ tail'["long_term"] = TailAfterCut("long_term", cut)
  BY <1>2, AppendingThere DEF Touches, Renames, Appends
<1> QED
  BY <1>0, <1>1, <1>2 DEF FilesStep

LEMMA ProjectStep ==
  ASSUME IInv, NEW C, C \subseteq Clients, FilesStep(C)
  PROVE  \/ records'["project"] = records["project"] /\ tail'["project"] = tail["project"]
         \/ \E c \in C, cut \in Cuts :
              /\ at[c] = "stores_fact"
              /\ records'["project"] = AfterCut("project", turn[c], cut)
              /\ tail'["project"] = TailAfterCut("project", cut)
         \/ \E c \in C : /\ at[c] \in {"drops_fact", "unlinks"} /\ tail'["project"] = "clean"
                         /\ FileOf(c) = "project" /\ records'["project"] = kept[c]
<1>0. "project" \in Files
  BY MemoryAssumption
<1>1. ASSUME NEW c \in C, FileOf(c) = "project", Touches("project", c), ~Appends(c)
      PROVE  /\ at[c] \in {"drops_fact", "unlinks"} /\ tail'["project"] = "clean"
             /\ records'["project"] = kept[c]
  BY <1>1, WhereItIs DEF Touches, Renames, OnFile
<1>2. ASSUME NEW c \in C, FileOf(c) = "project", Appends(c), Touches("project", c)
      PROVE  /\ at[c] = "stores_fact"
             /\ \E cut \in Cuts : /\ records'["project"] = AfterCut("project", turn[c], cut)
                                  /\ tail'["project"] = TailAfterCut("project", cut)
  BY <1>2, AppendingThere DEF Touches, Renames, Appends
<1> QED
  BY <1>0, <1>1, <1>2 DEF FilesStep

\* The i-th record of a file has its newline, and will stay.
Firm(f, i) == i \in 1 .. Len(records[f]) /\ (tail[f] = "whole" => i < Len(records[f]))

\* A line cut off adds at most the record it was of, and takes away none that has
\* its newline.
LEMMA CutLeaves ==
  ASSUME NEW S, NEW f, records[f] \in Seq(S), NEW r \in S, NEW cut \in Cuts
  PROVE  /\ \A x : Holds(AfterCut(f, r, cut), x) => Holds(records[f], x) \/ x = r
         /\ Once(records[f]) /\ ~Holds(records[f], r) => Once(AfterCut(f, r, cut))
         /\ \A i : Firm(f, i) =>
              /\ i \in 1 .. Len(AfterCut(f, r, cut)) /\ AfterCut(f, r, cut)[i] = records[f][i]
              /\ TailAfterCut(f, cut) = "whole" => i < Len(AfterCut(f, r, cut))
<1>0. Len(records[f]) \in Nat /\ DOMAIN records[f] = 1 .. Len(records[f])
  OBVIOUS
<1>1. CASE cut # "nothing" /\ cut # "part" /\ tail[f] = "clean"
  <2>1. AfterCut(f, r, cut) = Append(records[f], r)
    BY <1>1 DEF AfterCut
  <2>2. /\ Len(Append(records[f], r)) = Len(records[f]) + 1
        /\ \A i \in 1 .. Len(records[f]) : Append(records[f], r)[i] = records[f][i]
    BY AppendProperties
  <2>3. ASSUME NEW i, Firm(f, i)
        PROVE  /\ i \in 1 .. Len(records[f]) + 1 /\ i < Len(records[f]) + 1
               /\ Append(records[f], r)[i] = records[f][i]
    BY <1>0, <2>2, <2>3 DEF Firm
  <2> QED
    BY <2>1, <2>2, <2>3, AppendHolds
<1>2. CASE cut = "nothing"
  <2>1. AfterCut(f, r, cut) = records[f] /\ TailAfterCut(f, cut) = tail[f]
    BY <1>2 DEF AfterCut, TailAfterCut
  <2> QED
    BY <2>1 DEF Firm
<1>3. CASE cut # "nothing" /\ (cut = "part" \/ tail[f] # "clean")
  <2>1. AfterCut(f, r, cut) = Ended(f) /\ TailAfterCut(f, cut) # "whole"
    BY <1>3 DEF AfterCut, TailAfterCut, Cuts
  <2>2. CASE tail[f] = "whole"
    <3> DEFINE s == SubSeq(records[f], 1, Len(records[f]) - 1)
    <3>1. Ended(f) = s
      BY <2>2 DEF Ended
    <3>2. /\ s \in Seq(S) /\ Len(s) = IF 1 <= Len(records[f]) - 1 THEN Len(records[f]) - 1 - 1 + 1 ELSE 0
          /\ \A i \in 1 .. Len(records[f]) - 1 - 1 + 1 : s[i] = records[f][1 + i - 1]
      <4>1. \A i \in 1 .. Len(records[f]) - 1 : records[f][i] \in S
        BY <1>0
      <4>2. Len(records[f]) - 1 \in Int
        BY <1>0
      <4> QED
        BY <4>1, <4>2, SubSeqProperties
    <3> HIDE DEF s
    <3>3. /\ DOMAIN s = 1 .. Len(s) /\ Len(s) \in Nat
          /\ \A i \in 1 .. Len(s) : i \in 1 .. Len(records[f]) /\ s[i] = records[f][i]
      BY <1>0, <3>2
    <3>4. \A i : Firm(f, i) => i \in 1 .. Len(s)
      BY <1>0, <2>2, <3>2 DEF Firm
    <3>5. \A x : Holds(s, x) => Holds(records[f], x)
      BY <1>0, <3>3 DEF Holds
    <3>6. Once(records[f]) => Once(s)
      BY <3>3 DEF Once
    <3> QED
      BY <2>1, <3>1, <3>3, <3>4, <3>5, <3>6
  <2>3. CASE tail[f] # "whole"
    <3>1. AfterCut(f, r, cut) = records[f]
      BY <2>1, <2>3 DEF Ended
    <3> QED
      BY <2>1, <3>1 DEF Firm
  <2> QED
    BY <2>2, <2>3
<1> QED
  BY <1>1, <1>2, <1>3

-----------------------------------------------------------------------------
(* Turns are stored once *)

\* t is still to be stored.
Ahead(t) == \E c \in Clients : at[c] = "stores_turn" /\ turn[c] = t

\* A sequence of turns that were observed, none of them still to be stored.
Stored(s) == Once(s) /\ \A t \in Turn : Holds(s, t) => t <= told /\ ~Ahead(t)

Numbered ==
  /\ \A t \in acked : t \in Turn /\ t <= told /\ ~Ahead(t)
  /\ \A t \in Turn : Ahead(t) => t <= told
  /\ \A c, d \in Clients : at[c] = "stores_turn" /\ at[d] = "stores_turn" /\ turn[c] = turn[d] => c = d
  /\ Stored(records["conversation"])
  /\ \A c \in Clients : at[c] = "drops_turn" => Stored(kept[c])
  /\ Once(Cached) /\ \A t \in Turn : Holds(Cached, t) => t <= told

\* A turn is ahead after a step if it was before, and was not stored, or is new.
NoneAhead(C) ==
  /\ told' \in {told, told + 1}
  /\ \A t \in Turn : Ahead(t)' => \/ t = told + 1
                                  \/ Ahead(t) /\ \A c \in C : at[c] = "stores_turn" => turn[c] # t

LEMMA TurnsAreNumbers == Turn \subseteq Nat \ {0} /\ \A n \in 0 .. MaxTurns : n \in Nat
BY MemoryAssumption DEF Turn

LEMMA StoredStays ==
  ASSUME Typed, NEW C, NoneAhead(C), NEW s, Stored(s)
  PROVE  Once(s) /\ \A t \in Turn : Holds(s, t) => t <= told' /\ ~Ahead(t)'
<1>1. told \in Nat
  BY TurnsAreNumbers DEF Typed
<1> QED
  BY <1>1, TurnsAreNumbers DEF Stored, NoneAhead

LEMMA EmptyHoldsNothing == Once(<<>>) /\ \A t : ~Holds(<<>>, t)
BY DEF Once, Holds

LEMMA StoredConversation ==
  ASSUME IInv, Typed, Numbered, NEW C, C \subseteq Clients, FilesStep(C), NoneAhead(C)
  PROVE  Stored(records["conversation"])'
<1> DEFINE conv == records["conversation"]
<1>0. conv \in Seq(Turn) /\ told \in Nat
  BY ConversationTyped, TurnsAreNumbers DEF Typed
<1>1. CASE conv' = conv
  BY <1>1, StoredStays DEF Numbered, Stored
<1>2. ASSUME NEW c \in C, NEW cut \in Cuts, NEW t, at[c] = "stores_turn", t = turn[c],
             conv' = AfterCut("conversation", t, cut)
      PROVE  Stored(conv)'
  <2>1. t \in Turn /\ Ahead(t)
    BY <1>2 DEF Typed, LocalsTyped, LocalTyped, Ahead
  <2>2. t <= told /\ t \in Nat /\ ~Holds(conv, t)
    BY <2>1, TurnsAreNumbers DEF Numbered, Stored
  <2>3. /\ \A x : Holds(conv', x) => Holds(conv, x) \/ x = t
        /\ Once(conv')
    BY <1>0, <1>2, <2>1, <2>2, CutLeaves DEF Numbered, Stored
  <2>4. t <= told' /\ ~Ahead(t)'
    BY <1>0, <1>2, <2>1, <2>2 DEF NoneAhead
  <2>5. \A u \in Turn : Holds(conv, u) => u <= told' /\ ~Ahead(u)'
    BY StoredStays DEF Numbered
  <2> QED
    BY <2>3, <2>4, <2>5 DEF Stored
<1>3. ASSUME NEW c \in C, at[c] = "drops_turn", conv' = kept[c]
      PROVE  Stored(conv)'
  BY <1>3, StoredStays DEF Numbered, Stored
<1>4. CASE conv' = <<>>
  BY <1>4, EmptyHoldsNothing DEF Stored
<1> QED
  BY <1>1, <1>2, <1>3, <1>4, ConversationStep
\* What a step of c leaves of the others.
LEMMA OthersStay ==
  ASSUME IInv, Typed, NEW c \in Clients, Effect(c)
  PROVE  \A d \in Clients \ {c} :
           /\ at'[d] = at[d] /\ turn'[d] = turn[d] /\ batch'[d] = batch[d] /\ todo'[d] = todo[d]
           /\ owed'[d] = owed[d] /\ hit'[d] = hit[d] /\ kept'[d] = kept[d]
           /\ toClear'[d] = toClear[d]
<1>1. Alone(c)
  BY DEF Effect, LocalStep
<1> QED
  BY <1>1 DEF IInv, LocalsOK, Typed, LocalsTyped, Alone

LEMMA StepAhead ==
  ASSUME IInv, Typed, Numbered, NEW c \in Clients, Effect(c)
  PROVE  /\ NoneAhead({c})
         /\ \A t \in Turn : Ahead(t)' => t <= told'
         /\ \A d, e \in Clients :
              at'[d] = "stores_turn" /\ at'[e] = "stores_turn" /\ turn'[d] = turn'[e] => d = e
<1>0. told \in Nat
  BY TurnsAreNumbers DEF Typed
<1>1. \A d \in Clients \ {c} : at'[d] = at[d] /\ turn'[d] = turn[d]
  BY OthersStay
<1>2. CASE told' = told /\ at'[c] # "stores_turn"
  <2>1. ASSUME NEW t \in Turn, Ahead(t)'
        PROVE  Ahead(t) /\ (at[c] = "stores_turn" => turn[c] # t)
    <3>1. PICK d \in Clients : at'[d] = "stores_turn" /\ turn'[d] = t
      BY <2>1 DEF Ahead
    <3>2. d # c /\ at[d] = "stores_turn" /\ turn[d] = t
      BY <1>1, <1>2, <3>1
    <3>3. Ahead(t)
      BY <3>2 DEF Ahead
    <3>4. at[c] = "stores_turn" => turn[c] # t
      BY <3>2 DEF Numbered
    <3> QED
      BY <3>3, <3>4
  <2>2. NoneAhead({c})
    BY <1>2, <2>1 DEF NoneAhead
  <2>3. \A t \in Turn : Ahead(t)' => t <= told'
    BY <1>2, <2>1 DEF Numbered
  <2>4. ASSUME NEW d \in Clients, NEW e \in Clients, at'[d] = "stores_turn", at'[e] = "stores_turn",
               turn'[d] = turn'[e]
        PROVE  d = e
    <3>1. /\ at[d] = "stores_turn" /\ at[e] = "stores_turn" /\ turn[d] = turn[e]
      BY <1>1, <1>2, <2>4
    <3> QED
      BY <3>1 DEF Numbered
  <2> QED
    BY <2>2, <2>3, <2>4
<1>3. CASE told' = told + 1 /\ at[c] = "idle" /\ at'[c] = "stores_turn" /\ turn'[c] = told + 1
  <2>1. ASSUME NEW t \in Turn, Ahead(t)'
        PROVE  t = told + 1 \/ Ahead(t)
    <3>1. PICK d \in Clients : at'[d] = "stores_turn" /\ turn'[d] = t
      BY <2>1 DEF Ahead
    <3>2. CASE d = c
      BY <1>3, <3>1, <3>2
    <3>3. CASE d # c
      BY <1>1, <3>1, <3>3 DEF Ahead
    <3> QED
      BY <3>2, <3>3
  <2>2. NoneAhead({c})
    BY <1>3, <2>1 DEF NoneAhead
  <2>3. \A t \in Turn : Ahead(t)' => t <= told'
    BY <1>0, <1>3, <2>1, TurnsAreNumbers DEF Numbered
  <2>4. \A d \in Clients \ {c} : at'[d] = "stores_turn" => turn'[d] # told + 1
    <3> TAKE d \in Clients \ {c}
    <3> SUFFICES ASSUME at'[d] = "stores_turn" PROVE turn'[d] # told + 1
      OBVIOUS
    <3>1. at[d] = "stores_turn" /\ turn'[d] = turn[d] /\ turn[d] \in Turn
      BY <1>1 DEF Typed, LocalsTyped, LocalTyped
    <3>2. turn[d] <= told /\ turn[d] \in Nat
      BY <3>1, TurnsAreNumbers DEF Numbered, Ahead
    <3> QED
      BY <1>0, <3>1, <3>2
  <2>5. ASSUME NEW d \in Clients, NEW e \in Clients, at'[d] = "stores_turn", at'[e] = "stores_turn",
               turn'[d] = turn'[e]
        PROVE  d = e
    <3>1. CASE d # c /\ e # c
      BY <1>1, <2>5, <3>1 DEF Numbered
    <3>2. CASE d = c \/ e = c
      BY <1>3, <2>4, <2>5, <3>2
    <3> QED
      BY <3>1, <3>2
  <2> QED
    BY <2>2, <2>3, <2>5
<1> QED
  BY <1>2, <1>3 DEF Effect, ToldStep

\* Cached turns are different turns that were observed.
CachedOnce == Once(Cached) /\ \A t \in Turn : Holds(Cached, t) => t <= told

LEMMA CacheStepOnce ==
  ASSUME IInv, Typed, Numbered, CacheStep, told' \in {told, told + 1}, told' \in 0 .. MaxTurns
  PROVE  CachedOnce'
<1>0. /\ told \in Nat /\ told <= told' /\ Turn \subseteq Nat
      /\ records["conversation"] \in Seq(Turn) /\ Cached \in Seq(Turn)
  BY ConversationTyped, TurnsAreNumbers DEF Typed
<1>1. \A P \in {Cached, records["conversation"]} :
        /\ P \in Seq(Turn) /\ Once(P)
        /\ \A t \in Turn : Holds(P, t) => t <= told /\ t <= told'
  BY <1>0 DEF Numbered, Stored
<1>2. CASE cache' = cache
  BY <1>1, <1>2 DEF Cached, CachedOnce
<1>3. CASE cache' = NoCache
  BY <1>3, EmptyHoldsNothing DEF Cached, CachedOnce
<1>4. ASSUME cache' \in Seq(Turn) PROVE Cached' = cache'
  BY <1>4, MemoryAssumption DEF Cached
<1>5. CASE cache' = records["conversation"]
  BY <1>0, <1>1, <1>4, <1>5 DEF CachedOnce
<1>6. ASSUME NEW P \in {Cached, records["conversation"]}, NEW x, cache' = Filtered(P, x)
      PROVE  CachedOnce'
  <2>1. /\ cache' \in Seq(Turn) /\ Once(cache')
        /\ \A t : Holds(cache', t) => Holds(P, t)
    BY <1>1, <1>6, FilteredLeaves
  <2> QED
    BY <1>1, <1>4, <2>1 DEF CachedOnce
<1>7. CASE told' = told + 1 /\ cache' = Trimmed(Append(Cached, told + 1))
  <2> DEFINE s == Append(Cached, told + 1)
  <2>1. told + 1 \in Turn
    BY <1>7, MemoryAssumption DEF Turn, Typed
  <2>2. ~Holds(Cached, told + 1)
    BY <1>0, <1>1, <2>1
  <2>3. /\ s \in Seq(Turn) /\ Once(s)
        /\ \A t : Holds(s, t) => Holds(Cached, t) \/ t = told + 1
    BY <1>1, <2>1, <2>2, AppendHolds
  <2>8. cache' = Trimmed(s)
    BY <1>7
  <2> HIDE DEF s
  <2>4. /\ cache' \in Seq(Turn) /\ Len(s) \in Nat /\ Len(cache') \in Nat
        /\ \A i \in 1 .. Len(cache') :
             /\ Len(s) - Len(cache') + i \in 1 .. Len(s)
             /\ cache'[i] = s[Len(s) - Len(cache') + i]
    <3>1. /\ Trimmed(s) \in Seq(Turn)
          /\ \A i \in 1 .. Len(Trimmed(s)) :
               /\ Len(s) - Len(Trimmed(s)) + i \in 1 .. Len(s)
               /\ Trimmed(s)[i] = s[Len(s) - Len(Trimmed(s)) + i]
      BY <2>3, TrimmedLast
    <3>2. Len(s) \in Nat /\ Len(Trimmed(s)) \in Nat
      BY <2>3, <3>1
    <3> QED
      BY <2>8, <3>1, <3>2
  <2>5. Once(cache')
    <3> SUFFICES ASSUME NEW i \in 1 .. Len(cache'), NEW j \in 1 .. Len(cache'), cache'[i] = cache'[j]
                 PROVE  i = j
      BY DEF Once
    <3> DEFINE k == Len(s) - Len(cache') + i
               l == Len(s) - Len(cache') + j
    <3>2. k \in 1 .. Len(s) /\ l \in 1 .. Len(s) /\ s[k] = s[l]
      BY <2>4
    <3>1. k = l
      <4> HIDE DEF k, l
      <4> QED
        BY <2>3, <3>2 DEF Once
    <3> QED
      BY <2>4, <3>1
  <2>6. \A t : Holds(cache', t) => Holds(s, t)
    <3>1. DOMAIN cache' = 1 .. Len(cache') /\ DOMAIN s = 1 .. Len(s)
      BY <2>3, <2>4
    <3> QED
      BY <2>4, <3>1 DEF Holds
  <2>7. \A t \in Turn : Holds(cache', t) => t <= told'
    BY <1>0, <1>1, <1>7, <2>3, <2>6
  <2> QED
    BY <1>4, <2>4, <2>5, <2>7 DEF CachedOnce
<1> QED
  BY <1>2, <1>3, <1>5, <1>6, <1>7 DEF CacheStep

LEMMA StepNumbered ==
  ASSUME IInv, Typed, Numbered, NEW c \in Clients, Step(c), Learns(c)
  PROVE  Numbered'
<1>1. Effect(c) /\ FilesStep({c})
  BY StepEffect, StepTouches
<1>2. /\ NoneAhead({c})
      /\ \A t \in Turn : Ahead(t)' => t <= told'
      /\ \A d, e \in Clients :
           at'[d] = "stores_turn" /\ at'[e] = "stores_turn" /\ turn'[d] = turn'[e] => d = e
  BY <1>1, StepAhead
<1>3. told \in Nat /\ told' \in {told, told + 1} /\ Turn \subseteq Nat /\ told' \in 0 .. MaxTurns
  BY <1>2, TurnsAreNumbers, StepTyped DEF NoneAhead, Typed
<1>4. Stored(records["conversation"])'
  BY <1>1, <1>2, StoredConversation
<1>5. ASSUME NEW d \in Clients, at'[d] = "drops_turn" PROVE Stored(kept[d])'
  <2>1. CASE d # c
    <3>1. at[d] = "drops_turn" /\ kept'[d] = kept[d]
      BY <1>1, <1>5, <2>1, OthersStay
    <3> QED
      BY <1>2, <3>1, StoredStays DEF Numbered, Stored
  <2>2. CASE d = c
    <3>1. kept'[d] = Filtered(records["conversation"], Head(todo[c]))
      BY <1>1, <1>5, <2>2 DEF Effect, LookStep
    <3>2. Once(kept'[d]) /\ \A t : Holds(kept'[d], t) => Holds(records["conversation"], t)
      BY <3>1, ConversationTyped, FilteredLeaves DEF Numbered, Stored
    <3>3. \A t \in Turn : Holds(records["conversation"], t) => t <= told' /\ ~Ahead(t)'
      BY <1>2, StoredStays DEF Numbered
    <3> QED
      BY <3>2, <3>3 DEF Stored
  <2> QED
    BY <2>1, <2>2
<1>6. ASSUME NEW t \in acked' PROVE t \in Turn /\ t <= told' /\ ~Ahead(t)'
  <2>1. CASE t \in acked
    <3>1. t \in Turn /\ t <= told /\ ~Ahead(t)
      BY <2>1 DEF Numbered
    <3>2. t \in Nat /\ t # told + 1 /\ t <= told'
      BY <1>3, <3>1
    <3> QED
      BY <1>2, <3>1, <3>2 DEF NoneAhead
  <2>2. CASE t \notin acked
    <3>1. at[c] = "stores_turn" /\ t = turn[c]
      BY <1>6, <2>2 DEF Learns, Arrives
    <3>2. t \in Turn /\ Ahead(t)
      BY <3>1 DEF Typed, LocalsTyped, LocalTyped, Ahead
    <3> QED
      BY <1>2, <1>3, <3>1, <3>2 DEF Numbered, NoneAhead
  <2> QED
    BY <2>1, <2>2
<1>7. CachedOnce'
  BY <1>1, <1>3, CacheStepOnce DEF Effect
<1> QED
  BY <1>2, <1>4, <1>5, <1>6, <1>7 DEF Numbered, CachedOnce

LEMMA CrashNumbered ==
  ASSUME IInv, Typed, Numbered, Crash, LearnsOfCrash
  PROVE  Numbered'
<1>1. /\ \A c \in Clients : at'[c] = "idle"
      /\ cache' = NoCache /\ told' = told /\ acked' = acked
  BY DEF Crash, LearnsOfCrash
<1>2. \A t : ~Ahead(t)'
  BY <1>1 DEF Ahead
<1>3. NoneAhead(Clients)
  BY <1>1, <1>2 DEF NoneAhead
<1>4. Stored(records["conversation"])'
  BY <1>3, CrashTouches, StoredConversation
<1>5. CachedOnce'
  BY <1>1, EmptyHoldsNothing DEF Cached, CachedOnce
<1> QED
  BY <1>1, <1>2, <1>4, <1>5 DEF Numbered, CachedOnce

LEMMA InitNumbered == ASSUME Init PROVE Numbered
<1>1. /\ records["conversation"] = <<>> /\ cache = NoCache /\ acked = {}
      /\ \A c \in Clients : at[c] = "idle"
  BY MemoryAssumption DEF Init, FilesInit
<1> QED
  BY <1>1, EmptyHoldsNothing DEF Numbered, Ahead, Stored, Cached

LEMMA NumberedAlways == Spec => []Numbered
<1>1. Init => Numbered
  BY InitNumbered
<1>2. IInv /\ Typed /\ Numbered /\ [Next]_vars => Numbered'
  <2> SUFFICES ASSUME IInv, Typed, Numbered, [Next]_vars PROVE Numbered'
    OBVIOUS
  <2>1. ASSUME NEW c \in Clients, Step(c), Learns(c) PROVE Numbered'
    BY <2>1, StepNumbered
  <2>2. CASE Crash /\ LearnsOfCrash
    BY <2>2, CrashNumbered
  <2>3. CASE UNCHANGED vars
    BY <2>3 DEF vars, fileVars, localVars, boundVars, historyVars, Numbered, Ahead, Stored, Cached
  <2> QED
    BY <2>1, <2>2, <2>3 DEF Next
<1> QED
  BY <1>1, <1>2, Invariant, TypedAlways, PTL DEF Spec

\* MemoryTypeOK for any clients, turns and limits: every repository holds records of
\* its kind, the cache holds no more turns than were observed, only a deletion that
\* has read its file holds what it will write back, and whoever awaits a repository
\* waits in its queue.
THEOREM TypeCorrect == Spec => []MemoryTypeOK
<1>1. IInv /\ Typed /\ Numbered => MemoryTypeOK
  <2> SUFFICES ASSUME IInv, Typed, Numbered PROVE MemoryTypeOK
    OBVIOUS
  <2>1. FilesTypeOK
    BY DEF IInv, QueuesOK, RoomKept, Typed, FilesTyped, FilesTypeOK
  <2>2. ASSUME cache # NoCache PROVE Len(cache) <= MaxTurns
    <3>1. cache \in Seq(1 .. MaxTurns) /\ Once(cache)
      BY <2>2 DEF Typed, CacheTyped, Turn, Numbered, Cached
    <3> QED
      BY <3>1, OnceIsShort, MemoryAssumption
  <2>3. ASSUME NEW c \in Clients, FileOf(c) # Nowhere
        PROVE  \E i \in DOMAIN queue[FileOf(c)] : queue[FileOf(c)][i] = c
    <3>1. FileOf(c) \in Files
      <4>1. CASE at[c] \in Forgetting
        <5>1. toClear[c] \in Seq(Files) /\ toClear[c] # <<>>
          BY <4>1 DEF IInv, LocalsOK
        <5>2. FileOf(c) = Head(toClear[c])
          BY <4>1 DEF FileOf, OnFile, OnSummaries, OnFacts, Forgetting
        <5> QED
          BY <5>1, <5>2
      <4>2. CASE at[c] \notin Forgetting
        BY <2>3, <4>2, MemoryAssumption DEF FileOf
      <4> QED
        BY <4>1, <4>2
    <3>2. queue[FileOf(c)] \in Seq(Clients)
      BY <3>1 DEF IInv, QueuesOK
    <3>3. \E i \in 1 .. Len(queue[FileOf(c)]) : queue[FileOf(c)][i] = c
      BY <3>1 DEF IInv, QueuesOK
    <3> QED
      BY <3>2, <3>3
  <2> QED
    BY <2>1, <2>2, <2>3, ConversationTyped
       DEF IInv, LocalsOK, Typed, LocalsTyped, LocalTyped, CacheTyped, MemoryTypeOK
<1> QED
  BY <1>1, Invariant, TypedAlways, NumberedAlways, PTL

-----------------------------------------------------------------------------
(* Where a step leads *)

LEMMA ConversingLeads ==
  ASSUME IInv, Typed, NEW c \in Clients, Conversing(c)
  PROVE  at'[c] \in {"stores_turn", "loads", "idle", "finds_fact", "summarises", "counts"}
<1>1. at \in [Clients -> Position]
  BY DEF IInv, LocalsOK
<1>2. CASE Observe(c)
  BY <1>1, <1>2 DEF Observe, To
<1>3. CASE StoresTurn(c)
  BY <1>1, <1>3, AfterObserveLocal DEF StoresTurn, To, IInv, Typed
<1>4. CASE Load(c)
  BY <1>1, <1>4 DEF Load, To
<1>5. CASE Loaded(c)
  BY <1>5, DoneLocal DEF Loaded, IInv, Typed
<1> QED
  BY <1>2, <1>3, <1>4, <1>5 DEF Conversing

LEMMA ConsolidatingLeads ==
  ASSUME IInv, Typed, NEW c \in Clients, Consolidating(c)
  PROVE  /\ at'[c] \in {"idle", "summarises", "lists", "looks_for_turn", "drops_turn",
                        "weighs_summary", "stores_summary"}
         /\ at'[c] = "summarises" => Counts(c)
         /\ at'[c] = "weighs_summary" => Remember(c) \/ Summarised(c)
         /\ at'[c] = "stores_summary" => WeighsSummary(c)
         /\ at'[c] = "lists" => StoresSummary(c)
         /\ at'[c] = "looks_for_turn" =>
              StoresSummary(c) \/ Lists(c) \/ LooksForTurn(c) \/ DropsTurn(c)
<1>0. /\ at \in [Clients -> Position] /\ LocalsOK /\ LocalsTyped
      /\ {"summarises", "weighs_summary", "stores_summary", "lists", "looks_for_turn", "drops_turn"}
           \subseteq Compressing
  BY DEF IInv, LocalsOK, Typed, Compressing, OnSummaries
<1>1. CASE Remember(c)
  BY <1>0, <1>1 DEF Remember, To
<1>2. CASE Counts(c)
  BY <1>0, <1>2, ConversationTyped, CompressOrEndLocal DEF Counts
<1>3. CASE Summarised(c)
  BY <1>0, <1>3, DoneLocal DEF Summarised, To
<1>4. CASE WeighsSummary(c)
  BY <1>0, <1>4, DoneLocal DEF WeighsSummary, To
<1>5. CASE StoresSummary(c)
  <2>1. CASE batch[c] = <<>>
    BY <1>0, <1>5, <2>1, DoneLocal DEF StoresSummary
  <2>2. CASE batch[c] # <<>> /\ cache = NoCache
    BY <1>0, <1>5, <2>2 DEF StoresSummary, To
  <2>3. CASE batch[c] # <<>> /\ cache # NoCache
    <3>1. cache \in Seq(Turn) /\ Len(batch[c]) \in Nat /\ at[c] \in Compressing
      BY <1>0, <1>5, <2>3, HoldsNothing DEF Typed, CacheTyped, StoresSummary, Waits
    <3>2. PruneNext(c, "long_term", cache, Len(batch[c]), cache)
      BY <1>5, <2>3 DEF StoresSummary
    <3> QED
      BY <1>0, <1>5, <3>1, <3>2, PruneNextLocal
  <2> QED
    BY <2>1, <2>2, <2>3
<1>6. CASE Lists(c)
  <2>1. Len(batch[c]) \in Nat /\ at[c] \in Compressing /\ records["conversation"] \in Seq(Turn)
    BY <1>0, <1>6, HoldsNothing, ConversationTyped DEF Lists, Waits
  <2>2. at'[c] \in {"idle", "looks_for_turn"}
    BY <1>0, <1>6, <2>1, PruneNextLocal DEF Lists
  <2> QED
    BY <1>6, <2>2
<1>7. CASE LooksForTurn(c)
  <2>1. CASE Holds(records["conversation"], Head(todo[c]))
    BY <1>0, <1>7, <2>1 DEF LooksForTurn, To
  <2>2. CASE ~Holds(records["conversation"], Head(todo[c]))
    <3>1. at[c] = "looks_for_turn"
      BY <1>7 DEF LooksForTurn, Waits
    <3>2. /\ Tail(todo[c]) \in Seq(Turn) /\ at[c] \in Compressing
          /\ (IF hit[c] THEN owed[c] - 1 ELSE owed[c]) \in Nat
      BY <1>0, <3>1, HoldsNothing, HeadTailProperties
    <3>3. at'[c] \in {"idle", "looks_for_turn"}
      BY <1>0, <1>7, <2>2, <3>2, PruneNextLocal DEF LooksForTurn, Typed, CacheTyped
    <3> QED
      BY <1>7, <3>3
  <2> QED
    BY <2>1, <2>2
<1>8. CASE DropsTurn(c)
  <2>1. at[c] = "drops_turn"
    BY <1>8 DEF DropsTurn, Waits
  <2>2. Tail(todo[c]) \in Seq(Turn) /\ at[c] \in Compressing /\ owed[c] - 1 \in Nat
    BY <1>0, <2>1, HoldsNothing, HeadTailProperties
  <2>3. at'[c] \in {"idle", "looks_for_turn"}
    BY <1>0, <1>8, <2>2, PruneNextLocal DEF DropsTurn, Typed, CacheTyped
  <2> QED
    BY <1>8, <2>3
<1> QED
  BY <1>1, <1>2, <1>3, <1>4, <1>5, <1>6, <1>7, <1>8 DEF Consolidating

LEMMA UpdatingFactsLeads ==
  ASSUME IInv, Typed, NEW c \in Clients, UpdatingFacts(c)
  PROVE  /\ at'[c] \in {"idle", "summarises", "counts"} \union OnFacts
         /\ at'[c] \in {"summarises", "counts"} => WeighsFact(c) \/ StoresFact(c)
         /\ at'[c] = "finds_fact" => ForgetFact(c)
<1>0. /\ at \in [Clients -> Position] /\ LocalsOK /\ LocalsTyped /\ CacheTyped
      /\ OnFacts = {"finds_fact", "looks_for_fact", "drops_fact", "weighs_fact", "stores_fact"}
  BY DEF IInv, LocalsOK, Typed, OnFacts
<1>1. CASE ForgetFact(c)
  BY <1>0, <1>1 DEF ForgetFact, To
<1>2. CASE FindsFact(c)
  BY <1>0, <1>2, FactGoneLocal DEF FindsFact, To, Waits
<1>3. CASE LooksForFact(c)
  BY <1>0, <1>3, FactGoneLocal DEF LooksForFact, To, Waits
<1>4. CASE DropsFact(c)
  BY <1>0, <1>4, FactGoneLocal DEF DropsFact, Waits
<1>5. CASE WeighsFact(c)
  BY <1>0, <1>5, AfterObserveLocal DEF WeighsFact, To
<1>6. CASE StoresFact(c)
  BY <1>0, <1>6, AfterObserveLocal DEF StoresFact
<1> QED
  BY <1>1, <1>2, <1>3, <1>4, <1>5, <1>6 DEF UpdatingFacts

LEMMA ErasingLeads ==
  ASSUME IInv, Typed, NEW c \in Clients, Erasing(c)
  PROVE  at'[c] \in {"idle", "clears", "unlinks"}
<1>0. at \in [Clients -> Position] /\ LocalsOK /\ LocalsTyped
  BY DEF IInv, LocalsOK, Typed
<1>1. CASE Forget(c)
  BY <1>0, <1>1 DEF Forget, To
<1>2. CASE Clears(c)
  BY <1>0, <1>2 DEF Clears, To
<1>3. CASE Unlinks(c)
  BY <1>0, <1>3, DoneLocal DEF Unlinks, To
<1> QED
  BY <1>1, <1>2, <1>3 DEF Erasing

LEMMA FailsLeads ==
  ASSUME IInv, Typed, NEW c \in Clients, Fails(c)
  PROVE  /\ at'[c] \in {"idle", "summarises", "counts"}
         /\ at[c] \notin OnFacts => at'[c] = "idle"
<1>1. CASE at[c] \in OnFacts /\ Replaces(c)
  BY <1>1, AfterObserveLocal DEF Fails, IInv, Typed
<1>2. CASE ~(at[c] \in OnFacts /\ Replaces(c))
  BY <1>2, DoneLocal DEF Fails, IInv, Typed
<1> QED
  BY <1>1, <1>2

-----------------------------------------------------------------------------
(* The fact *)

\* The project file while no two updates overlap: the fact stored last.
Fact == IF known = 0 THEN <<>> ELSE <<known>>
Busy(c) == OnProject(at[c], toClear[c])

\* What the one client that is busy with the facts has found out about them.
FoundOut(c) ==
  /\ at[c] = "looks_for_fact" => known # 0 /\ todo[c] = <<known>>
  /\ at[c] = "drops_fact" => kept[c] = <<>>
  /\ at[c] \in {"weighs_fact", "stores_fact"} => known = 0

Factual ==
  ~mixed =>
    /\ records["project"] = Fact /\ tail["project"] = "clean"
    /\ \A c, d \in Clients : Busy(c) /\ Busy(d) => c = d
    /\ \A c \in Clients : FoundOut(c)

LEMMA WhoIsBusy ==
  ASSUME NEW c
  PROVE  /\ at[c] \in OnFacts => Busy(c)
         /\ FileOf(c) = "project" => Busy(c)
         /\ Busy(c) /\ at[c] \notin OnFacts => at[c] \in Forgetting /\ FileOf(c) = "project"
BY MemoryAssumption DEF Busy, OnProject, FileOf, OnFile, OnSummaries, OnFacts, Forgetting, Nowhere

\* An update that is under way was begun before.
LEMMA UpdatesGoOn ==
  ASSUME IInv, Typed, NEW c \in Clients, Step(c), at'[c] \in OnFacts \ {"finds_fact"}
  PROVE  at[c] \in OnFacts
<1>1. ~Conversing(c) /\ ~Consolidating(c) /\ ~Erasing(c) /\ ~Fails(c)
  BY ConversingLeads, ConsolidatingLeads, ErasingLeads, FailsLeads DEF OnFacts
<1>2. UpdatingFacts(c)
  BY <1>1 DEF Step
<1>3. CASE ForgetFact(c)
  BY <1>3 DEF ForgetFact, To, IInv, LocalsOK
<1>4. CASE ~ForgetFact(c)
  BY <1>2, <1>4 DEF UpdatingFacts, FindsFact, LooksForFact, DropsFact, WeighsFact, StoresFact,
                    Waits, OnFacts
<1> QED
  BY <1>3, <1>4

\* A step of the one client that is busy with the facts.
LEMMA BusyStep ==
  ASSUME IInv, Typed, Factual, NEW c \in Clients, Step(c), Learns(c), Busy(c), ~mixed, ~mixed'
  PROVE  records'["project"] = Fact' /\ tail'["project"] = "clean" /\ FoundOut(c)'
<1>0. /\ DOMAIN records = Files /\ DOMAIN tail = Files /\ "project" \in Files
      /\ records["project"] = Fact /\ tail["project"] = "clean" /\ FoundOut(c)
      /\ at \in [Clients -> Position] /\ LocalsOK /\ LocalsTyped
  BY MemoryAssumption DEF IInv, LocalsOK, RoomKept, Typed, FilesTyped, Factual
<1>1. mishaps' = mishaps /\ ~Fails(c)
  BY StepMishaps DEF Typed, Learns, Busy, Fails
<1>2. /\ known' = IF at[c] = "stores_fact" THEN turn[c]
                  ELSE IF at[c] = "drops_fact" \/ (at[c] = "unlinks" /\ Head(toClear[c]) = "project")
                  THEN 0 ELSE known
  BY <1>1 DEF Learns
<1>3. at[c] \in OnFacts \union Forgetting
  BY DEF Busy, OnProject
<1>4. CASE FindsFact(c)
  <2>1. /\ at[c] = "finds_fact" /\ records' = records /\ tail' = tail /\ known' = known
    BY <1>2, <1>4 DEF FindsFact, Waits
  <2>2. CASE records["project"] = <<>>
    <3>1. known = 0
      <4>1. <<known>> # <<>>
        OBVIOUS
      <4>2. (IF known = 0 THEN <<>> ELSE <<known>>) = <<>>
        BY <1>0, <2>2 DEF Fact
      <4> QED
        BY <4>1, <4>2
    <3>2. at'[c] \in {"idle", "weighs_fact"}
      BY <1>0, <1>4, <2>1, <2>2, FactGoneLocal DEF FindsFact, OnFacts
    <3> QED
      BY <1>0, <2>1, <3>1, <3>2 DEF Fact, FoundOut
  <2>3. CASE records["project"] # <<>>
    <3>1. known # 0 /\ records["project"] = <<known>>
      BY <1>0, <2>3 DEF Fact
    <3>2. Last(records["project"]) = known
      BY <3>1 DEF Last
    <3>3. at'[c] = "looks_for_fact" /\ todo'[c] = <<known>>
      BY <1>0, <1>4, <2>3, <3>2 DEF FindsFact, To, LocalsTyped
    <3> QED
      BY <1>0, <2>1, <3>1, <3>3 DEF Fact, FoundOut
  <2> QED
    BY <2>2, <2>3
<1>5. CASE LooksForFact(c)
  <2>1. /\ at[c] = "looks_for_fact" /\ records' = records /\ tail' = tail /\ known' = known
    BY <1>2, <1>5 DEF LooksForFact, Waits
  <2>2. known # 0 /\ Head(todo[c]) = known /\ records["project"] = <<known>>
    BY <1>0, <2>1 DEF FoundOut, Fact
  <2>3. Holds(records["project"], known) /\ Filtered(records["project"], known) = <<>>
    BY <2>2, FilteredAlone DEF Holds
  <2>4. at'[c] = "drops_fact" /\ kept'[c] = <<>>
    BY <1>0, <1>5, <2>2, <2>3 DEF LooksForFact, To, LocalsTyped
  <2> QED
    BY <1>0, <2>1, <2>4 DEF Fact, FoundOut
<1>6. CASE DropsFact(c)
  <2>1. at[c] = "drops_fact" /\ kept[c] = <<>>
    BY <1>0, <1>6 DEF DropsFact, Waits, FoundOut
  <2>2. records'["project"] = <<>> /\ tail'["project"] = "clean" /\ known' = 0
    BY <1>0, <1>2, <1>6, <2>1 DEF DropsFact, Rewrite
  <2>3. at'[c] \in {"idle", "weighs_fact"}
    BY <1>0, <1>6, <2>1, FactGoneLocal DEF DropsFact, OnFacts
  <2> QED
    BY <2>2, <2>3 DEF Fact, FoundOut
<1>7. CASE WeighsFact(c)
  <2>1. /\ at[c] = "weighs_fact" /\ records' = records /\ tail' = tail /\ known' = known
        /\ known = 0
    BY <1>0, <1>2, <1>7 DEF WeighsFact, Waits, FoundOut
  <2>2. at'[c] \notin {"looks_for_fact", "drops_fact"}
    BY <1>0, <1>7, AfterObserveLocal DEF WeighsFact, To, Typed
  <2> QED
    BY <1>0, <2>1, <2>2 DEF Fact, FoundOut
<1>8. CASE StoresFact(c)
  <2>1. at[c] = "stores_fact" /\ known = 0 /\ known' = turn[c] /\ turn[c] # 0
    BY <1>0, <1>2, <1>8, HoldsNothing DEF StoresFact, Waits, FoundOut
  <2>2. records'["project"] = Append(<<>>, turn[c]) /\ tail'["project"] = "clean"
    BY <1>0, <1>8, <2>1 DEF StoresFact, AppendLine, Fact
  <2>3. at'[c] \notin {"looks_for_fact", "drops_fact", "weighs_fact", "stores_fact"}
    BY <1>0, <1>8, AfterObserveLocal DEF StoresFact, Typed
  <2> QED
    BY <2>1, <2>2, <2>3 DEF Fact, FoundOut
<1>9. CASE Erasing(c)
  <2>1. at'[c] \in {"idle", "clears", "unlinks"}
    BY <1>9, ErasingLeads
  <2>2. CASE Clears(c)
    BY <1>0, <1>2, <2>1, <2>2 DEF Clears, Waits, Fact, FoundOut
  <2>3. CASE Unlinks(c)
    <3>1. at[c] = "unlinks" /\ FileOf(c) = "project" /\ Head(toClear[c]) = "project"
      BY <2>3, WhoIsBusy DEF Unlinks, Waits, Busy, OnProject, OnFacts
    <3>2. records'["project"] = <<>> /\ tail'["project"] = "clean" /\ known' = 0
      BY <1>0, <1>2, <2>3, <3>1 DEF Unlinks, Unlink, Rewrite
    <3> QED
      BY <2>1, <3>2 DEF Fact, FoundOut
  <2>4. ~Forget(c)
    BY <1>3 DEF Forget, OnFacts, Forgetting
  <2> QED
    BY <1>9, <2>2, <2>3, <2>4 DEF Erasing
<1>10. ~Conversing(c) /\ ~Consolidating(c) /\ ~ForgetFact(c)
  BY <1>3 DEF Conversing, Observe, StoresTurn, Load, Loaded, Consolidating, Remember, Counts,
              Summarised, WeighsSummary, StoresSummary, Lists, LooksForTurn, DropsTurn, ForgetFact,
              Waits, OnFacts, Forgetting
<1> QED
  BY <1>1, <1>4, <1>5, <1>6, <1>7, <1>8, <1>9, <1>10 DEF Step, UpdatingFacts

\* A step of a client that is not.
LEMMA IdleStep ==
  ASSUME IInv, Typed, Factual, NEW c \in Clients, Step(c), Learns(c), ~Busy(c), ~mixed
  PROVE  /\ records'["project"] = Fact' /\ tail'["project"] = "clean" /\ known' = known
         /\ FoundOut(c)'
<1>1. records'["project"] = records["project"] /\ tail'["project"] = tail["project"]
  <2>1. FilesStep({c}) /\ {c} \subseteq Clients
    BY StepTouches
  <2>2. at[c] # "stores_fact" /\ FileOf(c) # "project"
    BY WhoIsBusy DEF OnFacts
  <2> QED
    BY <2>1, <2>2, ProjectStep
<1>2. known' = known
  BY DEF Learns, Busy, OnProject, OnFacts, Forgetting
<1>3. at'[c] \notin OnFacts \ {"finds_fact"}
  BY UpdatesGoOn, WhoIsBusy
<1> QED
  BY <1>1, <1>2, <1>3 DEF Factual, Fact, FoundOut, OnFacts

LEMMA StepFactual ==
  ASSUME IInv, Typed, Factual, NEW c \in Clients, Step(c), Learns(c)
  PROVE  Factual'
<1> SUFFICES ASSUME ~mixed'
             PROVE  /\ records'["project"] = Fact' /\ tail'["project"] = "clean"
                    /\ \A d, e \in Clients : Busy(d)' /\ Busy(e)' => d = e
                    /\ \A d \in Clients : FoundOut(d)'
  BY DEF Factual
<1>1. ~mixed /\ (Busy(c)' => \A d \in Clients \ {c} : ~Busy(d))
  BY DEF Learns, Busy
<1>2. \A d \in Clients \ {c} :
        at'[d] = at[d] /\ todo'[d] = todo[d] /\ kept'[d] = kept[d] /\ toClear'[d] = toClear[d]
  BY StepEffect, OthersStay
<1>3. \A d \in Clients \ {c} : Busy(d)' <=> Busy(d)
  BY <1>2 DEF Busy
<1>4. \A d, e \in Clients : Busy(d)' /\ Busy(e)' => d = e
  BY <1>1, <1>3 DEF Factual
<1>5. CASE Busy(c)
  <2>1. \A d \in Clients \ {c} : at'[d] \notin OnFacts
    BY <1>1, <1>2, <1>5, WhoIsBusy DEF Factual
  <2>2. \A d \in Clients \ {c} : FoundOut(d)'
    BY <2>1 DEF FoundOut, OnFacts
  <2> QED
    BY <1>1, <1>4, <1>5, <2>2, BusyStep
<1>6. CASE ~Busy(c)
  <2>1. known' = known /\ FoundOut(c)' /\ records'["project"] = Fact' /\ tail'["project"] = "clean"
    BY <1>1, <1>6, IdleStep
  <2>2. \A d \in Clients \ {c} : FoundOut(d)'
    BY <1>1, <1>2, <2>1 DEF Factual, FoundOut
  <2> QED
    BY <1>4, <2>1, <2>2
<1> QED
  BY <1>5, <1>6

LEMMA CrashFactual ==
  ASSUME IInv, Typed, Factual, Crash, LearnsOfCrash
  PROVE  Factual'
<1> SUFFICES ASSUME ~mixed' PROVE Factual'
  BY DEF Factual
<1>1. ~mixed /\ queue["project"] = <<>> /\ known' = known /\ \A c \in Clients : at'[c] = "idle"
  BY DEF Crash, LearnsOfCrash
<1>2. \A c \in Clients : FileOf(c) # "project"
  BY <1>1, MemoryAssumption DEF IInv, QueuesOK
<1>3. records'["project"] = records["project"] /\ tail'["project"] = tail["project"]
  <2>1. \A c \in Clients : at[c] # "stores_fact"
    BY <1>2, WhereItIs DEF OnFacts
  <2> QED
    BY <1>2, <2>1, CrashTouches, ProjectStep
<1>4. \A c \in Clients : ~Busy(c)' /\ FoundOut(c)'
  BY <1>1 DEF Busy, OnProject, FoundOut, OnFacts, Forgetting
<1> QED
  BY <1>1, <1>3, <1>4 DEF Factual, Fact

LEMMA InitFactual == ASSUME Init PROVE Factual
<1>1. /\ records["project"] = <<>> /\ tail["project"] = "clean" /\ known = 0
      /\ \A c \in Clients : at[c] = "idle"
  BY MemoryAssumption DEF Init, FilesInit
<1> QED
  BY <1>1 DEF Factual, Fact, Busy, OnProject, FoundOut, OnFacts, Forgetting

LEMMA FactualAlways == Spec => []Factual
<1>1. Init => Factual
  BY InitFactual
<1>2. IInv /\ Typed /\ Factual /\ [Next]_vars => Factual'
  <2> SUFFICES ASSUME IInv, Typed, Factual, [Next]_vars PROVE Factual'
    OBVIOUS
  <2>1. ASSUME NEW c \in Clients, Step(c), Learns(c) PROVE Factual'
    BY <2>1, StepFactual
  <2>2. CASE Crash /\ LearnsOfCrash
    BY <2>2, CrashFactual
  <2>3. CASE UNCHANGED vars
    BY <2>3 DEF vars, fileVars, localVars, historyVars, Factual, Fact, Busy, FoundOut
  <2> QED
    BY <2>1, <2>2, <2>3 DEF Next
<1> QED
  BY <1>1, <1>2, Invariant, TypedAlways, PTL DEF Spec

\* FactFollows for any clients, turns and limits: as long as no two updates of the
\* fact overlap and none breaks off, the project file holds the fact stored last and
\* no other, whatever else the clients do, and after a crash.
THEOREM FactsFollow == Spec => []FactFollows
<1>1. Factual => FactFollows
  BY DEF Factual, Fact, FactFollows
<1> QED
  BY <1>1, FactualAlways, PTL

-----------------------------------------------------------------------------
(* What is forgotten *)

InSummary(t) == \E i \in DOMAIN records["long_term"] : t \in records["long_term"][i]

\* t is nowhere to be found.
Absent(t) ==
  /\ ~InSummary(t)
  /\ ~Holds(records["conversation"], t) /\ ~Holds(records["project"], t)
  /\ ~Holds(Cached, t)
  /\ \A c \in Clients : turn[c] # t /\ ~Holds(kept[c], t) /\ ~Holds(batch[c], t)

\* Where a client is while nothing but new turns arrives during a forget.
Quiet == Forgetting \union {"idle", "stores_turn"}

\* How far the forget of every store has come with the turns it found.
Forgot(c) ==
  /\ leaving[c] \subseteq acked
  /\ leaving[c] # {} =>
       /\ at[c] \in Forgetting
       /\ toClear[c] \in {Stores, Tail(Stores), Tail(Tail(Stores))}
       /\ ~spoilt => \A t \in leaving[c] :
            /\ toClear[c] # Stores => ~Holds(Cached, t) /\ ~InSummary(t)
            /\ toClear[c] = Tail(Tail(Stores)) => ~Holds(records["conversation"], t)

Gone ==
  /\ DOMAIN leaving = Clients
  /\ erased \subseteq acked /\ \A t \in erased : Absent(t)
  /\ (\E c \in Clients : at[c] \in Forgetting) /\ ~spoilt => \A c \in Clients : at[c] \in Quiet
  /\ \A c \in Clients : Forgot(c)

LEMMA ForgottenTypes ==
  /\ Stores = <<"long_term", "conversation", "project">>
  /\ Tail(Stores) = <<"conversation", "project">>
  /\ Tail(Tail(Stores)) = <<"project">>
  /\ Tail(<<"project">>) = <<>>
  /\ Stores # <<>> /\ Tail(Stores) # <<>> /\ <<"project">> # <<>>
  /\ Stores # Tail(Stores) /\ Stores # <<"project">> /\ Tail(Stores) # <<"project">>
  /\ Head(Stores) = "long_term" /\ Head(Tail(Stores)) = "conversation" /\ Head(<<"project">>) = "project"
<1>1. /\ Len(<<"long_term", "conversation", "project">>) = 3
      /\ Len(<<"conversation", "project">>) = 2 /\ Len(<<"project">>) = 1 /\ Len(<<>>) = 0
  OBVIOUS
<1> QED
  BY <1>1 DEF Stores

LEMMA TrimmedHolds ==
  ASSUME NEW s \in Seq(Turn), NEW x, Holds(Trimmed(s), x)
  PROVE  Holds(s, x)
<1>1. /\ DOMAIN Trimmed(s) = 1 .. Len(Trimmed(s)) /\ DOMAIN s = 1 .. Len(s)
      /\ \A i \in 1 .. Len(Trimmed(s)) :
           /\ Len(s) - Len(Trimmed(s)) + i \in 1 .. Len(s)
           /\ Trimmed(s)[i] = s[Len(s) - Len(Trimmed(s)) + i]
  BY TrimmedLast
<1> QED
  BY <1>1 DEF Holds

LEMMA OldestHolds ==
  ASSUME NEW s \in Seq(Turn), Len(s) > ConsolidateAfter, NEW x, Holds(Oldest(s), x)
  PROVE  Holds(s, x)
<1>1. /\ DOMAIN Oldest(s) = 1 .. Len(Oldest(s)) /\ DOMAIN s = 1 .. Len(s)
      /\ Len(Oldest(s)) <= Len(s) /\ Len(Oldest(s)) \in Nat /\ Len(s) \in Nat
      /\ \A i \in 1 .. Len(Oldest(s)) : Oldest(s)[i] = s[i]
  BY OldestComeFirst
<1> QED
  BY <1>1 DEF Holds

(* A turn comes to a file, to the cache or to a client from one of the others. *)

LEMMA SummaryFree ==
  ASSUME IInv, Typed, NEW C, C \subseteq Clients, FilesStep(C), NEW t \in Turn, ~InSummary(t),
         \A c \in C : at[c] = "stores_summary" => ~Holds(batch[c], t)
  PROVE  ~InSummary(t)'
<1>1. CASE records'["long_term"] = records["long_term"]
  BY <1>1 DEF InSummary
<1>2. CASE records'["long_term"] = <<>>
  BY <1>2 DEF InSummary
<1>3. ASSUME NEW c \in C, NEW cut \in Cuts, at[c] = "stores_summary",
             records'["long_term"] = AfterCut("long_term", ToSet(batch[c]), cut)
      PROVE  ~InSummary(t)'
  <2>1. batch[c] \in Seq(Turn) /\ ToSet(batch[c]) \in SUBSET Turn
    BY HoldsNothing DEF ToSet
  <2>2. t \notin ToSet(batch[c])
    BY <1>3, <2>1 DEF ToSet, Holds
  <2>3. records["long_term"] \in Seq(SUBSET Turn)
    BY ConversationTyped
  <2>4. \A x : Holds(AfterCut("long_term", ToSet(batch[c]), cut), x) =>
                  Holds(records["long_term"], x) \/ x = ToSet(batch[c])
    BY <2>1, <2>3, CutLeaves
  <2> QED
    BY <1>3, <2>2, <2>4 DEF InSummary, Holds
<1> QED
  BY <1>1, <1>2, <1>3, LongTermStep

LEMMA ConversationFree ==
  ASSUME IInv, Typed, NEW C, C \subseteq Clients, FilesStep(C), NEW t \in Turn,
         ~Holds(records["conversation"], t),
         \A c \in C : /\ at[c] = "stores_turn" => turn[c] # t
                      /\ at[c] = "drops_turn" => ~Holds(kept[c], t)
  PROVE  ~Holds(records["conversation"], t)'
<1>1. CASE records'["conversation"] = <<>>
  BY <1>1 DEF Holds
<1>2. ASSUME NEW c \in C, NEW cut \in Cuts, NEW u, u = turn[c], at[c] = "stores_turn",
             records'["conversation"] = AfterCut("conversation", u, cut)
      PROVE  ~Holds(records["conversation"], t)'
  <2>1. u \in Turn /\ records["conversation"] \in Seq(Turn)
    BY <1>2, HoldsNothing, ConversationTyped
  <2>2. \A x : Holds(AfterCut("conversation", u, cut), x) => Holds(records["conversation"], x) \/ x = u
    BY <2>1, CutLeaves
  <2> QED
    BY <1>2, <2>2
<1> QED
  BY <1>1, <1>2, ConversationStep

LEMMA ProjectFree ==
  ASSUME IInv, Typed, NEW C, C \subseteq Clients, FilesStep(C), NEW t \in Turn,
         ~Holds(records["project"], t),
         \A c \in C : turn[c] # t /\ ~Holds(kept[c], t)
  PROVE  ~Holds(records["project"], t)'
<1>1. ASSUME NEW c \in C, NEW cut \in Cuts, NEW u, u = turn[c], at[c] = "stores_fact",
             records'["project"] = AfterCut("project", u, cut)
      PROVE  ~Holds(records["project"], t)'
  <2>1. u \in Turn /\ records["project"] \in Seq(Turn)
    BY <1>1, HoldsNothing, ConversationTyped
  <2>2. \A x : Holds(AfterCut("project", u, cut), x) => Holds(records["project"], x) \/ x = u
    BY <2>1, CutLeaves
  <2> QED
    BY <1>1, <2>2
<1> QED
  BY <1>1, ProjectStep

LEMMA CacheFree ==
  ASSUME Typed, CacheStep, NEW t \in Turn, t <= told, told' \in 0 .. MaxTurns,
         ~Holds(Cached, t), ~Holds(records["conversation"], t)
  PROVE  ~Holds(Cached, t)'
<1>0. told \in Nat /\ t \in Nat /\ records["conversation"] \in Seq(Turn) /\ Cached \in Seq(Turn)
  BY ConversationTyped, TurnsAreNumbers DEF Typed
<1>1. CASE cache' = cache
  BY <1>1 DEF Cached
<1>2. ASSUME cache' # NoCache, ~Holds(cache', t) PROVE ~Holds(Cached, t)'
  BY <1>2 DEF Cached
<1>3. CASE cache' = NoCache
  BY <1>3, EmptyHoldsNothing DEF Cached
<1>4. CASE cache' = records["conversation"]
  BY <1>2, <1>3, <1>4
<1>5. ASSUME NEW P \in {Cached, records["conversation"]}, NEW x, cache' = Filtered(P, x)
      PROVE  ~Holds(Cached, t)'
  BY <1>0, <1>2, <1>3, <1>5, FilteredLeaves
<1>6. CASE told' = told + 1 /\ cache' = Trimmed(Append(Cached, told + 1))
  <2>1. told + 1 \in Turn /\ t # told + 1
    BY <1>0, <1>6, MemoryAssumption DEF Turn
  <2>2. Append(Cached, told + 1) \in Seq(Turn) /\ ~Holds(Append(Cached, told + 1), t)
    BY <1>0, <2>1, AppendHolds
  <2> QED
    BY <1>2, <1>3, <1>6, <2>2, TrimmedHolds
<1> QED
  BY <1>1, <1>3, <1>4, <1>5, <1>6 DEF CacheStep

LEMMA HeldFree ==
  ASSUME Typed, NEW c \in Clients, HeldStep(c), NEW t \in Turn, t <= told, Absent(t)
  PROVE  turn'[c] # t /\ ~Holds(kept'[c], t) /\ ~Holds(batch'[c], t)
<1>0. told \in Nat /\ t \in Nat \ {0} /\ records["conversation"] \in Seq(Turn)
      /\ records["project"] \in Seq(Turn) /\ Cached \in Seq(Turn)
  BY ConversationTyped, TurnsAreNumbers DEF Typed
<1>1. turn'[c] # t
  BY <1>0 DEF HeldStep, Absent
<1>2. ~Holds(kept'[c], t)
  <2>1. ASSUME NEW f \in Files \ {"long_term"}, NEW x, kept'[c] = Filtered(records[f], x)
        PROVE  ~Holds(kept'[c], t)
    <3>1. records[f] \in Seq(Turn) /\ ~Holds(records[f], t)
      BY <1>0, MemoryAssumption DEF Absent
    <3> QED
      BY <2>1, <3>1, FilteredLeaves
  <2> QED
    BY <2>1, EmptyHoldsNothing DEF HeldStep, Absent
<1>3. ~Holds(batch'[c], t)
  <2>1. ASSUME NEW P \in {Cached, records["conversation"]}, Len(P) > ConsolidateAfter,
               batch'[c] = Oldest(P)
        PROVE  ~Holds(batch'[c], t)
    BY <1>0, <2>1, OldestHolds DEF Absent
  <2> QED
    BY <2>1, EmptyHoldsNothing DEF HeldStep, Absent
<1> QED
  BY <1>1, <1>2, <1>3

LEMMA AbsentStays ==
  ASSUME IInv, Typed, NEW c \in Clients, Step(c), NEW t \in Turn, t <= told, Absent(t)
  PROVE  Absent(t)'
<1>1. Effect(c) /\ FilesStep({c}) /\ {c} \subseteq Clients /\ told' \in 0 .. MaxTurns
  BY StepEffect, StepTouches, StepTyped DEF Typed
<1>2. /\ ~InSummary(t) /\ ~Holds(records["conversation"], t) /\ ~Holds(records["project"], t)
      /\ ~Holds(Cached, t)
      /\ \A d \in Clients : turn[d] # t /\ ~Holds(kept[d], t) /\ ~Holds(batch[d], t)
  BY DEF Absent
<1>3. ~InSummary(t)' /\ ~Holds(records["conversation"], t)' /\ ~Holds(records["project"], t)'
  BY <1>1, <1>2, SummaryFree, ConversationFree, ProjectFree
<1>4. ~Holds(Cached, t)'
  BY <1>1, <1>2, CacheFree DEF Effect
<1>5. turn'[c] # t /\ ~Holds(kept'[c], t) /\ ~Holds(batch'[c], t)
  BY <1>1, HeldFree DEF Effect
<1>6. \A d \in Clients \ {c} : turn'[d] # t /\ ~Holds(kept'[d], t) /\ ~Holds(batch'[d], t)
  BY <1>1, <1>2, OthersStay
<1> QED
  BY <1>3, <1>4, <1>5, <1>6 DEF Absent

\* Where nothing but new turns arrives, the cache gains no others.
LEMMA QuietCache ==
  ASSUME NEW c \in Clients, at[c] \in Quiet, Step(c)
  PROVE  \/ cache' \in {cache, NoCache}
         \/ told' = told + 1 /\ cache' = Trimmed(Append(Cached, told + 1))
<1>0. Quiet = {"clears", "unlinks", "idle", "stores_turn"}
  BY DEF Quiet, Forgetting
<1>1. CASE Conversing(c)
  BY <1>0, <1>1 DEF Conversing, Observe, StoresTurn, Load, Loaded, Waits
<1>2. CASE Consolidating(c)
  BY <1>0, <1>2 DEF Consolidating, Remember, Counts, Summarised, WeighsSummary, StoresSummary, Lists,
                    LooksForTurn, DropsTurn, Waits
<1>3. CASE UpdatingFacts(c)
  BY <1>0, <1>3 DEF UpdatingFacts, ForgetFact, FindsFact, LooksForFact, DropsFact, WeighsFact,
                    StoresFact, Waits
<1>4. CASE Erasing(c)
  BY <1>4 DEF Erasing, Forget, Clears, Unlinks, CacheAfterPurge
<1> QED
  BY <1>1, <1>2, <1>3, <1>4 DEF Step, Fails
\* What Learns says of the forgets.
LEMMA LearnsLeaving ==
  ASSUME Gone, NEW c \in Clients, Learns(c)
  PROVE  /\ DOMAIN leaving' = Clients /\ \A d \in Clients \ {c} : leaving'[d] = leaving[d]
         /\ leaving'[c] = IF at'[c] \notin Forgetting THEN {}
                          ELSE IF toClear'[c] = Stores /\ at[c] = "idle" THEN acked ELSE leaving[c]
         /\ acked \subseteq acked'
         /\ ~spoilt' /\ (\E d \in Clients : at'[d] \in Forgetting) =>
              ~spoilt /\ \A d \in Clients : at'[d] \in Quiet
BY DEF Gone, Learns, Quiet

\* The forgets that go on while another client takes a step.
LEMMA OtherForgot ==
  ASSUME IInv, Typed, Numbered, Gone, NEW c \in Clients, Step(c), Learns(c), NEW d \in Clients \ {c}
  PROVE  Forgot(d)'
<1>1. Effect(c) /\ FilesStep({c}) /\ {c} \subseteq Clients /\ told' \in 0 .. MaxTurns
  BY StepEffect, StepTouches, StepTyped DEF Typed
<1>2. at'[d] = at[d] /\ toClear'[d] = toClear[d] /\ leaving'[d] = leaving[d] /\ acked \subseteq acked'
  BY <1>1, OthersStay, LearnsLeaving
<1>3. Forgot(d)
  BY DEF Gone
<1>4. ASSUME leaving[d] # {}, ~spoilt', NEW t \in leaving[d]
      PROVE  /\ toClear[d] # Stores => ~Holds(Cached, t)' /\ ~InSummary(t)'
             /\ toClear[d] = Tail(Tail(Stores)) => ~Holds(records["conversation"], t)'
  <2>1. at[d] \in Forgetting /\ t \in Turn /\ t <= told /\ ~Ahead(t)
    BY <1>3, <1>4 DEF Forgot, Numbered
  <2>2. ~spoilt /\ at[c] \in Quiet
    BY <1>2, <1>4, <2>1, LearnsLeaving DEF Gone
  <2>3. /\ toClear[d] # Stores => ~Holds(Cached, t) /\ ~InSummary(t)
        /\ toClear[d] = Tail(Tail(Stores)) => ~Holds(records["conversation"], t)
    BY <1>3, <1>4, <2>2 DEF Forgot
  <2>4. /\ at[c] # "stores_summary" /\ at[c] # "drops_turn"
        /\ at[c] = "stores_turn" => turn[c] # t
    BY <2>1, <2>2 DEF Quiet, Forgetting, Ahead
  <2>5. ~InSummary(t) => ~InSummary(t)'
    BY <1>1, <2>1, <2>4, SummaryFree
  <2>6. ~Holds(records["conversation"], t) => ~Holds(records["conversation"], t)'
    BY <1>1, <2>1, <2>4, ConversationFree
  <2>7. ~Holds(Cached, t) => ~Holds(Cached, t)'
    <3>1. CASE cache' = cache
      BY <3>1 DEF Cached
    <3>2. CASE cache' = NoCache
      BY <3>2, EmptyHoldsNothing DEF Cached
    <3>3. CASE told' = told + 1 /\ cache' = Trimmed(Append(Cached, told + 1))
      <4>1. told \in Nat /\ t \in Nat /\ told + 1 \in Turn /\ Cached \in Seq(Turn)
        BY <1>1, <2>1, <3>3, ConversationTyped, TurnsAreNumbers, MemoryAssumption DEF Typed, Turn
      <4>2. Append(Cached, told + 1) \in Seq(Turn)
            /\ (~Holds(Cached, t) => ~Holds(Append(Cached, told + 1), t))
        BY <2>1, <4>1, AppendHolds
      <4>3. Trimmed(Append(Cached, told + 1)) # NoCache
        BY <4>2, TrimmedLast, MemoryAssumption
      <4> QED
        BY <3>3, <4>2, <4>3, TrimmedHolds DEF Cached
    <3> QED
      BY <2>2, <3>1, <3>2, <3>3, QuietCache
  <2> QED
    BY <2>3, <2>5, <2>6, <2>7
<1> QED
  BY <1>2, <1>3, <1>4 DEF Forgot

\* The forget that takes the step.
LEMMA OwnForgot ==
  ASSUME IInv, Typed, Gone, NEW c \in Clients, Step(c), Learns(c)
  PROVE  Forgot(c)'
<1>0. /\ at \in [Clients -> Position] /\ toClear \in [Clients -> Seq(Files)] /\ LocalsOK /\ LocalsTyped
      /\ DOMAIN records = Files /\ Forgot(c)
  BY DEF IInv, LocalsOK, RoomKept, Typed, Gone
<1>1. /\ leaving'[c] = IF at'[c] \notin Forgetting THEN {}
                       ELSE IF toClear'[c] = Stores /\ at[c] = "idle" THEN acked ELSE leaving[c]
      /\ acked \subseteq acked'
  BY LearnsLeaving
<1>2. CASE at'[c] \notin Forgetting
  BY <1>1, <1>2 DEF Forgot
<1>3. CASE at'[c] \in Forgetting /\ toClear'[c] = Stores /\ at[c] = "idle"
  BY <1>1, <1>3, ForgottenTypes DEF Forgot
<1>4. CASE leaving'[c] = {}
  BY <1>4 DEF Forgot
<1>5. CASE at'[c] \in Forgetting /\ leaving'[c] = leaving[c] /\ leaving[c] # {}
  <2>1. /\ at[c] \in Forgetting /\ leaving[c] \subseteq acked
        /\ toClear[c] \in {Stores, Tail(Stores), Tail(Tail(Stores))}
        /\ ~spoilt => \A t \in leaving[c] :
            /\ toClear[c] # Stores => ~Holds(Cached, t) /\ ~InSummary(t)
            /\ toClear[c] = Tail(Tail(Stores)) => ~Holds(records["conversation"], t)
    BY <1>0, <1>5 DEF Forgot
  <2>2. ~Conversing(c) /\ ~Consolidating(c) /\ ~UpdatingFacts(c) /\ ~Fails(c)
    BY <1>5, ConversingLeads, ConsolidatingLeads, UpdatingFactsLeads, FailsLeads DEF Forgetting, OnFacts
  <2>3. ~spoilt' => ~spoilt
    BY <1>5, LearnsLeaving
  <2>4. CASE Clears(c)
    <3>1. records' = records /\ cache' = cache /\ toClear' = toClear
      BY <2>4 DEF Clears
    <3>2. \A t : (InSummary(t)' <=> InSummary(t)) /\ (Holds(Cached, t)' <=> Holds(Cached, t))
      BY <3>1 DEF InSummary, Cached
    <3> QED
      BY <1>1, <1>5, <2>1, <2>3, <3>1, <3>2 DEF Forgot
  <2>5. CASE Unlinks(c)
    <3>1. /\ at[c] = "unlinks" /\ FileOf(c) = Head(toClear[c])
          /\ records' = [records EXCEPT ![Head(toClear[c])] = <<>>]
          /\ cache' = CacheAfterPurge(Tail(toClear[c]))
      BY <2>5 DEF Unlinks, Unlink, Rewrite, Waits, FileOf, OnFile, OnSummaries, OnFacts, Forgetting
    <3>2. Tail(toClear[c]) # <<>> /\ toClear'[c] = Tail(toClear[c])
      <4>1. Tail(toClear[c]) # <<>>
        BY <1>0, <1>5, <2>5, DoneLocal DEF Unlinks, Forgetting
      <4> QED
        BY <1>0, <2>5, <4>1 DEF Unlinks
    <3>3. CASE toClear[c] = Stores
      <4>1. records'["long_term"] = <<>> /\ cache' = NoCache
        BY <1>0, <3>1, <3>3, ForgottenTypes, MemoryAssumption DEF CacheAfterPurge
      <4>2. \A t : ~InSummary(t)' /\ ~Holds(Cached, t)'
        BY <4>1, EmptyHoldsNothing DEF InSummary, Cached
      <4> QED
        BY <1>1, <1>5, <2>1, <3>2, <3>3, <4>2, ForgottenTypes DEF Forgot
    <3>4. CASE toClear[c] = Tail(Stores)
      <4>1. /\ records'["conversation"] = <<>> /\ cache' = cache
            /\ records'["long_term"] = records["long_term"]
        BY <1>0, <3>1, <3>4, ForgottenTypes, MemoryAssumption DEF CacheAfterPurge
      <4>2. \A t : /\ (InSummary(t)' <=> InSummary(t)) /\ (Holds(Cached, t)' <=> Holds(Cached, t))
                   /\ ~Holds(records'["conversation"], t)
        BY <4>1, EmptyHoldsNothing DEF InSummary, Cached
      <4> QED
        BY <1>1, <1>5, <2>1, <2>3, <3>2, <3>4, <4>2, ForgottenTypes DEF Forgot
    <3>5. toClear[c] # Tail(Tail(Stores))
      BY <3>2, ForgottenTypes
    <3> QED
      BY <2>1, <3>3, <3>4, <3>5
  <2>6. ~Forget(c)
    BY <2>1 DEF Forget, Forgetting
  <2> QED
    BY <2>2, <2>4, <2>5, <2>6 DEF Step, Erasing
<1> QED
  BY <1>1, <1>2, <1>3, <1>4, <1>5

\* The last store is cleared, and nothing is left of the turns.
LEMMA Erases ==
  ASSUME IInv, Typed, Numbered, Gone, NEW c \in Clients, Step(c), Learns(c), NEW t \in erased' \ erased
  PROVE  Absent(t)'
<1>0. /\ toClear \in [Clients -> Seq(Files)] /\ DOMAIN records = Files /\ LocalsOK /\ LocalsTyped
  BY DEF IInv, LocalsOK, RoomKept, Typed
<1>1. /\ at[c] = "unlinks" /\ Tail(toClear[c]) = <<>> /\ mishaps' = mishaps /\ ~spoilt
      /\ t \in leaving[c]
  BY DEF Learns
<1>2. toClear[c] = <<"project">> /\ t \in acked /\ ~Holds(Cached, t) /\ ~InSummary(t)
      /\ ~Holds(records["conversation"], t)
  <2>1. Forgot(c)
    BY DEF Gone
  <2> QED
    BY <1>1, <2>1, ForgottenTypes DEF Forgot
<1>3. Unlinks(c)
  <2>1. ~Fails(c)
    BY <1>1 DEF Fails, Typed
  <2>2. ~Conversing(c) /\ ~Consolidating(c) /\ ~UpdatingFacts(c)
    BY <1>1 DEF Conversing, Observe, StoresTurn, Load, Loaded, Consolidating, Remember, Counts,
                Summarised, WeighsSummary, StoresSummary, Lists, LooksForTurn, DropsTurn,
                UpdatingFacts, ForgetFact, FindsFact, LooksForFact, DropsFact, WeighsFact, StoresFact,
                Waits
  <2> QED
    BY <1>1, <2>1, <2>2 DEF Step, Erasing, Forget, Clears, Waits
<1>4. /\ records' = [records EXCEPT !["project"] = <<>>] /\ cache' = cache
      /\ Done(c, FileOf(c))
  <2>1. FileOf(c) = "project"
    BY <1>1, <1>2 DEF FileOf, OnFile, OnSummaries, OnFacts, Forgetting
  <2> QED
    BY <1>1, <1>3, <2>1 DEF Unlinks, Unlink, Rewrite, CacheAfterPurge
<1>5. ~InSummary(t)' /\ ~Holds(records["conversation"], t)' /\ ~Holds(records["project"], t)'
      /\ ~Holds(Cached, t)'
  BY <1>0, <1>2, <1>4, EmptyHoldsNothing, MemoryAssumption DEF InSummary, Cached
<1>6. t \in Turn /\ ~Ahead(t) /\ t # 0
  BY <1>2, TurnsAreNumbers DEF Numbered
<1>7. ASSUME NEW d \in Clients \ {c}
      PROVE  turn'[d] # t /\ ~Holds(kept'[d], t) /\ ~Holds(batch'[d], t)
  <2>1. turn'[d] = turn[d] /\ kept'[d] = kept[d] /\ batch'[d] = batch[d]
    BY StepEffect, OthersStay
  <2>2. at[d] \in Quiet
    BY <1>1 DEF Gone, Forgetting
  <2>3. at[d] \notin OnFacts /\ at[d] \notin Compressing /\ at[d] \notin {"drops_turn", "drops_fact"}
    BY <2>2 DEF Quiet, Forgetting, OnFacts, Compressing, OnSummaries
  <2>4. kept[d] = <<>> /\ batch[d] = <<>> /\ (at[d] # "stores_turn" => turn[d] = 0)
    BY <2>3, HoldsNothing
  <2>5. turn[d] # t
    BY <1>6, <2>4 DEF Ahead
  <2> QED
    BY <2>1, <2>4, <2>5, EmptyHoldsNothing
<1>8. turn'[c] # t /\ ~Holds(kept'[c], t) /\ ~Holds(batch'[c], t)
  <2>1. at'[c] = "idle" /\ Typed'
    BY <1>0, <1>4, DoneLocal, StepTyped
  <2>2. turn'[c] = 0 /\ kept'[c] = <<>> /\ batch'[c] = <<>>
    BY <1>0, <1>4 DEF Done, Starts, LocalsTyped, LocalsOK
  <2> QED
    BY <1>6, <2>2, EmptyHoldsNothing
<1> QED
  BY <1>5, <1>7, <1>8 DEF Absent

LEMMA StepGone ==
  ASSUME IInv, Typed, Numbered, Gone, NEW c \in Clients, Step(c), Learns(c)
  PROVE  Gone'
<1>1. erased' \subseteq acked'
  BY DEF Learns, Gone, Forgot
<1>2. ASSUME NEW t \in erased' PROVE Absent(t)'
  <2>1. CASE t \in erased
    <3>1. t \in Turn /\ t <= told /\ Absent(t)
      BY <2>1 DEF Gone, Numbered
    <3> QED
      BY <3>1, AbsentStays
  <2>2. CASE t \notin erased
    BY <2>2, Erases
  <2> QED
    BY <2>1, <2>2
<1>3. /\ DOMAIN leaving' = Clients
      /\ (\E d \in Clients : at'[d] \in Forgetting) /\ ~spoilt' => \A d \in Clients : at'[d] \in Quiet
  BY LearnsLeaving
<1>4. \A d \in Clients : Forgot(d)'
  BY OtherForgot, OwnForgot
<1> QED
  BY <1>1, <1>2, <1>3, <1>4 DEF Gone

LEMMA CrashGone ==
  ASSUME IInv, Typed, Numbered, Gone, Crash, LearnsOfCrash
  PROVE  Gone'
<1>1. /\ at' = [c \in Clients |-> "idle"] /\ turn' = [c \in Clients |-> 0]
      /\ batch' = [c \in Clients |-> <<>>] /\ kept' = [c \in Clients |-> <<>>]
      /\ cache' = NoCache /\ leaving' = [c \in Clients |-> {}]
      /\ acked' = acked /\ erased' = erased
  BY DEF Crash, LearnsOfCrash
<1>2. ASSUME NEW t \in erased PROVE Absent(t)'
  <2>1. /\ t \in Turn /\ ~InSummary(t) /\ ~Holds(records["conversation"], t)
        /\ ~Holds(records["project"], t)
        /\ \A c \in Clients : turn[c] # t /\ ~Holds(kept[c], t) /\ ~Holds(batch[c], t)
    BY DEF Gone, Absent, Numbered
  <2>2. ~InSummary(t)' /\ ~Holds(records["conversation"], t)' /\ ~Holds(records["project"], t)'
    BY <2>1, CrashTouches, SummaryFree, ConversationFree, ProjectFree
  <2>3. t # 0
    BY <2>1, TurnsAreNumbers
  <2> QED
    BY <1>1, <2>2, <2>3, EmptyHoldsNothing DEF Absent, Cached
<1>3. \A c \in Clients : Forgot(c)'
  BY <1>1 DEF Forgot
<1> QED
  BY <1>1, <1>2, <1>3 DEF Gone, Forgetting

LEMMA InitGone == ASSUME Init PROVE Gone
<1>1. erased = {} /\ leaving = [c \in Clients |-> {}] /\ at = [c \in Clients |-> "idle"]
  BY DEF Init
<1> QED
  BY <1>1 DEF Gone, Forgot, Forgetting

LEMMA GoneAlways == Spec => []Gone
<1>1. Init => Gone
  BY InitGone
<1>2. IInv /\ Typed /\ Numbered /\ Gone /\ [Next]_vars => Gone'
  <2> SUFFICES ASSUME IInv, Typed, Numbered, Gone, [Next]_vars PROVE Gone'
    OBVIOUS
  <2>1. ASSUME NEW c \in Clients, Step(c), Learns(c) PROVE Gone'
    BY <2>1, StepGone
  <2>2. CASE Crash /\ LearnsOfCrash
    BY <2>2, CrashGone
  <2>3. CASE UNCHANGED vars
    BY <2>3 DEF vars, fileVars, localVars, boundVars, historyVars, Gone, Forgot, Absent, InSummary,
                Cached
  <2> QED
    BY <2>1, <2>2, <2>3 DEF Next
<1> QED
  BY <1>1, <1>2, Invariant, TypedAlways, NumberedAlways, PTL DEF Spec

\* ForgetForgets for any clients, turns and limits: what a forget of every store found
\* acknowledged is in no file, no summary and no cache after it, and whatever happens
\* then, when nothing but new turns arrived while it ran.
THEOREM ForgetsForGood == Spec => []ForgetForgets
<1>1. Gone => ForgetForgets
  BY DEF Gone, Absent, InSummary, ForgetForgets
<1> QED
  BY <1>1, GoneAlways, PTL

-----------------------------------------------------------------------------
(* What is remembered *)

Filed(t) == \E i : Firm("conversation", i) /\ records["conversation"][i] = t
Summed(t) == \E i : Firm("long_term", i) /\ t \in records["long_term"][i]

\* The rewrite of d will keep t, or remove it as one that others got in the way of.
Spares(d, t) == Holds(kept[d], t) \/ (Head(todo[d]) = t /\ d \in crossed)

Secured(t) == Summed(t) \/ (Filed(t) /\ \A d \in Clients : at[d] = "drops_turn" => Spares(d, t))

\* The deletions d may still have to make, this one first.
Pending(d) == {i \in 1 .. Len(todo[d]) : i <= owed[d]}

\* The turns d compresses come first in the cache until their summary is stored.
BatchCached(d) ==
  batch[d] # <<>> /\ at[d] \in {"summarises", "weighs_summary", "stores_summary"} =>
    /\ cache # NoCache /\ Len(batch[d]) <= Len(cache)
    /\ \A i \in 1 .. Len(batch[d]) : cache[i] = batch[d][i]

\* Then d deletes them and no others.
PrunesSummed(d) ==
  at[d] \in {"looks_for_turn", "drops_turn"} =>
    /\ hit[d] /\ Once(todo[d])
    /\ \A i \in Pending(d) : Summed(todo[d][i]) \/ todo[d][i] \in dropped \union exposed
    /\ \A i \in Pending(d) \ {1} : Holds(Cached, todo[d][i])

\* A consolidation that no other client got in the way of.
Undisturbed(d) == BatchCached(d) /\ at[d] # "lists" /\ PrunesSummed(d)

Safe ==
  /\ crossed \subseteq Clients
  /\ \A t \in acked \ (dropped \union exposed) : Secured(t)
  /\ \A d \in Clients \ crossed : Undisturbed(d)

LEMMA PrefixIs ==
  ASSUME NEW S, NEW s \in Seq(S), NEW t \in Seq(S), IsPrefix(s, t)
  PROVE  Len(s) <= Len(t) /\ \A i \in 1 .. Len(s) : t[i] = s[i]
<1>1. /\ Len(s) <= Len(t) /\ SubSeq(s, 1, Len(s)) = SubSeq(t, 1, Len(s))
      /\ Len(s) \in Nat /\ Len(t) \in Nat
  BY DEF IsPrefix
<1>2. ASSUME NEW i \in 1 .. Len(s) PROVE t[i] = s[i]
  <2>1. SubSeq(s, 1, Len(s))[i] = s[i]
    BY <1>1
  <2>2. SubSeq(t, 1, Len(s))[i] = t[i]
    BY <1>1
  <2> QED
    BY <1>1, <2>1, <2>2
<1> QED
  BY <1>1, <1>2

LEMMA CompressingPlaces ==
  Compressing = {"summarises", "lists", "looks_for_turn", "drops_turn", "weighs_summary", "stores_summary"}
BY DEF Compressing, OnSummaries

\* A summary that has its newline stays until its file is unlinked.
LEMMA SummedStays ==
  ASSUME IInv, Typed, NEW C, C \subseteq Clients, FilesStep(C), NEW t, Summed(t),
         \A c \in C : at[c] # "unlinks"
  PROVE  Summed(t)'
<1>1. CASE records'["long_term"] = records["long_term"] /\ tail'["long_term"] = tail["long_term"]
  BY <1>1 DEF Summed, Firm
<1>2. ASSUME NEW c \in C, NEW cut \in Cuts,
             records'["long_term"] = AfterCut("long_term", ToSet(batch[c]), cut),
             tail'["long_term"] = TailAfterCut("long_term", cut)
      PROVE  Summed(t)'
  <2>1. ToSet(batch[c]) \in SUBSET Turn /\ records["long_term"] \in Seq(SUBSET Turn)
    BY HoldsNothing, ConversationTyped DEF ToSet
  <2>2. PICK i : Firm("long_term", i) /\ t \in records["long_term"][i]
    BY DEF Summed
  <2> DEFINE s == AfterCut("long_term", ToSet(batch[c]), cut)
  <2>3. /\ i \in 1 .. Len(s) /\ s[i] = records["long_term"][i]
        /\ TailAfterCut("long_term", cut) = "whole" => i < Len(s)
    BY <2>1, <2>2, CutLeaves
  <2> QED
    BY <1>2, <2>2, <2>3 DEF Summed, Firm
<1> QED
  BY <1>1, <1>2, LongTermStep

\* So does a turn of the conversation, until a deletion that has not read it, or that
\* is its own, writes the file back.
LEMMA FiledStays ==
  ASSUME IInv, Typed, NEW C, C \subseteq Clients, FilesStep(C), NEW t, Filed(t),
         \A c \in C : at[c] # "unlinks" /\ (at[c] = "drops_turn" => Holds(kept[c], t))
  PROVE  Filed(t)'
<1>1. CASE records'["conversation"] = records["conversation"] /\ tail'["conversation"] = tail["conversation"]
  BY <1>1 DEF Filed, Firm
<1>2. ASSUME NEW c \in C, NEW cut \in Cuts, NEW u, u = turn[c], at[c] = "stores_turn",
             records'["conversation"] = AfterCut("conversation", u, cut),
             tail'["conversation"] = TailAfterCut("conversation", cut)
      PROVE  Filed(t)'
  <2>1. u \in Turn /\ records["conversation"] \in Seq(Turn)
    BY <1>2, HoldsNothing, ConversationTyped
  <2>2. PICK i : Firm("conversation", i) /\ records["conversation"][i] = t
    BY DEF Filed
  <2> DEFINE s == AfterCut("conversation", u, cut)
  <2>3. /\ i \in 1 .. Len(s) /\ s[i] = records["conversation"][i]
        /\ TailAfterCut("conversation", cut) = "whole" => i < Len(s)
    BY <2>1, <2>2, CutLeaves
  <2> QED
    BY <1>2, <2>2, <2>3 DEF Filed, Firm
<1>3. ASSUME NEW c \in C, at[c] = "drops_turn", records'["conversation"] = kept[c],
             tail'["conversation"] = "clean"
      PROVE  Filed(t)'
  <2>1. Holds(kept[c], t) /\ DOMAIN kept[c] = 1 .. Len(kept[c])
    BY <1>3 DEF Typed, LocalsTyped
  <2> QED
    BY <1>3, <2>1 DEF Filed, Firm, Holds
<1> QED
  BY <1>1, <1>2, <1>3, ConversationStep

LEMMA FiledHolds ==
  ASSUME Typed, NEW t, Filed(t)
  PROVE  Holds(records["conversation"], t)
BY ConversationTyped DEF Filed, Firm, Holds

\* A forget removes what is in a summary.
LEMMA SummedRemovable ==
  ASSUME Typed, NEW t, Summed(t)
  PROVE  t \in Removable
<1>1. PICK i : i \in 1 .. Len(records["long_term"]) /\ t \in records["long_term"][i]
  BY DEF Summed, Firm
<1>2. records["long_term"][i] \in ToSet(records["long_term"])
  BY <1>1, ConversationTyped DEF ToSet
<1> QED
  BY <1>1, <1>2 DEF Removable

\* Whatever c does, a turn that was summed is, or a forget was to remove it.
LEMMA SummedOrDropped ==
  ASSUME IInv, Typed, NEW c \in Clients, Step(c), Learns(c), NEW t, Summed(t)
  PROVE  Summed(t)' \/ t \in dropped'
<1>1. FilesStep({c}) /\ {c} \subseteq Clients
  BY StepTouches
<1>2. CASE at[c] = "unlinks"
  BY <1>2, SummedRemovable DEF Learns, Forgetting
<1> QED
  BY <1>1, <1>2, SummedStays

-----------------------------------------------------------------------------
(* Acknowledged turns *)

\* A step that acknowledges a turn appends it.
LEMMA ArrivalFiled ==
  ASSUME IInv, Typed, NEW c \in Clients, Step(c), Learns(c), NEW t, t = turn[c], Arrives(c),
         t \notin exposed'
  PROVE  Secured(t)'
<1>1. /\ at[c] = "stores_turn" /\ mishaps' = mishaps /\ tail["conversation"] = "clean"
      /\ \A d \in Clients \ {c} : at[d] # "drops_turn"
  BY DEF Arrives, Learns, Exposes
<1>2. StoresTurn(c)
  <2>1. ~Fails(c)
    BY <1>1 DEF Fails, Typed
  <2>2. ~Consolidating(c) /\ ~UpdatingFacts(c) /\ ~Erasing(c)
    BY <1>1 DEF Consolidating, Remember, Counts, Summarised, WeighsSummary, StoresSummary, Lists,
                LooksForTurn, DropsTurn, UpdatingFacts, ForgetFact, FindsFact, LooksForFact, DropsFact,
                WeighsFact, StoresFact, Erasing, Forget, Clears, Unlinks, Waits
  <2> QED
    BY <1>1, <2>1, <2>2 DEF Step, Conversing, Observe, Load, Loaded, Waits
<1>3. DOMAIN records = Files /\ DOMAIN tail = Files /\ "conversation" \in Files
  BY MemoryAssumption DEF IInv, RoomKept, Typed, FilesTyped
<1>4. records'["conversation"] = Append(records["conversation"], t) /\ tail'["conversation"] = "clean"
  BY <1>1, <1>2, <1>3 DEF StoresTurn, AppendLine
<1>5. Filed(t)'
  <2>1. records["conversation"] \in Seq(Turn) /\ t \in Turn
    BY <1>1, HoldsNothing, ConversationTyped
  <2>2. /\ Len(records'["conversation"]) = Len(records["conversation"]) + 1
        /\ records'["conversation"][Len(records["conversation"]) + 1] = t
        /\ Len(records["conversation"]) \in Nat
    BY <1>4, <2>1
  <2> QED
    BY <1>4, <2>2 DEF Filed, Firm
<1>6. ASSUME NEW d \in Clients PROVE at'[d] # "drops_turn"
  <2>1. CASE d = c
    BY <1>1, <2>1, StepEffect DEF Effect, LookStep
  <2>2. CASE d # c
    BY <1>1, <2>2, StepEffect, OthersStay
  <2> QED
    BY <2>1, <2>2
<1> QED
  BY <1>5, <1>6 DEF Secured

\* A step leaves a turn that was acknowledged secured, or exposes or drops it.
LEMMA SecuredStays ==
  ASSUME IInv, Typed, Safe, NEW c \in Clients, Step(c), Learns(c),
         NEW t \in acked \ (dropped \union exposed), t \notin dropped' \union exposed'
  PROVE  Secured(t)'
<1>1. Effect(c) /\ FilesStep({c}) /\ {c} \subseteq Clients
  BY StepEffect, StepTouches
<1>2. Secured(t)
  BY DEF Safe
<1>3. at[c] # "unlinks"
  BY DEF Learns, Forgetting, Removable
<1>4. CASE Summed(t)
  BY <1>4, SummedOrDropped DEF Secured
<1>5. CASE ~Summed(t)
  <2>1. Filed(t) /\ \A d \in Clients : at[d] = "drops_turn" => Spares(d, t)
    BY <1>2, <1>5 DEF Secured
  <2>2. at[c] = "drops_turn" => Holds(kept[c], t)
    <3> SUFFICES ASSUME at[c] = "drops_turn", ~Holds(kept[c], t) PROVE FALSE
      OBVIOUS
    <3>1. Head(todo[c]) = t /\ c \in crossed
      BY <2>1 DEF Spares
    <3> QED
      BY <3>1 DEF Learns, Exposes
  <2>3. Filed(t)'
    BY <1>1, <1>3, <2>1, <2>2, FiledStays
  <2>4. ASSUME NEW d \in Clients, at'[d] = "drops_turn" PROVE Spares(d, t)'
    <3>1. CASE d # c
      <4>1. at[d] = "drops_turn" /\ kept'[d] = kept[d] /\ todo'[d] = todo[d]
        BY <1>1, <2>4, <3>1, OthersStay
      <4>2. Holds(kept[d], t) \/ (Head(todo[d]) = t /\ d \in crossed)
        BY <2>1, <4>1 DEF Spares
      <4>3. d \in crossed => d \in crossed'
        BY <2>4, <4>1, CompressingPlaces DEF Learns
      <4> QED
        BY <4>1, <4>2, <4>3 DEF Spares
    <3>2. CASE d = c
      <4>1. /\ at[c] = "looks_for_turn" /\ todo'[c] = todo[c]
            /\ kept'[c] = Filtered(records["conversation"], Head(todo[c]))
        BY <1>1, <2>4, <3>2 DEF Effect, LookStep
      <4>2. CASE t # Head(todo[c])
        <5>1. Holds(Filtered(records["conversation"], Head(todo[c])), t)
          BY <2>1, <4>2, FiledHolds, FilteredLeaves, ConversationTyped
        <5> QED
          BY <3>2, <4>1, <5>1 DEF Spares
      <4>3. CASE t = Head(todo[c])
        <5>1. c \in crossed
          <6> SUFFICES ASSUME c \notin crossed PROVE FALSE
            OBVIOUS
          <6>1. todo[c] \in Seq(Turn) /\ todo[c] # <<>> /\ owed[c] \in Nat \ {0}
            BY <4>1, HoldsNothing
          <6>2. 1 \in Pending(c) /\ todo[c][1] = t
            BY <4>3, <6>1 DEF Pending
          <6>3. PrunesSummed(c)
            BY DEF Safe, Undisturbed
          <6> QED
            BY <1>5, <4>1, <6>2, <6>3 DEF PrunesSummed
        <5>2. c \in crossed'
          BY <2>4, <3>2, <4>1, <5>1, CompressingPlaces DEF Learns
        <5> QED
          BY <3>2, <4>1, <4>3, <5>2 DEF Spares
      <4> QED
        BY <4>2, <4>3
    <3> QED
      BY <3>1, <3>2
  <2> QED
    BY <2>3, <2>4 DEF Secured
<1> QED
  BY <1>4, <1>5

-----------------------------------------------------------------------------
(* Undisturbed consolidations *)

LEMMA CrossedNext ==
  ASSUME Safe, NEW c \in Clients, Learns(c)
  PROVE  /\ crossed' \subseteq Clients
         /\ \A d \in Clients \ crossed' :
              at[d] \in Compressing /\ at'[d] \in Compressing =>
                /\ d \notin crossed /\ Undisturbed(d)
                /\ d # c => ~Disturbed
BY DEF Safe, Learns

\* Another client takes a step, and adds turns to the end of the cache and of the
\* file at most.
LEMMA OtherUndisturbed ==
  ASSUME IInv, Typed, Safe, NEW c \in Clients, Step(c), Learns(c), NEW d \in Clients \ {c},
         d \notin crossed'
  PROVE  Undisturbed(d)'
<1>1. /\ at'[d] = at[d] /\ batch'[d] = batch[d] /\ todo'[d] = todo[d] /\ owed'[d] = owed[d]
      /\ hit'[d] = hit[d]
  BY StepEffect, OthersStay
<1>2. CASE at[d] \notin Compressing
  BY <1>1, <1>2, CompressingPlaces DEF Undisturbed, BatchCached, PrunesSummed
<1>3. CASE at[d] \in Compressing
  <2>1. Undisturbed(d) /\ ~Disturbed
    BY <1>1, <1>3, CrossedNext
  <2>2. cache' = cache \/ (cache # NoCache /\ cache' # NoCache /\ IsPrefix(cache, cache'))
    BY <2>1 DEF Disturbed
  <2>3. ASSUME cache # NoCache
        PROVE  /\ cache' # NoCache /\ Len(cache) <= Len(cache') /\ Len(cache) \in Nat
               /\ Len(cache') \in Nat
               /\ cache \in Seq(Turn) /\ cache' \in Seq(Turn)
               /\ \A i \in 1 .. Len(cache) : cache'[i] = cache[i]
    <3>1. cache \in Seq(Turn)
      BY <2>3 DEF Typed, CacheTyped
    <3>2. cache' # NoCache
      BY <2>2, <2>3
    <3>3. cache' \in Seq(Turn)
      BY <3>2, StepTyped DEF Typed, CacheTyped
    <3>4. CASE cache' = cache
      BY <3>1, <3>2, <3>4
    <3>5. CASE IsPrefix(cache, cache')
      BY <3>1, <3>2, <3>3, <3>5, PrefixIs
    <3> QED
      BY <2>2, <3>4, <3>5
  <2>4. BatchCached(d)'
    <3> SUFFICES ASSUME batch'[d] # <<>>,
                        at'[d] \in {"summarises", "weighs_summary", "stores_summary"}
                 PROVE  /\ cache' # NoCache /\ Len(batch'[d]) <= Len(cache')
                        /\ \A i \in 1 .. Len(batch'[d]) : cache'[i] = batch'[d][i]
      BY DEF BatchCached
    <3>1. /\ cache # NoCache /\ Len(batch[d]) <= Len(cache)
          /\ \A i \in 1 .. Len(batch[d]) : cache[i] = batch[d][i]
      BY <1>1, <2>1 DEF Undisturbed, BatchCached
    <3>2. Len(batch[d]) \in Nat
      BY HoldsNothing
    <3> QED
      BY <1>1, <2>3, <3>1, <3>2
  <2>5. \A t : Holds(Cached, t) => Holds(Cached, t)'
    <3>1. CASE cache = NoCache
      BY <3>1, EmptyHoldsNothing DEF Cached
    <3>2. CASE cache # NoCache
      <4>1. \A t : Holds(cache, t) => Holds(cache', t)
        <5>1. DOMAIN cache = 1 .. Len(cache) /\ DOMAIN cache' = 1 .. Len(cache')
          BY <2>3, <3>2
        <5> QED
          BY <2>3, <3>2, <5>1 DEF Holds
      <4> QED
        BY <2>3, <3>2, <4>1 DEF Cached
    <3> QED
      BY <3>1, <3>2
  <2>6. PrunesSummed(d)'
    <3> SUFFICES ASSUME at'[d] \in {"looks_for_turn", "drops_turn"}
                 PROVE  /\ hit'[d] /\ Once(todo'[d])
                        /\ \A i \in Pending(d)' : Summed(todo[d][i])' \/ todo[d][i] \in dropped' \union exposed'
                        /\ \A i \in Pending(d)' \ {1} : Holds(Cached, todo[d][i])'
      BY <1>1 DEF PrunesSummed
    <3>1. Pending(d)' = Pending(d)
      BY <1>1 DEF Pending
    <3>2. /\ hit[d] /\ Once(todo[d])
          /\ \A i \in Pending(d) : Summed(todo[d][i]) \/ todo[d][i] \in dropped \union exposed
          /\ \A i \in Pending(d) \ {1} : Holds(Cached, todo[d][i])
      BY <1>1, <2>1 DEF Undisturbed, PrunesSummed
    <3>3. ASSUME NEW i \in Pending(d), NEW t, t = todo[d][i]
          PROVE  Summed(t)' \/ t \in dropped' \union exposed'
      <4>1. Summed(t) \/ t \in dropped \union exposed
        BY <3>2, <3>3
      <4>2. dropped \subseteq dropped' /\ exposed \subseteq exposed'
        BY DEF Learns
      <4> QED
        BY <4>1, <4>2, SummedOrDropped
    <3>4. ASSUME NEW i \in Pending(d) \ {1}, NEW t, t = todo[d][i] PROVE Holds(Cached, t)'
      BY <2>5, <3>2, <3>4
    <3> QED
      BY <1>1, <3>1, <3>2, <3>3, <3>4
  <2>7. at'[d] # "lists"
    BY <1>1, <2>1 DEF Undisturbed
  <2> QED
    BY <2>4, <2>6, <2>7 DEF Undisturbed
<1> QED
  BY <1>2, <1>3
\* A consolidation begins with the oldest turns of what the cache then is.
LEMMA BatchBegins ==
  ASSUME IInv, Typed, NEW c \in Clients, Step(c), at'[c] = "summarises"
  PROVE  cache' \in Seq(Turn) /\ Len(cache') > ConsolidateAfter /\ batch'[c] = Oldest(cache')
<1>0. /\ at \in [Clients -> Position] /\ LocalsOK /\ LocalsTyped /\ CacheTyped
      /\ records["conversation"] \in Seq(Turn)
  BY ConversationTyped DEF IInv, LocalsOK, Typed
<1>1. ASSUME NEW from, AfterObserve(c, from), cache' = cache
      PROVE  cache' \in Seq(Turn) /\ Len(cache') > ConsolidateAfter /\ batch'[c] = Oldest(cache')
  BY <1>0, <1>1, AfterObserveLocal DEF CacheTyped
<1>2. CASE Conversing(c)
  <2>1. CASE StoresTurn(c)
    <3>1. AfterObserve(c, "conversation") /\ cache' = cache
      BY <1>0, <2>1 DEF StoresTurn, To
    <3> QED
      BY <1>1, <3>1
  <2>2. CASE ~StoresTurn(c)
    BY <1>0, <1>2, <2>2, DoneLocal DEF Conversing, Observe, Load, Loaded, To
  <2> QED
    BY <2>1, <2>2
<1>3. CASE Consolidating(c)
  <2>1. Counts(c)
    BY <1>3, ConsolidatingLeads
  <2> QED
    BY <1>0, <2>1, CompressOrEndLocal DEF Counts
<1>4. CASE UpdatingFacts(c)
  <2>1. CASE WeighsFact(c)
    <3>1. AfterObserve(c, "project") /\ cache' = cache
      BY <1>0, <2>1 DEF WeighsFact, To
    <3> QED
      BY <1>1, <3>1
  <2>2. CASE StoresFact(c)
    BY <1>1, <2>2 DEF StoresFact
  <2> QED
    BY <1>4, <2>1, <2>2, UpdatingFactsLeads
<1>5. CASE Fails(c)
  <2>1. CASE at[c] \in OnFacts /\ Replaces(c)
    BY <1>1, <1>5, <2>1 DEF Fails
  <2>2. CASE ~(at[c] \in OnFacts /\ Replaces(c))
    BY <1>0, <1>5, <2>2, DoneLocal DEF Fails
  <2> QED
    BY <2>1, <2>2
<1>6. ~Erasing(c)
  BY ErasingLeads
<1> QED
  BY <1>2, <1>3, <1>4, <1>5, <1>6 DEF Step

\* Which action reaches the positions of a consolidation.
LEMMA ReachedBy ==
  ASSUME IInv, Typed, NEW c \in Clients, Step(c)
  PROVE  /\ at'[c] = "weighs_summary" => Remember(c) \/ Summarised(c)
         /\ at'[c] = "stores_summary" => WeighsSummary(c)
         /\ at'[c] = "lists" => StoresSummary(c)
         /\ at'[c] = "looks_for_turn" =>
              StoresSummary(c) \/ Lists(c) \/ LooksForTurn(c) \/ DropsTurn(c)
<1>1. /\ ~Consolidating(c) => at'[c] \notin {"weighs_summary", "stores_summary", "lists", "looks_for_turn"}
  BY ConversingLeads, UpdatingFactsLeads, ErasingLeads, FailsLeads DEF Step, OnFacts
<1> QED
  BY <1>1, ConsolidatingLeads

LEMMA OwnBatchCached ==
  ASSUME IInv, Typed, Safe, NEW c \in Clients, Step(c), Learns(c), c \notin crossed'
  PROVE  BatchCached(c)'
<1> SUFFICES ASSUME batch'[c] # <<>>,
                    at'[c] \in {"summarises", "weighs_summary", "stores_summary"}
             PROVE  /\ cache' # NoCache /\ Len(batch'[c]) <= Len(cache')
                    /\ \A i \in 1 .. Len(batch'[c]) : cache'[i] = batch'[c][i]
  BY DEF BatchCached
<1>1. CASE at'[c] = "summarises"
  <2>1. cache' \in Seq(Turn) /\ Len(cache') > ConsolidateAfter /\ batch'[c] = Oldest(cache')
    BY <1>1, BatchBegins
  <2>2. cache' # NoCache
    BY <2>1, MemoryAssumption
  <2> QED
    BY <2>1, <2>2, OldestComeFirst
<1>2. ASSUME at[c] \in {"summarises", "weighs_summary"}, batch' = batch, cache' = cache
      PROVE  /\ cache' # NoCache /\ Len(batch'[c]) <= Len(cache')
             /\ \A i \in 1 .. Len(batch'[c]) : cache'[i] = batch'[c][i]
  <2>1. Undisturbed(c)
    BY <1>2, CrossedNext, CompressingPlaces
  <2> QED
    BY <1>2, <2>1 DEF Undisturbed, BatchCached
<1>3. CASE at'[c] = "weighs_summary"
  <2>1. CASE Remember(c)
    <3>1. at[c] = "idle" /\ batch' = batch
      BY <2>1 DEF Remember
    <3>2. batch[c] = <<>>
      BY <3>1, HoldsNothing, CompressingPlaces
    <3> QED
      BY <3>1, <3>2
  <2>2. CASE Summarised(c)
    <3>1. at[c] = "summarises" /\ cache' = cache
      BY <2>2 DEF Summarised
    <3>2. batch' = batch
      <4>1. ~Done(c, Nowhere)
        BY <1>3, DoneLocal DEF IInv, Typed
      <4> QED
        BY <2>2, <4>1 DEF Summarised
    <3> QED
      BY <1>2, <3>1, <3>2
  <2> QED
    BY <1>3, <2>1, <2>2, ReachedBy
<1>4. CASE at'[c] = "stores_summary"
  <2>1. WeighsSummary(c)
    BY <1>4, ReachedBy
  <2>2. at[c] = "weighs_summary" /\ cache' = cache
    BY <2>1 DEF WeighsSummary, Waits
  <2>3. batch' = batch
    <3>1. ~Done(c, "long_term")
      BY <1>4, DoneLocal DEF IInv, Typed
    <3> QED
      BY <2>1, <3>1 DEF WeighsSummary
  <2> QED
    BY <1>2, <2>2, <2>3
<1> QED
  BY <1>1, <1>3, <1>4

\* The first deletion, of a record of the summary that was just stored.
LEMMA FirstDeletion ==
  ASSUME IInv, Typed, Numbered, Safe, NEW c \in Clients, Step(c), Learns(c), c \notin crossed',
         StoresSummary(c), at'[c] = "looks_for_turn"
  PROVE  PrunesSummed(c)'
<1>0. /\ at[c] = "stores_summary" /\ DOMAIN records = Files /\ DOMAIN tail = Files
      /\ "long_term" \in Files /\ LocalsOK /\ LocalsTyped
      /\ batch[c] \in Seq(Turn) /\ records["long_term"] \in Seq(SUBSET Turn)
  BY MemoryAssumption, ConversationTyped, HoldsNothing
     DEF StoresSummary, Waits, IInv, RoomKept, Typed, FilesTyped
<1>1. batch[c] # <<>>
  BY <1>0, DoneLocal DEF StoresSummary
<1>2. /\ cache # NoCache /\ Len(batch[c]) <= Len(cache)
      /\ \A i \in 1 .. Len(batch[c]) : cache[i] = batch[c][i]
  <2>1. Undisturbed(c)
    BY <1>0, CrossedNext, CompressingPlaces
  <2> QED
    BY <1>0, <1>1, <2>1 DEF Undisturbed, BatchCached
<1>3. /\ cache \in Seq(Turn) /\ Cached = cache /\ Once(cache)
      /\ Len(batch[c]) \in Nat /\ Len(cache) \in Nat
  BY <1>0, <1>2, ConversationTyped DEF Typed, CacheTyped, Numbered
<1>4. Prunes(c, cache, Len(batch[c]), cache)
  <2>1. PruneNext(c, "long_term", cache, Len(batch[c]), cache)
    BY <1>1, <1>2 DEF StoresSummary
  <2>2. at[c] \in Compressing
    BY <1>0, CompressingPlaces
  <2> QED
    BY <1>0, <1>3, <2>1, <2>2, PruneNextLocal
<1>5. /\ todo'[c] = cache /\ owed'[c] = Len(batch[c]) /\ cache # <<>>
      /\ hit'[c] = Holds(cache, Head(cache)) /\ cache' = Filtered(cache, Head(cache))
  BY <1>2, <1>4 DEF Prunes
<1>6. Head(cache) = cache[1] /\ 1 \in 1 .. Len(cache)
  BY <1>3, <1>5
<1>7. hit'[c] /\ Once(todo'[c])
  BY <1>3, <1>5, <1>6 DEF Holds
<1>8. ASSUME NEW t \in ToSet(batch[c]) PROVE Summed(t)' \/ t \in exposed'
  <2>1. CASE tail["long_term"] # "clean"
    BY <1>0, <1>8, <2>1 DEF Learns, Exposes
  <2>2. CASE tail["long_term"] = "clean"
    <3>1. /\ records'["long_term"] = Append(records["long_term"], ToSet(batch[c]))
          /\ tail'["long_term"] = "clean"
      BY <1>0, <2>2 DEF StoresSummary, AppendLine
    <3>2. ToSet(batch[c]) \in SUBSET Turn
      BY <1>0 DEF ToSet
    <3>3. /\ Len(records'["long_term"]) = Len(records["long_term"]) + 1
          /\ records'["long_term"][Len(records["long_term"]) + 1] = ToSet(batch[c])
          /\ Len(records["long_term"]) \in Nat
      BY <1>0, <3>1, <3>2
    <3> QED
      BY <1>8, <3>1, <3>3 DEF Summed, Firm
  <2> QED
    BY <2>1, <2>2
<1>9. ASSUME NEW i \in 1 .. Len(cache), i <= Len(batch[c]), NEW t, t = cache[i]
      PROVE  /\ Summed(t)' \/ t \in dropped' \union exposed'
             /\ i # 1 => Holds(Cached, t)'
  <2>1. t \in ToSet(batch[c])
    BY <1>0, <1>2, <1>9 DEF ToSet
  <2>2. Summed(t)' \/ t \in exposed'
    BY <1>8, <2>1
  <2>3. ASSUME i # 1 PROVE Holds(Cached, t)'
    <3>1. Holds(cache, t) /\ t # cache[1]
      BY <1>3, <1>6, <1>9, <2>3 DEF Holds, Once
    <3>2. Holds(Filtered(cache, Head(cache)), t) /\ Filtered(cache, Head(cache)) \in Seq(Turn)
      BY <1>3, <1>6, <3>1, FilteredLeaves
    <3> QED
      BY <1>5, <3>2, MemoryAssumption DEF Cached
  <2> QED
    BY <2>2, <2>3
<1> QED
  BY <1>5, <1>7, <1>9 DEF PrunesSummed, Pending

\* A deletion after another.
LEMMA NextDeletion ==
  ASSUME IInv, Typed, NEW c \in Clients, Step(c), Learns(c), at[c] \in {"looks_for_turn", "drops_turn"},
         PrunesSummed(c), Prunes(c, Tail(todo[c]), owed[c] - 1, cache)
  PROVE  PrunesSummed(c)'
<1> DEFINE s == todo[c]
           rest == Tail(todo[c])
<1>0. /\ s \in Seq(Turn) /\ s # <<>> /\ owed[c] \in Nat \ {0} /\ Cached \in Seq(Turn)
      /\ dropped \subseteq dropped' /\ exposed \subseteq exposed'
  BY HoldsNothing, ConversationTyped DEF Learns
<1>1. /\ todo'[c] = rest /\ owed'[c] = owed[c] - 1 /\ rest # <<>> /\ owed[c] - 1 # 0
      /\ hit'[c] = Holds(Cached, Head(rest)) /\ cache' = Filtered(Cached, Head(rest))
  BY DEF Prunes, Cached
<1>2. /\ rest \in Seq(Turn) /\ Len(rest) = Len(s) - 1 /\ Len(s) \in Nat
      /\ \A i \in 1 .. Len(rest) : i + 1 \in 1 .. Len(s) /\ rest[i] = s[i + 1]
  BY <1>0
<1>3. /\ Once(s)
      /\ \A i \in Pending(c) : Summed(s[i]) \/ s[i] \in dropped \union exposed
      /\ \A i \in Pending(c) \ {1} : Holds(Cached, s[i])
  BY DEF PrunesSummed
<1> HIDE DEF s, rest
<1>4. ASSUME NEW i \in 1 .. Len(rest), i <= owed[c] - 1
      PROVE  i + 1 \in Pending(c) \ {1} /\ rest[i] = s[i + 1]
  BY <1>0, <1>2, <1>4 DEF Pending, s
<1>5. Head(rest) = rest[1] /\ 1 \in 1 .. Len(rest) /\ 1 <= owed[c] - 1
  <2>1. Head(rest) = rest[1] /\ Len(rest) \in Nat \ {0}
    BY <1>1, <1>2, EmptySeq
  <2>2. 1 <= owed[c] - 1
    BY <1>0, <1>1
  <2> QED
    BY <2>1, <2>2
<1>6. hit'[c]
  BY <1>1, <1>3, <1>4, <1>5
<1>7. ASSUME NEW i \in 1 .. Len(rest), NEW j \in 1 .. Len(rest), rest[i] = rest[j]
      PROVE  i = j
  <2>1. i + 1 \in 1 .. Len(s) /\ j + 1 \in 1 .. Len(s) /\ s[i + 1] = s[j + 1]
    BY <1>2, <1>7
  <2>2. i + 1 = j + 1
    BY <1>3, <2>1 DEF Once
  <2> QED
    BY <2>2
<1>8. Cached' = Filtered(Cached, Head(rest))
  <2>1. Filtered(Cached, Head(rest)) \in Seq(Turn)
    BY <1>0, FilteredLeaves
  <2>2. cache' # NoCache
    BY <1>1, <2>1, MemoryAssumption
  <2>3. Cached' = cache'
    BY <2>2 DEF Cached
  <2> QED
    BY <1>1, <2>3
<1>9. ASSUME NEW i \in 1 .. Len(rest), i <= owed[c] - 1, NEW t, t = rest[i]
      PROVE  /\ Summed(t)' \/ t \in dropped' \union exposed'
             /\ i # 1 => Holds(Cached, t)'
  <2>1. /\ Summed(t) \/ t \in dropped \union exposed
        /\ Holds(Cached, t)
    BY <1>3, <1>4, <1>9
  <2>2. Summed(t)' \/ t \in dropped' \union exposed'
    BY <1>0, <2>1, SummedOrDropped
  <2>3. i # 1 => t # Head(rest)
    BY <1>5, <1>7, <1>9
  <2>4. i # 1 => Holds(Filtered(Cached, Head(rest)), t)
    BY <1>0, <2>1, <2>3, FilteredLeaves
  <2> QED
    BY <1>8, <2>2, <2>4
<1>10. Once(rest)
  BY <1>7 DEF Once
<1> QED
  BY <1>1, <1>6, <1>9, <1>10 DEF PrunesSummed, Pending

\* c itself takes a step.
LEMMA OwnPrunesSummed ==
  ASSUME IInv, Typed, Numbered, Safe, NEW c \in Clients, Step(c), Learns(c), c \notin crossed'
  PROVE  PrunesSummed(c)'
<1>0. LocalsOK /\ LocalsTyped /\ CacheTyped
  BY DEF IInv, Typed
<1>1. CASE at'[c] \notin {"looks_for_turn", "drops_turn"}
  BY <1>1 DEF PrunesSummed
<1>2. CASE at'[c] = "looks_for_turn"
  <2>1. CASE StoresSummary(c)
    BY <1>2, <2>1, FirstDeletion
  <2>2. CASE Lists(c)
    <3>1. at[c] = "lists"
      BY <2>2 DEF Lists, Waits
    <3> QED
      BY <1>2, <3>1, CrossedNext, CompressingPlaces DEF Undisturbed
  <2>3. ASSUME at[c] \in {"looks_for_turn", "drops_turn"}
        PROVE  /\ PrunesSummed(c) /\ hit[c]
               /\ Tail(todo[c]) \in Seq(Turn) /\ owed[c] - 1 \in Nat /\ at[c] \in Compressing
               /\ cache \in Seq(Turn) \union {NoCache}
    <3>1. PrunesSummed(c) /\ hit[c] /\ at[c] \in Compressing
      BY <1>2, <2>3, CrossedNext, CompressingPlaces DEF Undisturbed, PrunesSummed
    <3> QED
      BY <1>0, <2>3, <3>1, HoldsNothing, HeadTailProperties DEF CacheTyped
  <2>4. CASE LooksForTurn(c)
    <3>1. at[c] = "looks_for_turn"
      BY <2>4 DEF LooksForTurn, Waits
    <3>2. ~Holds(records["conversation"], Head(todo[c]))
      <4> SUFFICES ASSUME Holds(records["conversation"], Head(todo[c])) PROVE at'[c] = "drops_turn"
        BY <1>2
      <4> QED
        BY <2>4 DEF LooksForTurn, To, IInv, LocalsOK
    <3>3. PruneNext(c, "conversation", Tail(todo[c]), owed[c] - 1, cache)
      BY <2>3, <2>4, <3>1, <3>2 DEF LooksForTurn
    <3>4. Prunes(c, Tail(todo[c]), owed[c] - 1, cache)
      BY <1>0, <1>2, <2>3, <3>1, <3>3, PruneNextLocal
    <3> QED
      BY <2>3, <3>1, <3>4, NextDeletion
  <2>5. CASE DropsTurn(c)
    <3>1. at[c] = "drops_turn" /\ PruneNext(c, "conversation", Tail(todo[c]), owed[c] - 1, cache)
      BY <2>5 DEF DropsTurn, Waits
    <3>2. Prunes(c, Tail(todo[c]), owed[c] - 1, cache)
      BY <1>0, <1>2, <2>3, <3>1, PruneNextLocal
    <3> QED
      BY <2>3, <3>1, <3>2, NextDeletion
  <2> QED
    BY <1>2, <2>1, <2>2, <2>4, <2>5, ReachedBy
<1>3. CASE at'[c] = "drops_turn"
  <2>1. at[c] = "looks_for_turn"
    BY <1>3, StepEffect DEF Effect, LookStep
  <2>2. LooksForTurn(c)
    <3>1. ~Conversing(c) /\ ~UpdatingFacts(c) /\ ~Erasing(c) /\ ~Fails(c)
      BY <1>3, ConversingLeads, UpdatingFactsLeads, ErasingLeads, FailsLeads DEF OnFacts
    <3> QED
      BY <2>1, <3>1 DEF Step, Consolidating, Remember, Counts, Summarised, WeighsSummary,
                        StoresSummary, Lists, DropsTurn, Waits
  <2>3. /\ todo'[c] = todo[c] /\ owed'[c] = owed[c] /\ hit'[c] = hit[c] /\ cache' = cache
    <3>1. CASE Holds(records["conversation"], Head(todo[c]))
      BY <2>2, <3>1 DEF LooksForTurn
    <3>2. CASE ~Holds(records["conversation"], Head(todo[c]))
      <4>1. Tail(todo[c]) \in Seq(Turn) /\ at[c] \in Compressing
            /\ (IF hit[c] THEN owed[c] - 1 ELSE owed[c]) \in Nat
        BY <1>0, <2>1, HoldsNothing, HeadTailProperties, CompressingPlaces
      <4>2. at'[c] \in {"idle", "looks_for_turn"}
        BY <1>0, <2>2, <3>2, <4>1, PruneNextLocal DEF LooksForTurn, CacheTyped
      <4> QED
        BY <1>3, <4>2
    <3> QED
      BY <3>1, <3>2
  <2>4. /\ hit[c] /\ Once(todo[c])
        /\ \A i \in Pending(c) : Summed(todo[c][i]) \/ todo[c][i] \in dropped \union exposed
        /\ \A i \in Pending(c) \ {1} : Holds(Cached, todo[c][i])
    BY <1>3, <2>1, CrossedNext, CompressingPlaces DEF Undisturbed, PrunesSummed
  <2>5. ASSUME NEW i \in Pending(c), NEW t, t = todo[c][i]
        PROVE  Summed(t)' \/ t \in dropped' \union exposed'
    <3>1. Summed(t) \/ t \in dropped \union exposed
      BY <2>4, <2>5
    <3>2. dropped \subseteq dropped' /\ exposed \subseteq exposed'
      BY DEF Learns
    <3> QED
      BY <3>1, <3>2, SummedOrDropped
  <2>6. Pending(c)' = Pending(c) /\ Cached' = Cached
    BY <2>3 DEF Pending, Cached
  <2>7. ASSUME NEW i \in Pending(c)' PROVE Summed(todo[c][i])' \/ todo'[c][i] \in dropped' \union exposed'
    BY <2>3, <2>5, <2>6
  <2> QED
    BY <2>3, <2>4, <2>6, <2>7 DEF PrunesSummed
<1> QED
  BY <1>1, <1>2, <1>3

LEMMA StepSafe ==
  ASSUME IInv, Typed, Numbered, Safe, NEW c \in Clients, Step(c), Learns(c)
  PROVE  Safe'
<1>1. crossed' \subseteq Clients
  BY CrossedNext
<1>2. ASSUME NEW t \in acked' \ (dropped' \union exposed') PROVE Secured(t)'
  <2>1. t \notin dropped \union exposed
    BY DEF Learns
  <2>2. CASE t \in acked
    BY <2>1, <2>2, SecuredStays
  <2>3. CASE t \notin acked
    <3>1. Arrives(c) /\ t = turn[c]
      BY <2>3 DEF Learns
    <3> QED
      BY <3>1, ArrivalFiled
  <2> QED
    BY <2>2, <2>3
<1>3. ASSUME c \notin crossed' PROVE Undisturbed(c)'
  <2>1. at'[c] # "lists"
    <3> SUFFICES ASSUME at'[c] = "lists" PROVE FALSE
      OBVIOUS
    <3>1. StoresSummary(c)
      BY ReachedBy
    <3>2. at[c] = "stores_summary"
      BY <3>1 DEF StoresSummary, Waits
    <3>3. batch[c] # <<>>
      BY <3>1, DoneLocal DEF StoresSummary, IInv, Typed
    <3>4. cache # NoCache
      <4>1. Undisturbed(c)
        BY <1>3, <3>2, CrossedNext, CompressingPlaces
      <4> QED
        BY <3>2, <3>3, <4>1 DEF Undisturbed, BatchCached
    <3>5. PruneNext(c, "long_term", cache, Len(batch[c]), cache)
      BY <3>1, <3>3, <3>4 DEF StoresSummary
    <3>6. cache \in Seq(Turn) /\ Len(batch[c]) \in Nat /\ at[c] \in Compressing
      BY <3>2, <3>4, HoldsNothing, CompressingPlaces DEF Typed, CacheTyped
    <3>7. at'[c] \in {"idle", "looks_for_turn"}
      BY <3>5, <3>6, PruneNextLocal DEF IInv, Typed
    <3> QED
      BY <3>7
  <2> QED
    BY <1>3, <2>1, OwnBatchCached, OwnPrunesSummed DEF Undisturbed
<1>4. ASSUME NEW d \in Clients, d \notin crossed' PROVE Undisturbed(d)'
  BY <1>3, <1>4, OtherUndisturbed
<1> QED
  BY <1>1, <1>2, <1>4 DEF Safe

LEMMA CrashSafe ==
  ASSUME IInv, Typed, Safe, Crash, LearnsOfCrash
  PROVE  Safe'
<1>1. /\ \A c \in Clients : at'[c] = "idle"
      /\ acked' = acked /\ crossed' = {} /\ dropped \subseteq dropped'
      /\ exposed' = exposed \union UNION {Exposes(c) : c \in {d \in Clients : at[d] = "drops_turn"}}
      /\ (\E c \in Clients : at[c] = "unlinks") => acked \subseteq dropped'
  BY DEF Crash, LearnsOfCrash, Forgetting, Removable
<1>2. ASSUME NEW t \in acked \ (dropped' \union exposed') PROVE Secured(t)'
  <2>1. Secured(t) /\ \A c \in Clients : at[c] # "unlinks"
    BY <1>1, <1>2 DEF Safe
  <2>2. CASE Summed(t)
    BY <2>1, <2>2, CrashTouches, SummedStays DEF Secured
  <2>3. CASE ~Summed(t)
    <3>1. Filed(t) /\ \A d \in Clients : at[d] = "drops_turn" => Spares(d, t)
      BY <2>1, <2>3 DEF Secured
    <3>2. ASSUME NEW c \in Clients, at[c] = "drops_turn" PROVE Holds(kept[c], t)
      <4> SUFFICES ASSUME ~Holds(kept[c], t) PROVE FALSE
        OBVIOUS
      <4>1. t \in Exposes(c)
        BY <3>1, <3>2 DEF Spares, Exposes
      <4> QED
        BY <1>1, <1>2, <3>2, <4>1
    <3>3. Filed(t)'
      BY <2>1, <3>1, <3>2, CrashTouches, FiledStays
    <3> QED
      BY <1>1, <3>3 DEF Secured
  <2> QED
    BY <2>2, <2>3
<1>3. \A d \in Clients : Undisturbed(d)'
  BY <1>1 DEF Undisturbed, BatchCached, PrunesSummed
<1> QED
  BY <1>1, <1>2, <1>3 DEF Safe

LEMMA InitSafe == ASSUME Init PROVE Safe
<1>1. acked = {} /\ crossed = {} /\ at = [c \in Clients |-> "idle"]
  BY DEF Init
<1> QED
  BY <1>1 DEF Safe, Undisturbed, BatchCached, PrunesSummed

LEMMA SafeAlways == Spec => []Safe
<1>1. Init => Safe
  BY InitSafe
<1>2. IInv /\ Typed /\ Numbered /\ Safe /\ [Next]_vars => Safe'
  <2> SUFFICES ASSUME IInv, Typed, Numbered, Safe, [Next]_vars PROVE Safe'
    OBVIOUS
  <2>1. ASSUME NEW c \in Clients, Step(c), Learns(c) PROVE Safe'
    BY <2>1, StepSafe
  <2>2. CASE Crash /\ LearnsOfCrash
    BY <2>2, CrashSafe
  <2>3. CASE UNCHANGED vars
    BY <2>3 DEF vars, fileVars, localVars, boundVars, historyVars, Safe, Secured, Filed, Summed, Firm,
                Spares, Undisturbed, BatchCached, PrunesSummed, Pending, Cached
  <2> QED
    BY <2>1, <2>2, <2>3 DEF Next
<1> QED
  BY <1>1, <1>2, Invariant, TypedAlways, NumberedAlways, PTL DEF Spec

\* Remembered for any clients, turns and limits, through failures and crashes: a turn
\* whose observation was acknowledged is in the conversation's file or in a summary
\* that is in the long-term file, unless a forget was to remove it or it met one of
\* the known losses.
THEOREM TurnsAreRemembered == Spec => []Remembered
<1>1. Typed /\ Safe => Remembered
  <2> SUFFICES ASSUME Typed, Safe, NEW t \in acked \ (dropped \union exposed)
               PROVE  \/ Holds(records["conversation"], t)
                      \/ \E i \in DOMAIN records["long_term"] : t \in records["long_term"][i]
    BY DEF Remembered
  <2>1. Summed(t) \/ Filed(t)
    BY DEF Safe, Secured
  <2>2. DOMAIN records["long_term"] = 1 .. Len(records["long_term"])
    BY ConversationTyped
  <2> QED
    BY <2>1, <2>2, FiledHolds DEF Summed, Firm
<1> QED
  BY <1>1, TypedAlways, SafeAlways, PTL
=============================================================================
