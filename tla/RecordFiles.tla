---------------------------- MODULE RecordFiles ----------------------------
(***************************************************************************)
(* The JSON Lines repositories that durable memory is kept in              *)
(* (JsonlRecordRepository of eden/memory/repository.py).                   *)
(*                                                                         *)
(* Each store has a repository of its own, with one asyncio.Lock, and one  *)
(* namespace is looked at, so a repository is one file.  A call waits for  *)
(* the lock, which is handed on in the order of arrival, does its work in  *)
(* a worker thread while it holds it, and gives it back; no other call     *)
(* sees the file in between, so the work and the return are one step, taken *)
(* when the caller is first in the queue.  A deletion is two such calls, a *)
(* read and a rewrite, and the lock is free between them.                  *)
(*                                                                         *)
(* A line a reader cannot parse is skipped, by every reader and for ever,  *)
(* so the file is the sequence of the records that can be read, and the    *)
(* state of its last line, which is the only unreadable one that matters:  *)
(* what is appended after a line without its newline becomes part of it.   *)
(***************************************************************************)
EXTENDS Naturals, Sequences

CONSTANTS
  Clients,    \* coroutines that use the repositories
  Files       \* the repositories

VARIABLES
  records,    \* the readable lines of each file, oldest first
  tail,       \* its last line: "clean", cut short ("part"), or a whole record
              \* without its newline ("whole")
  queue       \* who waits for the lock of each repository, its holder first

fileVars == <<records, tail, queue>>

LastLine == {"clean", "part", "whole"}
Nowhere == "nowhere"

FilesInit ==
  /\ records = [f \in Files |-> <<>>]
  /\ tail = [f \in Files |-> "clean"]
  /\ queue = [f \in Files |-> <<>>]

First(c, f) == queue[f] # <<>> /\ Head(queue[f]) = c

\* Faulty variant: the lock is given back and never waited for.
GoesUnlocked(c, from, to) ==
  queue' = [f \in Files |-> IF f = from THEN Tail(queue[f]) ELSE queue[f]]

\* c gives back the lock of the file it comes from and joins the queue of the
\* one its next call is about; either may be Nowhere.
Goes(c, from, to) ==
  queue' = [f \in Files |->
              LET rest == IF f = from THEN Tail(queue[f]) ELSE queue[f]
              IN IF f = to THEN Append(rest, c) ELSE rest]

\* The readable records but for the last one, when it has no newline: whatever
\* is appended to its line makes that line unreadable.
Ended(f) ==
  IF tail[f] = "whole" THEN SubSeq(records[f], 1, Len(records[f]) - 1) ELSE records[f]

\* _append_sync
AppendLine(f, r) ==
  /\ records' = [records EXCEPT ![f] = IF tail[f] = "clean" THEN Append(@, r) ELSE Ended(f)]
  /\ tail' = [tail EXCEPT ![f] = "clean"]

\* How much of the line is in the file when the write is cut off, by an error
\* or by the end of the process.
Cuts == {"nothing", "part", "whole", "line"}

AfterCut(f, r, cut) ==
  CASE cut = "nothing" -> records[f]
    [] cut = "part" -> Ended(f)
    [] OTHER -> IF tail[f] = "clean" THEN Append(records[f], r) ELSE Ended(f)

TailAfterCut(f, cut) ==
  CASE cut = "nothing" -> tail[f]
    [] cut = "line" -> "clean"
    [] OTHER -> IF tail[f] = "clean" THEN cut ELSE "part"

\* _replace_sync: the file is renamed over, whole.  _unlink_sync leaves what
\* rewriting it with nothing would.
Rewrite(f, kept) ==
  /\ records' = [records EXCEPT ![f] = kept]
  /\ tail' = [tail EXCEPT ![f] = "clean"]

Unlink(f) == Rewrite(f, <<>>)

FilesTypeOK ==
  /\ DOMAIN records = Files
  /\ tail \in [Files -> LastLine]
  /\ queue \in [Files -> Seq(Clients)]
  /\ \A f \in Files : tail[f] = "whole" => records[f] # <<>>
=============================================================================
