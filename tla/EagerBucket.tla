---------------------------- MODULE EagerBucket ----------------------------
(* What a rate limiter promises: a bucket that holds at most Capacity       *)
(* permits, earns one per unit of time as it passes, and admits a command   *)
(* only by giving one up.                                                   *)
EXTENDS Naturals

CONSTANTS
  Buckets,    \* the limiters
  Capacity    \* the burst each of them allows

VARIABLE level    \* the permits in each bucket

Lesser(a, b) == IF a <= b THEN a ELSE b

Init == level = [b \in Buckets |-> Capacity]

Earn == level' = [b \in Buckets |-> Lesser(Capacity, level[b] + 1)]

Take(b) ==
  /\ level[b] > 0
  /\ level' = [level EXCEPT ![b] = @ - 1]

Next == Earn \/ \E b \in Buckets : Take(b)

Spec == Init /\ [][Next]_level
=============================================================================
