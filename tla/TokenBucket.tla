---------------------------- MODULE TokenBucket ----------------------------
(***************************************************************************)
(* The rate limiter in front of every device and every provider            *)
(* (eden/utils/ratelimit.py).  TokenBucket credits nothing as time passes: *)
(* it remembers when it last looked at the clock and works out what was    *)
(* earned when somebody asks.  acquire holds the bucket's lock while it    *)
(* sleeps, so the waiters behind it queue for the lock in order of         *)
(* arrival.                                                                *)
(*                                                                         *)
(* The unit of time is what one token takes to earn, and every command     *)
(* costs one token; the age of the last refill stops counting at the       *)
(* capacity, beyond which it earns nothing more.                           *)
(***************************************************************************)
EXTENDS Naturals, Sequences

CONSTANTS
  Buckets,    \* the limiters, one to each device that has a quota
  Callers,    \* the tasks that call acquire
  Capacity    \* the burst: requests_per_minute, at least 1

ASSUME CapacityAssumption == Capacity \in Nat \ {0}

VARIABLES
  tokens,     \* _tokens
  age,        \* how long ago _updated_at was
  lockQueue,  \* the callers that hold or wait for _lock, the holder first
  nap         \* whether the holder's sleep has still to run

bucketVars == <<tokens, age, lockQueue, nap>>

-----------------------------------------------------------------------------

Smaller(a, b) == IF a <= b THEN a ELSE b

\* Faulty variant: the time that passed is not credited.
NothingEarned(b) == tokens[b]

Refilled(b) == Smaller(Capacity, tokens[b] + age[b])

\* Faulty variant: the time is credited and the marker left where it was.
KeepsTheMarker(b) == age[b]

\* The age the refill leaves behind it.
Marker(b) == 0

BucketInit ==
  /\ tokens = [b \in Buckets |-> Capacity]
  /\ age = [b \in Buckets |-> 0]
  /\ lockQueue = [b \in Buckets |-> <<>>]
  /\ nap = [b \in Buckets |-> FALSE]

\* A refill that finds a token and spends it, and one that does not.
Spend(b) ==
  /\ Refilled(b) >= 1
  /\ tokens' = [tokens EXCEPT ![b] = Refilled(b) - 1]
  /\ age' = [age EXCEPT ![b] = Marker(b)]

FindNone(b) ==
  /\ Refilled(b) < 1
  /\ tokens' = [tokens EXCEPT ![b] = Refilled(b)]
  /\ age' = [age EXCEPT ![b] = Marker(b)]

\* acquire finds the lock free and a token in the bucket: it does not wait.
AdmitAtOnce(b) ==
  /\ lockQueue[b] = <<>>
  /\ Spend(b)
  /\ UNCHANGED <<lockQueue, nap>>

\* acquire finds the lock free and the bucket empty, and sleeps with the lock for
\* as long as the deficit takes to earn; or it finds the lock taken.
Arrive(b, c) ==
  /\ IF lockQueue[b] = <<>>
     THEN FindNone(b) /\ nap' = [nap EXCEPT ![b] = TRUE]
     ELSE UNCHANGED <<tokens, age, nap>>
  /\ lockQueue' = [lockQueue EXCEPT ![b] = Append(@, c)]

\* The caller wakes up, or is handed the lock.
Holds(b, c) == lockQueue[b] # <<>> /\ Head(lockQueue[b]) = c /\ ~nap[b]

Grant(b, c) ==
  /\ Holds(b, c)
  /\ Spend(b)
  /\ lockQueue' = [lockQueue EXCEPT ![b] = Tail(@)]
  /\ UNCHANGED nap

Sleep(b, c) ==
  /\ Holds(b, c)
  /\ FindNone(b)
  /\ nap' = [nap EXCEPT ![b] = TRUE]
  /\ UNCHANGED lockQueue

\* A caller is cancelled while it waits or sleeps: the lock passes on.
GiveUp(b, c) ==
  /\ nap' = [nap EXCEPT ![b] = @ /\ Head(lockQueue[b]) # c]
  /\ lockQueue' = [lockQueue EXCEPT ![b] = LET Others(w) == w # c
                                           IN SelectSeq(@, Others)]
  /\ UNCHANGED <<tokens, age>>

TimePasses ==
  /\ age' = [b \in Buckets |-> Smaller(Capacity, age[b] + 1)]
  /\ nap' = [b \in Buckets |-> FALSE]
  /\ UNCHANGED <<tokens, lockQueue>>

-----------------------------------------------------------------------------

\* The bucket that earns as time passes, of which this one is the lazy form.
Eager == INSTANCE EagerBucket WITH level <- [b \in Buckets |-> Refilled(b)]

=============================================================================
