--------------------------- MODULE ActionPipeline ---------------------------
(***************************************************************************)
(* What the execution engine promises to the rest of EDEN, without saying  *)
(* how: an action changes the world only after it was granted and never    *)
(* after its outcome was fixed; what was declined never acts; an outcome,  *)
(* once given, stands.  Preparations, risk, gates, threads, rollback and   *)
(* the journal are the business of ExecutionEngine, which implements this. *)
(***************************************************************************)
CONSTANTS
  Tasks,     \* one action each
  Worlds,    \* the states of the world
  Declined,  \* outcomes of actions that were not executed
  Executed,  \* outcomes of actions that were
  None       \* no outcome yet

VARIABLES world, stage, outcome

vars == <<world, stage, outcome>>

Stage == {"open",      \* not decided yet
          "granted",   \* may act
          "settled",   \* has its outcome
          "withdrawn", \* gave up before it was granted
          "orphaned"}  \* gave up after it was granted: may still act

TypeOK ==
  /\ world \in Worlds
  /\ stage \in [Tasks -> Stage]
  /\ outcome \in [Tasks -> Declined \cup Executed \cup {None}]

Init ==
  /\ world \in Worlds
  /\ stage = [t \in Tasks |-> "open"]
  /\ outcome = [t \in Tasks |-> None]

Grant(t) ==
  /\ stage[t] = "open"
  /\ stage' = [stage EXCEPT ![t] = "granted"]
  /\ UNCHANGED <<world, outcome>>

Decline(t) ==
  /\ stage[t] = "open"
  /\ stage' = [stage EXCEPT ![t] = "settled"]
  /\ \E o \in Declined : outcome' = [outcome EXCEPT ![t] = o]
  /\ UNCHANGED world

Act(t) ==
  /\ stage[t] \in {"granted", "orphaned"}
  /\ world' \in Worlds
  /\ UNCHANGED <<stage, outcome>>

Settle(t) ==
  /\ stage[t] = "granted"
  /\ stage' = [stage EXCEPT ![t] = "settled"]
  /\ \E o \in Executed : outcome' = [outcome EXCEPT ![t] = o]
  /\ UNCHANGED world

GiveUp(t) ==
  /\ \/ stage[t] = "open" /\ stage' = [stage EXCEPT ![t] = "withdrawn"]
     \/ stage[t] = "granted" /\ stage' = [stage EXCEPT ![t] = "orphaned"]
  /\ UNCHANGED <<world, outcome>>

Next == \E t \in Tasks : Grant(t) \/ Decline(t) \/ Act(t) \/ Settle(t) \/ GiveUp(t)

Spec == Init /\ [][Next]_vars
=============================================================================
