------------------------------ MODULE MCMemory ------------------------------
(* Instance of Memory for TLC: two clients, five turns of which two state   *)
(* the fact, a limit of three turns with consolidation above two, one       *)
(* forget and one mishap.                                                   *)
EXTENDS Memory, TLC

CONSTANTS c1, c2

MCClients == {c1, c2}
MCFiles == {"long_term", "conversation", "project"}
MCFactTurns == {1, 2}
MCSymmetry == Permutations(MCClients)
=============================================================================
