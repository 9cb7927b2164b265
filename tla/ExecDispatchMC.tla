--------------------------- MODULE ExecDispatchMC ---------------------------
(* An instance of ExecDispatch for TLC: two sockets of one agent and one   *)
(* of another, and a call to each agent.                                   *)
EXTENDS ExecDispatch

CONSTANTS a1, a2, c1, c2, c3, r1, r2

TwoHosts == [c \in {c1, c2, c3} |-> IF c = c3 THEN a2 ELSE a1]
Targets  == [r \in {r1, r2} |-> IF r = r1 THEN a1 ELSE a2]
=============================================================================
