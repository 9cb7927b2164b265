--------------------------- MODULE AgentSessionMC ---------------------------
(* Instances of AgentSession for TLC.                                      *)
EXTENDS AgentSession

CONSTANTS a1, a2, c1, c2, c3, c4, k1, k2

(* Three sockets of one agent, so that an old, a newer and a newest one    *)
(* overlap; in one run a fourth that the server refuses.                   *)
OneAgentHosts  == [c \in Conns |-> a1]
OneToken       == [c \in Conns |-> k1]

(* Two hosts that were given the same token (a cloned image); the second   *)
(* sockets of both present the legacy secret, and the last of them         *)
(* declares a protocol version the server refuses.                         *)
TwoHosts       == [c \in {c1, c2, c3, c4} |-> IF c \in {c2, c4} THEN a2 ELSE a1]
TwoTokens      == [c \in {c1, c2, c3, c4} |-> IF c \in {c3, c4} THEN k2 ELSE k1]
=============================================================================
