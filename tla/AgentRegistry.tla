--------------------------- MODULE AgentRegistry ---------------------------
(***************************************************************************)
(* What the rest of the server may rely on about AppState.agents           *)
(* (src/src/main.rs): an abstract view of the connections of AgentSession, *)
(* without registration's inner steps and without the webhooks.            *)
(*                                                                         *)
(* A connection is "new" until it registers and "live" until its teardown  *)
(* has looked at the registry, "removed" when it took its entry out and    *)
(* has still to purge what other components hold for the agent, and "over" *)
(* after that.                                                             *)
(***************************************************************************)
CONSTANTS Conns, Agents, NoConn, HostOf

ASSUME RegistryAssumption ==
  /\ NoConn \notin Conns
  /\ HostOf \in [Conns -> Agents]

VARIABLES
  agents,    \* whose channel each agent id maps to
  link       \* how far each connection has got

registry == <<agents, link>>

SocketsOf(a) == {c \in Conns : HostOf[c] = a}

RegistryInit ==
  /\ agents = [a \in Agents |-> NoConn]
  /\ link = [c \in Conns |-> "new"]

(* A Register message: our channel replaces whatever is there.             *)
Insert(c) ==
  /\ link[c] \in {"new", "live"}
  /\ agents' = [agents EXCEPT ![HostOf[c]] = c]
  /\ link' = [link EXCEPT ![c] = "live"]

(* The socket is gone and the entry is not ours: nothing else happens.     *)
Skip(c) ==
  /\ link[c] \in {"new", "live"}
  /\ agents[HostOf[c]] # c
  /\ link' = [link EXCEPT ![c] = "over"]
  /\ UNCHANGED agents

(* The socket is gone and the entry is ours: it is taken out.              *)
Remove(c) ==
  /\ link[c] = "live"
  /\ agents[HostOf[c]] = c
  /\ agents' = [agents EXCEPT ![HostOf[c]] = NoConn]
  /\ link' = [link EXCEPT ![c] = "removed"]

(* What was held for the agent is purged, under locks of its own.          *)
Release(c) ==
  /\ link[c] = "removed"
  /\ link' = [link EXCEPT ![c] = "over"]
  /\ UNCHANGED agents

RegistryNext == \E c \in Conns : Insert(c) \/ Skip(c) \/ Remove(c) \/ Release(c)

RegistrySpec == RegistryInit /\ [][RegistryNext]_registry

-----------------------------------------------------------------------------
(* Every variable has its type.                                            *)
RegistryTypeOK ==
  /\ agents \in [Agents -> Conns \cup {NoConn}]
  /\ link \in [Conns -> {"new", "live", "removed", "over"}]

(* The registry leads to connections that are live and of that host.       *)
LeadsToLive ==
  \A a \in Agents : agents[a] # NoConn =>
    link[agents[a]] = "live" /\ HostOf[agents[a]] = a
=============================================================================
