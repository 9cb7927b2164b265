----------------------------- MODULE ProbePush -----------------------------
(***************************************************************************)
(* How the health probes of an agent reach it (src/src/health.rs): every   *)
(* upsert and delete of a probe, and every registration of an agent        *)
(* (src/src/main.rs), is followed by push_to_agent, which reads the        *)
(* agent's probes from the database and later sends them, under the        *)
(* registry's lock, to whatever socket the registry then leads to.         *)
(*                                                                         *)
(* The module is about one agent's probes.  A set of probes is known by    *)
(* the number of changes it shows.                                         *)
(***************************************************************************)
EXTENDS AgentRegistry, Integers

CONSTANTS
  Agent,         \* the agent whose probes these are
  Handlers,      \* calls of upsert_handler and delete_handler
  MaxRevisions   \* bound: changes of the probes

ASSUME ProbesAssumption ==
  /\ Agent \in Agents
  /\ Handlers \cap Conns = {}
  /\ MaxRevisions \in Nat

VARIABLES
  revision,      \* changes of the agent's rows in health_probes
  push,          \* what each caller of push_to_agent is doing, and with what set
  pushed,        \* history: the newest set each socket was sent, -1 for none
  unpushed       \* history: the newest change whose handler was cut off, or -1

probeVars == <<agents, link, revision, push, pushed, unpushed>>

Pushers == Handlers \cup {c \in Conns : HostOf[c] = Agent}
NoPush  == [at |-> "idle", set |-> 0]

ProbesInit ==
  /\ RegistryInit
  /\ revision = 0
  /\ push = [p \in Pushers |-> NoPush]
  /\ pushed = [c \in SocketsOf(Agent) |-> -1]
  /\ unpushed = -1

OwePush(p, n) ==
  /\ push[p].at = "idle"
  /\ push' = [push EXCEPT ![p] = [at |-> "owed", set |-> n]]

(* upsert_health_probe, or delete_health_probe of a row that is there.     *)
ChangeProbes(h) ==
  /\ revision < MaxRevisions
  /\ revision' = revision + 1
  /\ OwePush(h, revision')
  /\ UNCHANGED <<registry, pushed, unpushed>>

(* The client hangs up, and the handler ends at an await: the change has   *)
(* been made and is not pushed.                                            *)
HangUpPush(h) ==
  /\ push[h].at # "idle"
  /\ push' = [push EXCEPT ![h] = NoPush]
  /\ unpushed' = IF push[h].set > unpushed THEN push[h].set ELSE unpushed
  /\ UNCHANGED <<registry, revision, pushed>>

(* Mutant: a new socket is not pushed the probes.                          *)
RegisterWithoutPush(c) ==
  /\ Insert(c)
  /\ UNCHANGED <<revision, push, pushed, unpushed>>

RegisterAgent(c) ==
  /\ Insert(c)
  /\ OwePush(c, revision)
  /\ UNCHANGED <<revision, pushed, unpushed>>

ReadProbes(p) ==
  /\ push[p].at = "owed"
  /\ push' = [push EXCEPT ![p] = [at |-> "read", set |-> revision]]
  /\ UNCHANGED <<registry, revision, pushed, unpushed>>

(* Under the registry's lock; nothing is sent to an agent that is offline. *)
SendProbes(p) ==
  LET c == agents[Agent] IN
  /\ push[p].at = "read"
  /\ push' = [push EXCEPT ![p] = NoPush]
  /\ pushed' = IF c # NoConn /\ pushed[c] < push[p].set
               THEN [pushed EXCEPT ![c] = push[p].set] ELSE pushed
  /\ unpushed' = IF push[p].set >= unpushed THEN -1 ELSE unpushed
  /\ UNCHANGED <<registry, revision>>

(* A socket ends between two messages.                                     *)
EndSocket(c) ==
  /\ Skip(c) \/ Remove(c) \/ Release(c)
  /\ push[c].at = "idle"
  /\ UNCHANGED <<revision, push, pushed, unpushed>>

ProbesNext ==
  \/ \E h \in Handlers : ChangeProbes(h) \/ HangUpPush(h)
  \/ \E c \in SocketsOf(Agent) : RegisterAgent(c) \/ EndSocket(c)
  \/ \E p \in Pushers : ReadProbes(p) \/ SendProbes(p)

ProbesSpec == ProbesInit /\ [][ProbesNext]_probeVars

-----------------------------------------------------------------------------
(* Properties.                                                             *)

(* Every variable has its type.                                            *)
ProbesTypeOK ==
  /\ RegistryTypeOK
  /\ revision \in 0..MaxRevisions
  /\ push \in [Pushers ->
                [at : {"idle", "owed", "read"}, set : 0..MaxRevisions]]
  /\ pushed \in [SocketsOf(Agent) -> -1..MaxRevisions]
  /\ unpushed \in -1..MaxRevisions

(* No change is kept from a connected agent ("they'll be pushed on next    *)
(* register"): when no push is under way, the socket the registry leads to *)
(* has been sent the newest set, whatever sockets came and went meanwhile, *)
(* unless the client that made the newest change hung up and nothing has   *)
(* been pushed since.  That an older set was sent later is not excluded.   *)
ProbesArePushed ==
  agents[Agent] # NoConn /\ (\A p \in Pushers : push[p].at = "idle")
    => pushed[agents[Agent]] = revision \/ unpushed = revision
=============================================================================
