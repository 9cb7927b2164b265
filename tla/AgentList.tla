----------------------------- MODULE AgentList -----------------------------
(***************************************************************************)
(* The list of agents that UI sockets are shown (src/src/main.rs).  Every  *)
(* change of the registry is followed by broadcast_agent_list, which takes *)
(* a snapshot of the registry, then one of the UI sockets, and then asks   *)
(* the EE sidecar about each socket before it sends the socket its list:   *)
(* broadcasts overlap, and so do a socket's own requests for the list.     *)
(*                                                                         *)
(* A list is known by the number of changes it shows; what the EE lets a   *)
(* socket see of it is left out.                                           *)
(***************************************************************************)
EXTENDS AgentRegistry, Integers

CONSTANTS
  Clients,      \* UI sockets
  MaxChanges    \* bound: changes of the registry

ASSUME ListAssumption == MaxChanges \in Nat

VARIABLES
  changes,      \* changes of the registry so far
  broadcast,    \* what each agent socket's task is broadcasting
  client,       \* how far each UI socket has got
  held,         \* the list a UI socket's task has read and has yet to send
  late,         \* history: the sockets that entered AppState.ui_clients with an
                \* older list, after the last change's broadcast had looked there
  newest        \* history: the newest list the socket was sent

listVars == <<agents, link, changes, broadcast, client, held, late, newest>>

Quiet == [at |-> "idle", list |-> 0, todo |-> {}]

ListInit ==
  /\ RegistryInit
  /\ changes = 0
  /\ broadcast = [c \in Conns |-> Quiet]
  /\ client = [u \in Clients |-> "new"]
  /\ held = [u \in Clients |-> 0]
  /\ late = {}
  /\ newest = [u \in Clients |-> 0]

(* The members of AppState.ui_clients.                                     *)
Entered == {u \in Clients : client[u] \in {"entered", "open"}}

Newer(m, n) == IF m > n THEN m ELSE n

SendList(u, list) == newest' = [newest EXCEPT ![u] = Newer(@, list)]

(* A change of the registry that owes the UI sockets a broadcast, at once  *)
(* or after the rest of the teardown.                                      *)
Change(c, at) ==
  /\ changes < MaxChanges
  /\ changes' = changes + 1
  /\ broadcast' = [broadcast EXCEPT ![c].at = at]
  /\ late' = {}
  /\ UNCHANGED <<client, held, newest>>

-----------------------------------------------------------------------------
(* The agent sockets.                                                      *)

Free(c) == broadcast[c].at = "idle"

Register(c) == Free(c) /\ Insert(c) /\ Change(c, "owed")

(* CapabilitiesUpdate: the entry is found by the agent's id, whichever     *)
(* socket it leads to.                                                     *)
UpdateCapabilities(c) ==
  /\ Free(c) /\ link[c] = "live" /\ agents[HostOf[c]] # NoConn
  /\ Change(c, "owed")
  /\ UNCHANGED registry

Depart(c) == Free(c) /\ Remove(c) /\ Change(c, "purging")

(* Mutant: the teardown ends without a broadcast.                          *)
PurgeQuietly(c) ==
  /\ Release(c)
  /\ broadcast' = [broadcast EXCEPT ![c] = Quiet]
  /\ UNCHANGED <<changes, client, held, late, newest>>

Purge(c) ==
  /\ Release(c)
  /\ broadcast' = [broadcast EXCEPT ![c].at = "owed"]
  /\ UNCHANGED <<changes, client, held, late, newest>>

DepartUnheard(c) ==
  /\ Free(c) /\ Skip(c)
  /\ UNCHANGED <<changes, broadcast, client, held, late, newest>>

-----------------------------------------------------------------------------
(* broadcast_agent_list.                                                   *)

Broadcasting(c, from, next) ==
  /\ broadcast[c].at = from
  /\ broadcast' = [broadcast EXCEPT ![c] = next]

ReadRegistry(c) ==
  /\ Broadcasting(c, "owed", [at |-> "read", list |-> changes, todo |-> {}])
  /\ UNCHANGED <<registry, changes, client, held, late, newest>>

ReadClients(c) ==
  /\ Broadcasting(c, "read",
       [at |-> "sending", list |-> broadcast[c].list, todo |-> Entered])
  /\ UNCHANGED <<registry, changes, client, held, late, newest>>

(* The EE has answered for u; a socket that is gone is passed over.        *)
Publish(c, u) ==
  /\ u \in broadcast[c].todo
  /\ Broadcasting(c, "sending", [broadcast[c] EXCEPT !.todo = @ \ {u}])
  /\ IF u \in Entered THEN SendList(u, broadcast[c].list) ELSE UNCHANGED newest
  /\ UNCHANGED <<registry, changes, client, held, late>>

(* The socket's channel is closed.                                         *)
DropClient(c, u) ==
  /\ u \in broadcast[c].todo \cap Entered
  /\ Broadcasting(c, "sending", [broadcast[c] EXCEPT !.todo = @ \ {u}])
  /\ client' = [client EXCEPT ![u] = "gone"]
  /\ UNCHANGED <<registry, changes, held, late, newest>>

EndBroadcast(c) ==
  /\ broadcast[c].todo = {}
  /\ Broadcasting(c, "sending", Quiet)
  /\ UNCHANGED <<registry, changes, client, held, late, newest>>

-----------------------------------------------------------------------------
(* The UI sockets.                                                         *)

(* A new socket: the registry is read before the EE is asked and the       *)
(* socket enters ui_clients.                                               *)
OpenList(u) ==
  /\ client[u] = "new"
  /\ client' = [client EXCEPT ![u] = "opening"]
  /\ held' = [held EXCEPT ![u] = changes]
  /\ UNCHANGED <<registry, changes, broadcast, late, newest>>

(* A broadcast that shows every change so far has yet to look into         *)
(* ui_clients.                                                             *)
StillToShow ==
  \E c \in Conns :
    \/ broadcast[c].at \in {"purging", "owed"}
    \/ broadcast[c].at = "read" /\ broadcast[c].list = changes

Enter(u) ==
  /\ client[u] = "opening"
  /\ client' = [client EXCEPT ![u] = "entered"]
  /\ late' = IF held[u] = changes \/ StillToShow THEN late ELSE late \cup {u}
  /\ UNCHANGED <<registry, changes, broadcast, held, newest>>

(* ListAgentsRequest: the registry is read before the EE is asked.         *)
ReadList(u) ==
  /\ client[u] = "open"
  /\ client' = [client EXCEPT ![u] = "entered"]
  /\ held' = [held EXCEPT ![u] = changes]
  /\ late' = late \ {u}
  /\ UNCHANGED <<registry, changes, broadcast, newest>>

SendHeld(u) ==
  /\ client[u] = "entered"
  /\ client' = [client EXCEPT ![u] = "open"]
  /\ SendList(u, held[u])
  /\ UNCHANGED <<registry, changes, broadcast, held, late>>

Leave(u) ==
  /\ client[u] = "open"
  /\ client' = [client EXCEPT ![u] = "gone"]
  /\ UNCHANGED <<registry, changes, broadcast, held, late, newest>>

-----------------------------------------------------------------------------
ListNext ==
  \/ \E c \in Conns :
       \/ Register(c) \/ UpdateCapabilities(c) \/ Depart(c) \/ Purge(c)
       \/ DepartUnheard(c)
       \/ ReadRegistry(c) \/ ReadClients(c) \/ EndBroadcast(c)
       \/ \E u \in Clients : Publish(c, u) \/ DropClient(c, u)
  \/ \E u \in Clients :
       OpenList(u) \/ Enter(u) \/ ReadList(u) \/ SendHeld(u) \/ Leave(u)

ListSpec == ListInit /\ [][ListNext]_listVars

-----------------------------------------------------------------------------
(* Properties.                                                             *)

(* Every variable has its type.                                            *)
ListTypeOK ==
  /\ RegistryTypeOK
  /\ changes \in 0..MaxChanges
  /\ broadcast \in [Conns ->
       [at : {"idle", "purging", "owed", "read", "sending"},
        list : 0..MaxChanges, todo : SUBSET Clients]]
  /\ client \in [Clients -> {"new", "opening", "entered", "open", "gone"}]
  /\ held \in [Clients -> 0..MaxChanges]
  /\ late \subseteq Clients
  /\ newest \in [Clients -> 0..MaxChanges]

(* However broadcasts and requests overlap, a UI socket gets to see the    *)
(* last change: when no broadcast is under way, every socket in ui_clients *)
(* has been sent a list that shows it, or is about to send it one.         *)
(* Excepted are the sockets that read the registry before the change and   *)
(* entered ui_clients after its broadcast had looked there; and an older   *)
(* list may have been sent after the newest.                               *)
ChangesAreShown ==
  (\A c \in Conns : broadcast[c].at = "idle") =>
    \A u \in Entered \ late :
      newest[u] = changes \/ (client[u] = "entered" /\ held[u] = changes)
=============================================================================
