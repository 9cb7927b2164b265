-------------------------- MODULE OperationRouting --------------------------
(***************************************************************************)
(* Ownership of interactive operations (src/src/operation_routing.rs) and  *)
(* its three users in src/src/main.rs: the UI socket that starts, uses and *)
(* stops operations (handle_ui_socket), the agent socket that routes their *)
(* output (handle_agent_socket), and the agent socket's teardown.          *)
(*                                                                         *)
(* A UI client is one UI websocket.  It handles one message at a time, but *)
(* between the check under the operation_owners lock and the send under    *)
(* the agents lock every other task may run.                               *)
(***************************************************************************)
EXTENDS AgentRegistry

CONSTANTS
  Clients,     \* UI websockets (client_id)
  Keys,        \* operation keys
  NoClient,    \* no client
  NoCommand    \* no command is being forwarded

ASSUME ClientsAssumption ==
  NoClient \notin Clients /\ NoCommand \notin Agents \X Keys

VARIABLES
  owners,      \* OperationOwners.owners
  clients,     \* the keys of AppState.ui_clients
  pc,          \* where the task of each UI socket stands
  command,     \* the operation whose message a UI socket is about to forward
  revoked,     \* history: UI sockets whose operation was ended from the agent's
               \* side since they passed the check
  begun,       \* history: the operations whose owner's start was sent
  routed       \* the owner an agent socket looked up and has still to serve

routingVars ==
  <<agents, link, owners, clients, pc, command, revoked, begun, routed>>

Operations == Agents \X Keys

RoutingInit ==
  /\ RegistryInit
  /\ owners = [o \in Operations |-> NoClient]
  /\ clients = {}
  /\ pc = [cl \in Clients |-> "away"]
  /\ command = [cl \in Clients |-> NoCommand]
  /\ revoked = {}
  /\ begun = {}
  /\ routed = [c \in Conns |-> NoClient]

-----------------------------------------------------------------------------
(* OperationOwners.                                                        *)

(* Mutant: the entry is not looked at.                                     *)
ClaimAny(cl, o) == TRUE

(* claim: free, or already the client's own.                               *)
MayClaim(cl, o) == owners[o] \in {NoClient, cl}

(* Mutant: any owner will do.                                              *)
Owned(cl, o) == owners[o] # NoClient

(* owner: is the client the registered one?  Also the guard of release.    *)
Owns(cl, o) == owners[o] = cl

(* Mutant: retain keeps what it should drop.                               *)
Only(S) == [o \in S |-> owners[o]]

(* release_agent_operation, release_client and release_agent all drop a    *)
(* set of entries.                                                         *)
Without(S) == [o \in Operations |-> IF o \in S THEN NoClient ELSE owners[o]]

(* The operations a set of entries is taken from have ended for the socket *)
(* that passed its check before.                                           *)
Revoking(S) == revoked \cup {cl \in Clients : command[cl] \in S}

-----------------------------------------------------------------------------
(* A UI socket.                                                            *)

Connect(cl) ==
  /\ pc[cl] = "away"
  /\ clients' = clients \cup {cl}
  /\ pc' = [pc EXCEPT ![cl] = "reading"]
  /\ UNCHANGED <<registry, owners, command, revoked, begun, routed>>

(* The check is passed: the message will be forwarded.  A message that is  *)
(* no operation, or one that is refused, changes none of these variables.  *)
Pass(cl, o, how) ==
  /\ pc[cl] = "reading"
  /\ pc' = [pc EXCEPT ![cl] = how]
  /\ command' = [command EXCEPT ![cl] = o]
  /\ UNCHANGED <<registry, clients, revoked, routed>>

(* UiOperation::Start *)
Start(cl, o) ==
  /\ MayClaim(cl, o)
  /\ owners' = [owners EXCEPT ![o] = cl]
  /\ UNCHANGED begun
  /\ Pass(cl, o, "starting")

(* UiOperation::Use *)
Use(cl, o) ==
  /\ Owns(cl, o)
  /\ UNCHANGED <<owners, begun>>
  /\ Pass(cl, o, "using")

(* UiOperation::Stop: released before the message is sent.                 *)
Stop(cl, o) ==
  /\ Owns(cl, o)
  /\ owners' = Without({o})
  /\ begun' = begun \ {o}
  /\ Pass(cl, o, "stopping")

(* Is there a connection that a message about the operation can go to?     *)
Reachable(o) == agents[o[1]] # NoConn

(* The message goes to whatever connection the registry holds by now,      *)
(* whoever owns the operation by now; with no connection it is dropped,    *)
(* and the claim stays.                                                    *)
Forward(cl) ==
  /\ pc[cl] \in {"starting", "using", "stopping"}
  /\ pc' = [pc EXCEPT ![cl] = "reading"]
  /\ command' = [command EXCEPT ![cl] = NoCommand]
  /\ revoked' = revoked \ {cl}
  /\ begun' = IF /\ pc[cl] = "starting"
                 /\ Owns(cl, command[cl]) /\ Reachable(command[cl])
              THEN begun \cup {command[cl]} ELSE begun
  /\ UNCHANGED <<registry, owners, clients, routed>>

(* A broadcast finds the socket's writer gone.                             *)
DropClient(cl) ==
  /\ cl \in clients
  /\ clients' = clients \ {cl}
  /\ UNCHANGED <<registry, owners, pc, command, revoked, begun, routed>>

(* Mutant: the read loop ends and the ownerships stay.                     *)
LeaveForgetful(cl) ==
  /\ pc[cl] = "reading"
  /\ clients' = clients \ {cl}
  /\ pc' = [pc EXCEPT ![cl] = "gone"]
  /\ UNCHANGED <<registry, owners, command, revoked, begun, routed>>

(* The read loop ends: first ui_clients, then the ownerships.              *)
Leave(cl) ==
  /\ pc[cl] = "reading"
  /\ clients' = clients \ {cl}
  /\ pc' = [pc EXCEPT ![cl] = "leaving"]
  /\ UNCHANGED <<registry, owners, command, revoked, begun, routed>>

(* Mutant: only what the registry of clients still knows is released.      *)
ReleaseKnown(cl) ==
  /\ pc[cl] = "leaving"
  /\ owners' = Without({o \in Operations : Owns(cl, o) /\ cl \in clients})
  /\ begun' = {o \in begun : ~(Owns(cl, o) /\ cl \in clients)}
  /\ pc' = [pc EXCEPT ![cl] = "gone"]
  /\ UNCHANGED <<registry, clients, command, revoked, routed>>

ReleaseClient(cl) ==
  /\ pc[cl] = "leaving"
  /\ owners' = Without({o \in Operations : Owns(cl, o)})
  /\ begun' = {o \in begun : ~Owns(cl, o)}
  /\ pc' = [pc EXCEPT ![cl] = "gone"]
  /\ UNCHANGED <<registry, clients, command, revoked, routed>>

-----------------------------------------------------------------------------
(* An agent socket.                                                        *)

(* A message of an operation: the owner is looked up and, if the message   *)
(* ends the operation, the entry is dropped under the same lock.           *)
RouteOutput(c, k, ends) ==
  LET o == <<HostOf[c], k>> IN
  /\ link[c] = "live"
  /\ routed[c] = NoClient
  /\ routed' = [routed EXCEPT ![c] = owners[o]]
  /\ owners' = IF ends THEN Without({o}) ELSE owners
  /\ revoked' = IF ends THEN Revoking({o}) ELSE revoked
  /\ begun' = IF ends THEN begun \ {o} ELSE begun
  /\ UNCHANGED <<registry, clients, pc, command>>

(* Under the ui_clients lock: delivered if the owner is still there, and   *)
(* the owner is dropped if its writer is gone.                             *)
DeliverOutput(c) ==
  /\ routed[c] # NoClient
  /\ \/ UNCHANGED clients
     \/ routed[c] \in clients /\ clients' = clients \ {routed[c]}
  /\ routed' = [routed EXCEPT ![c] = NoClient]
  /\ UNCHANGED <<registry, owners, pc, command, revoked, begun>>

(* The registry's steps; the loop is not left in the middle of a message.  *)
RegistryStep(c) ==
  /\ routed[c] = NoClient
  /\ Insert(c) \/ Skip(c) \/ Remove(c)
  /\ UNCHANGED <<owners, clients, pc, command, revoked, begun, routed>>

(* release_agent in the teardown, after the entry is taken out.            *)
ReleaseAgent(c) ==
  LET S == {HostOf[c]} \X Keys IN
  /\ Release(c)
  /\ owners' = Without(S)
  /\ revoked' = Revoking(S)
  /\ begun' = begun \ S
  /\ UNCHANGED <<clients, pc, command, routed>>

-----------------------------------------------------------------------------

UiMessage(cl) == \E o \in Operations : Start(cl, o) \/ Use(cl, o) \/ Stop(cl, o)

AgentMessage(c) == \E k \in Keys, ends \in BOOLEAN : RouteOutput(c, k, ends)

RoutingNext ==
  \/ \E cl \in Clients :
       \/ Connect(cl) \/ UiMessage(cl) \/ Forward(cl) \/ DropClient(cl)
       \/ Leave(cl) \/ ReleaseClient(cl)
  \/ \E c \in Conns :
       AgentMessage(c) \/ DeliverOutput(c) \/ RegistryStep(c) \/ ReleaseAgent(c)

(* Ready tasks run on; nobody has to send a message or to go.              *)
RoutingFairness ==
  /\ \A cl \in Clients :
       WF_routingVars(Forward(cl)) /\ WF_routingVars(ReleaseClient(cl))
  /\ \A c \in Conns :
       WF_routingVars(DeliverOutput(c)) /\ WF_routingVars(ReleaseAgent(c))

RoutingSpec == RoutingInit /\ [][RoutingNext]_routingVars /\ RoutingFairness

-----------------------------------------------------------------------------
(* Properties.                                                             *)

(* Every variable has its type.                                            *)
RoutingTypeOK ==
  /\ RegistryTypeOK
  /\ owners \in [Operations -> Clients \cup {NoClient}]
  /\ clients \subseteq Clients
  /\ pc \in [Clients -> {"away", "reading", "starting", "using", "stopping",
                         "leaving", "gone"}]
  /\ command \in [Clients -> Operations \cup {NoCommand}]
  /\ revoked \subseteq Clients
  /\ begun \subseteq Operations
  /\ routed \in [Conns -> Clients \cup {NoClient}]

(* A UI socket that is over owns nothing, whenever it went and whatever it *)
(* was doing for agents that come and go: no operation stays locked.       *)
NothingOwnedByGone ==
  \A o \in Operations : owners[o] # NoClient =>
    pc[owners[o]] \notin {"away", "gone"}

(* Between the check of a start, or of a message that uses an operation,   *)
(* and its send no other client can take or end the operation; only the    *)
(* agent's side can.  A stop gives the operation up before it is sent, and *)
(* nothing holds it then: see NoStrayStop.                                 *)
HeldUntilRevoked ==
  \A cl \in Clients : pc[cl] \in {"starting", "using"} =>
    Owns(cl, command[cl]) \/ cl \in revoked

(* "operation is owned by another client": a client's stop does not reach  *)
(* the agent when the operation is another client's and running for it.    *)
(* It can, if the other claims and starts the operation between the check  *)
(* and the send; UndisturbedStopsHit says that this is the only way.       *)
NoStrayStop ==
  \A cl \in Clients : pc[cl] = "stopping" => command[cl] \notin begun

(* OperationRouting implements the abstract ownership.                     *)
Ownership == INSTANCE OperationOwnership
ImplementsOwnership == Ownership!OwnershipSpec

(* What a socket that goes away owned is free again in the end.            *)
AbandonedIsFreed ==
  \A cl \in Clients, o \in Operations :
    (pc[cl] = "leaving" /\ Owns(cl, o)) ~> ~Owns(cl, o)
=============================================================================
