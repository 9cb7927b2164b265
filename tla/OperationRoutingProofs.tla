----------------------- MODULE OperationRoutingProofs -----------------------
(***************************************************************************)
(* Proofs about OperationRouting, for all agents, connections, clients and *)
(* operation keys.                                                         *)
(***************************************************************************)
EXTENDS OperationRouting, TLAPS

(* What has begun is owned, and what is on its way names its operation.    *)
BegunIsOwned == \A o \in begun : owners[o] # NoClient
CommandKnown ==
  \A cl \in Clients :
    pc[cl] \in {"starting", "using", "stopping"} => command[cl] \in Operations

IInv ==
  /\ RoutingTypeOK /\ BegunIsOwned /\ CommandKnown
  /\ NothingOwnedByGone /\ HeldUntilRevoked

-----------------------------------------------------------------------------

(* At first nothing is connected and nothing is owned. *)
LEMMA InitIInv == RoutingInit => IInv
  BY RegistryAssumption, ClientsAssumption
  DEF RoutingInit, RegistryInit, IInv, RoutingTypeOK, RegistryTypeOK, Operations,
      BegunIsOwned, CommandKnown, NothingOwnedByGone, HeldUntilRevoked

(* The registry keeps its types by its own steps. *)
LEMMA RegistrySteps ==
  ASSUME RegistryTypeOK, NEW c \in Conns,
         Insert(c) \/ Skip(c) \/ Remove(c) \/ Release(c)
  PROVE  RegistryTypeOK'
BY RegistryAssumption DEF RegistryTypeOK, Insert, Skip, Remove, Release

(* Dropping entries leaves a map of owners. *)
LEMMA WithoutType ==
  ASSUME owners \in [Operations -> Clients \cup {NoClient}], NEW S
  PROVE  Without(S) \in [Operations -> Clients \cup {NoClient}]
BY DEF Without

(* Every step keeps the types. *)
LEMMA TypeOKStep ==
  RoutingTypeOK /\ CommandKnown /\ [RoutingNext]_routingVars => RoutingTypeOK'
<1> SUFFICES ASSUME RoutingTypeOK, CommandKnown, [RoutingNext]_routingVars
             PROVE  RoutingTypeOK'
  OBVIOUS
<1> USE RegistryAssumption, ClientsAssumption DEF RoutingTypeOK, Operations
<1>1. CASE UNCHANGED routingVars
  BY <1>1 DEF routingVars, RegistryTypeOK
<1>2. ASSUME NEW cl \in Clients, Connect(cl) PROVE RoutingTypeOK'
  BY <1>2 DEF Connect, registry, RegistryTypeOK
<1>3. ASSUME NEW cl \in Clients, UiMessage(cl) PROVE RoutingTypeOK'
  <2>0. PICK o \in Operations : Start(cl, o) \/ Use(cl, o) \/ Stop(cl, o)
    BY <1>3 DEF UiMessage
  <2>1. CASE Start(cl, o)
    BY <2>1 DEF Start, Pass, registry, RegistryTypeOK
  <2>2. CASE Use(cl, o)
    BY <2>2 DEF Use, Pass, registry, RegistryTypeOK
  <2>3. CASE Stop(cl, o)
    BY <2>3, WithoutType DEF Stop, Pass, registry, RegistryTypeOK
  <2> QED BY <2>0, <2>1, <2>2, <2>3
<1>4. ASSUME NEW cl \in Clients, Forward(cl) PROVE RoutingTypeOK'
  BY <1>4 DEF Forward, CommandKnown, registry, RegistryTypeOK
<1>5. ASSUME NEW cl \in Clients, DropClient(cl) PROVE RoutingTypeOK'
  BY <1>5 DEF DropClient, registry, RegistryTypeOK
<1>6. ASSUME NEW cl \in Clients, Leave(cl) PROVE RoutingTypeOK'
  BY <1>6 DEF Leave, registry, RegistryTypeOK
<1>7. ASSUME NEW cl \in Clients, ReleaseClient(cl) PROVE RoutingTypeOK'
  BY <1>7, WithoutType DEF ReleaseClient, registry, RegistryTypeOK
<1>8. ASSUME NEW c \in Conns, AgentMessage(c) PROVE RoutingTypeOK'
  <2>0. PICK k \in Keys, ends \in BOOLEAN : RouteOutput(c, k, ends)
    BY <1>8 DEF AgentMessage
  <2> QED BY <2>0, WithoutType DEF RouteOutput, Revoking, registry, RegistryTypeOK
<1>9. ASSUME NEW c \in Conns, DeliverOutput(c) PROVE RoutingTypeOK'
  BY <1>9 DEF DeliverOutput, registry, RegistryTypeOK
<1>10. ASSUME NEW c \in Conns, RegistryStep(c) PROVE RoutingTypeOK'
  BY <1>10, RegistrySteps DEF RegistryStep
<1>11. ASSUME NEW c \in Conns, ReleaseAgent(c) PROVE RoutingTypeOK'
  BY <1>11, RegistrySteps, WithoutType DEF ReleaseAgent, Revoking
<1> QED
  BY <1>1, <1>2, <1>3, <1>4, <1>5, <1>6, <1>7, <1>8, <1>9, <1>10, <1>11 DEF RoutingNext

(* Every step keeps the invariant. *)
LEMMA IInvStep == IInv /\ RoutingTypeOK' /\ [RoutingNext]_routingVars =>
  BegunIsOwned' /\ CommandKnown' /\ NothingOwnedByGone' /\ HeldUntilRevoked'
<1> DEFINE Goal ==
      BegunIsOwned /\ CommandKnown /\ NothingOwnedByGone /\ HeldUntilRevoked
<1> SUFFICES ASSUME IInv, RoutingTypeOK', [RoutingNext]_routingVars PROVE Goal'
  OBVIOUS
<1> USE ClientsAssumption
    DEF IInv, RoutingTypeOK, Operations, BegunIsOwned, CommandKnown,
        NothingOwnedByGone, HeldUntilRevoked, Owns
<1>1. CASE UNCHANGED routingVars
  BY <1>1 DEF routingVars
<1>2. ASSUME NEW cl \in Clients, Connect(cl) PROVE Goal'
  BY <1>2 DEF Connect
<1>3. ASSUME NEW cl \in Clients, UiMessage(cl) PROVE Goal'
  <2>0. PICK o \in Operations : Start(cl, o) \/ Use(cl, o) \/ Stop(cl, o)
    BY <1>3 DEF UiMessage
  <2>1. CASE Start(cl, o)
    BY <2>1 DEF Start, MayClaim, Pass
  <2>2. CASE Use(cl, o)
    BY <2>2 DEF Use, Pass
  <2>3. CASE Stop(cl, o)
    BY <2>3 DEF Stop, Pass, Without
  <2> QED BY <2>0, <2>1, <2>2, <2>3
<1>4. ASSUME NEW cl \in Clients, Forward(cl) PROVE Goal'
  BY <1>4 DEF Forward
<1>5. ASSUME NEW cl \in Clients, DropClient(cl) PROVE Goal'
  BY <1>5 DEF DropClient
<1>6. ASSUME NEW cl \in Clients, Leave(cl) PROVE Goal'
  BY <1>6 DEF Leave
<1>7. ASSUME NEW cl \in Clients, ReleaseClient(cl) PROVE Goal'
  BY <1>7 DEF ReleaseClient, Without
<1>8. ASSUME NEW c \in Conns, AgentMessage(c) PROVE Goal'
  <2>0. PICK k \in Keys, ends \in BOOLEAN : RouteOutput(c, k, ends)
    BY <1>8 DEF AgentMessage
  <2> QED BY <2>0 DEF RouteOutput, Revoking, Without
<1>9. ASSUME NEW c \in Conns, DeliverOutput(c) PROVE Goal'
  BY <1>9 DEF DeliverOutput
<1>10. ASSUME NEW c \in Conns, RegistryStep(c) PROVE Goal'
  BY <1>10 DEF RegistryStep
<1>11. ASSUME NEW c \in Conns, ReleaseAgent(c) PROVE Goal'
  BY <1>11 DEF ReleaseAgent, Revoking, Without
<1> QED
  BY <1>1, <1>2, <1>3, <1>4, <1>5, <1>6, <1>7, <1>8, <1>9, <1>10, <1>11 DEF RoutingNext

(* The inductive invariant. *)
THEOREM IInvariance == RoutingSpec => []IInv
<1>1. IInv /\ [RoutingNext]_routingVars => IInv'
  BY TypeOKStep, IInvStep DEF IInv
<1> QED BY InitIInv, <1>1, PTL DEF RoutingSpec

(* Every variable keeps its type. *)
THEOREM TypeCorrect == RoutingSpec => []RoutingTypeOK
<1>1. IInv => RoutingTypeOK
  BY DEF IInv
<1> QED BY IInvariance, <1>1, PTL

(* However many clients compete and whenever they go, a client that is     *)
(* gone owns nothing.                                                      *)
THEOREM GoneOwnNothing == RoutingSpec => []NothingOwnedByGone
<1>1. IInv => NothingOwnedByGone
  BY DEF IInv
<1> QED BY IInvariance, <1>1, PTL

(* Between the check of a start or of a use and its send only the agent's  *)
(* side can end the operation.                                             *)
THEOREM HeldWhileForwarded == RoutingSpec => []HeldUntilRevoked
<1>1. IInv => HeldUntilRevoked
  BY DEF IInv
<1> QED BY IInvariance, <1>1, PTL

-----------------------------------------------------------------------------
(* What strays, strays because the operation is claimed anew meanwhile.    *)

(* Nobody claims an operation whose stop has still to be sent.             *)
StopsUndisturbed ==
  [][\A cl, other \in Clients, o \in Operations :
       pc[cl] = "stopping" /\ command[cl] = o => ~Start(other, o)]_routingVars

(* What is being stopped is nobody's.                                      *)
StoppedIsFree ==
  \A cl \in Clients : pc[cl] = "stopping" => owners[command[cl]] = NoClient

(* Only a start takes what is free. *)
LEMMA StoppedStep ==
  ASSUME IInv, StoppedIsFree, [RoutingNext]_routingVars,
         [\A cl, other \in Clients, o \in Operations :
            pc[cl] = "stopping" /\ command[cl] = o => ~Start(other, o)]_routingVars
  PROVE  StoppedIsFree'
<1> USE ClientsAssumption
    DEF IInv, RoutingTypeOK, Operations, CommandKnown, StoppedIsFree, Owns
<1>1. CASE UNCHANGED routingVars
  BY <1>1 DEF routingVars
<1>2. ASSUME NEW cl \in Clients, Connect(cl) PROVE StoppedIsFree'
  BY <1>2 DEF Connect
<1>3. ASSUME NEW cl \in Clients, UiMessage(cl) PROVE StoppedIsFree'
  <2>0. PICK o \in Operations : Start(cl, o) \/ Use(cl, o) \/ Stop(cl, o)
    BY <1>3 DEF UiMessage
  <2>1. CASE Start(cl, o)
    <3>1. CASE UNCHANGED routingVars
      BY <3>1 DEF routingVars
    <3>2. ASSUME NEW s \in Clients, pc'[s] = "stopping"
          PROVE  owners'[command'[s]] = NoClient
      <4>1. s # cl /\ pc[s] = "stopping" /\ command'[s] = command[s]
        BY <2>1, <3>2 DEF Start, Pass
      <4>2. command[s] # o \/ UNCHANGED routingVars
        BY <2>1, <4>1
      <4>3. owners[command[s]] = NoClient
        BY <3>2, <4>1
      <4> QED BY <2>1, <4>1, <4>2, <4>3 DEF Start, routingVars
    <3> QED BY <3>2
  <2>2. CASE Use(cl, o)
    BY <2>2 DEF Use, Pass
  <2>3. CASE Stop(cl, o)
    BY <2>3 DEF Stop, Pass, Without
  <2> QED BY <2>0, <2>1, <2>2, <2>3
<1>4. ASSUME NEW cl \in Clients, Forward(cl) PROVE StoppedIsFree'
  BY <1>4 DEF Forward
<1>5. ASSUME NEW cl \in Clients, DropClient(cl) PROVE StoppedIsFree'
  BY <1>5 DEF DropClient
<1>6. ASSUME NEW cl \in Clients, Leave(cl) PROVE StoppedIsFree'
  BY <1>6 DEF Leave
<1>7. ASSUME NEW cl \in Clients, ReleaseClient(cl) PROVE StoppedIsFree'
  BY <1>7 DEF ReleaseClient, Without
<1>8. ASSUME NEW c \in Conns, AgentMessage(c) PROVE StoppedIsFree'
  <2>0. PICK k \in Keys, ends \in BOOLEAN : RouteOutput(c, k, ends)
    BY <1>8 DEF AgentMessage
  <2> QED BY <2>0 DEF RouteOutput, Without
<1>9. ASSUME NEW c \in Conns, DeliverOutput(c) PROVE StoppedIsFree'
  BY <1>9 DEF DeliverOutput
<1>10. ASSUME NEW c \in Conns, RegistryStep(c) PROVE StoppedIsFree'
  BY <1>10 DEF RegistryStep
<1>11. ASSUME NEW c \in Conns, ReleaseAgent(c) PROVE StoppedIsFree'
  BY <1>11 DEF ReleaseAgent, Without
<1> QED
  BY <1>1, <1>2, <1>3, <1>4, <1>5, <1>6, <1>7, <1>8, <1>9, <1>10, <1>11 DEF RoutingNext

(* NoStrayStop: if nobody claims an operation between the check of its     *)
(* stop and the send, no stop reaches an operation that has begun anew.    *)
THEOREM UndisturbedStopsHit == RoutingSpec /\ StopsUndisturbed => []NoStrayStop
<1>1. RoutingInit => StoppedIsFree
  BY DEF RoutingInit, StoppedIsFree
<1>2. IInv /\ StoppedIsFree => NoStrayStop
  BY DEF IInv, BegunIsOwned, StoppedIsFree, NoStrayStop
<1> QED BY IInvariance, <1>1, <1>2, StoppedStep, PTL DEF RoutingSpec, StopsUndisturbed

-----------------------------------------------------------------------------
(* The abstract ownership.                                                 *)

(* Dropping a set of entries is Free of that set. *)
LEMMA WithoutFrees ==
  ASSUME NEW S, owners' = Without(S), owners \in [Operations -> Clients \cup {NoClient}]
  PROVE  Ownership!OwnershipNext
<1>1. Ownership!Free(S \cap Operations)
  BY DEF Without, Ownership!Free, Ownership!Operations, Operations
<1> QED BY <1>1 DEF Ownership!OwnershipNext, Ownership!Operations, Operations

(* Every step claims a free operation, ends some, or touches no owner. *)
LEMMA OwnershipStep ==
  RoutingTypeOK /\ [RoutingNext]_routingVars => [Ownership!OwnershipNext]_owners
<1> SUFFICES ASSUME RoutingTypeOK, [RoutingNext]_routingVars
             PROVE  Ownership!OwnershipNext \/ UNCHANGED owners
  OBVIOUS
<1>0. owners \in [Operations -> Clients \cup {NoClient}]
  BY DEF RoutingTypeOK
<1>1. CASE UNCHANGED routingVars
  BY <1>1 DEF routingVars
<1>2. ASSUME NEW cl \in Clients, UiMessage(cl)
      PROVE  Ownership!OwnershipNext \/ UNCHANGED owners
  <2>0. PICK o \in Operations : Start(cl, o) \/ Use(cl, o) \/ Stop(cl, o)
    BY <1>2 DEF UiMessage
  <2>1. CASE Start(cl, o)
    <3>1. CASE owners[o] = cl
      BY <1>0, <2>1, <3>1 DEF Start
    <3>2. CASE owners[o] = NoClient
      <4>1. Ownership!Claim(cl, o)
        BY <2>1, <3>2 DEF Start, Ownership!Claim
      <4> QED BY <4>1 DEF Ownership!OwnershipNext, Ownership!Operations, Operations
    <3> QED BY <2>1, <3>1, <3>2 DEF Start, MayClaim
  <2>2. CASE Use(cl, o)   BY <2>2 DEF Use
  <2>3. CASE Stop(cl, o)  BY <1>0, <2>3, WithoutFrees DEF Stop
  <2> QED BY <2>0, <2>1, <2>2, <2>3
<1>3. ASSUME NEW cl \in Clients, ReleaseClient(cl)
      PROVE  Ownership!OwnershipNext \/ UNCHANGED owners
  BY <1>0, <1>3, WithoutFrees DEF ReleaseClient
<1>4. ASSUME NEW c \in Conns, AgentMessage(c)
      PROVE  Ownership!OwnershipNext \/ UNCHANGED owners
  BY <1>0, <1>4, WithoutFrees DEF AgentMessage, RouteOutput
<1>5. ASSUME NEW c \in Conns, ReleaseAgent(c)
      PROVE  Ownership!OwnershipNext \/ UNCHANGED owners
  BY <1>0, <1>5, WithoutFrees DEF ReleaseAgent
<1> QED
  BY <1>1, <1>2, <1>3, <1>4, <1>5
  DEF RoutingNext, Connect, Forward, DropClient, Leave, DeliverOutput, RegistryStep

(* OperationRouting implements OperationOwnership. *)
THEOREM OwnershipImplemented == RoutingSpec => ImplementsOwnership
<1>1. RoutingInit => Ownership!OwnershipInit
  BY DEF RoutingInit, Ownership!OwnershipInit, Ownership!Operations, Operations
<1> QED
  BY <1>1, TypeCorrect, OwnershipStep, PTL
  DEF RoutingSpec, ImplementsOwnership, Ownership!OwnershipSpec
=============================================================================
