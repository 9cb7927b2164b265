----------------------------- MODULE MessagesMC -----------------------------
(* What passes between callers and agents' sockets, for TLC: the routing   *)
(* of operations and the calls that await a command.  They share the       *)
(* registry and nothing else: a behaviour is one of one of the two.        *)
EXTENDS OperationRouting, ExecDispatch

CONSTANTS a1, a2, c1, c2, c3, r1, r2

VARIABLE part

(* Two sockets of one agent, and one of another; a call to each agent.     *)
Hosts   == [c \in {c1, c2, c3} |-> IF c = c3 THEN a2 ELSE a1]
Targets == [r \in {r1, r2} |-> IF r = r1 THEN a1 ELSE a2]

routing == <<owners, clients, pc, command, revoked, begun, routed>>
calls   == <<call, waiters>>

vars == <<part, registry, routing, calls>>

MessagesInit ==
  /\ part \in {"operations", "commands"}
  /\ RoutingInit /\ DispatchInit

(* UI sockets compete for the operations of one agent; the other stays     *)
(* away.                                                                   *)
OperationsPart ==
  /\ part = "operations"
  /\ RoutingNext
  /\ link'[c3] = "new"
  /\ \A o \in DOMAIN owners' : o[1] = a2 => owners'[o] = NoClient
  /\ UNCHANGED <<part, calls>>

CommandsPart ==
  /\ part = "commands"
  /\ DispatchNext
  /\ UNCHANGED <<part, routing>>

MessagesNext == OperationsPart \/ CommandsPart

(* Each component's own fairness, in the behaviours that are its own.      *)
MessagesFairness ==
  /\ \A cl \in Clients :
       /\ WF_routingVars(part = "operations" /\ Forward(cl))
       /\ WF_routingVars(part = "operations" /\ ReleaseClient(cl))
  /\ \A c \in Conns :
       /\ WF_routingVars(part = "operations" /\ DeliverOutput(c))
       /\ WF_routingVars(part = "operations" /\ ReleaseAgent(c))
  /\ \A r \in Requests :
       /\ WF_dispatchVars(part = "commands" /\ CallStep(r))
       /\ WF_dispatchVars(part = "commands" /\ CleanUp(r))

MessagesSpec == MessagesInit /\ [][MessagesNext]_vars /\ MessagesFairness
=============================================================================
