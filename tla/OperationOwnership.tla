------------------------- MODULE OperationOwnership -------------------------
(***************************************************************************)
(* What operation_routing.rs promises of an interactive operation of an    *)
(* agent (a terminal, a log stream, a trusted request): it belongs to at   *)
(* most one UI client, a client gets it only while nobody has it, and it   *)
(* never passes from one client to another without being free in between.  *)
(***************************************************************************)
CONSTANTS Agents, Keys, Clients, NoClient

VARIABLE owners    \* who owns each operation of each agent

Operations == Agents \X Keys

OwnershipInit == owners = [o \in Operations |-> NoClient]

Claim(cl, o) ==
  /\ owners[o] = NoClient
  /\ owners' = [owners EXCEPT ![o] = cl]

(* Some operations end together, whoever owns them.                        *)
Free(S) ==
  owners' = [o \in Operations |-> IF o \in S THEN NoClient ELSE owners[o]]

OwnershipNext ==
  \/ \E cl \in Clients, o \in Operations : Claim(cl, o)
  \/ \E S \in SUBSET Operations : Free(S)

OwnershipSpec == OwnershipInit /\ [][OwnershipNext]_owners
=============================================================================
