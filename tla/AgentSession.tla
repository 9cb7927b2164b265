---------------------------- MODULE AgentSession ----------------------------
(***************************************************************************)
(* The life of an agent's websocket on the server (src/src/main.rs,        *)
(* agent_ws_handler and handle_agent_socket) and the debounced disconnect  *)
(* and connect webhooks that hang off it (DisconnectState).                *)
(*                                                                         *)
(* One element of Conns is one accepted websocket: the task that runs      *)
(* handle_agent_socket for it, and the channel `tx` by which the registry  *)
(* entry it inserts is recognised (same_channel).  Every await on a lock   *)
(* or on the database separates two steps, so the tasks of several         *)
(* connections of one agent interleave exactly where the code lets them.   *)
(***************************************************************************)
EXTENDS Naturals

CONSTANTS
  Conns,        \* websockets; each is accepted at most once
  Agents,       \* agent ids ("<hostname>-id")
  Tokens,       \* bearer tokens presented at the upgrade
  NoConn,       \* no connection
  NoAgent,      \* no agent id: agent_id_opt is None, or an unbound token
  HostOf,       \* the agent id a connection registers under
  TokenOf,      \* the token a connection presented
  Legacy,       \* tokens equal to AGENT_SECRET, exempt from the binding
  Compatible,   \* connections that declare an accepted protocol version
  Overlap       \* may an agent register before its old socket is torn down?

ASSUME ConstantsAssumption ==
  /\ NoConn \notin Conns
  /\ NoAgent \notin Agents
  /\ HostOf \in [Conns -> Agents]
  /\ TokenOf \in [Conns -> Tokens]
  /\ Legacy \subseteq Tokens
  /\ Compatible \subseteq Conns
  /\ Overlap \in BOOLEAN

VARIABLES
  pc,        \* where the task of each connection stands
  ident,     \* agent_id_opt of each connection
  agents,    \* AppState.agents: whose channel each agent id maps to
  states,    \* AppState.disconnect_states
  prior,     \* the disconnect entry a registering connection took out
  task,      \* the debounce task a torn-down connection spawned
  answers,   \* connect webhooks that answered a connection's disconnect
  bound,     \* the row of each token: its hostname, and whether it is good
  latest     \* history: the last connection to insert itself per agent id

vars == <<pc, ident, agents, states, prior, task, answers, bound, latest>>

-----------------------------------------------------------------------------
(* DisconnectState.  `by` is the connection whose debounce task the entry  *)
(* holds (Pending) or was confirmed by (Confirmed; the code's `since`).    *)

NoEntry      == [kind |-> "absent", by |-> NoConn]
Pending(t)   == [kind |-> "pending", by |-> t]
Confirmed(t) == [kind |-> "confirmed", by |-> t]

DisconnectState == {NoEntry} \cup [kind : {"pending", "confirmed"}, by : Conns]

(* The points of handle_agent_socket at which its task can be suspended.   *)
Served      == {"resolving", "settling", "stamping", "online"}
Holding     == Served \cup {"accepted", "closing"}
PCs         == Holding \cup {"idle", "open", "releasing", "debouncing", "closed"}

(* A token is good while its row is there, as its pairing made it.         *)
Bindings == [host : Agents \cup {NoAgent}, good : BOOLEAN]

TaskStates  == {"none", "sleeping", "aborted", "silent", "firing", "fired"}

Init ==
  /\ pc = [c \in Conns |-> "idle"]
  /\ ident = [c \in Conns |-> NoAgent]
  /\ agents = [a \in Agents |-> NoConn]
  /\ states = [a \in Agents |-> NoEntry]
  /\ prior = [c \in Conns |-> NoEntry]
  /\ task = [c \in Conns |-> "none"]
  /\ answers = [c \in Conns |-> 0]
  /\ bound = [k \in Tokens |-> [host |-> NoAgent, good |-> k \notin Legacy]]
  /\ latest = [a \in Agents |-> NoConn]

-----------------------------------------------------------------------------
(* Connecting and registering.                                             *)

(* The upgrade is accepted (token_exists, or the legacy secret) and the    *)
(* socket's task starts.                                                   *)
Accept(c) ==
  /\ pc[c] = "idle"
  /\ TokenOf[c] \in Legacy \/ bound[TokenOf[c]].good
  /\ pc' = [pc EXCEPT ![c] = "open"]
  /\ UNCHANGED <<ident, agents, states, prior, task, answers, bound, latest>>

(* The identity-binding guard: the token is exempt, unbound, or bound to   *)
(* this host.                                                              *)
TokenAdmits(c) ==
  \/ TokenOf[c] \in Legacy
  \/ bound[TokenOf[c]].host \in {NoAgent, HostOf[c]}

(* What the agents themselves do: without Overlap a host's next socket     *)
(* registers only once its previous one is gone, teardown included.        *)
MayRegister(c) ==
  Overlap \/ \A d \in Conns \ {c} :
               HostOf[d] = HostOf[c] => pc[d] \in {"idle", "open", "closed"}

(* A Register message (the first, or another on the same socket) passes    *)
(* both guards.                                                            *)
AcceptRegister(c) ==
  /\ pc[c] \in {"open", "online"}
  /\ MayRegister(c)
  /\ TokenAdmits(c)
  /\ c \in Compatible
  /\ pc' = [pc EXCEPT ![c] = "accepted"]
  /\ UNCHANGED <<ident, agents, states, prior, task, answers, bound, latest>>

(* The binding cannot be read: the token's guard lets any host pass.       *)
AcceptUnread(c) ==
  /\ pc[c] \in {"open", "online"}
  /\ MayRegister(c)
  /\ TokenOf[c] \notin Legacy
  /\ c \in Compatible
  /\ pc' = [pc EXCEPT ![c] = "accepted"]
  /\ UNCHANGED <<ident, agents, states, prior, task, answers, bound, latest>>

(* A Register message fails one of the guards: the loop is left.           *)
RejectRegister(c) ==
  /\ pc[c] \in {"open", "online"}
  /\ ~TokenAdmits(c) \/ c \notin Compatible
  /\ pc' = [pc EXCEPT ![c] = "closing"]
  /\ UNCHANGED <<ident, agents, states, prior, task, answers, bound, latest>>

(* agent_id_opt is set and, under the registry lock, our channel replaces  *)
(* whatever was there.                                                     *)
InsertEntry(c) ==
  /\ pc[c] = "accepted"
  /\ ident' = [ident EXCEPT ![c] = HostOf[c]]
  /\ agents' = [agents EXCEPT ![HostOf[c]] = c]
  /\ latest' = [latest EXCEPT ![HostOf[c]] = c]
  /\ pc' = [pc EXCEPT ![c] = "resolving"]
  /\ UNCHANGED <<states, prior, task, answers, bound>>

(* Mutant: the entry is looked at and stays in the map.                    *)
PeekDisconnect(c) ==
  /\ pc[c] = "resolving"
  /\ prior' = [prior EXCEPT ![c] = states[ident[c]]]
  /\ pc' = [pc EXCEPT ![c] = "settling"]
  /\ UNCHANGED <<ident, agents, states, task, answers, bound, latest>>

(* Under the disconnect_states lock, taken after the registry's is freed.  *)
ResolveDisconnect(c) ==
  /\ pc[c] = "resolving"
  /\ prior' = [prior EXCEPT ![c] = states[ident[c]]]
  /\ states' = [states EXCEPT ![ident[c]] = NoEntry]
  /\ pc' = [pc EXCEPT ![c] = "settling"]
  /\ UNCHANGED <<ident, agents, task, answers, bound, latest>>

(* Mutant: the handle is dropped, which detaches the task.                 *)
Detach(t) == task

(* handle.abort(): a task that is past its sleep is not stopped any more.  *)
Abort(t) == [task EXCEPT ![t] = IF @ = "sleeping" THEN "aborted" ELSE @]

(* The match on the removed entry: abort and stay silent, announce the     *)
(* reconnect, or nothing.                                                  *)
SettlePrior(c) ==
  /\ pc[c] = "settling"
  /\ \/ /\ prior[c].kind = "pending"
        /\ task' = Abort(prior[c].by)
        /\ UNCHANGED answers
     \/ /\ prior[c].kind = "confirmed"
        /\ answers' = [answers EXCEPT ![prior[c].by] = @ + 1]
        /\ UNCHANGED task
     \/ /\ prior[c].kind = "absent"
        /\ UNCHANGED <<task, answers>>
  /\ prior' = [prior EXCEPT ![c] = NoEntry]
  /\ pc' = [pc EXCEPT ![c] = "stamping"]
  /\ UNCHANGED <<ident, agents, states, bound, latest>>

(* upsert_token_seen writes the hostname over whatever is there, or makes  *)
(* a row that no upgrade accepts; an error is logged and ignored.  Then    *)
(* RegisterAck and back to the read loop.                                  *)
StampToken(c) ==
  /\ pc[c] = "stamping"
  /\ \/ bound' = [bound EXCEPT ![TokenOf[c]].host = ident[c]]
     \/ UNCHANGED bound
  /\ pc' = [pc EXCEPT ![c] = "online"]
  /\ UNCHANGED <<ident, agents, states, prior, task, answers, latest>>

(* A row of tokens is deleted (revoke_token, revoke_by_hostname,           *)
(* replace_token_on_refresh); the sockets that were opened with the token  *)
(* stay.                                                                   *)
ForgetToken(k) ==
  /\ bound' = [bound EXCEPT ![k] = [host |-> NoAgent, good |-> FALSE]]
  /\ UNCHANGED <<pc, ident, agents, states, prior, task, answers, latest>>

-----------------------------------------------------------------------------
(* Closing.                                                                *)

(* The peer closes, the socket fails, or nothing is read for 75 s.         *)
CloseSocket(c) ==
  /\ pc[c] \in {"open", "online"}
  /\ pc' = [pc EXCEPT ![c] = "closing"]
  /\ UNCHANGED <<ident, agents, states, prior, task, answers, bound, latest>>

(* Mutant: any entry under the id is taken for our own.                    *)
Registered(c) == ident[c] # NoAgent

(* The reconnect-overlap guard: the registered entry is our own channel.   *)
StillOurs(c) == ident[c] # NoAgent /\ agents[ident[c]] = c

(* Never registered, or a newer connection owns the id: nothing to do.     *)
SkipTeardown(c) ==
  /\ pc[c] = "closing"
  /\ ~StillOurs(c)
  /\ pc' = [pc EXCEPT ![c] = "closed"]
  /\ UNCHANGED <<ident, agents, states, prior, task, answers, bound, latest>>

(* Mutant: the entry is found to be ours and left in the registry.         *)
LeaveEntry(c) ==
  /\ pc[c] = "closing"
  /\ StillOurs(c)
  /\ pc' = [pc EXCEPT ![c] = "releasing"]
  /\ UNCHANGED <<ident, agents, states, prior, task, answers, bound, latest>>

(* The entry is ours: it is removed under the same lock.                   *)
RemoveEntry(c) ==
  /\ pc[c] = "closing"
  /\ StillOurs(c)
  /\ agents' = [agents EXCEPT ![ident[c]] = NoConn]
  /\ pc' = [pc EXCEPT ![c] = "releasing"]
  /\ UNCHANGED <<ident, states, prior, task, answers, bound, latest>>

(* pending_exec and operation_owners are purged (modelled in modules of    *)
(* their own), the new list is broadcast, the debounce task is spawned.    *)
ReleaseAgent(c) ==
  /\ pc[c] = "releasing"
  /\ task' = [task EXCEPT ![c] = "sleeping"]
  /\ pc' = [pc EXCEPT ![c] = "debouncing"]
  /\ UNCHANGED <<ident, agents, states, prior, answers, bound, latest>>

(* Mutant: the handle of the task is not kept.                             *)
InsertPendingBlind(c) ==
  /\ pc[c] = "debouncing"
  /\ states' = [states EXCEPT ![ident[c]] = [kind |-> "pending", by |-> NoConn]]
  /\ pc' = [pc EXCEPT ![c] = "closed"]
  /\ UNCHANGED <<ident, agents, prior, task, answers, bound, latest>>

(* Pending(handle) replaces whatever entry is there.                       *)
InsertPending(c) ==
  /\ pc[c] = "debouncing"
  /\ states' = [states EXCEPT ![ident[c]] = Pending(c)]
  /\ pc' = [pc EXCEPT ![c] = "closed"]
  /\ UNCHANGED <<ident, agents, prior, task, answers, bound, latest>>

-----------------------------------------------------------------------------
(* The debounce task of a connection.                                      *)

(* Mutant: the task also insists that the agent is in no registry entry.   *)
ConfirmIfAway(t) ==
  /\ task[t] = "sleeping"
  /\ pc[t] = "closed"
  /\ states[ident[t]].kind = "pending"
  /\ agents[ident[t]] = NoConn
  /\ states' = [states EXCEPT ![ident[t]] = Confirmed(t)]
  /\ task' = [task EXCEPT ![t] = "firing"]
  /\ UNCHANGED <<pc, ident, agents, prior, answers, bound, latest>>

(* Mutant: the disconnect is announced and then forgotten.                 *)
ConfirmAndForget(t) ==
  /\ task[t] = "sleeping"
  /\ pc[t] = "closed"
  /\ states[ident[t]].kind = "pending"
  /\ states' = [states EXCEPT ![ident[t]] = NoEntry]
  /\ task' = [task EXCEPT ![t] = "firing"]
  /\ UNCHANGED <<pc, ident, agents, prior, answers, bound, latest>>

(* DISCONNECT_GRACE is over and the entry of the agent is some Pending.    *)
(* The wait for the lock in InsertPending is far shorter than the grace    *)
(* (no holder of that lock awaits), hence pc[t] = "closed".                *)
Confirm(t) ==
  /\ task[t] = "sleeping"
  /\ pc[t] = "closed"
  /\ states[ident[t]].kind = "pending"
  /\ states' = [states EXCEPT ![ident[t]] = Confirmed(t)]
  /\ task' = [task EXCEPT ![t] = "firing"]
  /\ UNCHANGED <<pc, ident, agents, prior, answers, bound, latest>>

(* The grace is over and the entry is no Pending: silence.                 *)
StaySilent(t) ==
  /\ task[t] = "sleeping"
  /\ pc[t] = "closed"
  /\ states[ident[t]].kind # "pending"
  /\ task' = [task EXCEPT ![t] = "silent"]
  /\ UNCHANGED <<pc, ident, agents, states, prior, answers, bound, latest>>

(* fire_agent_disconnect, after the lock is dropped.                       *)
FireDisconnect(t) ==
  /\ task[t] = "firing"
  /\ task' = [task EXCEPT ![t] = "fired"]
  /\ UNCHANGED <<pc, ident, agents, states, prior, answers, bound, latest>>

-----------------------------------------------------------------------------

(* What the server does by itself once a message or a close arrived.       *)
ServerStep(c) ==
  \/ InsertEntry(c) \/ ResolveDisconnect(c) \/ SettlePrior(c) \/ StampToken(c)
  \/ SkipTeardown(c) \/ RemoveEntry(c) \/ ReleaseAgent(c) \/ InsertPending(c)

TimerStep(t) == Confirm(t) \/ StaySilent(t) \/ FireDisconnect(t)

(* What agents and the network decide.                                     *)
PeerStep(c) ==
  \/ Accept(c) \/ AcceptRegister(c) \/ AcceptUnread(c) \/ RejectRegister(c)
  \/ CloseSocket(c)

Next ==
  \/ \E c \in Conns : PeerStep(c) \/ ServerStep(c) \/ TimerStep(c)
  \/ \E k \in Tokens : ForgetToken(k)

(* The runtime keeps running ready tasks and timers; peers owe nothing.    *)
Fairness == \A c \in Conns : WF_vars(ServerStep(c)) /\ WF_vars(TimerStep(c))

Spec == Init /\ [][Next]_vars /\ Fairness

-----------------------------------------------------------------------------
(* What the other components see of a connection (AgentRegistry).          *)
LinkOf(c) ==
  CASE pc[c] = "releasing" -> "removed"
    [] pc[c] \in {"debouncing", "closed"} -> "over"
    [] OTHER -> IF ident[c] = NoAgent THEN "new" ELSE "live"

Abstract == INSTANCE AgentRegistry WITH link <- [c \in Conns |-> LinkOf(c)]

-----------------------------------------------------------------------------
(* Properties.                                                             *)

(* Every variable has its type.                                            *)
TypeOK ==
  /\ pc \in [Conns -> PCs]
  /\ ident \in [Conns -> Agents \cup {NoAgent}]
  /\ agents \in [Agents -> Conns \cup {NoConn}]
  /\ states \in [Agents -> DisconnectState]
  /\ prior \in [Conns -> DisconnectState]
  /\ task \in [Conns -> TaskStates]
  /\ answers \in [Conns -> Nat]
  /\ bound \in [Tokens -> Bindings]
  /\ latest \in [Agents -> Conns \cup {NoConn}]

(* No ghost agents: an id in the registry leads to a connection that       *)
(* registered under it and whose teardown has still to look at the entry,  *)
(* whatever sockets of the same agent came and went meanwhile.             *)
NoGhostAgent ==
  \A a \in Agents : agents[a] # NoConn =>
    /\ ident[agents[a]] = a
    /\ pc[agents[a]] \in Holding

(* The reconnect-overlap guard works: until the newest connection of an    *)
(* agent id checks the entry in its own teardown, the registry leads to    *)
(* it; no older socket's teardown evicts it.                               *)
NewestOwnsId ==
  \A a \in Agents :
    latest[a] # NoConn /\ pc[latest[a]] \in Holding => agents[a] = latest[a]

(* A Pending entry never outlives its timer: the debounce task it holds is *)
(* asleep and belongs to the agent, so the entry cannot stay for ever.     *)
PendingHasTimer ==
  \A a \in Agents : states[a].kind = "pending" =>
    /\ task[states[a].by] = "sleeping"
    /\ ident[states[a].by] = a

(* Connect webhooks answer disconnect webhooks one to one: a confirmed     *)
(* disconnect is announced as over at most once, and only a confirmed one. *)
AnswerOnce ==
  \A t \in Conns :
    /\ answers[t] <= 1
    /\ answers[t] = 1 => task[t] \in {"firing", "fired"}

(* The entry of an agent that is being debounced is eventually resolved:   *)
(* a Pending is aborted or confirmed, whatever the other sockets do.       *)
PendingResolves ==
  \A a \in Agents : (states[a].kind = "pending") ~> (states[a].kind # "pending")

(* An agent that registered once and is in no registry entry is tracked:   *)
(* its socket is still in the teardown, or an entry is there.              *)
GoneIsTracked ==
  \A a \in Agents : latest[a] # NoConn /\ agents[a] = NoConn =>
    \/ pc[latest[a]] \in {"releasing", "debouncing"}
    \/ states[a] # NoEntry

(* "Confirmed: disconnect webhook has fired and the agent is still gone"   *)
(* (DisconnectState): the agent is in no registry entry, or its new        *)
(* connection is just about to clear the entry.                            *)
ConfirmedMeansGone ==
  \A a \in Agents : states[a].kind = "confirmed" =>
    agents[a] = NoConn \/ pc[agents[a]] = "resolving"

(* "Only fire if our Pending entry is still there": a debounce task that   *)
(* confirms found the entry that holds its own handle.                     *)
FiresOwnEntry ==
  [][\A t \in Conns : Confirm(t) => states[ident[t]] = Pending(t)]_vars

(* AgentSession implements the registry the other components rely on.      *)
ImplementsRegistry == Abstract!RegistrySpec

(* "A per-agent token is bound to the first hostname it registers with":   *)
(* the agents connected with one token that is not the legacy secret are   *)
(* one host.                                                               *)
OneHostPerToken ==
  \A a, b \in Agents :
    /\ agents[a] # NoConn /\ agents[b] # NoConn
    /\ TokenOf[agents[a]] = TokenOf[agents[b]]
    /\ TokenOf[agents[a]] \notin Legacy
    => a = b
=============================================================================
