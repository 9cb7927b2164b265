---------------------------- MODULE ExecDispatch ----------------------------
(***************************************************************************)
(* One-shot commands on an agent (src/src/agent_dispatch.rs): the API and  *)
(* the EE sidecar put a waiter into AppState.pending_exec, send a          *)
(* RunCommandRequest over a clone of the agent's registry entry and wait;  *)
(* the agent socket resolves the waiter when the response arrives          *)
(* (src/src/main.rs, handle_agent_socket) and drops the waiters of an      *)
(* agent whose socket is torn down.                                        *)
(*                                                                         *)
(* A request is one call of dispatch_run_command and of the handler that   *)
(* awaits its result (api_v1.rs exec_command, ee.rs exec_command_handler). *)
(***************************************************************************)
EXTENDS AgentRegistry

CONSTANTS
  Requests,    \* calls; the request_id is drawn afresh for each
  TargetOf,    \* the agent a call is for
  NoAgent      \* no agent has answered

ASSUME RequestsAssumption ==
  TargetOf \in [Requests -> Agents] /\ NoAgent \notin Agents

VARIABLES
  call,        \* how far each call has got, or how it ended
  entry,       \* the registry entry a call has cloned
  pending,     \* the keys of AppState.pending_exec
  oneshot,     \* the sending half of each waiter's channel
  sent,        \* commands that are in some agent's channel or beyond
  cleanup,     \* spawned removals of PendingExecGuard's drop
  source       \* history: the agent whose response a waiter was given

waiters == <<entry, pending, oneshot, sent, cleanup, source>>
dispatchVars == <<agents, link, call, waiters>>

Running == {"found", "listed", "waiting"}
Ended   == {"not found", "failed", "answered", "disconnected", "timed out",
            "abandoned"}

DispatchInit ==
  /\ RegistryInit
  /\ call = [r \in Requests |-> "idle"]
  /\ entry = [r \in Requests |-> NoConn]
  /\ pending = {}
  /\ oneshot = [r \in Requests |-> "open"]
  /\ sent = {}
  /\ cleanup = {}
  /\ source = [r \in Requests |-> NoAgent]

Advance(r, from, to) == call[r] = from /\ call' = [call EXCEPT ![r] = to]

-----------------------------------------------------------------------------
(* The caller.                                                             *)

(* Under the agents lock: the entry is cloned, or there is none.           *)
LookUp(r) ==
  LET c == agents[TargetOf[r]] IN
  /\ Advance(r, "idle", IF c = NoConn THEN "not found" ELSE "found")
  /\ entry' = [entry EXCEPT ![r] = c]
  /\ UNCHANGED <<registry, pending, oneshot, sent, cleanup, source>>

(* Under the pending_exec lock.                                            *)
InsertWaiter(r) ==
  /\ Advance(r, "found", "listed")
  /\ pending' = pending \cup {r}
  /\ UNCHANGED <<registry, entry, oneshot, sent, cleanup, source>>

(* The clone outlives the registry entry.  The receiving half goes away    *)
(* when the socket's writer fails or is aborted, before or after its       *)
(* teardown has come to the registry, so either result can be had.         *)
SendCommand(r) ==
  /\ Advance(r, "listed", "waiting")
  /\ sent' = sent \cup {r}
  /\ UNCHANGED <<registry, entry, pending, oneshot, cleanup, source>>

(* Mutant: the failed send returns before there is a guard.                *)
FailUnguarded(r) ==
  /\ Advance(r, "listed", "failed")
  /\ UNCHANGED <<registry, waiters>>

(* The writer is gone: the guard goes out of scope.                        *)
FailToSend(r) ==
  /\ Advance(r, "listed", "failed")
  /\ cleanup' = cleanup \cup {r}
  /\ UNCHANGED <<registry, entry, pending, oneshot, sent, source>>

(* The waiting ends with `to`, and the guard goes out of scope.            *)
EndWait(r, to) ==
  /\ Advance(r, "waiting", to)
  /\ cleanup' = cleanup \cup {r}
  /\ UNCHANGED <<registry, entry, pending, oneshot, sent, source>>

Receive(r)        == oneshot[r] = "sent" /\ EndWait(r, "answered")
LearnDisconnect(r) == oneshot[r] = "dropped" /\ EndWait(r, "disconnected")

(* Mutant: the wait has no timeout.                                        *)
NeverTimeOut(r) == FALSE /\ EndWait(r, "timed out")

(* The outer timeout: a value that is there already is preferred.          *)
TimeOut(r)        == oneshot[r] = "open" /\ EndWait(r, "timed out")

(* The client goes away and the handler is dropped at an await: the lock   *)
(* of pending_exec, or the wait itself.                                    *)
Abandon(r) ==
  \/ /\ Advance(r, "found", "abandoned")
     /\ UNCHANGED <<registry, waiters>>
  \/ EndWait(r, "abandoned")

(* Mutant: the guard is not dropped in time and its removal is forgotten.  *)
ForgetCleanUp(r) ==
  /\ r \in cleanup
  /\ cleanup' = cleanup \ {r}
  /\ UNCHANGED <<registry, call, entry, pending, oneshot, sent, source>>

(* The task PendingExecGuard's drop has spawned.                           *)
CleanUp(r) ==
  /\ r \in cleanup
  /\ cleanup' = cleanup \ {r}
  /\ pending' = pending \ {r}
  /\ UNCHANGED <<registry, call, entry, oneshot, sent, source>>

-----------------------------------------------------------------------------
(* The agent socket.                                                       *)

(* Mutant: the agent's id is not compared.                                 *)
ExpectedAny(c, r) == r \in pending

(* The waiter of a response must be there and be of this agent.            *)
Expected(c, r) == r \in pending /\ TargetOf[r] = HostOf[c]

(* RunCommandResponse, for any command that has ever been sent.            *)
Resolve(c, r) ==
  /\ link[c] = "live"
  /\ r \in sent
  /\ Expected(c, r)
  /\ pending' = pending \ {r}
  /\ oneshot' = [oneshot EXCEPT ![r] = "sent"]
  /\ source' = [source EXCEPT ![r] = HostOf[c]]
  /\ UNCHANGED <<registry, call, entry, sent, cleanup>>

SocketStep(c) ==
  /\ Insert(c) \/ Skip(c) \/ Remove(c)
  /\ UNCHANGED <<call, waiters>>

(* Mutant: the waiters of the agent are taken out but their senders kept.  *)
ForgetPending(c) ==
  /\ Release(c)
  /\ pending' = {r \in pending : TargetOf[r] # HostOf[c]}
  /\ UNCHANGED <<call, entry, oneshot, sent, cleanup, source>>

(* Mutant: retain keeps the waiters it should drop, by agent.              *)
CancelByAgent(c) ==
  /\ Release(c)
  /\ pending' = {TargetOf[r] : r \in pending} \ {HostOf[c]}
  /\ UNCHANGED <<call, entry, oneshot, sent, cleanup, source>>

(* "Cancel any pending exec commands for the disconnected agent": all      *)
(* waiters of the id are dropped, and their senders with them.             *)
CancelPending(c) ==
  LET S == {r \in pending : TargetOf[r] = HostOf[c]} IN
  /\ Release(c)
  /\ pending' = pending \ S
  /\ oneshot' = [r \in Requests |-> IF r \in S THEN "dropped" ELSE oneshot[r]]
  /\ UNCHANGED <<call, entry, sent, cleanup, source>>

-----------------------------------------------------------------------------

(* What a call does by itself; the timer of the wait is among it.          *)
CallStep(r) ==
  \/ InsertWaiter(r) \/ SendCommand(r) \/ FailToSend(r)
  \/ Receive(r) \/ LearnDisconnect(r) \/ TimeOut(r)

DispatchNext ==
  \/ \E r \in Requests : LookUp(r) \/ CallStep(r) \/ Abandon(r) \/ CleanUp(r)
  \/ \E c \in Conns : SocketStep(c) \/ CancelPending(c)
  \/ \E c \in Conns, r \in Requests : Resolve(c, r)

(* Ready tasks and timers run; agents need not answer, nor come or go.     *)
DispatchFairness ==
  \A r \in Requests :
    WF_dispatchVars(CallStep(r)) /\ WF_dispatchVars(CleanUp(r))

DispatchSpec ==
  DispatchInit /\ [][DispatchNext]_dispatchVars /\ DispatchFairness

-----------------------------------------------------------------------------
(* Properties.                                                             *)

(* Every variable has its type.                                            *)
DispatchTypeOK ==
  /\ RegistryTypeOK
  /\ call \in [Requests -> {"idle"} \cup Running \cup Ended]
  /\ entry \in [Requests -> Conns \cup {NoConn}]
  /\ pending \subseteq Requests
  /\ oneshot \in [Requests -> {"open", "sent", "dropped"}]
  /\ sent \subseteq Requests
  /\ cleanup \subseteq Requests
  /\ source \in [Requests -> Agents \cup {NoAgent}]

(* "Cancellation-safe cleanup": a waiter is in the map only while its call *)
(* runs or a removal for it is on its way.                                 *)
NoLeakedWaiter ==
  \A r \in pending : call[r] \in {"listed", "waiting"} \/ r \in cleanup

(* A call that waits on an open channel can still be resolved: its waiter  *)
(* is in the map, whatever sockets of the agent came and went.             *)
WaiterFindable ==
  \A r \in Requests :
    call[r] \in {"listed", "waiting"} /\ oneshot[r] = "open" => r \in pending

(* A call is answered by the agent it was sent to, although all agents'    *)
(* responses are matched in one map.                                       *)
AnsweredByTarget ==
  \A r \in Requests : call[r] = "answered" => source[r] = TargetOf[r]

(* Every call ends for its caller, whether or not the agent answers.       *)
EveryCallEnds ==
  \A r \in Requests : (call[r] \in Running) ~> (call[r] \in Ended)

(* The map of waiters drains.                                              *)
WaitersDrain == \A r \in Requests : (r \in pending) ~> (r \notin pending)

(* "Cancel any pending exec commands for the disconnected agent": a        *)
(* command is cancelled only if the registry does not lead to the very     *)
(* connection it was sent to.                                              *)
CancelsOnlyLost ==
  [][\A r \in Requests : oneshot[r] # "dropped" /\ oneshot'[r] = "dropped"
       => agents[TargetOf[r]] # entry[r]]_dispatchVars
=============================================================================
