---------------------------- MODULE ReplyQueues ----------------------------
(***************************************************************************)
(* Requests whose answer is waited for (src/src/backups.rs): listing the   *)
(* archives of a backup job and restoring one.  The handler puts the       *)
(* sending half of a channel at the end of the agent's queue in            *)
(* AppState.pending_backup_lists or pending_backup_restores, sends the     *)
(* request and waits; the agent socket (src/src/main.rs,                   *)
(* handle_agent_socket) hands a response to the channel at the front.      *)
(*                                                                         *)
(* A response does not say which request it answers, a handler that gives  *)
(* up leaves its waiter in the queue, and no teardown purges the queues.   *)
(***************************************************************************)
EXTENDS AgentRegistry, Sequences, Integers, FiniteSets

CONSTANTS
  Calls,        \* calls of the two handlers
  TargetOf,     \* the agent of the job a call is for
  KindOf,       \* "list" or "restore"
  MaxPending    \* waiters of an agent and kind (32 in the code)

Kinds == {"list", "restore"}

ASSUME CallsAssumption ==
  /\ TargetOf \in [Calls -> Agents]
  /\ KindOf \in [Calls -> Kinds]
  /\ MaxPending \in Nat \ {0}

VARIABLES
  call,         \* how far each call has got
  entry,        \* the registry entry a call has cloned and has yet to use
  queue,        \* the waiters of each kind and agent
  replied,      \* calls whose channel holds an answer
  unanswered,   \* the requests each socket has yet to answer
  leaked        \* history: waiters pushed for which no answer will come

replyVars == <<agents, link, call, entry, queue, replied, unanswered, leaked>>

RepliesInit ==
  /\ RegistryInit
  /\ call = [r \in Calls |-> "idle"]
  /\ entry = [r \in Calls |-> NoConn]
  /\ queue = [k \in Kinds |-> [a \in Agents |-> <<>>]]
  /\ replied = {}
  /\ unanswered = [c \in Conns |-> {}]
  /\ leaked = {}

Turn(r, from, to) == call[r] = from /\ call' = [call EXCEPT ![r] = to]

DropEntry(r) == entry' = [entry EXCEPT ![r] = NoConn]

QueueOf(r) == queue[KindOf[r]][TargetOf[r]]

-----------------------------------------------------------------------------
(* The handlers.                                                           *)

LookUpAgent(r) ==
  LET c == agents[TargetOf[r]] IN
  /\ Turn(r, "idle", IF c = NoConn THEN "over" ELSE "found")
  /\ entry' = [entry EXCEPT ![r] = c]
  /\ UNCHANGED <<registry, queue, replied, unanswered, leaked>>

(* Under the lock of the map: too many are in flight, or one more is.      *)
Refuse(r) ==
  /\ Len(QueueOf(r)) >= MaxPending
  /\ Turn(r, "found", "over")
  /\ DropEntry(r)
  /\ UNCHANGED <<registry, queue, replied, unanswered, leaked>>

(* Mutant: the places are not counted.                                     *)
PushUncounted(r) ==
  /\ Turn(r, "found", "listed")
  /\ queue' = [queue EXCEPT ![KindOf[r]][TargetOf[r]] = Append(@, r)]
  /\ UNCHANGED <<registry, entry, replied, unanswered, leaked>>

PushWaiter(r) ==
  /\ Len(QueueOf(r)) < MaxPending
  /\ Turn(r, "found", "listed")
  /\ queue' = [queue EXCEPT ![KindOf[r]][TargetOf[r]] = Append(@, r)]
  /\ UNCHANGED <<registry, entry, replied, unanswered, leaked>>

(* A socket that is not served any more loses the request.                 *)
SendRequest(r) ==
  LET c == entry[r] IN
  /\ Turn(r, "listed", "waiting")
  /\ IF link[c] = "live"
     THEN /\ unanswered' = [unanswered EXCEPT ![c] = @ \cup {r}]
          /\ UNCHANGED leaked
     ELSE leaked' = leaked \cup {r} /\ UNCHANGED unanswered
  /\ DropEntry(r)
  /\ UNCHANGED <<registry, queue, replied>>

(* The channel is closed: "send failed", and the waiter stays.             *)
FailToSend(r) ==
  /\ Turn(r, "listed", "over")
  /\ leaked' = leaked \cup {r}
  /\ replied' = replied \ {r}
  /\ DropEntry(r)
  /\ UNCHANGED <<registry, queue, unanswered>>

Receive(r) ==
  /\ r \in replied
  /\ Turn(r, "waiting", "over")
  /\ replied' = replied \ {r}
  /\ UNCHANGED <<registry, entry, queue, unanswered, leaked>>

(* 20 or 120 seconds; the waiter stays.                                    *)
TimeOut(r) ==
  /\ r \notin replied
  /\ Turn(r, "waiting", "over")
  /\ UNCHANGED <<registry, entry, queue, replied, unanswered, leaked>>

(* The client goes away at an await: the map's lock, or the answer.        *)
Abandon(r) ==
  /\ Turn(r, "found", "over") \/ Turn(r, "waiting", "over")
  /\ replied' = replied \ {r}
  /\ DropEntry(r)
  /\ UNCHANGED <<registry, queue, unanswered, leaked>>

CallStep(r) ==
  \/ LookUpAgent(r) \/ Refuse(r) \/ PushWaiter(r) \/ SendRequest(r)
  \/ FailToSend(r) \/ Receive(r) \/ TimeOut(r) \/ Abandon(r)

ListArchives(r) == KindOf[r] = "list" /\ CallStep(r)

Restore(r) == KindOf[r] = "restore" /\ CallStep(r)

-----------------------------------------------------------------------------
(* The agent's sockets.                                                    *)

(* Mutant: a waiter that has given up is looked at and left where it is.   *)
RespondIfAwaited(c, r) ==
  LET q == QueueOf(r) IN
  /\ link[c] = "live" /\ r \in unanswered[c]
  /\ unanswered' = [unanswered EXCEPT ![c] = @ \ {r}]
  /\ IF q # <<>> /\ call[Head(q)] \in {"listed", "waiting"}
     THEN /\ queue' = [queue EXCEPT ![KindOf[r]][TargetOf[r]] = Tail(@)]
          /\ replied' = replied \cup {Head(q)}
     ELSE UNCHANGED <<queue, replied>>
  /\ UNCHANGED <<registry, call, entry, leaked>>

(* The answer to r goes to the oldest waiter, of whichever call that is;   *)
(* if it has given up, the answer is gone.                                 *)
Respond(c, r) ==
  LET q == QueueOf(r) IN
  /\ link[c] = "live" /\ r \in unanswered[c]
  /\ unanswered' = [unanswered EXCEPT ![c] = @ \ {r}]
  /\ IF q = <<>> THEN UNCHANGED <<queue, replied>>
     ELSE /\ queue' = [queue EXCEPT ![KindOf[r]][TargetOf[r]] = Tail(@)]
          /\ replied' = IF call[Head(q)] \in {"listed", "waiting"}
                        THEN replied \cup {Head(q)} ELSE replied
  /\ UNCHANGED <<registry, call, entry, leaked>>

RepliesConnect(c) ==
  /\ Insert(c)
  /\ UNCHANGED <<call, entry, queue, replied, unanswered, leaked>>

(* What the socket has not answered is lost; the queues are left alone.    *)
RepliesDisconnect(c) ==
  /\ Skip(c) \/ Remove(c)
  /\ unanswered' = [unanswered EXCEPT ![c] = {}]
  /\ leaked' = leaked \cup unanswered[c]
  /\ UNCHANGED <<call, entry, queue, replied>>

RepliesTearDown(c) ==
  /\ Release(c)
  /\ UNCHANGED <<call, entry, queue, replied, unanswered, leaked>>

-----------------------------------------------------------------------------
RepliesNext ==
  \/ \E r \in Calls : ListArchives(r) \/ Restore(r)
  \/ \E c \in Conns :
       \/ RepliesConnect(c) \/ RepliesDisconnect(c) \/ RepliesTearDown(c)
       \/ \E r \in Calls : Respond(c, r)

RepliesSpec == RepliesInit /\ [][RepliesNext]_replyVars

-----------------------------------------------------------------------------
(* Properties.                                                             *)

(* Every variable has its type.                                            *)
RepliesTypeOK ==
  /\ RegistryTypeOK
  /\ call \in [Calls -> {"idle", "found", "listed", "waiting", "over"}]
  /\ entry \in [Calls -> Conns \cup {NoConn}]
  /\ queue \in [Kinds -> [Agents -> Seq(Calls)]]
  /\ \A k \in Kinds, a \in Agents : Len(queue[k][a]) =< MaxPending
  /\ replied \subseteq Calls
  /\ unanswered \in [Conns -> SUBSET Calls]
  /\ leaked \subseteq Calls

CallsOf(k, a) == {r \in Calls : KindOf[r] = k /\ TargetOf[r] = a}

(* Requests that are being sent, or that the agent may still answer.       *)
Awaited ==
  {r \in Calls : call[r] = "listed" \/ \E c \in Conns : r \in unanswered[c]}

(* A queue is as long as there are requests under way, whoever still waits *)
(* for them, and requests that were lost: a timeout takes no place for     *)
(* good, but a failed send and a lost socket do, and with as many of them  *)
(* as the queue has places, every later call is refused (backups.rs).      *)
QueueBalance ==
  \A k \in Kinds, a \in Agents :
    Len(queue[k][a]) = Cardinality((Awaited \cup leaked) \cap CallsOf(k, a))
=============================================================================
