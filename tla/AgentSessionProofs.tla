------------------------- MODULE AgentSessionProofs -------------------------
(***************************************************************************)
(* Theorems about AgentSession and OfflineAlerts, for any number of        *)
(* connections, agents and tokens.                                         *)
(***************************************************************************)
EXTENDS OfflineAlerts, TLAPS

(* A connection is named once its agent_id_opt is set, and then for good.  *)
Identity ==
  \A c \in Conns :
    /\ ident[c] \in {NoAgent, HostOf[c]}
    /\ pc[c] \in Served \cup {"releasing", "debouncing"} => ident[c] = HostOf[c]
    /\ pc[c] \in {"idle", "open"} => ident[c] = NoAgent
    /\ pc[c] = "debouncing" => task[c] = "sleeping"
    /\ task[c] # "none" => ident[c] = HostOf[c] /\ pc[c] \in {"debouncing", "closed"}

(* The registry leads to the newest connection of the id or nowhere.       *)
Registry ==
  \A a \in Agents :
    /\ agents[a] # NoConn => agents[a] = latest[a] /\ pc[agents[a]] \in Holding
    /\ latest[a] # NoConn => ident[latest[a]] = a
    /\ latest[a] # NoConn /\ pc[latest[a]] \in Holding => agents[a] = latest[a]

(* What an entry of disconnect_states says of the task it names, and that  *)
(* no registering connection holds the same entry.                         *)
Entries ==
  \A a \in Agents :
    /\ states[a].kind = "pending" =>
         /\ ident[states[a].by] = a
         /\ pc[states[a].by] = "closed"
         /\ task[states[a].by] = "sleeping"
         /\ \A c \in Conns : prior[c] # states[a]
    /\ states[a].kind = "confirmed" =>
         /\ ident[states[a].by] = a
         /\ task[states[a].by] \in {"firing", "fired"}
         /\ answers[states[a].by] = 0
         /\ \A c \in Conns : prior[c] # states[a]

(* The same for an entry taken out by a registering connection.            *)
Held ==
  \A c \in Conns :
    /\ prior[c].kind = "pending" => pc[prior[c].by] = "closed"
    /\ prior[c].kind = "confirmed" =>
         /\ task[prior[c].by] \in {"firing", "fired"}
         /\ answers[prior[c].by] = 0
         /\ \A d \in Conns : prior[d] = prior[c] => d = c

IInv == TypeOK /\ Identity /\ Registry /\ Entries /\ Held /\ AnswerOnce

(* A disconnect that was not confirmed has no connect webhook. *)
LEMMA Unanswered ==
  ASSUME TypeOK, AnswerOnce, NEW t \in Conns, task[t] \notin {"firing", "fired"}
  PROVE  answers[t] = 0
<1>1. answers[t] \in Nat /\ answers[t] <= 1 /\ answers[t] # 1
  BY DEF TypeOK, AnswerOnce
<1> QED BY <1>1

(* The initial state satisfies the inductive invariant. *)
LEMMA InitIInv == Init => IInv
  BY ConstantsAssumption
  DEF Init, IInv, TypeOK, Identity, Registry, Entries, Held, AnswerOnce,
      DisconnectState, NoEntry, PCs, Holding, Served, TaskStates, Bindings

(* A token is bound to a host.                                             *)
LEMMA BindingWritten ==
  ASSUME TypeOK, NEW k \in Tokens, NEW a \in Agents
  PROVE  /\ [bound EXCEPT ![k].host = a] \in [Tokens -> Bindings]
         /\ [bound EXCEPT ![k].host = a][k].host = a
         /\ \A j \in Tokens \ {k} : [bound EXCEPT ![k].host = a][j] = bound[j]
<1>1. PICK b \in Bindings : b = bound[k]
  BY DEF TypeOK
<1>2. [b EXCEPT !.host = a] \in Bindings /\ [b EXCEPT !.host = a].host = a
  BY DEF Bindings
<1>3. bound \in [Tokens -> Bindings]
  BY DEF TypeOK
<1> QED
  BY <1>1, <1>2, <1>3

(* Every step keeps the types. *)
LEMMA TypeOKStep == TypeOK /\ Identity /\ [Next]_vars => TypeOK'
<1> SUFFICES ASSUME TypeOK, Identity, [Next]_vars PROVE TypeOK'
  OBVIOUS
<1> USE ConstantsAssumption
    DEF TypeOK, DisconnectState, NoEntry, PCs, Holding, Served, TaskStates
<1>1. CASE UNCHANGED vars
  BY <1>1 DEF vars
<1>2. ASSUME NEW c \in Conns, PeerStep(c) PROVE TypeOK'
  BY <1>2 DEF PeerStep, Accept, AcceptRegister, AcceptUnread, RejectRegister,
              CloseSocket
<1>3. ASSUME NEW c \in Conns, ServerStep(c) PROVE TypeOK'
  <2> ident[c] \in Agents \/ pc[c] \notin (Served \cup {"releasing", "debouncing"})
    BY DEF Identity
  <2>1. CASE InsertEntry(c)        BY <2>1 DEF InsertEntry
  <2>2. CASE ResolveDisconnect(c)  BY <2>2 DEF ResolveDisconnect
  <2>3. CASE SettlePrior(c)        BY <2>3 DEF SettlePrior, Abort
  <2>4. CASE StampToken(c)         BY <2>4, BindingWritten DEF StampToken
  <2>5. CASE SkipTeardown(c)       BY <2>5 DEF SkipTeardown
  <2>6. CASE RemoveEntry(c)        BY <2>6 DEF RemoveEntry
  <2>7. CASE ReleaseAgent(c)       BY <2>7 DEF ReleaseAgent
  <2>8. CASE InsertPending(c)      BY <2>8 DEF InsertPending, Pending
  <2> QED BY <1>3, <2>1, <2>2, <2>3, <2>4, <2>5, <2>6, <2>7, <2>8 DEF ServerStep
<1>4. ASSUME NEW c \in Conns, TimerStep(c) PROVE TypeOK'
  <2>1. CASE Confirm(c)            BY <2>1 DEF Confirm, Confirmed, Identity
  <2>2. CASE StaySilent(c)         BY <2>2 DEF StaySilent
  <2>3. CASE FireDisconnect(c)     BY <2>3 DEF FireDisconnect
  <2> QED BY <1>4, <2>1, <2>2, <2>3 DEF TimerStep
<1>5. ASSUME NEW k \in Tokens, ForgetToken(k) PROVE TypeOK'
  BY <1>5 DEF ForgetToken, Bindings
<1> QED BY <1>1, <1>2, <1>3, <1>4, <1>5 DEF Next

(* Every step keeps the identities. *)
LEMMA IdentityStep ==
  IInv /\ TypeOK' /\ [Next]_vars => Identity'
<1> SUFFICES ASSUME IInv, TypeOK', [Next]_vars PROVE Identity'
  OBVIOUS
<1> USE ConstantsAssumption
  DEF IInv, TypeOK, Identity, Held, DisconnectState, NoEntry, PCs, Holding,
      Served, TaskStates
<1>1. CASE UNCHANGED vars
  BY <1>1 DEF vars
<1>2. ASSUME NEW c \in Conns, PeerStep(c) PROVE Identity'
  <2>1. CASE Accept(c)            BY <2>1 DEF Accept
  <2>2. CASE AcceptRegister(c)    BY <2>2 DEF AcceptRegister
  <2>3. CASE RejectRegister(c)    BY <2>3 DEF RejectRegister
  <2>4. CASE CloseSocket(c)       BY <2>4 DEF CloseSocket
  <2>5. CASE AcceptUnread(c)      BY <2>5 DEF AcceptUnread
  <2> QED BY <1>2, <2>1, <2>2, <2>3, <2>4, <2>5 DEF PeerStep
<1>3. ASSUME NEW c \in Conns, ServerStep(c) PROVE Identity'
  <2>1. CASE InsertEntry(c)       BY <2>1 DEF InsertEntry
  <2>2. CASE ResolveDisconnect(c) BY <2>2 DEF ResolveDisconnect
  <2>3. CASE SettlePrior(c)       BY <2>3 DEF SettlePrior, Abort
  <2>4. CASE StampToken(c)        BY <2>4 DEF StampToken
  <2>5. CASE SkipTeardown(c)      BY <2>5 DEF SkipTeardown, StillOurs
  <2>6. CASE RemoveEntry(c)       BY <2>6 DEF RemoveEntry, StillOurs
  <2>7. CASE ReleaseAgent(c)      BY <2>7 DEF ReleaseAgent
  <2>8. CASE InsertPending(c)     BY <2>8 DEF InsertPending, Pending
  <2> QED BY <1>3, <2>1, <2>2, <2>3, <2>4, <2>5, <2>6, <2>7, <2>8 DEF ServerStep
<1>4. ASSUME NEW c \in Conns, TimerStep(c) PROVE Identity'
  <2>1. CASE Confirm(c)           BY <2>1 DEF Confirm, Confirmed
  <2>2. CASE StaySilent(c)        BY <2>2 DEF StaySilent
  <2>3. CASE FireDisconnect(c)    BY <2>3 DEF FireDisconnect
  <2> QED BY <1>4, <2>1, <2>2, <2>3 DEF TimerStep
<1>5. ASSUME NEW k \in Tokens, ForgetToken(k) PROVE Identity'
  BY <1>5 DEF ForgetToken
<1> QED BY <1>1, <1>2, <1>3, <1>4, <1>5 DEF Next

(* Every step keeps the registry pointing to the newest connection. *)
LEMMA RegistryStep ==
  IInv /\ TypeOK' /\ [Next]_vars => Registry'
<1> SUFFICES ASSUME IInv, TypeOK', [Next]_vars PROVE Registry'
  OBVIOUS
<1> USE ConstantsAssumption
  DEF IInv, TypeOK, Registry, Identity, DisconnectState, NoEntry, PCs, Holding,
      Served, TaskStates
<1>1. CASE UNCHANGED vars
  BY <1>1 DEF vars
<1>2. ASSUME NEW c \in Conns, PeerStep(c) PROVE Registry'
  <2>1. CASE Accept(c)            BY <2>1 DEF Accept
  <2>2. CASE AcceptRegister(c)    BY <2>2 DEF AcceptRegister
  <2>3. CASE RejectRegister(c)    BY <2>3 DEF RejectRegister
  <2>4. CASE CloseSocket(c)       BY <2>4 DEF CloseSocket
  <2>5. CASE AcceptUnread(c)      BY <2>5 DEF AcceptUnread
  <2> QED BY <1>2, <2>1, <2>2, <2>3, <2>4, <2>5 DEF PeerStep
<1>3. ASSUME NEW c \in Conns, ServerStep(c) PROVE Registry'
  <2>1. CASE InsertEntry(c)       BY <2>1 DEF InsertEntry
  <2>2. CASE ResolveDisconnect(c) BY <2>2 DEF ResolveDisconnect
  <2>3. CASE SettlePrior(c)       BY <2>3 DEF SettlePrior, Abort
  <2>4. CASE StampToken(c)        BY <2>4 DEF StampToken
  <2>5. CASE SkipTeardown(c)      BY <2>5 DEF SkipTeardown, StillOurs
  <2>6. CASE RemoveEntry(c)       BY <2>6 DEF RemoveEntry, StillOurs
  <2>7. CASE ReleaseAgent(c)      BY <2>7 DEF ReleaseAgent
  <2>8. CASE InsertPending(c)     BY <2>8 DEF InsertPending, Pending
  <2> QED BY <1>3, <2>1, <2>2, <2>3, <2>4, <2>5, <2>6, <2>7, <2>8 DEF ServerStep
<1>4. ASSUME NEW c \in Conns, TimerStep(c) PROVE Registry'
  <2>1. CASE Confirm(c)           BY <2>1 DEF Confirm, Confirmed
  <2>2. CASE StaySilent(c)        BY <2>2 DEF StaySilent
  <2>3. CASE FireDisconnect(c)    BY <2>3 DEF FireDisconnect
  <2> QED BY <1>4, <2>1, <2>2, <2>3 DEF TimerStep
<1>5. ASSUME NEW k \in Tokens, ForgetToken(k) PROVE Registry'
  BY <1>5 DEF ForgetToken
<1> QED BY <1>1, <1>2, <1>3, <1>4, <1>5 DEF Next

(* Every step keeps what the entries say of their tasks. *)
LEMMA EntriesStep ==
  IInv /\ TypeOK' /\ [Next]_vars => Entries'
<1> SUFFICES ASSUME IInv, TypeOK', [Next]_vars PROVE Entries'
  OBVIOUS
<1> USE ConstantsAssumption
  DEF IInv, TypeOK, Entries, Identity, Held, AnswerOnce, DisconnectState,
      NoEntry, PCs, Holding, Served, TaskStates
<1>1. CASE UNCHANGED vars
  BY <1>1 DEF vars
<1>2. ASSUME NEW c \in Conns, PeerStep(c) PROVE Entries'
  <2>1. CASE Accept(c)            BY <2>1 DEF Accept
  <2>2. CASE AcceptRegister(c)    BY <2>2 DEF AcceptRegister
  <2>3. CASE RejectRegister(c)    BY <2>3 DEF RejectRegister
  <2>4. CASE CloseSocket(c)       BY <2>4 DEF CloseSocket
  <2>5. CASE AcceptUnread(c)      BY <2>5 DEF AcceptUnread
  <2> QED BY <1>2, <2>1, <2>2, <2>3, <2>4, <2>5 DEF PeerStep
<1>3. ASSUME NEW c \in Conns, ServerStep(c) PROVE Entries'
  <2>1. CASE InsertEntry(c)       BY <2>1 DEF InsertEntry
  <2>2. CASE ResolveDisconnect(c) BY <2>2 DEF ResolveDisconnect
  <2>3. CASE SettlePrior(c)       BY <2>3 DEF SettlePrior, Abort
  <2>4. CASE StampToken(c)        BY <2>4 DEF StampToken
  <2>5. CASE SkipTeardown(c)      BY <2>5 DEF SkipTeardown, StillOurs
  <2>6. CASE RemoveEntry(c)       BY <2>6 DEF RemoveEntry, StillOurs
  <2>7. CASE ReleaseAgent(c)      BY <2>7 DEF ReleaseAgent
  <2>8. CASE InsertPending(c)     BY <2>8 DEF InsertPending, Pending
  <2> QED BY <1>3, <2>1, <2>2, <2>3, <2>4, <2>5, <2>6, <2>7, <2>8 DEF ServerStep
<1>4. ASSUME NEW c \in Conns, TimerStep(c) PROVE Entries'
  <2>1. CASE Confirm(c)
    <3>1. \A d \in Conns : prior[d] # Confirmed(c)
      BY <2>1 DEF Confirm, Confirmed
    <3>2. answers[c] = 0
      BY <2>1, Unanswered DEF Confirm
    <3>3. \A b \in Agents : states[b].by = c => b = ident[c] \/ states[b] = NoEntry
      BY <2>1 DEF Confirm
    <3> QED BY <2>1, <3>1, <3>2, <3>3 DEF Confirm, Confirmed
  <2>2. CASE StaySilent(c)        BY <2>2 DEF StaySilent
  <2>3. CASE FireDisconnect(c)    BY <2>3 DEF FireDisconnect
  <2> QED BY <1>4, <2>1, <2>2, <2>3 DEF TimerStep
<1>5. ASSUME NEW k \in Tokens, ForgetToken(k) PROVE Entries'
  BY <1>5 DEF ForgetToken
<1> QED BY <1>1, <1>2, <1>3, <1>4, <1>5 DEF Next

(* Every step keeps what the removed entries say of their tasks. *)
LEMMA HeldStep ==
  IInv /\ TypeOK' /\ [Next]_vars => Held'
<1> SUFFICES ASSUME IInv, TypeOK', [Next]_vars PROVE Held'
  OBVIOUS
<1> USE ConstantsAssumption
  DEF IInv, TypeOK, Held, Identity, Entries, AnswerOnce, DisconnectState,
      NoEntry, PCs, Holding, Served, TaskStates
<1>1. CASE UNCHANGED vars
  BY <1>1 DEF vars
<1>2. ASSUME NEW c \in Conns, PeerStep(c) PROVE Held'
  <2>1. CASE Accept(c)            BY <2>1 DEF Accept
  <2>2. CASE AcceptRegister(c)    BY <2>2 DEF AcceptRegister
  <2>3. CASE RejectRegister(c)    BY <2>3 DEF RejectRegister
  <2>4. CASE CloseSocket(c)       BY <2>4 DEF CloseSocket
  <2>5. CASE AcceptUnread(c)      BY <2>5 DEF AcceptUnread
  <2> QED BY <1>2, <2>1, <2>2, <2>3, <2>4, <2>5 DEF PeerStep
<1>3. ASSUME NEW c \in Conns, ServerStep(c) PROVE Held'
  <2>1. CASE InsertEntry(c)       BY <2>1 DEF InsertEntry
  <2>2. CASE ResolveDisconnect(c) BY <2>2 DEF ResolveDisconnect
  <2>3. CASE SettlePrior(c)       BY <2>3 DEF SettlePrior, Abort
  <2>4. CASE StampToken(c)        BY <2>4 DEF StampToken
  <2>5. CASE SkipTeardown(c)      BY <2>5 DEF SkipTeardown, StillOurs
  <2>6. CASE RemoveEntry(c)       BY <2>6 DEF RemoveEntry, StillOurs
  <2>7. CASE ReleaseAgent(c)      BY <2>7 DEF ReleaseAgent
  <2>8. CASE InsertPending(c)     BY <2>8 DEF InsertPending, Pending
  <2> QED BY <1>3, <2>1, <2>2, <2>3, <2>4, <2>5, <2>6, <2>7, <2>8 DEF ServerStep
<1>4. ASSUME NEW c \in Conns, TimerStep(c) PROVE Held'
  <2>1. CASE Confirm(c)           BY <2>1 DEF Confirm, Confirmed
  <2>2. CASE StaySilent(c)        BY <2>2 DEF StaySilent
  <2>3. CASE FireDisconnect(c)    BY <2>3 DEF FireDisconnect
  <2> QED BY <1>4, <2>1, <2>2, <2>3 DEF TimerStep
<1>5. ASSUME NEW k \in Tokens, ForgetToken(k) PROVE Held'
  BY <1>5 DEF ForgetToken
<1> QED BY <1>1, <1>2, <1>3, <1>4, <1>5 DEF Next

(* Every step keeps the answers unique. *)
LEMMA AnswerOnceStep ==
  IInv /\ TypeOK' /\ [Next]_vars => AnswerOnce'
<1> SUFFICES ASSUME IInv, TypeOK', [Next]_vars PROVE AnswerOnce'
  OBVIOUS
<1> USE ConstantsAssumption
  DEF IInv, TypeOK, AnswerOnce, Identity, Entries, Held, DisconnectState,
      NoEntry, PCs, Holding, Served, TaskStates
<1>1. CASE UNCHANGED vars
  BY <1>1 DEF vars
<1>2. ASSUME NEW c \in Conns, PeerStep(c) PROVE AnswerOnce'
  <2>1. CASE Accept(c)            BY <2>1 DEF Accept
  <2>2. CASE AcceptRegister(c)    BY <2>2 DEF AcceptRegister
  <2>3. CASE RejectRegister(c)    BY <2>3 DEF RejectRegister
  <2>4. CASE CloseSocket(c)       BY <2>4 DEF CloseSocket
  <2>5. CASE AcceptUnread(c)      BY <2>5 DEF AcceptUnread
  <2> QED BY <1>2, <2>1, <2>2, <2>3, <2>4, <2>5 DEF PeerStep
<1>3. ASSUME NEW c \in Conns, ServerStep(c) PROVE AnswerOnce'
  <2>1. CASE InsertEntry(c)       BY <2>1 DEF InsertEntry
  <2>2. CASE ResolveDisconnect(c) BY <2>2 DEF ResolveDisconnect
  <2>3. CASE SettlePrior(c)       BY <2>3 DEF SettlePrior, Abort
  <2>4. CASE StampToken(c)        BY <2>4 DEF StampToken
  <2>5. CASE SkipTeardown(c)      BY <2>5 DEF SkipTeardown, StillOurs
  <2>6. CASE RemoveEntry(c)       BY <2>6 DEF RemoveEntry, StillOurs
  <2>7. CASE ReleaseAgent(c)      BY <2>7 DEF ReleaseAgent
  <2>8. CASE InsertPending(c)     BY <2>8 DEF InsertPending, Pending
  <2> QED BY <1>3, <2>1, <2>2, <2>3, <2>4, <2>5, <2>6, <2>7, <2>8 DEF ServerStep
<1>4. ASSUME NEW c \in Conns, TimerStep(c) PROVE AnswerOnce'
  <2>1. CASE Confirm(c)           BY <2>1 DEF Confirm, Confirmed
  <2>2. CASE StaySilent(c)        BY <2>2 DEF StaySilent
  <2>3. CASE FireDisconnect(c)    BY <2>3 DEF FireDisconnect
  <2> QED BY <1>4, <2>1, <2>2, <2>3 DEF TimerStep
<1>5. ASSUME NEW k \in Tokens, ForgetToken(k) PROVE AnswerOnce'
  BY <1>5 DEF ForgetToken
<1> QED BY <1>1, <1>2, <1>3, <1>4, <1>5 DEF Next

(* IInv is an invariant of AgentSession. *)
THEOREM IInvariance == Spec => []IInv
<1>1. IInv /\ [Next]_vars => IInv'
  BY TypeOKStep, IdentityStep, RegistryStep, EntriesStep, HeldStep, AnswerOnceStep
  DEF IInv
<1> QED BY InitIInv, <1>1, PTL DEF Spec

(* Every variable of AgentSession has its type in every reachable state. *)
THEOREM TypeCorrect == Spec => []TypeOK
<1>1. IInv => TypeOK
  BY DEF IInv
<1> QED BY IInvariance, <1>1, PTL

(* However the sockets of an agent overlap, the registry never leads to a  *)
(* connection that has finished with it.                                   *)
THEOREM GhostFree == Spec => []NoGhostAgent
<1>1. IInv => NoGhostAgent
  BY DEF IInv, TypeOK, Registry, NoGhostAgent
<1> QED BY IInvariance, <1>1, PTL

(* However the sockets of an agent overlap, the newest one owns its id     *)
(* until its own teardown looks at the entry.                              *)
THEOREM OverlapGuard == Spec => []NewestOwnsId
<1>1. IInv => NewestOwnsId
  BY DEF IInv, Registry, NewestOwnsId
<1> QED BY IInvariance, <1>1, PTL

(* No Pending entry is ever left without its sleeping debounce task.       *)
THEOREM PendingTimed == Spec => []PendingHasTimer
<1>1. IInv => PendingHasTimer
  BY DEF IInv, Entries, PendingHasTimer
<1> QED BY IInvariance, <1>1, PTL

(* Connect webhooks answer disconnect webhooks one to one.                 *)
THEOREM AnsweredOnce == Spec => []AnswerOnce
<1>1. IInv => AnswerOnce
  BY DEF IInv
<1> QED BY IInvariance, <1>1, PTL
-----------------------------------------------------------------------------
(* The registry the other components see.                                  *)

(* A step that keeps the registry, the names and the teardown phase of     *)
(* every connection is invisible.                                          *)
LEMMA Invisible ==
  ASSUME UNCHANGED <<agents, ident>>, pc' \in [Conns -> PCs], pc \in [Conns -> PCs],
         \A c \in Conns : LinkOf(c)' = LinkOf(c)
  PROVE  UNCHANGED Abstract!registry
BY DEF Abstract!registry

(* One connection's link changes. *)
LinkUpdate(c, l) ==
  [d \in Conns |-> LinkOf(d)]' = [[d \in Conns |-> LinkOf(d)] EXCEPT ![c] = l]

(* If one link changes, the links are the old ones with that change.       *)
LEMMA OneLinkChanges ==
  ASSUME NEW c \in Conns, NEW l,
         \A d \in Conns \ {c} : LinkOf(d)' = LinkOf(d), LinkOf(c)' = l
  PROVE  LinkUpdate(c, l)
<1> DEFINE now == [d \in Conns |-> LinkOf(d)]
           then == [d \in Conns |-> LinkOf(d)']
<1>1. \A d \in Conns : then[d] = [now EXCEPT ![c] = l][d]
  OBVIOUS
<1>2. then = [now EXCEPT ![c] = l]
  BY <1>1
<1> QED BY <1>2 DEF LinkUpdate

(* Every step of AgentSession is a step of the registry or invisible. *)
LEMMA RegistryStepSimulation ==
  IInv /\ IInv' /\ [Next]_vars => [Abstract!RegistryNext]_(Abstract!registry)
<1> SUFFICES ASSUME IInv, IInv', [Next]_vars
             PROVE  Abstract!RegistryNext \/ UNCHANGED Abstract!registry
  OBVIOUS
<1> USE ConstantsAssumption DEF IInv, TypeOK, PCs, Holding, Served
<1>1. CASE UNCHANGED vars
  BY <1>1, Invisible DEF LinkOf, vars
<1>2. ASSUME NEW c \in Conns, PeerStep(c)
      PROVE  Abstract!RegistryNext \/ UNCHANGED Abstract!registry
  <2>1. CASE Accept(c)            BY <2>1, Invisible
    DEF LinkOf, Accept, Identity
  <2>2. CASE AcceptRegister(c)
    BY <2>2, Invisible DEF LinkOf, AcceptRegister, Identity
  <2>3. CASE RejectRegister(c)
    BY <2>3, Invisible DEF LinkOf, RejectRegister, Identity
  <2>4. CASE CloseSocket(c)
    BY <2>4, Invisible DEF LinkOf, CloseSocket, Identity
  <2>5. CASE AcceptUnread(c)
    BY <2>5, Invisible DEF LinkOf, AcceptUnread, Identity
  <2> QED BY <1>2, <2>1, <2>2, <2>3, <2>4, <2>5 DEF PeerStep
<1>3. ASSUME NEW c \in Conns, ServerStep(c)
      PROVE  Abstract!RegistryNext \/ UNCHANGED Abstract!registry
  <2>1. CASE InsertEntry(c)
    <3>1. \A d \in Conns \ {c} : LinkOf(d)' = LinkOf(d)
      BY <2>1 DEF LinkOf, InsertEntry
    <3>2. LinkOf(c)' = "live"
      BY <2>1 DEF LinkOf, InsertEntry, Identity
    <3>3. LinkUpdate(c, "live")
      BY <3>1, <3>2, OneLinkChanges
    <3>4. LinkOf(c) \in {"new", "live"}
      BY <2>1 DEF LinkOf, InsertEntry, Identity, Registry
    <3>5. Abstract!Insert(c)
      BY <2>1, <3>3, <3>4 DEF InsertEntry, Identity, LinkUpdate, Abstract!Insert
    <3> QED BY <3>5 DEF Abstract!RegistryNext
  <2>2. CASE ResolveDisconnect(c)
    BY <2>2, Invisible DEF LinkOf, ResolveDisconnect, Identity
  <2>3. CASE SettlePrior(c)
    BY <2>3, Invisible DEF LinkOf, SettlePrior, Identity
  <2>4. CASE StampToken(c)
    BY <2>4, Invisible DEF LinkOf, StampToken, Identity
  <2>5. CASE SkipTeardown(c)
    <3>1. \A d \in Conns \ {c} : LinkOf(d)' = LinkOf(d)
      BY <2>5 DEF LinkOf, SkipTeardown
    <3>2. LinkOf(c)' = "over"
      BY <2>5 DEF LinkOf, SkipTeardown, Identity, StillOurs
    <3>3. LinkUpdate(c, "over")
      BY <3>1, <3>2, OneLinkChanges
    <3>4. LinkOf(c) \in {"new", "live"} /\ agents[HostOf[c]] # c
      BY <2>5 DEF LinkOf, SkipTeardown, Identity, Registry, StillOurs
    <3>5. Abstract!Skip(c)
      BY <2>5, <3>3, <3>4 DEF SkipTeardown, Identity, LinkUpdate, Abstract!Skip
    <3> QED BY <3>5 DEF Abstract!RegistryNext
  <2>6. CASE RemoveEntry(c)
    <3>1. \A d \in Conns \ {c} : LinkOf(d)' = LinkOf(d)
      BY <2>6 DEF LinkOf, RemoveEntry
    <3>2. LinkOf(c)' = "removed"
      BY <2>6 DEF LinkOf, RemoveEntry, Identity, StillOurs
    <3>3. LinkUpdate(c, "removed")
      BY <3>1, <3>2, OneLinkChanges
    <3>4. LinkOf(c) = "live" /\ ident[c] = HostOf[c] /\ agents[HostOf[c]] = c
      BY <2>6 DEF LinkOf, RemoveEntry, Identity, Registry, StillOurs
    <3>5. Abstract!Remove(c)
      BY <2>6, <3>3, <3>4 DEF RemoveEntry, LinkUpdate, Abstract!Remove
    <3> QED BY <3>5 DEF Abstract!RegistryNext
  <2>7. CASE ReleaseAgent(c)
    <3>1. \A d \in Conns \ {c} : LinkOf(d)' = LinkOf(d)
      BY <2>7 DEF LinkOf, ReleaseAgent
    <3>2. LinkOf(c)' = "over"
      BY <2>7 DEF LinkOf, ReleaseAgent, Identity
    <3>3. LinkUpdate(c, "over")
      BY <3>1, <3>2, OneLinkChanges
    <3>4. LinkOf(c) = "removed"
      BY <2>7 DEF LinkOf, ReleaseAgent, Identity, Registry
    <3>5. Abstract!Release(c)
      BY <2>7, <3>3, <3>4
        DEF ReleaseAgent, Identity, LinkUpdate, Abstract!Release
    <3> QED BY <3>5 DEF Abstract!RegistryNext
  <2>8. CASE InsertPending(c)
    BY <2>8, Invisible DEF LinkOf, InsertPending, Identity
  <2> QED BY <1>3, <2>1, <2>2, <2>3, <2>4, <2>5, <2>6, <2>7, <2>8 DEF ServerStep
<1>4. ASSUME NEW c \in Conns, TimerStep(c)
      PROVE  Abstract!RegistryNext \/ UNCHANGED Abstract!registry
  <2>1. CASE Confirm(c)
    BY <2>1, Invisible DEF LinkOf, Confirm, Identity
  <2>2. CASE StaySilent(c)
    BY <2>2, Invisible DEF LinkOf, StaySilent, Identity
  <2>3. CASE FireDisconnect(c)
    BY <2>3, Invisible DEF LinkOf, FireDisconnect, Identity
  <2> QED BY <1>4, <2>1, <2>2, <2>3 DEF TimerStep
<1>5. ASSUME NEW k \in Tokens, ForgetToken(k)
      PROVE  UNCHANGED Abstract!registry
  BY <1>5, Invisible DEF LinkOf, ForgetToken
<1> QED BY <1>1, <1>2, <1>3, <1>4, <1>5 DEF Next

(* AgentSession implements AgentRegistry. *)
THEOREM RegistryImplemented == Spec => ImplementsRegistry
<1>1. Init => Abstract!RegistryInit
  BY ConstantsAssumption DEF Init, Abstract!RegistryInit, LinkOf
<1> QED
  BY <1>1, IInvariance, RegistryStepSimulation, PTL
  DEF Spec, ImplementsRegistry, Abstract!RegistrySpec

-----------------------------------------------------------------------------
(* Agents whose sockets do not overlap.                                    *)

(* At most one socket of a host is between its Register and its end.       *)
Active(c) == pc[c] # "closed" /\ (ident[c] # NoAgent \/ pc[c] = "accepted")

OneActive ==
  \A c, d \in Conns : HostOf[c] = HostOf[d] /\ Active(c) /\ Active(d) => c = d

(* A socket that inserted itself stays the newest until its end.           *)
StaysNewest ==
  \A c \in Conns :
    /\ ident[c] # NoAgent
    /\ pc[c] \notin {"accepted", "closed"}
    => latest[HostOf[c]] = c

(* An agent id has an entry exactly while its newest socket is over, or    *)
(* has just been replaced and not yet resolved.                            *)
Tracked ==
  \A a \in Agents :
    /\ latest[a] = NoConn => states[a] = NoEntry
    /\ latest[a] # NoConn /\ pc[latest[a]] \notin {"resolving", "closed"}
         => states[a] = NoEntry
    /\ latest[a] # NoConn /\ pc[latest[a]] = "closed"
         => states[a] # NoEntry

(* A debounce task sleeps only while an entry, or the connection that took *)
(* the entry out, still holds its handle.                                  *)
Timers ==
  \A t \in Conns : task[t] = "sleeping" /\ pc[t] = "closed" =>
    \/ states[ident[t]] = Pending(t)
    \/ \E c \in Conns : prior[c] = Pending(t) /\ pc[c] = "settling"
                          /\ ident[c] = ident[t]

SeqInv == OneActive /\ StaysNewest /\ Tracked /\ Timers

(* The entry a sleeping task finds, if it is a Pending, is its own. *)
LEMMA OwnPending ==
  ASSUME IInv, SeqInv, NEW t \in Conns, task[t] = "sleeping", pc[t] = "closed",
         states[ident[t]].kind = "pending"
  PROVE  states[ident[t]] = Pending(t)
<1>1. ident[t] \in Agents
  BY ConstantsAssumption DEF IInv, Identity
<1>2. ASSUME NEW c \in Conns, pc[c] = "settling", ident[c] = ident[t] PROVE FALSE
  <2>1. ident[c] = HostOf[c] /\ latest[ident[c]] = c /\ c # NoConn
    BY <1>2, <1>1, ConstantsAssumption
      DEF IInv, SeqInv, Identity, StaysNewest, Served
  <2>2. states[ident[t]] = NoEntry
    BY <2>1, <1>1, <1>2 DEF SeqInv, Tracked
  <2> QED BY <2>2 DEF NoEntry
<1> QED BY <1>2 DEF SeqInv, Timers

(* Initially nothing is connected. *)
LEMMA InitSeqInv == Init => SeqInv
  BY ConstantsAssumption
  DEF Init, SeqInv, OneActive, Active, StaysNewest, Tracked, Timers

(* Without Overlap no second socket of a host becomes active. *)
LEMMA OneActiveStep ==
  ~Overlap /\ IInv /\ IInv' /\ SeqInv /\ [Next]_vars => OneActive'
<1> SUFFICES ASSUME ~Overlap, IInv, IInv', SeqInv, [Next]_vars PROVE OneActive'
  OBVIOUS
<1> USE ConstantsAssumption
  DEF IInv, TypeOK, SeqInv, OneActive, Active, Identity, DisconnectState,
      NoEntry, PCs, Holding, Served, TaskStates
<1>1. CASE UNCHANGED vars
  BY <1>1 DEF vars, Pending
<1>2. ASSUME NEW c \in Conns, PeerStep(c) PROVE OneActive'
  <2>1. CASE Accept(c)            BY <2>1 DEF Accept
  <2>2. CASE AcceptRegister(c)    BY <2>2 DEF AcceptRegister, MayRegister
  <2>3. CASE RejectRegister(c)    BY <2>3 DEF RejectRegister
  <2>4. CASE CloseSocket(c)       BY <2>4 DEF CloseSocket
  <2>5. CASE AcceptUnread(c)      BY <2>5 DEF AcceptUnread, MayRegister
  <2> QED BY <1>2, <2>1, <2>2, <2>3, <2>4, <2>5 DEF PeerStep
<1>3. ASSUME NEW c \in Conns, ServerStep(c) PROVE OneActive'
  <2>1. CASE InsertEntry(c)       BY <2>1 DEF InsertEntry
  <2>2. CASE ResolveDisconnect(c) BY <2>2 DEF ResolveDisconnect
  <2>3. CASE SettlePrior(c)       BY <2>3 DEF SettlePrior, Abort
  <2>4. CASE StampToken(c)        BY <2>4 DEF StampToken
  <2>5. CASE SkipTeardown(c)      BY <2>5 DEF SkipTeardown, StillOurs
  <2>6. CASE RemoveEntry(c)       BY <2>6 DEF RemoveEntry, StillOurs
  <2>7. CASE ReleaseAgent(c)      BY <2>7 DEF ReleaseAgent
  <2>8. CASE InsertPending(c)     BY <2>8 DEF InsertPending, Pending
  <2> QED BY <1>3, <2>1, <2>2, <2>3, <2>4, <2>5, <2>6, <2>7, <2>8 DEF ServerStep
<1>4. ASSUME NEW c \in Conns, TimerStep(c) PROVE OneActive'
  <2>1. CASE Confirm(c)           BY <2>1 DEF Confirm, Confirmed
  <2>2. CASE StaySilent(c)        BY <2>2 DEF StaySilent
  <2>3. CASE FireDisconnect(c)    BY <2>3 DEF FireDisconnect
  <2> QED BY <1>4, <2>1, <2>2, <2>3 DEF TimerStep
<1>5. ASSUME NEW k \in Tokens, ForgetToken(k) PROVE OneActive'
  BY <1>5 DEF ForgetToken
<1> QED BY <1>1, <1>2, <1>3, <1>4, <1>5 DEF Next

(* Without Overlap an active socket stays the newest. *)
LEMMA StaysNewestStep ==
  ~Overlap /\ IInv /\ IInv' /\ SeqInv /\ [Next]_vars => StaysNewest'
<1> SUFFICES ASSUME ~Overlap, IInv, IInv', SeqInv, [Next]_vars PROVE StaysNewest'
  OBVIOUS
<1> USE ConstantsAssumption
  DEF IInv, TypeOK, SeqInv, StaysNewest, OneActive, Active, Identity,
      DisconnectState, NoEntry, PCs, Holding, Served, TaskStates
<1>1. CASE UNCHANGED vars
  BY <1>1 DEF vars, Pending
<1>2. ASSUME NEW c \in Conns, PeerStep(c) PROVE StaysNewest'
  <2>1. CASE Accept(c)            BY <2>1 DEF Accept
  <2>2. CASE AcceptRegister(c)    BY <2>2 DEF AcceptRegister, MayRegister
  <2>3. CASE RejectRegister(c)    BY <2>3 DEF RejectRegister
  <2>4. CASE CloseSocket(c)       BY <2>4 DEF CloseSocket
  <2>5. CASE AcceptUnread(c)      BY <2>5 DEF AcceptUnread, MayRegister
  <2> QED BY <1>2, <2>1, <2>2, <2>3, <2>4, <2>5 DEF PeerStep
<1>3. ASSUME NEW c \in Conns, ServerStep(c) PROVE StaysNewest'
  <2>1. CASE InsertEntry(c)       BY <2>1 DEF InsertEntry
  <2>2. CASE ResolveDisconnect(c) BY <2>2 DEF ResolveDisconnect
  <2>3. CASE SettlePrior(c)       BY <2>3 DEF SettlePrior, Abort
  <2>4. CASE StampToken(c)        BY <2>4 DEF StampToken
  <2>5. CASE SkipTeardown(c)      BY <2>5 DEF SkipTeardown, StillOurs
  <2>6. CASE RemoveEntry(c)       BY <2>6 DEF RemoveEntry, StillOurs
  <2>7. CASE ReleaseAgent(c)      BY <2>7 DEF ReleaseAgent
  <2>8. CASE InsertPending(c)     BY <2>8 DEF InsertPending, Pending
  <2> QED BY <1>3, <2>1, <2>2, <2>3, <2>4, <2>5, <2>6, <2>7, <2>8 DEF ServerStep
<1>4. ASSUME NEW c \in Conns, TimerStep(c) PROVE StaysNewest'
  <2>1. CASE Confirm(c)           BY <2>1 DEF Confirm, Confirmed
  <2>2. CASE StaySilent(c)        BY <2>2 DEF StaySilent
  <2>3. CASE FireDisconnect(c)    BY <2>3 DEF FireDisconnect
  <2> QED BY <1>4, <2>1, <2>2, <2>3 DEF TimerStep
<1>5. ASSUME NEW k \in Tokens, ForgetToken(k) PROVE StaysNewest'
  BY <1>5 DEF ForgetToken
<1> QED BY <1>1, <1>2, <1>3, <1>4, <1>5 DEF Next

(* Without Overlap the entries follow the newest socket. *)
LEMMA TrackedStep ==
  ~Overlap /\ IInv /\ IInv' /\ SeqInv /\ [Next]_vars => Tracked'
<1> SUFFICES ASSUME ~Overlap, IInv, IInv', SeqInv, [Next]_vars PROVE Tracked'
  OBVIOUS
<1> USE ConstantsAssumption
  DEF IInv, TypeOK, SeqInv, Tracked, OneActive, Active, StaysNewest, Identity,
      Registry, Entries, DisconnectState, NoEntry, PCs, Holding, Served,
      TaskStates
<1>1. CASE UNCHANGED vars
  BY <1>1 DEF vars, Pending
<1>2. ASSUME NEW c \in Conns, PeerStep(c) PROVE Tracked'
  <2>1. CASE Accept(c)            BY <2>1 DEF Accept
  <2>2. CASE AcceptRegister(c)    BY <2>2 DEF AcceptRegister, MayRegister
  <2>3. CASE RejectRegister(c)    BY <2>3 DEF RejectRegister
  <2>4. CASE CloseSocket(c)       BY <2>4 DEF CloseSocket
  <2>5. CASE AcceptUnread(c)      BY <2>5 DEF AcceptUnread, MayRegister
  <2> QED BY <1>2, <2>1, <2>2, <2>3, <2>4, <2>5 DEF PeerStep
<1>3. ASSUME NEW c \in Conns, ServerStep(c) PROVE Tracked'
  <2>1. CASE InsertEntry(c)       BY <2>1 DEF InsertEntry
  <2>2. CASE ResolveDisconnect(c) BY <2>2 DEF ResolveDisconnect
  <2>3. CASE SettlePrior(c)       BY <2>3 DEF SettlePrior, Abort
  <2>4. CASE StampToken(c)        BY <2>4 DEF StampToken
  <2>5. CASE SkipTeardown(c)      BY <2>5 DEF SkipTeardown, StillOurs
  <2>6. CASE RemoveEntry(c)       BY <2>6 DEF RemoveEntry, StillOurs
  <2>7. CASE ReleaseAgent(c)      BY <2>7 DEF ReleaseAgent
  <2>8. CASE InsertPending(c)     BY <2>8 DEF InsertPending, Pending
  <2> QED BY <1>3, <2>1, <2>2, <2>3, <2>4, <2>5, <2>6, <2>7, <2>8 DEF ServerStep
<1>4. ASSUME NEW c \in Conns, TimerStep(c) PROVE Tracked'
  <2>1. CASE Confirm(c)           BY <2>1 DEF Confirm, Confirmed
  <2>2. CASE StaySilent(c)        BY <2>2 DEF StaySilent
  <2>3. CASE FireDisconnect(c)    BY <2>3 DEF FireDisconnect
  <2> QED BY <1>4, <2>1, <2>2, <2>3 DEF TimerStep
<1>5. ASSUME NEW k \in Tokens, ForgetToken(k) PROVE Tracked'
  BY <1>5 DEF ForgetToken
<1> QED BY <1>1, <1>2, <1>3, <1>4, <1>5 DEF Next

(* Without Overlap a sleeping task keeps its entry. *)
LEMMA TimersStep ==
  ~Overlap /\ IInv /\ IInv' /\ SeqInv /\ [Next]_vars => Timers'
<1> SUFFICES ASSUME ~Overlap, IInv, IInv', SeqInv, [Next]_vars PROVE Timers'
  OBVIOUS
<1> USE ConstantsAssumption
  DEF IInv, TypeOK, SeqInv, Timers, OneActive, Active, StaysNewest, Tracked,
      Identity, DisconnectState, NoEntry, PCs, Holding, Served, TaskStates
<1>1. CASE UNCHANGED vars
  BY <1>1 DEF vars, Pending
<1>2. ASSUME NEW c \in Conns, PeerStep(c) PROVE Timers'
  <2>1. CASE Accept(c)            BY <2>1 DEF Accept
  <2>2. CASE AcceptRegister(c)    BY <2>2 DEF AcceptRegister, MayRegister
  <2>3. CASE RejectRegister(c)    BY <2>3 DEF RejectRegister
  <2>4. CASE CloseSocket(c)       BY <2>4 DEF CloseSocket
  <2>5. CASE AcceptUnread(c)      BY <2>5 DEF AcceptUnread, MayRegister
  <2> QED BY <1>2, <2>1, <2>2, <2>3, <2>4, <2>5 DEF PeerStep
<1>3. ASSUME NEW c \in Conns, ServerStep(c) PROVE Timers'
  <2>1. CASE InsertEntry(c)       BY <2>1 DEF InsertEntry
  <2>2. CASE ResolveDisconnect(c) BY <2>2 DEF ResolveDisconnect
  <2>3. CASE SettlePrior(c)
    <3> SUFFICES ASSUME NEW t \in Conns, task'[t] = "sleeping", pc'[t] = "closed"
                 PROVE  \/ states'[ident'[t]] = Pending(t)
                        \/ \E d \in Conns : prior'[d] = Pending(t) /\ pc'[d] = "settling"
                                              /\ ident'[d] = ident'[t]
      OBVIOUS
    <3>1. task[t] = "sleeping" /\ pc[t] = "closed" /\ prior[c] # Pending(t)
      BY <2>3 DEF SettlePrior, Abort, Pending
    <3>2. \A d \in Conns \ {c} : prior'[d] = prior[d] /\ pc'[d] = pc[d]
      BY <2>3 DEF SettlePrior
    <3>3. UNCHANGED <<states, ident>>
      BY <2>3 DEF SettlePrior
    <3> QED BY <3>1, <3>2, <3>3
  <2>4. CASE StampToken(c)        BY <2>4 DEF StampToken
  <2>5. CASE SkipTeardown(c)      BY <2>5 DEF SkipTeardown, StillOurs
  <2>6. CASE RemoveEntry(c)       BY <2>6 DEF RemoveEntry, StillOurs
  <2>7. CASE ReleaseAgent(c)      BY <2>7 DEF ReleaseAgent
  <2>8. CASE InsertPending(c)     BY <2>8 DEF InsertPending, Pending
  <2> QED BY <1>3, <2>1, <2>2, <2>3, <2>4, <2>5, <2>6, <2>7, <2>8 DEF ServerStep
<1>4. ASSUME NEW c \in Conns, TimerStep(c) PROVE Timers'
  <2>1. CASE Confirm(c)
    <3>1. states[ident[c]] = Pending(c)
      BY <2>1, OwnPending DEF Confirm
    <3>2. ASSUME NEW t \in Conns \ {c},
                 ident[t] = ident[c], task[t] = "sleeping", pc[t] = "closed"
          PROVE  FALSE
      <4>1. states[ident[t]].kind = "pending"
        BY <3>1, <3>2 DEF Pending
      <4>2. states[ident[t]] = Pending(t)
        BY <3>2, <4>1, OwnPending
      <4> QED BY <3>1, <3>2, <4>2 DEF Pending
    <3>3. ident[c] \in Agents /\ UNCHANGED <<pc, ident, prior>>
      BY <2>1 DEF Confirm
    <3>4. task'[c] = "firing" /\ \A t \in Conns \ {c} : task'[t] = task[t]
      BY <2>1 DEF Confirm
    <3>5. \A b \in Agents \ {ident[c]} : states'[b] = states[b]
      BY <2>1 DEF Confirm
    <3> QED BY <3>2, <3>3, <3>4, <3>5
  <2>2. CASE StaySilent(c)        BY <2>2 DEF StaySilent
  <2>3. CASE FireDisconnect(c)    BY <2>3 DEF FireDisconnect
  <2> QED BY <1>4, <2>1, <2>2, <2>3 DEF TimerStep
<1>5. ASSUME NEW k \in Tokens, ForgetToken(k) PROVE Timers'
  BY <1>5 DEF ForgetToken
<1> QED BY <1>1, <1>2, <1>3, <1>4, <1>5 DEF Next

(* The sequential invariant, for agents whose sockets do not overlap. *)
THEOREM SeqInvariance == ~Overlap /\ Spec => [](IInv /\ SeqInv)
<1>1. ~Overlap /\ Spec => []IInv
  BY IInvariance
<1>2. ~Overlap /\ IInv /\ IInv' /\ SeqInv /\ [Next]_vars => SeqInv'
  BY OneActiveStep, StaysNewestStep, TrackedStep, TimersStep DEF SeqInv
<1>3. CASE Overlap
  BY <1>3, PTL
<1>4. CASE ~Overlap
  BY <1>1, <1>2, <1>4, InitSeqInv, PTL DEF Spec
<1> QED BY <1>3, <1>4

(* Without Overlap a confirmed entry means that the agent is gone.         *)
THEOREM ConfirmedGone == ~Overlap /\ Spec => []ConfirmedMeansGone
<1>1. IInv /\ SeqInv => ConfirmedMeansGone
  BY ConstantsAssumption
  DEF IInv, SeqInv, TypeOK, Registry, Tracked, ConfirmedMeansGone,
      DisconnectState, NoEntry, Holding, Served
<1> QED BY SeqInvariance, <1>1, PTL

(* Without Overlap an agent that left is tracked until it is back.         *)
THEOREM GoneTracked == ~Overlap /\ Spec => []GoneIsTracked
<1>1. IInv /\ SeqInv => GoneIsTracked
  BY ConstantsAssumption
  DEF IInv, SeqInv, TypeOK, Registry, Identity, Tracked, GoneIsTracked,
      PCs, Holding, Served
<1> QED BY SeqInvariance, <1>1, PTL

(* Without Overlap a debounce task confirms its own entry only.            *)
THEOREM OwnEntry == ~Overlap /\ Spec => FiresOwnEntry
<1>1. ASSUME IInv, SeqInv, NEW t \in Conns, Confirm(t)
      PROVE  states[ident[t]] = Pending(t)
  BY <1>1, OwnPending DEF Confirm
<1>2. IInv /\ SeqInv /\ [Next]_vars
        => [\A t \in Conns : Confirm(t) => states[ident[t]] = Pending(t)]_vars
  BY <1>1
<1> QED BY SeqInvariance, <1>2, PTL DEF Spec, FiresOwnEntry

-----------------------------------------------------------------------------
(* The sessions beside the alerter.                                        *)

(* An agent whose last alert is old has a confirmed entry to remind of.    *)
OverdueIsConfirmed == \A a \in overdue : states[a].kind = "confirmed"

AlertsInv ==
  overdue \subseteq Agents /\ due \subseteq Agents /\ OverdueIsConfirmed

(* What the alerter collects are agents without a connection, or whose new *)
(* connection is just about to clear the entry.                            *)
CollectsOnlyLost ==
  [][\A a \in due' \ due : agents[a] = NoConn \/ pc[agents[a]] = "resolving"
    ]_alertVars

(* Beside the alerter the sessions do what they do without it.             *)
THEOREM SessionsBesideAlerter == AlertsSpec => Spec
<1>1. AlertsInit => Init
  BY DEF AlertsInit
<1>2. [AlertsNext]_alertVars => [Next]_vars
  BY DEF AlertsNext, SessionStep, AlerterStep, CollectDue, Remind, Elapse,
         alertVars
<1> QED
  BY <1>1, <1>2, PTL DEF AlertsSpec, Spec

(* AlertsInv: what is overdue is confirmed, whatever becomes of entries.   *)
THEOREM OverdueAreConfirmed == AlertsSpec => []AlertsInv
<1>1. AlertsInit => AlertsInv
  BY DEF AlertsInit, AlertsInv, OverdueIsConfirmed
<1>2. AlertsInv /\ [AlertsNext]_alertVars => AlertsInv'
  <2> SUFFICES ASSUME AlertsInv, [AlertsNext]_alertVars PROVE AlertsInv'
    OBVIOUS
  <2> USE DEF AlertsInv, OverdueIsConfirmed
  <2>1. CASE UNCHANGED alertVars
    BY <2>1 DEF alertVars, vars
  <2>2. CASE SessionStep
    BY <2>2 DEF SessionStep
  <2>3. CASE CollectDue
    BY <2>3 DEF CollectDue, vars
  <2>4. ASSUME NEW a \in Agents, Remind(a) PROVE AlertsInv'
    BY <2>4 DEF Remind, vars
  <2>5. ASSUME NEW a \in Agents, Elapse(a) PROVE AlertsInv'
    BY <2>5 DEF Elapse, vars
  <2> QED
    BY <2>1, <2>2, <2>3, <2>4, <2>5 DEF AlertsNext, AlerterStep
<1> QED
  BY <1>1, <1>2, PTL DEF AlertsSpec

(* CollectsOnlyLost: without Overlap nobody is reminded of an agent that   *)
(* was online when the alerter looked.                                     *)
THEOREM RemindersAreOfTheLost == ~Overlap /\ AlertsSpec => CollectsOnlyLost
<1>1. ~Overlap /\ AlertsSpec => []ConfirmedMeansGone
  BY SessionsBesideAlerter, ConfirmedGone
<1>2. AlertsInv /\ ConfirmedMeansGone /\ [AlertsNext]_alertVars
        => [\A a \in due' \ due :
              agents[a] = NoConn \/ pc[agents[a]] = "resolving"]_alertVars
  BY DEF AlertsInv, OverdueIsConfirmed, ConfirmedMeansGone, AlertsNext,
         AlerterStep, SessionStep, CollectDue, Remind, Elapse
<1> QED
  BY <1>1, <1>2, OverdueAreConfirmed, PTL DEF AlertsSpec, CollectsOnlyLost

-----------------------------------------------------------------------------
(* Tokens that are bound by one host at a time.                            *)

(* Between the identity-binding guard and the write of the binding.        *)
Binding == {"accepted", "resolving", "settling", "stamping"}

(* No two hosts with one token are there at the same time.                 *)
BindsAlone ==
  \A c, d \in Conns :
    /\ pc[c] \in Binding /\ pc[d] \in Binding
    /\ TokenOf[c] = TokenOf[d] /\ TokenOf[c] \notin Legacy
    => HostOf[c] = HostOf[d]

(* upsert_token_seen succeeds.                                             *)
BindingStamped ==
  \A c \in Conns :
    StampToken(c) => bound' = [bound EXCEPT ![TokenOf[c]].host = ident[c]]

(* token_hostname succeeds, when the guard depends on it.                  *)
BindingRead == \A c \in Conns : AcceptUnread(c) => TokenAdmits(c)

(* No row is deleted while an agent is connected with its token.           *)
BindingKept ==
  \A k \in Tokens \ Legacy : ForgetToken(k) =>
    \A a \in Agents : agents[a] # NoConn => TokenOf[agents[a]] # k

BindingTrusted == BindingStamped /\ BindingRead /\ BindingKept

(* A socket that may bind its token finds it unbound or bound to its host; *)
(* one that is registered otherwise has bound it.                          *)
BoundToHost ==
  \A c \in Conns : TokenOf[c] \notin Legacy =>
    /\ pc[c] \in Binding => bound[TokenOf[c]].host \in {NoAgent, HostOf[c]}
    /\ pc[c] \notin Binding /\ agents[HostOf[c]] = c
         => bound[TokenOf[c]].host = HostOf[c]

(* Every step that writes the binding, if it is one, keeps it so.          *)
LEMMA BoundStep ==
  ASSUME IInv, BindsAlone, BoundToHost, [Next]_vars, BindingTrusted
  PROVE  BoundToHost'
<1> USE ConstantsAssumption
    DEF IInv, TypeOK, BoundToHost, Binding, Identity, Registry, PCs, Holding,
        Served
<1>1. CASE UNCHANGED vars
  BY <1>1 DEF vars
<1>2. ASSUME NEW c \in Conns, PeerStep(c) PROVE BoundToHost'
  <2>1. CASE Accept(c)            BY <2>1 DEF Accept
  <2>2. CASE AcceptRegister(c)    BY <2>2 DEF AcceptRegister, TokenAdmits
  <2>3. CASE RejectRegister(c)    BY <2>3 DEF RejectRegister
  <2>4. CASE CloseSocket(c)       BY <2>4 DEF CloseSocket
  <2>5. CASE AcceptUnread(c)
    <3>1. TokenAdmits(c)
      BY <2>5 DEF BindingTrusted, BindingRead
    <3> QED
      BY <2>5, <3>1 DEF AcceptUnread, TokenAdmits
  <2> QED BY <1>2, <2>1, <2>2, <2>3, <2>4, <2>5 DEF PeerStep
<1>3. ASSUME NEW c \in Conns, ServerStep(c) PROVE BoundToHost'
  <2>1. CASE InsertEntry(c)       BY <2>1 DEF InsertEntry
  <2>2. CASE ResolveDisconnect(c) BY <2>2 DEF ResolveDisconnect
  <2>3. CASE SettlePrior(c)       BY <2>3 DEF SettlePrior
  <2>4. CASE StampToken(c)
    <3>1. /\ bound' = [bound EXCEPT ![TokenOf[c]].host = HostOf[c]]
          /\ TokenOf[c] \in Tokens /\ HostOf[c] \in Agents
      <4>1. bound' = [bound EXCEPT ![TokenOf[c]].host = ident[c]]
        BY <2>4 DEF BindingTrusted, BindingStamped
      <4>2. ident[c] = HostOf[c]
        BY <2>4 DEF StampToken
      <4> QED
        BY <4>1, <4>2
    <3>2. /\ pc[c] = "stamping" /\ pc'[c] = "online" /\ agents' = agents
          /\ \A d \in Conns \ {c} : pc'[d] = pc[d]
      BY <2>4 DEF StampToken
    <3>3. ASSUME NEW d \in Conns, TokenOf[d] = TokenOf[c], TokenOf[d] \notin Legacy
          PROVE  (pc[d] \in Binding \/ agents[HostOf[d]] = d)
                   => HostOf[d] = HostOf[c]
      BY <3>2, <3>3 DEF BindsAlone
    <3>4. /\ bound'[TokenOf[c]].host = HostOf[c]
          /\ \A d \in Conns : TokenOf[d] # TokenOf[c] =>
               bound'[TokenOf[d]] = bound[TokenOf[d]]
      BY <3>1, BindingWritten
    <3> QED
      BY <3>2, <3>3, <3>4
  <2>5. CASE SkipTeardown(c)      BY <2>5 DEF SkipTeardown, StillOurs
  <2>6. CASE RemoveEntry(c)       BY <2>6 DEF RemoveEntry, StillOurs
  <2>7. CASE ReleaseAgent(c)      BY <2>7 DEF ReleaseAgent
  <2>8. CASE InsertPending(c)     BY <2>8 DEF InsertPending
  <2> QED BY <1>3, <2>1, <2>2, <2>3, <2>4, <2>5, <2>6, <2>7, <2>8 DEF ServerStep
<1>4. ASSUME NEW c \in Conns, TimerStep(c) PROVE BoundToHost'
  <2>1. CASE Confirm(c)           BY <2>1 DEF Confirm
  <2>2. CASE StaySilent(c)        BY <2>2 DEF StaySilent
  <2>3. CASE FireDisconnect(c)    BY <2>3 DEF FireDisconnect
  <2> QED BY <1>4, <2>1, <2>2, <2>3 DEF TimerStep
<1>5. ASSUME NEW k \in Tokens, ForgetToken(k) PROVE BoundToHost'
  <2>1. /\ bound' = [bound EXCEPT ![k] = [host |-> NoAgent, good |-> FALSE]]
        /\ UNCHANGED <<pc, agents>>
    BY <1>5 DEF ForgetToken
  <2>2. /\ bound'[k].host = NoAgent
        /\ \A j \in Tokens \ {k} : bound'[j] = bound[j]
    BY <2>1
  <2>3. ASSUME NEW c \in Conns, TokenOf[c] \notin Legacy, TokenOf[c] = k
        PROVE  agents[HostOf[c]] # c
    BY <1>5, <2>3 DEF BindingTrusted, BindingKept
  <2> QED
    BY <2>1, <2>2, <2>3
<1> QED BY <1>1, <1>2, <1>3, <1>4, <1>5 DEF Next

(* OneHostPerToken is lost by that race, by a read or a write of the       *)
(* binding that fails, or by a row that is deleted while an agent is       *)
(* connected with the token, alone: otherwise the agents connected with    *)
(* one token are one host, however their sockets overlap and register      *)
(* again.                                                                  *)
THEOREM BoundTokensHaveOneHost ==
  Spec /\ []BindsAlone /\ [][BindingTrusted]_vars => []OneHostPerToken
<1>1. Init => BoundToHost
  BY ConstantsAssumption DEF Init, BoundToHost, Binding
<1>2. IInv /\ BindsAlone /\ BoundToHost /\ [Next]_vars /\ [BindingTrusted]_vars
        => BoundToHost'
  <2> SUFFICES ASSUME IInv, BindsAlone, BoundToHost, [Next]_vars,
                      [BindingTrusted]_vars
               PROVE  BoundToHost'
    OBVIOUS
  <2>1. CASE UNCHANGED vars
    BY <2>1 DEF vars, BoundToHost
  <2>2. CASE BindingTrusted
    BY <2>2, BoundStep
  <2> QED
    BY <2>1, <2>2
<1>3. IInv /\ BindsAlone /\ BoundToHost => OneHostPerToken
  <2> SUFFICES ASSUME IInv, BindsAlone, BoundToHost,
                      NEW a \in Agents, NEW b \in Agents,
                      agents[a] # NoConn, agents[b] # NoConn,
                      TokenOf[agents[a]] = TokenOf[agents[b]],
                      TokenOf[agents[a]] \notin Legacy
               PROVE  a = b
    BY DEF OneHostPerToken
  <2>1. /\ agents[a] \in Conns /\ HostOf[agents[a]] = a
        /\ agents[b] \in Conns /\ HostOf[agents[b]] = b
    BY ConstantsAssumption
       DEF IInv, TypeOK, Registry, Identity, Holding, Served
  <2> QED
    BY <2>1, ConstantsAssumption DEF BindsAlone, BoundToHost
<1> QED
  BY <1>1, <1>2, <1>3, IInvariance, PTL DEF Spec
=============================================================================
