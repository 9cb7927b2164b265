------------------------- MODULE AgentTrafficProofs -------------------------
(* Proofs about what else passes between the server and an agent, for any  *)
(* agents, sockets, clients and probes: AgentList, ProbePush and           *)
(* ProbeReports; and about all six components of AgentTrafficMC together.  *)
EXTENDS AgentTrafficMC, RequestProofs

-----------------------------------------------------------------------------
(* The agent list.                                                         *)

(* Nobody shows a change that has not been made.                           *)
ListsArePast ==
  /\ \A c \in Conns : broadcast[c].list =< changes
  /\ \A u \in Clients : held[u] =< changes /\ newest[u] =< changes

(* A broadcast that will send u a list with every change so far.           *)
WillShow(u) ==
  \E c \in Conns :
    \/ broadcast[c].at \in {"purging", "owed"}
    \/ broadcast[c].at = "read" /\ broadcast[c].list = changes
    \/ /\ broadcast[c].at = "sending" /\ broadcast[c].list = changes
       /\ u \in broadcast[c].todo

UpToDate(u) ==
  newest[u] = changes \/ u \in late \/ (client[u] = "entered" /\ held[u] = changes)

NobodyForgotten == \A u \in Entered : UpToDate(u) \/ WillShow(u)

ListInv == ListTypeOK /\ ListsArePast /\ NobodyForgotten

BroadcastStates ==
  [at : {"idle", "purging", "owed", "read", "sending"},
   list : 0..MaxChanges, todo : SUBSET Clients]

(* Initially nobody is connected.                                          *)
LEMMA ListInitInv == ListInit => ListInv
  BY RegistryAssumption, ListAssumption
     DEF ListInit, RegistryInit, ListInv, ListTypeOK, RegistryTypeOK, ListsArePast,
         NobodyForgotten, Entered, Quiet

(* After a change of the registry there is a broadcast that will show it   *)
(* to everybody.                                                           *)
LEMMA ChangeKeeps ==
  ASSUME ListInv, RegistryTypeOK', NEW c \in Conns,
         NEW at \in {"owed", "purging"}, Change(c, at)
  PROVE  ListInv'
<1> USE ListAssumption DEF ListInv, ListTypeOK
<1>1. /\ changes < MaxChanges /\ changes' = changes + 1
      /\ broadcast' = [broadcast EXCEPT ![c] = [broadcast[c] EXCEPT !.at = at]]
      /\ late' = {} /\ UNCHANGED <<client, held, newest>>
  BY DEF Change
<1>2. [broadcast[c] EXCEPT !.at = at] \in BroadcastStates
      /\ [broadcast[c] EXCEPT !.at = at].at = at
      /\ [broadcast[c] EXCEPT !.at = at].list = broadcast[c].list
  BY DEF BroadcastStates
<1>3. broadcast' \in [Conns -> BroadcastStates]
  BY <1>1, <1>2 DEF BroadcastStates
<1>4. ListTypeOK'
  BY <1>1, <1>3 DEF BroadcastStates
<1>5. ListsArePast'
  BY <1>1, <1>2 DEF ListsArePast, BroadcastStates
<1>6. broadcast'[c].at \in {"purging", "owed"}
  BY <1>1, <1>2
<1>7. NobodyForgotten'
  BY <1>6 DEF NobodyForgotten, WillShow
<1> QED
  BY <1>4, <1>5, <1>7

(* The newer of two lists, neither of which shows more than m changes.     *)
LEMMA NewerList ==
  ASSUME NEW m \in 0..MaxChanges, NEW n \in 0..m, NEW l \in 0..m
  PROVE  /\ Newer(n, l) \in 0..MaxChanges /\ Newer(n, l) =< m
         /\ n =< Newer(n, l) /\ l =< Newer(n, l)
         /\ n = m \/ l = m => Newer(n, l) = m
BY ListAssumption DEF ListAssumption, Newer

(* What lies between a number and itself.                                  *)
LEMMA Between ==
  ASSUME NEW k \in Int, NEW n \in Int, NEW m \in Int, k =< n, n =< m, k = m
  PROVE  n = m
OBVIOUS

(* A step of a broadcast that leaves nobody behind.                        *)
LEMMA BroadcastKeeps ==
  ASSUME ListInv, NEW c \in Conns, NEW b \in BroadcastStates,
         broadcast' = [broadcast EXCEPT ![c] = b], b.list =< changes,
         RegistryTypeOK', UNCHANGED <<changes, late, held>>,
         client' \in [Clients -> {"new", "opening", "entered", "open", "gone"}],
         \A u \in Entered' : u \in Entered /\ client'[u] = client[u],
         newest' \in [Clients -> 0..MaxChanges],
         \A u \in Clients : newest[u] =< newest'[u] /\ newest'[u] =< changes,
         \A u \in Entered' :
           \/ newest'[u] = changes
           \/ broadcast[c].at \notin {"purging", "owed", "read", "sending"}
           \/ b.at \in {"purging", "owed"}
           \/ b.at = "read" /\ b.list = changes
           \/ b.at = "sending" /\ b.list = changes /\ u \in b.todo
           \/ broadcast[c].at \in {"read", "sending"}
                /\ broadcast[c].list # changes
           \/ broadcast[c].at = "sending" /\ u \notin broadcast[c].todo
  PROVE  ListInv'
<1> USE ListAssumption DEF ListInv, ListTypeOK
<1>1. ListTypeOK'
  BY DEF BroadcastStates
<1>2. ListsArePast'
  BY DEF ListsArePast, BroadcastStates
<1>3. ASSUME NEW u \in Entered', UpToDate(u) PROVE UpToDate(u)'
  <2>1. u \in Clients
    BY DEF Entered
  <2>2. /\ newest[u] \in Nat /\ newest'[u] \in Nat /\ changes \in Nat
        /\ newest[u] =< newest'[u] /\ newest'[u] =< changes
    BY <2>1
  <2>3. newest[u] = changes => newest'[u] = changes
    <3> HIDE DEF ListInv, ListTypeOK
    <3> QED
      BY <2>2, Between
  <2> QED
    BY <1>3, <2>3 DEF UpToDate
<1>4. ASSUME NEW u \in Entered', WillShow(u), newest'[u] # changes
      PROVE  WillShow(u)'
  <2>1. PICK d \in Conns :
          \/ broadcast[d].at \in {"purging", "owed"}
          \/ broadcast[d].at = "read" /\ broadcast[d].list = changes
          \/ /\ broadcast[d].at = "sending" /\ broadcast[d].list = changes
             /\ u \in broadcast[d].todo
    BY <1>4 DEF WillShow
  <2>2. CASE d = c
    BY <1>4, <2>1, <2>2 DEF WillShow
  <2>3. CASE d # c
    BY <2>1, <2>3 DEF WillShow
  <2> QED
    BY <2>2, <2>3
<1>5. NobodyForgotten'
  BY <1>3, <1>4 DEF NobodyForgotten, UpToDate
<1> QED
  BY <1>1, <1>2, <1>5

(* The agent sockets.                                                      *)
LEMMA AgentSteps ==
  ASSUME ListInv, NEW c \in Conns,
         \/ Register(c) \/ UpdateCapabilities(c) \/ Depart(c) \/ Purge(c)
         \/ DepartUnheard(c)
  PROVE  ListInv'
<1> USE DEF ListInv, ListTypeOK
<1>1. CASE Register(c)
  BY <1>1, RegistryMoves, ChangeKeeps DEF Register
<1>2. CASE UpdateCapabilities(c)
  BY <1>2, ChangeKeeps DEF UpdateCapabilities, registry, RegistryTypeOK
<1>3. CASE Depart(c)
  BY <1>3, RegistryMoves, ChangeKeeps DEF Depart
<1>4. CASE Purge(c)
  <2> DEFINE b == [broadcast[c] EXCEPT !.at = "owed"]
  <2>1. b \in BroadcastStates /\ b.at = "owed" /\ b.list = broadcast[c].list
    BY DEF BroadcastStates
  <2>2. /\ RegistryTypeOK' /\ broadcast' = [broadcast EXCEPT ![c] = b]
        /\ UNCHANGED <<changes, client, held, late, newest>>
    BY <1>4, RegistryMoves DEF Purge
  <2>3. /\ Entered' = Entered
        /\ \A u \in Clients : newest[u] =< newest'[u] /\ newest'[u] =< changes
        /\ b.list =< changes
    BY <2>1, <2>2, ListAssumption DEF ListsArePast, Entered
  <2> QED
    BY <2>1, <2>2, <2>3, BroadcastKeeps
<1>5. CASE DepartUnheard(c)
  <2>1. /\ RegistryTypeOK'
        /\ UNCHANGED <<changes, broadcast, client, held, late, newest>>
    BY <1>5, RegistryMoves DEF DepartUnheard
  <2> QED
    BY <2>1 DEF ListsArePast, NobodyForgotten, Entered, UpToDate, WillShow
<1> QED
  BY <1>1, <1>2, <1>3, <1>4, <1>5

(* broadcast_agent_list: a list is sent to all who were there when it was  *)
(* read, and who enters later has read the registry itself.                *)
LEMMA BroadcastSteps ==
  ASSUME ListInv, NEW c \in Conns,
         \/ ReadRegistry(c) \/ ReadClients(c) \/ EndBroadcast(c)
         \/ \E u \in Clients : Publish(c, u) \/ DropClient(c, u)
  PROVE  ListInv'
<1> USE ListAssumption DEF ListInv, ListTypeOK, registry, RegistryTypeOK
<1>0. /\ \A u \in Clients : newest[u] =< newest[u] /\ newest[u] =< changes
      /\ Entered \subseteq Clients /\ broadcast[c] \in BroadcastStates
      /\ broadcast[c].list =< changes
  BY DEF ListsArePast, Entered, BroadcastStates
<1>1. CASE ReadRegistry(c)
  <2> DEFINE b == [at |-> "read", list |-> changes, todo |-> {}]
  <2>1. b \in BroadcastStates
    BY DEF BroadcastStates
  <2>2. /\ broadcast' = [broadcast EXCEPT ![c] = b]
        /\ UNCHANGED <<agents, link, changes, client, held, late, newest>>
    BY <1>1 DEF ReadRegistry, Broadcasting
  <2>3. Entered' = Entered
    BY <2>2 DEF Entered
  <2>4. b.at = "read" /\ b.list = changes /\ b.list =< changes
    OBVIOUS
  <2> QED
    BY <1>0, <2>1, <2>2, <2>3, <2>4, BroadcastKeeps
<1>2. CASE ReadClients(c)
  <2> DEFINE b == [at |-> "sending", list |-> broadcast[c].list, todo |-> Entered]
  <2>1. b \in BroadcastStates
    BY <1>0 DEF BroadcastStates
  <2>2. /\ broadcast' = [broadcast EXCEPT ![c] = b]
        /\ broadcast[c].at = "read"
        /\ UNCHANGED <<agents, link, changes, client, held, late, newest>>
    BY <1>2 DEF ReadClients, Broadcasting
  <2>3. Entered' = Entered
    BY <2>2 DEF Entered
  <2> QED
    BY <1>0, <2>1, <2>2, <2>3, BroadcastKeeps
<1>3. CASE EndBroadcast(c)
  <2>1. Quiet \in BroadcastStates /\ Quiet.list =< changes
    BY DEF BroadcastStates, Quiet
  <2>2. /\ broadcast' = [broadcast EXCEPT ![c] = Quiet]
        /\ broadcast[c].at = "sending" /\ broadcast[c].todo = {}
        /\ UNCHANGED <<agents, link, changes, client, held, late, newest>>
    BY <1>3 DEF EndBroadcast, Broadcasting
  <2>3. Entered' = Entered
    BY <2>2 DEF Entered
  <2> QED
    BY <1>0, <2>1, <2>2, <2>3, BroadcastKeeps
<1>4. ASSUME NEW u \in Clients, Publish(c, u) PROVE ListInv'
  <2> DEFINE b == [broadcast[c] EXCEPT !.todo = @ \ {u}]
  <2>1. /\ b \in BroadcastStates /\ b.list = broadcast[c].list
        /\ b.at = broadcast[c].at /\ b.todo = broadcast[c].todo \ {u}
    BY <1>0 DEF BroadcastStates
  <2>2. /\ broadcast' = [broadcast EXCEPT ![c] = b]
        /\ broadcast[c].at = "sending"
        /\ UNCHANGED <<agents, link, changes, client, held, late>>
        /\ \/ /\ u \in Entered
              /\ newest' = [newest EXCEPT
                   ![u] = Newer(newest[u], broadcast[c].list)]
           \/ u \notin Entered /\ newest' = newest
    BY <1>4 DEF Publish, Broadcasting, SendList
  <2>3. Entered' = Entered
    BY <2>2 DEF Entered
  <2>4. /\ Newer(newest[u], broadcast[c].list) \in 0..MaxChanges
        /\ newest[u] =< Newer(newest[u], broadcast[c].list)
        /\ broadcast[c].list =< Newer(newest[u], broadcast[c].list)
        /\ Newer(newest[u], broadcast[c].list) =< changes
        /\ broadcast[c].list = changes
             => Newer(newest[u], broadcast[c].list) = changes
    <3>1. changes \in 0..MaxChanges /\ newest[u] \in 0..changes
            /\ broadcast[c].list \in 0..changes
      BY <1>0 DEF BroadcastStates
    <3> HIDE DEF ListInv, ListTypeOK
    <3> QED
      BY <3>1, NewerList
  <2>5. /\ newest' \in [Clients -> 0..MaxChanges]
        /\ \A v \in Clients : newest[v] =< newest'[v] /\ newest'[v] =< changes
        /\ u \in Entered /\ broadcast[c].list = changes
             => newest'[u] = changes
    <3> HIDE DEF ListInv
    <3>1. newest \in [Clients -> 0..MaxChanges]
      BY DEF ListInv
    <3> HIDE DEF ListTypeOK
    <3>2. CASE u \notin Entered
      BY <1>0, <2>2, <3>1, <3>2
    <3>3. CASE u \in Entered
      <4>0. PICK n : n = Newer(newest[u], broadcast[c].list)
        OBVIOUS
      <4>1. newest' = [newest EXCEPT ![u] = n]
        BY <2>2, <3>3, <4>0
      <4>2. /\ n \in 0..MaxChanges /\ newest[u] =< n /\ n =< changes
            /\ broadcast[c].list = changes => n = changes
        BY <2>4, <4>0
      <4>3. newest'[u] = n /\ newest' \in [Clients -> 0..MaxChanges]
            /\ \A v \in Clients : v # u => newest'[v] = newest[v]
        BY <3>1, <4>1, <4>2
      <4> QED
        BY <1>0, <4>2, <4>3
    <3> QED
      BY <3>2, <3>3
  <2>6. \A v \in Entered' :
          \/ newest'[v] = changes \/ broadcast[c].list # changes
          \/ b.list = changes /\ v \in b.todo
          \/ v \notin broadcast[c].todo
    BY <2>1, <2>2, <2>3, <2>5
  <2> QED
    BY <1>0, <2>1, <2>2, <2>3, <2>5, <2>6, BroadcastKeeps
<1>5. ASSUME NEW u \in Clients, DropClient(c, u) PROVE ListInv'
  <2> DEFINE b == [broadcast[c] EXCEPT !.todo = @ \ {u}]
  <2>1. /\ b \in BroadcastStates /\ b.list = broadcast[c].list
        /\ b.at = broadcast[c].at /\ b.todo = broadcast[c].todo \ {u}
    BY <1>0 DEF BroadcastStates
  <2>2. /\ broadcast' = [broadcast EXCEPT ![c] = b]
        /\ broadcast[c].at = "sending"
        /\ client' = [client EXCEPT ![u] = "gone"]
        /\ UNCHANGED <<agents, link, changes, held, late, newest>>
    BY <1>5 DEF DropClient, Broadcasting
  <2>3. Entered' = Entered \ {u}
    BY <2>2 DEF Entered
  <2>4. client' \in [Clients -> {"new", "opening", "entered", "open", "gone"}]
    BY <2>2
  <2>5. \A v \in Entered' :
          \/ broadcast[c].list # changes
          \/ b.list = changes /\ v \in b.todo
          \/ v \notin broadcast[c].todo
    BY <2>1, <2>3
  <2>6. /\ RegistryTypeOK'
        /\ \A v \in Entered' : v \in Entered /\ client'[v] = client[v]
        /\ newest' \in [Clients -> 0..MaxChanges] /\ b.list =< changes
        /\ \A v \in Clients : newest[v] =< newest'[v] /\ newest'[v] =< changes
    BY <1>0, <2>1, <2>2, <2>3 DEF Entered
  <2> HIDE DEF b, ListInv, ListTypeOK, registry, RegistryTypeOK
  <2> QED
    BY <2>1, <2>2, <2>4, <2>5, <2>6, BroadcastKeeps
<1> QED
  BY <1>1, <1>2, <1>3, <1>4, <1>5

(* The UI sockets' own requests show them no list that is newer than the   *)
(* registry, and replace none that was.                                    *)
LEMMA ClientSteps ==
  ASSUME ListInv, NEW u \in Clients,
         OpenList(u) \/ Enter(u) \/ ReadList(u) \/ SendHeld(u) \/ Leave(u)
  PROVE  ListInv'
<1> USE ListAssumption DEF ListInv, ListTypeOK, registry, RegistryTypeOK
<1>0. CASE OpenList(u)
  BY <1>0 DEF OpenList, ListsArePast, NobodyForgotten, Entered, UpToDate,
              WillShow
<1>1. CASE ReadList(u)
  BY <1>1 DEF ReadList, ListsArePast, NobodyForgotten, Entered, UpToDate,
              WillShow
<1>2. CASE Enter(u)
  BY <1>2 DEF Enter, StillToShow, ListsArePast, NobodyForgotten, Entered,
              UpToDate, WillShow
<1>3. CASE SendHeld(u)
  <2>1. /\ UNCHANGED <<agents, link, changes, broadcast, held, late>>
        /\ client[u] = "entered" /\ client' = [client EXCEPT ![u] = "open"]
        /\ newest' = [newest EXCEPT ![u] = Newer(newest[u], held[u])]
    BY <1>3 DEF SendHeld, SendList
  <2>2. /\ Newer(newest[u], held[u]) \in 0..MaxChanges
        /\ Newer(newest[u], held[u]) =< changes
        /\ newest[u] = changes \/ held[u] = changes
             => Newer(newest[u], held[u]) = changes
    <3>1. changes \in 0..MaxChanges /\ newest[u] \in 0..changes
            /\ held[u] \in 0..changes
      BY DEF ListsArePast
    <3> HIDE DEF ListInv, ListTypeOK
    <3> QED
      BY <3>1, NewerList
  <2>3. Entered' = Entered
    BY <2>1 DEF Entered
  <2>4. ListTypeOK' /\ ListsArePast'
    BY <2>1, <2>2 DEF ListsArePast
  <2>5. NobodyForgotten'
    BY <2>1, <2>2, <2>3 DEF NobodyForgotten, UpToDate, WillShow, Entered
  <2> QED
    BY <2>4, <2>5
<1>4. CASE Leave(u)
  BY <1>4 DEF Leave, ListsArePast, NobodyForgotten, Entered, UpToDate, WillShow
<1> QED
  BY <1>0, <1>1, <1>2, <1>3, <1>4

(* Every step keeps the invariant.                                         *)
LEMMA ListStep == ListInv /\ [ListNext]_listVars => ListInv'
<1> SUFFICES ASSUME ListInv, [ListNext]_listVars PROVE ListInv'
  OBVIOUS
<1>1. CASE UNCHANGED listVars
  BY <1>1 DEF listVars, ListInv, ListTypeOK, RegistryTypeOK, ListsArePast,
              NobodyForgotten, Entered, UpToDate, WillShow
<1> QED
  BY <1>1, AgentSteps, BroadcastSteps, ClientSteps DEF ListNext

(* ListTypeOK: the variables keep their types.                             *)
THEOREM ListTypeCorrect == ListSpec => []ListTypeOK
<1>1. ListInv => ListTypeOK
  BY DEF ListInv
<1> QED
  BY ListInitInv, ListStep, <1>1, PTL DEF ListSpec

(* ChangesAreShown: however many sockets broadcast to however many         *)
(* clients, a client in ui_clients is sent the last change, unless it read *)
(* the registry before it and entered after its broadcast had looked.      *)
THEOREM NoChangeIsLost == ListSpec => []ChangesAreShown
<1>1. ListInv => ChangesAreShown
  BY DEF ListInv, NobodyForgotten, UpToDate, WillShow, ChangesAreShown
<1> QED
  BY ListInitInv, ListStep, <1>1, PTL DEF ListSpec

-----------------------------------------------------------------------------
(* An agent's health probes on their way to it.                            *)

(* Nothing shows a change that has not been made.                          *)
NoneFromFuture ==
  /\ unpushed =< revision
  /\ \A p \in Pushers : push[p].set =< revision
  /\ \A c \in SocketsOf(Agent) : pushed[c] =< revision

(* A push will send the newest set: it has read it, or has yet to read and *)
(* is the newest change's or a registration's.                             *)
Coming(p) ==
  \/ push[p].at = "owed" /\ (p \in Conns \/ push[p].set = revision)
  \/ push[p].at = "read" /\ push[p].set = revision

PushedOrComing ==
  agents[Agent] # NoConn =>
    \/ pushed[agents[Agent]] = revision \/ unpushed = revision
    \/ \E p \in Pushers : Coming(p)

PushInv == ProbesTypeOK /\ LeadsHome /\ NoneFromFuture /\ PushedOrComing

(* Who has nothing coming has been pushed to.                              *)
LEMMA PushInvPushed == PushInv => ProbesArePushed
BY DEF PushInv, PushedOrComing, Coming, ProbesArePushed

(* Initially there are no probes.                                          *)
LEMMA ProbesInitInv == ProbesInit => PushInv
<1> SUFFICES ASSUME ProbesInit PROVE PushInv
  OBVIOUS
<1> USE RegistryAssumption, ProbesAssumption DEF ProbesInit, RegistryInit, NoPush
<1>1. ProbesTypeOK
  BY DEF ProbesTypeOK, RegistryTypeOK
<1>2. LeadsHome /\ NoneFromFuture /\ PushedOrComing
  BY DEF LeadsHome, NoneFromFuture, PushedOrComing
<1> QED
  BY <1>1, <1>2 DEF PushInv

(* What a caller of push_to_agent is doing has its type.                   *)
LEMMA PushType ==
  ASSUME ProbesTypeOK, NEW p \in Pushers, NEW at \in {"idle", "owed", "read"},
         NEW n \in 0..MaxRevisions,
         push' = [push EXCEPT ![p] = [at |-> at, set |-> n]]
  PROVE  push' \in [Pushers ->
                      [at : {"idle", "owed", "read"}, set : 0..MaxRevisions]]
<1> DEFINE R == [at : {"idle", "owed", "read"}, set : 0..MaxRevisions]
<1>1. [at |-> at, set |-> n] \in R /\ push \in [Pushers -> R]
  BY DEF ProbesTypeOK
<1> HIDE DEF R
<1>2. push' \in [Pushers -> R]
  BY <1>1
<1> QED
  BY <1>2 DEF R

(* A change owes a push; a handler that is cut off is on record.           *)
LEMMA HandlerPush ==
  ASSUME PushInv, NEW h \in Handlers, ChangeProbes(h) \/ HangUpPush(h)
  PROVE  PushInv'
<1> USE RegistryAssumption, ProbesAssumption
<1>t. /\ ProbesTypeOK /\ RegistryTypeOK /\ LeadsHome /\ NoneFromFuture
      /\ PushedOrComing /\ h \in Pushers /\ h \notin Conns
      /\ push[h] \in [at : {"idle", "owed", "read"}, set : 0..MaxRevisions]
  BY DEF PushInv, ProbesTypeOK, Pushers
<1>1. CASE ChangeProbes(h)
  <2>1. /\ revision' = revision + 1 /\ revision' \in 0..MaxRevisions
        /\ push' = [push EXCEPT ![h] = [at |-> "owed", set |-> revision']]
        /\ UNCHANGED <<agents, link, pushed, unpushed>>
    BY <1>t, <1>1 DEF ChangeProbes, OwePush, registry, ProbesTypeOK
  <2>2. ProbesTypeOK'
    BY <1>t, <2>1, PushType DEF ProbesTypeOK, RegistryTypeOK
  <2>3. /\ push'[h].at = "owed" /\ push'[h].set = revision'
        /\ \A p \in Pushers : p # h => push'[p] = push[p]
    BY <1>t, <2>1 DEF ProbesTypeOK
  <2>4. NoneFromFuture'
    BY <1>t, <2>1, <2>2, <2>3 DEF NoneFromFuture, ProbesTypeOK
  <2>5. PushedOrComing'
    BY <1>t, <2>3 DEF PushedOrComing, Coming
  <2> QED
    BY <1>t, <2>1, <2>2, <2>4, <2>5 DEF PushInv, LeadsHome
<1>2. CASE HangUpPush(h)
  <2>1. /\ push' = [push EXCEPT ![h] = [at |-> "idle", set |-> 0]]
        /\ unpushed' = IF push[h].set > unpushed THEN push[h].set ELSE unpushed
        /\ UNCHANGED <<agents, link, revision, pushed>>
    BY <1>2 DEF HangUpPush, NoPush, registry
  <2>2. ProbesTypeOK'
    BY <1>t, <2>1, PushType DEF ProbesTypeOK, RegistryTypeOK
  <2>3. push'[h].set = 0 /\ \A p \in Pushers : p # h => push'[p] = push[p]
    BY <1>t, <2>1 DEF ProbesTypeOK
  <2>4. NoneFromFuture'
    BY <1>t, <2>1, <2>3 DEF NoneFromFuture, ProbesTypeOK
  <2>5. \A p \in Pushers : Coming(p) => (p = h \/ Coming(p)')
    BY <2>1, <2>3 DEF Coming
  <2>6. unpushed = revision \/ Coming(h) => unpushed' = revision
    BY <1>t, <2>1 DEF Coming, NoneFromFuture, ProbesTypeOK
  <2>7. PushedOrComing'
    BY <1>t, <2>1, <2>5, <2>6 DEF PushedOrComing
  <2> QED
    BY <1>t, <2>1, <2>2, <2>4, <2>7 DEF PushInv, LeadsHome
<1> QED
  BY <1>1, <1>2

(* A registration owes a push.                                             *)
LEMMA SocketPush ==
  ASSUME PushInv, NEW c \in SocketsOf(Agent), RegisterAgent(c) \/ EndSocket(c)
  PROVE  PushInv'
<1> USE RegistryAssumption, ProbesAssumption
<1>t. /\ ProbesTypeOK /\ RegistryTypeOK /\ LeadsHome /\ NoneFromFuture
      /\ PushedOrComing /\ c \in Pushers /\ c \in Conns /\ HostOf[c] = Agent
  BY DEF PushInv, ProbesTypeOK, Pushers, SocketsOf
<1>1. RegistryTypeOK' /\ LeadsHome'
  BY <1>t, RegistryMoves, HomeMoves DEF RegisterAgent, EndSocket
<1>2. CASE RegisterAgent(c)
  <2>1. /\ push' = [push EXCEPT ![c] = [at |-> "owed", set |-> revision]]
        /\ UNCHANGED <<revision, pushed, unpushed>>
    BY <1>2 DEF RegisterAgent, OwePush
  <2>2. ProbesTypeOK'
    BY <1>t, <1>1, <2>1, PushType DEF ProbesTypeOK
  <2>3. /\ push'[c].at = "owed" /\ push'[c].set = revision
        /\ \A p \in Pushers : p # c => push'[p] = push[p]
    BY <1>t, <2>1 DEF ProbesTypeOK
  <2>4. NoneFromFuture'
    BY <1>t, <2>1, <2>3 DEF NoneFromFuture, ProbesTypeOK
  <2>5. PushedOrComing'
    BY <1>t, <2>3 DEF PushedOrComing, Coming
  <2> QED
    BY <1>1, <2>2, <2>4, <2>5 DEF PushInv
<1>3. CASE EndSocket(c)
  <2>1. /\ UNCHANGED <<revision, push, pushed, unpushed>>
        /\ agents'[Agent] \in {agents[Agent], NoConn}
    BY <1>t, <1>3 DEF EndSocket, Skip, Remove, Release, RegistryTypeOK
  <2>2. ProbesTypeOK' /\ NoneFromFuture'
    BY <1>t, <1>1, <2>1 DEF ProbesTypeOK, NoneFromFuture
  <2>3. PushedOrComing'
    BY <1>t, <2>1 DEF PushedOrComing, Coming
  <2> QED
    BY <1>1, <2>2, <2>3 DEF PushInv
<1> QED
  BY <1>2, <1>3

(* A push that has read the newest set sends it to whoever is registered.  *)
LEMMA PushSteps ==
  ASSUME PushInv, NEW p \in Pushers, ReadProbes(p) \/ SendProbes(p)
  PROVE  PushInv'
<1> USE RegistryAssumption, ProbesAssumption
<1>t. /\ ProbesTypeOK /\ RegistryTypeOK /\ LeadsHome /\ NoneFromFuture
      /\ PushedOrComing
      /\ push[p] \in [at : {"idle", "owed", "read"}, set : 0..MaxRevisions]
  BY DEF PushInv, ProbesTypeOK
<1>1. CASE ReadProbes(p)
  <2>1. /\ push' = [push EXCEPT ![p] = [at |-> "read", set |-> revision]]
        /\ UNCHANGED <<agents, link, revision, pushed, unpushed>>
    BY <1>1 DEF ReadProbes, registry
  <2>2. ProbesTypeOK'
    BY <1>t, <2>1, PushType DEF ProbesTypeOK, RegistryTypeOK
  <2>3. /\ push'[p].at = "read" /\ push'[p].set = revision
        /\ \A q \in Pushers : q # p => push'[q] = push[q]
    BY <1>t, <2>1 DEF ProbesTypeOK
  <2>4. NoneFromFuture'
    BY <1>t, <2>1, <2>3 DEF NoneFromFuture, ProbesTypeOK
  <2>5. PushedOrComing'
    BY <1>t, <2>1, <2>3 DEF PushedOrComing, Coming
  <2> QED
    BY <1>t, <2>1, <2>2, <2>4, <2>5 DEF PushInv, LeadsHome
<1>2. CASE SendProbes(p)
  <2> DEFINE c == agents[Agent]
             n == push[p].set
  <2>1. /\ push[p].at = "read"
        /\ push' = [push EXCEPT ![p] = [at |-> "idle", set |-> 0]]
        /\ pushed' = IF c # NoConn /\ pushed[c] < n
                     THEN [pushed EXCEPT ![c] = n] ELSE pushed
        /\ unpushed' = IF n >= unpushed THEN -1 ELSE unpushed
        /\ UNCHANGED <<agents, link, revision>>
    BY <1>2 DEF SendProbes, NoPush, registry
  <2>2. c # NoConn => c \in SocketsOf(Agent)
    BY <1>t DEF LeadsHome, RegistryTypeOK, SocketsOf
  <2>3. /\ n \in 0..MaxRevisions /\ n =< revision /\ unpushed \in -1..MaxRevisions
        /\ revision \in 0..MaxRevisions
        /\ pushed \in [SocketsOf(Agent) -> -1..MaxRevisions]
        /\ unpushed =< revision
        /\ \A d \in SocketsOf(Agent) : pushed[d] =< revision
    BY <1>t DEF NoneFromFuture, ProbesTypeOK
  <2> HIDE DEF c, n
  <2>4. /\ unpushed' \in -1..MaxRevisions /\ unpushed' =< revision
        /\ n < revision /\ unpushed = revision => unpushed' = revision
    BY <2>1, <2>3
  <2>5. /\ pushed' \in [SocketsOf(Agent) -> -1..MaxRevisions]
        /\ \A d \in SocketsOf(Agent) : pushed'[d] =< revision
    BY <2>1, <2>2, <2>3
  <2>6. c # NoConn /\ (pushed[c] = revision \/ n = revision)
          => pushed'[c] = revision
    BY <2>1, <2>2, <2>3
  <2>7. ProbesTypeOK'
    BY <1>t, <2>1, <2>4, <2>5, PushType DEF ProbesTypeOK, RegistryTypeOK
  <2>8. push'[p].set = 0 /\ \A q \in Pushers : q # p => push'[q] = push[q]
    BY <1>t, <2>1 DEF ProbesTypeOK
  <2>9. NoneFromFuture'
    BY <1>t, <2>1, <2>3, <2>4, <2>5, <2>8 DEF NoneFromFuture
  <2>10. \A q \in Pushers : Coming(q) => (q = p /\ n = revision) \/ Coming(q)'
    BY <2>1, <2>8 DEF Coming, n
  <2>11. PushedOrComing'
    BY <1>t, <2>1, <2>3, <2>4, <2>6, <2>10 DEF PushedOrComing, c
  <2> QED
    BY <1>t, <2>1, <2>7, <2>9, <2>11 DEF PushInv, LeadsHome
<1> QED
  BY <1>1, <1>2

(* Every step keeps the invariant.                                         *)
LEMMA ProbesStep == PushInv /\ [ProbesNext]_probeVars => PushInv'
<1> SUFFICES ASSUME PushInv, [ProbesNext]_probeVars PROVE PushInv'
  OBVIOUS
<1>1. CASE UNCHANGED probeVars
  BY <1>1 DEF probeVars, PushInv, ProbesTypeOK, RegistryTypeOK, LeadsHome,
     NoneFromFuture, PushedOrComing, Coming
<1> QED
  BY <1>1, HandlerPush, SocketPush, PushSteps DEF ProbesNext

(* ProbesTypeOK: the variables keep their types.                           *)
THEOREM ProbesTypeCorrect == ProbesSpec => []ProbesTypeOK
<1>1. PushInv => ProbesTypeOK
  BY DEF PushInv
<1> QED
  BY ProbesInitInv, ProbesStep, <1>1, PTL DEF ProbesSpec

(* ProbesArePushed: however many handlers and sockets push at once, and in *)
(* whatever order they read and send, a connected agent has been sent the  *)
(* newest set once no push is under way, unless the handler of the newest  *)
(* change was cut off.                                                     *)
THEOREM NewestSetIsPushed == ProbesSpec => []ProbesArePushed
BY ProbesInitInv, ProbesStep, PushInvPushed, PTL DEF ProbesSpec

-----------------------------------------------------------------------------
(* Reports on health probes.                                               *)

(* What the operator was told of a probe agrees with its row.              *)
Known(p) ==
  \/ state[p] \in {"absent", "null"} /\ told[p] = "nothing"
  \/ state[p] = "deleted"
  \/ /\ state[p] \in Colours
     /\ told[p] = state[p] \/ (told[p] = "nothing" /\ state[p] = "green")

(* A result is of a probe that there is or was.                            *)
ResultsOfRows ==
  \A c \in Conns :
    IF report[c].at = "idle" THEN report[c].probe = NoProbe
    ELSE report[c].probe \in Probes /\ state[report[c].probe] # "absent"

(* What a socket's task has read is still there, and what it has written   *)
(* and is to tell is there as well.                                        *)
StillTrue(c, p) ==
  \/ state[p] = "deleted"
  \/ report[c].at = "read" /\ Known(p) /\ report[c].prev = state[p]
  \/ report[c].at = "news" /\ report[c].new = state[p]

(* A probe none of whose results was mistaken or cut off: one socket at    *)
(* most deals with it.                                                     *)
OneAtATime(p) ==
  /\ \A c, d \in Reporting(p) : c = d
  /\ Reporting(p) = {} => Known(p)
  /\ \A c \in Reporting(p) : StillTrue(c, p)

ReportsInv ==
  ReportsTypeOK /\ ResultsOfRows /\ \A p \in Probes \ crossed : OneAtATime(p)

(* What the operator knows is what AlarmMatchesState says.                 *)
LEMMA ReportsInvAlarm == ReportsInv => AlarmMatchesState
BY DEF ReportsInv, OneAtATime, Known, AlarmMatchesState, Colours

(* Initially there are no probes.                                          *)
LEMMA ReportsInitInv == ReportsInit => ReportsInv
<1> SUFFICES ASSUME ReportsInit PROVE ReportsInv
  OBVIOUS
<1> USE RegistryAssumption, ReportsAssumption
    DEF ReportsInit, RegistryInit, NoReport, Colours
<1>1. ReportsTypeOK
  BY DEF ReportsTypeOK, RegistryTypeOK
<1>2. ResultsOfRows
  BY DEF ResultsOfRows
<1>3. \A p \in Probes : OneAtATime(p)
  BY DEF OneAtATime, Reporting, Known
<1> QED
  BY <1>1, <1>2, <1>3 DEF ReportsInv

(* The task of one socket turns to something else.                         *)
LEMMA ReportType ==
  ASSUME ReportsTypeOK, NEW c \in Conns, NEW at \in {"idle", "read", "news"},
         NEW p \in Probes \cup {NoProbe}, NEW new \in Colours,
         NEW prev \in Colours \cup {"null"},
         report' = [report EXCEPT ![c] =
                      [at |-> at, probe |-> p, new |-> new, prev |-> prev]]
  PROVE  report' \in [Conns -> [at : {"idle", "read", "news"},
           probe : Probes \cup {NoProbe}, new : Colours,
           prev : Colours \cup {"null"}]]
<1> DEFINE R == [at : {"idle", "read", "news"}, probe : Probes \cup {NoProbe},
                 new : Colours, prev : Colours \cup {"null"}]
<1>1. /\ [at |-> at, probe |-> p, new |-> new, prev |-> prev] \in R
      /\ report \in [Conns -> R]
  BY DEF ReportsTypeOK
<1> HIDE DEF R
<1>2. report' \in [Conns -> R]
  BY <1>1
<1> QED
  BY <1>2 DEF R

(* A row comes or goes.                                                    *)
LEMMA RowSteps ==
  ASSUME ReportsInv, NEW p \in Probes, CreateProbe(p) \/ DeleteProbe(p)
  PROVE  ReportsInv'
<1> USE RegistryAssumption, ReportsAssumption
<1>t. ReportsTypeOK /\ ResultsOfRows /\ \A q \in Probes \ crossed : OneAtATime(q)
  BY DEF ReportsInv
<1>1. /\ \/ state[p] = "absent" /\ state' = [state EXCEPT ![p] = "null"]
         \/ state' = [state EXCEPT ![p] = "deleted"]
      /\ UNCHANGED <<agents, link, told, report, crossed>>
  BY DEF CreateProbe, DeleteProbe, registry
<1>2. ReportsTypeOK'
  BY <1>t, <1>1 DEF ReportsTypeOK, RegistryTypeOK
<1>3. ResultsOfRows'
  BY <1>t, <1>1 DEF ResultsOfRows, ReportsTypeOK
<1>4. ASSUME NEW q \in Probes \ crossed PROVE OneAtATime(q)'
  <2>1. Reporting(q)' = Reporting(q)
    BY <1>1 DEF Reporting
  <2>2. CASE q # p
    <3>1. state'[q] = state[q] /\ told'[q] = told[q]
      BY <1>t, <1>1, <2>2 DEF ReportsTypeOK
    <3> QED
      BY <1>t, <1>1, <1>4, <2>1, <3>1 DEF OneAtATime, Known, StillTrue
  <2>3. CASE q = p
    <3>1. state'[p] = "deleted" \/ (state[p] = "absent" /\ state'[p] = "null")
      BY <1>t, <1>1 DEF ReportsTypeOK
    <3>2. state[p] = "absent" => Reporting(p) = {}
      BY <1>t DEF ResultsOfRows, Reporting
    <3> QED
      BY <1>t, <1>1, <1>4, <2>1, <2>3, <3>1, <3>2
         DEF OneAtATime, Known, StillTrue, Colours
  <2> QED
    BY <2>2, <2>3
<1> QED
  BY <1>1, <1>2, <1>3, <1>4 DEF ReportsInv

(* A task reads a probe's row.                                             *)
LEMMA ReadStep ==
  ASSUME ReportsInv, NEW c \in Conns, NEW p \in Probes, NEW new \in Colours,
         ReadState(c, p, new)
  PROVE  ReportsInv'
<1> USE RegistryAssumption, ReportsAssumption
<1> DEFINE prev == IF state[p] = "deleted" THEN "null" ELSE state[p]
<1>t. ReportsTypeOK /\ ResultsOfRows /\ \A q \in Probes \ crossed : OneAtATime(q)
  BY DEF ReportsInv
<1>1. /\ report[c].at = "idle" /\ state[p] # "absent"
      /\ report' = [report EXCEPT ![c] =
           [at |-> "read", probe |-> p, new |-> new, prev |-> prev]]
      /\ crossed' = IF Reporting(p) = {} THEN crossed ELSE crossed \cup {p}
      /\ UNCHANGED <<agents, link, state, told>>
  BY DEF ReadState, registry
<1>2. prev \in Colours \cup {"null"}
  BY <1>t, <1>1 DEF ReportsTypeOK
<1>3. ReportsTypeOK'
  <2>1. report' \in [Conns -> [at : {"idle", "read", "news"},
          probe : Probes \cup {NoProbe}, new : Colours,
          prev : Colours \cup {"null"}]]
    BY <1>t, <1>1, <1>2, ReportType
  <2>2. crossed' \subseteq Probes
    BY <1>t, <1>1 DEF ReportsTypeOK
  <2> QED
    BY <1>t, <1>1, <2>1, <2>2 DEF ReportsTypeOK, RegistryTypeOK
<1>4. /\ report'[c] = [at |-> "read", probe |-> p, new |-> new, prev |-> prev]
      /\ \A d \in Conns : d # c => report'[d] = report[d]
      /\ report[c].probe = NoProbe
  BY <1>t, <1>1 DEF ReportsTypeOK, ResultsOfRows
<1>5. ResultsOfRows'
  BY <1>t, <1>1, <1>4 DEF ResultsOfRows
<1>6. ASSUME NEW q \in Probes \ crossed' PROVE OneAtATime(q)'
  <2>0. q \notin crossed
    BY <1>1, <1>6
  <2>1. CASE q # p
    <3>1. Reporting(q)' = Reporting(q) /\ c \notin Reporting(q)
      BY <1>4, <2>1 DEF Reporting
    <3>2. \A d \in Reporting(q) : d \in Conns /\ report'[d] = report[d]
      BY <1>4, <3>1 DEF Reporting
    <3> QED
      BY <1>t, <1>1, <2>0, <3>1, <3>2 DEF OneAtATime, Known, StillTrue
  <2>2. CASE q = p
    <3>1. Reporting(p) = {}
      BY <1>1, <1>6, <2>2
    <3>2. Reporting(p)' = {c}
      BY <1>4, <3>1 DEF Reporting
    <3>3. Known(p)
      BY <1>t, <2>0, <2>2, <3>1 DEF OneAtATime
    <3>4. StillTrue(c, p)'
      BY <1>1, <1>4, <3>3 DEF StillTrue, Known
    <3> QED
      BY <2>2, <3>2, <3>4 DEF OneAtATime
  <2> QED
    BY <2>1, <2>2
<1> QED
  BY <1>3, <1>5, <1>6 DEF ReportsInv

(* A task writes the new state.                                            *)
LEMMA WriteStep ==
  ASSUME ReportsInv, NEW c \in Conns, WriteState(c)
  PROVE  ReportsInv'
<1> USE RegistryAssumption, ReportsAssumption
<1>t. ReportsTypeOK /\ ResultsOfRows /\ \A q \in Probes \ crossed : OneAtATime(q)
  BY DEF ReportsInv
<1>0. /\ report[c].at = "read" /\ report[c].probe \in Probes
      /\ state[report[c].probe] # "absent"
      /\ report \in [Conns -> [at : {"idle", "read", "news"},
           probe : Probes \cup {NoProbe}, new : Colours,
           prev : Colours \cup {"null"}]]
  BY <1>t DEF WriteState, ReportsTypeOK, ResultsOfRows
<1>p. PICK p \in Probes, new \in Colours, prev \in Colours \cup {"null"} :
        report[c] = [at |-> "read", probe |-> p, new |-> new, prev |-> prev]
  <2>1. report[c] = [at |-> "read", probe |-> report[c].probe,
                     new |-> report[c].new, prev |-> report[c].prev]
    BY <1>0
  <2> QED
    BY <1>0, <2>1
<1>1. /\ state' = IF state[p] = "deleted" THEN state
                  ELSE [state EXCEPT ![p] = new]
      /\ IF News(prev, new)
         THEN report' = [report EXCEPT ![c] =
                [at |-> "news", probe |-> p, new |-> new, prev |-> prev]]
         ELSE report' = [report EXCEPT ![c] =
                [at |-> "idle", probe |-> NoProbe, new |-> "green",
                 prev |-> "null"]]
      /\ UNCHANGED <<agents, link, told, crossed>>
  <2>1. [report EXCEPT ![c].at = "news"] = [report EXCEPT ![c] =
          [at |-> "news", probe |-> p, new |-> new, prev |-> prev]]
    <3>1. [report[c] EXCEPT !.at = "news"] =
            [at |-> "news", probe |-> p, new |-> new, prev |-> prev]
      BY <1>p
    <3>2. [report EXCEPT ![c].at = "news"] =
            [report EXCEPT ![c] = [report[c] EXCEPT !.at = "news"]]
      BY <1>0
    <3> QED
      BY <3>1, <3>2
  <2> QED
    BY <1>p, <2>1 DEF WriteState, NoReport, registry
<1>2. ReportsTypeOK'
  <2>1. report' \in [Conns -> [at : {"idle", "read", "news"},
          probe : Probes \cup {NoProbe}, new : Colours,
          prev : Colours \cup {"null"}]]
    <3>1. CASE News(prev, new)
      BY <1>t, <1>0, <1>p, <1>1, <3>1, ReportType
    <3>2. CASE ~News(prev, new)
      <4>1. "green" \in Colours /\ "null" \in Colours \cup {"null"}
        BY DEF Colours
      <4> QED
        BY <1>t, <1>0, <1>p, <1>1, <3>2, <4>1, ReportType
    <3> QED
      BY <3>1, <3>2
  <2>2. state' \in [Probes -> Colours \cup {"absent", "null", "deleted"}]
    BY <1>t, <1>0, <1>p, <1>1 DEF ReportsTypeOK
  <2> QED
    BY <1>t, <1>1, <2>1, <2>2 DEF ReportsTypeOK, RegistryTypeOK
<1>3. /\ IF News(prev, new)
         THEN report'[c] = [at |-> "news", probe |-> p, new |-> new, prev |-> prev]
         ELSE report'[c].at = "idle" /\ report'[c].probe = NoProbe
      /\ \A d \in Conns : d # c => report'[d] = report[d]
  BY <1>t, <1>1 DEF ReportsTypeOK
<1>4. /\ state'[p] = IF state[p] = "deleted" THEN "deleted" ELSE new
      /\ state'[p] # "absent"
      /\ \A q \in Probes : q # p => state'[q] = state[q]
  BY <1>t, <1>0, <1>p, <1>1 DEF ReportsTypeOK, Colours
<1>5. ResultsOfRows'
  BY <1>t, <1>0, <1>p, <1>1, <1>3, <1>4 DEF ResultsOfRows
<1>6. ASSUME NEW q \in Probes \ crossed' PROVE OneAtATime(q)'
  <2>0. q \in Probes \ crossed /\ OneAtATime(q)
    BY <1>t, <1>1, <1>6
  <2>1. CASE q # p
    <3>1. Reporting(q)' = Reporting(q) /\ c \notin Reporting(q)
      BY <1>0, <1>p, <1>3, <2>0, <2>1, <1>1 DEF Reporting
    <3>2. \A d \in Reporting(q) : d \in Conns /\ report'[d] = report[d]
      BY <1>3, <3>1 DEF Reporting
    <3> QED
      BY <1>1, <1>4, <2>0, <2>1, <3>1, <3>2 DEF OneAtATime, Known, StillTrue
  <2>2. CASE q = p
    <3>1. c \in Reporting(p) /\ \A d \in Reporting(p) : d = c
      BY <1>p, <2>0, <2>2 DEF OneAtATime, Reporting
    <3>2. state[p] = "deleted" \/ (Known(p) /\ prev = state[p])
      BY <1>0, <1>p, <2>0, <2>2, <3>1 DEF OneAtATime, StillTrue
    <3>3. CASE News(prev, new)
      <4>1. Reporting(p)' = {c}
        BY <1>1, <1>3, <3>1, <3>3 DEF Reporting
      <4>2. StillTrue(c, p)'
        BY <1>3, <1>4, <3>3 DEF StillTrue
      <4> QED
        BY <2>2, <4>1, <4>2 DEF OneAtATime
    <3>4. CASE ~News(prev, new)
      <4>1. Reporting(p)' = {}
        BY <1>0, <1>p, <1>1, <1>3, <3>1, <3>4 DEF Reporting
      <4>2. Known(p)'
        BY <1>0, <1>p, <1>1, <1>4, <3>2, <3>4 DEF Known, News, Colours
      <4> QED
        BY <2>2, <4>1, <4>2 DEF OneAtATime
    <3> QED
      BY <3>3, <3>4
  <2> QED
    BY <2>1, <2>2
<1> QED
  BY <1>2, <1>5, <1>6 DEF ReportsInv

(* A task tells the operator.                                              *)
LEMMA TellStep ==
  ASSUME ReportsInv, NEW c \in Conns, Tell(c)
  PROVE  ReportsInv'
<1> USE RegistryAssumption, ReportsAssumption
<1>t. ReportsTypeOK /\ ResultsOfRows /\ \A q \in Probes \ crossed : OneAtATime(q)
  BY DEF ReportsInv
<1>0. /\ report[c].at = "news" /\ report[c].probe \in Probes
      /\ state[report[c].probe] # "absent" /\ report[c].new \in Colours
  BY <1>t DEF Tell, ReportsTypeOK, ResultsOfRows
<1>p. PICK p \in Probes, new \in Colours :
        report[c].probe = p /\ report[c].new = new
  BY <1>0
<1>1. /\ told' = [told EXCEPT ![p] = new]
      /\ report' = [report EXCEPT ![c] =
           [at |-> "idle", probe |-> NoProbe, new |-> "green", prev |-> "null"]]
      /\ crossed' = IF Reporting(p) = {c} /\ state[p] = new
                    THEN crossed \ {p} ELSE crossed
      /\ UNCHANGED <<agents, link, state>>
  BY <1>p DEF Tell, NoReport, registry
<1>2. ReportsTypeOK'
  <2>0. "green" \in Colours /\ "null" \in Colours \cup {"null"}
    BY DEF Colours
  <2>1. report' \in [Conns -> [at : {"idle", "read", "news"},
          probe : Probes \cup {NoProbe}, new : Colours,
          prev : Colours \cup {"null"}]]
    BY <1>t, <1>1, <2>0, ReportType
  <2>2. told' \in [Probes -> Colours \cup {"nothing"}] /\ crossed' \subseteq Probes
    BY <1>t, <1>0, <1>p, <1>1 DEF ReportsTypeOK
  <2> QED
    BY <1>t, <1>1, <2>1, <2>2 DEF ReportsTypeOK, RegistryTypeOK
<1>3. /\ report'[c].at = "idle" /\ report'[c].probe = NoProbe
      /\ \A d \in Conns : d # c => report'[d] = report[d]
  BY <1>t, <1>1 DEF ReportsTypeOK
<1>4. told'[p] = new /\ \A q \in Probes : q # p => told'[q] = told[q]
  BY <1>t, <1>0, <1>p, <1>1 DEF ReportsTypeOK
<1>5. ResultsOfRows'
  BY <1>t, <1>1, <1>3 DEF ResultsOfRows
<1>6. ASSUME NEW q \in Probes \ crossed' PROVE OneAtATime(q)'
  <2>1. CASE q # p
    <3>0. OneAtATime(q)
      BY <1>t, <1>1, <1>6, <2>1
    <3>1. Reporting(q)' = Reporting(q) /\ c \notin Reporting(q)
      BY <1>p, <1>3, <1>6, <2>1 DEF Reporting
    <3>2. \A d \in Reporting(q) : d \in Conns /\ report'[d] = report[d]
      BY <1>3, <3>1 DEF Reporting
    <3> QED
      BY <1>1, <1>4, <2>1, <3>0, <3>1, <3>2 DEF OneAtATime, Known, StillTrue
  <2>2. CASE q = p
    <3>1. c \in Reporting(p)
      BY <1>p DEF Reporting
    <3>2. /\ \A d \in Reporting(p) : d = c
          /\ state[p] = new \/ state[p] = "deleted"
      BY <1>t, <1>0, <1>p, <1>1, <1>6, <2>2, <3>1 DEF OneAtATime, StillTrue
    <3>3. Reporting(p)' = {}
      BY <1>0, <1>p, <1>1, <1>3, <3>2 DEF Reporting
    <3>4. Known(p)'
      BY <1>0, <1>p, <1>1, <1>4, <3>2 DEF Known
    <3> QED
      BY <1>1, <2>2, <3>3, <3>4 DEF OneAtATime
  <2> QED
    BY <2>1, <2>2
<1> QED
  BY <1>2, <1>5, <1>6 DEF ReportsInv

(* Connections come and go, with no result under way.                      *)
LEMMA LinkSteps ==
  ASSUME ReportsInv, NEW c \in Conns, ReportsConnect(c) \/ ReportsDisconnect(c)
  PROVE  ReportsInv'
<1>t. ReportsTypeOK /\ ResultsOfRows /\ \A q \in Probes \ crossed : OneAtATime(q)
  BY DEF ReportsInv
<1>1. RegistryTypeOK' /\ UNCHANGED <<state, told, report, crossed>>
  BY <1>t, RegistryMoves DEF ReportsTypeOK, ReportsConnect, ReportsDisconnect
<1> QED
  BY <1>t, <1>1 DEF ReportsInv, ReportsTypeOK, ResultsOfRows, OneAtATime, Known,
     StillTrue, Reporting

(* A restart crosses the results that it cuts off.                         *)
LEMMA RestartStep == ReportsInv /\ ReportsRestart => ReportsInv'
<1> SUFFICES ASSUME ReportsInv, ReportsRestart PROVE ReportsInv'
  OBVIOUS
<1> USE RegistryAssumption, ReportsAssumption
<1>t. ReportsTypeOK /\ ResultsOfRows /\ \A q \in Probes \ crossed : OneAtATime(q)
  BY DEF ReportsInv
<1>1. RegistryTypeOK'
  BY DEF ReportsRestart, RegistryTypeOK
<1>2. /\ report' = [c \in Conns |->
           [at |-> "idle", probe |-> NoProbe, new |-> "green", prev |-> "null"]]
      /\ crossed' = crossed \cup {p \in Probes : Reporting(p) # {}}
      /\ UNCHANGED <<state, told>>
  BY DEF ReportsRestart, NoReport
<1>3. ReportsTypeOK'
  BY <1>t, <1>1, <1>2 DEF ReportsTypeOK, Colours
<1>4. ResultsOfRows'
  BY <1>2 DEF ResultsOfRows
<1>5. ASSUME NEW q \in Probes \ crossed' PROVE OneAtATime(q)'
  <2>1. Known(q)
    BY <1>t, <1>2, <1>5 DEF OneAtATime
  <2>2. Reporting(q)' = {}
    BY <1>2, <1>5 DEF Reporting
  <2> QED
    BY <1>2, <2>1, <2>2 DEF OneAtATime, Known
<1> QED
  BY <1>3, <1>4, <1>5 DEF ReportsInv

(* Every step keeps the invariant.                                         *)
LEMMA ReportsStep == ReportsInv /\ [ReportsNext]_reportVars => ReportsInv'
<1> SUFFICES ASSUME ReportsInv, [ReportsNext]_reportVars PROVE ReportsInv'
  OBVIOUS
<1>1. CASE UNCHANGED reportVars
  BY <1>1 DEF reportVars, ReportsInv, ReportsTypeOK, RegistryTypeOK,
     ResultsOfRows, OneAtATime, Known, StillTrue, Reporting
<1> QED
  BY <1>1, RowSteps, ReadStep, WriteStep, TellStep, LinkSteps, RestartStep
     DEF ReportsNext

(* ReportsTypeOK: the variables keep their types.                          *)
THEOREM ReportsTypeCorrect == ReportsSpec => []ReportsTypeOK
<1>1. ReportsInv => ReportsTypeOK
  BY DEF ReportsInv
<1> QED
  BY ReportsInitInv, ReportsStep, <1>1, PTL DEF ReportsSpec

(* AlarmMatchesState: whatever is reported, by however many sockets, and   *)
(* whenever the server is killed, the operator knows the state of a probe  *)
(* whose results were not mistaken or cut off.                             *)
THEOREM OperatorKnowsTheState == ReportsSpec => []AlarmMatchesState
BY ReportsInitInv, ReportsStep, ReportsInvAlarm, PTL DEF ReportsSpec

-----------------------------------------------------------------------------
(* All six, as AgentTrafficMC has them.                                    *)

(* The behaviour's own component keeps its invariant; the others keep      *)
(* their types, since the registry keeps its own and nothing else of       *)
(* theirs changes.                                                         *)
TrafficInv ==
  /\ TrafficTypeOK
  /\ part = "windows" => WindowsInv
  /\ part = "fan_out" => FanInv
  /\ part = "replies" => RepliesInv
  /\ part = "list" => ListInv
  /\ part = "push" => PushInv
  /\ part = "reports" => ReportsInv

(* A component whose own variables do not change keeps its types.          *)
LEMMA WindowsAside ==
  ASSUME WindowsTypeOK, RegistryTypeOK', UNCHANGED OwnWindowVars
  PROVE  WindowsTypeOK'
BY DEF WindowsTypeOK, OwnWindowVars

(* The same of fan-out.                                                    *)
LEMMA FanOutAside ==
  ASSUME FanOutTypeOK, RegistryTypeOK', UNCHANGED OwnFanOutVars
  PROVE  FanOutTypeOK'
BY DEF FanOutTypeOK, OwnFanOutVars

(* The same of the queues.                                                 *)
LEMMA RepliesAside ==
  ASSUME RepliesTypeOK, RegistryTypeOK', UNCHANGED OwnReplyVars
  PROVE  RepliesTypeOK'
BY DEF RepliesTypeOK, OwnReplyVars

(* The same of the agent list.                                             *)
LEMMA ListAside ==
  ASSUME ListTypeOK, RegistryTypeOK', UNCHANGED OwnListVars
  PROVE  ListTypeOK'
BY DEF ListTypeOK, OwnListVars

(* The same of the pushes.                                                 *)
LEMMA PushAside ==
  ASSUME ProbesTypeOK, RegistryTypeOK', UNCHANGED OwnPushVars
  PROVE  ProbesTypeOK'
BY DEF ProbesTypeOK, OwnPushVars

(* The same of the reports.                                                *)
LEMMA ReportsAside ==
  ASSUME ReportsTypeOK, RegistryTypeOK', UNCHANGED OwnReportVars
  PROVE  ReportsTypeOK'
BY DEF ReportsTypeOK, OwnReportVars

(* Initially each component is as it is alone.                             *)
LEMMA TrafficInitInv == TrafficInit => TrafficInv
<1>1. TrafficInit =>
        /\ WindowsInv /\ FanInv /\ RepliesInv
        /\ ListInv /\ PushInv /\ ReportsInv
  BY WindowsInitInv, FanOutInitInv, RepliesInitInv, ListInitInv,
     ProbesInitInv, ReportsInitInv DEF TrafficInit
<1> QED
  BY <1>1 DEF TrafficInv, TrafficTypeOK, WindowsInv, FanInv, FanTypes,
     RepliesInv, CallTypes, ListInv, PushInv, ReportsInv

(* Every step is one of the behaviour's own component.                     *)
LEMMA TrafficStep == TrafficInv /\ [TrafficNext]_vars => TrafficInv'
<1> SUFFICES ASSUME TrafficInv, [TrafficNext]_vars PROVE TrafficInv'
  OBVIOUS
<1>t. /\ WindowsTypeOK /\ FanOutTypeOK /\ RepliesTypeOK
      /\ ListTypeOK /\ ProbesTypeOK /\ ReportsTypeOK
  BY DEF TrafficInv, TrafficTypeOK
<1>1. CASE part = "windows" /\ TrafficNext
  <2>1. /\ WindowsNext /\ part' = part
        /\ UNCHANGED <<OwnFanOutVars, OwnReplyVars, OwnListVars, OwnPushVars,
                       OwnReportVars>>
    BY <1>1 DEF TrafficNext
  <2>2. WindowsInv'
    BY <1>1, <2>1, WindowsStep DEF TrafficInv
  <2>3. WindowsTypeOK' /\ RegistryTypeOK'
    BY <2>2 DEF WindowsInv, WindowsTypeOK
  <2>4. TrafficTypeOK'
    BY <1>t, <2>1, <2>3, FanOutAside, RepliesAside, ListAside, PushAside,
       ReportsAside DEF TrafficTypeOK
  <2> QED
    BY <1>1, <2>1, <2>2, <2>4 DEF TrafficInv
<1>2. CASE part = "fan_out" /\ TrafficNext
  <2>1. /\ FanOutNext /\ part' = part
        /\ UNCHANGED <<OwnWindowVars, OwnReplyVars, OwnListVars, OwnPushVars,
                       OwnReportVars>>
    BY <1>2 DEF TrafficNext
  <2>2. FanInv'
    BY <1>2, <2>1, FanOutStep DEF TrafficInv
  <2>3. FanOutTypeOK' /\ RegistryTypeOK'
    BY <2>2 DEF FanInv, FanTypes, FanOutTypeOK
  <2>4. TrafficTypeOK'
    BY <1>t, <2>1, <2>3, WindowsAside, RepliesAside, ListAside, PushAside,
       ReportsAside DEF TrafficTypeOK
  <2> QED
    BY <1>2, <2>1, <2>2, <2>4 DEF TrafficInv
<1>3. CASE part = "replies" /\ TrafficNext
  <2>1. /\ RepliesNext /\ part' = part
        /\ UNCHANGED <<OwnWindowVars, OwnFanOutVars, OwnListVars, OwnPushVars,
                       OwnReportVars>>
    BY <1>3 DEF TrafficNext
  <2>2. RepliesInv'
    BY <1>3, <2>1, RepliesStep DEF TrafficInv
  <2>3. RepliesTypeOK' /\ RegistryTypeOK'
    BY <2>2 DEF RepliesInv, CallTypes, RepliesTypeOK
  <2>4. TrafficTypeOK'
    BY <1>t, <2>1, <2>3, WindowsAside, FanOutAside, ListAside, PushAside,
       ReportsAside DEF TrafficTypeOK
  <2> QED
    BY <1>3, <2>1, <2>2, <2>4 DEF TrafficInv
<1>4. CASE part = "list" /\ TrafficNext
  <2>1. /\ ListNext /\ part' = part
        /\ UNCHANGED <<OwnWindowVars, OwnFanOutVars, OwnReplyVars, OwnPushVars,
                       OwnReportVars>>
    BY <1>4 DEF TrafficNext
  <2>2. ListInv'
    BY <1>4, <2>1, ListStep DEF TrafficInv
  <2>3. ListTypeOK' /\ RegistryTypeOK'
    BY <2>2 DEF ListInv, ListTypeOK
  <2>4. TrafficTypeOK'
    BY <1>t, <2>1, <2>3, WindowsAside, FanOutAside, RepliesAside, PushAside,
       ReportsAside DEF TrafficTypeOK
  <2> QED
    BY <1>4, <2>1, <2>2, <2>4 DEF TrafficInv
<1>5. CASE part = "push" /\ TrafficNext
  <2>1. /\ ProbesNext /\ part' = part
        /\ UNCHANGED <<OwnWindowVars, OwnFanOutVars, OwnReplyVars, OwnListVars,
                       OwnReportVars>>
    BY <1>5 DEF TrafficNext
  <2>2. PushInv'
    BY <1>5, <2>1, ProbesStep DEF TrafficInv
  <2>3. ProbesTypeOK' /\ RegistryTypeOK'
    BY <2>2 DEF PushInv, ProbesTypeOK
  <2>4. TrafficTypeOK'
    BY <1>t, <2>1, <2>3, WindowsAside, FanOutAside, RepliesAside, ListAside,
       ReportsAside DEF TrafficTypeOK
  <2> QED
    BY <1>5, <2>1, <2>2, <2>4 DEF TrafficInv
<1>6. CASE part = "reports" /\ TrafficNext
  <2>1. /\ ReportsNext /\ part' = part
        /\ UNCHANGED <<OwnWindowVars, OwnFanOutVars, OwnReplyVars, OwnListVars,
                       OwnPushVars>>
    BY <1>6 DEF TrafficNext
  <2>2. ReportsInv'
    BY <1>6, <2>1, ReportsStep DEF TrafficInv
  <2>3. ReportsTypeOK' /\ RegistryTypeOK'
    BY <2>2 DEF ReportsInv, ReportsTypeOK
  <2>4. TrafficTypeOK'
    BY <1>t, <2>1, <2>3, WindowsAside, FanOutAside, RepliesAside, ListAside,
       PushAside DEF TrafficTypeOK
  <2> QED
    BY <1>6, <2>1, <2>2, <2>4 DEF TrafficInv
<1>7. CASE UNCHANGED vars
  <2>1. /\ UNCHANGED <<part, registry, OwnWindowVars, OwnFanOutVars,
                       OwnReplyVars, OwnListVars, OwnPushVars, OwnReportVars>>
        /\ RegistryTypeOK'
    BY <1>t, <1>7 DEF vars, registry, WindowsTypeOK, RegistryTypeOK
  <2>2. TrafficTypeOK'
    BY <1>t, <2>1, WindowsAside, FanOutAside, RepliesAside, ListAside,
       PushAside, ReportsAside DEF TrafficTypeOK
  <2>3. /\ UNCHANGED windowVars /\ UNCHANGED fanOutVars /\ UNCHANGED replyVars
        /\ UNCHANGED listVars /\ UNCHANGED probeVars /\ UNCHANGED reportVars
    BY <2>1 DEF registry, windowVars, upgradeVars, fanOutVars, runVars,
       replyVars, listVars, probeVars, reportVars, OwnWindowVars,
       OwnFanOutVars, OwnReplyVars, OwnListVars, OwnPushVars, OwnReportVars
  <2>4. /\ WindowsInv => WindowsInv'
        /\ FanInv => FanInv'
        /\ RepliesInv => RepliesInv'
        /\ ListInv => ListInv'
        /\ PushInv => PushInv'
        /\ ReportsInv => ReportsInv'
    BY <2>3, WindowsStep, FanOutStep, RepliesStep, ListStep, ProbesStep,
       ReportsStep
  <2> QED
    BY <2>1, <2>2, <2>4 DEF TrafficInv
<1> QED
  BY <1>1, <1>2, <1>3, <1>4, <1>5, <1>6, <1>7 DEF TrafficNext

(* TrafficTypeOK: whichever of the six a behaviour is of, the variables of *)
(* all of them keep their types.                                           *)
THEOREM TrafficTypeCorrect == TrafficSpec => []TrafficTypeOK
<1>1. TrafficInv => TrafficTypeOK
  BY DEF TrafficInv
<1> QED
  BY TrafficInitInv, TrafficStep, <1>1, PTL DEF TrafficSpec

(* ConnectedArePushed: in the behaviours that push probes, a connected     *)
(* agent has been sent the newest set once no push is under way.           *)
THEOREM ConnectedHaveTheNewestSet == TrafficSpec => []ConnectedArePushed
<1>1. TrafficInv => ConnectedArePushed
  BY PushInvPushed DEF TrafficInv, ConnectedArePushed
<1> QED
  BY TrafficInitInv, TrafficStep, <1>1, PTL DEF TrafficSpec
=============================================================================
