------------------------- MODULE ExecDispatchProofs -------------------------
(***************************************************************************)
(* Proofs about ExecDispatch, for all agents, connections and requests.    *)
(***************************************************************************)
EXTENDS ExecDispatch, TLAPS

(* A removal is on its way only for calls that have ended. *)
CleanupEnded == \A r \in cleanup : call[r] \in Ended

(* A value was sent by the target, and a call is answered by such a value. *)
SentByTarget ==
  \A r \in Requests :
    /\ oneshot[r] = "sent" => source[r] = TargetOf[r]
    /\ call[r] = "answered" => oneshot[r] = "sent"

(* A waiter in the map has not been resolved. *)
PendingOpen == \A r \in pending : oneshot[r] = "open"

(* A call that has not inserted its waiter has a fresh channel. *)
FreshOpen ==
  \A r \in Requests : call[r] \in {"idle", "found"} => oneshot[r] = "open"

IInv ==
  /\ DispatchTypeOK
  /\ CleanupEnded /\ SentByTarget /\ PendingOpen /\ FreshOpen
  /\ NoLeakedWaiter /\ WaiterFindable

Rest ==
  /\ CleanupEnded /\ SentByTarget /\ PendingOpen /\ FreshOpen
  /\ NoLeakedWaiter /\ WaiterFindable

-----------------------------------------------------------------------------

(* At first nothing is connected and no call runs. *)
LEMMA InitIInv == DispatchInit => IInv
  BY RegistryAssumption, RequestsAssumption
  DEF DispatchInit, RegistryInit, IInv, DispatchTypeOK, RegistryTypeOK, CleanupEnded,
      SentByTarget, PendingOpen, FreshOpen, NoLeakedWaiter, WaiterFindable

(* The registry keeps its types by its own steps. *)
LEMMA RegistrySteps ==
  ASSUME RegistryTypeOK, NEW c \in Conns,
         Insert(c) \/ Skip(c) \/ Remove(c) \/ Release(c)
  PROVE  RegistryTypeOK'
BY RegistryAssumption DEF RegistryTypeOK, Insert, Skip, Remove, Release

(* Every step keeps the types. *)
LEMMA TypeOKStep ==
  DispatchTypeOK /\ [DispatchNext]_dispatchVars => DispatchTypeOK'
<1> SUFFICES ASSUME DispatchTypeOK, [DispatchNext]_dispatchVars
             PROVE  DispatchTypeOK'
  OBVIOUS
<1> USE RegistryAssumption, RequestsAssumption
    DEF DispatchTypeOK, Running, Ended, Advance, registry
<1>1. CASE UNCHANGED dispatchVars
  BY <1>1 DEF dispatchVars, waiters, RegistryTypeOK
<1>2. ASSUME NEW r \in Requests, LookUp(r) PROVE DispatchTypeOK'
  BY <1>2 DEF LookUp, RegistryTypeOK
<1>3. ASSUME NEW r \in Requests, CallStep(r) PROVE DispatchTypeOK'
  <2>1. CASE InsertWaiter(r)
    BY <2>1 DEF InsertWaiter, RegistryTypeOK
  <2>2. CASE SendCommand(r)
    BY <2>2 DEF SendCommand, RegistryTypeOK
  <2>3. CASE FailToSend(r)
    BY <2>3 DEF FailToSend, RegistryTypeOK
  <2>4. CASE Receive(r) \/ LearnDisconnect(r) \/ TimeOut(r)
    BY <2>4 DEF Receive, LearnDisconnect, TimeOut, EndWait, RegistryTypeOK
  <2> QED BY <1>3, <2>1, <2>2, <2>3, <2>4 DEF CallStep
<1>4. ASSUME NEW r \in Requests, Abandon(r) PROVE DispatchTypeOK'
  BY <1>4 DEF Abandon, EndWait, waiters, RegistryTypeOK
<1>5. ASSUME NEW r \in Requests, CleanUp(r) PROVE DispatchTypeOK'
  BY <1>5 DEF CleanUp, RegistryTypeOK
<1>6. ASSUME NEW c \in Conns, SocketStep(c) PROVE DispatchTypeOK'
  BY <1>6, RegistrySteps DEF SocketStep, waiters
<1>7. ASSUME NEW c \in Conns, CancelPending(c) PROVE DispatchTypeOK'
  BY <1>7, RegistrySteps DEF CancelPending
<1>8. ASSUME NEW c \in Conns, NEW r \in Requests, Resolve(c, r) PROVE DispatchTypeOK'
  BY <1>8 DEF Resolve, RegistryTypeOK
<1> QED
  BY <1>1, <1>2, <1>3, <1>4, <1>5, <1>6, <1>7, <1>8 DEF DispatchNext

(* LookUp moves one call, and only from idle. *)
LEMMA LookUpCall ==
  ASSUME DispatchTypeOK, NEW r \in Requests, LookUp(r)
  PROVE  /\ call[r] = "idle" /\ call'[r] \in {"found", "not found"}
         /\ \A q \in Requests \ {r} : call'[q] = call[q]
<1>1. call \in [Requests -> {"idle"} \cup Running \cup Ended]
  BY DEF DispatchTypeOK
<1>2. CASE agents[TargetOf[r]] = NoConn
  <2>1. call[r] = "idle" /\ call' = [call EXCEPT ![r] = "not found"]
    BY <1>2 DEF LookUp, Advance
  <2> QED BY <1>1, <2>1
<1>3. CASE agents[TargetOf[r]] # NoConn
  <2>1. call[r] = "idle" /\ call' = [call EXCEPT ![r] = "found"]
    BY <1>3 DEF LookUp, Advance
  <2> QED BY <1>1, <2>1
<1> QED BY <1>2, <1>3

(* A response resolves its own waiter only, in the name of the target. *)
LEMMA ResolvedWaiter ==
  ASSUME DispatchTypeOK, NEW c \in Conns, NEW r \in Requests, Resolve(c, r)
  PROVE  /\ oneshot'[r] = "sent" /\ source'[r] = TargetOf[r]
         /\ \A q \in Requests \ {r} :
              oneshot'[q] = oneshot[q] /\ source'[q] = source[q]
<1>1. oneshot \in [Requests -> {"open", "sent", "dropped"}]
  BY DEF DispatchTypeOK
<1>2. source \in [Requests -> Agents \cup {NoAgent}]
  BY DEF DispatchTypeOK
<1> QED BY <1>1, <1>2 DEF Resolve, Expected

(* Every step keeps the rest of the invariant. *)
LEMMA RestStep == IInv /\ DispatchTypeOK' /\ [DispatchNext]_dispatchVars => Rest'
<1> SUFFICES ASSUME IInv, DispatchTypeOK', [DispatchNext]_dispatchVars PROVE Rest'
  OBVIOUS
<1> USE RequestsAssumption
    DEF IInv, Rest, DispatchTypeOK, Running, Ended, Advance, registry, CleanupEnded,
        SentByTarget, PendingOpen, FreshOpen, NoLeakedWaiter, WaiterFindable
<1>1. CASE UNCHANGED dispatchVars
  BY <1>1 DEF dispatchVars, waiters
<1>2. ASSUME NEW r \in Requests, LookUp(r) PROVE Rest'
  <2>1. /\ call[r] = "idle" /\ call'[r] \in {"found", "not found"}
        /\ \A q \in Requests \ {r} : call'[q] = call[q]
    BY <1>2, LookUpCall
  <2>2. UNCHANGED <<pending, oneshot, cleanup, source>>
    BY <1>2 DEF LookUp
  <2>3. CleanupEnded' /\ NoLeakedWaiter' /\ SentByTarget'
    BY <2>1, <2>2
  <2>4. PendingOpen' /\ FreshOpen' /\ WaiterFindable'
    BY <2>1, <2>2
  <2> QED BY <2>3, <2>4
<1>3. ASSUME NEW r \in Requests, CallStep(r) PROVE Rest'
  <2>1. CASE InsertWaiter(r)
    BY <2>1 DEF InsertWaiter
  <2>2. CASE SendCommand(r)
    BY <2>2 DEF SendCommand
  <2>3. CASE FailToSend(r)
    BY <2>3 DEF FailToSend
  <2>4. CASE Receive(r)
    BY <2>4 DEF Receive, EndWait
  <2>5. CASE LearnDisconnect(r)
    BY <2>5 DEF LearnDisconnect, EndWait
  <2>6. CASE TimeOut(r)
    BY <2>6 DEF TimeOut, EndWait
  <2> QED BY <1>3, <2>1, <2>2, <2>3, <2>4, <2>5, <2>6 DEF CallStep
<1>4. ASSUME NEW r \in Requests, Abandon(r) PROVE Rest'
  <2>1. CASE Advance(r, "found", "abandoned") /\ UNCHANGED waiters
    BY <2>1 DEF waiters
  <2>2. CASE EndWait(r, "abandoned")
    BY <2>2 DEF EndWait
  <2> QED BY <1>4, <2>1, <2>2 DEF Abandon
<1>5. ASSUME NEW r \in Requests, CleanUp(r) PROVE Rest'
  BY <1>5 DEF CleanUp
<1>6. ASSUME NEW c \in Conns, SocketStep(c) PROVE Rest'
  BY <1>6 DEF SocketStep, waiters
<1>7. ASSUME NEW c \in Conns, CancelPending(c) PROVE Rest'
  <2>1. UNCHANGED <<call, cleanup, source>> /\ pending' \subseteq pending
    BY <1>7 DEF CancelPending
  <2>2. \A q \in Requests :
          IF q \in pending \ pending' THEN oneshot'[q] = "dropped"
                                     ELSE oneshot'[q] = oneshot[q]
    BY <1>7 DEF CancelPending
  <2>3. CleanupEnded' /\ NoLeakedWaiter' /\ SentByTarget'
    BY <2>1, <2>2
  <2>4. PendingOpen' /\ WaiterFindable'
    BY <2>1, <2>2
  <2>5. FreshOpen'
    <3>1. \A q \in pending : call[q] \notin {"idle", "found"}
      BY DEF NoLeakedWaiter, CleanupEnded
    <3> QED BY <2>1, <2>2, <3>1
  <2> QED BY <2>3, <2>4, <2>5
<1>8. ASSUME NEW c \in Conns, NEW r \in Requests, Resolve(c, r) PROVE Rest'
  <2>1. UNCHANGED <<call, cleanup>> /\ pending' = pending \ {r} /\ r \in pending
    BY <1>8 DEF Resolve, Expected
  <2>2. \A q \in Requests \ {r} :
          oneshot'[q] = oneshot[q] /\ source'[q] = source[q]
    BY <1>8, ResolvedWaiter
  <2>3. oneshot'[r] = "sent" /\ source'[r] = TargetOf[r]
    BY <1>8, ResolvedWaiter
  <2>4. call[r] \notin {"idle", "found"}
    BY <2>1
  <2>5. CleanupEnded' /\ NoLeakedWaiter'
    BY <2>1
  <2>6. SentByTarget'
    BY <2>1, <2>2, <2>3
  <2>7. PendingOpen' /\ WaiterFindable'
    BY <2>1, <2>2, <2>3
  <2>8. FreshOpen'
    BY <2>1, <2>2, <2>4
  <2> QED BY <2>5, <2>6, <2>7, <2>8
<1> QED
  BY <1>1, <1>2, <1>3, <1>4, <1>5, <1>6, <1>7, <1>8 DEF DispatchNext

(* The inductive invariant. *)
THEOREM IInvariance == DispatchSpec => []IInv
<1>1. IInv /\ [DispatchNext]_dispatchVars => IInv'
  BY TypeOKStep, RestStep DEF IInv, Rest
<1> QED BY InitIInv, <1>1, PTL DEF DispatchSpec

(* Every variable keeps its type. *)
THEOREM TypeCorrect == DispatchSpec => []DispatchTypeOK
<1>1. IInv => DispatchTypeOK
  BY DEF IInv
<1> QED BY IInvariance, <1>1, PTL

(* Whatever ends a call, and however it races with the response and with   *)
(* the teardown, no waiter is left in the map without a removal.           *)
THEOREM NoWaiterLeaks == DispatchSpec => []NoLeakedWaiter
<1>1. IInv => NoLeakedWaiter
  BY DEF IInv
<1> QED BY IInvariance, <1>1, PTL

(* A call that waits on an open channel has its waiter in the map.         *)
THEOREM WaitersFindable == DispatchSpec => []WaiterFindable
<1>1. IInv => WaiterFindable
  BY DEF IInv
<1> QED BY IInvariance, <1>1, PTL

(* A call is answered by its target only.                                  *)
THEOREM TargetAnswers == DispatchSpec => []AnsweredByTarget
<1>1. IInv => AnsweredByTarget
  BY DEF IInv, SentByTarget, AnsweredByTarget
<1> QED BY IInvariance, <1>1, PTL

-----------------------------------------------------------------------------
(* Teardowns that nothing comes into.                                      *)

(* No socket of the agent registers between a teardown's removal of the    *)
(* registry entry and its purge of the waiters.                            *)
TeardownsAlone ==
  \A c \in Conns : link[c] = "removed" => agents[HostOf[c]] = NoConn

(* A call with a waiter has cloned a registry entry.                       *)
HoldEntries ==
  /\ \A r \in Requests : call[r] \in {"found", "listed"} => entry[r] # NoConn
  /\ \A r \in pending : entry[r] # NoConn

(* Every step keeps the clones.                                            *)
LEMMA HoldEntriesStep ==
  IInv /\ HoldEntries /\ [DispatchNext]_dispatchVars => HoldEntries'
<1> SUFFICES ASSUME IInv, HoldEntries, [DispatchNext]_dispatchVars PROVE HoldEntries'
  OBVIOUS
<1>0. /\ DispatchTypeOK
      /\ \A r \in pending : call[r] # "idle"
  BY DEF IInv, NoLeakedWaiter, CleanupEnded, Ended
<1> USE <1>0 DEF DispatchTypeOK, HoldEntries, Advance, registry
<1>1. CASE UNCHANGED dispatchVars
  BY <1>1 DEF dispatchVars, waiters
<1>2. ASSUME NEW r \in Requests, LookUp(r) PROVE HoldEntries'
  <2>1. /\ call[r] = "idle" /\ call'[r] \in {"found", "not found"}
        /\ \A q \in Requests \ {r} : call'[q] = call[q]
    BY <1>2, LookUpCall
  <2>2. /\ entry'[r] = agents[TargetOf[r]] /\ pending' = pending
        /\ \A q \in Requests \ {r} : entry'[q] = entry[q]
    BY <1>2 DEF LookUp
  <2>3. call'[r] = "found" => entry'[r] # NoConn
    BY <1>2, <2>2 DEF LookUp
  <2> QED
    BY <2>1, <2>2, <2>3
<1>3. ASSUME NEW r \in Requests, CallStep(r) \/ Abandon(r) \/ CleanUp(r)
      PROVE  HoldEntries'
  BY <1>3 DEF CallStep, InsertWaiter, SendCommand, FailToSend, Receive,
     LearnDisconnect, TimeOut, Abandon, EndWait, CleanUp, waiters
<1>4. ASSUME NEW c \in Conns,
             \/ SocketStep(c) \/ CancelPending(c)
             \/ \E r \in Requests : Resolve(c, r)
      PROVE  HoldEntries'
  BY <1>4 DEF SocketStep, CancelPending, Resolve, waiters
<1> QED
  BY <1>1, <1>2, <1>3, <1>4 DEF DispatchNext

(* CancelsOnlyLost is lost by that order of steps alone: if no socket      *)
(* registers inside a teardown, a command is cancelled only if the         *)
(* connection it was sent to is gone, whatever else overlaps.              *)
THEOREM OrderlyPurgeCancelsLost ==
  DispatchSpec /\ []TeardownsAlone => CancelsOnlyLost
<1>1. DispatchInit => HoldEntries
  BY DEF DispatchInit, HoldEntries
<1>2. ASSUME DispatchTypeOK, HoldEntries, TeardownsAlone, DispatchNext,
             NEW r \in Requests, oneshot[r] # "dropped", oneshot'[r] = "dropped"
      PROVE  agents[TargetOf[r]] # entry[r]
  <2>1. PICK c \in Conns : CancelPending(c)
    BY <1>2 DEF DispatchNext, LookUp, CallStep, InsertWaiter, SendCommand, FailToSend,
       Receive, LearnDisconnect, TimeOut, Abandon, EndWait, CleanUp, waiters,
       SocketStep, Resolve, DispatchTypeOK
  <2>2. r \in pending /\ TargetOf[r] = HostOf[c] /\ link[c] = "removed"
    BY <1>2, <2>1 DEF CancelPending, Release
  <2> QED
    BY <1>2, <2>2 DEF TeardownsAlone, HoldEntries
<1>3. DispatchTypeOK /\ HoldEntries /\ TeardownsAlone /\ [DispatchNext]_dispatchVars
        => [\A r \in Requests : oneshot[r] # "dropped" /\ oneshot'[r] = "dropped"
              => agents[TargetOf[r]] # entry[r]]_dispatchVars
  BY <1>2
<1>4. IInv => DispatchTypeOK
  BY DEF IInv
<1> QED
  BY <1>1, <1>3, <1>4, IInvariance, HoldEntriesStep, PTL
  DEF DispatchSpec, CancelsOnlyLost
=============================================================================
