----------------------------- MODULE OfflineAlerts -----------------------------
(***************************************************************************)
(* The reminder that an agent is still offline (src/src/main.rs,           *)
(* spawn_stale_agent_alerter) beside the sessions.  The alerter is one     *)
(* task: at a tick it collects the agents whose last alert is old enough   *)
(* under the disconnect_states lock, and fires the webhooks after it.      *)
(*                                                                         *)
(* Of `last_alert` only matters whether the interval since it is over; a   *)
(* new Confirmed entry starts a new one.                                   *)
(***************************************************************************)
EXTENDS AgentSession

VARIABLES
  overdue,   \* agents whose last alert is STALE_AGENT_REALERT_SECS old
  due        \* agents the alerter has collected and not fired for yet

alertVars == <<vars, overdue, due>>

AlertsInit == Init /\ overdue = {} /\ due = {}

(* A step of the sessions: an entry that is removed or replaced takes its  *)
(* last_alert with it.                                                     *)
SessionStep ==
  /\ Next
  /\ overdue' = {a \in overdue : states'[a] = states[a]}
  /\ UNCHANGED due

(* The interval since the last alert of a confirmed entry is over.         *)
Elapse(a) ==
  /\ states[a].kind = "confirmed"
  /\ overdue' = overdue \cup {a}
  /\ UNCHANGED <<vars, due>>

(* Mutant: last_alert is set before it is compared with the time.          *)
StampThenCompare ==
  /\ due = {}
  /\ overdue # {}
  /\ overdue' = {}
  /\ UNCHANGED <<vars, due>>

(* A tick of the alerter that finds something, under the lock.             *)
CollectDue ==
  /\ due = {}
  /\ overdue # {}
  /\ due' = overdue
  /\ overdue' = {}
  /\ UNCHANGED vars

(* fire_agent_still_offline, whatever became of the entry meanwhile.       *)
Remind(a) ==
  /\ a \in due
  /\ due' = due \ {a}
  /\ UNCHANGED <<vars, overdue>>

AlerterStep == CollectDue \/ \E a \in Agents : Remind(a)

AlertsNext ==
  SessionStep \/ AlerterStep \/ \E a \in Agents : Elapse(a)

(* Time passes, and the alerter's loop goes on; the session tasks are as   *)
(* fair as in AgentSession.                                                *)
AlertsFairness ==
  /\ WF_alertVars(AlerterStep)
  /\ \A a \in Agents : WF_alertVars(Elapse(a))

AlertsSpec ==
  AlertsInit /\ [][AlertsNext]_alertVars /\ Fairness /\ AlertsFairness

(* "So a silently-stranded agent ... is surfaced instead of sitting        *)
(* unnoticed" (spawn_stale_agent_alerter): an agent that has left the      *)
(* registry is in the end announced as gone, by its confirmed entry, and   *)
(* reminded of as long as it stays away, or it is back, whatever its old   *)
(* sockets and the other agents do.                                        *)
StrandedIsSurfaced ==
  \A a \in Agents :
    /\ (latest[a] # NoConn /\ agents[a] = NoConn)
         ~> (a \in due \/ agents[a] # NoConn)
    /\ (a \in due) ~> (a \notin due)
=============================================================================
