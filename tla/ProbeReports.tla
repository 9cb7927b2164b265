---------------------------- MODULE ProbeReports ----------------------------
(***************************************************************************)
(* Reports on health probes (src/src/main.rs, handle_agent_socket).  For   *)
(* each result in a HealthProbeReport the socket's task reads the probe's  *)
(* last_state, writes the new one, and tells the operator if they differ.  *)
(* Two sockets of one agent, or the server's end, can come between these.  *)
(*                                                                         *)
(* The notification, the webhook and the audit row are one act of telling; *)
(* a first green result is told to nobody but the audit log.               *)
(***************************************************************************)
EXTENDS AgentRegistry

CONSTANTS
  Probes,      \* ids of rows; the database does not use an id twice
  NoProbe      \* no result is being dealt with

ASSUME ReportsAssumption == NoProbe \notin Probes

VARIABLES
  state,      \* last_state of each row of health_probes
  told,       \* what the operator was told of the probe last
  report,     \* what each socket's task is doing with a result
  crossed     \* history: probes one of whose results was mistaken or cut off

reportVars == <<agents, link, state, told, report, crossed>>

Colours  == {"green", "red"}
NoReport == [at |-> "idle", probe |-> NoProbe, new |-> "green", prev |-> "null"]

ReportsInit ==
  /\ RegistryInit
  /\ state = [p \in Probes |-> "absent"]
  /\ told = [p \in Probes |-> "nothing"]
  /\ report = [c \in Conns |-> NoReport]
  /\ crossed = {}

Reporting(p) == {c \in Conns : report[c].probe = p}

(* A first result is news if it is red, a later one if it is different.    *)
News(prev, new) == prev # new /\ (prev # "null" \/ new = "red")

-----------------------------------------------------------------------------
CreateProbe(p) ==
  /\ state[p] = "absent"
  /\ state' = [state EXCEPT ![p] = "null"]
  /\ UNCHANGED <<registry, told, report, crossed>>

DeleteProbe(p) ==
  /\ state[p] \in Colours \cup {"null"}
  /\ state' = [state EXCEPT ![p] = "deleted"]
  /\ UNCHANGED <<registry, told, report, crossed>>

(* The row is read; no row, no state and an error are all the same.        *)
ReadState(c, p, new) ==
  /\ link[c] = "live" /\ report[c].at = "idle" /\ state[p] # "absent"
  /\ report' = [report EXCEPT ![c] =
       [at |-> "read", probe |-> p, new |-> new,
        prev |-> IF state[p] = "deleted" THEN "null" ELSE state[p]]]
  /\ crossed' = IF Reporting(p) = {} THEN crossed ELSE crossed \cup {p}
  /\ UNCHANGED <<registry, state, told>>

(* record_health_probe_result: an UPDATE, of no row if it was deleted.     *)
WriteState(c) ==
  LET r == report[c] IN
  /\ r.at = "read"
  /\ state' = IF state[r.probe] = "deleted" THEN state
              ELSE [state EXCEPT ![r.probe] = r.new]
  /\ report' = IF News(r.prev, r.new) THEN [report EXCEPT ![c].at = "news"]
               ELSE [report EXCEPT ![c] = NoReport]
  /\ UNCHANGED <<registry, told, crossed>>

(* Mutant: only alarms are told.                                           *)
TellRed(c) ==
  LET r == report[c] IN
  /\ r.at = "news"
  /\ told' = IF r.new = "red" THEN [told EXCEPT ![r.probe] = r.new] ELSE told
  /\ report' = [report EXCEPT ![c] = NoReport]
  /\ crossed' = IF Reporting(r.probe) = {c} THEN crossed \ {r.probe} ELSE crossed
  /\ UNCHANGED <<registry, state>>

(* A change that is told while no other result of the probe is being dealt *)
(* with sets right whatever was mistaken before.                           *)
Tell(c) ==
  LET r == report[c] IN
  /\ r.at = "news"
  /\ told' = [told EXCEPT ![r.probe] = r.new]
  /\ report' = [report EXCEPT ![c] = NoReport]
  /\ crossed' = IF Reporting(r.probe) = {c} /\ state[r.probe] = r.new
                THEN crossed \ {r.probe} ELSE crossed
  /\ UNCHANGED <<registry, state>>

ReportsConnect(c) ==
  /\ Insert(c)
  /\ UNCHANGED <<state, told, report, crossed>>

(* A socket ends between two messages.                                     *)
ReportsDisconnect(c) ==
  /\ Skip(c) \/ Remove(c) \/ Release(c)
  /\ report[c].at = "idle"
  /\ UNCHANGED <<state, told, report, crossed>>

(* The server is killed and started again: a result that was written and   *)
(* not told is told no more.                                               *)
ReportsRestart ==
  LET C == {c \in Conns : link[c] # "new"} IN
  /\ agents' = [a \in Agents |-> NoConn]
  /\ link' = [c \in Conns |-> IF c \in C THEN "over" ELSE "new"]
  /\ report' = [c \in Conns |-> NoReport]
  /\ crossed' = crossed \cup {p \in Probes : Reporting(p) # {}}
  /\ UNCHANGED <<state, told>>

ReportsNext ==
  \/ ReportsRestart
  \/ \E p \in Probes : CreateProbe(p) \/ DeleteProbe(p)
  \/ \E c \in Conns :
       \/ ReportsConnect(c) \/ ReportsDisconnect(c)
       \/ WriteState(c) \/ Tell(c)
       \/ \E p \in Probes, new \in Colours : ReadState(c, p, new)

ReportsSpec == ReportsInit /\ [][ReportsNext]_reportVars

-----------------------------------------------------------------------------
(* Properties.                                                             *)

(* Every variable has its type.                                            *)
ReportsTypeOK ==
  /\ RegistryTypeOK
  /\ state \in [Probes -> Colours \cup {"absent", "null", "deleted"}]
  /\ told \in [Probes -> Colours \cup {"nothing"}]
  /\ report \in [Conns -> [at : {"idle", "read", "news"},
       probe : Probes \cup {NoProbe}, new : Colours, prev : Colours \cup {"null"}]]
  /\ crossed \subseteq Probes

(* The operator knows the state of a probe: when none of its results is    *)
(* being dealt with, the last thing told is what the row says, or nothing  *)
(* was told and the row is green.  The exceptions are results that two     *)
(* sockets reported at the same time and one that the server's end cut     *)
(* off, and they last until the next change is told.                       *)
AlarmMatchesState ==
  \A p \in Probes :
    state[p] \in Colours /\ Reporting(p) = {} /\ p \notin crossed =>
      told[p] = state[p] \/ (told[p] = "nothing" /\ state[p] = "green")
=============================================================================
