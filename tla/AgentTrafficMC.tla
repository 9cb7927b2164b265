--------------------------- MODULE AgentTrafficMC ---------------------------
(* What passes between the server and an agent outside of the interactive  *)
(* operations, for TLC: update windows, fan-out runs, the queues of        *)
(* waiters, the agent list, and health probes both ways.  They share       *)
(* nothing but the registry, which is the agent's socket's to change: a    *)
(* behaviour is one of one of the six.                                     *)
EXTENDS UpdateWindows, FanOut, ReplyQueues, AgentList, ProbePush, ProbeReports

CONSTANTS a1, c1, c2, f1, f2, r1, r2, r3, r4, u1, h1, h2, p1

VARIABLE part

(* Two sockets of one agent.                                               *)
Hosts == [c \in {c1, c2} |-> a1]

(* Three calls for a queue of two waiters, and one for the other queue.    *)
Targets   == [r \in {r1, r2, r3, r4} |-> a1]
CallKinds == [r \in {r1, r2, r3, r4} |-> IF r = r4 THEN "restore" ELSE "list"]

OwnWindowVars ==
  <<window, windowDue, scheduled, ticker, runNow, upgrades, responding,
    dangling>>
OwnFanOutVars ==
  <<run, started, todo, marking, result, asked, reader, stray>>
OwnReplyVars  == <<call, entry, queue, replied, unanswered, leaked>>
OwnListVars   == <<changes, broadcast, client, held, late, newest>>
OwnPushVars   == <<revision, push, pushed, unpushed>>
OwnReportVars == <<state, told, report, crossed>>

vars ==
  <<part, registry, OwnWindowVars, OwnFanOutVars, OwnReplyVars, OwnListVars,
    OwnPushVars, OwnReportVars>>

TrafficInit ==
  /\ part \in {"windows", "fan_out", "replies", "list", "push", "reports"}
  /\ WindowsInit /\ FanOutInit /\ RepliesInit
  /\ ListInit /\ ProbesInit /\ ReportsInit

TrafficNext ==
  /\ UNCHANGED part
  /\ \/ /\ part = "windows" /\ WindowsNext
        /\ UNCHANGED <<OwnFanOutVars, OwnReplyVars, OwnListVars, OwnPushVars,
                       OwnReportVars>>
     \/ /\ part = "fan_out" /\ FanOutNext
        /\ UNCHANGED <<OwnWindowVars, OwnReplyVars, OwnListVars, OwnPushVars,
                       OwnReportVars>>
     \/ /\ part = "replies" /\ RepliesNext
        /\ UNCHANGED <<OwnWindowVars, OwnFanOutVars, OwnListVars, OwnPushVars,
                       OwnReportVars>>
     \/ /\ part = "list" /\ ListNext
        /\ UNCHANGED <<OwnWindowVars, OwnFanOutVars, OwnReplyVars, OwnPushVars,
                       OwnReportVars>>
     \/ /\ part = "push" /\ ProbesNext
        /\ UNCHANGED <<OwnWindowVars, OwnFanOutVars, OwnReplyVars, OwnListVars,
                       OwnReportVars>>
     \/ /\ part = "reports" /\ ReportsNext
        /\ UNCHANGED <<OwnWindowVars, OwnFanOutVars, OwnReplyVars, OwnListVars,
                       OwnPushVars>>

TrafficSpec == TrafficInit /\ [][TrafficNext]_vars

(* The variables of all six have their types.                              *)
TrafficTypeOK ==
  /\ WindowsTypeOK /\ FanOutTypeOK /\ RepliesTypeOK
  /\ ListTypeOK /\ ProbesTypeOK /\ ReportsTypeOK

(* ProbesArePushed, in the behaviours of ProbePush: the registrations in   *)
(* the other components' behaviours are theirs, and push nothing.          *)
ConnectedArePushed == part = "push" => ProbesArePushed
=============================================================================
