--------------------------- MODULE OfflineAlertsMC ---------------------------
(* The sockets of AgentSessionMC beside the alerter.                       *)
EXTENDS AgentSessionMC, OfflineAlerts
=============================================================================
