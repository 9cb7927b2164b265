---------------------------- MODULE BackgroundMC ----------------------------
(* The server's background tasks that must get on with their work: the     *)
(* scheduler of the backup jobs and the dispatcher of the webhooks, for    *)
(* TLC.  They share nothing: a behaviour is one of one of the two.         *)
EXTENDS BackupRuns, WebhookQueue

CONSTANTS a1, a2, c1, c2, c3, j1, j2, s1, s2

VARIABLE part

(* Two sockets of one agent, and one of another; each agent has a job.     *)
Hosts  == [c \in {c1, c2, c3} |-> IF c = c3 THEN a2 ELSE a1]
Owners == [j \in {j1, j2} |-> IF j = j1 THEN a1 ELSE a2]

vars == <<part, backupVars, webhookVars>>

BackgroundInit ==
  /\ part \in {"backups", "rounds", "webhooks"}
  /\ BackupsInit /\ WebhooksInit

(* One agent's job, over two sockets that may overlap.                     *)
OneJobPart ==
  /\ part = "backups"
  /\ BackupsNext
  /\ link'[c3] = "new" /\ job'[j2].row = "new"
  /\ UNCHANGED <<part, webhookVars>>

(* Both agents' jobs, with a socket each; once made they stay enabled and  *)
(* are left to the scheduler.                                              *)
RoundsPart ==
  /\ part = "rounds"
  /\ BackupsNext
  /\ link'[c2] = "new" /\ operator' = Nobody
  /\ \A j \in Jobs :
       job'[j].row # "new" => job'[j].row = "kept" /\ job'[j].enabled
  /\ UNCHANGED <<part, webhookVars>>

WebhooksPart ==
  /\ part = "webhooks"
  /\ WebhooksNext
  /\ UNCHANGED <<part, backupVars>>

BackgroundNext == OneJobPart \/ RoundsPart \/ WebhooksPart

(* Each component's own fairness, in the behaviours that are its own.      *)
BackgroundFairness ==
  /\ WF_backupVars(part # "webhooks" /\ SchedulerStep)
  /\ WF_webhookVars(part = "webhooks" /\ PullEvent)
  /\ WF_webhookVars(part = "webhooks" /\ SpawnDelivery)
  /\ \A n \in Events : WF_webhookVars(part = "webhooks" /\ DeliveryStep(n))

BackgroundSpec ==
  BackgroundInit /\ [][BackgroundNext]_vars /\ BackgroundFairness

(* The variables of both have their types.                                 *)
BackgroundTypeOK == BackupsTypeOK /\ WebhooksTypeOK
=============================================================================
