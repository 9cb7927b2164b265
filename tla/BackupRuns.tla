----------------------------- MODULE BackupRuns -----------------------------
(***************************************************************************)
(* Backup jobs (src/src/backups.rs): a row per job in the database, the    *)
(* scheduler that starts the jobs that are due, the operator who starts    *)
(* one at once, and the agent socket that records the results              *)
(* (src/src/main.rs, handle_agent_socket).                                 *)
(*                                                                         *)
(* Nothing ties a result to the run it is for but the job's id, and what   *)
(* the row shows is whatever was written last.  The rows outlive a crash   *)
(* of the server; connections and requests do not.                         *)
(***************************************************************************)
EXTENDS AgentRegistry, Integers

CONSTANTS
  Jobs,         \* ids of rows; the database does not use an id twice
  OwnerOf,      \* the agent of a job
  NoJob,        \* nothing is being dispatched
  MaxInFlight   \* bound: runs of a job that are under way at a time

ASSUME JobsAssumption ==
  /\ OwnerOf \in [Jobs -> Agents]
  /\ NoJob \notin Jobs
  /\ MaxInFlight \in Nat \ {0}

VARIABLES
  job,         \* the rows of backup_jobs
  due,         \* jobs with a cron tick since their last_run_at
  scheduler,   \* the task of spawn_scheduler
  operator,    \* a call of run_now_handler
  wire,        \* BackupRunRequests each socket has yet to answer
  excused      \* history: jobs whose row may show a run that is not there

jobVars == <<job, due, scheduler, operator, wire, excused>>
backupVars == <<agents, link, jobVars>>

Row(row, enabled, status) ==
  [row |-> row, enabled |-> enabled, status |-> status]

Resting == [at |-> "idle", todo |-> {}, for |-> NoJob, tx |-> NoConn]
Nobody  == [at |-> "idle", for |-> NoJob, tx |-> NoConn]

BackupsInit ==
  /\ RegistryInit
  /\ job = [j \in Jobs |-> Row("new", FALSE, "none")]
  /\ due = {}
  /\ scheduler = Resting
  /\ operator = Nobody
  /\ wire = [c \in Conns |-> [j \in Jobs |-> 0]]
  /\ excused = {}

Kept(j) == job[j].row = "kept"

(* The runs of a job that its agent may still answer.                      *)
InFlight(j) == \E c \in Conns : wire[c][j] > 0

Dispatched(j) ==
  \/ scheduler.for = j
  \/ operator.for = j

(* The bound on the environment: a run more fits.                          *)
Fits(j) == \A c \in Conns : wire[c][j] < MaxInFlight

(* record_backup_job_result: an UPDATE, which sets last_run_at too.        *)
Record(j, status) ==
  /\ job' = IF Kept(j) THEN [job EXCEPT ![j].status = status] ELSE job
  /\ due' = due \ {j}

(* A request is in the socket's channel.  A socket that is not served any  *)
(* more takes it and loses it.                                             *)
Deliver(j, c) ==
  /\ wire' = IF link[c] = "live" THEN [wire EXCEPT ![c][j] = @ + 1] ELSE wire
  /\ excused' = IF link[c] = "live" THEN excused ELSE excused \cup {j}

-----------------------------------------------------------------------------
(* The operator.                                                           *)

(* An upsert keeps the results of the row.  A job that has never run takes *)
(* updated_at for its last run.                                            *)
Upsert(j, enabled) ==
  /\ job[j].row \in {"new", "kept"}
  /\ job' = [job EXCEPT ![j].row = "kept", ![j].enabled = enabled]
  /\ due' = IF job[j].status = "none" THEN due \ {j} ELSE due
  /\ UNCHANGED <<registry, scheduler, operator, wire, excused>>

Delete(j) ==
  /\ Kept(j)
  /\ job' = [job EXCEPT ![j] = Row("deleted", FALSE, "none")]
  /\ due' = due \ {j}
  /\ excused' = excused \ {j}
  /\ UNCHANGED <<registry, scheduler, operator, wire>>

(* The row is read and the registry entry cloned.                          *)
RunNow(j) ==
  LET c == agents[OwnerOf[j]] IN
  /\ operator.at = "idle" /\ Kept(j) /\ Fits(j)
  /\ c # NoConn
  /\ operator' = [at |-> "found", for |-> j, tx |-> c]
  /\ UNCHANGED <<registry, job, due, scheduler, wire, excused>>

(* The request goes out before anything is recorded.                       *)
SendRunNow ==
  /\ operator.at = "found"
  /\ operator' = [operator EXCEPT !.at = "sent"]
  /\ Deliver(operator.for, operator.tx)
  /\ UNCHANGED <<registry, job, due, scheduler>>

(* The channel is closed: "send failed"; or the client hangs up while the  *)
(* handler waits for the database.  The row is left alone.                 *)
FailRunNow ==
  /\ operator.at # "idle"
  /\ operator' = Nobody
  /\ UNCHANGED <<registry, job, due, scheduler, wire, excused>>

RecordRunNow ==
  /\ operator.at \in {"sent", "overtaken"}
  /\ Record(operator.for, "running")
  /\ operator' = Nobody
  /\ excused' = IF operator.at = "overtaken" THEN excused \cup {operator.for}
                ELSE excused
  /\ UNCHANGED <<registry, scheduler, wire>>

-----------------------------------------------------------------------------
(* The scheduler.                                                          *)

(* A tick of the cron expression passes.                                   *)
CronTick(j) ==
  /\ Kept(j) /\ Fits(j)
  /\ due' = due \cup {j}
  /\ UNCHANGED <<registry, job, scheduler, operator, wire, excused>>

(* All rows are read; those that are due now are gone through.             *)
ReadRows ==
  /\ scheduler.at = "idle"
  /\ scheduler' = [scheduler EXCEPT !.at = "rows",
                     !.todo = {j \in due : Kept(j) /\ job[j].enabled}]
  /\ UNCHANGED <<registry, job, due, operator, wire, excused>>

(* Mutant: the round ends at the first job whose agent is offline.         *)
DeferRound(j) ==
  /\ scheduler.at = "rows" /\ j \in scheduler.todo
  /\ agents[OwnerOf[j]] = NoConn
  /\ scheduler' = [scheduler EXCEPT !.todo = {}]
  /\ UNCHANGED <<registry, job, due, operator, wire, excused>>

(* The agent is offline: the job stays due.                                *)
DeferJob(j) ==
  /\ scheduler.at = "rows" /\ j \in scheduler.todo
  /\ agents[OwnerOf[j]] = NoConn
  /\ scheduler' = [scheduler EXCEPT !.todo = @ \ {j}]
  /\ UNCHANGED <<registry, job, due, operator, wire, excused>>

TakeJob(j) ==
  LET c == agents[OwnerOf[j]] IN
  /\ scheduler.at = "rows" /\ j \in scheduler.todo
  /\ c # NoConn
  /\ scheduler' = [at |-> "record", todo |-> scheduler.todo \ {j},
                   for |-> j, tx |-> c]
  /\ UNCHANGED <<registry, job, due, operator, wire, excused>>

(* The run is recorded before it is asked for.                             *)
RecordJob ==
  /\ scheduler.at = "record"
  /\ Record(scheduler.for, "running")
  /\ scheduler' = [scheduler EXCEPT !.at = "send"]
  /\ UNCHANGED <<registry, operator, wire, excused>>

NextRow == [scheduler EXCEPT !.at = "rows", !.for = NoJob, !.tx = NoConn]

SendJob ==
  /\ scheduler.at = "send"
  /\ scheduler' = NextRow
  /\ Deliver(scheduler.for, scheduler.tx)
  /\ UNCHANGED <<registry, job, due, operator>>

(* The channel is closed: a warning, and the row goes on to say "running". *)
FailJob ==
  /\ scheduler.at = "send"
  /\ scheduler' = NextRow
  /\ excused' = excused \cup {scheduler.for}
  /\ UNCHANGED <<registry, job, due, operator, wire>>

(* The round is over; the next one is a minute away.                       *)
EndOfRows ==
  /\ scheduler.at = "rows" /\ scheduler.todo = {}
  /\ scheduler' = Resting
  /\ UNCHANGED <<registry, job, due, operator, wire, excused>>

-----------------------------------------------------------------------------
(* The agent's sockets.                                                    *)

(* Mutant: only a success is recorded.                                     *)
AnswerSuccess(c, j, status) ==
  /\ link[c] = "live" /\ wire[c][j] > 0
  /\ wire' = [wire EXCEPT ![c][j] = @ - 1]
  /\ IF status = "success" THEN Record(j, status) ELSE UNCHANGED <<job, due>>
  /\ excused' = excused \ {j}
  /\ UNCHANGED <<registry, scheduler, operator>>

(* BackupRunResponse: the result is recorded, whatever run it is of.       *)
Answer(c, j, status) ==
  /\ link[c] = "live" /\ wire[c][j] > 0
  /\ wire' = [wire EXCEPT ![c][j] = @ - 1]
  /\ Record(j, status)
  /\ excused' = excused \ {j}
  /\ operator' = IF operator.at = "sent" /\ operator.for = j
                 THEN [operator EXCEPT !.at = "overtaken"] ELSE operator
  /\ UNCHANGED <<registry, scheduler>>

(* What a socket has not answered when it goes is lost.                    *)
LoseRuns(C) ==
  /\ wire' = [c \in Conns |-> IF c \in C THEN [j \in Jobs |-> 0] ELSE wire[c]]
  /\ excused' = excused \cup {j \in Jobs : \E c \in C : wire[c][j] > 0}

ConnectAgent(c) ==
  /\ Insert(c)
  /\ UNCHANGED jobVars

DisconnectAgent(c) ==
  /\ Skip(c) \/ Remove(c)
  /\ LoseRuns({c})
  /\ UNCHANGED <<job, due, scheduler, operator>>

TearDown(c) ==
  /\ Release(c)
  /\ UNCHANGED jobVars

(* The server is killed and started again: the rows are what is left.      *)
Restart ==
  LET C == {c \in Conns : link[c] # "new"} IN
  /\ agents' = [a \in Agents |-> NoConn]
  /\ link' = [c \in Conns |-> IF c \in C THEN "over" ELSE "new"]
  /\ wire' = [c \in Conns |-> [j \in Jobs |-> 0]]
  /\ excused' = excused \cup {j \in Jobs : InFlight(j) \/ Dispatched(j)}
  /\ scheduler' = Resting
  /\ operator' = Nobody
  /\ UNCHANGED <<job, due>>

-----------------------------------------------------------------------------
SchedulerStep ==
  \/ ReadRows \/ RecordJob \/ SendJob \/ FailJob \/ EndOfRows
  \/ \E j \in Jobs : DeferJob(j) \/ TakeJob(j)

OperatorStep ==
  \/ SendRunNow \/ FailRunNow \/ RecordRunNow
  \/ \E j \in Jobs : RunNow(j) \/ Delete(j) \/ \E b \in BOOLEAN : Upsert(j, b)

BackupsNext ==
  \/ SchedulerStep \/ OperatorStep \/ Restart
  \/ \E j \in Jobs : CronTick(j)
  \/ \E c \in Conns : ConnectAgent(c) \/ DisconnectAgent(c) \/ TearDown(c)
  \/ \E c \in Conns, j \in Jobs, s \in {"success", "failed"} : Answer(c, j, s)

(* The scheduler's interval ticks and its task is polled; agents need not  *)
(* answer, and nobody need connect.                                        *)
BackupsFairness == WF_backupVars(SchedulerStep)

BackupsSpec == BackupsInit /\ [][BackupsNext]_backupVars /\ BackupsFairness

-----------------------------------------------------------------------------
(* Properties.                                                             *)

(* Every variable has its type.                                            *)
BackupsTypeOK ==
  /\ RegistryTypeOK
  /\ job \in [Jobs -> [row : {"new", "kept", "deleted"}, enabled : BOOLEAN,
                       status : {"none", "running", "success", "failed"}]]
  /\ due \subseteq Jobs
  /\ scheduler \in [at : {"idle", "rows", "record", "send"},
                    todo : SUBSET Jobs,
                    for : Jobs \cup {NoJob}, tx : Conns \cup {NoConn}]
  /\ operator \in [at : {"idle", "found", "sent", "overtaken"},
                   for : Jobs \cup {NoJob}, tx : Conns \cup {NoConn}]
  /\ wire \in [Conns -> [Jobs -> Nat]]
  /\ excused \subseteq Jobs

(* A row that says "running" has a run under way, or one the scheduler is  *)
(* about to send, unless the request or its answer was lost with a socket  *)
(* or with the server, or run_now wrote "running" after the result:        *)
(* backups.rs has no other way to leave a row at "running" for ever.       *)
RunningIsReal ==
  \A j \in Jobs : job[j].status = "running" =>
    \/ InFlight(j) \/ j \in excused
    \/ scheduler.at = "send" /\ scheduler.for = j

(* A job can go: its row is there and enabled, and its agent is connected. *)
Ready(j) == Kept(j) /\ job[j].enabled /\ agents[OwnerOf[j]] # NoConn

(* The scheduler asks the agent for a run of j, or finds its channel       *)
(* closed.                                                                 *)
Tried(j) == scheduler.for = j /\ (SendJob \/ FailJob)

(* The tick is not owed any more although the scheduler has not got to it: *)
(* an answer, run_now or an upsert has moved last_run_at on.               *)
MovedOn(j) == j \in due /\ j \notin due' /\ UNCHANGED scheduler

(* The scheduler tries to start every job that stays ready and is due      *)
(* again and again, unless others move last_run_at on each time, whatever  *)
(* becomes of the jobs of other agents in the same round (scheduler_tick). *)
DueJobsStart ==
  \A j \in Jobs : (<>[]Ready(j)) /\ ([]<>(j \in due)) =>
    \/ []<><<Tried(j)>>_backupVars
    \/ []<><<MovedOn(j)>>_backupVars
=============================================================================
