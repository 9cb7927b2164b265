-------------------------- MODULE BackgroundProofs --------------------------
(* Proofs about the background tasks, for any agents, connections, jobs,   *)
(* sinks and sizes of the webhook queue: about BackupRuns, about           *)
(* WebhookQueue, and about the two side by side in BackgroundMC.           *)
EXTENDS BackgroundMC, FiniteSetTheorems, SequenceTheorems, TLAPS

-----------------------------------------------------------------------------
(* Backup jobs.                                                            *)

(* Whoever deals with a job has a job and a socket.                        *)
TasksHaveJobs ==
  /\ scheduler.at \in {"record", "send"} =>
       scheduler.for \in Jobs /\ scheduler.tx \in Conns
  /\ operator.at # "idle" => operator.for \in Jobs /\ operator.tx \in Conns

(* Only a row that is there has a result.                                  *)
GoneIsBlank == \A j \in Jobs : Kept(j) \/ job[j].status = "none"

(* Between the send and the record of run_now, the run is under way, or    *)
(* lost; or its row is gone.                                               *)
SentIsReal ==
  operator.at = "sent" =>
    \/ InFlight(operator.for) \/ operator.for \in excused
    \/ job[operator.for].row = "deleted"

Types == BackupsTypeOK /\ TasksHaveJobs /\ GoneIsBlank

BackupsInv == Types /\ SentIsReal /\ RunningIsReal

JobRow == [row : {"new", "kept", "deleted"}, enabled : BOOLEAN,
           status : {"none", "running", "success", "failed"}]

-----------------------------------------------------------------------------
(* Lemmas about the operators.                                             *)

(* Recording keeps the rows' types, and writes the row if it is there.     *)
LEMMA RecordRow ==
  ASSUME job \in [Jobs -> JobRow], due \subseteq Jobs, NEW j \in Jobs,
         NEW s \in {"running", "success", "failed"}, Record(j, s)
  PROVE  /\ job' \in [Jobs -> JobRow] /\ due' \subseteq Jobs
         /\ \A i \in Jobs : job'[i].row = job[i].row
         /\ \A i \in Jobs : i # j => job'[i] = job[i]
         /\ job'[j].status = IF Kept(j) THEN s ELSE job[j].status
<1>1. job[j] \in JobRow
  OBVIOUS
<1>2. /\ [job[j] EXCEPT !.status = s] \in JobRow
      /\ [job[j] EXCEPT !.status = s].row = job[j].row
      /\ [job[j] EXCEPT !.status = s].status = s
  BY <1>1 DEF JobRow
<1>3. job' = IF Kept(j)
             THEN [job EXCEPT ![j] = [job[j] EXCEPT !.status = s]] ELSE job
  BY DEF Record
<1>4. due' \subseteq Jobs
  BY DEF Record
<1> QED
  BY <1>1, <1>2, <1>3, <1>4

(* A request that is sent is under way, or lost; others are left alone.    *)
LEMMA DeliverRun ==
  ASSUME wire \in [Conns -> [Jobs -> Nat]], excused \subseteq Jobs,
         NEW j \in Jobs, NEW c \in Conns, Deliver(j, c)
  PROVE  /\ wire' \in [Conns -> [Jobs -> Nat]] /\ excused' \subseteq Jobs
         /\ InFlight(j)' \/ j \in excused'
         /\ \A i \in Jobs : InFlight(i) => InFlight(i)'
         /\ excused \subseteq excused'
<1>1. CASE link[c] = "live"
  <2>1. wire' = [wire EXCEPT ![c] = [wire[c] EXCEPT ![j] = wire[c][j] + 1]]
        /\ excused' = excused
    BY <1>1 DEF Deliver
  <2>2. [wire[c] EXCEPT ![j] = wire[c][j] + 1] \in [Jobs -> Nat]
    OBVIOUS
  <2>3. /\ wire' \in [Conns -> [Jobs -> Nat]]
        /\ wire'[c][j] = wire[c][j] + 1
        /\ \A d \in Conns, i \in Jobs : wire'[d][i] >= wire[d][i]
    BY <2>1, <2>2
  <2>4. wire[c][j] \in Nat
    OBVIOUS
  <2>5. wire'[c][j] > 0
    BY <2>3, <2>4
  <2>6. \A d \in Conns, i \in Jobs : wire[d][i] > 0 => wire'[d][i] > 0
    BY <2>3
  <2> QED
    BY <2>1, <2>3, <2>5, <2>6 DEF InFlight
<1>2. CASE link[c] # "live"
  BY <1>2 DEF Deliver, InFlight
<1> QED
  BY <1>1, <1>2

(* A row is inserted or updated, and keeps its status.                     *)
LEMMA UpsertRow ==
  ASSUME job \in [Jobs -> JobRow], NEW j \in Jobs, NEW b \in BOOLEAN,
         Upsert(j, b)
  PROVE  /\ job' \in [Jobs -> JobRow]
         /\ \A i \in Jobs : job'[i].status = job[i].status
         /\ \A i \in Jobs : Kept(i) => Kept(i)'
         /\ \A i \in Jobs : i # j => job'[i] = job[i]
         /\ job'[j].row = "kept"
<1> DEFINE r == [[job[j] EXCEPT !.row = "kept"] EXCEPT !.enabled = b]
<1>1. r \in JobRow /\ r.status = job[j].status /\ r.row = "kept"
  BY DEF JobRow
<1>2. job' = [job EXCEPT ![j] = r]
  BY DEF Upsert
<1> QED
  BY <1>1, <1>2 DEF Kept

(* A row that is not there any more.                                       *)
LEMMA DeleteRow ==
  ASSUME job \in [Jobs -> JobRow], NEW j \in Jobs, Delete(j)
  PROVE  /\ job' \in [Jobs -> JobRow]
         /\ \A i \in Jobs : i # j => job'[i] = job[i]
         /\ job'[j].status = "none" /\ job'[j].row = "deleted"
BY DEF Delete, Row, JobRow

(* The answer to a run takes it from its socket and from no other.         *)
LEMMA AnswerWire ==
  ASSUME wire \in [Conns -> [Jobs -> Nat]], NEW c \in Conns, NEW j \in Jobs,
         wire[c][j] > 0, wire' = [wire EXCEPT ![c][j] = @ - 1]
  PROVE  /\ wire' \in [Conns -> [Jobs -> Nat]]
         /\ \A i \in Jobs : i # j /\ InFlight(i) => InFlight(i)'
<1>1. [wire[c] EXCEPT ![j] = wire[c][j] - 1] \in [Jobs -> Nat]
  OBVIOUS
<1>2. wire' = [wire EXCEPT ![c] = [wire[c] EXCEPT ![j] = wire[c][j] - 1]]
  OBVIOUS
<1>3. \A d \in Conns, i \in Jobs : i # j => wire'[d][i] = wire[d][i]
  BY <1>1, <1>2
<1> QED
  BY <1>1, <1>2, <1>3 DEF InFlight

(* A run that goes with its socket is excused.                             *)
LEMMA LostRuns ==
  ASSUME wire \in [Conns -> [Jobs -> Nat]], excused \subseteq Jobs,
         NEW C, LoseRuns(C)
  PROVE  /\ wire' \in [Conns -> [Jobs -> Nat]] /\ excused' \subseteq Jobs
         /\ \A i \in Jobs : InFlight(i) => InFlight(i)' \/ i \in excused'
         /\ excused \subseteq excused'
BY DEF LoseRuns, InFlight

(* The registry keeps its types.                                           *)
LEMMA RegistryMoves ==
  ASSUME RegistryTypeOK, NEW c \in Conns,
         Insert(c) \/ Skip(c) \/ Remove(c) \/ Release(c)
  PROVE  RegistryTypeOK'
BY RegistryAssumption DEF RegistryTypeOK, Insert, Skip, Remove, Release

-----------------------------------------------------------------------------
(* Initially there is nothing.                                             *)
LEMMA BackupsInitInv == BackupsInit => BackupsInv
  BY RegistryAssumption, JobsAssumption
     DEF BackupsInit, RegistryInit, BackupsInv, Types, BackupsTypeOK, RegistryTypeOK,
         TasksHaveJobs, GoneIsBlank, SentIsReal, RunningIsReal, Kept, Row,
         Resting, Nobody

(* The operator's calls.                                                   *)
LEMMA OperatorKeeps == BackupsInv /\ OperatorStep => BackupsInv'
<1> SUFFICES ASSUME BackupsInv, OperatorStep PROVE BackupsInv'
  OBVIOUS
<1> USE RegistryAssumption, JobsAssumption
    DEF BackupsInv, Types, TasksHaveJobs, GoneIsBlank, SentIsReal, RunningIsReal,
        BackupsTypeOK, RegistryTypeOK, registry, Nobody
<1>0. job \in [Jobs -> JobRow]
  BY DEF JobRow
<1>1. ASSUME NEW j \in Jobs, NEW b \in BOOLEAN, Upsert(j, b) PROVE BackupsInv'
  <2>1. /\ job' \in [Jobs -> JobRow]
        /\ \A i \in Jobs : job'[i].status = job[i].status
        /\ \A i \in Jobs : Kept(i) => Kept(i)'
        /\ \A i \in Jobs : i # j => job'[i] = job[i]
        /\ job'[j].row = "kept"
    BY <1>0, <1>1, UpsertRow
  <2>2. /\ UNCHANGED <<agents, link, scheduler, operator, wire, excused>>
        /\ due' \subseteq Jobs
        /\ job[j].row \in {"new", "kept"}
    BY <1>1 DEF Upsert
  <2>3. SentIsReal'
    BY <2>1, <2>2 DEF InFlight
  <2>4. BackupsTypeOK' /\ TasksHaveJobs'
    BY <2>1, <2>2 DEF JobRow
  <2>5. GoneIsBlank'
    BY <2>1 DEF Kept
  <2>6. RunningIsReal'
    BY <2>1, <2>2 DEF InFlight
  <2> QED
    BY <2>3, <2>4, <2>5, <2>6
<1>2. ASSUME NEW j \in Jobs, Delete(j) PROVE BackupsInv'
  <2>1. /\ job' \in [Jobs -> JobRow]
        /\ \A i \in Jobs : i # j => job'[i] = job[i]
        /\ job'[j].status = "none" /\ job'[j].row = "deleted"
    BY <1>0, <1>2, DeleteRow
  <2>2. /\ UNCHANGED <<agents, link, scheduler, operator, wire>>
        /\ due' \subseteq Jobs /\ excused' = excused \ {j}
    BY <1>2 DEF Delete
  <2>3. BackupsTypeOK' /\ TasksHaveJobs'
    BY <2>1, <2>2 DEF JobRow
  <2>4. GoneIsBlank'
    <3>1. ASSUME NEW i \in Jobs PROVE Kept(i)' \/ job'[i].status = "none"
      BY <2>1 DEF Kept
    <3> QED
      BY <3>1 DEF Kept
  <2>5. SentIsReal'
    <3>1. CASE operator.for = j
      BY <2>1, <2>2, <3>1
    <3>2. CASE operator.for # j
      BY <2>1, <2>2, <3>2 DEF InFlight
    <3> QED
      BY <3>1, <3>2
  <2>6. RunningIsReal'
    BY <2>1, <2>2 DEF InFlight
  <2> QED
    BY <2>3, <2>4, <2>5, <2>6
<1>3. ASSUME NEW j \in Jobs, RunNow(j) PROVE BackupsInv'
  BY <1>3 DEF RunNow, InFlight, Kept
<1>4. CASE SendRunNow
  <2> DEFINE j == operator.for
  <2>1. /\ UNCHANGED <<agents, link, job, due, scheduler>>
        /\ operator.at = "found"
        /\ operator' = [operator EXCEPT !.at = "sent"]
        /\ Deliver(j, operator.tx)
    BY <1>4 DEF SendRunNow
  <2>2. PICK i \in Jobs, c \in Conns : i = operator.for /\ c = operator.tx
    BY <2>1
  <2>3. /\ wire' \in [Conns -> [Jobs -> Nat]] /\ excused' \subseteq Jobs
        /\ InFlight(i)' \/ i \in excused'
        /\ \A k \in Jobs : InFlight(k) => InFlight(k)'
        /\ excused \subseteq excused'
    BY <2>1, <2>2, DeliverRun
  <2>4. operator'.for = i /\ operator'.tx = c /\ operator'.at = "sent"
    BY <2>1, <2>2
  <2>5. BackupsTypeOK' /\ TasksHaveJobs'
    BY <2>1, <2>2, <2>3
  <2>6. SentIsReal'
    BY <2>3, <2>4 DEF Kept, InFlight
  <2> QED
    BY <2>1, <2>3, <2>5, <2>6 DEF Kept
<1>5. CASE FailRunNow
  BY <1>5 DEF FailRunNow, InFlight, Kept
<1>6. CASE RecordRunNow
  <2>1. /\ UNCHANGED <<agents, link, scheduler, wire>>
        /\ operator.at \in {"sent", "overtaken"}
        /\ operator' = Nobody
        /\ excused' = IF operator.at = "overtaken"
                      THEN excused \cup {operator.for} ELSE excused
        /\ Record(operator.for, "running")
    BY <1>6 DEF RecordRunNow
  <2>2. PICK j \in Jobs : j = operator.for
    BY <2>1
  <2>3. /\ job' \in [Jobs -> JobRow] /\ due' \subseteq Jobs
        /\ \A i \in Jobs : job'[i].row = job[i].row
        /\ \A i \in Jobs : i # j => job'[i] = job[i]
        /\ job'[j].status = IF Kept(j) THEN "running" ELSE job[j].status
    BY <1>0, <2>1, <2>2, RecordRow
  <2>4. InFlight(j) \/ j \in excused' \/ ~Kept(j)
    BY <2>1, <2>2 DEF Kept
  <2>5. /\ excused' \subseteq Jobs /\ excused \subseteq excused'
    BY <2>1, <2>2
  <2>6. BackupsTypeOK' /\ TasksHaveJobs' /\ SentIsReal'
    BY <2>1, <2>3, <2>5 DEF JobRow
  <2>7. GoneIsBlank'
    BY <2>3 DEF Kept
  <2>8. RunningIsReal'
    <3>1. ASSUME NEW i \in Jobs, job'[i].status = "running"
          PROVE  \/ InFlight(i) \/ i \in excused'
                 \/ scheduler.at = "send" /\ scheduler.for = i
      BY <2>3, <2>4, <2>5, <3>1
    <3> QED
      BY <2>1, <3>1 DEF InFlight
  <2> QED
    BY <2>6, <2>7, <2>8
<1> QED
  BY <1>1, <1>2, <1>3, <1>4, <1>5, <1>6 DEF OperatorStep

(* The scheduler's round.                                                  *)
LEMMA SchedulerKeeps == BackupsInv /\ SchedulerStep => BackupsInv'
<1> SUFFICES ASSUME BackupsInv, SchedulerStep PROVE BackupsInv'
  OBVIOUS
<1> USE RegistryAssumption, JobsAssumption
    DEF BackupsInv, Types, TasksHaveJobs, GoneIsBlank, SentIsReal, RunningIsReal,
        BackupsTypeOK, RegistryTypeOK, registry
<1>0. job \in [Jobs -> JobRow]
  BY DEF JobRow
<1>1. CASE ReadRows \/ EndOfRows \/ \E j \in Jobs : DeferJob(j) \/ TakeJob(j)
  <2>1. /\ UNCHANGED <<agents, link, job, due, operator, wire, excused>>
        /\ scheduler.at \in {"idle", "rows"}
    BY <1>1 DEF ReadRows, EndOfRows, DeferJob, TakeJob
  <2>2. BackupsTypeOK' /\ TasksHaveJobs'
    <3>1. CASE EndOfRows
      BY <2>1, <3>1 DEF EndOfRows, Resting
    <3>2. CASE ReadRows
      <4>1. PICK T \in SUBSET Jobs :
              scheduler' = [scheduler EXCEPT !.at = "rows", !.todo = T]
        BY <3>2 DEF ReadRows
      <4> QED
        BY <2>1, <4>1
    <3>3. ASSUME NEW j \in Jobs, DeferJob(j) \/ TakeJob(j)
          PROVE  BackupsTypeOK' /\ TasksHaveJobs'
      BY <2>1, <3>3 DEF DeferJob, TakeJob
    <3> QED
      BY <1>1, <3>1, <3>2, <3>3
  <2> QED
    BY <2>1, <2>2 DEF InFlight, Kept
<1>2. CASE RecordJob
  <2>1. /\ UNCHANGED <<agents, link, operator, wire, excused>>
        /\ scheduler.at = "record"
        /\ scheduler' = [scheduler EXCEPT !.at = "send"]
        /\ Record(scheduler.for, "running")
    BY <1>2 DEF RecordJob
  <2>2. PICK j \in Jobs : j = scheduler.for
    BY <2>1
  <2>3. /\ job' \in [Jobs -> JobRow] /\ due' \subseteq Jobs
        /\ \A i \in Jobs : job'[i].row = job[i].row
        /\ \A i \in Jobs : i # j => job'[i] = job[i]
        /\ job'[j].status = IF Kept(j) THEN "running" ELSE job[j].status
    BY <1>0, <2>1, <2>2, RecordRow
  <2>4. scheduler'.at = "send" /\ scheduler'.for = j
    BY <2>1, <2>2
  <2>5. BackupsTypeOK' /\ TasksHaveJobs'
    BY <2>1, <2>3 DEF JobRow
  <2>6. GoneIsBlank'
    <3>1. ASSUME NEW i \in Jobs PROVE Kept(i)' \/ job'[i].status = "none"
      BY <2>3 DEF Kept
    <3> QED
      BY <3>1 DEF Kept
  <2>7. SentIsReal'
    BY <2>1, <2>3 DEF InFlight
  <2>8. RunningIsReal'
    BY <2>1, <2>3, <2>4 DEF InFlight
  <2> QED
    BY <2>5, <2>6, <2>7, <2>8
<1>3. CASE SendJob
  <2>1. /\ UNCHANGED <<agents, link, job, due, operator>>
        /\ scheduler.at = "send"
        /\ scheduler' = NextRow
        /\ Deliver(scheduler.for, scheduler.tx)
    BY <1>3 DEF SendJob
  <2>2. PICK i \in Jobs, c \in Conns : i = scheduler.for /\ c = scheduler.tx
    BY <2>1
  <2>3. /\ wire' \in [Conns -> [Jobs -> Nat]] /\ excused' \subseteq Jobs
        /\ InFlight(i)' \/ i \in excused'
        /\ \A k \in Jobs : InFlight(k) => InFlight(k)'
        /\ excused \subseteq excused'
    BY <2>1, <2>2, DeliverRun
  <2>4. BackupsTypeOK' /\ TasksHaveJobs'
    BY <2>1, <2>3 DEF NextRow
  <2>5. SentIsReal'
    BY <2>1, <2>3 DEF Kept, InFlight
  <2>6. RunningIsReal'
    BY <2>1, <2>2, <2>3
  <2> QED
    BY <2>1, <2>4, <2>5, <2>6 DEF Kept
<1>4. CASE FailJob
  <2>1. BackupsTypeOK' /\ TasksHaveJobs'
    BY <1>4 DEF FailJob, NextRow
  <2> QED
    BY <1>4, <2>1 DEF FailJob, InFlight, Kept
<1> QED
  BY <1>1, <1>2, <1>3, <1>4 DEF SchedulerStep

(* A result is recorded, and a run_now that has not recorded anything yet  *)
(* is overtaken.                                                           *)
LEMMA AnswerKeeps ==
  ASSUME BackupsInv, NEW c \in Conns, NEW j \in Jobs,
         NEW s \in {"success", "failed"}, Answer(c, j, s)
  PROVE  BackupsInv'
<1> USE RegistryAssumption, JobsAssumption
    DEF BackupsInv, Types, TasksHaveJobs, GoneIsBlank, SentIsReal, RunningIsReal,
        BackupsTypeOK, RegistryTypeOK, registry
<1>0. job \in [Jobs -> JobRow]
  BY DEF JobRow
<1>1. /\ UNCHANGED <<agents, link, scheduler>>
      /\ wire[c][j] > 0 /\ wire' = [wire EXCEPT ![c][j] = @ - 1]
      /\ excused' = excused \ {j}
      /\ operator' = IF operator.at = "sent" /\ operator.for = j
                     THEN [operator EXCEPT !.at = "overtaken"] ELSE operator
  BY DEF Answer
<1>2. /\ job' \in [Jobs -> JobRow] /\ due' \subseteq Jobs
      /\ \A i \in Jobs : job'[i].row = job[i].row
      /\ \A i \in Jobs : i # j => job'[i] = job[i]
      /\ job'[j].status = IF Kept(j) THEN s ELSE job[j].status
  BY <1>0, RecordRow DEF Answer
<1>3. /\ wire' \in [Conns -> [Jobs -> Nat]]
      /\ \A i \in Jobs : i # j /\ InFlight(i) => InFlight(i)'
  BY <1>1, AnswerWire
<1>4. operator'.at = "sent" => operator' = operator /\ operator.for # j
  BY <1>1
<1>5. BackupsTypeOK' /\ TasksHaveJobs'
  BY <1>1, <1>2, <1>3 DEF JobRow
<1>6. GoneIsBlank'
  <2>1. ASSUME NEW i \in Jobs PROVE Kept(i)' \/ job'[i].status = "none"
    BY <1>2 DEF Kept
  <2> QED
    BY <2>1 DEF Kept
<1>7. SentIsReal'
  BY <1>1, <1>2, <1>3, <1>4 DEF Kept
<1>8. RunningIsReal'
  BY <1>1, <1>2, <1>3 DEF Kept
<1> QED
  BY <1>5, <1>6, <1>7, <1>8

(* What goes with a socket, or with the server, is excused.                *)
LEMMA LossKeeps ==
  ASSUME BackupsInv,
         \/ Restart
         \/ \E c \in Conns : ConnectAgent(c) \/ DisconnectAgent(c) \/ TearDown(c)
  PROVE  BackupsInv'
<1> USE RegistryAssumption, JobsAssumption
    DEF BackupsInv, Types, TasksHaveJobs, GoneIsBlank, SentIsReal, RunningIsReal,
        BackupsTypeOK
<1>1. CASE Restart
  <2>1. RegistryTypeOK'
    BY <1>1 DEF Restart, RegistryTypeOK
  <2> QED
    BY <1>1, <2>1 DEF Restart, Resting, Nobody, Kept, InFlight, Dispatched
<1>2. ASSUME NEW c \in Conns, ConnectAgent(c) \/ TearDown(c) PROVE BackupsInv'
  <2>1. RegistryTypeOK' /\ UNCHANGED jobVars
    BY <1>2, RegistryMoves DEF ConnectAgent, TearDown
  <2> QED
    BY <2>1 DEF jobVars, Kept, InFlight
<1>3. ASSUME NEW c \in Conns, DisconnectAgent(c) PROVE BackupsInv'
  <2>1. RegistryTypeOK' /\ UNCHANGED <<job, due, scheduler, operator>>
    BY <1>3, RegistryMoves DEF DisconnectAgent
  <2>2. /\ wire' \in [Conns -> [Jobs -> Nat]] /\ excused' \subseteq Jobs
        /\ \A i \in Jobs : InFlight(i) => InFlight(i)' \/ i \in excused'
        /\ excused \subseteq excused'
    BY <1>3, LostRuns DEF DisconnectAgent
  <2>3. operator.at = "sent" => operator.for \in Jobs
    OBVIOUS
  <2>4. SentIsReal'
    BY <2>1, <2>2, <2>3 DEF Kept
  <2> QED
    BY <2>1, <2>2, <2>4 DEF Kept
<1> QED
  BY <1>1, <1>2, <1>3

(* Every step keeps the invariant.                                         *)
LEMMA BackupsStep == BackupsInv /\ [BackupsNext]_backupVars => BackupsInv'
<1> SUFFICES ASSUME BackupsInv, [BackupsNext]_backupVars PROVE BackupsInv'
  OBVIOUS
<1>1. CASE UNCHANGED backupVars
  BY <1>1 DEF backupVars, jobVars, BackupsInv, Types, TasksHaveJobs, GoneIsBlank,
              SentIsReal, RunningIsReal, BackupsTypeOK, RegistryTypeOK, Kept,
              InFlight
<1>2. ASSUME NEW j \in Jobs, CronTick(j) PROVE BackupsInv'
  BY <1>2 DEF CronTick, registry, BackupsInv, Types, TasksHaveJobs, GoneIsBlank,
              SentIsReal, RunningIsReal, BackupsTypeOK, RegistryTypeOK, Kept,
              InFlight
<1> QED
  BY <1>1, <1>2, OperatorKeeps, SchedulerKeeps, AnswerKeeps, LossKeeps
     DEF BackupsNext

(* BackupsTypeOK: the variables keep their types.                          *)
THEOREM BackupsTypeCorrect == BackupsSpec => []BackupsTypeOK
<1>1. BackupsInv => BackupsTypeOK
  BY DEF BackupsInv, Types
<1> QED
  BY BackupsInitInv, BackupsStep, <1>1, PTL DEF BackupsSpec

(* RunningIsReal: whatever agents, operators and the server's end do, a    *)
(* row says "running" only of a run that is there, or was lost.            *)
THEOREM RunningRowsAreReal == BackupsSpec => []RunningIsReal
<1>1. BackupsInv => RunningIsReal
  BY DEF BackupsInv
<1> QED
  BY BackupsInitInv, BackupsStep, <1>1, PTL DEF BackupsSpec

-----------------------------------------------------------------------------
(* The dispatch queue of the webhooks.                                     *)

(* The events whose task holds a permit.                                   *)
Busy == {n \in Events : delivery[n] \in {"started", "sending"}}

PermitsBalance == permits = MaxDeliveries - Cardinality(Busy)

(* The queue keeps the order in which events are fired.                    *)
InOrder == \A i, j \in 1..Len(dispatch) : i < j => dispatch[i] < dispatch[j]

InDispatch(n) == \E i \in 1..Len(dispatch) : dispatch[i] = n

(* An event is where it is said to be, and in one place: not fired yet,    *)
(* in the channel, in the dispatcher's hands, or with a task of its own.   *)
HeldOnce ==
  \A n \in Events :
    /\ delivery[n] = "none" <=> n > fired
    /\ delivery[n] = "queued" <=> InDispatch(n)
    /\ delivery[n] = "pulled" <=> pulled = n

(* The audit rows of an event tell how far it has got: there are none      *)
(* before it is sent, then one for every sink that is finished with, and   *)
(* at its end one for each sink or one for the event.                      *)
RecordedAtEnd ==
  \A n \in Events :
    /\ delivery[n] \in {"none", "queued", "dropped", "pulled", "started"}
         => audits[n] = {}
    /\ delivery[n] = "sending" => audits[n] = Sinks \ untold[n]
    /\ delivery[n] = "over" => audits[n] \in {Sinks, {"dropped"}, {"client"}}

DispatchInv ==
  /\ WebhooksTypeOK /\ PermitsBalance /\ InOrder /\ HeldOnce /\ RecordedAtEnd

(* There are finitely many events, so those with a permit can be counted.  *)
LEMMA BusyFinite ==
  /\ IsFiniteSet(Busy) /\ Cardinality(Busy) \in Nat
  /\ \A S \in SUBSET Events : IsFiniteSet(S) /\ Cardinality(S) \in Nat
<1>1. IsFiniteSet(Events)
  BY WebhookAssumption, FS_Interval DEF Events
<1>2. \A S \in SUBSET Events : IsFiniteSet(S) /\ Cardinality(S) \in Nat
  BY <1>1, FS_Subset, FS_CardinalityType
<1> QED
  BY <1>2 DEF Busy

(* Initially no event has been fired, and all permits are there.           *)
LEMMA WebhooksInitInv == WebhooksInit => DispatchInv
<1> SUFFICES ASSUME WebhooksInit PROVE DispatchInv
  OBVIOUS
<1> USE WebhookAssumption DEF WebhooksInit, Events
<1>1. WebhooksTypeOK
  BY EmptySeq DEF WebhooksTypeOK
<1>2. Busy = {}
  BY DEF Busy
<1>3. PermitsBalance
  BY <1>2, FS_EmptySet DEF PermitsBalance
<1>4. InOrder /\ HeldOnce /\ RecordedAtEnd
  BY DEF InOrder, HeldOnce, InDispatch, RecordedAtEnd
<1> QED
  BY <1>1, <1>3, <1>4 DEF DispatchInv

(* An event that gets on: the others stay where they are.                  *)
LEMMA OneReaches ==
  ASSUME WebhooksTypeOK, NEW n \in Events, NEW from, NEW to \in
           {"none", "queued", "dropped", "pulled", "started", "sending", "over"},
         Reaches(n, from, to)
  PROVE  /\ delivery[n] = from /\ delivery'[n] = to
         /\ \A m \in Events : m # n => delivery'[m] = delivery[m]
         /\ delivery' \in [Events -> {"none", "queued", "dropped", "pulled",
                                      "started", "sending", "over"}]
BY DEF WebhooksTypeOK, Reaches

(* The newest event goes to the end of the channel, or is dropped.         *)
LEMMA FireStep == DispatchInv /\ FireEvent => DispatchInv'
<1> SUFFICES ASSUME DispatchInv, FireEvent PROVE DispatchInv'
  OBVIOUS
<1> USE WebhookAssumption
<1> DEFINE n == fired + 1
<1>t. /\ WebhooksTypeOK /\ PermitsBalance /\ InOrder /\ HeldOnce /\ RecordedAtEnd
      /\ fired \in Nat /\ fired < MaxEvents /\ n \in Events
      /\ dispatch \in Seq(Events) /\ Len(dispatch) \in Nat
  BY LenProperties DEF DispatchInv, WebhooksTypeOK, FireEvent, Events
<1>1. /\ fired' = n /\ UNCHANGED <<pulled, permits, untold, audits>>
      /\ \/ /\ Len(dispatch) < QueueCap /\ dispatch' = Append(dispatch, n)
            /\ Reaches(n, "none", "queued")
         \/ /\ Reaches(n, "none", "dropped") /\ dispatch' = dispatch
  BY DEF FireEvent
<1>n. \A m \in Events : m \in Nat /\ m \in Int
  BY DEF Events
<1>2. /\ delivery[n] = "none" /\ delivery'[n] \in {"queued", "dropped"}
      /\ \A m \in Events : m # n => delivery'[m] = delivery[m]
      /\ delivery' \in [Events -> {"none", "queued", "dropped", "pulled",
                                   "started", "sending", "over"}]
  BY <1>t, <1>1, OneReaches
<1>3. \A i \in 1..Len(dispatch) : dispatch[i] \in Events /\ dispatch[i] =< fired
  <2>1. ASSUME NEW i \in 1..Len(dispatch)
        PROVE  dispatch[i] \in Events /\ dispatch[i] =< fired
    <3>1. dispatch[i] \in Events
      BY <1>t, ElementOfSeq
    <3>2. delivery[dispatch[i]] = "queued"
      BY <1>t, <3>1 DEF HeldOnce, InDispatch
    <3>3. ~(dispatch[i] > fired)
      BY <1>t, <3>1, <3>2 DEF HeldOnce
    <3> QED
      BY <1>t, <1>n, <3>1, <3>3
  <2> QED
    BY <2>1
<1> HIDE DEF n
<1>4. Busy' = Busy
  BY <1>2 DEF Busy
<1>5. RecordedAtEnd' /\ PermitsBalance'
  <2>1. PermitsBalance'
    BY <1>t, <1>1, <1>4 DEF PermitsBalance
  <2>2. RecordedAtEnd'
    BY <1>t, <1>1, <1>2 DEF RecordedAtEnd
  <2> QED
    BY <2>1, <2>2
<1>6. CASE Len(dispatch) < QueueCap /\ dispatch' = Append(dispatch, n)
           /\ Reaches(n, "none", "queued")
  <2>0. delivery'[n] = "queued"
    BY <1>t, <1>6, OneReaches
  <2>1. /\ dispatch' \in Seq(Events) /\ Len(dispatch') = Len(dispatch) + 1
        /\ \A i \in 1..Len(dispatch) : dispatch'[i] = dispatch[i]
        /\ dispatch'[Len(dispatch) + 1] = n
    BY <1>t, <1>6, AppendProperties
  <2>2. WebhooksTypeOK'
    BY <1>t, <1>1, <1>2, <1>6, <2>1 DEF WebhooksTypeOK, n
  <2>3. InOrder'
    <3>1. ASSUME NEW i \in 1..Len(dispatch'), NEW j \in 1..Len(dispatch'), i < j
          PROVE  dispatch'[i] < dispatch'[j]
      <4>1. i \in 1..Len(dispatch)
        BY <1>t, <2>1, <3>1
      <4>2. CASE j \in 1..Len(dispatch)
        BY <1>t, <2>1, <3>1, <4>1, <4>2 DEF InOrder
      <4>3. CASE j = Len(dispatch) + 1
        <5>1. dispatch'[i] = dispatch[i] /\ dispatch'[j] = n
          BY <2>1, <4>1, <4>3
        <5>2. dispatch[i] \in Events /\ dispatch[i] =< fired
          BY <1>3, <4>1
        <5> QED
          BY <1>t, <1>n, <5>1, <5>2 DEF n
      <4> QED
        BY <1>t, <2>1, <4>2, <4>3
    <3> QED
      BY <3>1 DEF InOrder
  <2>4. ASSUME NEW m \in Events PROVE InDispatch(m)' <=> InDispatch(m) \/ m = n
    <3>1. 1..Len(dispatch') = 1..Len(dispatch) \cup {Len(dispatch) + 1}
      BY <1>t, <2>1
    <3>2. InDispatch(m) => InDispatch(m)'
      BY <2>1, <3>1 DEF InDispatch
    <3>3. m = n => InDispatch(m)'
      BY <2>1, <3>1 DEF InDispatch
    <3>4. InDispatch(m)' => InDispatch(m) \/ m = n
      BY <2>1, <3>1 DEF InDispatch
    <3> QED
      BY <3>2, <3>3, <3>4
  <2>5. ASSUME NEW m \in Events
        PROVE  /\ delivery'[m] = "none" <=> m > fired'
               /\ delivery'[m] = "queued" <=> InDispatch(m)'
               /\ delivery'[m] = "pulled" <=> pulled' = m
    <3>1. /\ delivery[m] = "none" <=> m > fired
          /\ delivery[m] = "queued" <=> InDispatch(m)
          /\ delivery[m] = "pulled" <=> pulled = m
      BY <1>t DEF HeldOnce
    <3>2. CASE m = n
      BY <1>t, <1>1, <1>2, <2>0, <2>4, <3>1, <3>2 DEF n
    <3>3. CASE m # n
      <4>1. m > fired' <=> m > fired
        BY <1>t, <1>n, <1>1, <3>3 DEF n
      <4> QED
        BY <1>1, <1>2, <2>4, <3>1, <3>3, <4>1
    <3> QED
      BY <3>2, <3>3
  <2>6. HeldOnce'
    BY <2>5 DEF HeldOnce
  <2> QED
    BY <1>5, <2>2, <2>3, <2>6 DEF DispatchInv
<1>7. CASE Reaches(n, "none", "dropped") /\ dispatch' = dispatch
  <2>0. delivery'[n] = "dropped"
    BY <1>t, <1>7, OneReaches
  <2>1. WebhooksTypeOK' /\ InOrder'
    BY <1>t, <1>1, <1>2, <1>7 DEF WebhooksTypeOK, InOrder, n
  <2>2. ASSUME NEW m \in Events
        PROVE  /\ delivery'[m] = "none" <=> m > fired'
               /\ delivery'[m] = "queued" <=> InDispatch(m)'
               /\ delivery'[m] = "pulled" <=> pulled' = m
    <3>1. /\ delivery[m] = "none" <=> m > fired
          /\ delivery[m] = "queued" <=> InDispatch(m)
          /\ delivery[m] = "pulled" <=> pulled = m
          /\ InDispatch(m)' <=> InDispatch(m)
      BY <1>t, <1>7 DEF HeldOnce, InDispatch
    <3>2. CASE m = n
      BY <1>t, <1>1, <1>2, <2>0, <3>1, <3>2 DEF n
    <3>3. CASE m # n
      <4>1. m > fired' <=> m > fired
        BY <1>t, <1>n, <1>1, <3>3 DEF n
      <4> QED
        BY <1>1, <1>2, <3>1, <3>3, <4>1
    <3> QED
      BY <3>2, <3>3
  <2>3. HeldOnce'
    BY <2>2 DEF HeldOnce
  <2> QED
    BY <1>5, <2>1, <2>3 DEF DispatchInv
<1> QED
  BY <1>1, <1>6, <1>7

(* The oldest event of the channel goes to the dispatcher.                 *)
LEMMA PullStep == DispatchInv /\ PullEvent => DispatchInv'
<1> SUFFICES ASSUME DispatchInv, PullEvent PROVE DispatchInv'
  OBVIOUS
<1> USE WebhookAssumption
<1>t. /\ WebhooksTypeOK /\ PermitsBalance /\ InOrder /\ HeldOnce /\ RecordedAtEnd
      /\ dispatch \in Seq(Events) /\ dispatch # <<>> /\ pulled = 0
      /\ Len(dispatch) \in Nat /\ Len(dispatch) =< QueueCap
  BY LenProperties DEF DispatchInv, WebhooksTypeOK, PullEvent
<1>1. /\ Head(dispatch) \in Events /\ dispatch' = Tail(dispatch)
      /\ Head(dispatch) = dispatch[1] /\ Len(dispatch) > 0
      /\ dispatch' \in Seq(Events) /\ Len(dispatch') = Len(dispatch) - 1
      /\ \A i \in 1..Len(dispatch') : dispatch'[i] = dispatch[i + 1]
  BY <1>t, HeadTailProperties, EmptySeq DEF PullEvent
<1>2. PICK n \in Events : n = Head(dispatch)
  BY <1>1
<1>3. /\ pulled' = n /\ Reaches(n, "queued", "pulled") /\ n # 0
      /\ UNCHANGED <<fired, permits, untold, audits>>
  BY <1>2 DEF PullEvent, Events
<1>4. /\ delivery[n] = "queued" /\ delivery'[n] = "pulled"
      /\ \A m \in Events : m # n => delivery'[m] = delivery[m]
      /\ delivery' \in [Events -> {"none", "queued", "dropped", "pulled",
                                   "started", "sending", "over"}]
  BY <1>t, <1>3, OneReaches
<1>5. WebhooksTypeOK'
  BY <1>t, <1>1, <1>3, <1>4 DEF WebhooksTypeOK, Events
<1>6. Busy' = Busy
  BY <1>4 DEF Busy
<1>7. PermitsBalance'
  BY <1>t, <1>3, <1>6 DEF PermitsBalance
<1>8. RecordedAtEnd'
  BY <1>t, <1>3, <1>4 DEF RecordedAtEnd
<1>9. InOrder'
  <2>1. ASSUME NEW i \in 1..Len(dispatch'), NEW j \in 1..Len(dispatch'), i < j
        PROVE  dispatch'[i] < dispatch'[j]
    <3>1. i + 1 \in 1..Len(dispatch) /\ j + 1 \in 1..Len(dispatch) /\ i + 1 < j + 1
      BY <1>t, <1>1, <2>1
    <3> QED
      BY <1>t, <1>1, <3>1 DEF InOrder
  <2> QED
    BY <2>1 DEF InOrder
<1>10. ASSUME NEW m \in Events PROVE InDispatch(m)' <=> InDispatch(m) /\ m # n
  <2>1. ASSUME NEW i \in 1..Len(dispatch'), dispatch'[i] = m
        PROVE  InDispatch(m) /\ m # n
    <3>1. i + 1 \in 1..Len(dispatch) /\ 1 \in 1..Len(dispatch) /\ 1 < i + 1
      BY <1>t, <1>1, <2>1
    <3>2. dispatch[i + 1] = m /\ dispatch[1] < dispatch[i + 1]
      BY <1>t, <1>1, <2>1, <3>1 DEF InOrder
    <3>3. m # n
      BY <1>1, <1>2, <3>2 DEF Events
    <3> QED
      BY <3>1, <3>2, <3>3 DEF InDispatch
  <2>2. ASSUME NEW i \in 1..Len(dispatch), dispatch[i] = m, m # n
        PROVE  InDispatch(m)'
    <3>1. i # 1
      BY <1>1, <1>2, <2>2
    <3>2. i - 1 \in 1..Len(dispatch') /\ (i - 1) + 1 = i
      BY <1>t, <1>1, <3>1
    <3>3. dispatch'[i - 1] = dispatch[i]
      BY <1>1, <3>2
    <3> QED
      BY <2>2, <3>2, <3>3 DEF InDispatch
  <2> QED
    BY <2>1, <2>2 DEF InDispatch
<1>11. ASSUME NEW m \in Events
       PROVE  /\ delivery'[m] = "none" <=> m > fired'
              /\ delivery'[m] = "queued" <=> InDispatch(m)'
              /\ delivery'[m] = "pulled" <=> pulled' = m
  <2>1. /\ delivery[m] = "none" <=> m > fired
        /\ delivery[m] = "queued" <=> InDispatch(m)
        /\ delivery[m] = "pulled" <=> pulled = m
        /\ m # 0
    BY <1>t DEF HeldOnce, Events
  <2>2. CASE m = n
    BY <1>3, <1>4, <1>10, <2>1, <2>2
  <2>3. CASE m # n
    BY <1>t, <1>3, <1>4, <1>10, <2>1, <2>3
  <2> QED
    BY <2>2, <2>3
<1>12. HeldOnce'
  BY <1>11 DEF HeldOnce
<1> QED
  BY <1>5, <1>7, <1>8, <1>9, <1>12 DEF DispatchInv

(* A permit and the event in hand go to a task.                            *)
LEMMA SpawnStep == DispatchInv /\ SpawnDelivery => DispatchInv'
<1> SUFFICES ASSUME DispatchInv, SpawnDelivery PROVE DispatchInv'
  OBVIOUS
<1> USE WebhookAssumption
<1>t. /\ WebhooksTypeOK /\ PermitsBalance /\ InOrder /\ HeldOnce /\ RecordedAtEnd
      /\ pulled \in Events /\ permits > 0 /\ permits \in Nat
  BY DEF DispatchInv, WebhooksTypeOK, SpawnDelivery, Events
<1>2. PICK n \in Events : n = pulled
  BY <1>t
<1>3. /\ pulled' = 0 /\ permits' = permits - 1 /\ Reaches(n, "pulled", "started")
      /\ n # 0 /\ UNCHANGED <<fired, dispatch, untold, audits>>
  BY <1>2 DEF SpawnDelivery, Events
<1>4. /\ delivery[n] = "pulled" /\ delivery'[n] = "started"
      /\ \A m \in Events : m # n => delivery'[m] = delivery[m]
      /\ delivery' \in [Events -> {"none", "queued", "dropped", "pulled",
                                   "started", "sending", "over"}]
  BY <1>t, <1>3, OneReaches
<1>5. WebhooksTypeOK'
  BY <1>t, <1>3, <1>4 DEF WebhooksTypeOK
<1>6. Busy' = Busy \cup {n} /\ n \notin Busy
  BY <1>4 DEF Busy
<1>7. Cardinality(Busy') = Cardinality(Busy) + 1
  BY <1>6, BusyFinite, FS_AddElement
<1>8. PermitsBalance'
  BY <1>t, <1>3, <1>7, BusyFinite DEF PermitsBalance
<1>9. RecordedAtEnd' /\ InOrder'
  BY <1>t, <1>3, <1>4 DEF RecordedAtEnd, InOrder
<1>10. HeldOnce'
  <2>1. ASSUME NEW m \in Events
        PROVE  /\ delivery'[m] = "none" <=> m > fired'
               /\ delivery'[m] = "queued" <=> InDispatch(m)'
               /\ delivery'[m] = "pulled" <=> pulled' = m
    <3>1. /\ delivery[m] = "none" <=> m > fired
          /\ delivery[m] = "queued" <=> InDispatch(m)
          /\ delivery[m] = "pulled" <=> pulled = m
          /\ InDispatch(m)' <=> InDispatch(m)
          /\ m # 0
      BY <1>t, <1>3 DEF HeldOnce, InDispatch, Events
    <3>2. CASE m = n
      BY <1>3, <1>4, <3>1, <3>2
    <3>3. CASE m # n
      BY <1>2, <1>3, <1>4, <3>1, <3>3
    <3> QED
      BY <3>2, <3>3
  <2> QED
    BY <2>1 DEF HeldOnce
<1> QED
  BY <1>5, <1>8, <1>9, <1>10 DEF DispatchInv

(* What a task does is not about the channel.                              *)
LEMMA ChannelUntouched ==
  ASSUME DispatchInv, NEW n \in Events, NEW from, NEW to,
         Reaches(n, from, to), from \in {"dropped", "started", "sending"},
         to \in {"started", "sending", "over"},
         UNCHANGED <<fired, dispatch, pulled>>
  PROVE  InOrder' /\ HeldOnce'
<1>1. WebhooksTypeOK /\ InOrder /\ HeldOnce
  BY DEF DispatchInv
<1>2. /\ delivery[n] = from /\ delivery'[n] = to
      /\ \A m \in Events : m # n => delivery'[m] = delivery[m]
  BY <1>1, OneReaches
<1>3. ASSUME NEW m \in Events, NEW at \in {"none", "queued", "pulled"}
      PROVE  delivery'[m] = at <=> delivery[m] = at
  BY <1>2
<1>4. \A m \in Events : InDispatch(m)' <=> InDispatch(m)
  BY DEF InDispatch
<1> QED
  BY <1>1, <1>3, <1>4 DEF InOrder, HeldOnce

(* A task gives its permit back.                                           *)
LEMMA PermitBack ==
  ASSUME DispatchInv, NEW n \in Busy, Busy' = Busy \ {n}, permits' = permits + 1
  PROVE  PermitsBalance' /\ permits' \in 0..MaxDeliveries
<1>1. permits \in 0..MaxDeliveries /\ permits = MaxDeliveries - Cardinality(Busy)
      /\ MaxDeliveries \in Nat
  BY WebhookAssumption DEF DispatchInv, WebhooksTypeOK, PermitsBalance
<1>2. Cardinality(Busy') = Cardinality(Busy) - 1
  BY BusyFinite, FS_RemoveElement
<1>3. Cardinality(Busy') \in Nat
  BY BusyFinite DEF Busy
<1> QED
  BY <1>1, <1>2, <1>3, BusyFinite DEF PermitsBalance

(* A task gets on, and gives its permit back at its end.                   *)
LEMMA TaskStep ==
  ASSUME DispatchInv, NEW n \in Events, DeliveryStep(n)
  PROVE  DispatchInv'
<1> USE WebhookAssumption
<1>t. /\ WebhooksTypeOK /\ PermitsBalance /\ InOrder /\ HeldOnce /\ RecordedAtEnd
      /\ untold \in [Events -> SUBSET Sinks]
      /\ audits \in [Events -> SUBSET (Sinks \cup {"dropped", "client"})]
  BY DEF DispatchInv, WebhooksTypeOK
<1>1. CASE RecordDrop(n)
  <2>1. /\ Reaches(n, "dropped", "over") /\ Audit(n, "dropped")
        /\ UNCHANGED <<fired, dispatch, pulled, permits, untold>>
    BY <1>1 DEF RecordDrop
  <2>2. /\ delivery[n] = "dropped" /\ delivery'[n] = "over"
        /\ \A m \in Events : m # n => delivery'[m] = delivery[m]
        /\ delivery' \in [Events -> {"none", "queued", "dropped", "pulled",
                                     "started", "sending", "over"}]
    BY <1>t, <2>1, OneReaches
  <2>3. /\ audits[n] = {} /\ audits'[n] = {"dropped"}
        /\ \A m \in Events : m # n => audits'[m] = audits[m]
        /\ audits' \in [Events -> SUBSET (Sinks \cup {"dropped", "client"})]
    BY <1>t, <2>1, <2>2 DEF Audit, RecordedAtEnd
  <2>4. Busy' = Busy
    BY <2>2 DEF Busy
  <2>5. WebhooksTypeOK' /\ PermitsBalance'
    BY <1>t, <2>1, <2>2, <2>3, <2>4 DEF WebhooksTypeOK, PermitsBalance
  <2>6. RecordedAtEnd'
    BY <1>t, <2>1, <2>2, <2>3 DEF RecordedAtEnd
  <2>7. InOrder' /\ HeldOnce'
    BY <2>1, ChannelUntouched
  <2> QED
    BY <2>5, <2>6, <2>7 DEF DispatchInv
<1>2. CASE FailClient(n)
  <2>1. /\ Reaches(n, "started", "over") /\ Audit(n, "client")
        /\ permits' = permits + 1
        /\ UNCHANGED <<fired, dispatch, pulled, untold>>
    BY <1>2 DEF FailClient
  <2>2. /\ delivery[n] = "started" /\ delivery'[n] = "over"
        /\ \A m \in Events : m # n => delivery'[m] = delivery[m]
        /\ delivery' \in [Events -> {"none", "queued", "dropped", "pulled",
                                     "started", "sending", "over"}]
    BY <1>t, <2>1, OneReaches
  <2>3. /\ audits[n] = {} /\ audits'[n] = {"client"}
        /\ \A m \in Events : m # n => audits'[m] = audits[m]
        /\ audits' \in [Events -> SUBSET (Sinks \cup {"dropped", "client"})]
    BY <1>t, <2>1, <2>2 DEF Audit, RecordedAtEnd
  <2>4. n \in Busy /\ Busy' = Busy \ {n}
    BY <2>2 DEF Busy
  <2>5. PermitsBalance' /\ permits' \in 0..MaxDeliveries
    BY <2>1, <2>4, PermitBack
  <2>6. WebhooksTypeOK'
    BY <1>t, <2>1, <2>2, <2>3, <2>5 DEF WebhooksTypeOK
  <2>7. RecordedAtEnd'
    BY <1>t, <2>1, <2>2, <2>3 DEF RecordedAtEnd
  <2>8. InOrder' /\ HeldOnce'
    BY <2>1, ChannelUntouched
  <2> QED
    BY <2>5, <2>6, <2>7, <2>8 DEF DispatchInv
<1>3. CASE SpawnSinks(n)
  <2>1. /\ Reaches(n, "started", "sending")
        /\ untold' = [untold EXCEPT ![n] = Sinks]
        /\ UNCHANGED <<fired, dispatch, pulled, permits, audits>>
    BY <1>3 DEF SpawnSinks
  <2>2. /\ delivery[n] = "started" /\ delivery'[n] = "sending"
        /\ \A m \in Events : m # n => delivery'[m] = delivery[m]
        /\ delivery' \in [Events -> {"none", "queued", "dropped", "pulled",
                                     "started", "sending", "over"}]
    BY <1>t, <2>1, OneReaches
  <2>3. Busy' = Busy
    BY <2>2 DEF Busy
  <2>4. WebhooksTypeOK' /\ PermitsBalance'
    BY <1>t, <2>1, <2>2, <2>3 DEF WebhooksTypeOK, PermitsBalance
  <2>5. RecordedAtEnd'
    BY <1>t, <2>1, <2>2 DEF RecordedAtEnd
  <2>6. InOrder' /\ HeldOnce'
    BY <2>1, ChannelUntouched
  <2> QED
    BY <2>4, <2>5, <2>6 DEF DispatchInv
<1>4. CASE EndDelivery(n)
  <2>1. /\ untold[n] = {} /\ Reaches(n, "sending", "over")
        /\ permits' = permits + 1
        /\ UNCHANGED <<fired, dispatch, pulled, untold, audits>>
    BY <1>4 DEF EndDelivery
  <2>2. /\ delivery[n] = "sending" /\ delivery'[n] = "over"
        /\ \A m \in Events : m # n => delivery'[m] = delivery[m]
        /\ delivery' \in [Events -> {"none", "queued", "dropped", "pulled",
                                     "started", "sending", "over"}]
    BY <1>t, <2>1, OneReaches
  <2>3. n \in Busy /\ Busy' = Busy \ {n}
    BY <2>2 DEF Busy
  <2>4. PermitsBalance' /\ permits' \in 0..MaxDeliveries
    BY <2>1, <2>3, PermitBack
  <2>5. WebhooksTypeOK'
    BY <1>t, <2>1, <2>2, <2>4 DEF WebhooksTypeOK
  <2>6. audits[n] = Sinks
    <3>1. audits[n] = Sinks \ untold[n] /\ untold[n] = {}
      BY <1>t, <2>1, <2>2 DEF RecordedAtEnd
    <3> QED
      BY <3>1
  <2>7. RecordedAtEnd'
    BY <1>t, <2>1, <2>2, <2>6 DEF RecordedAtEnd
  <2>8. InOrder' /\ HeldOnce'
    BY <2>1, ChannelUntouched
  <2> QED
    BY <2>4, <2>5, <2>7, <2>8 DEF DispatchInv
<1>5. ASSUME NEW s \in Sinks, DeliverTo(n, s) PROVE DispatchInv'
  <2>1. /\ delivery[n] = "sending" /\ s \in untold[n]
        /\ untold' = [untold EXCEPT ![n] = @ \ {s}] /\ Audit(n, s)
        /\ UNCHANGED <<fired, dispatch, pulled, permits, delivery>>
    BY <1>5 DEF DeliverTo
  <2>2. /\ audits' \in [Events -> SUBSET (Sinks \cup {"dropped", "client"})]
        /\ audits'[n] = audits[n] \cup {s} /\ untold'[n] = untold[n] \ {s}
        /\ \A m \in Events : m # n =>
             audits'[m] = audits[m] /\ untold'[m] = untold[m]
        /\ untold' \in [Events -> SUBSET Sinks]
    BY <1>t, <2>1 DEF Audit
  <2>3. Busy' = Busy
    BY <2>1 DEF Busy
  <2>4. WebhooksTypeOK' /\ PermitsBalance'
    BY <1>t, <2>1, <2>2, <2>3 DEF WebhooksTypeOK, PermitsBalance
  <2>5. RecordedAtEnd'
    <3>1. audits[n] = Sinks \ untold[n]
      BY <1>t, <2>1 DEF RecordedAtEnd
    <3>2. audits'[n] = Sinks \ untold'[n]
      BY <2>2, <3>1
    <3> QED
      BY <1>t, <2>1, <2>2, <3>2 DEF RecordedAtEnd
  <2>6. InOrder' /\ HeldOnce'
    BY <1>t, <2>1 DEF InOrder, HeldOnce, InDispatch
  <2> QED
    BY <2>4, <2>5, <2>6 DEF DispatchInv
<1> QED
  BY <1>1, <1>2, <1>3, <1>4, <1>5 DEF DeliveryStep

(* Every step keeps the invariant.                                         *)
LEMMA WebhooksStep == DispatchInv /\ [WebhooksNext]_webhookVars => DispatchInv'
<1> SUFFICES ASSUME DispatchInv, [WebhooksNext]_webhookVars PROVE DispatchInv'
  OBVIOUS
<1>1. CASE UNCHANGED webhookVars
  BY <1>1 DEF webhookVars, DispatchInv, WebhooksTypeOK, PermitsBalance, Busy,
     InOrder, HeldOnce, InDispatch, RecordedAtEnd
<1> QED
  BY <1>1, FireStep, PullStep, SpawnStep, TaskStep DEF WebhooksNext

(* WebhooksTypeOK: the variables keep their types; in particular there are *)
(* never fewer permits than none or more than MAX_CONCURRENT_DELIVERIES.   *)
THEOREM WebhooksTypeCorrect == WebhooksSpec => []WebhooksTypeOK
<1>1. DispatchInv => WebhooksTypeOK
  BY DEF DispatchInv
<1> QED
  BY WebhooksInitInv, WebhooksStep, <1>1, PTL DEF WebhooksSpec

(* RecordedAtEnd: an event that is over has a row for each sink or one     *)
(* that says why there is none, and before that the rows of the sinks that *)
(* are finished with; what EventsAreRecorded adds is that every event      *)
(* comes to that end.                                                      *)
THEOREM NothingEndsUnrecorded == WebhooksSpec => []RecordedAtEnd
<1>1. DispatchInv => RecordedAtEnd
  BY DEF DispatchInv
<1> QED
  BY WebhooksInitInv, WebhooksStep, <1>1, PTL DEF WebhooksSpec

(* HeldOnce: an event in flight is in the channel, in the dispatcher's     *)
(* hands or with its own task, never in two of these and never in none.    *)
THEOREM EventsAreHeldOnce == WebhooksSpec => []HeldOnce
<1>1. DispatchInv => HeldOnce
  BY DEF DispatchInv
<1> QED
  BY WebhooksInitInv, WebhooksStep, <1>1, PTL DEF WebhooksSpec

-----------------------------------------------------------------------------
(* Both tasks, as BackgroundMC has them.                                   *)

(* BackgroundTypeOK: whichever of the two a behaviour is of, the variables *)
(* of both keep their types.                                               *)
THEOREM BackgroundTypeCorrect == BackgroundSpec => []BackgroundTypeOK
<1> DEFINE Inv == BackupsInv /\ DispatchInv
<1>1. BackgroundInit => Inv
  BY BackupsInitInv, WebhooksInitInv DEF BackgroundInit
<1>2. Inv /\ [BackgroundNext]_vars => Inv'
  <2>1. [BackgroundNext]_vars =>
          [BackupsNext]_backupVars /\ [WebhooksNext]_webhookVars
    BY DEF BackgroundNext, OneJobPart, RoundsPart, WebhooksPart, vars,
           backupVars, webhookVars
  <2> QED
    BY <2>1, BackupsStep, WebhooksStep
<1>3. Inv => BackgroundTypeOK
  BY DEF BackupsInv, Types, DispatchInv, BackgroundTypeOK
<1> HIDE DEF Inv
<1> QED
  BY <1>1, <1>2, <1>3, PTL DEF BackgroundSpec
=============================================================================
