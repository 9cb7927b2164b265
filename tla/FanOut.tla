------------------------------ MODULE FanOut ------------------------------
(***************************************************************************)
(* Fan-out runs (src/src/fan_out.rs): one request sent to several agents,  *)
(* with a row per agent that is pending until a response comes.            *)
(*                                                                         *)
(* A response does not say which request it answers.  The agent socket     *)
(* (src/src/main.rs, handle_agent_socket) gives it to the oldest row of    *)
(* that agent and kind that is pending, also when it answers a UI socket   *)
(* or an update window.  The module is about the runs of one kind; those   *)
(* of other kinds are never looked at.  Whether the agent succeeded is     *)
(* left out: "answered" stands for both.                                   *)
(***************************************************************************)
EXTENDS AgentRegistry, Integers, FiniteSets

CONSTANTS
  Runs,       \* fan-out runs, each created by a call of create_handler
  Other,      \* whoever else asks the agents for the same
  NoRun,      \* no row has been looked up
  NoTarget     \* no agent is being dealt with

ASSUME RunsAssumption ==
  /\ Runs \cap {Other, NoRun} = {} /\ Other # NoRun
  /\ NoTarget \notin Agents

VARIABLES
  run,         \* how far each call has got
  started,     \* fan_out_runs: started_at, in seconds
  todo,        \* targets a call has not come to
  marking,     \* the target it has marked and not sent to
  result,      \* fan_out_results: the status of each run and agent
  asked,       \* requests each socket has yet to answer, by who asked
  reader,      \* the row each socket's handler has looked up
  stray        \* history: fan-out requests that can close no row any more

runVars == <<run, started, todo, marking, result>>
fanOutVars == <<agents, link, runVars, asked, reader, stray>>

Listening == [row |-> NoRun, from |-> Other]

FanOutInit ==
  /\ RegistryInit
  /\ run = [f \in Runs |-> "idle"]
  /\ started = [f \in Runs |-> 0]
  /\ todo = [f \in Runs |-> {}]
  /\ marking = NoTarget
  /\ result = [f \in Runs |-> [a \in Agents |-> "none"]]
  /\ asked = [c \in Conns |-> {}]
  /\ reader = [c \in Conns |-> Listening]
  /\ stray = [a \in Agents |-> 0]

(* create_handler keeps the registry's lock for its whole loop.            *)
Locked == \E f \in Runs : run[f] = "looping"

-----------------------------------------------------------------------------
(* create_handler.                                                         *)

(* The run's row, in the second of the last one or in a later one.         *)
CreateRun(f, targets) ==
  LET last == CHOOSE n \in {started[g] : g \in Runs} :
                \A g \in Runs : started[g] =< n
  IN
  /\ run[f] = "idle" /\ targets # {}
  /\ run' = [run EXCEPT ![f] = "created"]
  /\ todo' = [todo EXCEPT ![f] = targets]
  /\ \E n \in {last, last + 1} : n > 0 /\ started' = [started EXCEPT ![f] = n]
  /\ UNCHANGED <<registry, marking, result, asked, reader, stray>>

LockAgents(f) ==
  /\ run[f] = "created" /\ ~Locked
  /\ run' = [run EXCEPT ![f] = "looping"]
  /\ UNCHANGED <<registry, started, todo, marking, result, asked, reader,
                 stray>>

SetResult(f, a, status) == result' = [result EXCEPT ![f][a] = status]

MarkPending(f, a) ==
  /\ run[f] = "looping" /\ marking = NoTarget /\ a \in todo[f]
  /\ agents[a] # NoConn
  /\ SetResult(f, a, "pending")
  /\ marking' = a
  /\ todo' = [todo EXCEPT ![f] = @ \ {a}]
  /\ UNCHANGED <<registry, run, started, asked, reader, stray>>

SendRun(f) ==
  /\ run[f] = "looping" /\ marking # NoTarget
  /\ asked' = [asked EXCEPT ![agents[marking]] = @ \cup {f}]
  /\ marking' = NoTarget
  /\ UNCHANGED <<registry, run, started, todo, result, reader, stray>>

(* Mutant: the row of a request that was not sent stays pending.           *)
FailRunQuietly(f) ==
  /\ run[f] = "looping" /\ marking # NoTarget
  /\ marking' = NoTarget
  /\ UNCHANGED <<registry, run, started, todo, result, asked, reader, stray>>

(* The client hangs up, and the handler ends at a write it waits for: the  *)
(* row it has just marked gets no request.                                 *)
HangUpRun(f) ==
  /\ run[f] \in {"created", "looping"}
  /\ run' = [run EXCEPT ![f] = "done"]
  /\ todo' = [todo EXCEPT ![f] = {}]
  /\ IF run[f] = "looping" /\ marking # NoTarget
     THEN stray' = [stray EXCEPT ![marking] = @ + 1] /\ marking' = NoTarget
     ELSE UNCHANGED <<stray, marking>>
  /\ UNCHANGED <<registry, started, result, asked, reader>>

(* The row is stamped, although a response of somebody else's upgrade may  *)
(* have closed it already.                                                 *)
FailRun(f) ==
  /\ run[f] = "looping" /\ marking # NoTarget
  /\ SetResult(f, marking, "failed")
  /\ stray' = IF result[f][marking] = "pending" THEN stray
              ELSE [stray EXCEPT ![marking] = @ + 1]
  /\ marking' = NoTarget
  /\ UNCHANGED <<registry, run, started, todo, asked, reader>>

MarkOffline(f, a) ==
  /\ run[f] = "looping" /\ marking = NoTarget /\ a \in todo[f]
  /\ agents[a] = NoConn
  /\ SetResult(f, a, "offline")
  /\ todo' = [todo EXCEPT ![f] = @ \ {a}]
  /\ UNCHANGED <<registry, run, started, marking, asked, reader, stray>>

UnlockAgents(f) ==
  /\ run[f] = "looping" /\ marking = NoTarget /\ todo[f] = {}
  /\ run' = [run EXCEPT ![f] = "done"]
  /\ UNCHANGED <<registry, started, todo, marking, result, asked, reader,
                 stray>>

-----------------------------------------------------------------------------
(* The agent's sockets.                                                    *)

(* A UI socket or an update window asks the agent.  Bound: one such        *)
(* request is under way on a socket at a time.                             *)
OtherRequest(a) ==
  /\ ~Locked /\ agents[a] # NoConn
  /\ asked' = [asked EXCEPT ![agents[a]] = @ \cup {Other}]
  /\ UNCHANGED <<registry, runVars, reader, stray>>

PendingRuns(a) == {f \in Runs : result[f][a] = "pending"}

(* pending_fan_out_for_agent: of two in the same second, either.           *)
Oldest(a, f) ==
  /\ f \in PendingRuns(a)
  /\ \A g \in PendingRuns(a) : started[f] =< started[g]

(* A response arrives, and a pending row is looked up for it.              *)
LookUpRow(c, o) ==
  /\ link[c] = "live" /\ reader[c].row = NoRun /\ o \in asked[c]
  /\ asked' = [asked EXCEPT ![c] = @ \ {o}]
  /\ \/ /\ PendingRuns(HostOf[c]) = {}
        /\ UNCHANGED reader
     \/ \E f \in Runs : Oldest(HostOf[c], f) /\
          reader' = [reader EXCEPT ![c] = [row |-> f, from |-> o]]
  /\ UNCHANGED <<registry, runVars, stray>>

(* The row is stamped, whatever it says by now: another socket's response  *)
(* may have been given it too.                                             *)
StampRow(c) ==
  LET a == HostOf[c]
      r == reader[c]
  IN
  /\ r.row # NoRun
  /\ SetResult(r.row, a, "answered")
  /\ stray' = IF r.from # Other /\ result[r.row][a] # "pending"
              THEN [stray EXCEPT ![a] = @ + 1] ELSE stray
  /\ reader' = [reader EXCEPT ![c] = Listening]
  /\ UNCHANGED <<registry, run, started, todo, marking, asked>>

FanOutConnect(c) ==
  /\ Insert(c) /\ ~Locked
  /\ UNCHANGED <<runVars, asked, reader, stray>>

(* The socket's loop has ended, in between two messages, and what it has   *)
(* not answered is lost.                                                   *)
FanOutDisconnect(c) ==
  /\ Skip(c) \/ Remove(c)
  /\ ~Locked /\ reader[c].row = NoRun
  /\ asked' = [asked EXCEPT ![c] = {}]
  /\ stray' = [stray EXCEPT ![HostOf[c]] = @ + Cardinality(asked[c] \ {Other})]
  /\ UNCHANGED <<runVars, reader>>

FanOutTearDown(c) ==
  /\ Release(c)
  /\ UNCHANGED <<runVars, asked, reader, stray>>

-----------------------------------------------------------------------------
LoopStep(f) ==
  \/ LockAgents(f) \/ SendRun(f) \/ FailRun(f) \/ UnlockAgents(f)
  \/ HangUpRun(f)
  \/ \E a \in Agents : MarkPending(f, a) \/ MarkOffline(f, a)

FanOutNext ==
  \/ \E f \in Runs : LoopStep(f) \/ \E T \in SUBSET Agents : CreateRun(f, T)
  \/ \E a \in Agents : OtherRequest(a)
  \/ \E c \in Conns :
       \/ FanOutConnect(c) \/ FanOutDisconnect(c) \/ FanOutTearDown(c)
       \/ StampRow(c) \/ \E o \in Runs \cup {Other} : LookUpRow(c, o)

FanOutSpec == FanOutInit /\ [][FanOutNext]_fanOutVars

-----------------------------------------------------------------------------
(* Properties.                                                             *)

(* Every variable has its type.                                            *)
FanOutTypeOK ==
  /\ RegistryTypeOK
  /\ run \in [Runs -> {"idle", "created", "looping", "done"}]
  /\ started \in [Runs -> Nat]
  /\ todo \in [Runs -> SUBSET Agents]
  /\ marking \in Agents \cup {NoTarget}
  /\ result \in [Runs -> [Agents ->
                   {"none", "pending", "answered", "failed", "offline"}]]
  /\ asked \in [Conns -> SUBSET (Runs \cup {Other})]
  /\ reader \in [Conns -> [row : Runs \cup {NoRun}, from : Runs \cup {Other}]]
  /\ stray \in [Agents -> Nat]

(* The requests of fan-out runs that can still close a row of the agent.   *)
Closing(a) ==
  Cardinality({x \in SocketsOf(a) \X Runs :
    x[2] \in asked[x[1]] \/ reader[x[1]].from = x[2]})

(* However responses and runs are mixed up (maybe_attribute_response), an  *)
(* agent never has more pending rows than requests to close them, but for  *)
(* the requests lost with a socket, those a hung-up client kept from being *)
(* sent, those whose send failed after another answer had closed their     *)
(* row, and those whose answer was given a row that another socket's       *)
(* answer had just closed.                                                 *)
NoOrphanPending ==
  \A a \in Agents :
    Cardinality(PendingRuns(a)) =<
      Closing(a) + (IF marking = a THEN 1 ELSE 0) + stray[a]
=============================================================================
