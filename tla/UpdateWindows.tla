--------------------------- MODULE UpdateWindows ---------------------------
(***************************************************************************)
(* Update windows (src/src/update_windows.rs): a row per agent in the      *)
(* database, the scheduler that asks the agents that are due for a package *)
(* upgrade, the button that asks at once, and the agent socket             *)
(* (src/src/main.rs, handle_agent_socket) that records the results.        *)
(*                                                                         *)
(* A response does not say who asked for the upgrade.  A flag per agent in *)
(* AppState.scheduled_apt_runs says that the next one is the window's; UI  *)
(* sockets and fan-out runs ask for upgrades too and set no flag.          *)
(***************************************************************************)
EXTENDS AgentRegistry, Integers

CONSTANT NoAgent    \* no agent is being dealt with

ASSUME WindowsAssumption == NoAgent \notin Agents

VARIABLES
  window,      \* update_windows: the row of each agent
  windowDue,   \* agents with a cron tick since their last_run_at
  scheduled,   \* AppState.scheduled_apt_runs: the flags
  ticker,      \* the task of spawn_scheduler
  runNow,      \* a call of run_now_handler
  upgrades,    \* upgrades each socket has yet to answer, by who asked
  responding,  \* each socket's handling of a response
  dangling     \* history: flags that were left without a request

upgradeVars == <<upgrades, responding, dangling>>
windowVars ==
  <<agents, link, window, windowDue, scheduled, ticker, runNow, upgradeVars>>

Askers == {"window", "run_now", "other"}

NoRow  == [kept |-> FALSE, enabled |-> FALSE, ran |-> FALSE]
Idle   == [at |-> "idle", for |-> NoAgent, tx |-> NoConn]
AtRows == [at |-> "rows", for |-> NoAgent, tx |-> NoConn]
Silent == [at |-> "idle", from |-> "other"]

WindowsInit ==
  /\ RegistryInit
  /\ window = [a \in Agents |-> NoRow]
  /\ windowDue = {} /\ scheduled = {}
  /\ ticker = [task |-> Idle, todo |-> {}]
  /\ runNow = Idle
  /\ upgrades = [c \in Conns |-> {}]
  /\ responding = [c \in Conns |-> Silent]
  /\ dangling = {}

Asking(a, o) == \E c \in SocketsOf(a) : o \in upgrades[c]

(* A request of o is in c's channel; a socket that is gone loses it.       *)
Ask(c, o) ==
  /\ upgrades' = IF link[c] = "live" THEN [upgrades EXCEPT ![c] = @ \cup {o}]
                 ELSE upgrades
  /\ dangling' = IF link[c] = "live" THEN dangling
                 ELSE dangling \cup {HostOf[c]}

ClearFlag(a) == scheduled' = scheduled \ {a} /\ dangling' = dangling \ {a}

(* record_update_window_result.  What the row says of the outcome is not   *)
(* modelled, only that it has a last_run_at from now on, and that it is    *)
(* now.                                                                    *)
RecordWindow(a) ==
  /\ window' = [window EXCEPT ![a].ran = @ \/ window[a].kept]
  /\ windowDue' = windowDue \ {a}

-----------------------------------------------------------------------------
(* The operator.                                                           *)

(* An upsert keeps the results of the row; a window that has never run     *)
(* takes updated_at for its last run.                                      *)
UpsertWindow(a, enabled) ==
  /\ window' = [window EXCEPT ![a].kept = TRUE, ![a].enabled = enabled]
  /\ windowDue' = IF window[a].ran THEN windowDue ELSE windowDue \ {a}
  /\ UNCHANGED <<registry, scheduled, ticker, runNow, upgradeVars>>

DeleteWindow(a) ==
  /\ window[a].kept
  /\ window' = [window EXCEPT ![a] = NoRow]
  /\ windowDue' = windowDue \ {a}
  /\ UNCHANGED <<registry, scheduled, ticker, runNow, upgradeVars>>

-----------------------------------------------------------------------------
(* The scheduler and the button.                                           *)

(* A tick of the cron expression passes.  Bound: one scheduled upgrade of  *)
(* an agent is under way at a time.                                        *)
WindowTick(a) ==
  /\ window[a].kept /\ ticker.task.for # a /\ ~Asking(a, "window")
  /\ windowDue' = windowDue \cup {a}
  /\ UNCHANGED <<registry, window, scheduled, ticker, runNow, upgradeVars>>

ReadWindows ==
  /\ ticker.task.at = "idle"
  /\ ticker' = [task |-> AtRows,
                todo |-> {a \in windowDue : window[a].enabled}]
  /\ UNCHANGED <<registry, window, windowDue, scheduled, runNow, upgradeVars>>

DeferWindow(a) ==
  /\ ticker.task.at = "rows" /\ a \in ticker.todo
  /\ agents[a] = NoConn
  /\ ticker' = [ticker EXCEPT !.todo = @ \ {a}]
  /\ UNCHANGED <<registry, window, windowDue, scheduled, runNow, upgradeVars>>

TakeWindow(a) ==
  /\ ticker.task.at = "rows" /\ a \in ticker.todo
  /\ agents[a] # NoConn
  /\ ticker' = [task |-> [at |-> "record", for |-> a, tx |-> agents[a]],
                todo |-> ticker.todo \ {a}]
  /\ UNCHANGED <<registry, window, windowDue, scheduled, runNow, upgradeVars>>

RecordFire ==
  /\ ticker.task.at = "record"
  /\ RecordWindow(ticker.task.for)
  /\ ticker' = [ticker EXCEPT !.task.at = "flag"]
  /\ UNCHANGED <<registry, scheduled, runNow, upgradeVars>>

FlagWindow ==
  /\ ticker.task.at = "flag"
  /\ scheduled' = scheduled \cup {ticker.task.for}
  /\ ticker' = [ticker EXCEPT !.task.at = "send"]
  /\ UNCHANGED <<registry, window, windowDue, runNow, upgradeVars>>

SendWindow ==
  /\ ticker.task.at = "send"
  /\ Ask(ticker.task.tx, "window")
  /\ ticker' = [ticker EXCEPT !.task = AtRows]
  /\ UNCHANGED <<registry, window, windowDue, scheduled, runNow, responding>>

(* The channel is closed: the flag goes, the row stays at "running".       *)
FailWindow ==
  /\ ticker.task.at = "send"
  /\ ClearFlag(ticker.task.for)
  /\ ticker' = [ticker EXCEPT !.task = AtRows]
  /\ UNCHANGED <<registry, window, windowDue, runNow, upgrades, responding>>

EndOfWindows ==
  /\ ticker.task.at = "rows" /\ ticker.todo = {}
  /\ ticker' = [ticker EXCEPT !.task = Idle]
  /\ UNCHANGED <<registry, window, windowDue, scheduled, runNow, upgradeVars>>

(* run_now_handler asks for no window.  Bound: one such request of an      *)
(* agent is under way at a time.                                           *)
StartRunNow(a) ==
  /\ runNow.at = "idle" /\ ~Asking(a, "run_now")
  /\ agents[a] # NoConn
  /\ runNow' = [at |-> "flag", for |-> a, tx |-> agents[a]]
  /\ UNCHANGED <<registry, window, windowDue, scheduled, ticker, upgradeVars>>

FlagRunNow ==
  /\ runNow.at = "flag"
  /\ scheduled' = scheduled \cup {runNow.for}
  /\ runNow' = [runNow EXCEPT !.at = "send"]
  /\ UNCHANGED <<registry, window, windowDue, ticker, upgradeVars>>

SendNow ==
  /\ runNow.at = "send"
  /\ Ask(runNow.tx, "run_now")
  /\ runNow' = Idle
  /\ UNCHANGED <<registry, window, windowDue, scheduled, ticker, responding>>

(* Mutant: the flag of a request that was not sent stays.                  *)
FailNowFlagged ==
  /\ runNow.at = "send"
  /\ runNow' = Idle
  /\ UNCHANGED <<registry, window, windowDue, scheduled, ticker, upgradeVars>>

FailNow ==
  /\ runNow.at = "send"
  /\ ClearFlag(runNow.for)
  /\ runNow' = Idle
  /\ UNCHANGED <<registry, window, windowDue, ticker, upgrades, responding>>

(* The client hangs up while the handler waits for a lock: to set the      *)
(* flag, or to clear it after a failed send.                               *)
HangUpNow ==
  /\ runNow.at # "idle"
  /\ dangling' = IF runNow.at = "send" THEN dangling \cup {runNow.for}
                 ELSE dangling
  /\ runNow' = Idle
  /\ UNCHANGED <<registry, window, windowDue, scheduled, ticker, upgrades,
                 responding>>

-----------------------------------------------------------------------------
(* The agent's sockets.                                                    *)

(* A UI socket or a fan-out run asks the agent.  Bound: one such request   *)
(* of an agent is under way at a time.                                     *)
OtherUpgrade(a) ==
  /\ agents[a] # NoConn /\ ~Asking(a, "other")
  /\ upgrades' = [upgrades EXCEPT ![agents[a]] = @ \cup {"other"}]
  /\ UNCHANGED <<registry, window, windowDue, scheduled, ticker, runNow,
                 responding, dangling>>

(* An AptUpgradeResponse arrives, and comes to the flag.                   *)
RespondUpgrade(c, o) ==
  /\ link[c] = "live" /\ responding[c].at = "idle" /\ o \in upgrades[c]
  /\ upgrades' = [upgrades EXCEPT ![c] = @ \ {o}]
  /\ responding' = [responding EXCEPT ![c] = [at |-> "flag", from |-> o]]
  /\ UNCHANGED <<registry, window, windowDue, scheduled, ticker, runNow,
                 dangling>>

(* The flag is taken, or it is not set and the response is done with.      *)
TakeFlag(c) ==
  LET a == HostOf[c] IN
  /\ responding[c].at = "flag"
  /\ ClearFlag(a)
  /\ responding' = [responding EXCEPT
       ![c] = IF a \in scheduled THEN [@ EXCEPT !.at = "record"] ELSE Silent]
  /\ UNCHANGED <<registry, window, windowDue, ticker, runNow, upgrades>>

RecordResult(c) ==
  /\ responding[c].at = "record"
  /\ RecordWindow(HostOf[c])
  /\ responding' = [responding EXCEPT ![c] = Silent]
  /\ UNCHANGED <<registry, scheduled, ticker, runNow, upgrades, dangling>>

WindowsConnect(c) ==
  /\ Insert(c)
  /\ UNCHANGED <<window, windowDue, scheduled, ticker, runNow, upgradeVars>>

(* The socket's loop has ended, in between two messages, and what it has   *)
(* not answered is lost.                                                   *)
WindowsDisconnect(c) ==
  /\ Skip(c) \/ Remove(c)
  /\ responding[c].at = "idle"
  /\ upgrades' = [upgrades EXCEPT ![c] = {}]
  /\ dangling' = IF upgrades[c] \cap {"window", "run_now"} = {} THEN dangling
                 ELSE dangling \cup {HostOf[c]}
  /\ UNCHANGED <<window, windowDue, scheduled, ticker, runNow, responding>>

WindowsTearDown(c) ==
  /\ Release(c)
  /\ UNCHANGED <<window, windowDue, scheduled, ticker, runNow, upgradeVars>>

-----------------------------------------------------------------------------
TickerStep ==
  \/ ReadWindows \/ RecordFire \/ FlagWindow \/ SendWindow \/ FailWindow
  \/ EndOfWindows
  \/ \E a \in Agents : DeferWindow(a) \/ TakeWindow(a)

ButtonStep ==
  \/ FlagRunNow \/ SendNow \/ FailNow \/ HangUpNow
  \/ \E a \in Agents : StartRunNow(a)

WindowsNext ==
  \/ TickerStep \/ ButtonStep
  \/ \E a \in Agents :
       \/ \E b \in BOOLEAN : UpsertWindow(a, b)
       \/ DeleteWindow(a) \/ WindowTick(a) \/ OtherUpgrade(a)
  \/ \E c \in Conns :
       \/ WindowsConnect(c) \/ WindowsDisconnect(c) \/ WindowsTearDown(c)
       \/ TakeFlag(c) \/ RecordResult(c)
       \/ \E o \in Askers : RespondUpgrade(c, o)

WindowsSpec == WindowsInit /\ [][WindowsNext]_windowVars

-----------------------------------------------------------------------------
(* Properties.                                                             *)

(* Every variable has its type.                                            *)
WindowsTypeOK ==
  /\ RegistryTypeOK
  /\ window \in [Agents -> [kept : BOOLEAN, enabled : BOOLEAN, ran : BOOLEAN]]
  /\ windowDue \subseteq Agents /\ scheduled \subseteq Agents
  /\ dangling \subseteq Agents
  /\ ticker \in
       [task : [at : {"idle", "rows", "record", "flag", "send"},
                for : Agents \cup {NoAgent}, tx : Conns \cup {NoConn}],
        todo : SUBSET Agents]
  /\ runNow \in [at : {"idle", "flag", "send"}, for : Agents \cup {NoAgent},
                 tx : Conns \cup {NoConn}]
  /\ upgrades \in [Conns -> SUBSET Askers]
  /\ responding \in [Conns -> [at : {"idle", "flag", "record"}, from : Askers]]

(* A flag in scheduled_apt_runs stands for a scheduled or run-now request  *)
(* that is being sent or has not been answered: the response of somebody   *)
(* else's upgrade is not recorded in the window when there is none, unless *)
(* the flag's own request was lost with a socket, or the client hung up    *)
(* before run_now_handler could clear the flag.                            *)
FlagHasRequest ==
  \A a \in scheduled :
    \/ ticker.task.at = "send" /\ ticker.task.for = a
    \/ runNow.at = "send" /\ runNow.for = a
    \/ Asking(a, "window") \/ Asking(a, "run_now")
    \/ \E c \in SocketsOf(a) :
         responding[c].at = "flag" /\ responding[c].from # "other"
    \/ a \in dangling
=============================================================================
