--------------------------- MODULE RequestProofs ----------------------------
(* Proofs about the requests that the server sends to agents and waits to  *)
(* see answered, for any agents, sockets, runs and calls: UpdateWindows,   *)
(* ReplyQueues and FanOut, each with its own view of the registry.         *)
EXTENDS UpdateWindows, FanOut, ReplyQueues, FiniteSetTheorems,
        SequenceTheorems, TLAPS

-----------------------------------------------------------------------------
(* The registry.                                                           *)

(* The registry leads to sockets of the agent.                             *)
LeadsHome == \A a \in Agents : agents[a] # NoConn => HostOf[agents[a]] = a

(* The registry keeps its types.                                           *)
LEMMA RegistryMoves ==
  ASSUME RegistryTypeOK, NEW c \in Conns,
         Insert(c) \/ Skip(c) \/ Remove(c) \/ Release(c)
  PROVE  RegistryTypeOK'
<1> USE RegistryAssumption DEF RegistryTypeOK
<1>1. CASE Insert(c)
  BY <1>1 DEF Insert
<1>2. CASE Skip(c)
  BY <1>2 DEF Skip
<1>3. CASE Remove(c)
  BY <1>3 DEF Remove
<1>4. CASE Release(c)
  BY <1>4 DEF Release
<1> QED
  BY <1>1, <1>2, <1>3, <1>4

(* The registry leads to the agents' own sockets.                          *)
LEMMA HomeMoves ==
  ASSUME RegistryTypeOK, LeadsHome, NEW c \in Conns,
         Insert(c) \/ Skip(c) \/ Remove(c) \/ Release(c)
  PROVE  LeadsHome'
BY RegistryAssumption
   DEF RegistryTypeOK, LeadsHome, Insert, Skip, Remove, Release

-----------------------------------------------------------------------------
(* Update windows.                                                         *)

(* A socket that the registry leads to, or that a request is to be sent    *)
(* to, is one of the agent's.                                              *)
TasksOwnSockets ==
  /\ LeadsHome
  /\ ticker.task.at \in {"record", "flag", "send"} =>
       /\ ticker.task.for \in Agents
       /\ ticker.task.tx \in SocketsOf(ticker.task.for)
  /\ runNow.at # "idle" =>
       runNow.for \in Agents /\ runNow.tx \in SocketsOf(runNow.for)

WindowsInv == WindowsTypeOK /\ TasksOwnSockets /\ FlagHasRequest

(* What stands for a flag.                                                 *)
Sending(a) ==
  \/ ticker.task.at = "send" /\ ticker.task.for = a
  \/ runNow.at = "send" /\ runNow.for = a

Answering(a) ==
  \E c \in SocketsOf(a) :
    responding[c].at = "flag" /\ responding[c].from # "other"

Backed(a) ==
  \/ Sending(a) \/ Asking(a, "window") \/ Asking(a, "run_now")
  \/ Answering(a) \/ a \in dangling

(* FlagHasRequest says that every flag is backed.                          *)
LEMMA FlagsAreBacked == FlagHasRequest <=> \A a \in scheduled : Backed(a)
  BY DEF FlagHasRequest, Backed, Sending, Answering

-----------------------------------------------------------------------------
(* Types.                                                                  *)

(* Initially there is nothing.                                             *)
LEMMA WindowsInitInv == WindowsInit => WindowsInv
  BY RegistryAssumption, WindowsAssumption
     DEF WindowsInit, RegistryInit, WindowsInv, WindowsTypeOK, RegistryTypeOK,
         LeadsHome, TasksOwnSockets, FlagHasRequest, NoRow, Idle, Silent, Askers

(* Recording a window's result keeps the rows' types.                      *)
LEMMA RecordTypes ==
  ASSUME WindowsTypeOK, NEW a \in Agents, RecordWindow(a)
  PROVE  /\ window' \in [Agents -> [kept : BOOLEAN, enabled : BOOLEAN,
                                    ran : BOOLEAN]]
         /\ windowDue' \subseteq Agents
BY DEF WindowsTypeOK, RecordWindow

(* A row that is written has its type, and what is due are agents.         *)
LEMMA UpsertTypes ==
  ASSUME WindowsTypeOK, NEW a \in Agents, NEW b \in BOOLEAN,
         UpsertWindow(a, b)
  PROVE  /\ window' \in [Agents -> [kept : BOOLEAN, enabled : BOOLEAN,
                                    ran : BOOLEAN]]
         /\ windowDue' \subseteq Agents
<1>1. window[a] \in [kept : BOOLEAN, enabled : BOOLEAN, ran : BOOLEAN]
  BY DEF WindowsTypeOK
<1>2. [[window[a] EXCEPT !.kept = TRUE] EXCEPT !.enabled = b]
        \in [kept : BOOLEAN, enabled : BOOLEAN, ran : BOOLEAN]
  BY <1>1
<1> QED
  BY <1>1, <1>2 DEF WindowsTypeOK, UpsertWindow

(* So does asking a socket.                                                *)
LEMMA AskTypes ==
  ASSUME WindowsTypeOK, NEW c \in Conns, NEW o \in Askers, Ask(c, o)
  PROVE  /\ upgrades' \in [Conns -> SUBSET Askers]
         /\ dangling' \subseteq Agents
BY RegistryAssumption DEF WindowsTypeOK, Ask

(* And so does taking a flag.                                              *)
LEMMA TakeFlagTypes ==
  ASSUME WindowsTypeOK, NEW c \in Conns, TakeFlag(c)
  PROVE  responding' \in
           [Conns -> [at : {"idle", "flag", "record"}, from : Askers]]
<1> DEFINE Talks == [at : {"idle", "flag", "record"}, from : Askers]
<1>1. responding[c] \in Talks
  BY DEF WindowsTypeOK
<1>2. [responding[c] EXCEPT !.at = "record"] \in Talks /\ Silent \in Talks
  BY <1>1 DEF Silent, Askers
<1>3. responding' =
        [responding EXCEPT ![c] = [responding[c] EXCEPT !.at = "record"]]
        \/ responding' = [responding EXCEPT ![c] = Silent]
  BY DEF TakeFlag
<1> QED
  BY <1>2, <1>3 DEF WindowsTypeOK

TypesAndTasks == WindowsTypeOK /\ TasksOwnSockets

(* The operator's rows.                                                    *)
LEMMA RowTypes ==
  ASSUME TypesAndTasks, NEW a \in Agents,
         \/ \E b \in BOOLEAN : UpsertWindow(a, b)
         \/ DeleteWindow(a) \/ WindowTick(a) \/ OtherUpgrade(a)
  PROVE  TypesAndTasks'
<1> USE RegistryAssumption DEF TypesAndTasks, WindowsTypeOK, LeadsHome, TasksOwnSockets,
                               RegistryTypeOK, registry, upgradeVars, Askers
<1>1. ASSUME NEW b \in BOOLEAN, UpsertWindow(a, b) PROVE TypesAndTasks'
  BY <1>1, UpsertTypes DEF UpsertWindow
<1>2. CASE DeleteWindow(a)
  BY <1>2 DEF DeleteWindow, NoRow
<1>3. CASE WindowTick(a)
  BY <1>3 DEF WindowTick
<1>4. CASE OtherUpgrade(a)
  BY <1>4 DEF OtherUpgrade
<1> QED
  BY <1>1, <1>2, <1>3, <1>4

(* The scheduler.                                                          *)
LEMMA TickerTypes == TypesAndTasks /\ TickerStep => TypesAndTasks'
<1> SUFFICES ASSUME TypesAndTasks, TickerStep PROVE TypesAndTasks'
  OBVIOUS
<1> USE RegistryAssumption DEF TypesAndTasks, LeadsHome, TasksOwnSockets, registry,
                               upgradeVars, AtRows, Idle, SocketsOf
<1>1. CASE ReadWindows
  BY <1>1 DEF ReadWindows, WindowsTypeOK, RegistryTypeOK
<1>2. CASE RecordFire
  BY <1>2, RecordTypes DEF RecordFire, WindowsTypeOK, RegistryTypeOK
<1>3. CASE FlagWindow
  BY <1>3 DEF FlagWindow, WindowsTypeOK, RegistryTypeOK
<1>4. CASE SendWindow
  BY <1>4, AskTypes DEF SendWindow, WindowsTypeOK, RegistryTypeOK, Askers
<1>5. CASE FailWindow
  BY <1>5 DEF FailWindow, ClearFlag, WindowsTypeOK, RegistryTypeOK
<1>6. CASE EndOfWindows
  BY <1>6 DEF EndOfWindows, WindowsTypeOK, RegistryTypeOK
<1>7. ASSUME NEW a \in Agents, DeferWindow(a) PROVE TypesAndTasks'
  BY <1>7 DEF DeferWindow, WindowsTypeOK, RegistryTypeOK
<1>8. ASSUME NEW a \in Agents, TakeWindow(a) PROVE TypesAndTasks'
  BY <1>8 DEF TakeWindow, WindowsTypeOK, RegistryTypeOK
<1> QED
  BY <1>1, <1>2, <1>3, <1>4, <1>5, <1>6, <1>7, <1>8 DEF TickerStep

(* The button.                                                             *)
LEMMA ButtonTypes == TypesAndTasks /\ ButtonStep => TypesAndTasks'
<1> SUFFICES ASSUME TypesAndTasks, ButtonStep PROVE TypesAndTasks'
  OBVIOUS
<1> USE RegistryAssumption DEF TypesAndTasks, LeadsHome, TasksOwnSockets, registry,
                               upgradeVars, Idle, SocketsOf
<1>1. CASE FlagRunNow
  BY <1>1 DEF FlagRunNow, WindowsTypeOK, RegistryTypeOK
<1>2. CASE SendNow
  BY <1>2, AskTypes DEF SendNow, WindowsTypeOK, RegistryTypeOK, Askers
<1>3. CASE FailNow
  BY <1>3 DEF FailNow, ClearFlag, WindowsTypeOK, RegistryTypeOK
<1>4. CASE HangUpNow
  BY <1>4 DEF HangUpNow, WindowsTypeOK, RegistryTypeOK
<1>5. ASSUME NEW a \in Agents, StartRunNow(a) PROVE TypesAndTasks'
  BY <1>5 DEF StartRunNow, WindowsTypeOK, RegistryTypeOK
<1> QED
  BY <1>1, <1>2, <1>3, <1>4, <1>5 DEF ButtonStep

(* The agents' sockets.                                                    *)
LEMMA SocketTypes ==
  ASSUME TypesAndTasks, NEW c \in Conns,
         \/ WindowsConnect(c) \/ WindowsDisconnect(c) \/ WindowsTearDown(c)
         \/ TakeFlag(c) \/ RecordResult(c)
         \/ \E o \in Askers : RespondUpgrade(c, o)
  PROVE  TypesAndTasks'
<1> USE RegistryAssumption DEF TypesAndTasks, LeadsHome, TasksOwnSockets, registry,
                               upgradeVars, Silent, SocketsOf
<1>1. CASE WindowsConnect(c) \/ WindowsTearDown(c)
  <2>1. RegistryTypeOK' /\ LeadsHome'
    BY <1>1, RegistryMoves, HomeMoves DEF WindowsConnect, WindowsTearDown, WindowsTypeOK
  <2>2. UNCHANGED <<window, windowDue, scheduled, ticker, runNow, upgradeVars>>
    BY <1>1 DEF WindowsConnect, WindowsTearDown
  <2> QED
    BY <2>1, <2>2 DEF WindowsTypeOK
<1>2. CASE WindowsDisconnect(c)
  <2>1. RegistryTypeOK' /\ LeadsHome'
    BY <1>2, RegistryMoves, HomeMoves DEF WindowsDisconnect, WindowsTypeOK
  <2>2. /\ UNCHANGED <<window, windowDue, scheduled, ticker, runNow, responding>>
        /\ upgrades' = [upgrades EXCEPT ![c] = {}]
        /\ dangling' \subseteq Agents
    BY <1>2 DEF WindowsDisconnect, WindowsTypeOK
  <2>3. upgrades' \in [Conns -> SUBSET Askers]
    BY <2>2 DEF WindowsTypeOK
  <2> QED
    BY <2>1, <2>2, <2>3 DEF WindowsTypeOK
<1>3. CASE TakeFlag(c)
  <2>1. responding' \in
          [Conns -> [at : {"idle", "flag", "record"}, from : Askers]]
    BY <1>3, TakeFlagTypes
  <2> QED
    BY <1>3, <2>1 DEF TakeFlag, ClearFlag, WindowsTypeOK, RegistryTypeOK
<1>4. CASE RecordResult(c)
  <2>1. /\ window' \in [Agents -> [kept : BOOLEAN, enabled : BOOLEAN,
                                   ran : BOOLEAN]]
        /\ windowDue' \subseteq Agents
    BY <1>4, RecordTypes DEF RecordResult
  <2> QED
    BY <1>4, <2>1 DEF RecordResult, WindowsTypeOK, RegistryTypeOK, Askers
<1>5. ASSUME NEW o \in Askers, RespondUpgrade(c, o) PROVE TypesAndTasks'
  BY <1>5 DEF RespondUpgrade, WindowsTypeOK, RegistryTypeOK
<1> QED
  BY <1>1, <1>2, <1>3, <1>4, <1>5

(* Every step keeps the types, and what tasks and registry know.           *)
LEMMA TypesStep == TypesAndTasks /\ [WindowsNext]_windowVars => TypesAndTasks'
<1>1. TypesAndTasks /\ UNCHANGED windowVars => TypesAndTasks'
  BY DEF windowVars, upgradeVars, TypesAndTasks, WindowsTypeOK, RegistryTypeOK,
         LeadsHome, TasksOwnSockets
<1> QED
  BY <1>1, RowTypes, TickerTypes, ButtonTypes, SocketTypes DEF WindowsNext

-----------------------------------------------------------------------------
(* Flags.                                                                  *)

(* A step that backs the flags it sets, and takes nothing from the others. *)
LEMMA NothingTaken ==
  ASSUME FlagHasRequest,
         \A a \in scheduled' : Backed(a)' \/ a \in scheduled,
         \A a \in scheduled' : Backed(a) => Backed(a)'
  PROVE  FlagHasRequest'
<1>1. \A a \in scheduled' : Backed(a)'
  BY FlagsAreBacked
<1> QED
  BY <1>1 DEF FlagHasRequest, Backed, Sending, Answering

(* A request to c is asked of c's agent, or its flag is left dangling; and *)
(* no other request goes.                                                  *)
LEMMA AskKeeps ==
  ASSUME WindowsTypeOK, NEW a \in Agents, NEW c \in SocketsOf(a),
         NEW o \in {"window", "run_now"}, Ask(c, o)
  PROVE  /\ Asking(a, o)' \/ a \in dangling'
         /\ \A e \in Agents, p \in Askers : Asking(e, p) => Asking(e, p)'
         /\ dangling \subseteq dangling'
BY DEF WindowsTypeOK, Ask, Asking, SocketsOf, Askers

(* A step that touches nothing a flag depends on.                          *)
LEMMA FlagsUntouched ==
  ASSUME FlagHasRequest,
         UNCHANGED <<scheduled, upgrades, responding, dangling>>,
         \A a \in Agents : Sending(a) => Sending(a)',
         scheduled \subseteq Agents
  PROVE  FlagHasRequest'
<1>1. \A a \in Agents : Backed(a) => Backed(a)'
  BY DEF Backed, Asking, Answering
<1> QED
  BY <1>1, NothingTaken

(* The operator's rows, and the upgrades of others.                        *)
LEMMA RowFlags ==
  ASSUME WindowsInv, NEW a \in Agents,
         \/ \E b \in BOOLEAN : UpsertWindow(a, b)
         \/ DeleteWindow(a) \/ WindowTick(a) \/ OtherUpgrade(a)
  PROVE  FlagHasRequest'
<1>1. CASE OtherUpgrade(a)
  <2>1. UNCHANGED <<scheduled, ticker, runNow, responding, dangling>>
    BY <1>1 DEF OtherUpgrade
  <2>2. \A e \in Agents, o \in Askers : Asking(e, o) => Asking(e, o)'
    BY <1>1 DEF OtherUpgrade, Asking, WindowsInv, WindowsTypeOK, SocketsOf
  <2> QED
    BY <2>1, <2>2, NothingTaken
       DEF WindowsInv, WindowsTypeOK, Backed, Sending, Answering, Askers
<1>2. CASE ~OtherUpgrade(a)
  BY <1>2, FlagsUntouched
     DEF UpsertWindow, DeleteWindow, WindowTick, WindowsInv, WindowsTypeOK, Sending,
         upgradeVars
<1> QED
  BY <1>1, <1>2

(* A flag is set just before its request is sent, and cleared if it is     *)
(* not.                                                                    *)
LEMMA TickerFlags == WindowsInv /\ TickerStep => FlagHasRequest'
<1> SUFFICES ASSUME WindowsInv, TickerStep PROVE FlagHasRequest'
  OBVIOUS
<1> USE DEF WindowsInv
<1>0. scheduled \subseteq Agents
  BY DEF WindowsTypeOK
<1>1. CASE ReadWindows \/ RecordFire \/ EndOfWindows
           \/ \E a \in Agents : DeferWindow(a) \/ TakeWindow(a)
  <2>1. /\ UNCHANGED <<scheduled, upgrades, responding, dangling, runNow>>
        /\ ticker.task.at # "send"
    BY <1>1 DEF ReadWindows, RecordFire, EndOfWindows, DeferWindow, TakeWindow,
                upgradeVars, RecordWindow
  <2> QED
    BY <1>0, <2>1, FlagsUntouched DEF Sending
<1>2. CASE FlagWindow
  <2>1. /\ UNCHANGED <<upgrades, responding, dangling, runNow>>
        /\ scheduled' = scheduled \cup {ticker.task.for}
        /\ ticker.task.at = "flag"
        /\ ticker' = [ticker EXCEPT !.task.at = "send"]
    BY <1>2 DEF FlagWindow, upgradeVars
  <2>2. ticker'.task.at = "send" /\ ticker'.task.for = ticker.task.for
    BY <2>1 DEF WindowsTypeOK
  <2>3. \A a \in scheduled : Backed(a) => Backed(a)'
    BY <2>1 DEF Backed, Sending, Asking, Answering
  <2>4. Backed(ticker.task.for)'
    BY <2>1, <2>2 DEF Backed, Sending
  <2> QED
    BY <2>1, <2>2, <2>3, <2>4, NothingTaken DEF Backed, Sending
<1>3. CASE SendWindow
  <2>1. /\ UNCHANGED <<scheduled, runNow, responding>>
        /\ ticker.task.at = "send"
        /\ Ask(ticker.task.tx, "window")
    BY <1>3 DEF SendWindow
  <2>2. PICK a \in Agents : a = ticker.task.for /\ ticker.task.tx \in SocketsOf(a)
    BY <2>1 DEF TasksOwnSockets
  <2>3. /\ Asking(a, "window")' \/ a \in dangling'
        /\ \A e \in Agents, p \in Askers : Asking(e, p) => Asking(e, p)'
        /\ dangling \subseteq dangling'
    BY <2>1, <2>2, AskKeeps
  <2>4. \A e \in Agents : Backed(e) => Backed(e)'
    BY <2>1, <2>2, <2>3 DEF Backed, Sending, Answering, Askers
  <2> QED
    BY <1>0, <2>1, <2>4, NothingTaken
<1>4. CASE FailWindow
  <2>1. /\ UNCHANGED <<upgrades, responding, runNow>>
        /\ scheduled' = scheduled \ {ticker.task.for}
        /\ dangling' = dangling \ {ticker.task.for}
    BY <1>4 DEF FailWindow, ClearFlag
  <2>2. \A a \in scheduled' : Backed(a) => Backed(a)'
    BY <2>1 DEF Backed, Sending, Asking, Answering
  <2> QED
    BY <2>1, <2>2, NothingTaken
<1> QED
  BY <1>1, <1>2, <1>3, <1>4 DEF TickerStep

(* The same of the button; a client that hangs up in between leaves the    *)
(* flag dangling.                                                          *)
LEMMA ButtonFlags == WindowsInv /\ ButtonStep => FlagHasRequest'
<1> SUFFICES ASSUME WindowsInv, ButtonStep PROVE FlagHasRequest'
  OBVIOUS
<1> USE DEF WindowsInv
<1>0. scheduled \subseteq Agents
  BY DEF WindowsTypeOK
<1>1. CASE \E a \in Agents : StartRunNow(a)
  BY <1>0, <1>1, FlagsUntouched DEF StartRunNow, Sending, upgradeVars
<1>2. CASE FlagRunNow
  <2>1. /\ UNCHANGED <<upgrades, responding, dangling, ticker>>
        /\ scheduled' = scheduled \cup {runNow.for}
        /\ runNow.at = "flag"
        /\ runNow' = [runNow EXCEPT !.at = "send"]
    BY <1>2 DEF FlagRunNow, upgradeVars
  <2>2. runNow'.at = "send" /\ runNow'.for = runNow.for
    BY <2>1 DEF WindowsTypeOK
  <2>3. \A a \in scheduled : Backed(a) => Backed(a)'
    BY <2>1 DEF Backed, Sending, Asking, Answering
  <2> QED
    BY <2>1, <2>2, <2>3, NothingTaken DEF Backed, Sending
<1>3. CASE SendNow
  <2>1. /\ UNCHANGED <<scheduled, ticker, responding>>
        /\ runNow.at = "send"
        /\ Ask(runNow.tx, "run_now")
    BY <1>3 DEF SendNow
  <2>2. PICK a \in Agents : a = runNow.for /\ runNow.tx \in SocketsOf(a)
    BY <2>1 DEF TasksOwnSockets
  <2>3. /\ Asking(a, "run_now")' \/ a \in dangling'
        /\ \A e \in Agents, p \in Askers : Asking(e, p) => Asking(e, p)'
        /\ dangling \subseteq dangling'
    BY <2>1, <2>2, AskKeeps
  <2>4. \A e \in Agents : Backed(e) => Backed(e)'
    BY <2>1, <2>2, <2>3 DEF Backed, Sending, Answering, Askers
  <2> QED
    BY <1>0, <2>1, <2>4, NothingTaken
<1>4. CASE FailNow
  <2>1. /\ UNCHANGED <<upgrades, responding, ticker>>
        /\ scheduled' = scheduled \ {runNow.for}
        /\ dangling' = dangling \ {runNow.for}
    BY <1>4 DEF FailNow, ClearFlag
  <2>2. \A a \in scheduled' : Backed(a) => Backed(a)'
    BY <2>1 DEF Backed, Sending, Asking, Answering
  <2> QED
    BY <2>1, <2>2, NothingTaken
<1>5. CASE HangUpNow
  <2>1. /\ UNCHANGED <<scheduled, upgrades, responding, ticker>>
        /\ dangling \subseteq dangling'
        /\ runNow.at = "send" => runNow.for \in dangling'
    BY <1>5 DEF HangUpNow
  <2>2. \A a \in scheduled' : Backed(a) => Backed(a)'
    BY <2>1 DEF Backed, Sending, Asking, Answering
  <2> QED
    BY <2>1, <2>2, NothingTaken
<1> QED
  BY <1>1, <1>2, <1>3, <1>4, <1>5 DEF ButtonStep

(* A response stands for the flag until it has come to it; what a socket   *)
(* takes with it leaves the flag dangling.                                 *)
LEMMA SocketFlags ==
  ASSUME WindowsInv, NEW c \in Conns,
         \/ WindowsConnect(c) \/ WindowsDisconnect(c) \/ WindowsTearDown(c)
         \/ TakeFlag(c) \/ RecordResult(c)
         \/ \E o \in Askers : RespondUpgrade(c, o)
  PROVE  FlagHasRequest'
<1> USE DEF WindowsInv
<1>0. scheduled \subseteq Agents
  BY DEF WindowsTypeOK
<1>1. CASE WindowsConnect(c) \/ WindowsTearDown(c)
  BY <1>0, <1>1, FlagsUntouched
     DEF WindowsConnect, WindowsTearDown, Sending, upgradeVars
<1>2. CASE WindowsDisconnect(c)
  <2>1. /\ UNCHANGED <<scheduled, ticker, runNow, responding>>
        /\ upgrades' = [upgrades EXCEPT ![c] = {}]
        /\ dangling \subseteq dangling'
        /\ upgrades[c] \cap {"window", "run_now"} # {}
             => HostOf[c] \in dangling'
    BY <1>2 DEF WindowsDisconnect
  <2>2. ASSUME NEW a \in Agents, NEW o \in {"window", "run_now"}, Asking(a, o)
        PROVE  Asking(a, o)' \/ a \in dangling'
    BY <2>1, <2>2 DEF Asking, SocketsOf, WindowsTypeOK
  <2>3. \A a \in Agents : Backed(a) => Backed(a)'
    BY <2>1, <2>2 DEF Backed, Sending, Answering
  <2> QED
    BY <1>0, <2>1, <2>3, NothingTaken
<1>3. CASE TakeFlag(c)
  <2>1. /\ UNCHANGED <<ticker, runNow, upgrades>>
        /\ scheduled' = scheduled \ {HostOf[c]}
        /\ dangling' = dangling \ {HostOf[c]}
        /\ \A e \in Conns : e # c => responding'[e] = responding[e]
    BY <1>3 DEF TakeFlag, ClearFlag, WindowsTypeOK
  <2>2. \A a \in scheduled' : Backed(a) => Backed(a)'
    BY <2>1 DEF Backed, Sending, Asking, Answering, SocketsOf
  <2> QED
    BY <2>1, <2>2, NothingTaken
<1>4. CASE RecordResult(c)
  <2>1. /\ UNCHANGED <<scheduled, ticker, runNow, upgrades, dangling>>
        /\ \A e \in Conns : e # c => responding'[e] = responding[e]
        /\ responding[c].at = "record"
    BY <1>4 DEF RecordResult, WindowsTypeOK
  <2>2. \A a \in scheduled' : Backed(a) => Backed(a)'
    BY <2>1 DEF Backed, Sending, Asking, Answering, SocketsOf
  <2> QED
    BY <2>1, <2>2, NothingTaken
<1>5. ASSUME NEW o \in Askers, RespondUpgrade(c, o)
      PROVE  FlagHasRequest'
  <2>1. /\ UNCHANGED <<scheduled, ticker, runNow, dangling>>
        /\ upgrades' = [upgrades EXCEPT ![c] = @ \ {o}]
        /\ responding[c].at = "idle"
        /\ responding' =
             [responding EXCEPT ![c] = [at |-> "flag", from |-> o]]
    BY <1>5 DEF RespondUpgrade
  <2>2. ASSUME NEW a \in Agents, Answering(a) PROVE Answering(a)'
    BY <2>1, <2>2 DEF Answering, SocketsOf, WindowsTypeOK
  <2>3. ASSUME NEW a \in Agents, NEW p \in {"window", "run_now"}, Asking(a, p)
        PROVE  Asking(a, p)' \/ Answering(a)'
    BY <2>1, <2>3 DEF Asking, Answering, SocketsOf, WindowsTypeOK
  <2>4. \A a \in Agents : Backed(a) => Backed(a)'
    BY <2>1, <2>2, <2>3 DEF Backed, Sending
  <2> QED
    BY <1>0, <2>1, <2>4, NothingTaken
<1> QED
  BY <1>1, <1>2, <1>3, <1>4, <1>5

-----------------------------------------------------------------------------
(* Every step keeps the invariant.                                         *)
LEMMA WindowsStep == WindowsInv /\ [WindowsNext]_windowVars => WindowsInv'
<1> SUFFICES ASSUME WindowsInv, [WindowsNext]_windowVars PROVE WindowsInv'
  OBVIOUS
<1>1. WindowsTypeOK' /\ TasksOwnSockets'
  BY TypesStep DEF WindowsInv, TypesAndTasks
<1>2. FlagHasRequest'
  <2>1. CASE UNCHANGED windowVars
    BY <2>1 DEF windowVars, upgradeVars, WindowsInv, FlagHasRequest, Asking
  <2> QED
    BY <2>1, RowFlags, TickerFlags, ButtonFlags, SocketFlags DEF WindowsNext
<1> QED
  BY <1>1, <1>2 DEF WindowsInv

(* WindowsTypeOK: the variables keep their types.                          *)
THEOREM WindowsTypeCorrect == WindowsSpec => []WindowsTypeOK
<1>1. WindowsInv => WindowsTypeOK
  BY DEF WindowsInv
<1> QED
  BY WindowsInitInv, WindowsStep, <1>1, PTL DEF WindowsSpec

(* FlagHasRequest: however many agents and sockets there are, a flag that  *)
(* is set is one of a request that is under way, or was lost.              *)
THEOREM FlagsStandForRequests == WindowsSpec => []FlagHasRequest
<1>1. WindowsInv => FlagHasRequest
  BY DEF WindowsInv
<1> QED
  BY WindowsInitInv, WindowsStep, <1>1, PTL DEF WindowsSpec

-----------------------------------------------------------------------------
(* Requests whose answer is waited for.                                    *)

(* A request that has not been sent is neither lost nor under way.         *)
Unsent ==
  \A r \in Calls : call[r] \in {"idle", "found", "listed"} =>
    r \notin leaked /\ \A c \in Conns : r \notin unanswered[c]

(* A request is under way on one socket, and is not lost as well.          *)
AskedOnce ==
  \A c \in Conns : \A r \in unanswered[c] :
    r \notin leaked /\ \A d \in Conns \ {c} : r \notin unanswered[d]

(* A call that has yet to send has cloned a registry entry.                *)
HoldEntries ==
  \A r \in Calls : call[r] \in {"found", "listed"} => entry[r] \in Conns

(* The requests for which a waiter is in a queue, whoever's it is.         *)
Outstanding == Awaited \cup leaked

(* The part of the invariant that counts nothing.                          *)
CallTypes == RepliesTypeOK /\ Unsent /\ AskedOnce /\ HoldEntries

RepliesInv == CallTypes /\ IsFiniteSet(Outstanding) /\ QueueBalance

(* Initially nobody asks.                                                  *)
LEMMA RepliesInitInv == RepliesInit => RepliesInv
<1> SUFFICES ASSUME RepliesInit PROVE RepliesInv
  OBVIOUS
<1> USE RegistryAssumption, CallsAssumption DEF RepliesInit, RegistryInit
<1>1. RepliesTypeOK
  BY EmptySeq DEF RepliesTypeOK, RegistryTypeOK
<1>2. Unsent /\ AskedOnce /\ HoldEntries
  BY DEF Unsent, AskedOnce, HoldEntries
<1>3. Outstanding = {}
  BY DEF Outstanding, Awaited
<1>4. IsFiniteSet(Outstanding) /\ QueueBalance
  BY <1>3, FS_EmptySet DEF QueueBalance, Outstanding, Kinds
<1> QED
  BY <1>1, <1>2, <1>4 DEF RepliesInv, CallTypes

(* Nothing comes in or goes out.                                           *)
LEMMA SameBalance ==
  ASSUME RepliesInv, Outstanding' = Outstanding, UNCHANGED queue
  PROVE  IsFiniteSet(Outstanding)' /\ QueueBalance'
BY DEF RepliesInv, QueueBalance, Outstanding, CallsOf

(* One more request, and one more waiter at the end of its queue.          *)
LEMMA OneMore ==
  ASSUME RepliesInv, NEW r \in Calls, r \notin Outstanding,
         Outstanding' = Outstanding \cup {r},
         queue' = [queue EXCEPT ![KindOf[r]][TargetOf[r]] = Append(@, r)]
  PROVE  IsFiniteSet(Outstanding)' /\ QueueBalance'
<1> DEFINE O(k, a) == Outstanding \cap CallsOf(k, a)
<1>0. KindOf[r] \in Kinds /\ TargetOf[r] \in Agents
  BY CallsAssumption
<1>1. IsFiniteSet(Outstanding)'
  BY FS_AddElement DEF RepliesInv
<1>2. ASSUME NEW k \in Kinds, NEW a \in Agents
      PROVE  Len(queue'[k][a]) = Cardinality(O(k, a)')
  <2>1. queue[k][a] \in Seq(Calls) /\ queue \in [Kinds -> [Agents -> Seq(Calls)]]
    BY DEF RepliesInv, CallTypes, RepliesTypeOK
  <2>2. IsFiniteSet(O(k, a)) /\ Len(queue[k][a]) = Cardinality(O(k, a))
    BY FS_Intersection DEF RepliesInv, QueueBalance, Outstanding
  <2>3. CASE k = KindOf[r] /\ a = TargetOf[r]
    <3>1. O(k, a)' = O(k, a) \cup {r} /\ r \notin O(k, a)
      BY <2>3 DEF CallsOf
    <3>2. Cardinality(O(k, a)') = Cardinality(O(k, a)) + 1
      BY <2>2, <3>1, FS_AddElement
    <3>3. queue'[k][a] = Append(queue[k][a], r)
      BY <2>1, <2>3, <1>0
    <3> QED
      BY <2>1, <2>2, <3>2, <3>3, AppendProperties
  <2>4. CASE ~(k = KindOf[r] /\ a = TargetOf[r])
    <3>1. O(k, a)' = O(k, a)
      BY <2>4 DEF CallsOf
    <3>2. queue'[k][a] = queue[k][a]
      BY <2>1, <2>4, <1>0
    <3> QED
      BY <2>2, <3>1, <3>2
  <2> QED
    BY <2>3, <2>4
<1>3. QueueBalance'
  BY <1>2 DEF QueueBalance, Outstanding, CallsOf
<1> QED
  BY <1>1, <1>3

(* One request less, and one waiter less at the front of its queue.        *)
LEMMA OneLess ==
  ASSUME RepliesInv, NEW r \in Outstanding, r \in Calls,
         Outstanding' = Outstanding \ {r},
         queue' = [queue EXCEPT ![KindOf[r]][TargetOf[r]] = Tail(@)]
  PROVE  IsFiniteSet(Outstanding)' /\ QueueBalance'
<1> DEFINE O(k, a) == Outstanding \cap CallsOf(k, a)
<1>0. KindOf[r] \in Kinds /\ TargetOf[r] \in Agents
  BY CallsAssumption
<1>1. IsFiniteSet(Outstanding)'
  BY FS_RemoveElement DEF RepliesInv
<1>2. ASSUME NEW k \in Kinds, NEW a \in Agents
      PROVE  Len(queue'[k][a]) = Cardinality(O(k, a)')
  <2>1. queue[k][a] \in Seq(Calls) /\ queue \in [Kinds -> [Agents -> Seq(Calls)]]
    BY DEF RepliesInv, CallTypes, RepliesTypeOK
  <2>2. IsFiniteSet(O(k, a)) /\ Len(queue[k][a]) = Cardinality(O(k, a))
    BY FS_Intersection DEF RepliesInv, QueueBalance, Outstanding
  <2>3. CASE k = KindOf[r] /\ a = TargetOf[r]
    <3>1. O(k, a)' = O(k, a) \ {r} /\ r \in O(k, a)
      BY <2>3 DEF CallsOf
    <3>2. Cardinality(O(k, a)') = Cardinality(O(k, a)) - 1
      BY <2>2, <3>1, FS_RemoveElement
    <3>3. Cardinality(O(k, a)) # 0
      BY <2>2, <3>1, FS_EmptySet
    <3>4. queue[k][a] # <<>>
      BY <2>2, <3>3
    <3>5. queue'[k][a] = Tail(queue[k][a])
      BY <2>1, <2>3, <1>0
    <3>6. Len(queue'[k][a]) = Len(queue[k][a]) - 1
      BY <2>1, <3>4, <3>5, HeadTailProperties
    <3> QED
      BY <2>2, <3>2, <3>6
  <2>4. CASE ~(k = KindOf[r] /\ a = TargetOf[r])
    <3>1. O(k, a)' = O(k, a)
      BY <2>4 DEF CallsOf
    <3>2. queue'[k][a] = queue[k][a]
      BY <2>1, <2>4, <1>0
    <3> QED
      BY <2>2, <3>1, <3>2
  <2> QED
    BY <2>3, <2>4
<1>3. QueueBalance'
  BY <1>2 DEF QueueBalance, Outstanding, CallsOf
<1> QED
  BY <1>1, <1>3

(* A request that an agent may still answer has a waiter in front.         *)
LEMMA WaiterThere ==
  ASSUME RepliesInv, NEW r \in Calls, r \in Outstanding
  PROVE  QueueOf(r) # <<>> /\ QueueOf(r) \in Seq(Calls)
<1> DEFINE O == Outstanding \cap CallsOf(KindOf[r], TargetOf[r])
<1>0. KindOf[r] \in Kinds /\ TargetOf[r] \in Agents
  BY CallsAssumption
<1>1. IsFiniteSet(O) /\ r \in O
  BY FS_Intersection DEF RepliesInv, CallsOf
<1>2. Cardinality(O) # 0
  BY <1>1, FS_EmptySet
<1>3. Len(QueueOf(r)) = Cardinality(O)
  BY <1>0 DEF RepliesInv, QueueBalance, Outstanding, QueueOf
<1>4. QueueOf(r) \in Seq(Calls)
  BY <1>0 DEF RepliesInv, CallTypes, RepliesTypeOK, QueueOf
<1> QED
  BY <1>2, <1>3, <1>4

(* A call turns; nothing of it comes to an agent or is lost.               *)
LEMMA CallSteps ==
  ASSUME RepliesInv, NEW r \in Calls, CallStep(r)
  PROVE  RepliesInv'
<1> USE RegistryAssumption, CallsAssumption
<1>t. /\ RepliesTypeOK /\ Unsent /\ AskedOnce /\ HoldEntries
      /\ call \in [Calls -> {"idle", "found", "listed", "waiting", "over"}]
      /\ entry \in [Calls -> Conns \cup {NoConn}]
      /\ unanswered \in [Conns -> SUBSET Calls]
      /\ KindOf[r] \in Kinds /\ TargetOf[r] \in Agents
  BY DEF RepliesInv, CallTypes, RepliesTypeOK
<1>1. CASE LookUpAgent(r)
  <2>0. agents[TargetOf[r]] \in Conns \cup {NoConn}
    BY <1>t DEF RepliesTypeOK, RegistryTypeOK
  <2>1. CallTypes'
    BY <1>t, <1>1, <2>0
       DEF CallTypes, LookUpAgent, Turn, RepliesTypeOK, RegistryTypeOK, registry,
           Unsent, AskedOnce, HoldEntries
  <2>2. Outstanding' = Outstanding
    BY <1>t, <1>1 DEF Outstanding, Awaited, LookUpAgent, Turn
  <2> QED
    BY <1>1, <2>1, <2>2, SameBalance DEF RepliesInv, LookUpAgent
<1>2. CASE Refuse(r) \/ Receive(r) \/ TimeOut(r) \/ Abandon(r)
  <2>1. CallTypes'
    BY <1>t, <1>2
       DEF CallTypes, Refuse, Receive, TimeOut, Abandon, Turn, DropEntry,
           RepliesTypeOK, RegistryTypeOK, registry, Unsent, AskedOnce, HoldEntries
  <2>2. Outstanding' = Outstanding /\ UNCHANGED queue
    BY <1>t, <1>2
       DEF Outstanding, Awaited, Refuse, Receive, TimeOut, Abandon, Turn
  <2> QED
    BY <2>1, <2>2, SameBalance DEF RepliesInv
<1>3. CASE PushWaiter(r)
  <2>1. /\ call[r] = "found" /\ call' = [call EXCEPT ![r] = "listed"]
        /\ queue' = [queue EXCEPT ![KindOf[r]][TargetOf[r]] = Append(@, r)]
        /\ UNCHANGED <<agents, link, entry, replied, unanswered, leaked>>
        /\ Len(queue[KindOf[r]][TargetOf[r]]) < MaxPending
    BY <1>3 DEF PushWaiter, Turn, registry, QueueOf
  <2>2. ASSUME NEW k \in Kinds, NEW a \in Agents
        PROVE  queue'[k][a] \in Seq(Calls) /\ Len(queue'[k][a]) =< MaxPending
    <3>1. /\ queue \in [Kinds -> [Agents -> Seq(Calls)]]
          /\ queue[k][a] \in Seq(Calls) /\ Len(queue[k][a]) =< MaxPending
      BY <1>t DEF RepliesTypeOK
    <3>2. CASE k = KindOf[r] /\ a = TargetOf[r]
      <4>1. queue'[k][a] = Append(queue[k][a], r)
        BY <2>1, <3>1, <3>2
      <4> QED
        BY <2>1, <3>1, <3>2, <4>1, AppendProperties
    <3>3. CASE ~(k = KindOf[r] /\ a = TargetOf[r])
      BY <2>1, <3>1, <3>3, <1>t
    <3> QED
      BY <3>2, <3>3
  <2>3. queue' \in [Kinds -> [Agents -> Seq(Calls)]]
    <3>1. queue \in [Kinds -> [Agents -> Seq(Calls)]]
      BY <1>t DEF RepliesTypeOK
    <3> QED
      BY <2>1, <2>2, <3>1, <1>t, AppendProperties
  <2>4. CallTypes'
    BY <1>t, <2>1, <2>2, <2>3
       DEF CallTypes, RepliesTypeOK, RegistryTypeOK, Unsent, AskedOnce, HoldEntries
  <2>5. r \notin Outstanding /\ Outstanding' = Outstanding \cup {r}
    BY <1>t, <2>1 DEF Outstanding, Awaited, Unsent
  <2> QED
    BY <2>1, <2>4, <2>5, OneMore DEF RepliesInv
<1>4. CASE SendRequest(r)
  <2>1. /\ call[r] = "listed" /\ call' = [call EXCEPT ![r] = "waiting"]
        /\ entry' = [entry EXCEPT ![r] = NoConn] /\ entry[r] \in Conns
        /\ UNCHANGED <<agents, link, queue, replied>>
        /\ \/ /\ unanswered' = [unanswered EXCEPT ![entry[r]] = @ \cup {r}]
              /\ leaked' = leaked
           \/ leaked' = leaked \cup {r} /\ unanswered' = unanswered
    BY <1>4, <1>t DEF SendRequest, Turn, DropEntry, registry, HoldEntries
  <2>2. CallTypes'
    <3>1. RepliesTypeOK'
      BY <1>t, <2>1 DEF RepliesTypeOK, RegistryTypeOK
    <3>2. r \notin leaked /\ \A c \in Conns : r \notin unanswered[c]
      BY <1>t, <2>1 DEF Unsent
    <3>3. Unsent' /\ HoldEntries'
      BY <1>t, <2>1 DEF Unsent, HoldEntries
    <3>4. AskedOnce'
      BY <1>t, <2>1, <3>2 DEF AskedOnce
    <3> QED
      BY <3>1, <3>3, <3>4 DEF CallTypes
  <2>3. Outstanding' = Outstanding
    BY <1>t, <2>1 DEF Outstanding, Awaited
  <2> QED
    BY <2>1, <2>2, <2>3, SameBalance DEF RepliesInv
<1>5. CASE FailToSend(r)
  <2>1. CallTypes'
    BY <1>t, <1>5
       DEF CallTypes, FailToSend, Turn, DropEntry, registry,
           RepliesTypeOK, RegistryTypeOK, Unsent, AskedOnce, HoldEntries
  <2>2. Outstanding' = Outstanding /\ UNCHANGED queue
    BY <1>t, <1>5 DEF Outstanding, Awaited, FailToSend, Turn
  <2> QED
    BY <2>1, <2>2, SameBalance DEF RepliesInv
<1> QED
  BY <1>1, <1>2, <1>3, <1>4, <1>5 DEF CallStep

(* An answer takes a request, and the waiter in front, whoever that is.    *)
LEMMA ResponseStep ==
  ASSUME RepliesInv, NEW c \in Conns, NEW r \in Calls, Respond(c, r)
  PROVE  RepliesInv'
<1> USE RegistryAssumption, CallsAssumption
<1>t. /\ RepliesTypeOK /\ Unsent /\ AskedOnce /\ HoldEntries
      /\ unanswered \in [Conns -> SUBSET Calls]
      /\ queue \in [Kinds -> [Agents -> Seq(Calls)]]
      /\ KindOf[r] \in Kinds /\ TargetOf[r] \in Agents
  BY DEF RepliesInv, CallTypes, RepliesTypeOK
<1>1. r \in unanswered[c] /\ r \in Outstanding
  BY DEF Respond, Outstanding, Awaited
<1>2. QueueOf(r) # <<>> /\ QueueOf(r) \in Seq(Calls)
  BY <1>1, WaiterThere
<1>3. Head(QueueOf(r)) \in Calls /\ Tail(QueueOf(r)) \in Seq(Calls)
      /\ Len(Tail(QueueOf(r))) = Len(QueueOf(r)) - 1
  BY <1>2, HeadTailProperties
<1>4. /\ unanswered' = [unanswered EXCEPT ![c] = @ \ {r}]
      /\ queue' = [queue EXCEPT ![KindOf[r]][TargetOf[r]] = Tail(@)]
      /\ replied' \in {replied, replied \cup {Head(QueueOf(r))}}
      /\ UNCHANGED <<agents, link, call, entry, leaked>>
  BY <1>2 DEF Respond, registry
<1>5. ASSUME NEW k \in Kinds, NEW a \in Agents
      PROVE  queue'[k][a] \in Seq(Calls) /\ Len(queue'[k][a]) =< MaxPending
  <2>1. queue[k][a] \in Seq(Calls) /\ Len(queue[k][a]) =< MaxPending
        /\ Len(queue[k][a]) \in Nat
    BY <1>t DEF RepliesTypeOK
  <2>2. CASE k = KindOf[r] /\ a = TargetOf[r]
    <3>1. queue'[k][a] = Tail(QueueOf(r)) /\ queue[k][a] = QueueOf(r)
      BY <1>t, <1>4, <2>2 DEF QueueOf
    <3> QED
      BY <1>3, <2>1, <3>1
  <2>3. CASE ~(k = KindOf[r] /\ a = TargetOf[r])
    BY <1>t, <1>4, <2>1, <2>3
  <2> QED
    BY <2>2, <2>3
<1>6. queue' \in [Kinds -> [Agents -> Seq(Calls)]]
  BY <1>t, <1>3, <1>4 DEF QueueOf
<1>7. CallTypes'
  BY <1>t, <1>3, <1>4, <1>5, <1>6
     DEF CallTypes, RepliesTypeOK, RegistryTypeOK, Unsent, AskedOnce, HoldEntries
<1>8. Outstanding' = Outstanding \ {r}
  <2>1. call[r] # "listed" /\ r \notin leaked
        /\ \A d \in Conns \ {c} : r \notin unanswered[d]
    BY <1>t, <1>1 DEF Unsent, AskedOnce
  <2> QED
    BY <1>t, <1>4, <2>1 DEF Outstanding, Awaited
<1> QED
  BY <1>1, <1>4, <1>7, <1>8, OneLess DEF RepliesInv

(* A socket that ends takes its requests with it, and no waiter.           *)
LEMMA SocketStep ==
  ASSUME RepliesInv, NEW c \in Conns,
         RepliesConnect(c) \/ RepliesDisconnect(c) \/ RepliesTearDown(c)
  PROVE  RepliesInv'
<1> USE RegistryAssumption, CallsAssumption
<1>t. /\ RepliesTypeOK /\ Unsent /\ AskedOnce /\ HoldEntries
      /\ unanswered \in [Conns -> SUBSET Calls]
  BY DEF RepliesInv, CallTypes, RepliesTypeOK
<1>1. RegistryTypeOK'
  BY <1>t, RegistryMoves
     DEF RepliesTypeOK, RepliesConnect, RepliesDisconnect, RepliesTearDown
<1>2. /\ UNCHANGED <<call, entry, queue, replied>>
      /\ \/ UNCHANGED <<unanswered, leaked>>
         \/ /\ unanswered' = [unanswered EXCEPT ![c] = {}]
            /\ leaked' = leaked \cup unanswered[c]
  BY DEF RepliesConnect, RepliesDisconnect, RepliesTearDown
<1>3. CallTypes'
  BY <1>t, <1>1, <1>2
     DEF CallTypes, RepliesTypeOK, Unsent, AskedOnce, HoldEntries
<1>4. Outstanding' = Outstanding
  BY <1>t, <1>2 DEF Outstanding, Awaited
<1> QED
  BY <1>2, <1>3, <1>4, SameBalance DEF RepliesInv

(* Every step keeps the invariant.                                         *)
LEMMA RepliesStep == RepliesInv /\ [RepliesNext]_replyVars => RepliesInv'
<1> SUFFICES ASSUME RepliesInv, [RepliesNext]_replyVars PROVE RepliesInv'
  OBVIOUS
<1>1. CASE UNCHANGED replyVars
  <2>1. CallTypes' /\ Outstanding' = Outstanding /\ UNCHANGED queue
    BY <1>1 DEF replyVars, RepliesInv, CallTypes, RepliesTypeOK, RegistryTypeOK,
         Unsent, AskedOnce, HoldEntries, Outstanding, Awaited
  <2> QED
    BY <2>1, SameBalance DEF RepliesInv
<1> QED
  BY <1>1, CallSteps, ResponseStep, SocketStep
     DEF RepliesNext, ListArchives, Restore

(* RepliesTypeOK: the variables keep their types, and no queue is longer   *)
(* than MAX_PENDING.                                                       *)
THEOREM RepliesTypeCorrect == RepliesSpec => []RepliesTypeOK
<1>1. RepliesInv => RepliesTypeOK
  BY DEF RepliesInv, CallTypes
<1> QED
  BY RepliesInitInv, RepliesStep, <1>1, PTL DEF RepliesSpec

(* QueueBalance: however many calls and sockets there are, and whatever    *)
(* they time out, fail or leave behind, a queue has a waiter for every     *)
(* request that is under way or was lost, and no other.                    *)
THEOREM QueuesBalance == RepliesSpec => []QueueBalance
<1>1. RepliesInv => QueueBalance
  BY DEF RepliesInv
<1> QED
  BY RepliesInitInv, RepliesStep, <1>1, PTL DEF RepliesSpec

-----------------------------------------------------------------------------
(* Fan-out runs.                                                           *)

(* The newest second in which a run was created.                           *)
LastSecond ==
  Runs # {} => \E g \in Runs : \A h \in Runs : started[h] =< started[g]

(* The registry's lock is held by one call at a time.                      *)
OneLoop == \A f, g \in Runs : run[f] = "looping" /\ run[g] = "looping" => f = g

(* The target that is marked stays connected until it has been sent to.    *)
MarkedIsConnected ==
  marking # NoTarget =>
    /\ Locked /\ agents[marking] # NoConn
    /\ \A f \in Runs : run[f] = "looping" => marking \notin todo[f]

(* A run that has yet to send to an agent, and a socket of the agent that  *)
(* has a request or a response of the run.                                 *)
YetToSend(f, a) ==
  \/ run[f] = "idle" \/ a \in todo[f]
  \/ run[f] = "looping" /\ marking = a

Holds(c, f) == f \in asked[c] \/ reader[c].from = f

(* A request is not on its way before it is sent.                          *)
SentOnce ==
  \A f \in Runs, c \in Conns : YetToSend(f, HostOf[c]) => ~Holds(c, f)

(* A socket that has looked up no row holds no response.                   *)
ListenForNone == \A c \in Conns : reader[c].row = NoRun => reader[c].from = Other

(* What a socket has been asked can be counted.                            *)
AskedFinite == \A c \in Conns : IsFiniteSet(asked[c])

(* The part of the invariant that counts nothing.                          *)
FanTypes ==
  /\ FanOutTypeOK /\ LeadsHome /\ LastSecond /\ OneLoop /\ MarkedIsConnected
  /\ SentOnce /\ ListenForNone /\ AskedFinite

(* NoOrphanPending for one agent, with sets that can be counted.           *)
Held(a)     == {x \in SocketsOf(a) \X Runs : Holds(x[1], x[2])}
InMark(a)   == IF marking = a THEN 1 ELSE 0
Balanced(a) ==
  /\ IsFiniteSet(PendingRuns(a)) /\ IsFiniteSet(Held(a))
  /\ Cardinality(PendingRuns(a)) =<
       Cardinality(Held(a)) + InMark(a) + stray[a]

FanInv == FanTypes /\ \A a \in Agents : Balanced(a)

(* What is counted is what NoOrphanPending counts.                         *)
LEMMA FanInvBalance == FanInv => NoOrphanPending
BY DEF FanInv, Balanced, NoOrphanPending, Closing, Held, Holds, InMark

(* Initially there is no run.                                              *)
LEMMA FanOutInitInv == FanOutInit => FanInv
<1> SUFFICES ASSUME FanOutInit PROVE FanInv
  OBVIOUS
<1> USE RegistryAssumption, RunsAssumption DEF FanOutInit, RegistryInit, Listening
<1>1. FanOutTypeOK
  BY DEF FanOutTypeOK, RegistryTypeOK
<1>2. LeadsHome /\ LastSecond /\ OneLoop /\ MarkedIsConnected /\ SentOnce
      /\ ListenForNone /\ AskedFinite
  BY FS_EmptySet DEF LeadsHome, LastSecond, OneLoop, MarkedIsConnected, SentOnce,
     ListenForNone, AskedFinite, Holds
<1>3. ASSUME NEW a \in Agents PROVE Balanced(a)
  <2>1. PendingRuns(a) = {} /\ Held(a) = {}
    BY DEF PendingRuns, Held, Holds, SocketsOf
  <2>2. InMark(a) \in Nat /\ stray[a] = 0
    BY DEF InMark
  <2> QED
    BY <2>1, <2>2, FS_EmptySet DEF Balanced
<1> QED
  BY <1>1, <1>2, <1>3 DEF FanInv, FanTypes

-----------------------------------------------------------------------------
(* What the steps do to the types and to the order of things.              *)

(* A row that is written has its type.                                     *)
LEMMA SetResultType ==
  ASSUME FanOutTypeOK, NEW f \in Runs, NEW a \in Agents,
         NEW status \in {"pending", "answered", "failed", "offline"},
         SetResult(f, a, status)
  PROVE  result' \in [Runs -> [Agents ->
                        {"none", "pending", "answered", "failed", "offline"}]]
<1> DEFINE S == {"none", "pending", "answered", "failed", "offline"}
<1>1. result[f] \in [Agents -> S] /\ status \in S
  BY DEF FanOutTypeOK
<1>2. [result[f] EXCEPT ![a] = status] \in [Agents -> S]
  BY <1>1
<1>3. result' = [result EXCEPT ![f] = [result[f] EXCEPT ![a] = status]]
  BY DEF SetResult, FanOutTypeOK
<1> HIDE DEF S
<1>4. result \in [Runs -> [Agents -> S]]
  BY DEF FanOutTypeOK, S
<1>5. result' \in [Runs -> [Agents -> S]]
  BY <1>2, <1>3, <1>4
<1> QED
  BY <1>5 DEF S

(* A row that is looked up has its type.                                   *)
LEMMA ReaderType ==
  ASSUME FanOutTypeOK, NEW c \in Conns,
         NEW f \in Runs \cup {NoRun}, NEW o \in Runs \cup {Other},
         reader' = [reader EXCEPT ![c] = [row |-> f, from |-> o]]
  PROVE  reader' \in
           [Conns -> [row : Runs \cup {NoRun}, from : Runs \cup {Other}]]
<1> DEFINE R == [row : Runs \cup {NoRun}, from : Runs \cup {Other}]
<1>1. [row |-> f, from |-> o] \in R /\ reader \in [Conns -> R]
  BY DEF FanOutTypeOK
<1> HIDE DEF R
<1>2. reader' \in [Conns -> R]
  BY <1>1
<1> QED
  BY <1>2 DEF R

(* The handler.                                                            *)
LEMMA LoopTypes ==
  ASSUME FanTypes, NEW f \in Runs, LoopStep(f) \/ \E T \in SUBSET Agents : CreateRun(f, T)
  PROVE  FanTypes'
<1> USE RegistryAssumption, RunsAssumption
<1>t. /\ FanOutTypeOK /\ LeadsHome /\ LastSecond /\ OneLoop /\ MarkedIsConnected
      /\ SentOnce /\ ListenForNone /\ AskedFinite
      /\ RegistryTypeOK
  BY DEF FanTypes, FanOutTypeOK
<1>1. CASE \E T \in SUBSET Agents : CreateRun(f, T)
  <2> DEFINE last == CHOOSE n \in {started[g] : g \in Runs} :
                       \A g \in Runs : started[g] =< n
  <2>1. PICK T \in SUBSET Agents : CreateRun(f, T)
    BY <1>1
  <2>2. started \in [Runs -> Nat]
    BY <1>t DEF FanOutTypeOK
  <2>3. \E n \in {started[g] : g \in Runs} : \A g \in Runs : started[g] =< n
    BY <1>t DEF LastSecond
  <2>4. last \in {started[g] : g \in Runs} /\ \A g \in Runs : started[g] =< last
    BY <2>3
  <2>5. last \in Nat
    BY <2>2, <2>4
  <2> HIDE DEF last
  <2>6. PICK n \in {last, last + 1} : started' = [started EXCEPT ![f] = n]
    BY <2>1 DEF CreateRun, last
  <2>7. started' \in [Runs -> Nat] /\ LastSecond'
    BY <2>2, <2>4, <2>5, <2>6 DEF LastSecond
  <2>8. /\ run[f] = "idle" /\ run' = [run EXCEPT ![f] = "created"]
        /\ todo' = [todo EXCEPT ![f] = T]
        /\ UNCHANGED <<agents, link, marking, result, asked, reader, stray>>
    BY <2>1 DEF CreateRun, registry
  <2>9. FanOutTypeOK'
    BY <1>t, <2>7, <2>8 DEF FanOutTypeOK, RegistryTypeOK
  <2>10. OneLoop' /\ MarkedIsConnected'
    BY <1>t, <2>8 DEF FanOutTypeOK, OneLoop, MarkedIsConnected, Locked
  <2>11. SentOnce'
    BY <1>t, <2>8 DEF FanOutTypeOK, SentOnce, YetToSend, Holds
  <2> QED
    BY <1>t, <2>7, <2>8, <2>9, <2>10, <2>11
       DEF FanTypes, LeadsHome, ListenForNone, AskedFinite
<1>2. CASE LockAgents(f) \/ UnlockAgents(f)
  <2>1. /\ \/ /\ run' = [run EXCEPT ![f] = "looping"]
              /\ run[f] = "created" /\ ~Locked
           \/ /\ run' = [run EXCEPT ![f] = "done"]
              /\ run[f] = "looping" /\ marking = NoTarget
        /\ UNCHANGED <<agents, link, started, todo, marking, result, asked,
                       reader, stray>>
    BY <1>2 DEF LockAgents, UnlockAgents, registry
  <2>2. FanOutTypeOK'
    BY <1>t, <2>1 DEF FanOutTypeOK, RegistryTypeOK
  <2>3. OneLoop' /\ MarkedIsConnected' /\ SentOnce'
    <3>1. run \in [Runs -> {"idle", "created", "looping", "done"}]
      BY <1>t DEF FanOutTypeOK
    <3>2. marking = NoTarget
      BY <1>t, <2>1 DEF MarkedIsConnected
    <3>3. OneLoop' /\ MarkedIsConnected'
      BY <1>t, <2>1, <3>1, <3>2 DEF OneLoop, MarkedIsConnected, Locked
    <3>4. SentOnce'
      BY <1>t, <2>1, <3>1, <3>2 DEF SentOnce, YetToSend, Holds
    <3> QED
      BY <3>3, <3>4
  <2> QED
    BY <1>t, <2>1, <2>2, <2>3
       DEF FanTypes, LeadsHome, LastSecond, ListenForNone, AskedFinite
<1>6. CASE HangUpRun(f)
  <2>1. /\ run' = [run EXCEPT ![f] = "done"]
        /\ todo' = [todo EXCEPT ![f] = {}]
        /\ \/ /\ run[f] = "looping" /\ marking \in Agents /\ marking' = NoTarget
              /\ stray' = [stray EXCEPT ![marking] = @ + 1]
           \/ /\ UNCHANGED <<stray, marking>>
              /\ run[f] # "looping" \/ marking = NoTarget
        /\ UNCHANGED <<agents, link, started, result, asked, reader>>
    BY <1>t, <1>6 DEF HangUpRun, registry, FanOutTypeOK
  <2>2. FanOutTypeOK'
    BY <1>t, <2>1 DEF FanOutTypeOK, RegistryTypeOK
  <2>3. OneLoop' /\ MarkedIsConnected'
    BY <1>t, <2>1 DEF FanOutTypeOK, OneLoop, MarkedIsConnected, Locked
  <2>4. SentOnce'
    BY <1>t, <2>1 DEF FanOutTypeOK, SentOnce, YetToSend, Holds
  <2> QED
    BY <1>t, <2>1, <2>2, <2>3, <2>4
       DEF FanTypes, LeadsHome, LastSecond, ListenForNone, AskedFinite
<1>3. CASE \E a \in Agents : MarkPending(f, a) \/ MarkOffline(f, a)
  <2>1. PICK a \in Agents : MarkPending(f, a) \/ MarkOffline(f, a)
    BY <1>3
  <2>0. SetResult(f, a, "pending") \/ SetResult(f, a, "offline")
    BY <2>1 DEF MarkPending, MarkOffline
  <2>2. FanOutTypeOK'
    <3>1. result' \in [Runs -> [Agents ->
                     {"none", "pending", "answered", "failed", "offline"}]]
      BY <1>t, <2>0, SetResultType
    <3> QED
      BY <1>t, <2>1, <3>1
         DEF MarkPending, MarkOffline, registry, FanOutTypeOK, RegistryTypeOK
  <2>3. OneLoop' /\ MarkedIsConnected'
    BY <1>t, <2>1 DEF MarkPending, MarkOffline, registry,
       FanOutTypeOK, OneLoop, MarkedIsConnected, Locked
  <2>4. SentOnce'
    BY <1>t, <2>1 DEF MarkPending, MarkOffline, registry,
       FanOutTypeOK, OneLoop, SentOnce, YetToSend, Holds
  <2> QED
    BY <1>t, <2>1, <2>2, <2>3, <2>4 DEF MarkPending, MarkOffline,
       registry, FanTypes, LeadsHome, LastSecond, ListenForNone, AskedFinite
<1>4. CASE SendRun(f)
  <2>1. /\ run[f] = "looping" /\ marking \in Agents /\ marking' = NoTarget
        /\ asked' = [asked EXCEPT ![agents[marking]] = @ \cup {f}]
        /\ UNCHANGED <<agents, link, run, started, todo, result, reader, stray>>
    BY <1>t, <1>4 DEF SendRun, registry, FanOutTypeOK
  <2>2. agents[marking] \in Conns /\ HostOf[agents[marking]] = marking
    BY <1>t, <1>4, <2>1
       DEF SendRun, MarkedIsConnected, LeadsHome, RegistryTypeOK
  <2>3. FanOutTypeOK'
    BY <1>t, <2>1, <2>2 DEF FanOutTypeOK, RegistryTypeOK
  <2>4. marking \notin todo[f]
    BY <1>t, <1>4, <2>1 DEF SendRun, MarkedIsConnected
  <2>5. SentOnce'
    BY <1>t, <2>1, <2>2, <2>4 DEF FanOutTypeOK, SentOnce, YetToSend, Holds
  <2>6. AskedFinite'
    BY <1>t, <2>1, <2>2, FS_AddElement DEF FanOutTypeOK, AskedFinite
  <2>7. OneLoop' /\ MarkedIsConnected'
    BY <1>t, <2>1 DEF OneLoop, MarkedIsConnected
  <2> QED
    BY <1>t, <2>1, <2>3, <2>5, <2>6, <2>7
       DEF FanTypes, LeadsHome, LastSecond, ListenForNone
<1>5. CASE FailRun(f)
  <2>1. /\ run[f] = "looping" /\ marking \in Agents /\ marking' = NoTarget
        /\ SetResult(f, marking, "failed")
        /\ \/ stray' = stray
           \/ stray' = [stray EXCEPT ![marking] = @ + 1]
        /\ UNCHANGED <<agents, link, run, started, todo, asked, reader>>
    BY <1>t, <1>5 DEF FailRun, registry, FanOutTypeOK
  <2>2. FanOutTypeOK'
    <3>1. result' \in [Runs -> [Agents ->
                     {"none", "pending", "answered", "failed", "offline"}]]
      BY <1>t, <2>1, SetResultType
    <3>2. stray' \in [Agents -> Nat]
      <4>1. /\ stray \in [Agents -> Nat] /\ marking \in Agents
            /\ stray' \in {stray, [stray EXCEPT ![marking] = @ + 1]}
        BY <1>t, <2>1, Zenon DEF FanOutTypeOK
      <4> QED
        BY <4>1
    <3> QED
      BY <1>t, <2>1, <3>1, <3>2, Zenon DEF FanOutTypeOK, RegistryTypeOK
  <2>3. OneLoop' /\ MarkedIsConnected' /\ SentOnce'
    BY <1>t, <2>1 DEF OneLoop, MarkedIsConnected, SentOnce, YetToSend, Holds
  <2> QED
    BY <1>t, <2>1, <2>2, <2>3
       DEF FanTypes, LeadsHome, LastSecond, ListenForNone, AskedFinite
<1> QED
  BY <1>1, <1>2, <1>3, <1>4, <1>5, <1>6 DEF LoopStep

(* Whoever else asks.                                                      *)
LEMMA OtherTypes ==
  ASSUME FanTypes, NEW a \in Agents, OtherRequest(a)
  PROVE  FanTypes'
<1> USE RegistryAssumption, RunsAssumption
<1>t. /\ FanOutTypeOK /\ LeadsHome /\ LastSecond /\ OneLoop /\ MarkedIsConnected
      /\ SentOnce /\ ListenForNone /\ AskedFinite
      /\ RegistryTypeOK /\ agents[a] \in Conns
  BY DEF FanTypes, FanOutTypeOK, RegistryTypeOK, OtherRequest
<1>1. /\ asked' = [asked EXCEPT ![agents[a]] = @ \cup {Other}]
      /\ UNCHANGED <<agents, link, run, started, todo, marking, result, reader,
                     stray>>
  BY DEF OtherRequest, registry, runVars
<1>2. FanOutTypeOK'
  BY <1>t, <1>1 DEF FanOutTypeOK, RegistryTypeOK
<1>3. SentOnce' /\ AskedFinite'
  BY <1>t, <1>1, FS_AddElement
     DEF FanOutTypeOK, SentOnce, YetToSend, Holds, AskedFinite
<1> QED
  BY <1>t, <1>1, <1>2, <1>3 DEF FanTypes, LeadsHome, LastSecond, OneLoop,
     MarkedIsConnected, Locked, ListenForNone

(* The agents' sockets.                                                    *)
LEMMA FanSocketTypes ==
  ASSUME FanTypes, NEW c \in Conns,
         \/ FanOutConnect(c) \/ FanOutDisconnect(c) \/ FanOutTearDown(c)
         \/ StampRow(c) \/ \E o \in Runs \cup {Other} : LookUpRow(c, o)
  PROVE  FanTypes'
<1> USE RegistryAssumption, RunsAssumption
<1>t. /\ FanOutTypeOK /\ LeadsHome /\ LastSecond /\ OneLoop /\ MarkedIsConnected
      /\ SentOnce /\ ListenForNone /\ AskedFinite
      /\ RegistryTypeOK /\ HostOf[c] \in Agents
  BY DEF FanTypes, FanOutTypeOK
<1>1. CASE FanOutConnect(c) \/ FanOutTearDown(c)
  <2>1. /\ RegistryTypeOK' /\ LeadsHome'
        /\ UNCHANGED <<run, started, todo, marking, result, asked, reader, stray>>
    BY <1>t, <1>1, RegistryMoves, HomeMoves
       DEF FanOutConnect, FanOutTearDown, runVars
  <2>2. ~Locked \/ UNCHANGED agents
    BY <1>1 DEF FanOutConnect, FanOutTearDown, Release
  <2> QED
    BY <1>t, <2>1, <2>2
       DEF FanTypes, FanOutTypeOK, LastSecond, OneLoop, MarkedIsConnected, Locked,
           SentOnce, YetToSend, Holds, ListenForNone, AskedFinite
<1>2. CASE FanOutDisconnect(c)
  <2>1. /\ RegistryTypeOK' /\ LeadsHome' /\ ~Locked
        /\ asked' = [asked EXCEPT ![c] = {}]
        /\ stray' = [stray EXCEPT ![HostOf[c]] =
                       @ + Cardinality(asked[c] \ {Other})]
        /\ UNCHANGED <<run, started, todo, marking, result, reader>>
    BY <1>t, <1>2, RegistryMoves, HomeMoves DEF FanOutDisconnect, runVars
  <2>2. Cardinality(asked[c] \ {Other}) \in Nat
    BY <1>t, FS_Difference, FS_CardinalityType DEF AskedFinite
  <2>3. FanOutTypeOK'
    BY <1>t, <2>1, <2>2 DEF FanOutTypeOK
  <2>4. SentOnce' /\ AskedFinite'
    BY <1>t, <2>1, FS_EmptySet
       DEF FanOutTypeOK, SentOnce, YetToSend, Holds, AskedFinite
  <2> QED
    BY <1>t, <2>1, <2>3, <2>4
       DEF FanTypes, LastSecond, OneLoop, MarkedIsConnected, Locked, ListenForNone
<1>3. CASE StampRow(c)
  <2>1. /\ reader[c].row \in Runs /\ SetResult(reader[c].row, HostOf[c], "answered")
        /\ \/ stray' = stray
           \/ stray' = [stray EXCEPT ![HostOf[c]] = @ + 1]
        /\ reader' = [reader EXCEPT ![c] = Listening]
        /\ UNCHANGED <<agents, link, run, started, todo, marking, asked>>
    BY <1>t, <1>3 DEF StampRow, registry, FanOutTypeOK
  <2>2. FanOutTypeOK'
    <3>1. reader' \in
            [Conns -> [row : Runs \cup {NoRun}, from : Runs \cup {Other}]]
      BY <1>t, <2>1, ReaderType DEF Listening
    <3>2. result' \in [Runs -> [Agents ->
                     {"none", "pending", "answered", "failed", "offline"}]]
      BY <1>t, <2>1, SetResultType
    <3>3. stray' \in [Agents -> Nat]
      <4>1. /\ stray \in [Agents -> Nat] /\ HostOf[c] \in Agents
            /\ stray' \in {stray, [stray EXCEPT ![HostOf[c]] = @ + 1]}
        BY <1>t, <2>1, Zenon DEF FanOutTypeOK
      <4> QED
        BY <4>1
    <3> QED
      BY <1>t, <2>1, <3>1, <3>2, <3>3, Zenon DEF FanOutTypeOK, RegistryTypeOK
  <2>3. SentOnce' /\ ListenForNone'
    BY <1>t, <2>1
       DEF FanOutTypeOK, SentOnce, YetToSend, Holds, ListenForNone, Listening
  <2> QED
    BY <1>t, <2>1, <2>2, <2>3 DEF FanTypes, LeadsHome, LastSecond, OneLoop,
       MarkedIsConnected, Locked, AskedFinite
<1>4. CASE \E o \in Runs \cup {Other} : LookUpRow(c, o)
  <2>1. PICK o \in Runs \cup {Other} : LookUpRow(c, o)
    BY <1>4
  <2>2. /\ o \in asked[c] /\ asked' = [asked EXCEPT ![c] = @ \ {o}]
        /\ \/ UNCHANGED reader
           \/ \E f \in Runs : reader' = [reader EXCEPT ![c] = [row |-> f, from |-> o]]
        /\ UNCHANGED <<agents, link, run, started, todo, marking, result, stray>>
    BY <2>1 DEF LookUpRow, registry, runVars
  <2>3. FanOutTypeOK'
    <3>1. reader' \in
            [Conns -> [row : Runs \cup {NoRun}, from : Runs \cup {Other}]]
      BY <1>t, <2>2, ReaderType DEF FanOutTypeOK
    <3> QED
      BY <1>t, <2>2, <3>1 DEF FanOutTypeOK, RegistryTypeOK
  <2>4. SentOnce' /\ ListenForNone'
    BY <1>t, <2>2 DEF FanOutTypeOK, SentOnce, YetToSend, Holds, ListenForNone
  <2>5. AskedFinite'
    BY <1>t, <2>2, FS_RemoveElement DEF FanOutTypeOK, AskedFinite
  <2> QED
    BY <1>t, <2>2, <2>3, <2>4, <2>5 DEF FanTypes, LeadsHome, LastSecond, OneLoop,
       MarkedIsConnected, Locked
<1> QED
  BY <1>1, <1>2, <1>3, <1>4

-----------------------------------------------------------------------------
(* What the steps do to the counts.                                        *)

(* The counts are numbers.                                                 *)
LEMMA Counts ==
  ASSUME FanInv, NEW a \in Agents
  PROVE  /\ IsFiniteSet(PendingRuns(a)) /\ IsFiniteSet(Held(a))
         /\ Cardinality(PendingRuns(a)) \in Nat /\ Cardinality(Held(a)) \in Nat
         /\ InMark(a) \in {0, 1} /\ stray[a] \in Nat
         /\ Cardinality(PendingRuns(a)) =<
              Cardinality(Held(a)) + InMark(a) + stray[a]
BY FS_CardinalityType DEF FanInv, FanTypes, FanOutTypeOK, Balanced, InMark

(* Rows are pending when they were, but for the one that is written.       *)
LEMMA WrittenRow ==
  ASSUME FanOutTypeOK, NEW f \in Runs, NEW b \in Agents, NEW status,
         SetResult(f, b, status), NEW a \in Agents
  PROVE  PendingRuns(a)' = IF a # b THEN PendingRuns(a)
                           ELSE IF status = "pending" THEN PendingRuns(a) \cup {f}
                           ELSE PendingRuns(a) \ {f}
<1>1. \A g \in Runs : result'[g][a] = IF g = f /\ a = b THEN status
                                      ELSE result[g][a]
  BY DEF FanOutTypeOK, SetResult
<1> QED
  BY <1>1 DEF PendingRuns

(* No fewer requests, no more rows.                                        *)
LEMMA NoMorePending ==
  ASSUME FanInv, NEW a \in Agents, PendingRuns(a)' \subseteq PendingRuns(a),
         Held(a)' = Held(a), InMark(a)' = InMark(a), stray'[a] = stray[a]
  PROVE  Balanced(a)'
<1>1. /\ IsFiniteSet(PendingRuns(a)')
      /\ Cardinality(PendingRuns(a)') =< Cardinality(PendingRuns(a))
      /\ Cardinality(PendingRuns(a)') \in Nat
  BY Counts, FS_Subset, FS_CardinalityType
<1> QED
  BY <1>1, Counts DEF Balanced

(* The handler marks a row before it sends the request.                    *)
LEMMA LoopBalance ==
  ASSUME FanInv, NEW f \in Runs, NEW a \in Agents,
         LoopStep(f) \/ \E T \in SUBSET Agents : CreateRun(f, T)
  PROVE  Balanced(a)'
<1> USE RegistryAssumption, RunsAssumption
<1>t. /\ FanTypes /\ FanOutTypeOK /\ RegistryTypeOK
      /\ LeadsHome /\ MarkedIsConnected /\ SentOnce
  BY DEF FanInv, FanTypes, FanOutTypeOK
<1>c. /\ IsFiniteSet(PendingRuns(a)) /\ IsFiniteSet(Held(a))
      /\ Cardinality(PendingRuns(a)) \in Nat /\ Cardinality(Held(a)) \in Nat
      /\ InMark(a) \in {0, 1} /\ stray[a] \in Nat
      /\ Cardinality(PendingRuns(a)) =<
           Cardinality(Held(a)) + InMark(a) + stray[a]
  BY Counts
<1>1. CASE \/ \E T \in SUBSET Agents : CreateRun(f, T)
           \/ LockAgents(f) \/ UnlockAgents(f)
  <2>1. UNCHANGED <<result, asked, reader, stray, marking>>
    BY <1>1 DEF CreateRun, LockAgents, UnlockAgents
  <2>2. /\ PendingRuns(a)' = PendingRuns(a) /\ Held(a)' = Held(a)
        /\ InMark(a)' = InMark(a) /\ stray'[a] = stray[a]
    BY <2>1 DEF PendingRuns, Held, Holds, InMark
  <2> QED
    BY <2>2, NoMorePending
<1>2. CASE HangUpRun(f)
  <2>1. PendingRuns(a)' = PendingRuns(a) /\ Held(a)' = Held(a)
    BY <1>2 DEF HangUpRun, PendingRuns, Held, Holds
  <2>2. InMark(a)' + stray'[a] = InMark(a) + stray[a]
    BY <1>t, <1>c, <1>2 DEF HangUpRun, InMark, FanOutTypeOK
  <2>3. InMark(a)' \in Nat /\ stray'[a] \in Nat
    BY <1>t, <1>c, <1>2 DEF HangUpRun, InMark, FanOutTypeOK
  <2> QED
    BY <1>c, <2>1, <2>2, <2>3 DEF Balanced
<1>3. ASSUME NEW b \in Agents, MarkPending(f, b) PROVE Balanced(a)'
  <2>1. /\ SetResult(f, b, "pending") /\ marking = NoTarget /\ marking' = b
        /\ UNCHANGED <<asked, reader, stray>>
    BY <1>3 DEF MarkPending
  <2>2. Held(a)' = Held(a)
    BY <2>1 DEF Held, Holds
  <2>3. CASE a = b
    <3>1. PendingRuns(a)' = PendingRuns(a) \cup {f}
      BY <1>t, <2>1, <2>3, WrittenRow
    <3>2. /\ IsFiniteSet(PendingRuns(a)')
          /\ Cardinality(PendingRuns(a)') =< Cardinality(PendingRuns(a)) + 1
      <4> DEFINE P == PendingRuns(a)
      <4>1. /\ IsFiniteSet(P \cup {f})
            /\ Cardinality(P \cup {f}) =
                 IF f \in P THEN Cardinality(P) ELSE Cardinality(P) + 1
        BY <1>c, FS_AddElement
      <4>2. Cardinality(P \cup {f}) =< Cardinality(P) + 1
        BY <1>c, <4>1
      <4> QED
        BY <3>1, <4>1, <4>2
    <3>3. InMark(a) = 0 /\ InMark(a)' = 1
      BY <2>1, <2>3 DEF InMark
    <3>4. Cardinality(PendingRuns(a)') \in Nat
      BY <3>2, FS_CardinalityType
    <3> QED
      BY <1>c, <2>1, <2>2, <3>2, <3>3, <3>4 DEF Balanced
  <2>4. CASE a # b
    <3>1. PendingRuns(a)' = PendingRuns(a)
      BY <1>t, <2>1, <2>4, WrittenRow
    <3>2. InMark(a)' = InMark(a)
      BY <2>1, <2>4 DEF InMark
    <3> QED
      BY <2>1, <2>2, <3>1, <3>2, NoMorePending
  <2> QED
    BY <2>3, <2>4
<1>4. ASSUME NEW b \in Agents, MarkOffline(f, b) PROVE Balanced(a)'
  <2>1. /\ SetResult(f, b, "offline")
        /\ UNCHANGED <<asked, reader, stray, marking>>
    BY <1>4 DEF MarkOffline
  <2>2. PendingRuns(a)' \subseteq PendingRuns(a)
    BY <1>t, <2>1, WrittenRow
  <2>3. Held(a)' = Held(a) /\ InMark(a)' = InMark(a)
    BY <2>1 DEF Held, Holds, InMark
  <2> QED
    BY <2>1, <2>2, <2>3, NoMorePending
<1>5. CASE SendRun(f)
  <2>1. /\ run[f] = "looping" /\ marking \in Agents /\ marking' = NoTarget
        /\ asked' = [asked EXCEPT ![agents[marking]] = @ \cup {f}]
        /\ UNCHANGED <<result, reader, stray>>
    BY <1>t, <1>5 DEF SendRun, FanOutTypeOK
  <2>2. agents[marking] \in Conns /\ HostOf[agents[marking]] = marking
    BY <1>t, <1>5, <2>1
       DEF SendRun, MarkedIsConnected, LeadsHome, RegistryTypeOK
  <2>3. PendingRuns(a)' = PendingRuns(a)
    BY <2>1 DEF PendingRuns
  <2>4. \A c \in Conns, g \in Runs :
          Holds(c, g)' <=> Holds(c, g) \/ (c = agents[marking] /\ g = f)
    BY <1>t, <2>1, <2>2 DEF Holds, FanOutTypeOK
  <2>5. CASE a = marking
    <3>1. ~Holds(agents[marking], f)
      BY <1>t, <2>1, <2>2 DEF SentOnce, YetToSend
    <3>2. /\ Held(a)' = Held(a) \cup {<<agents[marking], f>>}
          /\ <<agents[marking], f>> \notin Held(a)
      BY <2>2, <2>4, <2>5, <3>1 DEF Held, SocketsOf
    <3>3. /\ IsFiniteSet(Held(a)')
          /\ Cardinality(Held(a)') = Cardinality(Held(a)) + 1
      BY <1>c, <3>2, FS_AddElement
    <3>4. InMark(a) = 1 /\ InMark(a)' = 0
      BY <2>1, <2>5 DEF InMark
    <3> QED
      BY <1>c, <2>1, <2>3, <3>3, <3>4 DEF Balanced
  <2>6. CASE a # marking
    <3>1. Held(a)' = Held(a)
      BY <2>2, <2>4, <2>6 DEF Held, SocketsOf
    <3>2. InMark(a)' = InMark(a)
      BY <2>1, <2>6 DEF InMark
    <3> QED
      BY <2>1, <2>3, <3>1, <3>2, NoMorePending
  <2> QED
    BY <2>5, <2>6
<1>6. CASE FailRun(f)
  <2>1. /\ marking \in Agents /\ marking' = NoTarget
        /\ SetResult(f, marking, "failed")
        /\ stray' = IF result[f][marking] = "pending" THEN stray
                    ELSE [stray EXCEPT ![marking] = @ + 1]
        /\ UNCHANGED <<asked, reader>>
    BY <1>t, <1>6 DEF FailRun, FanOutTypeOK
  <2>2. Held(a)' = Held(a)
    BY <2>1 DEF Held, Holds
  <2>3. CASE a = marking
    <3>1. PendingRuns(a)' = PendingRuns(a) \ {f}
      BY <1>t, <2>1, <2>3, WrittenRow
    <3>2. /\ IsFiniteSet(PendingRuns(a)') /\ Cardinality(PendingRuns(a)') \in Nat
          /\ Cardinality(PendingRuns(a)') =
               IF f \in PendingRuns(a) THEN Cardinality(PendingRuns(a)) - 1
               ELSE Cardinality(PendingRuns(a))
      BY <1>c, <3>1, FS_RemoveElement, FS_CardinalityType
    <3>3. f \in PendingRuns(a) <=> result[f][marking] = "pending"
      BY <2>3 DEF PendingRuns
    <3>4. InMark(a) = 1 /\ InMark(a)' = 0
      BY <2>1, <2>3 DEF InMark
    <3>5. stray'[a] = IF f \in PendingRuns(a) THEN stray[a] ELSE stray[a] + 1
      BY <1>t, <2>1, <2>3, <3>3 DEF FanOutTypeOK
    <3> QED
      BY <1>c, <2>2, <3>2, <3>4, <3>5 DEF Balanced
  <2>4. CASE a # marking
    <3>1. PendingRuns(a)' = PendingRuns(a)
      BY <1>t, <2>1, <2>4, WrittenRow
    <3>2. InMark(a)' = InMark(a) /\ stray'[a] = stray[a]
      BY <1>t, <2>1, <2>4 DEF InMark, FanOutTypeOK
    <3> QED
      BY <2>2, <3>1, <3>2, NoMorePending
  <2> QED
    BY <2>3, <2>4
<1> QED
  BY <1>1, <1>2, <1>3, <1>4, <1>5, <1>6 DEF LoopStep

(* Nobody else's request is of a run.                                      *)
LEMMA OtherBalance ==
  ASSUME FanInv, NEW b \in Agents, OtherRequest(b), NEW a \in Agents
  PROVE  Balanced(a)'
<1>1. UNCHANGED <<result, marking, reader, stray>>
      /\ asked' = [asked EXCEPT ![agents[b]] = @ \cup {Other}]
  BY DEF OtherRequest, runVars
<1>2. asked \in [Conns -> SUBSET (Runs \cup {Other})] /\ Other \notin Runs
  BY RunsAssumption DEF FanInv, FanTypes, FanOutTypeOK
<1>3. \A c \in Conns, g \in Runs : Holds(c, g)' <=> Holds(c, g)
  BY <1>1, <1>2 DEF Holds
<1>4. PendingRuns(a)' = PendingRuns(a) /\ InMark(a)' = InMark(a)
      /\ stray'[a] = stray[a]
  BY <1>1 DEF PendingRuns, InMark
<1>5. Held(a)' = Held(a)
  BY <1>3 DEF Held, SocketsOf
<1> QED
  BY <1>4, <1>5, NoMorePending

(* A response that is lost, or given a closed row, is on record.           *)
LEMMA FanSocketBalance ==
  ASSUME FanInv, NEW c \in Conns, NEW a \in Agents,
         \/ FanOutConnect(c) \/ FanOutDisconnect(c) \/ FanOutTearDown(c)
         \/ StampRow(c) \/ \E o \in Runs \cup {Other} : LookUpRow(c, o)
  PROVE  Balanced(a)'
<1> USE RegistryAssumption, RunsAssumption
<1>t. /\ FanTypes /\ FanOutTypeOK /\ SentOnce /\ ListenForNone /\ AskedFinite
      /\ HostOf[c] \in Agents /\ reader[c].from \in Runs \cup {Other}
  BY DEF FanInv, FanTypes, FanOutTypeOK
<1>c. /\ IsFiniteSet(PendingRuns(a)) /\ IsFiniteSet(Held(a))
      /\ Cardinality(PendingRuns(a)) \in Nat /\ Cardinality(Held(a)) \in Nat
      /\ InMark(a) \in {0, 1} /\ stray[a] \in Nat
      /\ Cardinality(PendingRuns(a)) =<
           Cardinality(Held(a)) + InMark(a) + stray[a]
  BY Counts
<1>1. CASE FanOutConnect(c) \/ FanOutTearDown(c)
  <2>1. UNCHANGED <<result, asked, reader, stray, marking>>
    BY <1>1 DEF FanOutConnect, FanOutTearDown, runVars
  <2>2. /\ PendingRuns(a)' = PendingRuns(a) /\ Held(a)' = Held(a)
        /\ InMark(a)' = InMark(a) /\ stray'[a] = stray[a]
    BY <2>1 DEF PendingRuns, Held, Holds, InMark
  <2> QED
    BY <2>2, NoMorePending
<1>2. CASE FanOutDisconnect(c)
  <2> DEFINE lost == {c} \X (asked[c] \ {Other})
  <2>1. /\ reader[c].from = Other
        /\ asked' = [asked EXCEPT ![c] = {}]
        /\ stray' = [stray EXCEPT ![HostOf[c]] =
                       @ + Cardinality(asked[c] \ {Other})]
        /\ UNCHANGED <<result, reader, marking>>
    BY <1>t, <1>2 DEF FanOutDisconnect, runVars, ListenForNone
  <2>2. PendingRuns(a)' = PendingRuns(a) /\ InMark(a)' = InMark(a)
    BY <2>1 DEF PendingRuns, InMark
  <2>3. \A d \in Conns, g \in Runs : Holds(d, g)' <=> Holds(d, g) /\ d # c
    BY <1>t, <2>1 DEF Holds, FanOutTypeOK
  <2>4. CASE a = HostOf[c]
    <3>1. Held(a)' = Held(a) \ lost /\ lost \subseteq Held(a)
      BY <1>t, <2>1, <2>3, <2>4 DEF Held, Holds, SocketsOf, FanOutTypeOK
    <3>2. IsFiniteSet(asked[c] \ {Other}) /\ IsFiniteSet({c})
          /\ Cardinality({c}) = 1 /\ Cardinality(asked[c] \ {Other}) \in Nat
      BY <1>t, FS_Difference, FS_Singleton, FS_CardinalityType DEF AskedFinite
    <3>3. Cardinality(lost) = Cardinality(asked[c] \ {Other})
      BY <3>2, FS_Product
    <3>4. Held(a) \cap lost = lost
      BY <3>1
    <3> HIDE DEF lost
    <3>5. /\ IsFiniteSet(Held(a)')
          /\ Cardinality(Held(a)') = Cardinality(Held(a)) - Cardinality(lost)
      <4>1. /\ IsFiniteSet(Held(a) \ lost)
            /\ Cardinality(Held(a) \ lost) =
                 Cardinality(Held(a)) - Cardinality(Held(a) \cap lost)
        BY <1>c, FS_Difference
      <4> QED
        BY <3>1, <3>4, <4>1
    <3>6. stray'[a] = stray[a] + Cardinality(asked[c] \ {Other})
      BY <1>t, <2>1, <2>4 DEF FanOutTypeOK
    <3> QED
      BY <1>c, <2>2, <3>2, <3>3, <3>5, <3>6 DEF Balanced
  <2>5. CASE a # HostOf[c]
    <3>1. Held(a)' = Held(a)
      BY <2>3, <2>5 DEF Held, SocketsOf
    <3>2. stray'[a] = stray[a]
      BY <1>t, <2>1, <2>5 DEF FanOutTypeOK
    <3> QED
      BY <2>2, <3>1, <3>2, NoMorePending
  <2> QED
    BY <2>4, <2>5
<1>3. CASE StampRow(c)
  <2> DEFINE o == reader[c].from
             x == <<c, o>>
  <2>1. /\ reader[c].row \in Runs /\ SetResult(reader[c].row, HostOf[c], "answered")
        /\ stray' = IF o # Other /\ result[reader[c].row][HostOf[c]] # "pending"
                    THEN [stray EXCEPT ![HostOf[c]] = @ + 1] ELSE stray
        /\ reader' = [reader EXCEPT ![c] = Listening]
        /\ UNCHANGED <<marking, asked>>
    BY <1>t, <1>3 DEF StampRow, FanOutTypeOK
  <2>2. InMark(a)' = InMark(a)
    BY <2>1 DEF InMark
  <2>3. \A d \in Conns, g \in Runs :
          /\ Holds(d, g)' => Holds(d, g)
          /\ Holds(d, g) => Holds(d, g)' \/ (d = c /\ g = o)
    BY <1>t, <2>1 DEF Holds, FanOutTypeOK, Listening
  <2>4. CASE a = HostOf[c]
    <3>1. PendingRuns(a)' = PendingRuns(a) \ {reader[c].row}
      BY <1>t, <2>1, <2>4, WrittenRow
    <3>2. /\ IsFiniteSet(PendingRuns(a)') /\ Cardinality(PendingRuns(a)') \in Nat
          /\ Cardinality(PendingRuns(a)') =
               IF reader[c].row \in PendingRuns(a)
               THEN Cardinality(PendingRuns(a)) - 1
               ELSE Cardinality(PendingRuns(a))
      BY <1>c, <3>1, FS_RemoveElement, FS_CardinalityType
    <3>3. stray'[a] = IF o # Other /\ reader[c].row \notin PendingRuns(a)
                      THEN stray[a] + 1 ELSE stray[a]
      BY <1>t, <2>1, <2>4 DEF FanOutTypeOK, PendingRuns
    <3>4. Held(a)' \subseteq Held(a) /\ Held(a) \ {x} \subseteq Held(a)'
      BY <2>3 DEF Held, SocketsOf
    <3>5. IsFiniteSet(Held(a)') /\ Cardinality(Held(a)') \in Nat
      BY <1>c, <3>4, FS_Subset, FS_CardinalityType
    <3>6. CASE o = Other
      <4>1. Held(a)' = Held(a)
        BY <2>3, <3>6 DEF Held, SocketsOf
      <4> QED
        BY <1>c, <2>2, <3>2, <3>3, <3>6, <4>1 DEF Balanced
    <3>7. CASE o # Other
      <4>1. /\ IsFiniteSet(Held(a) \ {x})
            /\ Cardinality(Held(a) \ {x}) \in Nat
            /\ Cardinality(Held(a) \ {x}) >= Cardinality(Held(a)) - 1
        <5> DEFINE H == Held(a)
        <5>1. /\ IsFiniteSet(H \ {x})
              /\ Cardinality(H \ {x}) =
                   IF x \in H THEN Cardinality(H) - 1 ELSE Cardinality(H)
          BY <1>c, FS_RemoveElement
        <5>2. Cardinality(H \ {x}) \in Nat
          BY <5>1, FS_CardinalityType
        <5> QED
          BY <1>c, <5>1, <5>2
      <4>2. Cardinality(Held(a) \ {x}) =< Cardinality(Held(a)')
        BY <3>4, <3>5, FS_Subset
      <4> QED
        BY <1>c, <2>2, <3>2, <3>3, <3>5, <3>7, <4>1, <4>2 DEF Balanced
    <3> QED
      BY <3>6, <3>7
  <2>5. CASE a # HostOf[c]
    <3>1. Held(a)' = Held(a)
      BY <2>3, <2>5 DEF Held, SocketsOf
    <3>2. stray'[a] = stray[a] /\ PendingRuns(a)' = PendingRuns(a)
      BY <1>t, <2>1, <2>5, WrittenRow DEF FanOutTypeOK
    <3> QED
      BY <2>2, <3>1, <3>2, NoMorePending
  <2> QED
    BY <2>4, <2>5
<1>4. ASSUME NEW o \in Runs \cup {Other}, LookUpRow(c, o) PROVE Balanced(a)'
  <2>1. /\ o \in asked[c] /\ asked' = [asked EXCEPT ![c] = @ \ {o}]
        /\ reader[c].from = Other
        /\ \/ PendingRuns(HostOf[c]) = {} /\ UNCHANGED reader
           \/ \E f \in Runs : reader' = [reader EXCEPT ![c] = [row |-> f, from |-> o]]
        /\ UNCHANGED <<result, marking, stray>>
    BY <1>t, <1>4 DEF LookUpRow, runVars, ListenForNone
  <2>2. PendingRuns(a)' = PendingRuns(a) /\ InMark(a)' = InMark(a)
    BY <2>1 DEF PendingRuns, InMark
  <2>3. CASE a = HostOf[c] /\ PendingRuns(a) = {} /\ UNCHANGED reader
    <3>1. \A d \in Conns, g \in Runs : Holds(d, g)' => Holds(d, g)
      BY <1>t, <2>1, <2>3 DEF Holds, FanOutTypeOK
    <3>2. Held(a)' \subseteq Held(a)
      BY <3>1 DEF Held, SocketsOf
    <3>3. IsFiniteSet(Held(a)') /\ Cardinality(Held(a)') \in Nat
      BY <1>c, <3>2, FS_Subset, FS_CardinalityType
    <3>4. Cardinality(PendingRuns(a)') = 0 /\ IsFiniteSet(PendingRuns(a)')
      BY <2>2, <2>3, FS_EmptySet
    <3> QED
      BY <1>c, <2>1, <2>2, <3>3, <3>4 DEF Balanced
  <2>4. CASE a # HostOf[c] /\ UNCHANGED reader
    <3>1. \A d \in Conns, g \in Runs : d # c => (Holds(d, g)' <=> Holds(d, g))
      BY <1>t, <2>1, <2>4 DEF Holds, FanOutTypeOK
    <3>2. Held(a)' = Held(a)
      BY <2>4, <3>1 DEF Held, SocketsOf
    <3> QED
      BY <2>1, <2>2, <3>2, NoMorePending
  <2>5. CASE \E f \in Runs : reader' = [reader EXCEPT ![c] = [row |-> f, from |-> o]]
    <3>1. \A d \in Conns, g \in Runs : Holds(d, g)' <=> Holds(d, g)
      BY <1>t, <2>1, <2>5 DEF Holds, FanOutTypeOK
    <3>2. Held(a)' = Held(a)
      BY <3>1 DEF Held, SocketsOf
    <3> QED
      BY <2>1, <2>2, <3>2, NoMorePending
  <2> QED
    BY <2>1, <2>3, <2>4, <2>5
<1> QED
  BY <1>1, <1>2, <1>3, <1>4

(* Every step keeps the invariant.                                         *)
LEMMA FanOutStep == FanInv /\ [FanOutNext]_fanOutVars => FanInv'
<1> SUFFICES ASSUME FanInv, [FanOutNext]_fanOutVars PROVE FanInv'
  OBVIOUS
<1>1. CASE FanOutNext
  <2>1. FanTypes'
    BY <1>1, LoopTypes, OtherTypes, FanSocketTypes DEF FanOutNext, FanInv
  <2>2. \A a \in Agents : Balanced(a)'
    BY <1>1, LoopBalance, OtherBalance, FanSocketBalance DEF FanOutNext
  <2> QED
    BY <2>1, <2>2 DEF FanInv
<1>2. CASE UNCHANGED fanOutVars
  <2>1. FanTypes'
    BY <1>2 DEF fanOutVars, runVars, FanInv, FanTypes, FanOutTypeOK,
       RegistryTypeOK, LeadsHome, LastSecond, OneLoop, MarkedIsConnected, Locked,
       SentOnce, YetToSend, Holds, ListenForNone, AskedFinite
  <2>2. \A a \in Agents : Balanced(a)'
    BY <1>2 DEF fanOutVars, runVars, FanInv, Balanced, PendingRuns, Held, Holds,
       InMark
  <2> QED
    BY <2>1, <2>2 DEF FanInv
<1> QED
  BY <1>1, <1>2

(* FanOutTypeOK: the variables keep their types.                           *)
THEOREM FanOutTypeCorrect == FanOutSpec => []FanOutTypeOK
<1>1. FanInv => FanOutTypeOK
  BY DEF FanInv, FanTypes
<1> QED
  BY FanOutInitInv, FanOutStep, <1>1, PTL DEF FanOutSpec

(* NoOrphanPending: however many runs there are and however their          *)
(* responses are mixed up, an agent has no more pending rows than requests *)
(* that may close one, but for those that a loss the code does not handle  *)
(* excuses.                                                                *)
THEOREM RowsHaveRequests == FanOutSpec => []NoOrphanPending
BY FanOutInitInv, FanOutStep, FanInvBalance, PTL DEF FanOutSpec
=============================================================================
