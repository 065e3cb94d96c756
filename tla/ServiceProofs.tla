--------------------------- MODULE ServiceProofs ---------------------------
(***************************************************************************)
(* Safety of the services around the trading path, for all values of their *)
(* constants: each section has the inductive invariant of one service, the *)
(* proof that the service's steps keep it, and the property it implies.    *)
(* The services share no variable, so their proofs share no lemma but the  *)
(* two about numbers.                                                      *)
(***************************************************************************)
EXTENDS WebSocketManager, CandleStore, PairUniverse, Engine, TelegramBot, SignalLifecycle,
        Learning, OrderFlow, MacroWatchdog, GemScanner, SequenceTheorems, FiniteSetTheorems,
        WellFoundedInduction, TLAPS

-----------------------------------------------------------------------------
(* Numbers                                                                 *)

(* A set of numbers that is not empty has a least one.                     *)
LEMMA LeastIndex ==
    ASSUME NEW V, V \subseteq Nat, V # {}
    PROVE  \E m \in V : \A v \in V : m <= v
<1> DEFINE R == OpToRel(<, Nat)
<1>1. \A v, m \in Nat : v < m => <<v, m>> \in R
    BY DEF OpToRel
<1>2. IsWellFoundedOn(R, Nat)
    BY NatLessThanWellFounded
<1> HIDE DEF R
<1>3. PICK m \in V : \A v \in V : ~ (<<v, m>> \in R)
    BY <1>2, WFMin
<1>4. ASSUME NEW v \in V PROVE m <= v
    <2>1. m \in Nat /\ v \in Nat /\ ~ (v < m)
        BY <1>1, <1>3, <1>4
    <2> QED
        BY <2>1
<1> QED
    BY <1>3, <1>4

(* Induction up to n: a set that holds 0, and with every number below n the*)
(* next one, holds n.                                                      *)
LEMMA UpTo ==
    ASSUME NEW n \in Nat, NEW W, 0 \in W, \A i \in 1..n : i - 1 \in W => i \in W
    PROVE  n \in W
<1> SUFFICES ASSUME n \notin W PROVE FALSE
    OBVIOUS
<1> DEFINE V == {i \in 0..n : i \notin W}
<1>1. V \subseteq Nat /\ n \in V
    OBVIOUS
<1>2. PICK m \in V : \A v \in V : m <= v
    BY <1>1, LeastIndex
<1>3. m \in 1..n /\ m - 1 \in 0..n /\ ~ (m <= m - 1)
    BY <1>2
<1>4. m - 1 \in W
    BY <1>2, <1>3
<1> QED
    BY <1>2, <1>3, <1>4

-----------------------------------------------------------------------------
(* WebSocketManager: an outage of a critical connection is covered.        *)

(* The inductive invariant: a connection in backoff is degraded, the       *)
(* fallback is on while a critical connection is degraded, and the poller  *)
(* runs exactly while the fallback is on.                                  *)
OutageInv ==
    /\ wsTask \in [Conns -> {"off", "connecting", "listening", "dropped", "backoff"}]
    /\ wsPhase = "running" =>
         /\ \A c \in Conns : wsTask[c] = "backoff" => c \in degraded
         /\ degraded \cap CriticalConns # {} => fallback
    /\ fallback <=> poller # "none"
    /\ wsPhase # "running" => ~ fallback

(* No connection runs and no poller polls before start().                  *)
LEMMA OutageInitInv == WsInit => OutageInv
BY DEF WsInit, OutageInv

(* Every step of the connections, the watchdog and stop() keeps the        *)
(* degraded set and the poller in step.                                    *)
LEMMA OutageStep == OutageInv /\ [WsNext]_wsVars => OutageInv'
<1> SUFFICES ASSUME OutageInv, [WsNext]_wsVars PROVE OutageInv'
    OBVIOUS
<1> USE WsAssumption DEF OutageInv, probes
<1>1. CASE WsStart
    BY <1>1 DEF WsStart
<1>2. CASE WsStop \/ WsStopped \/ Seeded
    BY <1>2 DEF WsStop, WsStopped, Seeded
<1>3. ASSUME NEW c \in Conns, Connected(c) PROVE OutageInv'
    BY <1>3 DEF Connected
<1>4. ASSUME NEW c \in Conns, Breaks(c) PROVE OutageInv'
    BY <1>4 DEF Breaks
<1>5. ASSUME NEW c \in Conns, Dropped(c) PROVE OutageInv'
    <2>1. /\ wsTask' \in [Conns -> {"off", "connecting", "listening", "dropped", "backoff"}]
          /\ \A d \in Conns : wsTask'[d] = "backoff" => d = c \/ wsTask[d] = "backoff"
        BY <1>5 DEF Dropped
    <2>2. wsPhase' = "running" /\ wsPhase = "running" /\ degraded' = degraded \cup {c}
        BY <1>5 DEF Dropped
    <2>3. CASE c \in degraded
        BY <1>5, <2>1, <2>2, <2>3 DEF Dropped
    <2>4. CASE c \notin degraded
        <3>1. SyncFallback(degraded')
            BY <1>5, <2>4 DEF Dropped
        <3> QED
            BY <2>1, <2>2, <3>1 DEF SyncFallback
    <2> QED
        BY <2>3, <2>4
<1>6. ASSUME NEW c \in Conns, BackoffOver(c) PROVE OutageInv'
    BY <1>6 DEF BackoffOver
<1>7. ASSUME NEW c \in Conns, TaskReturns(c) PROVE OutageInv'
    BY <1>7 DEF TaskReturns
<1>8. ASSUME NEW c \in Conns, Message(c) \/ Pong(c) \/ WatchdogCloses(c) \/ WatchdogPings(c) PROVE OutageInv'
    BY <1>8 DEF Message, Pong, WatchdogCloses, WatchdogPings
<1>9. ASSUME NEW c \in Conns, SocketLost(c) \/ Ages(c) PROVE OutageInv'
    BY <1>9 DEF SocketLost, Ages
<1>10. ASSUME NEW c \in Conns, StopConn(c) PROVE OutageInv'
    BY <1>10 DEF StopConn
<1>11. CASE UNCHANGED wsVars
    BY <1>11 DEF wsVars
<1> QED
    BY <1>1, <1>2, <1>3, <1>4, <1>5, <1>6, <1>7, <1>8, <1>9, <1>10, <1>11 DEF WsNext

(* While the manager runs, a critical connection in backoff has the REST   *)
(* fallback polling in its place, for any connections and limits.          *)
THEOREM OutageCoveredHolds == WsSpec => []OutageCovered
<1>1. OutageInv => OutageCovered
    BY WsAssumption DEF OutageInv, OutageCovered
<1> QED
    BY <1>1, OutageInitInv, OutageStep, PTL DEF WsSpec

-----------------------------------------------------------------------------
(* Engine: shutdown and restart.                                           *)

(* Types, and that nothing runs before the boot has launched it.           *)
EnginePhases ==
    /\ EnTypeOK
    /\ ~ booted => restart = "no" /\ \A l \in Loops : task[l] = "none"

(* A restart waits for the task that runs it, which is cancelled and only  *)
(* ends when the restart does.                                             *)
RestartStuck ==
    /\ restart \in {"no", "gathering"}
    /\ restart = "gathering" => task[PollTask] = "cancelled"

(* What an orderly shutdown has reached: no loop runs, the sockets still   *)
(* open are those it has yet to stop.                                      *)
ShutdownProgress ==
    down # "no" /\ ~ earlySignal =>
        /\ booted /\ \A l \in Loops : ~ Running(l)
        /\ down = "stopping" => sockets \subseteq toStop
        /\ down # "stopping" => sockets = {} /\ saved

(* The inductive invariant of the engine.                                  *)
EngineInv == EnginePhases /\ RestartStuck /\ ShutdownProgress

(* The engine before its boot.                                             *)
LEMMA EngineInitInv == EnInit => EngineInv
<1> SUFFICES ASSUME EnInit PROVE EngineInv
    OBVIOUS
<1>1. EnTypeOK
    <2>1. task \in [Loops -> {"none", "running", "cancelled", "ended"}]
        BY DEF EnInit
    <2>2. archived \in 0..HistoryMax /\ listed \in 0..archived
        BY EngineAssumption DEF EnInit
    <2> QED
        BY <2>1, <2>2 DEF EnInit, EnTypeOK
<1>2. EnginePhases /\ RestartStuck /\ ShutdownProgress
    BY <1>1 DEF EnInit, EnginePhases, RestartStuck, ShutdownProgress
<1> QED
    BY <1>2 DEF EngineInv

(* Cancelling the tasks of S turns those that run to cancelled.            *)
LEMMA EngineCancelled ==
    ASSUME NEW S, EnTypeOK, task' = Cancelled(S)
    PROVE  /\ task' \in [Loops -> {"none", "running", "cancelled", "ended"}]
           /\ \A l \in Loops : task'[l] = IF l \in S /\ Running(l) THEN "cancelled" ELSE task[l]
BY DEF Cancelled, EnTypeOK, Running

(* Every step keeps the types, and a step before the boot starts no task.  *)
LEMMA EngineTypeStep ==
    ASSUME EnginePhases, [RestartNext]_enVars
    PROVE  EnginePhases'
<1> USE EngineAssumption DEF EnginePhases, EnTypeOK, Running, histories
<1>1. CASE BootLaunches
    BY <1>1 DEF BootLaunches
<1>2. ASSUME NEW l \in Loops, TaskEnds(l) PROVE EnginePhases'
    BY <1>2 DEF TaskEnds
<1>3. CASE UniverseChanged
    BY <1>3 DEF UniverseChanged
<1>4. ASSUME NEW m \in Managers, RefreshStops(m) PROVE EnginePhases'
    BY <1>4 DEF RefreshStops
<1>5. CASE RestartRequested
    <2>1. /\ task' \in [Loops -> {"none", "running", "cancelled", "ended"}]
          /\ booted
        BY <1>5, EngineCancelled DEF RestartRequested
    <2> QED
        BY <1>5, <2>1 DEF RestartRequested
<1>6. CASE Terminated
    <2>1. /\ task' \in [Loops -> {"none", "running", "cancelled", "ended"}]
          /\ ~ booted => \A l \in Loops : task'[l] = "none"
        BY <1>6, EngineCancelled DEF Terminated
    <2> QED
        BY <1>6, <2>1 DEF Terminated
<1>7. ASSUME NEW m \in Managers, ShutdownStops(m) PROVE EnginePhases'
    BY <1>7 DEF ShutdownStops
<1>8. CASE ShutdownSaves \/ ShutdownDone
    BY <1>8 DEF ShutdownSaves, ShutdownDone
<1>9. CASE Archives
    BY <1>9 DEF Archives
<1>10. CASE RestartGathered \/ RestartLaunches
    BY <1>10 DEF RestartGathered, RestartLaunches
<1>11. CASE UNCHANGED enVars
    BY <1>11 DEF enVars
<1> QED
    BY <1>1, <1>2, <1>3, <1>4, <1>5, <1>6, <1>7, <1>8, <1>9, <1>10, <1>11 DEF RestartNext, EnNext

(* The restart does not get past its gather: the task it waits for is its  *)
(* own, which ends only after the restart.                                 *)
LEMMA EngineRestartStep ==
    ASSUME EnginePhases, RestartStuck, [RestartNext]_enVars
    PROVE  RestartStuck'
<1> USE EngineAssumption DEF RestartStuck, Running
<1>0. EnTypeOK
    BY DEF EnginePhases
<1>1. CASE BootLaunches
    BY <1>1 DEF BootLaunches, EnginePhases
<1>2. ASSUME NEW l \in Loops, TaskEnds(l) PROVE RestartStuck'
    BY <1>0, <1>2 DEF TaskEnds, EnTypeOK
<1>3. CASE RestartRequested
    BY <1>0, <1>3, EngineCancelled DEF RestartRequested
<1>4. CASE Terminated
    BY <1>0, <1>4, EngineCancelled DEF Terminated
<1>5. ASSUME NEW m \in Managers, RefreshStops(m) \/ ShutdownStops(m) PROVE RestartStuck'
    BY <1>5 DEF RefreshStops, ShutdownStops
<1>6. CASE UniverseChanged \/ ShutdownSaves \/ ShutdownDone \/ Archives \/ UNCHANGED enVars
    BY <1>6 DEF UniverseChanged, ShutdownSaves, ShutdownDone, Archives, enVars
<1>7. ~ RestartGathered /\ ~ RestartLaunches
    BY DEF RestartGathered, RestartLaunches
<1> QED
    BY <1>1, <1>2, <1>3, <1>4, <1>5, <1>6, <1>7 DEF RestartNext, EnNext

(* No step after the cancellation starts a task or opens a socket that     *)
(* shutdown does not know of.                                              *)
LEMMA EngineShutdownStep ==
    ASSUME EngineInv, [RestartNext]_enVars
    PROVE  ShutdownProgress'
<1> USE DEF ShutdownProgress, Running
<1>0. EnTypeOK /\ RestartStuck /\ ShutdownProgress
    BY DEF EngineInv, EnginePhases
<1>1. CASE BootLaunches
    BY <1>0, <1>1 DEF BootLaunches
<1>2. ASSUME NEW l \in Loops, TaskEnds(l) PROVE ShutdownProgress'
    BY <1>0, <1>2 DEF TaskEnds, EnTypeOK
<1>3. CASE UniverseChanged
    BY <1>0, <1>3 DEF UniverseChanged
<1>4. ASSUME NEW m \in Managers, RefreshStops(m) PROVE ShutdownProgress'
    BY <1>0, <1>4, EngineAssumption DEF RefreshStops, RefreshGoesOn
<1>5. CASE RestartRequested
    BY <1>0, <1>5, EngineAssumption DEF RestartRequested
<1>6. CASE Terminated
    <2>1. \A l \in Loops : task'[l] # "running"
        BY <1>0, <1>6, EngineCancelled DEF Terminated
    <2> QED
        BY <1>0, <1>6, <2>1 DEF Terminated, EnTypeOK
<1>7. ASSUME NEW m \in Managers, ShutdownStops(m) PROVE ShutdownProgress'
    BY <1>0, <1>7 DEF ShutdownStops
<1>8. CASE ShutdownSaves
    BY <1>0, <1>8 DEF ShutdownSaves
<1>9. CASE ShutdownDone
    BY <1>0, <1>9 DEF ShutdownDone
<1>10. CASE Archives \/ UNCHANGED enVars
    BY <1>0, <1>10 DEF Archives, enVars
<1>11. ~ RestartGathered /\ ~ RestartLaunches
    BY <1>0, EngineAssumption DEF RestartGathered, RestartLaunches, RestartStuck
<1> QED
    BY <1>1, <1>2, <1>3, <1>4, <1>5, <1>6, <1>7, <1>8, <1>9, <1>10, <1>11 DEF RestartNext, EnNext

(* The invariant holds along every behaviour of the engine, restarts or    *)
(* not.                                                                    *)
LEMMA EngineInvHolds == EnInit /\ [][RestartNext]_enVars => []EngineInv
<1>1. EngineInv /\ [RestartNext]_enVars => EngineInv'
    BY EngineTypeStep, EngineRestartStep, EngineShutdownStep DEF EngineInv
<1> QED
    BY <1>1, EngineInitInv, PTL

(* After an orderly shutdown no task runs, no socket is open and the state *)
(* is saved.                                                               *)
THEOREM ShutdownIsQuiet == EnSpec => []QuietAfterShutdown
<1>1. EngineInv => QuietAfterShutdown
    BY DEF EngineInv, ShutdownProgress, QuietAfterShutdown
<1>2. [EnNext]_enVars => [RestartNext]_enVars
    BY DEF RestartNext
<1> QED
    BY <1>1, <1>2, EngineInvHolds, PTL DEF EnSpec

(* The restart command reaches no end.                                     *)
RestartUnfinished == restart # "restarted"

(* The safety core of the finding about RestartCompletes: whatever the     *)
(* loops and managers are, a restart asked for over Telegram is never      *)
(* completed.                                                              *)
THEOREM RestartNeverCompletes == RestartSpec => []RestartUnfinished
<1>1. EngineInv => RestartUnfinished
    BY DEF EngineInv, RestartStuck, RestartUnfinished
<1> QED
    BY <1>1, EngineInvHolds, PTL DEF RestartSpec

-----------------------------------------------------------------------------
(* TelegramBot: commands are handled once.                                 *)

(* The types of the poll loop and of the updates on Telegram's side.       *)
PollTypes ==
    /\ arrived \in 0..LastUpdate /\ confirmed \in 0..arrived /\ offset \in 0..arrived
    /\ batch \subseteq 1..arrived
    /\ poll \in {"off", "clearing", "waiting", "handling"}
    /\ mark \in 0..arrived
    /\ unclear \in BOOLEAN
    /\ handled \in [1..LastUpdate -> Nat]

(* The loop is past its start.                                             *)
Polling == poll \in {"waiting", "handling"}

(* The batch in hand is what follows the offset, without a gap.            *)
BatchFollows ==
    /\ poll # "handling" => batch = {}
    /\ \A u \in batch : u > offset /\ u > confirmed
    /\ \A u \in batch : \A v \in 1..u : v > offset /\ v > confirmed => v \in batch

(* What Telegram has forgotten was taken, or is older than the start.      *)
NothingSkipped ==
    /\ Polling => confirmed <= offset \/ confirmed <= mark
    /\ \A u \in 1..arrived : Polling /\ mark < u /\ u <= offset => handled[u] > 0

(* What was handled will not be fetched again.                             *)
HandledBehind ==
    /\ \A u \in 1..LastUpdate : handled[u] > 0 => u <= arrived
    /\ ~ unclear /\ Polling => \A u \in 1..LastUpdate : handled[u] > 0 => u <= offset \/ u <= confirmed
    /\ ~ unclear => \A u \in 1..LastUpdate : handled[u] <= 1

(* The inductive invariant of the command loop.                            *)
CommandInv == PollTypes /\ BatchFollows /\ NothingSkipped /\ HandledBehind

(* Before the loop starts nothing is fetched or handled.                   *)
LEMMA CommandInitInv == TgInit => CommandInv
<1> SUFFICES ASSUME TgInit PROVE CommandInv
    OBVIOUS
<1> USE TelegramAssumption DEF TgInit
<1>1. PollTypes
    <2>1. /\ arrived \in 0..LastUpdate /\ confirmed \in 0..arrived /\ offset \in 0..arrived
          /\ mark \in 0..arrived
        OBVIOUS
    <2>2. handled \in [1..LastUpdate -> Nat]
        OBVIOUS
    <2> QED
        BY <2>1, <2>2 DEF PollTypes
<1>2. BatchFollows
    BY DEF BatchFollows
<1>3. NothingSkipped
    BY DEF NothingSkipped, Polling
<1>4. HandledBehind
    BY DEF HandledBehind, Polling
<1> QED
    BY <1>1, <1>2, <1>3, <1>4 DEF CommandInv

(* The steps of the users, the loop and Telegram keep the batch, the       *)
(* offset and the confirmed updates consistent.                            *)
LEMMA CommandStep == CommandInv /\ [TgNext]_tgVars => CommandInv'
<1> SUFFICES ASSUME CommandInv, [TgNext]_tgVars PROVE CommandInv'
    OBVIOUS
<1> USE TelegramAssumption DEF CommandInv
<1>1. CASE UNCHANGED pollVars
    BY <1>1 DEF pollVars, PollTypes, BatchFollows, NothingSkipped, HandledBehind, Polling
<1>2. CASE SendStarts \/ SendAttempt \/ SendReported
    BY <1>1, <1>2 DEF SendStarts, SendAttempt, SendReported
<1>3. CASE UserWrites
    <2>1. PollTypes'
        BY <1>3 DEF UserWrites, PollTypes
    <2>2. BatchFollows'
        BY <1>3 DEF UserWrites, BatchFollows
    <2>3. NothingSkipped'
        BY <1>3 DEF UserWrites, NothingSkipped, Polling, PollTypes
    <2>4. HandledBehind'
        BY <1>3 DEF UserWrites, HandledBehind, Polling, PollTypes
    <2> QED
        BY <2>1, <2>2, <2>3, <2>4
<1>4. CASE PollStarts
    BY <1>4 DEF PollStarts, PollTypes, BatchFollows, NothingSkipped, HandledBehind, Polling
<1>5. CASE ClearStale
    <2>1. /\ poll = "clearing" /\ poll' = "waiting" /\ mark' = arrived
          /\ UNCHANGED <<arrived, batch, polls, handled>>
        BY <1>5 DEF ClearStale
    <2>2. CASE Cleared /\ UNCHANGED unclear
        <3>1. confirmed' \in 0..arrived /\ offset' \in 0..arrived /\ (offset' = arrived \/ confirmed' = arrived)
            BY <2>2 DEF Cleared, PollTypes
        <3> QED
            BY <2>1, <2>2, <3>1 DEF PollTypes, BatchFollows, NothingSkipped, HandledBehind, Polling
    <2>3. CASE /\ unclear' = TRUE
               /\ confirmed' \in {confirmed} \cup {u \in confirmed..arrived : u = arrived - 1}
               /\ UNCHANGED offset
        <3>1. arrived \in Nat /\ confirmed \in 0..arrived
            BY DEF PollTypes
        <3>2. confirmed' = confirmed \/ confirmed' \in confirmed..arrived
            BY <2>3
        <3>3. confirmed' \in 0..arrived
            BY <3>1, <3>2
        <3> QED
            BY <2>1, <2>3, <3>3 DEF PollTypes, BatchFollows, NothingSkipped, HandledBehind, Polling
    <2> QED
        BY <1>5, <2>2, <2>3 DEF ClearStale
<1>6. CASE PollAnswered
    <2> DEFINE from == IF offset > confirmed THEN offset ELSE confirmed
    <2>1. /\ confirmed' = from /\ poll = "waiting"
          /\ \/ /\ arrived > from
                /\ batch' = {u \in 1..arrived : u > from /\ u <= from + BatchSize}
                /\ poll' = "handling"
             \/ UNCHANGED <<batch, poll>>
          /\ UNCHANGED <<arrived, offset, polls, handled, mark, unclear>>
        BY <1>6 DEF PollAnswered
    <2>2. from \in 0..arrived /\ from >= offset /\ from >= confirmed /\ (from = offset \/ from = confirmed)
        BY DEF PollTypes
    <2>3. batch = {}
        BY <2>1 DEF BatchFollows
    <2> HIDE DEF from
    <2>4. PollTypes'
        BY <2>1, <2>2 DEF PollTypes
    <2>5. BatchFollows'
        <3>1. arrived \in Nat /\ offset \in Int /\ confirmed \in Int /\ from \in Int /\ BatchSize \in Int
            BY <2>2 DEF PollTypes
        <3>2. CASE UNCHANGED <<batch, poll>>
            BY <2>1, <2>3, <3>2 DEF BatchFollows
        <3>3. CASE /\ batch' = {u \in 1..arrived : u > from /\ u <= from + BatchSize}
                   /\ poll' = "handling"
            <4>1. \A u \in batch' : u > offset /\ u > from
                BY <2>2, <3>1, <3>3
            <4>2. ASSUME NEW u \in batch', NEW v \in 1..u, v > from PROVE v \in batch'
                BY <3>1, <3>3, <4>2
            <4> QED
                BY <2>1, <3>3, <4>1, <4>2 DEF BatchFollows
        <3> QED
            BY <2>1, <3>2, <3>3
    <2>6. NothingSkipped'
        BY <2>1, <2>2 DEF PollTypes, NothingSkipped, Polling
    <2>7. HandledBehind'
        BY <2>1, <2>2 DEF PollTypes, HandledBehind, Polling
    <2> QED
        BY <2>4, <2>5, <2>6, <2>7
<1>7. CASE HandleUpdate
    <2>1. PICK u \in batch :
            /\ \A v \in batch : u <= v
            /\ Taken(u)
            /\ handled' = [handled EXCEPT ![u] = @ + 1]
            /\ batch' = batch \ {u} \/ batch' = {}
        BY <1>7 DEF HandleUpdate
    <2>2. /\ poll = "handling" /\ offset' = u
          /\ poll' = IF batch' = {} THEN "waiting" ELSE "handling"
          /\ UNCHANGED <<arrived, confirmed, polls, mark, unclear>>
        BY <1>7, <2>1 DEF HandleUpdate, Taken
    <2>3. u \in 1..arrived /\ u \in 1..LastUpdate /\ batch' \subseteq batch /\ u > offset /\ u > confirmed
        BY <2>1 DEF PollTypes, BatchFollows
    <2>4. /\ handled' \in [1..LastUpdate -> Nat]
          /\ \A v \in 1..LastUpdate : handled'[v] = IF v = u THEN handled[u] + 1 ELSE handled[v]
        BY <2>1, <2>3 DEF PollTypes
    <2>5. PollTypes'
        BY <2>2, <2>3, <2>4 DEF PollTypes
    <2>6. BatchFollows'
        <3>1. ASSUME NEW v \in batch' PROVE v \in Int /\ v >= u /\ v # u
            <4>1. v \in batch /\ v # u
                BY <2>1
            <4>2. v \in 1..arrived /\ arrived \in Int
                BY <4>1 DEF PollTypes
            <4> QED
                BY <2>1, <2>3, <4>1, <4>2
        <3>2. \A v \in batch' : v > offset' /\ v > confirmed'
            BY <2>2, <2>3, <3>1 DEF PollTypes
        <3>3. ASSUME NEW v \in batch', NEW w \in 1..v, w > offset', w > confirmed'
              PROVE  w \in batch'
            <4>1. v \in batch /\ w > offset /\ w > confirmed /\ w # u
                BY <2>2, <2>3, <3>3 DEF PollTypes
            <4>2. w \in batch
                BY <4>1 DEF BatchFollows
            <4> QED
                BY <2>1, <3>3, <4>1, <4>2
        <3> QED
            BY <2>2, <3>2, <3>3 DEF BatchFollows
    <2>7. NothingSkipped'
        <3>1. ASSUME NEW v \in 1..arrived, mark < v, v <= u PROVE handled'[v] > 0
            <4>1. v \in 1..LastUpdate /\ handled[v] \in Nat
                BY <2>3 DEF PollTypes
            <4>2. CASE v = u
                BY <2>4, <4>1, <4>2
            <4>3. CASE v <= offset
                BY <2>2, <2>4, <3>1, <4>1, <4>3 DEF NothingSkipped, Polling
            <4>4. CASE v # u /\ ~ (v <= offset)
                <5>1. v > confirmed
                    BY <2>2, <3>1, <4>4 DEF NothingSkipped, Polling, PollTypes
                <5>2. v \in batch
                    BY <2>1, <2>3, <3>1, <4>4, <5>1 DEF BatchFollows, PollTypes
                <5> QED
                    BY <2>1, <2>3, <3>1, <4>4, <5>2
            <4> QED
                BY <4>2, <4>3, <4>4
        <3> QED
            BY <2>2, <2>3, <3>1 DEF NothingSkipped, Polling, PollTypes
    <2>8. HandledBehind'
        <3>1. ~ unclear => handled[u] = 0
            BY <2>2, <2>3 DEF HandledBehind, Polling, PollTypes
        <3>2. ASSUME NEW v \in 1..LastUpdate, handled'[v] > 0
              PROVE  v <= arrived /\ (~ unclear => v <= u \/ v <= confirmed)
            <4>1. CASE v = u
                BY <2>3, <4>1
            <4>2. CASE v # u
                BY <2>2, <2>3, <2>4, <3>2, <4>2 DEF HandledBehind, Polling, PollTypes
            <4> QED
                BY <4>1, <4>2
        <3>3. ASSUME NEW v \in 1..LastUpdate, ~ unclear PROVE handled'[v] <= 1
            BY <2>4, <3>1, <3>3 DEF HandledBehind, PollTypes
        <3> QED
            BY <2>2, <3>2, <3>3 DEF HandledBehind
    <2> QED
        BY <2>5, <2>6, <2>7, <2>8
<1>8. CASE PollDies
    BY <1>8 DEF PollDies, PollTypes, BatchFollows, NothingSkipped, HandledBehind, Polling
<1>9. CASE UNCHANGED tgVars
    BY <1>1, <1>9 DEF tgVars
<1> QED
    BY <1>2, <1>3, <1>4, <1>5, <1>6, <1>7, <1>8, <1>9 DEF TgNext

(* Commands that arrive while the loop polls are handled in order, none    *)
(* twice and none left out, for any number of updates and any batch size;  *)
(* the one exception is a failed clearing of the backlog.                  *)
THEOREM CommandsOnceHolds == TgSpec => []CommandsHandledOnce
<1>1. CommandInv => CommandsHandledOnce
    BY DEF CommandInv, NothingSkipped, HandledBehind, Polling, CommandsHandledOnce
<1> QED
    BY <1>1, CommandInitInv, CommandStep, PTL DEF TgSpec

-----------------------------------------------------------------------------
(* SignalLifecycle: one late update.                                       *)

(* The inductive invariant: an update sent after its signal closed was the *)
(* last of its round, and a closed signal is in no later snapshot.         *)
LateInv ==
    /\ round \subseteq Watched /\ held \subseteq Watched
    /\ late \in [Watched -> Nat]
    /\ held \cap past = {}
    /\ \A t \in Watched : late[t] > 0 => late[t] = 1 /\ t \in past /\ t \notin round

(* No signal is held before the first opens.                               *)
LEMMA LateInitInv == SlInit => LateInv
BY DEF SlInit, LateInv

(* A signal that has closed leaves the round with its check.               *)
LEMMA LateStep == LateInv /\ [SlNext]_slVars => LateInv'
<1> SUFFICES ASSUME LateInv, [SlNext]_slVars PROVE LateInv'
    OBVIOUS
<1> USE DEF LateInv
<1>1. CASE RoundStarts
    BY <1>1 DEF RoundStarts, Snapshot
<1>2. CASE Posted \/ ChartPosted \/ LifeTick \/ UNCHANGED slVars
    BY <1>2 DEF Posted, ChartPosted, LifeTick, slVars
<1>3. ASSUME NEW t \in Watched, NotDue(t) PROVE LateInv'
    BY <1>3 DEF NotDue
<1>4. ASSUME NEW t \in Watched, CheckSignal(t) PROVE LateInv'
    <2>1. late[t] = 0 /\ round' = round \ {t} /\ UNCHANGED <<held, past>>
        BY <1>4 DEF CheckSignal
    <2>2. /\ late' \in [Watched -> Nat]
          /\ \A x \in Watched : x # t => late'[x] = late[x]
          /\ late'[t] = IF t \in past THEN 1 ELSE 0
        BY <1>4, <2>1 DEF CheckSignal
    <2> QED
        BY <2>1, <2>2
<1>5. ASSUME NEW t \in Watched, SignalOpens(t) PROVE LateInv'
    BY <1>5 DEF SignalOpens
<1>6. ASSUME NEW t \in Watched, SignalCloses(t) PROVE LateInv'
    BY <1>6 DEF SignalCloses
<1> QED
    BY <1>1, <1>2, <1>3, <1>4, <1>5, <1>6 DEF SlNext

(* A signal gets at most one lifecycle update after it closed, however the *)
(* round and the closings interleave.                                      *)
THEOREM LateUpdateHolds == SlSpec => []OneLateUpdate
<1>1. LateInv => OneLateUpdate
    BY DEF LateInv, OneLateUpdate
<1> QED
    BY <1>1, LateInitInv, LateStep, PTL DEF SlSpec

-----------------------------------------------------------------------------
(* Learning: outcomes are kept.                                            *)

(* The performance records, their file and what the run has kept are the   *)
(* same set until the file is torn.                                        *)
RecordsAgree ==
    /\ kept \subseteq Trades
    /\ "records" \notin damaged => records = kept /\ file = kept

(* Only ended trades are analysed or written to the diary.                 *)
AnalysedEnded ==
    /\ stage \in [Trades -> {"none", "open", "ended"}]
    /\ \A t \in analysed : t \in Trades /\ stage[t] = "ended"
    /\ diary = Torn \/ \A t \in diary : t \in Trades /\ stage[t] = "ended"

(* Without an unfinished save the observer's diary and its memory agree on *)
(* all but outdated trades.                                                *)
DiaryAgrees ==
    /\ saving \in BOOLEAN
    /\ diary = Torn => "diary" \in damaged
    /\ "diary" \notin damaged /\ ~ saving => analysed \ stale = diary \ stale

(* The inductive invariant of what is learnt from outcomes.                *)
OutcomeInv == RecordsAgree /\ AnalysedEnded /\ DiaryAgrees

(* A fresh process with nothing recorded.                                  *)
LEMMA OutcomeInitInv == LrInit => OutcomeInv
BY DEF LrInit, OutcomeInv, RecordsAgree, AnalysedEnded, DiaryAgrees, Torn

(* Every step that changes the records writes them.                        *)
LEMMA RecordsStep == OutcomeInv /\ [LrNext]_lrVars => RecordsAgree'
<1> SUFFICES ASSUME OutcomeInv, [LrNext]_lrVars PROVE RecordsAgree'
    OBVIOUS
<1> USE DEF OutcomeInv, RecordsAgree, outcomes, observer
<1>1. ASSUME NEW t \in Trades, Register(t) \/ CaptureEntry(t) \/ ObserveTrade(t) \/ CleanedUp(t) \/ Outdated(t)
      PROVE  RecordsAgree'
    BY <1>1 DEF Register, CaptureEntry, ObserveTrade, CleanedUp, Outdated
<1>2. ASSUME NEW t \in Trades, NEW won \in BOOLEAN, TradeEnded(t, won) PROVE RecordsAgree'
    BY <1>2 DEF TradeEnded, RecordOutcome, WriteRecords
<1>3. ASSUME NEW S, ResetStats(S) PROVE RecordsAgree'
    BY <1>3 DEF ResetStats, WriteRecords
<1>4. CASE SaveObserver
    BY <1>4 DEF SaveObserver, WriteDiary
<1>5. CASE DigestStarts \/ DigestSent \/ UNCHANGED lrVars
    BY <1>5 DEF DigestStarts, DigestSent, lrVars
<1>6. CASE LrRestart
    <2>1. "records" \notin damaged => Loaded(file) = file
        BY LearningAssumption DEF Loaded, Torn
    <2> QED
        BY <1>6, <2>1 DEF LrRestart
<1> QED
    BY <1>1, <1>2, <1>3, <1>4, <1>5, <1>6 DEF LrNext

(* A trade is analysed when it ends, and a restart loads what was          *)
(* analysed.                                                               *)
LEMMA AnalysedStep == OutcomeInv /\ [LrNext]_lrVars => AnalysedEnded'
<1> SUFFICES ASSUME OutcomeInv, [LrNext]_lrVars PROVE AnalysedEnded'
    OBVIOUS
<1> USE DEF OutcomeInv, AnalysedEnded, outcomes, observer
<1>1. ASSUME NEW t \in Trades, Register(t) PROVE AnalysedEnded'
    BY <1>1 DEF Register
<1>2. ASSUME NEW t \in Trades, CleanedUp(t) PROVE AnalysedEnded'
    BY <1>2 DEF CleanedUp
<1>3. ASSUME NEW t \in Trades, CaptureEntry(t) \/ ObserveTrade(t) \/ Outdated(t) PROVE AnalysedEnded'
    BY <1>3 DEF CaptureEntry, ObserveTrade, Outdated
<1>4. ASSUME NEW t \in Trades, NEW won \in BOOLEAN, TradeEnded(t, won) PROVE AnalysedEnded'
    <2>1. /\ stage' = [stage EXCEPT ![t] = "ended"] /\ diary' = diary
          /\ analysed' \subseteq analysed \cup {t}
        BY <1>4 DEF TradeEnded, CaptureExit
    <2> QED
        BY <2>1
<1>5. ASSUME NEW S, ResetStats(S) PROVE AnalysedEnded'
    BY <1>5 DEF ResetStats
<1>6. CASE SaveObserver
    BY <1>6 DEF SaveObserver, WriteDiary
<1>7. CASE DigestStarts \/ DigestSent \/ UNCHANGED lrVars
    BY <1>7 DEF DigestStarts, DigestSent, lrVars
<1>8. CASE LrRestart
    <2>1. /\ stage' = [t \in Trades |-> IF stage[t] = "open" THEN "ended" ELSE stage[t]]
          /\ analysed' = Loaded(diary) \ stale /\ diary' = diary
        BY <1>8 DEF LrRestart
    <2> QED
        BY <2>1 DEF Loaded
<1> QED
    BY <1>1, <1>2, <1>3, <1>4, <1>5, <1>6, <1>7, <1>8 DEF LrNext

(* An observation that changes memory asks for a save, and the save writes *)
(* all of it.                                                              *)
LEMMA DiaryStep == OutcomeInv /\ [LrNext]_lrVars => DiaryAgrees'
<1> SUFFICES ASSUME OutcomeInv, [LrNext]_lrVars PROVE DiaryAgrees'
    OBVIOUS
<1> USE DEF OutcomeInv, DiaryAgrees, outcomes, observer
<1>1. ASSUME NEW t \in Trades, Register(t) \/ CaptureEntry(t) \/ ObserveTrade(t) \/ CleanedUp(t)
      PROVE  DiaryAgrees'
    BY <1>1 DEF Register, CaptureEntry, ObserveTrade, CleanedUp
<1>2. ASSUME NEW t \in Trades, Outdated(t) PROVE DiaryAgrees'
    BY <1>2 DEF Outdated
<1>3. ASSUME NEW t \in Trades, NEW won \in BOOLEAN, TradeEnded(t, won) PROVE DiaryAgrees'
    <2>1. "diary" \in damaged' <=> "diary" \in damaged
        BY <1>3 DEF TradeEnded, RecordOutcome, WriteRecords
    <2>2. UNCHANGED <<stale, diary>>
        BY <1>3 DEF TradeEnded
    <2>3. CASE watch[t].state = "open"
        <3>1. saving' = TRUE
            BY <1>3, <2>3 DEF TradeEnded, CaptureExit
        <3> QED
            BY <2>1, <2>2, <3>1
    <2>4. CASE watch[t].state # "open"
        <3>1. UNCHANGED <<analysed, saving>>
            BY <1>3, <2>4 DEF TradeEnded, CaptureExit
        <3> QED
            BY <2>1, <2>2, <3>1
    <2> QED
        BY <2>3, <2>4
<1>4. ASSUME NEW S, ResetStats(S) PROVE DiaryAgrees'
    BY <1>4 DEF ResetStats, WriteRecords
<1>5. CASE SaveObserver
    <2>1. CASE diary' = analysed /\ UNCHANGED damaged
        <3>1. diary' # Torn
            BY <2>1, LearningAssumption DEF AnalysedEnded, Torn
        <3> QED
            BY <1>5, <2>1, <3>1 DEF SaveObserver
    <2>2. CASE diary' = Torn /\ damaged' = damaged \cup {"diary"}
        BY <1>5, <2>2 DEF SaveObserver
    <2> QED
        BY <1>5, <2>1, <2>2 DEF SaveObserver, WriteDiary
<1>6. CASE DigestStarts \/ DigestSent \/ UNCHANGED lrVars
    BY <1>6 DEF DigestStarts, DigestSent, lrVars
<1>7. CASE LrRestart
    BY <1>7 DEF LrRestart, Loaded
<1> QED
    BY <1>1, <1>2, <1>3, <1>4, <1>5, <1>6, <1>7 DEF LrNext

(* What was recorded and analysed is on disk and survives restarts unless  *)
(* a write was torn, for any trades.                                       *)
THEOREM OutcomesKeptHolds == LrSpec => []OutcomesKept
<1>1. OutcomeInv => OutcomesKept
    BY DEF OutcomeInv, RecordsAgree, AnalysedEnded, DiaryAgrees, OutcomesKept
<1>2. OutcomeInv /\ [LrNext]_lrVars => OutcomeInv'
    BY RecordsStep, AnalysedStep, DiaryStep DEF OutcomeInv
<1> QED
    BY <1>1, <1>2, OutcomeInitInv, PTL DEF LrSpec

-----------------------------------------------------------------------------
(* MacroWatchdog: one alert per headline.                                  *)

(* The types of the watchdog's clocks and of its seen headlines.           *)
WatchTypes ==
    /\ watching \in Waits /\ uptime \in 0..DedupTtl
    /\ seen \in [Headlines -> 0..DedupTtl \cup {Unseen}]
    /\ alerted \in [Headlines -> 0..DedupTtl]
    /\ detected \in 0..DedupTtl /\ since \in 0..DedupTtl

(* A headline that was announced less than the expiry ago is remembered,   *)
(* with an age no greater than that of its alert.                          *)
AlertsRemembered ==
    \A h \in Headlines : alerted[h] = DedupTtl \/ (seen[h] # Unseen /\ seen[h] <= alerted[h])

(* The headline between its detection and its alert had no recent alert,   *)
(* and is remembered since its detection.                                  *)
UnderWay ==
    watching[1] \in {"classify", "alert"} =>
        LET h == watching[2]
        IN  /\ since = DedupTtl
            /\ detected = DedupTtl \/ (seen[h] # Unseen /\ seen[h] <= detected)

(* The inductive invariant of the deduplication.                           *)
HeadlineInv == WatchTypes /\ AlertsRemembered /\ UnderWay

(* Where the watchdog may wait.                                            *)
LEMMA WaitsIdle ==
    /\ \A s \in {"off", "sleep", "index", "index alert", "news"} : Idle(s) \in Waits /\ Idle(s)[1] = s
    /\ \A w \in Waits : w[1] \in {"classify", "alert"} => w[2] \in Headlines
    /\ \A h \in Headlines, s \in {"classify", "alert"} : <<s, h>> \in Waits
BY DEF Idle, Waits

(* A fresh watchdog has seen nothing.                                      *)
LEMMA WatchInitInv == MwInit => HeadlineInv
<1> SUFFICES ASSUME MwInit PROVE HeadlineInv
    OBVIOUS
<1>1. watching \in Waits /\ watching[1] = "off"
    BY WaitsIdle DEF MwInit
<1>2. /\ 0 \in 0..DedupTtl /\ DedupTtl \in 0..DedupTtl
    BY WatchdogAssumption
<1>3. WatchTypes /\ AlertsRemembered
    BY <1>1, <1>2 DEF MwInit, WatchTypes, AlertsRemembered
<1> QED
    BY <1>1, <1>3 DEF HeadlineInv, UnderWay

(* Ageing keeps a clock in its range, and a saturated or unset one as it   *)
(* is.                                                                     *)
LEMMA AgedRange ==
    ASSUME NEW n \in 0..DedupTtl \cup {Unseen}
    PROVE  /\ Aged(n) \in 0..DedupTtl \cup {Unseen}
           /\ n # Unseen => Aged(n) \in 0..DedupTtl /\ Aged(n) # Unseen
           /\ n = Unseen => Aged(n) = Unseen
           /\ n = DedupTtl => Aged(n) = DedupTtl
BY WatchdogAssumption DEF Aged

(* Ageing is monotonic.                                                    *)
LEMMA AgedOrder ==
    ASSUME NEW m \in 0..DedupTtl, NEW n \in 0..DedupTtl, m <= n
    PROVE  Aged(m) <= Aged(n)
BY WatchdogAssumption DEF Aged

(* Every step keeps the announced headlines remembered: pruning forgets    *)
(* those whose age has run out, and their alert is as old at least.        *)
LEMMA HeadlineStep == HeadlineInv /\ [MwNext]_mwVars => HeadlineInv'
<1> SUFFICES ASSUME HeadlineInv, [MwNext]_mwVars PROVE HeadlineInv'
    OBVIOUS
<1> USE WatchdogAssumption DEF HeadlineInv
<1>1. CASE UNCHANGED <<uptime, seen, alerted, detected, since>> /\ watching' \in Waits
             /\ watching'[1] \notin {"classify", "alert"}
    BY <1>1 DEF WatchTypes, AlertsRemembered, UnderWay
<1>2. CASE WatchdogStarts \/ WatchdogStops \/ PollAgain \/ IndexAnnounced
    BY <1>1, <1>2, WaitsIdle DEF WatchdogStarts, WatchdogStops, PollAgain, IndexAnnounced
<1>3. ASSUME NEW v, IndexRead(v) PROVE HeadlineInv'
    BY <1>1, <1>3, WaitsIdle DEF IndexRead
<1>4. CASE WatchdogDies
    <2>1. watching' \in Waits /\ watching'[1] = "off"
        BY <1>4, WaitsIdle DEF WatchdogDies
    <2> QED
        BY <1>4, <2>1 DEF WatchdogDies, WatchTypes, AlertsRemembered, UnderWay
<1>5. ASSUME NEW c \in Coins, NewsFetched(c), NoNews(c) PROVE HeadlineInv'
    BY <1>1, <1>5, WaitsIdle DEF NewsFetched, NoNews
<1>6. ASSUME NEW c \in Coins, NewsFetched(c), NEW h \in Headlines, Detected(c, h) PROVE HeadlineInv'
    <2>1. /\ SinceSeen(h) >= DedupTtl
          /\ seen' = Pruned([seen EXCEPT ![h] = 0])
          /\ detected' = 0 /\ since' = alerted[h]
          /\ watching' = <<"classify", h>>
          /\ UNCHANGED <<uptime, alerted>>
        BY <1>6 DEF NewsFetched, Detected
    <2>2. \A x \in Headlines : seen'[x] =
             IF x = h THEN 0 ELSE IF seen[x] # Unseen /\ seen[x] >= DedupTtl THEN Unseen ELSE seen[x]
        BY <2>1 DEF Pruned, Forgettable, WatchTypes
    <2>3. seen' \in [Headlines -> 0..DedupTtl \cup {Unseen}]
        BY <2>1, <2>2 DEF Pruned, WatchTypes
    <2>4. alerted[h] = DedupTtl
        BY <2>1 DEF SinceSeen, AlertsRemembered, WatchTypes
    <2>5. WatchTypes'
        <3>1. <<"classify", h>> \in Waits
            BY WaitsIdle
        <3>2. 0 \in 0..DedupTtl /\ alerted[h] \in 0..DedupTtl
            BY DEF WatchTypes
        <3> QED
            BY <2>1, <2>3, <3>1, <3>2 DEF WatchTypes
    <2>6. AlertsRemembered'
        <3> SUFFICES ASSUME NEW x \in Headlines, alerted[x] # DedupTtl
                     PROVE  seen'[x] # Unseen /\ seen'[x] <= alerted[x]
            BY <2>1 DEF AlertsRemembered
        <3>1. /\ seen[x] # Unseen /\ seen[x] <= alerted[x]
              /\ alerted[x] \in 0..DedupTtl /\ seen[x] \in 0..DedupTtl
            BY DEF AlertsRemembered, WatchTypes
        <3>2. x # h /\ ~ (seen[x] >= DedupTtl)
            BY <2>4, <3>1
        <3>3. seen'[x] = seen[x]
            BY <2>2, <3>2
        <3> QED
            BY <3>1, <3>3
    <2>7. UnderWay'
        <3>1. watching'[2] = h
            BY <2>1
        <3>2. seen'[h] = 0 /\ Unseen # 0
            BY <2>2
        <3>3. detected' = 0 /\ since' = DedupTtl
            BY <2>1, <2>4
        <3> QED
            BY <3>1, <3>2, <3>3 DEF UnderWay
    <2> QED
        BY <2>5, <2>6, <2>7
<1>7. CASE Classified
    <2>1. CASE NewsNext
        BY <1>1, <1>7, <2>1, WaitsIdle DEF Classified, NewsNext
    <2>2. CASE watching' = <<"alert", watching[2]>>
        <3>1. watching' \in Waits
            BY <1>7, <2>2, WaitsIdle DEF Classified, WatchTypes
        <3> QED
            BY <1>7, <2>2, <3>1 DEF Classified, WatchTypes, AlertsRemembered, UnderWay
    <2> QED
        BY <1>7, <2>1, <2>2 DEF Classified
<1>8. CASE AlertSent
    <2>1. watching[2] \in Headlines
        BY <1>8, WaitsIdle DEF AlertSent, WatchTypes
    <2>2. watching' \in Waits /\ watching'[1] \in {"sleep", "news"}
        BY <1>8, WaitsIdle DEF AlertSent, NewsNext
    <2> QED
        BY <1>8, <2>1, <2>2 DEF AlertSent, WatchTypes, AlertsRemembered, UnderWay
<1>9. CASE MacroTick
    <2>1. /\ \A h \in Headlines : seen'[h] = Aged(seen[h]) /\ alerted'[h] = Aged(alerted[h])
          /\ detected' = Aged(detected) /\ uptime' = Aged(uptime)
          /\ UNCHANGED <<watching, since>>
        BY <1>9 DEF MacroTick
    <2>2. WatchTypes'
        <3>1. \A n \in 0..DedupTtl : Aged(n) \in 0..DedupTtl
            BY AgedRange
        <3>2. uptime' \in 0..DedupTtl /\ detected' \in 0..DedupTtl
            BY <2>1, <3>1 DEF WatchTypes
        <3>3. alerted' \in [Headlines -> 0..DedupTtl]
            BY <1>9, <3>1 DEF MacroTick, WatchTypes
        <3>4. \A h \in Headlines : Aged(seen[h]) \in 0..DedupTtl \cup {Unseen}
            BY AgedRange DEF WatchTypes
        <3>5. seen' \in [Headlines -> 0..DedupTtl \cup {Unseen}]
            BY <1>9, <3>4 DEF MacroTick
        <3> QED
            BY <2>1, <3>2, <3>3, <3>5 DEF WatchTypes
    <2>3. ASSUME NEW h \in Headlines, NEW n \in 0..DedupTtl,
                 n = DedupTtl \/ (seen[h] # Unseen /\ seen[h] <= n)
          PROVE  Aged(n) = DedupTtl \/ (seen'[h] # Unseen /\ seen'[h] <= Aged(n))
        <3>1. CASE n = DedupTtl
            BY <3>1, AgedRange
        <3>2. CASE seen[h] # Unseen /\ seen[h] <= n
            <4>1. seen[h] \in 0..DedupTtl
                BY <3>2 DEF WatchTypes
            <4> QED
                BY <2>1, <3>2, <4>1, AgedRange, AgedOrder
        <3> QED
            BY <2>3, <3>1, <3>2
    <2>4. AlertsRemembered'
        BY <2>1, <2>3 DEF AlertsRemembered, WatchTypes
    <2>5. UnderWay'
        BY <2>1, <2>3, WaitsIdle DEF UnderWay, WatchTypes
    <2> QED
        BY <2>2, <2>4, <2>5
<1>10. CASE UNCHANGED mwVars
    BY <1>10 DEF mwVars, WatchTypes, AlertsRemembered, UnderWay
<1> QED
    BY <1>2, <1>3, <1>4, <1>5, <1>6, <1>7, <1>8, <1>9, <1>10 DEF MwNext, NewsFetched

(* A headline is announced once within the expiry, for any expiry,         *)
(* headlines and coins.                                                    *)
THEOREM HeadlineOnceHolds == MwSpec => []HeadlineOnce
<1>1. HeadlineInv => HeadlineOnce
    BY WatchdogAssumption DEF HeadlineInv, UnderWay, HeadlineOnce
<1> QED
    BY <1>1, WatchInitInv, HeadlineStep, PTL DEF MwSpec

-----------------------------------------------------------------------------
(* GemScanner: the daily cap.                                              *)

(* The limit that holds over a day whose cap was changed.                  *)
GemLimit == IF largestCap > 0 THEN largestCap ELSE 1

(* The inductive invariant of the daily cap: the counter is that of today, *)
(* and a gem that waits for the queue has room left.                       *)
GemInv ==
    /\ GmTypeOK
    /\ gemsToday \in Nat
    /\ cap <= largestCap
    /\ gemsToday = IF daily.day = "today" THEN daily.n ELSE 0
    /\ gemStep = "put" /\ daily.day = "today" => daily.n < GemLimit
    /\ gemsToday <= GemLimit

(* Nothing is published on the first day.                                  *)
LEMMA GemInitInv == GmInit => GemInv
BY GemAssumption DEF GmInit, GemInv, GmTypeOK, GemLimit, Count

(* The fields of the daily counter.                                        *)
LEMMA GemTypes ==
    ASSUME GmTypeOK
    PROVE  /\ cap \in Nat /\ largestCap \in Nat /\ daily.n \in Nat
           /\ daily.day \in {"never", "past", "today"}
           /\ daily = [day |-> daily.day, n |-> daily.n]
BY GemAssumption DEF GmTypeOK

(* Only a published gem counts, and it found the cap unreached.            *)
LEMMA GemStepInv == GemInv /\ [GmNext]_gmVars => GemInv'
<1> SUFFICES ASSUME GemInv, [GmNext]_gmVars PROVE GemInv'
    OBVIOUS
<1>1. GmTypeOK
    BY DEF GemInv
<1>2. /\ cap \in Nat /\ largestCap \in Nat /\ daily.n \in Nat /\ gemsToday \in Nat
      /\ daily.day \in {"never", "past", "today"}
    BY <1>1, GemTypes DEF GemInv
<1> USE DEF GemInv, GmTypeOK, GemLimit
<1>3. CASE GemRoundStarts \/ GemSwitched \/ GemHour \/ UNCHANGED gmVars
    BY <1>3 DEF GemRoundStarts, GemSwitched, GemHour, gmVars
<1>4. ASSUME NEW s \in GemPairs, GemScanStarts(s) PROVE GemInv'
    BY <1>4 DEF GemScanStarts
<1>5. ASSUME NEW g \in Candidates, NEW chain \in Chains, GemEvaluated(g, chain) PROVE GemInv'
    <2>1. CASE gemOn /\ Screened(g) /\ ~ CapReached
        <3>1. /\ daily' = Counted /\ gemStep' \in {"put", "idle"}
              /\ UNCHANGED <<gemOn, thresholds, cap, gemWait, gemRound, gemsToday, largestCap>>
            BY <1>5, <2>1 DEF GemEvaluated
        <3>2. CASE daily.day = "past"
            BY <1>2, <3>1, <3>2 DEF Counted, Count
        <3>3. CASE daily.day # "past"
            BY <1>2, <2>1, <3>1, <3>3 DEF Counted, CapReached
        <3> QED
            BY <3>2, <3>3
    <2>2. CASE ~ (gemOn /\ Screened(g) /\ ~ CapReached)
        <3>1. /\ daily' = daily /\ gemStep' = "idle"
              /\ UNCHANGED <<gemOn, thresholds, cap, gemWait, gemRound, gemsToday, largestCap>>
            BY <1>5, <2>2 DEF GemEvaluated
        <3> QED
            BY <3>1
    <2> QED
        BY <2>1, <2>2
<1>6. CASE GemQueued
    <2>1. CASE RecordPublished /\ gemsToday' = gemsToday + 1
        BY <1>2, <1>6, <2>1 DEF GemQueued, RecordPublished, Count
    <2>2. CASE UNCHANGED <<daily, gemsToday>>
        BY <1>6, <2>2 DEF GemQueued
    <2> QED
        BY <1>6, <2>1, <2>2 DEF GemQueued
<1>7. CASE GemConfigured
    <2>1. CASE cap' \in Caps /\ largestCap' = IF cap' > largestCap THEN cap' ELSE largestCap
        <3>1. cap' \in Nat
            BY <2>1, GemAssumption
        <3> QED
            BY <1>2, <1>7, <2>1, <3>1 DEF GemConfigured
    <2>2. CASE UNCHANGED <<cap, largestCap>>
        BY <1>7, <2>2 DEF GemConfigured
    <2> QED
        BY <1>7, <2>1, <2>2 DEF GemConfigured
<1>8. CASE Midnight
    <2>1. /\ daily'.n \in Nat /\ daily'.day \in {"never", "past"}
          /\ daily' \in [day : {"never", "past", "today"}, n : Nat]
        BY <1>2, <1>8 DEF Midnight
    <2> QED
        BY <1>2, <1>8, <2>1 DEF Midnight
<1> QED
    BY <1>3, <1>4, <1>5, <1>6, <1>7, <1>8 DEF GmNext

(* No day publishes more gems than its largest cap, also when the cap is   *)
(* changed or midnight passes in the middle of a scan.  The count is the   *)
(* process's own: a restart begins the day anew.                           *)
THEOREM GemCapHolds == GmSpec => []GemCapBounded
<1>1. GemInv => GemCapBounded
    BY DEF GemInv, GemCapBounded, GemLimit
<1> QED
    BY <1>1, GemInitInv, GemStepInv, PTL DEF GmSpec

-----------------------------------------------------------------------------
(* CandleStore: a restart fills the gap it leaves.                         *)

(* Of the candles before n, those that follow a candle of C are in C or    *)
(* are among the known losses.                                             *)
Whole(C, n, losses) ==
    \A k \in 0..(n - 1) : (\E i \in C : i < k) => k \in C \cup losses

(* The candles that are known to be missing from series p.                 *)
Losses(p) == excused[p] \cup unasked[p]

(* The types the series need, and that nothing is stored or saved before   *)
(* its time.                                                               *)
StoreTypes ==
    /\ csTime \in Nat /\ askedAt \in 0..csTime /\ csUp \in {"down", "filling", "up"}
    /\ candles \in [Series -> SUBSET Int]
    /\ DOMAIN request = Series /\ DOMAIN savedAt = Series /\ DOMAIN files = Series
    /\ DOMAIN excused = Series /\ DOMAIN unasked = Series
    /\ \A p \in Series :
         /\ \A i \in candles[p] : i <= CandleAt(csTime)
         /\ files[p] # Missing => files[p] \in SUBSET Int /\ \A i \in files[p] : i <= CandleAt(csTime)
         /\ savedAt[p] # Missing => savedAt[p] \in 0..csTime
         /\ request[p] # Missing => request[p] \in 1..SeedLimit

(* What a boot waits for: a request for a gap names as many candles as the *)
(* gap had at the boot and the buffer, the series is whole up to the       *)
(* snapshot it was loaded from, and the candles that closed since the boot *)
(* are known to be missing.                                                *)
Filling ==
    /\ csUp # "filling" => \A p \in Series : request[p] = Missing
    /\ csUp = "filling" =>
         /\ csTime <= askedAt + MaxFill
         /\ \A p \in Series :
              /\ CandleAt(askedAt)..(CandleAt(csTime) - 1) \subseteq excused[p]
              /\ request[p] \notin {Missing, SeedLimit} =>
                   /\ savedAt[p] \in 0..askedAt
                   /\ request[p] = (askedAt - savedAt[p]) \div 2 + GapBuffer
                   /\ Whole(candles[p], CandleAt(savedAt[p]), Losses(p))

(* A series that waits for no download misses its known losses at most, and*)
(* so does a file that the metadata names, up to the time they name.       *)
SeriesWhole ==
    \A p \in Series :
      /\ csUp # "down" /\ request[p] = Missing => Whole(candles[p], CandleAt(csTime), Losses(p))
      /\ csUp = "down" => candles[p] = {}
      /\ savedAt[p] # Missing /\ files[p] # Missing =>
           Whole(files[p], CandleAt(savedAt[p]), Losses(p))

(* The inductive invariant of the candle store.                            *)
StoreInv == StoreTypes /\ Filling /\ SeriesWhole

(* The candle of a time, by its two halves.                                *)
LEMMA Halves ==
    ASSUME NEW t \in Nat
    PROVE  CandleAt(t) \in Nat /\ 2 * CandleAt(t) <= t /\ t < 2 * CandleAt(t) + 2
BY DEF CandleAt

(* Candles are numbered in the order of time.                              *)
LEMMA HalvesOrder ==
    ASSUME NEW t \in Nat, NEW u \in Nat, t <= u
    PROVE  CandleAt(t) <= CandleAt(u)
BY Halves

(* The candles asked for at time a for a gap since s still reach back to   *)
(* the candle of s when the answer comes at t: the buffer outlasts the     *)
(* download.                                                               *)
LEMMA FillInTime ==
    ASSUME NEW s \in Nat, NEW a \in Nat, NEW t \in Nat, s <= a, a <= t, t <= a + MaxFill
    PROVE  CandleAt(t) - ((a - s) \div 2 + GapBuffer) + 1 <= CandleAt(s)
<1> DEFINE x == (a - s) \div 2
           y == (MaxFill + 2) \div 2
<1>1. x \in Int /\ 2 * x <= a - s /\ a - s < 2 * x + 2
    OBVIOUS
<1>2. y \in Int /\ 2 * y <= MaxFill + 2 /\ MaxFill + 2 < 2 * y + 2 /\ GapBuffer >= y + 1
    BY CandleAssumption, FillAssumption
<1>3. /\ CandleAt(t) \in Nat /\ 2 * CandleAt(t) <= t
      /\ CandleAt(s) \in Nat /\ s < 2 * CandleAt(s) + 2
    BY Halves
<1> HIDE DEF x, y
<1>4. CandleAt(t) - (x + GapBuffer) + 1 <= CandleAt(s)
    BY <1>1, <1>2, <1>3, CandleAssumption
<1> QED
    BY <1>4 DEF x

(* A whole series stays whole for fewer candles and more known losses.     *)
LEMMA MoreLosses ==
    ASSUME NEW C, NEW n \in Int, NEW m \in Int, m <= n, NEW L, NEW M, L \subseteq M, Whole(C, n, L)
    PROVE  Whole(C, m, M)
BY DEF Whole

(* Nothing is stored or saved before the first boot.                       *)
LEMMA StoreInitInv == CsInit => StoreInv
BY Halves DEF CsInit, StoreInv, StoreTypes, Filling, SeriesWhole, None

(* A boot loads what the metadata names and asks for the gap, or counts the*)
(* candles it takes for no gap as lost.                                    *)
LEMMA BootsStep == StoreInv /\ Boots => StoreInv'
<1> SUFFICES ASSUME StoreInv, Boots PROVE StoreInv'
    OBVIOUS
<1> DEFINE known(p) == savedAt[p] # Missing /\ files[p] # Missing
           ask(p) == IF known(p) THEN Gap(savedAt[p], csTime) ELSE SeedLimit
<1>1. /\ csUp = "down" /\ csUp' = "filling" /\ askedAt' = csTime
      /\ UNCHANGED <<csTime, files, savedAt, excused>>
      /\ candles' = [p \in Series |-> IF known(p) THEN files[p] ELSE {}]
      /\ request' = [p \in Series |-> IF ask(p) = 0 THEN Missing ELSE ask(p)]
      /\ unasked' = [p \in Series |->
           IF known(p) /\ ask(p) = 0
             THEN unasked[p] \cup (CandleAt(savedAt[p])..(CandleAt(csTime) - 1))
             ELSE unasked[p]]
    BY DEF Boots
<1>2. csTime \in Nat /\ SeedLimit \in Nat \ {0} /\ GapBuffer \in Nat /\ Missing \notin Int
    BY CandleAssumption DEF StoreInv, StoreTypes
<1>3. ASSUME NEW p \in Series, known(p)
      PROVE  /\ savedAt[p] \in 0..csTime
             /\ Gap(savedAt[p], csTime) \in 0..SeedLimit
             /\ Gap(savedAt[p], csTime) \notin {0, SeedLimit} =>
                  Gap(savedAt[p], csTime) = (csTime - savedAt[p]) \div 2 + GapBuffer
    <2>1. savedAt[p] \in 0..csTime
        BY <1>3 DEF StoreInv, StoreTypes
    <2>2. (csTime - savedAt[p]) \div 2 \in Nat
        BY <1>2, <2>1
    <2> QED
        BY <1>2, <2>1, <2>2 DEF Gap
<1>4. ASSUME NEW p \in Series
      PROVE  ask(p) \in 0..SeedLimit /\ (~ known(p) => ask(p) = SeedLimit)
    BY <1>2, <1>3
<1> HIDE DEF known, ask
<1>5. ASSUME NEW p \in Series
      PROVE  /\ candles'[p] \in SUBSET Int
             /\ \A i \in candles'[p] : i <= CandleAt(csTime)
             /\ request'[p] # Missing => request'[p] = ask(p) /\ ask(p) \in 1..SeedLimit
             /\ request'[p] = Missing => ask(p) = 0 /\ known(p)
             /\ Losses(p) \subseteq Losses(p)'
    <2>1. candles'[p] = IF known(p) THEN files[p] ELSE {}
        BY <1>1
    <2>2. known(p) => files[p] \in SUBSET Int /\ \A i \in files[p] : i <= CandleAt(csTime)
        BY DEF StoreInv, StoreTypes, known
    <2>3. request'[p] = IF ask(p) = 0 THEN Missing ELSE ask(p)
        BY <1>1
    <2>4. unasked[p] \subseteq unasked'[p] /\ excused' = excused
        BY <1>1
    <2> QED
        BY <1>2, <1>4, <2>1, <2>2, <2>3, <2>4 DEF Losses
<1>6. StoreTypes'
    BY <1>1, <1>2, <1>5 DEF StoreInv, StoreTypes
<1>7. ASSUME NEW p \in Series, known(p)
      PROVE  /\ Whole(candles'[p], CandleAt(savedAt[p]), Losses(p)')
             /\ ask(p) = 0 => Whole(candles'[p], CandleAt(csTime), Losses(p)')
    <2>1. candles'[p] = files[p] /\ Whole(files[p], CandleAt(savedAt[p]), Losses(p))
        BY <1>1, <1>7 DEF StoreInv, SeriesWhole, known
    <2>2. CandleAt(savedAt[p]) \in Nat /\ CandleAt(csTime) \in Nat
        <3>1. savedAt[p] \in Nat
            BY <1>2, <1>3, <1>7
        <3> QED
            BY <1>2, <3>1, Halves
    <2>3. Whole(candles'[p], CandleAt(savedAt[p]), Losses(p)')
        BY <1>5, <2>1, <2>2, MoreLosses
    <2>4. ask(p) = 0 => CandleAt(savedAt[p])..(CandleAt(csTime) - 1) \subseteq Losses(p)'
        BY <1>1, <1>7 DEF Losses
    <2> QED
        BY <2>2, <2>3, <2>4 DEF Whole
<1>8. Filling'
    <2>1. CandleAt(askedAt')..(CandleAt(csTime') - 1) = {}
        BY <1>1, <1>2, Halves
    <2>2. csTime' <= askedAt' + MaxFill
        BY <1>1, <1>2, CandleAssumption
    <2>3. ASSUME NEW p \in Series, request'[p] \notin {Missing, SeedLimit}
          PROVE  /\ savedAt'[p] \in 0..askedAt'
                 /\ request'[p] = (askedAt' - savedAt'[p]) \div 2 + GapBuffer
                 /\ Whole(candles'[p], CandleAt(savedAt'[p]), Losses(p)')
        <3>1. known(p) /\ request'[p] = ask(p) /\ ask(p) \notin {0, SeedLimit}
            BY <1>4, <1>5, <2>3
        <3>2. request'[p] = (csTime - savedAt[p]) \div 2 + GapBuffer
            BY <1>3, <3>1 DEF ask
        <3> QED
            BY <1>1, <1>3, <1>7, <3>1, <3>2
    <2> QED
        BY <1>1, <2>1, <2>2, <2>3 DEF Filling
<1>9. SeriesWhole'
    <2>1. ASSUME NEW p \in Series, request'[p] = Missing
          PROVE  Whole(candles'[p], CandleAt(csTime'), Losses(p)')
        BY <1>1, <1>5, <1>7, <2>1
    <2>2. ASSUME NEW p \in Series, savedAt'[p] # Missing, files'[p] # Missing
          PROVE  Whole(files'[p], CandleAt(savedAt'[p]), Losses(p)')
        <3>1. known(p) /\ candles'[p] = files'[p]
            BY <1>1, <2>2 DEF known
        <3> QED
            BY <1>1, <1>7, <3>1
    <2> QED
        BY <1>1, <2>1, <2>2 DEF SeriesWhole
<1> QED
    BY <1>6, <1>8, <1>9 DEF StoreInv

(* An answered request closes the gap it was made for, and a failed one    *)
(* counts what it asked for as lost.                                       *)
LEMMA FilledStep == StoreInv /\ (\E p \in Series : Filled(p) \/ FillFails(p)) => StoreInv'
<1> SUFFICES ASSUME StoreInv, NEW p \in Series, Filled(p) \/ FillFails(p) PROVE StoreInv'
    OBVIOUS
<1> DEFINE n == request[p]
           c == CandleAt(csTime)
<1>1. /\ n # Missing /\ n \in 1..SeedLimit /\ csUp = "filling"
      /\ request' = [request EXCEPT ![p] = Missing]
      /\ UNCHANGED <<csTime, csUp, askedAt, files, savedAt, unasked>>
    BY DEF Filled, FillFails, StoreInv, StoreTypes, Filling
<1>2. /\ csTime \in Nat /\ askedAt \in 0..csTime /\ csTime <= askedAt + MaxFill
      /\ c \in Nat /\ SeedLimit \in Nat \ {0}
    BY <1>1, Halves, CandleAssumption DEF StoreInv, StoreTypes, Filling
<1>3. ASSUME n # SeedLimit
      PROVE  /\ CandleAt(savedAt[p]) \in Nat /\ c - n + 1 <= CandleAt(savedAt[p])
             /\ Whole(candles[p], CandleAt(savedAt[p]), Losses(p))
    <2>1. /\ savedAt[p] \in 0..askedAt
          /\ n = (askedAt - savedAt[p]) \div 2 + GapBuffer
          /\ Whole(candles[p], CandleAt(savedAt[p]), Losses(p))
        BY <1>1, <1>3 DEF StoreInv, Filling
    <2> HIDE DEF n
    <2>2. savedAt[p] \in Nat /\ askedAt \in Nat /\ savedAt[p] <= askedAt /\ askedAt <= csTime
        BY <1>2, <2>1
    <2>3. c - ((askedAt - savedAt[p]) \div 2 + GapBuffer) + 1 <= CandleAt(savedAt[p])
        BY <1>2, <2>2, FillInTime
    <2>4. CandleAt(savedAt[p]) \in Nat
        BY <2>2, Halves
    <2> QED
        BY <2>1, <2>3, <2>4
<1> HIDE DEF n, c
<1>4. ASSUME NEW q \in Series PROVE Losses(q) \subseteq Losses(q)'
    BY <1>1 DEF Filled, FillFails, Losses, StoreInv, StoreTypes
<1>5. /\ candles' \in [Series -> SUBSET Int]
      /\ \A q \in Series : q # p => candles'[q] = candles[q] /\ request'[q] = request[q]
      /\ request'[p] = Missing /\ DOMAIN request' = Series
      /\ DOMAIN excused' = Series
      /\ \A i \in candles'[p] : i <= c
      /\ Whole(candles'[p], c, Losses(p)')
    <2>1. CASE Filled(p)
        <3>1. /\ candles' = [candles EXCEPT ![p] = Klines(n) \cup (IF n = SeedLimit THEN {} ELSE @)]
              /\ excused' = excused
            BY <2>1 DEF Filled, n
        <3>2. Klines(n) = (c - n + 1)..c
            BY DEF Klines, c
        <3>3. candles'[p] = Klines(n) \cup (IF n = SeedLimit THEN {} ELSE candles[p])
            BY <3>1 DEF StoreInv, StoreTypes
        <3>4. Whole(candles'[p], c, Losses(p)')
            <4> SUFFICES ASSUME NEW k \in 0..(c - 1), NEW i \in candles'[p], i < k
                         PROVE  k \in candles'[p] \cup Losses(p)'
                BY DEF Whole
            <4>1. CASE k \in Klines(n)
                BY <3>3, <4>1
            <4>2. CASE k \notin Klines(n)
                <5>1. k < c - n + 1
                    BY <1>1, <1>2, <3>2, <4>2
                <5>2. i \notin Klines(n)
                    BY <1>1, <1>2, <3>2, <5>1
                <5>3. n # SeedLimit /\ i \in candles[p]
                    BY <3>3, <5>2
                <5>4. k < CandleAt(savedAt[p]) /\ CandleAt(savedAt[p]) \in Nat
                    BY <1>1, <1>2, <1>3, <5>1, <5>3
                <5>5. k \in candles[p] \cup Losses(p)
                    BY <1>3, <5>3, <5>4 DEF Whole
                <5> QED
                    BY <1>4, <3>3, <5>3, <5>5
            <4> QED
                BY <4>1, <4>2
        <3>5. \A i \in candles'[p] : i \in Int /\ i <= c
            BY <1>1, <1>2, <3>2, <3>3 DEF StoreInv, StoreTypes, c
        <3> QED
            BY <1>1, <3>1, <3>3, <3>4, <3>5 DEF StoreInv, StoreTypes
    <2>2. CASE FillFails(p)
        <3>1. candles' = candles /\ excused' = [excused EXCEPT ![p] = @ \cup Asked(p)]
            BY <2>2 DEF FillFails
        <3>2. Asked(p) = (IF n = SeedLimit THEN 0 ELSE c - n)..c
            BY DEF Asked, n, c
        <3>3. Asked(p) \subseteq Losses(p)'
            BY <3>1 DEF Losses, StoreInv, StoreTypes
        <3>4. Whole(candles'[p], c, Losses(p)')
            <4> SUFFICES ASSUME NEW k \in 0..(c - 1), NEW i \in candles[p], i < k
                         PROVE  k \in candles[p] \cup Losses(p)'
                BY <3>1 DEF Whole
            <4>1. CASE k \in Asked(p)
                BY <3>3, <4>1
            <4>2. CASE k \notin Asked(p)
                <5>1. n # SeedLimit /\ k < c - n
                    BY <1>1, <1>2, <3>2, <4>2
                <5>2. k < CandleAt(savedAt[p]) /\ CandleAt(savedAt[p]) \in Nat
                    BY <1>1, <1>2, <1>3, <5>1
                <5>3. k \in candles[p] \cup Losses(p)
                    BY <1>3, <5>1, <5>2 DEF Whole
                <5> QED
                    BY <1>4, <5>3
            <4> QED
                BY <4>1, <4>2
        <3> QED
            BY <1>1, <3>1, <3>4 DEF StoreInv, StoreTypes, c
    <2> QED
        BY <2>1, <2>2
<1>6. StoreTypes'
    <2>1. \A q \in Series : /\ \A i \in candles'[q] : i <= c
                            /\ request'[q] # Missing => request'[q] \in 1..SeedLimit
        BY <1>5 DEF StoreInv, StoreTypes, c
    <2> QED
        BY <1>1, <1>5, <2>1 DEF StoreInv, StoreTypes, c
<1>7. \A q \in Series : excused[q] \subseteq excused'[q]
    BY <1>1 DEF Filled, FillFails, StoreInv, StoreTypes
<1>8. \A q \in Series : \A C :
        /\ Whole(C, c, Losses(q)) => Whole(C, c, Losses(q)')
        /\ Whole(C, CandleAt(savedAt[q]), Losses(q)) => Whole(C, CandleAt(savedAt[q]), Losses(q)')
    BY <1>4 DEF Whole
<1>9. Filling'
    <2>1. ASSUME NEW q \in Series, request'[q] \notin {Missing, SeedLimit}
          PROVE  /\ savedAt'[q] \in 0..askedAt'
                 /\ request'[q] = (askedAt' - savedAt'[q]) \div 2 + GapBuffer
                 /\ Whole(candles'[q], CandleAt(savedAt'[q]), Losses(q)')
        <3>1. q # p /\ request'[q] = request[q] /\ candles'[q] = candles[q]
            BY <1>5, <2>1
        <3> QED
            BY <1>1, <1>8, <2>1, <3>1 DEF StoreInv, Filling
    <2>2. \A q \in Series : CandleAt(askedAt')..(CandleAt(csTime') - 1) \subseteq excused'[q]
        BY <1>1, <1>7 DEF StoreInv, Filling
    <2> QED
        BY <1>1, <1>2, <2>1, <2>2 DEF Filling
<1>10. SeriesWhole'
    <2>1. ASSUME NEW q \in Series, request'[q] = Missing PROVE Whole(candles'[q], c, Losses(q)')
        <3>1. CASE q = p
            BY <1>5, <3>1
        <3>2. CASE q # p
            BY <1>1, <1>5, <1>8, <2>1, <3>2 DEF StoreInv, SeriesWhole, c
        <3> QED
            BY <3>1, <3>2
    <2>2. ASSUME NEW q \in Series, savedAt[q] # Missing, files[q] # Missing
          PROVE  Whole(files[q], CandleAt(savedAt[q]), Losses(q)')
        BY <1>8, <2>2 DEF StoreInv, SeriesWhole
    <2> QED
        BY <1>1, <2>1, <2>2 DEF SeriesWhole, c
<1> QED
    BY <1>6, <1>9, <1>10 DEF StoreInv

(* A candle that closes is delivered to a series or is one of its losses.  *)
LEMMA ClockStep == StoreInv /\ HalfCandle => StoreInv'
<1> SUFFICES ASSUME StoreInv, HalfCandle PROVE StoreInv'
    OBVIOUS
<1> DEFINE k == CandleAt(csTime)
           ends == CandleAt(csTime + 1) > k
<1>1. /\ csTime' = csTime + 1 /\ (csUp = "filling" => csTime < askedAt + MaxFill)
      /\ candles' = [p \in Series |-> IF ends /\ Delivered(p) THEN candles[p] \cup {k} ELSE candles[p]]
      /\ excused' = [p \in Series |->
           IF ends /\ csUp # "down" /\ ~ Delivered(p) THEN excused[p] \cup {k} ELSE excused[p]]
      /\ UNCHANGED <<csUp, request, askedAt, files, savedAt, unasked>>
    BY DEF HalfCandle
<1>2. /\ csTime \in Nat /\ k \in Nat /\ CandleAt(csTime') \in Nat /\ CandleAt(csTime') \in {k, k + 1}
      /\ ends <=> CandleAt(csTime') = k + 1
    <2>1. csTime \in Nat /\ csTime + 1 \in Nat
        BY DEF StoreInv, StoreTypes
    <2>2. /\ k \in Nat /\ 2 * k <= csTime /\ csTime < 2 * k + 2
          /\ CandleAt(csTime + 1) \in Nat /\ 2 * CandleAt(csTime + 1) <= csTime + 1
          /\ csTime + 1 < 2 * CandleAt(csTime + 1) + 2
        BY <2>1, Halves
    <2> HIDE DEF k
    <2>3. CandleAt(csTime + 1) = k \/ CandleAt(csTime + 1) = k + 1
        BY <2>1, <2>2
    <2>4. CandleAt(csTime') = CandleAt(csTime + 1)
        BY <1>1
    <2> QED
        BY <2>1, <2>2, <2>3, <2>4
<1> HIDE DEF k, ends
<1>3. ASSUME NEW p \in Series
      PROVE  /\ candles[p] \subseteq candles'[p] /\ candles'[p] \in SUBSET Int
             /\ \A i \in candles'[p] : i <= CandleAt(csTime') /\ (i \in candles[p] \/ i = k)
             /\ excused[p] \subseteq excused'[p] /\ Losses(p) \subseteq Losses(p)'
             /\ csUp # "down" /\ ends => k \in candles'[p] \cup Losses(p)'
             /\ csUp = "filling" => candles'[p] = candles[p]
             /\ csUp = "filling" /\ ends => k \in excused'[p]
             /\ csUp = "down" => candles'[p] = candles[p]
    BY <1>1, <1>2 DEF Delivered, Losses, StoreInv, StoreTypes, k
<1>4. StoreTypes'
    <2>1. csTime' \in Nat /\ askedAt' \in 0..csTime'
        BY <1>1, <1>2 DEF StoreInv, StoreTypes
    <2>2. \A p \in Series : files[p] # Missing => \A i \in files[p] : i <= CandleAt(csTime')
        BY <1>2 DEF StoreInv, StoreTypes, k
    <2>3. \A p \in Series : savedAt[p] # Missing => savedAt[p] \in 0..csTime'
        BY <1>1, <1>2 DEF StoreInv, StoreTypes
    <2>4. candles' \in [Series -> SUBSET Int] /\ DOMAIN excused' = Series
        BY <1>1, <1>3
    <2> QED
        BY <1>1, <1>3, <2>1, <2>2, <2>3, <2>4 DEF StoreInv, StoreTypes
<1>5. \A p \in Series : \A C, n : Whole(C, n, Losses(p)) => Whole(C, n, Losses(p)')
    BY <1>3 DEF Whole
<1>6. Filling'
    <2>1. csUp = "filling" => csTime' <= askedAt + MaxFill
        BY <1>1, <1>2, CandleAssumption DEF StoreInv, StoreTypes
    <2>2. ASSUME csUp = "filling", NEW p \in Series
          PROVE  CandleAt(askedAt)..(CandleAt(csTime') - 1) \subseteq excused'[p]
        <3>1. CandleAt(askedAt)..(k - 1) \subseteq excused[p]
            BY <2>2 DEF StoreInv, Filling, k
        <3>2. CandleAt(askedAt) \in Nat
            BY <1>2, Halves DEF StoreInv, StoreTypes
        <3> QED
            BY <1>2, <1>3, <2>2, <3>1, <3>2
    <2> QED
        BY <1>1, <1>3, <1>5, <2>1, <2>2 DEF StoreInv, Filling
<1>7. SeriesWhole'
    <2>1. ASSUME NEW p \in Series, csUp # "down", request[p] = Missing
          PROVE  Whole(candles'[p], CandleAt(csTime'), Losses(p)')
        <3> SUFFICES ASSUME NEW m \in 0..(CandleAt(csTime') - 1), NEW i \in candles'[p], i < m
                     PROVE  m \in candles'[p] \cup Losses(p)'
            BY DEF Whole
        <3>1. CASE m = k
            BY <1>2, <1>3, <2>1, <3>1
        <3>2. CASE m # k
            <4>1. m \in 0..(k - 1) /\ i \in candles[p]
                BY <1>2, <1>3, <3>2
            <4>2. Whole(candles[p], k, Losses(p))
                BY <2>1 DEF StoreInv, SeriesWhole, k
            <4> QED
                BY <1>3, <4>1, <4>2 DEF Whole
        <3> QED
            BY <3>1, <3>2
    <2> QED
        BY <1>1, <1>3, <1>5, <2>1 DEF StoreInv, SeriesWhole
<1> QED
    BY <1>4, <1>6, <1>7 DEF StoreInv

(* What the fallback downloads ends with the newest candle, and a pruned   *)
(* series is empty.                                                        *)
LEMMA FallbackStep ==
    StoreInv /\ (\E p \in Series : FallbackSeeds(p) \/ FallbackPolls(p) \/ PairPruned(p)) => StoreInv'
<1> SUFFICES ASSUME StoreInv, NEW p \in Series, FallbackSeeds(p) \/ FallbackPolls(p) \/ PairPruned(p)
             PROVE  StoreInv'
    OBVIOUS
<1> DEFINE c == CandleAt(csTime)
           new == candles'[p]
<1>1. /\ csUp = "up" /\ UNCHANGED <<csTime, csUp, request, askedAt, files, savedAt, excused, unasked>>
      /\ c \in Nat /\ BulkLimit \in Nat \ {0} /\ csTime \in Nat
    BY Halves, CandleAssumption DEF FallbackSeeds, FallbackPolls, PairPruned, StoreInv, StoreTypes
<1>2. \/ candles' = [candles EXCEPT ![p] = @ \cup ((c - BulkLimit + 1)..c)]
      \/ candles' = [candles EXCEPT ![p] = @ \cup {c}]
      \/ candles' = [candles EXCEPT ![p] = {}]
    BY DEF FallbackSeeds, FallbackPolls, PairPruned, Klines
<1> HIDE DEF c
<1>3. /\ candles' \in [Series -> SUBSET Int]
      /\ \A q \in Series : q # p => candles'[q] = candles[q]
      /\ \/ new = candles[p] \cup ((c - BulkLimit + 1)..c)
         \/ new = candles[p] \cup {c}
         \/ new = {}
    BY <1>1, <1>2 DEF StoreInv, StoreTypes
<1>4. \A i \in new : i <= c
    BY <1>1, <1>3 DEF StoreInv, StoreTypes, c
<1>5. request[p] = Missing /\ Whole(candles[p], c, Losses(p))
    BY <1>1 DEF StoreInv, SeriesWhole, Filling, c
<1>6. Whole(new, c, Losses(p))
    BY <1>1, <1>3, <1>5 DEF Whole
<1>7. StoreTypes'
    <2>1. \A q \in Series : \A i \in candles'[q] : i <= c
        BY <1>3, <1>4 DEF StoreInv, StoreTypes, c
    <2> QED
        BY <1>1, <1>3, <2>1 DEF StoreInv, StoreTypes, c
<1>8. \A q \in Series : Losses(q)' = Losses(q)
    BY <1>1 DEF Losses
<1>9. SeriesWhole'
    <2>1. \A q \in Series : request[q] = Missing => Whole(candles'[q], c, Losses(q))
        BY <1>1, <1>3, <1>6 DEF StoreInv, SeriesWhole, c
    <2> QED
        BY <1>1, <1>8, <2>1 DEF StoreInv, SeriesWhole, c
<1> QED
    BY <1>1, <1>7, <1>9 DEF StoreInv, Filling

(* A snapshot, whole or cut off by a crash, saves whole series under       *)
(* metadata that is not newer than its files.                              *)
LEMMA SnapshotStep ==
    StoreInv /\ (SaveSnapshot \/ Crash \/ CrashInSnapshot) => StoreInv'
<1> SUFFICES ASSUME StoreInv, SaveSnapshot \/ Crash \/ CrashInSnapshot PROVE StoreInv'
    OBVIOUS
<1>1. csTime \in Nat /\ askedAt \in 0..csTime /\ CandleAt(csTime) \in Nat
    BY Halves DEF StoreInv, StoreTypes
<1>2. UNCHANGED <<csTime, askedAt, excused, unasked>> /\ \A p \in Series : Losses(p)' = Losses(p)
    BY DEF SaveSnapshot, Crash, CrashInSnapshot, Dies, Losses
<1>3. /\ candles' \in [Series -> SUBSET Int] /\ \A p \in Series : \A i \in candles'[p] : i <= CandleAt(csTime)
      /\ DOMAIN request' = Series
      /\ \A p \in Series : request'[p] # Missing => request'[p] \in 1..SeedLimit
      /\ csUp' # "filling" /\ csUp' \in {"down", "up"}
      /\ \A p \in Series : request'[p] = Missing
    <2>1. CASE SaveSnapshot
        BY <2>1 DEF SaveSnapshot, StoreInv, StoreTypes, Filling
    <2>2. CASE Dies
        BY <2>2 DEF Dies
    <2> QED
        BY <2>1, <2>2 DEF Crash, CrashInSnapshot
<1>4. \/ files' = files
      \/ \E S \in SUBSET Series : csUp = "up" /\ files' = Written(S)
    BY DEF SaveSnapshot, Crash, CrashInSnapshot
<1>5. \/ savedAt' = savedAt
      \/ /\ csUp = "up" /\ files' = Written(Series)
         /\ savedAt' = [p \in Series |-> IF candles[p] # {} THEN csTime ELSE Missing]
    BY DEF SaveSnapshot, Crash, CrashInSnapshot
<1>6. DOMAIN files' = Series /\ DOMAIN savedAt' = Series
    BY <1>4, <1>5 DEF Written, StoreInv, StoreTypes
<1>7. ASSUME NEW p \in Series
      PROVE  files'[p] = files[p] \/ (csUp = "up" /\ files'[p] = candles[p])
    BY <1>4 DEF Written
<1>8. ASSUME NEW p \in Series, savedAt'[p] # Missing
      PROVE  savedAt'[p] = savedAt[p] \/ (savedAt'[p] = csTime /\ csUp = "up" /\ files'[p] = candles[p])
    BY <1>5, <1>8 DEF Written
<1>9. ASSUME NEW p \in Series, csUp = "up"
      PROVE  Whole(candles[p], CandleAt(csTime), Losses(p))
    BY <1>9 DEF StoreInv, SeriesWhole, Filling
<1>10. ASSUME NEW p \in Series, savedAt'[p] # Missing, files'[p] # Missing
       PROVE  Whole(files'[p], CandleAt(savedAt'[p]), Losses(p))
    <2>1. CASE savedAt'[p] = csTime /\ csUp = "up" /\ files'[p] = candles[p]
        BY <1>9, <2>1
    <2>2. CASE savedAt'[p] = savedAt[p] /\ files'[p] = files[p]
        BY <1>10, <2>2 DEF StoreInv, SeriesWhole
    <2>3. CASE savedAt'[p] = savedAt[p] /\ csUp = "up" /\ files'[p] = candles[p]
        <3>1. savedAt[p] \in Nat /\ savedAt[p] <= csTime
            BY <1>1, <1>10, <2>3 DEF StoreInv, StoreTypes
        <3>2. CandleAt(savedAt[p]) \in Nat /\ CandleAt(savedAt[p]) <= CandleAt(csTime)
            BY <1>1, <3>1, Halves, HalvesOrder
        <3> QED
            BY <1>1, <1>9, <2>3, <3>2, MoreLosses
    <2> QED
        BY <1>7, <1>8, <1>10, <2>1, <2>2, <2>3
<1>11. ASSUME NEW p \in Series, files'[p] # Missing
       PROVE  files'[p] \in SUBSET Int /\ \A i \in files'[p] : i <= CandleAt(csTime)
    BY <1>7, <1>11 DEF StoreInv, StoreTypes
<1>12. ASSUME NEW p \in Series, savedAt'[p] # Missing PROVE savedAt'[p] \in 0..csTime
    BY <1>1, <1>8, <1>12 DEF StoreInv, StoreTypes
<1>13. StoreTypes'
    BY <1>1, <1>2, <1>3, <1>6, <1>11, <1>12 DEF StoreInv, StoreTypes
<1>14. SeriesWhole'
    <2>1. ASSUME NEW p \in Series, csUp' # "down" PROVE Whole(candles'[p], CandleAt(csTime), Losses(p))
        <3>1. csUp = "up" /\ candles' = candles
            BY <2>1 DEF SaveSnapshot, Crash, CrashInSnapshot, Dies
        <3> QED
            BY <1>9, <3>1
    <2>2. csUp' = "down" => \A p \in Series : candles'[p] = {}
        BY DEF SaveSnapshot, Crash, CrashInSnapshot, Dies
    <2> QED
        BY <1>2, <1>10, <2>1, <2>2 DEF SeriesWhole
<1> QED
    BY <1>3, <1>13, <1>14 DEF StoreInv, Filling

(* After a restart no candle between two others of a series is missing,    *)
(* except the known losses: the boot makes up for the time the process was *)
(* down, also after a crash in a snapshot.                                 *)
THEOREM GapsFilledHolds == CsSpec => []FilledGapsAreWhole
<1>1. StoreInv /\ [CsNext]_csVars => StoreInv'
    <2> SUFFICES ASSUME StoreInv, [CsNext]_csVars PROVE StoreInv'
        OBVIOUS
    <2>1. CASE StreamsStart
        <3>1. /\ csUp = "filling" /\ csUp' = "up" /\ \A p \in Series : request[p] = Missing
              /\ UNCHANGED <<csTime, candles, request, askedAt, files, savedAt, excused, unasked>>
            BY <2>1 DEF StreamsStart
        <3> QED
            BY <3>1 DEF StoreInv, StoreTypes, Filling, SeriesWhole, Losses
    <2>2. CASE Outage \/ UNCHANGED csVars
        <3>1. UNCHANGED <<csTime, csUp, candles, request, askedAt, files, savedAt, excused, unasked>>
            BY <2>2 DEF Outage, csVars
        <3> QED
            BY <3>1 DEF StoreInv, StoreTypes, Filling, SeriesWhole, Losses
    <2> QED
        BY <2>1, <2>2, BootsStep, FilledStep, ClockStep, FallbackStep, SnapshotStep DEF CsNext
<1>2. StoreInv => FilledGapsAreWhole
    <2> SUFFICES ASSUME StoreInv, NEW p \in Series, csUp = "up", NEW k \in Holes(p)
                 PROVE  k \in Losses(p)
        BY DEF FilledGapsAreWhole, Losses
    <2>1. CandleAt(csTime) \in Nat /\ CandleAt(0) = 0
        BY Halves DEF StoreInv, StoreTypes, CandleAt
    <2>2. PICK i \in candles[p], j \in candles[p] : i < k /\ k < j
        BY DEF Holes
    <2>3. k \in 0..CandleAt(csTime) /\ k \notin candles[p] /\ j \in Int /\ j <= CandleAt(csTime)
        BY <2>1 DEF Holes, StoreInv, StoreTypes
    <2>4. k \in 0..(CandleAt(csTime) - 1)
        BY <2>1, <2>2, <2>3
    <2>5. Whole(candles[p], CandleAt(csTime), Losses(p))
        BY DEF StoreInv, SeriesWhole, Filling
    <2> QED
        BY <2>2, <2>3, <2>4, <2>5 DEF Whole
<1> QED
    BY <1>1, <1>2, StoreInitInv, PTL DEF CsSpec

-----------------------------------------------------------------------------
(* OrderFlow: liquidations.                                                *)

(* The events of q, of which later ones are still to come after its last,  *)
(* are the newest that were received, counted from the end; those that are *)
(* older than all that count are out of the window.                        *)
Aligned(q, later) ==
    \A j \in 1..Len(q) :
      LET back == Len(q) - j + later
      IN  IF back < Len(received) THEN q[j] = received[Len(received) - back]
          ELSE ~ Recent(q[j])

(* The inductive invariant of the liquidations: what was received in the   *)
(* window is in the order of its arrival, and buffer and store together    *)
(* repeat it from the end, as far as the deque reaches.                    *)
WindowInv ==
    /\ pending \in Seq(Nat) /\ liquidations \in Seq(Nat) /\ received \in Seq(Nat)
    /\ \A i \in 1..Len(received) : Recent(received[i])
    /\ \A i, j \in 1..Len(received) : i <= j => received[j] <= received[i]
    /\ Aligned(pending, 0) /\ Aligned(liquidations, Len(pending))
    /\ Len(liquidations) <= LiqHistory
    /\ Len(liquidations) = LiqHistory \/ Len(liquidations) + Len(pending) >= Len(received)

(* The volume of a list whose last k events are its recent ones.           *)
LEMMA VolumeOfEnd ==
    ASSUME NEW s \in Seq(Nat), NEW k \in 0..Len(s),
           \A i \in 1..Len(s) : Recent(s[i]) <=> i > Len(s) - k
    PROVE  LiqVolume(s) = k
<1>1. Len(s) \in Nat /\ DOMAIN s = 1..Len(s)
    OBVIOUS
<1>2. {i \in DOMAIN s : Recent(s[i])} = (Len(s) - k + 1)..Len(s)
    BY <1>1
<1>3. Cardinality((Len(s) - k + 1)..Len(s)) = k
    BY <1>1, FS_Interval
<1> QED
    BY <1>2, <1>3 DEF LiqVolume

(* In a list in the order of arrival the recent events come last.          *)
LEMMA RecentEnd ==
    ASSUME NEW s \in Seq(Nat), \A i, j \in 1..Len(s) : i <= j => s[j] <= s[i]
    PROVE  /\ LiqVolume(s) \in 0..Len(s)
           /\ \A i \in 1..Len(s) : Recent(s[i]) <=> i > Len(s) - LiqVolume(s)
<1> DEFINE V == {i \in 1..Len(s) : Recent(s[i])}
<1>1. LiqWindow \in Nat /\ \A i \in 1..Len(s) : s[i] \in Nat
    BY OrderFlowAssumption
<1>2. \E k \in 0..Len(s) : \A i \in 1..Len(s) : Recent(s[i]) <=> i > Len(s) - k
    <2>1. CASE V = {}
        <3>1. Len(s) \in Nat /\ \A i \in 1..Len(s) : ~ Recent(s[i])
            BY <2>1
        <3>2. \A i \in 1..Len(s) : Recent(s[i]) <=> i > Len(s) - 0
            BY <3>1
        <3> QED
            <4> WITNESS 0 \in 0..Len(s)
            <4> QED
                BY <3>2
    <2>2. CASE V # {}
        <3>1. V \subseteq Nat
            OBVIOUS
        <3>2. PICK m \in V : \A v \in V : m <= v
            BY <2>2, <3>1, LeastIndex
        <3>3. m \in 1..Len(s) /\ Recent(s[m])
            BY <3>2
        <3>4. \A i \in 1..Len(s) : Recent(s[i]) <=> i >= m
            BY <1>1, <3>2, <3>3 DEF Recent
        <3>5. \A i \in 1..Len(s) : Recent(s[i]) <=> i > Len(s) - (Len(s) - m + 1)
            BY <3>3, <3>4
        <3>6. Len(s) - m + 1 \in 0..Len(s)
            BY <3>3
        <3> QED
            <4> WITNESS Len(s) - m + 1 \in 0..Len(s)
            <4> QED
                BY <3>5
    <2> QED
        BY <2>1, <2>2
<1> QED
    BY <1>2, VolumeOfEnd

(* The entries of the end of a list.                                       *)
LEMMA EndOf ==
    ASSUME NEW s \in Seq(Nat), NEW n \in Nat
    PROVE  /\ Ending(s, n) \in Seq(Nat)
           /\ Len(Ending(s, n)) = IF Len(s) > n THEN n ELSE Len(s)
           /\ \A j \in 1..Len(Ending(s, n)) : Ending(s, n)[j] = s[Len(s) - Len(Ending(s, n)) + j]
<1>1. CASE Len(s) > n
    <2>1. Len(s) \in Nat /\ \A i \in (Len(s) - n + 1)..Len(s) : s[i] \in Nat
        <3>1. Len(s) \in Nat /\ \A i \in 1..Len(s) : s[i] \in Nat
            OBVIOUS
        <3> QED
            BY <1>1, <3>1
    <2> DEFINE t == SubSeq(s, Len(s) - n + 1, Len(s))
    <2>2. Len(t) = IF Len(s) - n + 1 <= Len(s) THEN Len(s) - (Len(s) - n + 1) + 1 ELSE 0
        BY <1>1, <2>1, SubSeqProperties
    <2>3. t \in Seq(Nat) /\ \A i \in 1..(Len(s) - (Len(s) - n + 1) + 1) : t[i] = s[Len(s) - n + 1 + i - 1]
        BY <1>1, <2>1, SubSeqProperties
    <2>4. Ending(s, n) = t
        BY <1>1 DEF Ending
    <2> HIDE DEF t
    <2>5. Len(t) = n
        BY <2>1, <2>2
    <2>6. \A i \in 1..n : t[i] = s[Len(s) - n + i]
        BY <2>1, <2>3
    <2> QED
        BY <1>1, <2>3, <2>4, <2>5, <2>6
<1>2. CASE ~ (Len(s) > n)
    <2>1. Ending(s, n) = s
        BY <1>2 DEF Ending
    <2> QED
        BY <1>2, <2>1
<1> QED
    BY <1>1, <1>2

(* The ages of a list one tick later.                                      *)
LEMMA OlderAges ==
    ASSUME NEW s \in Seq(Nat)
    PROVE  /\ Older(s) \in Seq(Nat) /\ Len(Older(s)) = Len(s)
           /\ \A i \in 1..Len(s) : Older(s)[i] = IF Recent(s[i]) THEN s[i] + 1 ELSE s[i]
BY DEF Older

(* Nothing was received at the start.                                      *)
LEMMA WindowInit == OfInit => WindowInv
BY OrderFlowAssumption DEF OfInit, WindowInv, Aligned

(* An event joins the buffer and the window together.                      *)
LEMMA ArrivesStep == WindowInv /\ LiquidationArrives => WindowInv'
<1> SUFFICES ASSUME WindowInv, LiquidationArrives PROVE WindowInv'
    OBVIOUS
<1> DEFINE n == Len(received)
           m == Len(pending)
<1>1. pending' = Append(pending, 0) /\ received' = Append(received, 0) /\ liquidations' = liquidations
    BY DEF LiquidationArrives
<1>2. /\ n \in Nat /\ m \in Nat /\ Len(received') = n + 1 /\ Len(pending') = m + 1
      /\ received' \in Seq(Nat) /\ pending' \in Seq(Nat)
      /\ \A i \in 1..n : received'[i] = received[i] /\ received'[n + 1] = 0
      /\ \A i \in 1..m : pending'[i] = pending[i] /\ pending'[m + 1] = 0
      /\ received'[n + 1] = 0 /\ pending'[m + 1] = 0
    BY <1>1 DEF WindowInv
<1>3. LiqWindow \in Nat /\ Recent(0)
    BY OrderFlowAssumption DEF Recent
<1> HIDE DEF n, m
<1>4. Aligned(pending, 0)'
    <2>1. ASSUME NEW j \in 1..(m + 1)
          PROVE  IF (m + 1) - j < n + 1 THEN pending'[j] = received'[n + 1 - ((m + 1) - j)] ELSE ~ Recent(pending'[j])
        <3>1. CASE j = m + 1
            BY <1>2, <3>1
        <3>2. CASE j \in 1..m
            <4>1. IF m - j < n THEN pending[j] = received[n - (m - j)] ELSE ~ Recent(pending[j])
                BY <3>2 DEF WindowInv, Aligned, n, m
            <4>2. pending'[j] = pending[j] /\ n + 1 - ((m + 1) - j) = n - (m - j)
                BY <1>2, <3>2
            <4>3. m - j < n => n - (m - j) \in 1..n
                BY <1>2, <3>2
            <4> QED
                BY <1>2, <3>2, <4>1, <4>2, <4>3
        <3> QED
            BY <1>2, <3>1, <3>2
    <2> QED
        BY <1>2, <2>1 DEF Aligned
<1>5. Aligned(liquidations, Len(pending))'
    <2>1. ASSUME NEW j \in 1..Len(liquidations), NEW back, back = Len(liquidations) - j + (m + 1)
          PROVE  IF back < n + 1 THEN liquidations[j] = received'[n + 1 - back] ELSE ~ Recent(liquidations[j])
        <3>1. Len(liquidations) \in Nat /\ Len(liquidations) - j + m = back - 1 /\ back \in Nat \ {0}
            BY <1>2, <2>1 DEF WindowInv
        <3>2. IF back - 1 < n THEN liquidations[j] = received[n - (back - 1)] ELSE ~ Recent(liquidations[j])
            BY <3>1 DEF WindowInv, Aligned, n, m
        <3>3. back - 1 < n <=> back < n + 1
            BY <1>2, <3>1
        <3>4. back - 1 < n => n - (back - 1) \in 1..n /\ n - (back - 1) = n + 1 - back
            BY <1>2, <3>1
        <3> QED
            BY <1>2, <3>2, <3>3, <3>4
    <2>2. \A j \in 1..Len(liquidations') :
            LET back == Len(liquidations') - j + Len(pending')
            IN  IF back < Len(received') THEN liquidations'[j] = received'[Len(received') - back]
                ELSE ~ Recent(liquidations'[j])
        <3>1. \A j \in 1..Len(liquidations) :
                LET back == Len(liquidations) - j + (m + 1)
                IN  IF back < n + 1 THEN liquidations[j] = received'[n + 1 - back] ELSE ~ Recent(liquidations[j])
            BY <2>1
        <3>2. /\ liquidations' = liquidations /\ Len(pending') = m + 1 /\ Len(received') = n + 1
              /\ n \in Nat /\ m \in Nat /\ Len(liquidations) \in Nat
            BY <1>1, <1>2 DEF WindowInv
        <3> QED
            BY <3>1, <3>2
    <2> QED
        BY <2>2 DEF Aligned
<1>6. \A i \in 1..(n + 1) : Recent(received'[i])
    <2>1. \A i \in 1..n : Recent(received[i])
        BY DEF WindowInv, n
    <2> QED
        BY <1>2, <1>3, <2>1
<1>7. \A i, j \in 1..(n + 1) : i <= j => received'[j] <= received'[i]
    <2>1. \A i \in 1..n : received[i] \in Nat /\ \A j \in 1..n : i <= j => received[j] <= received[i]
        BY DEF WindowInv, n
    <2> QED
        BY <1>2, <2>1
<1>8. /\ Len(liquidations') <= LiqHistory
      /\ Len(liquidations') = LiqHistory \/ Len(liquidations') + Len(pending') >= Len(received')
    BY <1>1, <1>2 DEF WindowInv, n, m
<1> QED
    BY <1>1, <1>2, <1>4, <1>5, <1>6, <1>7, <1>8 DEF WindowInv

(* A flush moves events from the buffer to the store in their order, and   *)
(* the deque drops its oldest only.                                        *)
LEMMA FlushStep == WindowInv /\ FlushPending => WindowInv'
<1> SUFFICES ASSUME WindowInv, FlushPending PROVE WindowInv'
    OBVIOUS
<1> DEFINE n == Len(received)
           m == Len(pending)
           l == Len(liquidations)
           q == liquidations \o pending
<1>1. liquidations' = Ending(q, LiqHistory) /\ pending' = <<>> /\ received' = received
    BY DEF FlushPending, Stored
<1>2. /\ n \in Nat /\ m \in Nat /\ l \in Nat /\ LiqHistory \in Nat
      /\ q \in Seq(Nat) /\ Len(q) = l + m
      /\ \A j \in 1..(l + m) : q[j] = IF j <= l THEN liquidations[j] ELSE pending[j - l]
    BY OrderFlowAssumption DEF WindowInv
<1>3. Aligned(q, 0)
    <2>1. ASSUME NEW j \in 1..(l + m)
          PROVE  IF l + m - j < n THEN q[j] = received[n - (l + m - j)] ELSE ~ Recent(q[j])
        <3>1. CASE j <= l
            <4>1. j \in 1..l /\ q[j] = liquidations[j] /\ l - j + m = l + m - j
                BY <1>2, <3>1
            <4>2. IF l - j + m < n THEN liquidations[j] = received[n - (l - j + m)] ELSE ~ Recent(liquidations[j])
                BY <4>1 DEF WindowInv, Aligned
            <4> QED
                BY <4>1, <4>2
        <3>2. CASE j > l
            <4>1. j - l \in 1..m /\ q[j] = pending[j - l] /\ m - (j - l) + 0 = l + m - j
                BY <1>2, <3>2
            <4>2. IF m - (j - l) + 0 < n THEN pending[j - l] = received[n - (m - (j - l) + 0)]
                  ELSE ~ Recent(pending[j - l])
                BY <4>1 DEF WindowInv, Aligned
            <4> QED
                BY <4>1, <4>2
        <3> QED
            BY <1>2, <3>1, <3>2
    <2> QED
        BY <1>2, <2>1 DEF Aligned
<1> HIDE DEF n, m, l, q
<1> DEFINE k == Len(liquidations')
<1>4. /\ liquidations' \in Seq(Nat) /\ k = IF l + m > LiqHistory THEN LiqHistory ELSE l + m
      /\ \A j \in 1..k : liquidations'[j] = q[l + m - k + j]
    <2>1. /\ Ending(q, LiqHistory) \in Seq(Nat)
          /\ Len(Ending(q, LiqHistory)) = IF l + m > LiqHistory THEN LiqHistory ELSE l + m
          /\ \A j \in 1..Len(Ending(q, LiqHistory)) :
               Ending(q, LiqHistory)[j] = q[Len(q) - Len(Ending(q, LiqHistory)) + j]
        BY <1>2, EndOf
    <2> QED
        BY <1>1, <1>2, <2>1
<1> HIDE DEF k
<1>5. Aligned(liquidations', 0)
    <2>1. ASSUME NEW j \in 1..k
          PROVE  IF k - j < n THEN liquidations'[j] = received[n - (k - j)] ELSE ~ Recent(liquidations'[j])
        <3>1. /\ l + m - k + j \in 1..(l + m) /\ liquidations'[j] = q[l + m - k + j]
              /\ l + m - (l + m - k + j) + 0 = k - j
            BY <1>2, <1>4
        <3>2. \A i \in 1..(l + m) :
                IF l + m - i + 0 < n THEN q[i] = received[n - (l + m - i + 0)] ELSE ~ Recent(q[i])
            BY <1>2, <1>3 DEF Aligned, n
        <3> QED
            BY <3>1, <3>2
    <2>2. k \in Nat
        BY <1>2, <1>4
    <2> QED
        BY <2>1, <2>2 DEF Aligned, n, k
<1>6. pending' \in Seq(Nat) /\ Len(pending') = 0 /\ Aligned(pending, 0)' /\ Aligned(liquidations, Len(pending))'
    BY <1>1, <1>5 DEF Aligned
<1>7. k <= LiqHistory /\ (k = LiqHistory \/ k + 0 >= n)
    <2>1. l <= LiqHistory /\ (l = LiqHistory \/ l + m >= n)
        BY DEF WindowInv, n, m, l
    <2> QED
        BY <1>2, <1>4, <2>1
<1> QED
    BY <1>1, <1>4, <1>6, <1>7 DEF WindowInv, n, k

(* With a tick the same events leave the window wherever they are kept.    *)
LEMMA TickStep == WindowInv /\ LiquidationTick => WindowInv'
<1> SUFFICES ASSUME WindowInv, LiquidationTick PROVE WindowInv'
    OBVIOUS
<1> DEFINE n == Len(received)
           o == Older(received)
           k == LiqVolume(o)
<1>1. /\ pending' = Older(pending) /\ liquidations' = Older(liquidations)
      /\ received' = Ending(o, k)
    BY DEF LiquidationTick
<1>2. /\ n \in Nat /\ o \in Seq(Nat) /\ Len(o) = n
      /\ \A i \in 1..n : o[i] = received[i] + 1 /\ received[i] \in Nat
    BY OlderAges DEF WindowInv
<1>3. \A i, j \in 1..n : i <= j => o[j] <= o[i]
    BY <1>2 DEF WindowInv
<1>4. k \in 0..n /\ \A i \in 1..n : Recent(o[i]) <=> i > n - k
    BY <1>2, <1>3, RecentEnd
<1> HIDE DEF k, o, n
<1>5. /\ received' \in Seq(Nat) /\ Len(received') = k
      /\ \A j \in 1..k : received'[j] = o[n - k + j]
    <2>1. k \in Nat
        BY <1>2, <1>4
    <2>2. /\ Ending(o, k) \in Seq(Nat) /\ Len(Ending(o, k)) = IF Len(o) > k THEN k ELSE Len(o)
          /\ \A j \in 1..Len(Ending(o, k)) : Ending(o, k)[j] = o[Len(o) - Len(Ending(o, k)) + j]
        BY <1>2, <2>1, EndOf
    <2>3. Len(Ending(o, k)) = k
        BY <1>2, <1>4, <2>2
    <2> QED
        BY <1>1, <1>2, <2>2, <2>3
<1>6. \A i \in 1..k : Recent(received'[i])
    BY <1>2, <1>4, <1>5
<1>7. \A i, j \in 1..k : i <= j => received'[j] <= received'[i]
    BY <1>2, <1>3, <1>4, <1>5
<1>8. ASSUME NEW s \in Seq(Nat), NEW later \in Nat, Aligned(s, later)
      PROVE  \A j \in 1..Len(s) :
               LET back == Len(s) - j + later
               IN  IF back < k THEN Older(s)[j] = received'[k - back] ELSE ~ Recent(Older(s)[j])
    <2> SUFFICES ASSUME NEW j \in 1..Len(s)
                 PROVE  LET back == Len(s) - j + later
                        IN  IF back < k THEN Older(s)[j] = received'[k - back] ELSE ~ Recent(Older(s)[j])
        OBVIOUS
    <2> DEFINE back == Len(s) - j + later
    <2>1. back \in Nat
        OBVIOUS
    <2>2. IF back < n THEN s[j] = received[n - back] ELSE ~ Recent(s[j])
        BY <1>8 DEF Aligned, n
    <2>3. Older(s)[j] = IF Recent(s[j]) THEN s[j] + 1 ELSE s[j]
        BY OlderAges
    <2> HIDE DEF back
    <2>4. CASE back < n
        <3>1. n - back \in 1..n /\ Recent(received[n - back])
            <4>1. n - back \in 1..n
                BY <1>2, <2>1, <2>4
            <4> QED
                BY <4>1 DEF WindowInv, n
        <3>2. Older(s)[j] = o[n - back]
            BY <1>2, <2>2, <2>3, <2>4, <3>1
        <3>3. CASE back < k
            <4>1. k - back \in 1..k /\ n - k + (k - back) = n - back
                BY <1>4, <2>1, <3>3, <1>2
            <4>2. received'[k - back] = o[n - back]
                BY <1>5, <4>1
            <4> QED
                BY <3>2, <3>3, <4>2 DEF back
        <3>4. CASE ~ (back < k)
            <4>1. ~ (n - back > n - k)
                BY <1>2, <1>4, <2>1, <3>4
            <4> QED
                BY <1>4, <3>1, <3>2, <3>4, <4>1 DEF back
        <3> QED
            BY <3>3, <3>4
    <2>5. CASE ~ (back < n)
        <3>1. ~ (back < k)
            BY <1>2, <1>4, <2>1, <2>5
        <3> QED
            BY <2>2, <2>3, <2>5, <3>1 DEF back
    <2> QED
        BY <2>4, <2>5
<1>9. /\ pending' \in Seq(Nat) /\ Len(pending') = Len(pending) /\ Len(pending) \in Nat
      /\ liquidations' \in Seq(Nat) /\ Len(liquidations') = Len(liquidations) /\ Len(liquidations) \in Nat
    BY <1>1, OlderAges DEF WindowInv
<1>10. Aligned(pending, 0)'
    <2>1. Aligned(pending, 0)
        BY DEF WindowInv
    <2>2. \A j \in 1..Len(pending) :
            LET back == Len(pending) - j + 0
            IN  IF back < k THEN Older(pending)[j] = received'[k - back]
                ELSE ~ Recent(Older(pending)[j])
        BY <1>8, <1>9, <2>1 DEF WindowInv
    <2> QED
        BY <1>1, <1>5, <1>9, <2>2 DEF Aligned
<1>11. Aligned(liquidations, Len(pending))'
    <2>1. Aligned(liquidations, Len(pending))
        BY DEF WindowInv
    <2>2. \A j \in 1..Len(liquidations) :
            LET back == Len(liquidations) - j + Len(pending)
            IN  IF back < k THEN Older(liquidations)[j] = received'[k - back]
                ELSE ~ Recent(Older(liquidations)[j])
        BY <1>8, <1>9, <2>1 DEF WindowInv
    <2> QED
        BY <1>1, <1>5, <1>9, <2>2 DEF Aligned
<1>12. Len(liquidations') = LiqHistory \/ Len(liquidations') + Len(pending') >= k
    BY <1>2, <1>4, <1>9 DEF WindowInv, n
<1>13. Len(liquidations') <= LiqHistory
    BY <1>9 DEF WindowInv
<1> QED
    BY <1>5, <1>6, <1>7, <1>9, <1>10, <1>11, <1>12, <1>13 DEF WindowInv

(* The detector is told of the liquidations in the window that are stored, *)
(* up to the size of the deque: the buffer neither loses an event nor keeps*)
(* it in the window longer.                                                *)
THEOREM LiquidationsCountedHolds == OfSpec => []LiquidationsCounted
<1>1. WindowInv /\ [OfNext]_ofVars => WindowInv'
    <2> SUFFICES ASSUME WindowInv, [OfNext]_ofVars PROVE WindowInv'
        OBVIOUS
    <2>1. CASE UNCHANGED <<pending, liquidations, received>>
        BY <2>1 DEF WindowInv, Aligned
    <2>2. CASE LiquidationArrives \/ FlushPending \/ LiquidationTick
        BY <2>2, ArrivesStep, FlushStep, TickStep
    <2>3. \/ UNCHANGED <<pending, liquidations, received>>
          \/ LiquidationArrives \/ FlushPending \/ LiquidationTick
        BY DEF OfNext, CandleNext, FuturesNext, Trade, MinuteEnds, KlineClosed, DetectCvd, DetectOi,
               PollOi, ofVars, ofFutures
    <2> QED
        BY <2>1, <2>2, <2>3
<1>2. WindowInv => LiquidationsCounted
    <2> SUFFICES ASSUME WindowInv PROVE LiquidationsCounted
        OBVIOUS
    <2> DEFINE n == Len(received)
               m == Len(pending)
               l == Len(liquidations)
               waiting == IF m < n THEN m ELSE n
               stored == IF m < n THEN (IF l < n - m THEN l ELSE n - m) ELSE 0
    <2>1. n \in Nat /\ m \in Nat /\ l \in Nat /\ LiqHistory \in Nat
        BY OrderFlowAssumption DEF WindowInv
    <2>2. LiqVolume(pending) = waiting
        <3>1. \A j \in 1..m : Recent(pending[j]) <=> j > m - waiting
            BY <2>1 DEF WindowInv, Aligned
        <3>2. waiting \in 0..m
            BY <2>1
        <3> QED
            BY <3>1, <3>2, VolumeOfEnd DEF WindowInv
    <2>3. LiqVolume(liquidations) = stored
        <3>1. ASSUME NEW j \in 1..l PROVE Recent(liquidations[j]) <=> j > l - stored
            <4>1. IF l - j + m < n THEN liquidations[j] = received[n - (l - j + m)] ELSE ~ Recent(liquidations[j])
                BY DEF WindowInv, Aligned
            <4>2. l - j + m < n => n - (l - j + m) \in 1..n
                BY <2>1
            <4>3. Recent(liquidations[j]) <=> l - j + m < n
                BY <4>1, <4>2 DEF WindowInv
            <4> QED
                BY <2>1, <4>3
        <3>2. stored \in 0..l
            BY <2>1
        <3> QED
            BY <3>1, <3>2, VolumeOfEnd DEF WindowInv
    <2>4. Len(liquidations) <= LiqHistory /\ (l = LiqHistory \/ l + m >= n)
        BY DEF WindowInv
    <2> QED
        BY <2>1, <2>2, <2>3, <2>4 DEF LiquidationsCounted
<1> QED
    BY <1>1, <1>2, WindowInit, PTL DEF OfSpec

-----------------------------------------------------------------------------
(* PairUniverse: the pairs that are scanned.                               *)

(* f gives for every i up to n the entries of s up to i that are not in X. *)
Kept(s, X, f, n) ==
    f = [i \in 0..n |->
          IF i = 0 THEN <<>> ELSE IF s[i] \in X THEN f[i - 1] ELSE Append(f[i - 1], s[i])]

(* Entry by entry.                                                         *)
LEMMA KeptAt ==
    ASSUME NEW s, NEW X, NEW n \in Nat, NEW f, Kept(s, X, f, n)
    PROVE  /\ f[0] = <<>>
           /\ \A i \in 1..n : f[i] = IF s[i] \in X THEN f[i - 1] ELSE Append(f[i - 1], s[i])
<1> DEFINE body(i) == IF i = 0 THEN <<>> ELSE IF s[i] \in X THEN f[i - 1] ELSE Append(f[i - 1], s[i])
           h == [i \in 0..n |-> body(i)]
<1>1. f = h
    BY DEF Kept
<1>2. \A i \in 0..n : h[i] = body(i)
    OBVIOUS
<1> HIDE DEF h
<1>3. \A i \in 0..n : f[i] = body(i)
    BY <1>1, <1>2
<1>4. 0 \in 0..n /\ \A i \in 1..n : i \in 0..n /\ i # 0
    OBVIOUS
<1> QED
    BY <1>3, <1>4

(* Such a function can be extended by one entry.                           *)
LEMMA WithoutStep ==
    ASSUME NEW s, NEW X, NEW n \in Nat, NEW f, Kept(s, X, f, n)
    PROVE  \E g : Kept(s, X, g, n + 1)
<1> DEFINE step(h, i) == IF s[i] \in X THEN h[i - 1] ELSE Append(h[i - 1], s[i])
           g == [i \in 0..(n + 1) |-> IF i = 0 THEN <<>> ELSE IF i <= n THEN f[i] ELSE step(f, i)]
<1>1. \A i \in 0..n : g[i] = f[i]
    BY KeptAt
<1>2. \A i \in 1..n : f[i] = step(f, i)
    BY KeptAt
<1>3. \A i \in 1..(n + 1) : i - 1 \in 0..n /\ step(g, i) = step(f, i)
    <2> HIDE DEF g
    <2> QED
        BY <1>1
<1>4. \A i \in 1..(n + 1) : g[i] = step(g, i)
    BY <1>2, <1>3
<1>5. g[0] = <<>>
    OBVIOUS
<1>6. g = [i \in 0..(n + 1) |-> IF i = 0 THEN <<>> ELSE step(g, i)]
    <2> HIDE DEF step
    <2>1. \A i \in 0..(n + 1) : g[i] = IF i = 0 THEN <<>> ELSE step(g, i)
        BY <1>4, <1>5
    <2> QED
        BY <2>1
<1> HIDE DEF g
<1>7. Kept(s, X, g, n + 1)
    BY <1>6 DEF Kept
<1> QED
    BY <1>7

(* Such a function exists, by induction on n.                              *)
LEMMA WithoutExists ==
    ASSUME NEW s, NEW X, NEW n \in Nat
    PROVE  \E f : Kept(s, X, f, n)
<1> DEFINE W == {i \in 0..n : \E f : Kept(s, X, f, i)}
<1>1. 0 \in W
    <2>1. Kept(s, X, [i \in 0..0 |-> <<>>], 0)
        BY DEF Kept
    <2> QED
        BY <2>1
<1>2. ASSUME NEW i \in 1..n, i - 1 \in W PROVE i \in W
    <2>1. PICK f : Kept(s, X, f, i - 1)
        BY <1>2
    <2>2. i - 1 \in Nat /\ (i - 1) + 1 = i
        OBVIOUS
    <2>3. \E g : Kept(s, X, g, (i - 1) + 1)
        BY <2>1, <2>2, WithoutStep
    <2> QED
        BY <2>2, <2>3
<1> HIDE DEF W
<1>3. n \in W
    BY <1>1, <1>2, UpTo
<1> QED
    BY <1>3 DEF W

(* Without is computed by such a function.                                 *)
LEMMA WithoutIs ==
    ASSUME NEW s \in Seq(Symbols), NEW X
    PROVE  \E f : Kept(s, X, f, Len(s)) /\ Without(s, X) = f[Len(s)]
<1> DEFINE P(f) == f = [n \in 0..Len(s) |->
          IF n = 0 THEN <<>>
          ELSE IF s[n] \in X THEN f[n - 1] ELSE Append(f[n - 1], s[n])]
           left == CHOOSE f : P(f)
<1>1. \E f : P(f)
    <2>1. Len(s) \in Nat
        OBVIOUS
    <2>2. PICK f : Kept(s, X, f, Len(s))
        BY <2>1, WithoutExists
    <2>3. P(f)
        BY <2>2 DEF Kept
    <2> QED
        BY <2>3
<1>2. P(left)
    <2> HIDE DEF P
    <2> QED
        BY <1>1
<1>3. Without(s, X) = left[Len(s)]
    BY DEF Without
<1>4. Kept(s, X, left, Len(s))
    <2> HIDE DEF left
    <2> QED
        BY <1>2 DEF Kept
<1> QED
    BY <1>3, <1>4

(* The entries of a concatenation.                                         *)
LEMMA JoinedEntries ==
    ASSUME NEW s \in Seq(Symbols), NEW t \in Seq(Symbols)
    PROVE  s \o t \in Seq(Symbols) /\ ToSet(s \o t) = ToSet(s) \cup ToSet(t)
<1>1. \A u : ToSet(u) = Range(u)
    BY DEF ToSet, Range
<1> QED
    BY <1>1, ConcatProperties, RangeConcatenation

(* The entries of a list that grew by one.                                 *)
LEMMA AppendedEntry ==
    ASSUME NEW s \in Seq(Symbols), NEW e \in Symbols
    PROVE  Append(s, e) \in Seq(Symbols) /\ ToSet(Append(s, e)) = ToSet(s) \cup {e}
<1>1. <<e>> \in Seq(Symbols) /\ ToSet(<<e>>) = {e}
    BY DEF ToSet
<1>2. Append(s, e) = s \o <<e>>
    BY AppendIsConcat
<1> QED
    BY <1>1, <1>2, JoinedEntries

(* A list has its head and the entries of its tail.                        *)
LEMMA TailEntries ==
    ASSUME NEW s \in Seq(Symbols), s # <<>>
    PROVE  Tail(s) \in Seq(Symbols) /\ ToSet(s) = {Head(s)} \cup ToSet(Tail(s))
<1>1. Head(s) \in Symbols /\ Tail(s) \in Seq(Symbols) /\ <<Head(s)>> \in Seq(Symbols)
    BY HeadTailProperties
<1>2. s = <<Head(s)>> \o Tail(s) /\ ToSet(<<Head(s)>>) = {Head(s)}
    BY DEF ToSet
<1> QED
    BY <1>1, <1>2, JoinedEntries

(* Without removes the entries in X and no others, by induction over the   *)
(* list.                                                                   *)
LEMMA WithoutEntries ==
    ASSUME NEW s \in Seq(Symbols), NEW X
    PROVE  Without(s, X) \in Seq(Symbols) /\ ToSet(Without(s, X)) = ToSet(s) \ X
<1>1. PICK f : Kept(s, X, f, Len(s)) /\ Without(s, X) = f[Len(s)]
    BY WithoutIs
<1>2. Len(s) \in Nat /\ \A i \in 1..Len(s) : s[i] \in Symbols
    OBVIOUS
<1>3. f[0] = <<>> /\ \A i \in 1..Len(s) : f[i] = IF s[i] \in X THEN f[i - 1] ELSE Append(f[i - 1], s[i])
    BY <1>1, <1>2, KeptAt
<1> DEFINE upTo(n) == {s[i] : i \in 1..n} \ X
           W == {n \in 0..Len(s) : f[n] \in Seq(Symbols) /\ ToSet(f[n]) = upTo(n)}
<1>4. 0 \in W
    <2>1. <<>> \in Seq(Symbols) /\ ToSet(<<>>) = {}
        BY DEF ToSet
    <2> QED
        <3>1. upTo(0) = {}
            OBVIOUS
        <3>2. 0 \in 0..Len(s) /\ f[0] = <<>>
            BY <1>2, <1>3
        <3> HIDE DEF upTo
        <3>3. f[0] \in Seq(Symbols) /\ ToSet(f[0]) = upTo(0)
            BY <2>1, <3>1, <3>2
        <3> QED
            BY <3>2, <3>3
<1>5. ASSUME NEW n \in 1..Len(s), n - 1 \in W PROVE n \in W
    <2>1. f[n - 1] \in Seq(Symbols) /\ ToSet(f[n - 1]) = upTo(n - 1) /\ s[n] \in Symbols
        BY <1>2, <1>5
    <2>2. upTo(n) = upTo(n - 1) \cup ({s[n]} \ X)
        <3>1. 1..n = 1..(n - 1) \cup {n}
            OBVIOUS
        <3> QED
            BY <3>1
    <2> HIDE DEF upTo
    <2>3. n \in 0..Len(s) /\ f[n] = IF s[n] \in X THEN f[n - 1] ELSE Append(f[n - 1], s[n])
        BY <1>2, <1>3
    <2>4. f[n] \in Seq(Symbols) /\ ToSet(f[n]) = upTo(n)
        <3>1. CASE s[n] \in X
            BY <2>1, <2>2, <2>3, <3>1
        <3>2. CASE s[n] \notin X
            <4>1. f[n] = Append(f[n - 1], s[n])
                BY <2>3, <3>2
            <4>2. f[n] \in Seq(Symbols) /\ ToSet(f[n]) = ToSet(f[n - 1]) \cup {s[n]}
                BY <2>1, <4>1, AppendedEntry
            <4> QED
                BY <2>1, <2>2, <3>2, <4>2
        <3> QED
            BY <3>1, <3>2
    <2> QED
        BY <2>3, <2>4
<1>6. ToSet(s) \ X = upTo(Len(s))
    BY DEF ToSet
<1> HIDE DEF W
<1>7. Len(s) \in W
    BY <1>2, <1>4, <1>5, UpTo
<1> QED
    BY <1>1, <1>6, <1>7 DEF W

(* The inductive invariant of the universe: a pair, of whatever tier, is   *)
(* seeded, waits to be seeded, or is exempt; and pairs wait only while the *)
(* loop seeds.  The tier does not matter, because a promotion may raise a  *)
(* pair to Tier 2 at any time.                                             *)
PairsCovered ==
    /\ universe \in Seq(Symbols) /\ toSeed \in Seq(Symbols)
    /\ refresh # "seeding" => toSeed = <<>>
    /\ ToSet(universe) \subseteq seeded \cup exempt \cup ToSet(toSeed)

(* A refresh leaves the pairs that are not stale and adds new ones.        *)
LEMMA RefreshedEntries ==
    ASSUME PairsCovered, NEW fut \in FuturesAnswers \cup {<<>>}, NEW spot \in SpotAnswers \cup {<<>>},
           RefreshPairs(fut, spot)
    PROVE  /\ universe' \in Seq(Symbols) /\ New(Fetched(fut, spot)) \in Seq(Symbols)
           /\ ToSet(universe') =
                (ToSet(universe) \ Stale(Fetched(fut, spot))) \cup ToSet(New(Fetched(fut, spot)))
           /\ ToSet(New(Fetched(fut, spot))) \cap ToSet(universe) = {}
<1> DEFINE all == Fetched(fut, spot)
<1>1. fut \in Seq(Symbols) /\ spot \in Seq(Symbols) /\ universe \in Seq(Symbols)
    <2>1. <<>> \in Seq(Symbols)
        BY EmptySeq
    <2> QED
        BY <2>1, PairAssumption DEF PairsCovered
<1>2. all \in Seq(Symbols)
    BY <1>1, WithoutEntries, JoinedEntries DEF Fetched
<1> HIDE DEF all
<1>3. /\ New(all) \in Seq(Symbols) /\ ToSet(New(all)) = ToSet(all) \ ToSet(universe)
      /\ Without(universe, Stale(all)) \in Seq(Symbols)
      /\ ToSet(Without(universe, Stale(all))) = ToSet(universe) \ Stale(all)
    BY <1>1, <1>2, WithoutEntries DEF New, Active
<1>4. universe' = Without(universe, Stale(all)) \o New(all)
    BY DEF RefreshPairs, all
<1>5. universe' \in Seq(Symbols) /\ ToSet(universe') = (ToSet(universe) \ Stale(all)) \cup ToSet(New(all))
    BY <1>3, <1>4, JoinedEntries
<1> QED
    BY <1>3, <1>5 DEF all

(* Between two refreshes every pair that is scanned in full has candles,   *)
(* except the exempt ones, though the operator, promotions and streams     *)
(* change the universe while the loop waits for answers and seeds.         *)
THEOREM ScannedSeededHolds == PuSpec => []ScannedPairsSeeded
<1>1. PuInit => PairsCovered
    BY DEF PuInit, PairsCovered, ToSet
<1>2. PairsCovered /\ [PuNext]_puVars => PairsCovered'
    <2> SUFFICES ASSUME PairsCovered, [PuNext]_puVars PROVE PairsCovered'
        OBVIOUS
    <2>1. CASE PuBoot
        <3>1. PICK fut \in FuturesAnswers, spot \in SpotAnswers : RefreshPairs(fut, spot)
            BY <2>1 DEF PuBoot
        <3>2. universe' \in Seq(Symbols)
            BY <3>1, RefreshedEntries
        <3> QED
            BY <2>1, <3>2 DEF PuBoot, PairsCovered
    <2>2. CASE LoopAnswered
        <3>1. PICK fut \in FuturesAnswers, spot \in SpotAnswers :
                /\ RefreshPairs(fut, spot)
                /\ seeded' = seeded \ Stale(Fetched(fut, spot))
                /\ toSeed' = New(Fetched(fut, spot))
                /\ exempt' = exempt \ (Stale(Fetched(fut, spot)) \cup ToSet(New(Fetched(fut, spot))))
            BY <2>2 DEF LoopAnswered, LoopFetched
        <3> DEFINE all == Fetched(fut, spot)
        <3>2. /\ universe' \in Seq(Symbols) /\ New(all) \in Seq(Symbols)
              /\ ToSet(universe') = (ToSet(universe) \ Stale(all)) \cup ToSet(New(all))
              /\ ToSet(New(all)) \cap ToSet(universe) = {}
            BY <3>1, RefreshedEntries
        <3> HIDE DEF all
        <3>3. refresh = "fetching" /\ refresh' = "seeding" /\ toSeed = <<>> /\ ToSet(<<>>) = {}
            BY <2>2 DEF LoopAnswered, PairsCovered, ToSet
        <3>4. /\ seeded' = seeded \ Stale(all) /\ toSeed' = New(all)
              /\ exempt' = exempt \ (Stale(all) \cup ToSet(New(all)))
            BY <3>1 DEF all
        <3>5. ToSet(universe) \subseteq seeded \cup exempt
            BY <3>3 DEF PairsCovered
        <3>6. ToSet(universe') \subseteq seeded' \cup exempt' \cup ToSet(toSeed')
            BY <3>2, <3>4, <3>5
        <3> QED
            BY <3>2, <3>3, <3>4, <3>6 DEF PairsCovered
    <2>3. CASE LoopSeeds
        <3>1. /\ toSeed' = Tail(toSeed) /\ toSeed # <<>> /\ refresh = "seeding"
              /\ UNCHANGED <<universe, refresh>>
              /\ seeded \cup exempt \cup {Head(toSeed)} \subseteq seeded' \cup exempt'
            BY <2>3 DEF LoopSeeds
        <3>2. toSeed' \in Seq(Symbols) /\ ToSet(toSeed) = {Head(toSeed)} \cup ToSet(toSeed')
            BY <3>1, TailEntries DEF PairsCovered
        <3> QED
            BY <3>1, <3>2 DEF PairsCovered
    <2>4. CASE OperatorUpdates
        <3>1. PICK fut \in FuturesAnswers \cup {<<>>}, spot \in SpotAnswers \cup {<<>>} :
                RefreshPairs(fut, spot) /\ exempt' = exempt \cup ToSet(New(Fetched(fut, spot)))
            BY <2>4 DEF OperatorUpdates
        <3>2. /\ universe' \in Seq(Symbols)
              /\ ToSet(universe') \subseteq ToSet(universe) \cup ToSet(New(Fetched(fut, spot)))
            BY <3>1, RefreshedEntries
        <3> QED
            BY <2>4, <3>1, <3>2 DEF OperatorUpdates, puLoop, PairsCovered
    <2>5. CASE LoopWakes \/ LoopCompares \/ LoopRestarts
        BY <2>5 DEF LoopWakes, LoopCompares, LoopRestarts, PairsCovered
    <2>6. CASE Promoted \/ StreamDelivers \/ UNCHANGED puVars
        BY <2>6 DEF Promoted, StreamDelivers, puLoop, puVars, PairsCovered
    <2> QED
        BY <2>1, <2>2, <2>3, <2>4, <2>5, <2>6 DEF PuNext
<1>3. PairsCovered => ScannedPairsSeeded
    BY DEF PairsCovered, ScannedPairsSeeded, Active
<1> QED
    BY <1>1, <1>2, <1>3, PTL DEF PuSpec
=============================================================================
