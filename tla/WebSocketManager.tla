-------------------------- MODULE WebSocketManager --------------------------
(***************************************************************************)
(* One market's WebSocket manager (src/websocket_manager.py): a task per   *)
(* connection that connects, listens and backs off; the watchdog that      *)
(* closes dead sockets; the REST fallback that polls the critical pairs    *)
(* while a connection that carries one of them is degraded; and the HTTP   *)
(* session all of them share.                                              *)
(*                                                                         *)
(* Candles a message brings are CandleStore's.  The seconds of a back-off, *)
(* of the heartbeat and of the staleness limit are left out: a back-off    *)
(* ends some time, a silent socket becomes stale some time.                *)
(***************************************************************************)
EXTENDS Integers, FiniteSets

CONSTANTS
    Conns,         \* the connections start() cuts the streams into
    CriticalConns, \* those with a stream of a critical pair
    RecycleEvery,  \* WS_SESSION_RECYCLE_ATTEMPTS
    AttemptMod     \* reconnect_attempts are counted modulo this multiple

ASSUME WsAssumption ==
    /\ IsFiniteSet(Conns)
    /\ CriticalConns \subseteq Conns
    /\ RecycleEvery \in Nat \ {0} /\ AttemptMod \in Nat \ {0}

VARIABLES
    wsPhase,    \* "stopped", "running" (_running) or "stopping" (in stop())
    wsTask,     \* each connection's task: "off", "connecting", "listening",
                \* "dropped" (an exception or the end of the stream is due)
                \* or "backoff"
    wsOpen,     \* connections whose socket is open
    degraded,   \* conn.degraded
    attempts,   \* conn.reconnect_attempts
    silent,     \* connections without data for the staleness limit
    ping,       \* the watchdog's ping: "none", "sent" or "overdue"
    lagging,    \* connections whose last round trip was too slow
    fallback,   \* _rest_fallback_active
    poller      \* _fallback_task: "none", "seeding" or "polling"

wsVars == <<wsPhase, wsTask, wsOpen, degraded, attempts, silent, ping, lagging,
            fallback, poller>>
probes == <<silent, ping, lagging>>

WsInit ==
    /\ wsPhase = "stopped"
    /\ wsTask = [c \in Conns |-> "off"]
    /\ wsOpen = {}
    /\ degraded = {}
    /\ attempts = [c \in Conns |-> 0]
    /\ silent = {}
    /\ ping = [c \in Conns |-> "none"]
    /\ lagging = {}
    /\ fallback = FALSE
    /\ poller = "none"

WsStart ==
    /\ wsPhase = "stopped"
    /\ wsPhase' = "running"
    /\ wsTask' = [c \in Conns |-> "connecting"]
    /\ wsOpen' = {} /\ degraded' = {} /\ silent' = {} /\ lagging' = {}
    /\ attempts' = [c \in Conns |-> 0]
    /\ ping' = [c \in Conns |-> "none"]
    /\ fallback' = FALSE
    /\ UNCHANGED poller

-----------------------------------------------------------------------------
(* The REST fallback                                                       *)

SyncFallbackFaulty(deg) ==
    LET c == CHOOSE c \in Conns : c \in deg /\ c \notin degraded
    IN  IF c \in CriticalConns
          THEN /\ fallback' = TRUE
               /\ poller' = IF fallback THEN poller ELSE "seeding"
          ELSE fallback' = FALSE /\ poller' = "none"

(* _sync_rest_fallback_state, when the degraded connections are deg: the   *)
(* task is started or cancelled, or goes on as it was.                     *)
SyncFallback(deg) ==
    IF deg \cap CriticalConns # {}
      THEN /\ fallback' = TRUE
           /\ poller' = IF fallback THEN poller ELSE "seeding"
      ELSE fallback' = FALSE /\ poller' = "none"

(* The bulk download of the critical pairs is done.                        *)
Seeded ==
    /\ poller = "seeding"
    /\ poller' = "polling"
    /\ UNCHANGED <<wsPhase, wsTask, wsOpen, degraded, attempts, probes, fallback>>

-----------------------------------------------------------------------------
(* A connection's task                                                     *)

(* _connect clears the flags, conn.degraded too.  So when                  *)
(* _run_connection then calls _set_connection_degraded(conn, False) that   *)
(* call sees no change and returns: the fallback goes on.                  *)
Connected(c) ==
    /\ wsTask[c] = "connecting"
    /\ wsTask' = [wsTask EXCEPT ![c] = "listening"]
    /\ wsOpen' = wsOpen \cup {c}
    /\ degraded' = degraded \ {c}
    /\ attempts' = [attempts EXCEPT ![c] = 0]
    /\ silent' = silent \ {c}
    /\ ping' = [ping EXCEPT ![c] = "none"]
    /\ lagging' = lagging \ {c}
    /\ UNCHANGED <<wsPhase, fallback, poller>>

(* ws_connect raises, or the listener meets the end of its socket.         *)
Breaks(c) ==
    /\ \/ wsTask[c] = "connecting"
       \/ wsTask[c] = "listening" /\ c \notin wsOpen
    /\ wsTask' = [wsTask EXCEPT ![c] = "dropped"]
    /\ UNCHANGED <<wsPhase, wsOpen, degraded, attempts, probes, fallback, poller>>

(* The connection is marked degraded and backs off.  After every           *)
(* RecycleEvery failures in a row it replaces the session, which closes    *)
(* the sockets of all connections and fails those that are connecting.     *)
Dropped(c) ==
    /\ wsTask[c] = "dropped"
    /\ wsPhase = "running"
    /\ degraded' = degraded \cup {c}
    /\ IF c \in degraded
         THEN UNCHANGED <<fallback, poller>>
         ELSE SyncFallback(degraded')
    /\ attempts' = [attempts EXCEPT ![c] = (@ + 1) % AttemptMod]
    /\ IF attempts'[c] % RecycleEvery = 0
         THEN /\ wsOpen' = {}
              /\ wsTask' = [x \in Conns |-> IF x = c THEN "backoff"
                              ELSE IF wsTask[x] = "connecting" THEN "dropped"
                              ELSE wsTask[x]]
         ELSE /\ wsTask' = [wsTask EXCEPT ![c] = "backoff"]
              /\ UNCHANGED wsOpen
    /\ UNCHANGED <<wsPhase, probes>>

BackoffOver(c) ==
    /\ wsTask[c] = "backoff"
    /\ wsPhase = "running"
    /\ wsTask' = [wsTask EXCEPT ![c] = "connecting"]
    /\ UNCHANGED <<wsPhase, wsOpen, degraded, attempts, probes, fallback, poller>>

(* The loop's condition is false: stop() was called.                       *)
TaskReturns(c) ==
    /\ wsTask[c] \in {"dropped", "backoff"}
    /\ wsPhase # "running"
    /\ wsTask' = [wsTask EXCEPT ![c] = "off"]
    /\ UNCHANGED <<wsPhase, wsOpen, degraded, attempts, probes, fallback, poller>>

Live(c) == wsTask[c] = "listening" /\ c \in wsOpen

(* A message, or a ping of the exchange.                                   *)
Message(c) ==
    /\ Live(c)
    /\ silent' = silent \ {c}
    /\ UNCHANGED <<wsPhase, wsTask, wsOpen, degraded, attempts, ping, lagging, fallback, poller>>

Pong(c) ==
    /\ Live(c)
    /\ ping[c] # "none"
    /\ silent' = silent \ {c}
    /\ lagging' = IF ping[c] = "overdue" THEN lagging \cup {c} ELSE lagging \ {c}
    /\ ping' = [ping EXCEPT ![c] = "none"]
    /\ UNCHANGED <<wsPhase, wsTask, wsOpen, degraded, attempts, fallback, poller>>

-----------------------------------------------------------------------------
(* The watchdog, which visits every connection once per heartbeat          *)

DeadFaulty(c) == ping[c] = "overdue" \/ c \in lagging

(* No data for too long, no pong in time, or the last pong took too long.  *)
Dead(c) == c \in silent \/ ping[c] = "overdue" \/ c \in lagging

WatchdogCloses(c) ==
    /\ wsPhase = "running"
    /\ c \in wsOpen
    /\ Dead(c)
    /\ wsOpen' = wsOpen \ {c}
    /\ ping' = [ping EXCEPT ![c] = "none"]
    /\ lagging' = IF c \in silent THEN lagging ELSE lagging \ {c}
    /\ UNCHANGED <<wsPhase, wsTask, degraded, attempts, silent, fallback, poller>>

(* A ping that cannot be sent leaves no mark.                              *)
WatchdogPings(c) ==
    /\ wsPhase = "running"
    /\ c \in wsOpen
    /\ ~ Dead(c)
    /\ \E sent \in {"none", "sent"} : ping' = [ping EXCEPT ![c] = sent]
    /\ UNCHANGED <<wsPhase, wsTask, wsOpen, degraded, attempts, silent, lagging, fallback, poller>>

-----------------------------------------------------------------------------
(* The network and the clock                                               *)

SocketLost(c) ==
    /\ c \in wsOpen
    /\ wsOpen' = wsOpen \ {c}
    /\ UNCHANGED <<wsPhase, wsTask, degraded, attempts, probes, fallback, poller>>

Ages(c) ==
    /\ c \in wsOpen
    /\ \/ silent' = silent \cup {c} /\ UNCHANGED ping
       \/ /\ ping[c] = "sent"
          /\ ping' = [ping EXCEPT ![c] = "overdue"]
          /\ UNCHANGED silent
    /\ UNCHANGED <<wsPhase, wsTask, wsOpen, degraded, attempts, lagging, fallback, poller>>

-----------------------------------------------------------------------------
(* stop()                                                                  *)

WsStop ==
    /\ wsPhase = "running"
    /\ wsPhase' = "stopping"
    /\ fallback' = FALSE
    /\ poller' = "none"
    /\ UNCHANGED <<wsTask, wsOpen, degraded, attempts, probes>>

(* The connections are cancelled and closed one after the other, with an   *)
(* await for each socket; tasks not yet cancelled run on meanwhile.        *)
StopConn(c) ==
    /\ wsPhase = "stopping"
    /\ wsTask[c] # "off" \/ c \in wsOpen \/ c \in degraded
    /\ wsTask' = [wsTask EXCEPT ![c] = "off"]
    /\ wsOpen' = wsOpen \ {c}
    /\ degraded' = degraded \ {c}
    /\ UNCHANGED <<wsPhase, attempts, probes, fallback, poller>>

WsStopped ==
    /\ wsPhase = "stopping"
    /\ \A c \in Conns : wsTask[c] = "off" /\ c \notin wsOpen \cup degraded
    /\ wsPhase' = "stopped"
    /\ UNCHANGED <<wsTask, wsOpen, degraded, attempts, probes, fallback, poller>>

ConnStep(c) ==
    \/ wsTask[c] = "listening" /\ Breaks(c)
    \/ Dropped(c) \/ BackoffOver(c) \/ TaskReturns(c)

WsNext ==
    \/ WsStart \/ WsStop \/ WsStopped \/ Seeded
    \/ \E c \in Conns :
         \/ Connected(c) \/ Breaks(c) \/ Dropped(c) \/ BackoffOver(c) \/ TaskReturns(c)
         \/ Message(c) \/ Pong(c) \/ WatchdogCloses(c) \/ WatchdogPings(c)
         \/ SocketLost(c) \/ Ages(c) \/ StopConn(c)

WsSpec == WsInit /\ [][WsNext]_wsVars

(* The event loop runs every task that can go on, and the watchdog wakes   *)
(* at every heartbeat; the network owes nothing.                           *)
WsFairness ==
    \A c \in Conns : WF_wsVars(ConnStep(c)) /\ WF_wsVars(WatchdogCloses(c)) /\ WF_wsVars(StopConn(c))

WsFairSpec == WsSpec /\ WsFairness

-----------------------------------------------------------------------------
WsTypeOK ==
    /\ wsPhase \in {"stopped", "running", "stopping"}
    /\ wsTask \in [Conns -> {"off", "connecting", "listening", "dropped", "backoff"}]
    /\ wsOpen \subseteq Conns /\ degraded \subseteq Conns
    /\ attempts \in [Conns -> 0..(AttemptMod - 1)]
    /\ silent \subseteq Conns /\ lagging \subseteq Conns
    /\ ping \in [Conns -> {"none", "sent", "overdue"}]
    /\ fallback \in BOOLEAN
    /\ poller \in {"none", "seeding", "polling"}

(* While a connection that carries a critical pair is down - from its      *)
(* first failure until it is connected again - the fallback runs, whatever *)
(* the other connections do, and no fallback outlives stop().              *)
OutageCovered ==
    /\ wsPhase = "running" => \A c \in CriticalConns : wsTask[c] = "backoff" => fallback
    /\ fallback <=> poller # "none"
    /\ wsPhase # "running" => ~ fallback

(* A socket that is open but dead does not keep its task listening for     *)
(* ever: the task ends or its connection speaks again.                     *)
DeadSocketReplaced ==
    \A c \in Conns : Live(c) /\ c \in silent ~> ~ Live(c) \/ c \notin silent

(* "Poll REST klines for critical pairs while WS is down", "Deactivate     *)
(* REST fallback once WS reconnects": with all connections up nothing is   *)
(* polled.                                                                 *)
FallbackOnlyWhileDown ==
    (\A c \in Conns : wsTask[c] = "listening") => ~ fallback
=============================================================================
