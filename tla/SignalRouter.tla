---------------------------- MODULE SignalRouter ----------------------------
(***************************************************************************)
(* The signal router: the single consumer of the signal queue              *)
(* (src/signal_router.py).  It takes a signal, runs the admission gates,   *)
(* awaits the AI enrichment and the Telegram delivery, retries a failed    *)
(* delivery through the queue, and registers what was delivered: the       *)
(* active signal, the symbol's position lock and, when the signal ends,    *)
(* the (symbol, channel) cooldown.  Around it run the scanner (enqueues    *)
(* and calls cleanup_expired), the trade monitor (calls remove_signal) and *)
(* the clock.                                                              *)
(*                                                                         *)
(* One action is the code between two suspension points of a coroutine.    *)
(* Time is an age per signal and a countdown per cooldown, both saturating *)
(* at the largest threshold the code compares them with, which loses       *)
(* nothing a comparison could see.                                         *)
(***************************************************************************)
EXTENDS Integers, Sequences, FiniteSets

CONSTANTS
    Signals,          \* the signal ids the scanner may ever emit
    Symbols, Channels, Groups,
    Directions,       \* {"LONG", "SHORT"}
    SymbolOf, ChannelOf, DirectionOf,   \* attributes of a signal
    GroupsOf,         \* correlation groups of a symbol
    BadLevels,        \* signals whose TP1, SL or detection price fail the sanity gates
    RiskBlocked,      \* signals whose R:R or order book fail the risk manager
    Configured,       \* channels with a Telegram id in CHANNEL_TELEGRAM_MAP
    Confidence,       \* the confidence values that occur (integers)
    MinConfidence,    \* per channel
    FreeConfidence,   \* 75: what the free channel asks for
    ChannelMax,       \* MAX_CONCURRENT_SIGNALS_PER_CHANNEL
    MaxPerGroup,      \* MAX_SAME_DIRECTION_PER_GROUP
    MaxPerSymbol,     \* _MAX_CONCURRENT_PER_SYMBOL of the risk manager
    Cooldown,         \* CHANNEL_COOLDOWN_SECONDS, in ticks
    StaleAfter,       \* stale threshold of a channel, in ticks
    MinLifespan,      \* MIN_SIGNAL_LIFESPAN_SECONDS, in ticks
    MaxHold,          \* MAX_SIGNAL_HOLD_SECONDS, in ticks
    AgeCap,           \* where an age saturates
    MaxRetries,       \* 2
    QueueMax,         \* QUEUE_MAXSIZE
    Copies,           \* how often a signal can enter the queue (2: an ambiguous push)
    FreeLimits,       \* the values set_free_limit is called with
    InitialFreeLimit, \* 2
    AIModes,          \* whether set_ai_engine() was called: enrichment then suspends
    QueueKinds,       \* whether the queue's get() takes a timeout and returns None
    CleanupEvery,     \* 60 idle polls
    NoLock            \* a symbol without position lock

ASSUME AttributesAssumption ==
    /\ SymbolOf \in [Signals -> Symbols]
    /\ ChannelOf \in [Signals -> Channels]
    /\ DirectionOf \in [Signals -> Directions]
    /\ GroupsOf \in [Symbols -> SUBSET Groups]
    /\ NoLock \notin Directions

ASSUME LimitsAssumption ==
    /\ Confidence \subseteq Int
    /\ ChannelMax \in [Channels -> Nat \ {0}]
    /\ MaxPerGroup \in Nat \ {0}
    /\ Cooldown \in [Channels -> Nat]
    /\ StaleAfter \in [Channels -> Nat]
    /\ MaxHold \in [Channels -> Nat]
    /\ AgeCap \in Nat
    /\ MaxRetries \in Nat
    /\ Copies \in [Signals -> Nat]
    /\ MinConfidence \in [Channels -> Int]
    /\ QueueMax \in Nat \ {0}
    /\ FreeLimits \subseteq Nat
    /\ InitialFreeLimit \in Nat
    /\ CleanupEvery \in Nat \ {0}
    /\ AIModes \subseteq BOOLEAN
    /\ QueueKinds \subseteq BOOLEAN

ASSUME FinitenessAssumption == IsFiniteSet(Signals)

\* As configured, a trade may be closed before it can expire.
ASSUME LifespanAssumption ==
    /\ MinLifespan \in [Channels -> Nat]
    /\ \A c \in Channels : MinLifespan[c] <= MaxHold[c]

VARIABLES
    queue,            \* the signal queue, FIFO
    entered,          \* copies of each signal that have entered the queue
    age,              \* ticks since a signal was detected
    router,           \* the router coroutine: pc and the signal in its hands
    active,           \* _active_signals, by id
    position_lock,    \* _position_lock
    cooldown,         \* ticks left of each _cooldown_timestamps entry
    daily_best,       \* _daily_best
    free_limit,       \* _free_limit
    free_posted,      \* _free_signals_today["active"]
    free_date_old,    \* _free_signal_date is not today
    announced,        \* history: the ids ever registered, written by Delivered only
    idle_polls,       \* _cleanup_counter of start()
    ai_wired,         \* _ai_predictor and _ai_scorer are set
    queue_has_timeout \* _queue_has_timeout, from the signature of queue.get

queueVars  == <<queue, entered>>
tradeVars  == <<active, position_lock, cooldown>>
wiring     == <<ai_wired, queue_has_timeout>>
freeVars   == <<daily_best, free_limit, free_posted, free_date_old>>
vars == <<queue, entered, age, router, active, position_lock, cooldown,
          daily_best, free_limit, free_posted, free_date_old, announced,
          idle_polls, ai_wired, queue_has_timeout>>

Message == [id : Signals, retries : 0..MaxRetries, confidence : Confidence]

(* Where the router coroutine is suspended: waiting for the queue, in the  *)
(* AI predictor, in the premium Telegram send, in the retry back-off, or   *)
(* in the free channel send that follows a registration.                   *)
Idle == [pc |-> "idle"]
Busy(pc, m) == [pc |-> pc, msg |-> m]
RouterStates ==
    {Idle} \cup [pc : {"enrich", "send", "backoff", "free"}, msg : Message]

Init ==
    /\ queue = <<>>
    /\ entered = [s \in Signals |-> 0]
    /\ age = [s \in Signals |-> 0]
    /\ router = Idle
    /\ active = {}
    /\ position_lock = [sym \in Symbols |-> NoLock]
    /\ cooldown = [k \in Symbols \X Channels |-> 0]
    /\ daily_best = <<>>
    /\ free_limit = InitialFreeLimit
    /\ free_posted = FALSE
    /\ free_date_old = TRUE
    /\ announced = {}
    /\ idle_polls = 0
    /\ ai_wired \in AIModes
    /\ queue_has_timeout \in QueueKinds

-----------------------------------------------------------------------------
(* Admission gates of _process, in the order the code tries them.          *)

CooldownKey(s) == <<SymbolOf[s], ChannelOf[s]>>
InChannel(c) == {a \in active : ChannelOf[a] = c}
SameSide(g, d) == {a \in active : g \in GroupsOf[SymbolOf[a]] /\ DirectionOf[a] = d}

(* Variants named ...Faulty are plausible slips of the definition that     *)
(* follows them.  No action uses them: the runs must notice when one takes *)
(* the definition's place.                                                 *)
WithinCorrelationLimitFaulty(s) ==
    \A g \in GroupsOf[SymbolOf[s]] : Cardinality(SameSide(g, DirectionOf[s])) <= MaxPerGroup

WithinCorrelationLimit(s) ==
    \A g \in GroupsOf[SymbolOf[s]] : Cardinality(SameSide(g, DirectionOf[s])) < MaxPerGroup

FreshFaulty(s) == age[s] <= MaxHold[ChannelOf[s]]

Fresh(s) == age[s] <= StaleAfter[ChannelOf[s]]

AdmissibleLockFaulty(s) ==
    /\ cooldown[CooldownKey(s)] = 0
    /\ Cardinality(InChannel(ChannelOf[s])) < ChannelMax[ChannelOf[s]]
    /\ WithinCorrelationLimit(s)
    /\ s \notin BadLevels
    /\ Fresh(s)

AdmissibleCooldownFaulty(s) ==
    /\ position_lock[SymbolOf[s]] = NoLock
    /\ Cardinality(InChannel(ChannelOf[s])) < ChannelMax[ChannelOf[s]]
    /\ WithinCorrelationLimit(s)
    /\ s \notin BadLevels
    /\ Fresh(s)

AdmissibleCapFaulty(s) ==
    /\ position_lock[SymbolOf[s]] = NoLock
    /\ cooldown[CooldownKey(s)] = 0
    /\ Cardinality(InChannel(ChannelOf[s])) <= ChannelMax[ChannelOf[s]]
    /\ WithinCorrelationLimit(s)
    /\ s \notin BadLevels
    /\ Fresh(s)

Admissible(s) ==
    /\ position_lock[SymbolOf[s]] = NoLock
    /\ cooldown[CooldownKey(s)] = 0
    /\ Cardinality(InChannel(ChannelOf[s])) < ChannelMax[ChannelOf[s]]
    /\ WithinCorrelationLimit(s)
    /\ s \notin BadLevels
    /\ Fresh(s)

(* RiskManager.calculate_risk: the concurrency limits, then R:R and the    *)
(* order book.                                                             *)
RiskAllows(s) ==
    /\ Cardinality({a \in active : SymbolOf[a] = SymbolOf[s]}) < MaxPerSymbol
    /\ ~ \E a \in active : SymbolOf[a] = SymbolOf[s] /\ DirectionOf[a] = DirectionOf[s]
    /\ s \notin RiskBlocked

Deliverable(m) ==
    /\ m.confidence >= MinConfidence[ChannelOf[m.id]]
    /\ RiskAllows(m.id)
    /\ ChannelOf[m.id] \in Configured

(* What follows the enrichment: the signal is dropped or its delivery to   *)
(* the premium channel starts.                                             *)
AfterEnrichment(m) == IF Deliverable(m) THEN Busy("send", m) ELSE Idle

-----------------------------------------------------------------------------
(* The scanner's enqueue: a new signal, or a second copy of one that an    *)
(* ambiguous queue failure stored twice.  A full queue refuses it.         *)
Fire(s) ==
    /\ entered[s] < Copies[s]
    /\ Len(queue) < QueueMax
    /\ \E c \in Confidence :
           queue' = Append(queue, [id |-> s, retries |-> 0, confidence |-> c])
    /\ entered' = [entered EXCEPT ![s] = @ + 1]
    /\ UNCHANGED <<age, router, tradeVars, freeVars, idle_polls, announced, wiring>>

(* start() takes the next signal and _process runs up to its first         *)
(* suspension: the gates and, when no AI engine is wired, the checks that  *)
(* follow the enrichment.                                                  *)
Take ==
    /\ router = Idle
    /\ queue # <<>>
    /\ LET m == Head(queue) IN
       router' = IF ~ Admissible(m.id) THEN Idle
                 ELSE IF ai_wired THEN Busy("enrich", m)
                 ELSE AfterEnrichment(m)
    /\ queue' = Tail(queue)
    /\ UNCHANGED <<entered, age, tradeVars, freeVars, idle_polls, announced, wiring>>

(* Signals held longer than their channel allows, and what every removal   *)
(* does: drop the signal, free its symbol, stamp the cooldown.             *)
ExpiredIn(S) == {s \in S : age[s] >= MaxHold[ChannelOf[s]]}

ReleaseFaulty(S) ==
    /\ active' = active \ S
    /\ cooldown' = [k \in Symbols \X Channels |->
           IF \E s \in S : CooldownKey(s) = k THEN Cooldown[k[2]] ELSE cooldown[k]]
    /\ UNCHANGED position_lock

Release(S) ==
    /\ active' = active \ S
    /\ position_lock' = [sym \in Symbols |->
           IF \E s \in S : SymbolOf[s] = sym THEN NoLock ELSE position_lock[sym]]
    /\ cooldown' = [k \in Symbols \X Channels |->
           IF \E s \in S : CooldownKey(s) = k THEN Cooldown[k[2]] ELSE cooldown[k]]

(* start() polled an empty queue.  Only a queue whose get() raises a       *)
(* timeout reaches the counter: SignalQueue returns None and the loop      *)
(* continues at once.                                                      *)
IdleTimeout ==
    /\ router = Idle
    /\ queue = <<>>
    /\ ~ queue_has_timeout
    /\ IF idle_polls + 1 >= CleanupEvery
         THEN /\ Release(ExpiredIn(active))
              /\ idle_polls' = 0
         ELSE /\ idle_polls' = idle_polls + 1
              /\ UNCHANGED tradeVars
    /\ UNCHANGED <<queueVars, age, router, freeVars, announced, wiring>>

(* _enrich_with_ai returns: the predictor's answer may have replaced the   *)
(* confidence of the signal the router carries on with.                    *)
Enriched ==
    /\ router.pc = "enrich"
    /\ \E c \in Confidence : router' = AfterEnrichment([router.msg EXCEPT !.confidence = c])
    /\ UNCHANGED <<queueVars, age, tradeVars, freeVars, idle_polls, announced, wiring>>

-----------------------------------------------------------------------------
(* _daily_best: append, stable sort by descending confidence, trim.        *)
Trimmed(best, limit) == SubSeq(best, 1, IF Len(best) < limit THEN Len(best) ELSE limit)

Ranked(best, m) ==
    LET r == Cardinality({i \in 1..Len(best) : best[i].confidence >= m.confidence})
    IN  SubSeq(best, 1, r) \o <<m>> \o SubSeq(best, r + 1, Len(best))

(* _maybe_publish_free_signal up to its send: the date check resets the    *)
(* flag, then the first confident signal of the day is previewed.          *)
PreviewDue(m) ==
    /\ ~ (free_posted /\ ~ free_date_old)
    /\ m.confidence >= FreeConfidence

(* The premium delivery succeeded: register the signal, lock its symbol,   *)
(* rank it for the free channel and start the preview when one is due.     *)
Delivered ==
    /\ router.pc = "send"
    /\ LET m == router.msg
           s == m.id
       IN  /\ active' = active \cup {s}
           /\ position_lock' = [position_lock EXCEPT ![SymbolOf[s]] = DirectionOf[s]]
           /\ daily_best' = Trimmed(Ranked(daily_best, m), free_limit)
           /\ router' = IF PreviewDue(m) THEN Busy("free", m) ELSE Idle
    /\ announced' = announced \cup {router.msg.id}
    /\ free_posted' = (free_posted /\ ~ free_date_old)
    /\ free_date_old' = FALSE
    /\ UNCHANGED <<queueVars, age, cooldown, free_limit, idle_polls, wiring>>

(* The delivery failed: back off and retry, or give the signal up.         *)
DeliveryFailed ==
    /\ router.pc = "send"
    /\ LET m == router.msg IN
       router' = IF m.retries < MaxRetries
                   THEN Busy("backoff", [m EXCEPT !.retries = @ + 1])
                   ELSE Idle
    /\ UNCHANGED <<queueVars, age, tradeVars, freeVars, idle_polls, announced, wiring>>

RequeueFaulty ==
    /\ router.pc = "backoff"
    /\ Len(queue) < QueueMax
    /\ queue' = Append(queue, router.msg)
    /\ router' = Idle
    /\ UNCHANGED <<entered, age, tradeVars, freeVars, idle_polls, announced, wiring>>

(* The back-off is over: put() the signal again.  Its result is ignored,   *)
(* so a full queue loses the signal.                                       *)
Requeue ==
    /\ router.pc = "backoff"
    /\ queue' = IF Len(queue) < QueueMax THEN Append(queue, router.msg) ELSE queue
    /\ router' = Idle
    /\ UNCHANGED <<entered, age, tradeVars, freeVars, idle_polls, announced, wiring>>

(* The free channel preview was sent (its result is not looked at) or      *)
(* raised (the day's flag stays clear).                                    *)
PreviewDone ==
    /\ router.pc = "free"
    /\ \E sent \in BOOLEAN : free_posted' = (free_posted \/ sent)
    /\ router' = Idle
    /\ UNCHANGED <<queueVars, age, tradeVars, daily_best, free_limit, free_date_old, idle_polls, announced, wiring>>

-----------------------------------------------------------------------------
(* remove_signal, called by the trade monitor at the end of a trade.  The  *)
(* monitor works on a snapshot of the active signals, so the signal may be *)
(* gone already: then nothing happens.                                     *)
RemoveSignal(s) ==
    /\ s \in active
    /\ age[s] >= MinLifespan[ChannelOf[s]]
    /\ Release({s})
    /\ UNCHANGED <<queueVars, age, router, freeVars, idle_polls, announced, wiring>>

(* cleanup_expired, called by the scanner at the start of every cycle.     *)
CleanupExpired ==
    /\ ExpiredIn(active) # {}
    /\ Release(ExpiredIn(active))
    /\ UNCHANGED <<queueVars, age, router, freeVars, idle_polls, announced, wiring>>

(* The admin command /set_free_channel_limit.                              *)
SetFreeLimit(n) ==
    /\ free_limit' = n
    /\ daily_best' = Trimmed(daily_best, n)
    /\ UNCHANGED <<queueVars, age, router, tradeVars, free_posted, free_date_old, idle_polls, announced, wiring>>

(* Midnight: the stored date is no longer today's.                         *)
NewDay ==
    /\ free_date_old' = TRUE
    /\ UNCHANGED <<queueVars, age, router, tradeVars, daily_best, free_limit, free_posted,
                   idle_polls, announced, wiring>>

(* The wall clock, which timestamp, detected_at and the cooldowns share.   *)
Tick ==
    /\ age' = [s \in Signals |->
           IF entered[s] > 0 /\ age[s] < AgeCap THEN age[s] + 1 ELSE age[s]]
    /\ cooldown' = [k \in Symbols \X Channels |->
           IF cooldown[k] > 0 THEN cooldown[k] - 1 ELSE 0]
    /\ UNCHANGED <<queueVars, router, active, position_lock, freeVars, idle_polls, announced, wiring>>

RouterStep ==
    \/ Take \/ IdleTimeout \/ Enriched
    \/ Delivered \/ DeliveryFailed \/ Requeue \/ PreviewDone

Next ==
    \/ \E s \in Signals : Fire(s)
    \/ RouterStep
    \/ \E s \in Signals : RemoveSignal(s)
    \/ CleanupExpired
    \/ \E n \in FreeLimits : SetFreeLimit(n)
    \/ NewDay
    \/ Tick

Spec == Init /\ [][Next]_vars

(* The event loop runs every ready coroutine, every Telegram request has a *)
(* timeout, the clock advances and scan_loop calls cleanup_expired first   *)
(* in each cycle, also while the circuit breaker is tripped.  The monitor  *)
(* is given no fairness: a symbol without a price is never evaluated.      *)
FairSpec == Spec /\ WF_vars(RouterStep) /\ WF_vars(Tick) /\ WF_vars(CleanupExpired)

(* The same without the scan loop: what the router does on its own.        *)
RouterFairSpec == Spec /\ WF_vars(RouterStep) /\ WF_vars(Tick)

-----------------------------------------------------------------------------
TypeOK ==
    /\ queue \in Seq(Message)
    /\ Len(queue) <= QueueMax
    /\ entered \in [Signals -> Nat]
    /\ age \in [Signals -> 0..AgeCap]
    /\ router \in RouterStates
    /\ active \in SUBSET Signals
    /\ position_lock \in [Symbols -> Directions \cup {NoLock}]
    /\ cooldown \in [Symbols \X Channels -> Nat]
    /\ daily_best \in Seq(Message)
    /\ Len(daily_best) <= free_limit
    /\ free_limit \in Nat
    /\ free_posted \in BOOLEAN
    /\ free_date_old \in BOOLEAN
    /\ announced \in SUBSET Signals
    /\ idle_polls \in 0..CleanupEvery
    /\ ai_wired \in BOOLEAN
    /\ queue_has_timeout \in BOOLEAN

(* Each symbol has at most one active signal, and a position lock exists   *)
(* exactly for the symbols of active signals, in their direction: no       *)
(* symbol stays blocked without a position and none is traded twice, for   *)
(* every interleaving of the router's awaits with removals, cleanups and   *)
(* duplicated queue entries.                                               *)
OnePositionPerSymbol ==
    /\ \A a, b \in active : SymbolOf[a] = SymbolOf[b] => a = b
    /\ \A a \in active : position_lock[SymbolOf[a]] = DirectionOf[a]
    /\ \A sym \in Symbols :
           position_lock[sym] # NoLock => \E a \in active : SymbolOf[a] = sym

(* The channel caps and the correlation limit hold at all times although   *)
(* they are checked before the enrichment and delivery awaits and the      *)
(* position is only registered after them.                                 *)
ChannelCapRespected ==
    \A c \in Channels : Cardinality(InChannel(c)) <= ChannelMax[c]

CorrelationLimitRespected ==
    \A g \in Groups, d \in Directions : Cardinality(SameSide(g, d)) <= MaxPerGroup

(* What the gates established still holds while the router awaits the      *)
(* enrichment or the delivery: nothing else takes the symbol, the channel  *)
(* slot or the place in the correlation group meanwhile.                   *)
AwaitsDelivery == router # Idle /\ router.pc \in {"enrich", "send"}

GatesStillHold ==
    AwaitsDelivery =>
        LET s == router.msg.id IN
        /\ position_lock[SymbolOf[s]] = NoLock
        /\ cooldown[CooldownKey(s)] = 0
        /\ Cardinality(InChannel(ChannelOf[s])) < ChannelMax[ChannelOf[s]]
        /\ WithinCorrelationLimit(s)

(* The inductive invariant of the router: the safety invariants need the   *)
(* gates to hold until the delivery, the gates need the exact locks.       *)
RouterInv ==
    /\ TypeOK
    /\ OnePositionPerSymbol
    /\ ChannelCapRespected
    /\ CorrelationLimitRespected
    /\ GatesStillHold

(* No signal is registered while its (symbol, channel) cools down: the     *)
(* cooldown read at the gate is not stale when the delivery returns.       *)
CooldownRespected ==
    [][\A s \in active' \ active : cooldown[CooldownKey(s)] = 0]_vars

(* A channel whose stale window is shorter than the least time a trade is  *)
(* held never announces a signal twice, also when the queue delivers a     *)
(* second copy: the copy meets the position lock or the stale gate.        *)
NeverAnnouncedTwice ==
    [][\A s \in (active' \ active) \cap announced :
           StaleAfter[ChannelOf[s]] >= MinLifespan[ChannelOf[s]]]_vars

(* A locked symbol is unlocked again, also when the trade monitor never    *)
(* closes the trade.                                                       *)
LockReleased ==
    \A sym \in Symbols : position_lock[sym] # NoLock ~> position_lock[sym] = NoLock

(* The idle loop of start() claims to clean up expired signals "roughly    *)
(* every 60 seconds" (line 341), whoever else does: under RouterFairSpec   *)
(* only this loop is relied on.                                            *)
RouterCleansUp == \A s \in Signals : s \in ExpiredIn(active) ~> s \notin ExpiredIn(active)

(* Every queued signal is eventually decided: registered, rejected or      *)
(* given up, and does not cycle through delivery retries for ever.         *)
Pending(s) ==
    \/ \E i \in DOMAIN queue : queue[i].id = s
    \/ router # Idle /\ router.msg.id = s

EventuallyDecided == \A s \in Signals : Pending(s) ~> ~ Pending(s)
=============================================================================
