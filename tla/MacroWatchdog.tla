--------------------------- MODULE MacroWatchdog ---------------------------
(***************************************************************************)
(* The watchdog of market-wide news (src/macro_watchdog.py).  One task     *)
(* polls the Fear & Greed index, then the latest headline of each coin,    *)
(* and alerts the administrators.  The engine starts and stops the task;   *)
(* the watchdog keeps what it has seen from one task to the next.          *)
(*                                                                         *)
(* The clock is time.monotonic, the host's uptime: a headline that was     *)
(* never seen counts as seen when the host started.                        *)
(***************************************************************************)
EXTENDS Integers, FiniteSets

CONSTANTS
    Headlines,
    Coins,          \* watch_symbols
    DedupTtl,       \* _DEDUP_TTL, in ticks
    IndexValues,    \* answers of the Fear & Greed index
    FearBelow, GreedAbove,  \* the thresholds
    Unseen          \* no entry

ASSUME WatchdogAssumption ==
    /\ IsFiniteSet(Coins)
    /\ DedupTtl \in Nat \ {0}
    /\ IndexValues \subseteq 0..100
    /\ FearBelow \in 0..100 /\ GreedAbove \in 0..100
    /\ Unseen \notin Nat

VARIABLES
    watching,       \* what the task awaits, see Waits
    coins,      \* coins whose news this poll has still to fetch
    uptime,     \* of the host, saturating at DedupTtl
    seen,       \* _seen_headlines: the age of each, saturating, or Unseen
    fearGreed,  \* _last_fg_value, or Unseen
    alerted,    \* history: the age of the detection that led to the last
                \* alert of a headline, saturating
    detected,   \* history: the age of the detection of the headline under
                \* way, saturating
    since,      \* history: what alerted was at that detection
    announced   \* history: was the extreme the index is in announced?

mwVars == <<watching, coins, uptime, seen, fearGreed, alerted, detected, since, announced>>

Waits ==
    ({"off", "sleep", "index", "index alert", "news"} \X {Unseen})
    \cup ({"classify", "alert"} \X Headlines)
Idle(w) == <<w, Unseen>>

MwInit ==
    /\ watching = Idle("off") /\ coins = {}
    /\ uptime = 0
    /\ seen = [h \in Headlines |-> Unseen]
    /\ fearGreed = Unseen
    /\ alerted = [h \in Headlines |-> DedupTtl]
    /\ detected = DedupTtl /\ since = DedupTtl
    /\ announced = FALSE

-----------------------------------------------------------------------------
Extreme(v) == v <= FearBelow \/ v >= GreedAbove
Distance(a, b) == IF a > b THEN a - b ELSE b - a
Changed(v) == fearGreed = Unseen \/ Distance(v, fearGreed) >= 5

SinceSeen(h) == IF seen[h] = Unseen THEN uptime ELSE seen[h]

\* The bug of a prune that keeps the old entries and drops the recent.
ForgettableFaulty(age) == age # Unseen /\ age < DedupTtl
Forgettable(age) == age # Unseen /\ age >= DedupTtl
Pruned(s) == [h \in Headlines |-> IF Forgettable(s[h]) THEN Unseen ELSE s[h]]

\* The next coin, or the sleep after the poll.
NewsNext == watching' = Idle(IF coins = {} THEN "sleep" ELSE "news")

-----------------------------------------------------------------------------
(* start and stop                                                          *)

WatchdogStarts ==
    /\ watching[1] = "off"
    /\ watching' = Idle("index")
    /\ UNCHANGED <<coins, uptime, seen, fearGreed, alerted, detected, since, announced>>

(* The task is cancelled in any of its awaits.                             *)
WatchdogStops ==
    /\ watching[1] # "off"
    /\ watching' = Idle("off") /\ coins' = {}
    /\ UNCHANGED <<uptime, seen, fearGreed, alerted, detected, since, announced>>

(* The process dies with all it has seen; the host goes on.                *)
WatchdogDies ==
    /\ watching' = Idle("off") /\ coins' = {}
    /\ seen' = [h \in Headlines |-> Unseen]
    /\ fearGreed' = Unseen
    /\ alerted' = [h \in Headlines |-> DedupTtl]
    /\ detected' = DedupTtl /\ since' = DedupTtl
    /\ announced' = FALSE
    /\ UNCHANGED uptime

PollAgain ==
    /\ watching[1] = "sleep"
    /\ watching' = Idle("index")
    /\ UNCHANGED <<coins, uptime, seen, fearGreed, alerted, detected, since, announced>>

-----------------------------------------------------------------------------
(* The index                                                               *)

(* A fetch that fails is answered by a neutral 50.  The value is kept      *)
(* whether or not it differs enough from the one before to be announced.   *)
IndexRead(v) ==
    /\ watching[1] = "index"
    /\ fearGreed' = v
    /\ coins' = Coins
    /\ watching' = Idle(IF Extreme(v) /\ Changed(v) THEN "index alert" ELSE "news")
    /\ announced' = (announced /\ Extreme(v))
    /\ UNCHANGED <<uptime, seen, alerted, detected, since>>

(* An exception of the sending ends this poll.                             *)
IndexAnnounced ==
    /\ watching[1] = "index alert"
    /\ \/ watching' = Idle("news") /\ UNCHANGED coins
       \/ watching' = Idle("sleep") /\ coins' = {}
    /\ announced' = TRUE
    /\ UNCHANGED <<uptime, seen, fearGreed, alerted, detected, since>>

-----------------------------------------------------------------------------
(* The news                                                                *)

(* No headline, one that was seen, or a fetch that fails.                  *)
NoNews(c) ==
    /\ coins' = coins \ {c}
    /\ watching' = Idle(IF coins' = {} THEN "sleep" ELSE "news")
    /\ UNCHANGED <<seen, detected, since>>

(* A headline that is new is marked as seen before it is classified.       *)
Detected(c, h) ==
    /\ SinceSeen(h) >= DedupTtl
    /\ seen' = Pruned([seen EXCEPT ![h] = 0])
    /\ detected' = 0 /\ since' = alerted[h]
    /\ coins' = coins \ {c}
    /\ watching' = <<"classify", h>>

NewsFetched(c) ==
    /\ watching[1] = "news" /\ c \in coins
    /\ NoNews(c) \/ \E h \in Headlines : Detected(c, h)
    /\ UNCHANGED <<uptime, fearGreed, alerted, announced>>

(* OpenAI, or without its answer the strength of the sentiment, says       *)
(* whether the headline matters.                                           *)
Classified ==
    /\ watching[1] = "classify"
    /\ \/ watching' = <<"alert", watching[2]>>
       \/ NewsNext
    /\ UNCHANGED <<coins, uptime, seen, fearGreed, alerted, detected, since, announced>>

\* Sent, or refused: the result is not looked at.
AlertSent ==
    /\ watching[1] = "alert"
    /\ NewsNext
    /\ alerted' = [alerted EXCEPT ![watching[2]] = detected]
    /\ UNCHANGED <<coins, uptime, seen, fearGreed, detected, since, announced>>

-----------------------------------------------------------------------------
Aged(n) == IF n = Unseen \/ n = DedupTtl THEN n ELSE n + 1

MacroTick ==
    /\ uptime' = Aged(uptime)
    /\ seen' = [h \in Headlines |-> Aged(seen[h])]
    /\ alerted' = [h \in Headlines |-> Aged(alerted[h])]
    /\ detected' = Aged(detected)
    /\ UNCHANGED <<watching, coins, fearGreed, since, announced>>

MwNext ==
    \/ WatchdogStarts \/ WatchdogStops \/ WatchdogDies \/ PollAgain
    \/ \E v \in IndexValues \cup {50} : IndexRead(v)
    \/ IndexAnnounced \/ Classified \/ AlertSent \/ MacroTick
    \/ \E c \in Coins : NewsFetched(c)

MwSpec == MwInit /\ [][MwNext]_mwVars

-----------------------------------------------------------------------------
MwTypeOK ==
    /\ watching \in Waits /\ coins \subseteq Coins
    /\ uptime \in 0..DedupTtl
    /\ seen \in [Headlines -> 0..DedupTtl \cup {Unseen}]
    /\ alerted \in [Headlines -> 0..DedupTtl]

(* A headline that several coins share, that comes again in each poll, or  *)
(* that was under way when the task was stopped and started again, leads   *)
(* to one alert in a DedupTtl: an alert about to be sent was detected that *)
(* long after the detection behind the one before.                         *)
HeadlineOnce == watching[1] = "alert" => since >= DedupTtl

(* The comment: "skip if we've sent this headline recently".  TLC refutes  *)
(* it: a headline is skipped although its alert was not sent, was not      *)
(* worth one, or the host has only just started.                           *)
SkippedWasSent ==
    \A h \in Headlines : SinceSeen(h) < DedupTtl /\ watching[1] = "news" => alerted[h] < DedupTtl

(* The doc of _check_fear_greed: "Alert when the Fear & Greed index hits   *)
(* extreme territory".  TLC refutes it: an index that drifts into it by    *)
(* less than 5 in each poll is never announced.                            *)
ExtremesAnnounced ==
    watching[1] = "news" /\ fearGreed # Unseen /\ Extreme(fearGreed) => announced
=============================================================================
