----------------------------- MODULE GemScanner -----------------------------
(***************************************************************************)
(* The gem scanner: every few hours the scan loop screens all pairs for    *)
(* deeply discounted tokens (src/gem_scanner.py, the end of a cycle in     *)
(* src/scanner/__init__.py), while the administrator switches it on and    *)
(* off and changes its thresholds (src/commands/channels.py), the market's *)
(* regime changes, and midnight passes.                                    *)
(*                                                                         *)
(* A candidate is what the candles of a symbol say: percentages as they    *)
(* are, volume ratios and multiples in tenths.  above[i] says whether      *)
(* EMA20 was above EMA50 i - 1 days ago, reclaimed that the price is back  *)
(* above EMA20.  Confidence is in points.                                  *)
(***************************************************************************)
EXTENDS Integers, FiniteSets

CONSTANTS
    GemPairs,
    Candidates,
    Chains,         \* answers of the on-chain client: "none" when it fails
    Caps,           \* values the administrator gives max_daily_signals
    FirstCap,       \* GEM_MAX_DAILY_SIGNALS
    MaxRange,       \* max_range_pct
    GemInterval,    \* scan_interval_hours
    GemMinConfidence  \* CHANNEL_GEM.min_confidence

ASSUME GemAssumption ==
    /\ IsFiniteSet(GemPairs)
    /\ Caps \subseteq Nat /\ FirstCap \in Nat
    /\ GemInterval \in Nat
    /\ Chains \subseteq {"none", "whale", "calm"}

VARIABLES
    gemOn,        \* _config.enabled
    thresholds,   \* min_drawdown_pct and min_volume_ratio
    cap,          \* max_daily_signals
    gemWait,      \* hours since _last_scan
    gemRound,     \* pairs of this scan still to come
    gemStep,      \* "idle", "flow" or "put": what the pair under way awaits
    daily,        \* _daily_counts: the day, "never", "past" or "today", and
                  \* the count
    gemsToday,    \* history: signals queued today
    largestCap    \* history: the largest cap of the day

gmVars == <<gemOn, thresholds, cap, gemWait, gemRound, gemStep, daily, gemsToday, largestCap>>

Thresholds(d, r) == [drawdown |-> d, ratio |-> r]
Count(d, n) == [day |-> d, n |-> n]

GmInit ==
    /\ gemOn = TRUE
    /\ thresholds = Thresholds(70, 15)
    /\ cap = FirstCap /\ largestCap = FirstCap
    /\ gemWait = GemInterval
    /\ gemRound = {} /\ gemStep = "idle"
    /\ daily = Count("never", 0) /\ gemsToday = 0

-----------------------------------------------------------------------------
(* The screening                                                           *)

RegimeThresholds ==
    [TRENDING_UP |-> Thresholds(60, 12), TRENDING_DOWN |-> Thresholds(80, 20),
     VOLATILE |-> Thresholds(75, 18), RANGING |-> Thresholds(70, 15)]

Screened(g) ==
    /\ g.days >= 200
    /\ g.drawdown >= thresholds.drawdown
    /\ g.range <= MaxRange
    /\ g.volume >= 250000
    /\ g.ratio >= thresholds.ratio

(* EMA20 above EMA50 today and not on all of the four days before, or a    *)
(* reclaimed EMA20; only when EMA20 has been above for three days.         *)
Crossover(g) ==
    /\ \/ g.above[1] /\ \E i \in 2..5 : ~ g.above[i]
       \/ g.reclaimed
    /\ \A i \in 1..3 : g.above[i]

Within(lo, x, hi) == IF x < lo THEN lo ELSE IF x > hi THEN hi ELSE x

GemConfidence(g, chain) ==
    LET cross == IF Crossover(g) THEN 10 ELSE -5
        depth == CASE g.drawdown >= 85 -> 15 [] g.drawdown \in 75..84 -> 10 [] OTHER -> 5
        base == CASE g.accumulated >= 20 -> 10 [] g.accumulated \in 10..19 -> 5 [] OTHER -> 0
        surge == CASE g.ratio >= 30 -> 15 [] g.ratio \in 20..29 -> 10 [] OTHER -> 5
        room == CASE g.multiple >= 100 -> 10 [] g.multiple \in 50..99 -> 5 [] OTHER -> 0
        obv == IF g.obv THEN 8 ELSE 0
        whale == IF chain = "whale" THEN 10 ELSE 0
    IN  Within(0, 50 + cross + depth + base + surge + room + obv + whale, 100)

\* The bug of a comparison that lets one more signal pass.
CapReachedFaulty == daily.day = "today" /\ daily.n > cap
CapReached == daily.day = "today" /\ daily.n >= cap

-----------------------------------------------------------------------------
(* The scan                                                                *)

GemRoundStarts ==
    /\ gemOn /\ gemWait >= GemInterval
    /\ gemRound = {} /\ gemStep = "idle"
    /\ gemWait' = 0
    /\ gemRound' = GemPairs
    /\ UNCHANGED <<gemOn, thresholds, cap, gemStep, daily, gemsToday, largestCap>>

(* The thresholds follow the market's regime, over what was configured;    *)
(* then the daily candles, if there are any, and the on-chain client.      *)
GemScanStarts(s) ==
    /\ s \in gemRound /\ gemStep = "idle"
    /\ gemRound' = gemRound \ {s}
    /\ IF gemOn
         THEN /\ \E r \in DOMAIN RegimeThresholds : thresholds' = RegimeThresholds[r]
              /\ gemStep' \in {"idle", "flow"}
         ELSE UNCHANGED <<thresholds, gemStep>>
    /\ UNCHANGED <<gemOn, cap, gemWait, daily, gemsToday, largestCap>>

\* A count of another day is replaced by one of today.
Counted == IF daily.day = "past" THEN Count("today", 0) ELSE daily

GemEvaluated(g, chain) ==
    /\ gemStep = "flow"
    /\ IF gemOn /\ Screened(g) /\ ~ CapReached
         THEN /\ daily' = Counted
              /\ gemStep' = IF GemConfidence(g, chain) >= GemMinConfidence THEN "put" ELSE "idle"
         ELSE gemStep' = "idle" /\ UNCHANGED daily
    /\ UNCHANGED <<gemOn, thresholds, cap, gemWait, gemRound, gemsToday, largestCap>>

RecordPublished == daily' = Count("today", IF daily.day = "today" THEN daily.n + 1 ELSE 1)

(* The queue takes the signal, or is full.                                 *)
GemQueued ==
    /\ gemStep = "put"
    /\ gemStep' = "idle"
    /\ \/ RecordPublished /\ gemsToday' = gemsToday + 1
       \/ UNCHANGED <<daily, gemsToday>>
    /\ UNCHANGED <<gemOn, thresholds, cap, gemWait, gemRound, largestCap>>

-----------------------------------------------------------------------------
(* The administrator and the clock                                         *)

GemSwitched ==
    /\ gemOn' = ~ gemOn
    /\ UNCHANGED <<thresholds, cap, gemWait, gemRound, gemStep, daily, gemsToday, largestCap>>

(* /gem_config of the keys that matter here.                               *)
GemConfigured ==
    /\ \/ /\ cap' \in Caps
          /\ largestCap' = IF cap' > largestCap THEN cap' ELSE largestCap
          /\ UNCHANGED thresholds
       \/ /\ thresholds' = Thresholds(90, 30)
          /\ UNCHANGED <<cap, largestCap>>
    /\ UNCHANGED <<gemOn, gemWait, gemRound, gemStep, daily, gemsToday>>

GemHour ==
    /\ gemWait < GemInterval
    /\ gemWait' = gemWait + 1
    /\ UNCHANGED <<gemOn, thresholds, cap, gemRound, gemStep, daily, gemsToday, largestCap>>

Midnight ==
    /\ daily' = IF daily.day = "today" THEN [daily EXCEPT !.day = "past"] ELSE daily
    /\ gemsToday' = 0
    /\ largestCap' = cap
    /\ UNCHANGED <<gemOn, thresholds, cap, gemWait, gemRound, gemStep>>

GmNext ==
    \/ GemRoundStarts \/ GemQueued \/ GemSwitched \/ GemConfigured \/ GemHour \/ Midnight
    \/ \E s \in GemPairs : GemScanStarts(s)
    \/ \E g \in Candidates, chain \in Chains : GemEvaluated(g, chain)

GmSpec == GmInit /\ [][GmNext]_gmVars

-----------------------------------------------------------------------------
GmTypeOK ==
    /\ gemOn \in BOOLEAN /\ cap \in Caps \cup {FirstCap} /\ largestCap \in Caps \cup {FirstCap}
    /\ gemRound \subseteq GemPairs /\ gemStep \in {"idle", "flow", "put"}
    /\ daily \in [day : {"never", "past", "today"}, n : Nat]

(* The cap is checked before the await of the queue and counted after it;  *)
(* it may be lowered, and the day may change, in between.  Still no day    *)
(* sees more signals than the largest cap it had, or one: a day whose      *)
(* count has not begun is not checked, so that a cap of zero lets one pass.*)
(* The count is in memory (_daily_counts), so this holds for each process; *)
(* a restart begins the day anew.                                          *)
GemCapBounded == gemsToday <= (IF largestCap > 0 THEN largestCap ELSE 1)
=============================================================================
