----------------------------- MODULE OrderFlow -----------------------------
(***************************************************************************)
(* The order flow of one symbol (src/order_flow.py): open interest polled  *)
(* over REST, liquidations that the message handler only buffers and a     *)
(* loop moves to the store (src/main.py), and the cumulative volume delta  *)
(* (CVD), of which the handler takes a snapshot at every closed candle, of *)
(* whatever interval.  The detector asks for all three when it has found a *)
(* sweep (src/detector.py).                                                *)
(*                                                                         *)
(* A minute is one step of the clock of the candles, a tick one of the     *)
(* clock of the liquidations.  Liquidations are of one size, trades too.   *)
(***************************************************************************)
EXTENDS Integers, Sequences, FiniteSets

CONSTANTS
    Intervals,     \* the streamed intervals: 1m, 5m, 1h, 4h
    Minutes,       \* Minutes[i]: the length of a candle of i
    Analysed,      \* the interval whose closes the detector compares
    Lookback,      \* of get_cvd_divergence, 20
    CvdHistory,    \* _CVD_HISTORY_SIZE
    ClosePrices, CvdValues, MaxMinute,  \* bounds of the instance
    LiqHistory,    \* _LIQ_HISTORY_SIZE
    LiqWindow,     \* window_seconds of get_recent_liq_volume_usd, in ticks
    Flood,         \* bound: liquidations in the window, or in the buffer
    OiReadings,    \* values of the open interest
    OiHistory,     \* _OI_HISTORY_SIZE
    OiLookback     \* of get_oi_trend, 5

ASSUME OrderFlowAssumption ==
    /\ IsFiniteSet(Intervals) /\ Analysed \in Intervals
    /\ Minutes \in [Intervals -> Nat \ {0}]
    /\ Lookback \in Nat /\ Lookback >= 4 /\ CvdHistory \in Nat /\ CvdHistory >= Lookback
    /\ LiqHistory \in Nat \ {0} /\ LiqWindow \in Nat /\ Flood \in Nat
    /\ CvdValues \subseteq Int /\ OiReadings \subseteq Nat /\ OiHistory \in Nat \ {0} /\ OiLookback \in 2..OiHistory

VARIABLES
    minute,       \* minutes since the streams started
    price,        \* the last traded price
    closing,      \* intervals whose closed candle of this minute is to come
    cvd,          \* _running_cvd
    snapshots,    \* _cvd_candle, with the minute of each (history)
    closes,       \* the closes of the analysed interval, with their minute
    divergence,   \* SMCResult.cvd_divergence
    pending,      \* _pending_liquidations: the age of each event
    liquidations, \* _liqs: the age of each event
    received,     \* history: the ages of those received in the last LiqWindow
    oi,           \* _oi
    invalidated   \* SMCResult.oi_invalidated

ofCandles == <<minute, price, closing, cvd, snapshots, closes, divergence>>
ofFutures == <<pending, liquidations, received, oi, invalidated>>
ofVars == <<ofCandles, ofFutures>>

OfInit ==
    /\ minute = 0 /\ price = (CHOOSE p \in ClosePrices : TRUE) /\ closing = {}
    /\ cvd = 0 /\ snapshots = <<>> /\ closes = <<>> /\ divergence = "NONE"
    /\ pending = <<>> /\ liquidations = <<>> /\ received = <<>>
    /\ oi = <<>> /\ invalidated = FALSE

-----------------------------------------------------------------------------
\* A deque with a maxlen, and the end of a list.
Ending(s, n) == IF Len(s) > n THEN SubSeq(s, Len(s) - n + 1, Len(s)) ELSE s
Appended(s, e, n) == Ending(Append(s, e), n)

Lowest(s, a, b) == CHOOSE x \in {s[i] : i \in a..b} : \A i \in a..b : x <= s[i]
Highest(s, a, b) == CHOOSE x \in {s[i] : i \in a..b} : \A i \in a..b : x >= s[i]

(* Price and CVD disagree about the extremes of the two halves of a        *)
(* window; the lows are compared first.                                    *)
DetectDivergence(p, c) ==
    LET n == Len(p)
        h == n \div 2
        Lower(s) == Lowest(s, h + 1, n) < Lowest(s, 1, h)
        RisingLow(s) == Lowest(s, h + 1, n) > Lowest(s, 1, h)
        Higher(s) == Highest(s, h + 1, n) > Highest(s, 1, h)
        FallingHigh(s) == Highest(s, h + 1, n) < Highest(s, 1, h)
    IN  CASE Lower(p) /\ RisingLow(c) -> "BULLISH"
          [] ~ (Lower(p) /\ RisingLow(c)) /\ Higher(p) /\ FallingHigh(c) -> "BEARISH"
          [] OTHER -> "NONE"

Values(s) == [i \in DOMAIN s |-> s[i].value]
Comparable == Len(snapshots) >= Lookback /\ Len(closes) >= Lookback

(* The ends of the two lists, as if their entries were of the same times.  *)
CvdDivergence ==
    IF ~ Comparable THEN "NONE"
    ELSE DetectDivergence(Values(Ending(closes, Lookback)), Values(Ending(snapshots, Lookback)))

\* A change of the open interest over the readings, in 1/10000.
OiChange(s) ==
    LET recent == Ending(s, OiLookback)
    IN  IF Len(recent) < 2 \/ recent[1] = 0 THEN 0
        ELSE ((recent[Len(recent)] - recent[1]) * 10000) \div recent[1]

OiTrend(s) ==
    IF OiChange(s) <= -50 THEN "FALLING" ELSE IF OiChange(s) >= 50 THEN "RISING" ELSE "NEUTRAL"

(* A rise of one percent or more, whatever the direction of the signal.    *)
IsOiInvalidated(s) == OiTrend(s) = "RISING" /\ OiChange(s) >= 100

-----------------------------------------------------------------------------
(* Candles and trades                                                      *)

Trade(d, p) ==
    /\ cvd + d \in CvdValues
    /\ cvd' = cvd + d
    /\ price' = p
    /\ UNCHANGED <<minute, closing, snapshots, closes, divergence, ofFutures>>

MinuteEnds ==
    /\ closing = {} /\ minute < MaxMinute
    /\ minute' = minute + 1
    /\ closing' = {i \in Intervals : minute' % Minutes[i] = 0}
    /\ UNCHANGED <<price, cvd, snapshots, closes, divergence, ofFutures>>

Stamped(v) == [value |-> v, at |-> minute]

(* The closed candles of a minute come in any order, with trades between.  *)
KlineClosed(i) ==
    /\ i \in closing
    /\ closing' = closing \ {i}
    /\ closes' = IF i = Analysed THEN Appended(closes, Stamped(price), CvdHistory) ELSE closes
    /\ snapshots' = Appended(snapshots, Stamped(cvd), CvdHistory)
    /\ UNCHANGED <<minute, price, cvd, divergence, ofFutures>>

DetectCvd ==
    /\ divergence' = CvdDivergence
    /\ UNCHANGED <<minute, price, closing, cvd, snapshots, closes, ofFutures>>

CandleNext ==
    \/ \E d \in {-1, 1}, p \in ClosePrices : Trade(d, p)
    \/ MinuteEnds
    \/ \E i \in Intervals : KlineClosed(i)
    \/ DetectCvd

-----------------------------------------------------------------------------
(* Liquidations and open interest                                          *)

Recent(age) == age <= LiqWindow
LiqVolume(s) == Cardinality({i \in DOMAIN s : Recent(s[i])})

LiquidationArrives ==
    /\ Len(received) < Flood /\ Len(pending) < Flood
    /\ pending' = Append(pending, 0)
    /\ received' = Append(received, 0)
    /\ UNCHANGED <<liquidations, oi, invalidated, ofCandles>>

\* The bug of an event that is stamped when it is stored.
StoredFaulty == Ending(liquidations \o [i \in DOMAIN pending |-> 0], LiqHistory)
Stored == Ending(liquidations \o pending, LiqHistory)

FlushPending ==
    /\ pending # <<>>
    /\ liquidations' = Stored
    /\ pending' = <<>>
    /\ UNCHANGED <<received, oi, invalidated, ofCandles>>

Older(s) == [i \in DOMAIN s |-> IF Recent(s[i]) THEN s[i] + 1 ELSE s[i]]

LiquidationTick ==
    /\ pending \o liquidations # <<>>
    /\ pending' = Older(pending)
    /\ liquidations' = Older(liquidations)
    /\ received' = Ending(Older(received), LiqVolume(Older(received)))
    /\ UNCHANGED <<oi, invalidated, ofCandles>>

\* A reading that fails is left out: the trend is over readings, not time.
PollOi(v) ==
    /\ oi' = Appended(oi, v, OiHistory)
    /\ UNCHANGED <<pending, liquidations, received, invalidated, ofCandles>>

DetectOi ==
    /\ invalidated' = IsOiInvalidated(oi)
    /\ UNCHANGED <<pending, liquidations, received, oi, ofCandles>>

FuturesNext ==
    \/ LiquidationArrives \/ FlushPending \/ LiquidationTick \/ DetectOi
    \/ \E v \in OiReadings : PollOi(v)

OfNext == CandleNext \/ FuturesNext

OfSpec == OfInit /\ [][OfNext]_ofVars

-----------------------------------------------------------------------------
OfTypeOK ==
    /\ minute \in 0..MaxMinute /\ price \in ClosePrices /\ closing \subseteq Intervals
    /\ cvd \in Int /\ divergence \in {"NONE", "BULLISH", "BEARISH"}
    /\ Len(snapshots) <= CvdHistory /\ Len(closes) <= CvdHistory
    /\ Len(liquidations) <= LiqHistory /\ Len(pending) <= Flood /\ Len(received) <= Flood
    /\ oi \in Seq(OiReadings) /\ Len(oi) <= OiHistory /\ invalidated \in BOOLEAN

(* The volume of liquidations the detector is told is what was received in *)
(* the window, without what still waits in the buffer, up to the size of   *)
(* the deque: buffering neither loses an event nor keeps it in the window  *)
(* longer (_flush_pending_liquidations, get_recent_liq_volume_usd).        *)
LiquidationsCounted ==
    LET flushed == Len(received) - LiqVolume(pending)
    IN  LiqVolume(liquidations) = IF flushed < LiqHistory THEN flushed ELSE LiqHistory

(* The doc of snapshot_cvd_at_candle_close: "Aligns CVD snapshots with     *)
(* candle boundaries so that get_cvd_divergence can compare CVD and price  *)
(* on the same time grid": what is compared is of the same candles.        *)
CvdOnTheGrid ==
    closing = {} /\ Comparable =>
        LET p == Ending(closes, Lookback)
            c == Ending(snapshots, Lookback)
        IN  \A i \in 1..Lookback : p[i].at = c[i].at
=============================================================================
