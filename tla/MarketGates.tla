---------------------------- MODULE MarketGates ----------------------------
(***************************************************************************)
(* The gates a signal meets on its way through the scanner and the         *)
(* channels: agreement of the timeframes, open interest, sessions, the     *)
(* state of the majors, the order book, volumes and the VWAP, and the      *)
(* regime they are weighed by.  Prices are in hundredths of 1e-8, ratios   *)
(* and scores in hundredths, changes in hundredths of a percent.           *)
(***************************************************************************)
EXTENDS Confidence, SequencesExt

Timeframes == {"1m", "5m", "15m", "1h", "4h"}

(***************************************************************************)
(* MarketRegimeDetector._decide: adx, slope of the EMAs and width of the   *)
(* bands, each <<>> when it is missing or <<value>>.                       *)
(***************************************************************************)
SlopeLimit(tf) == IF tf = "1m" THEN 15 ELSE 5
BySlope(slope) == IF slope > 0 THEN "TRENDING_UP" ELSE "TRENDING_DOWN"

Decide(adx, slope, width, tf) ==
    LET steep == slope # <<>> /\ AbsVal(slope[1]) > SlopeLimit(tf)
        byAdx == CASE adx = <<>> -> IF steep THEN BySlope(slope[1]) ELSE "RANGING"
                   [] OTHER -> CASE adx[1] <= 1800 -> "RANGING"
                                 [] adx[1] < 2500 -> IF steep THEN BySlope(slope[1]) ELSE "RANGING"
                                 [] OTHER -> IF slope = <<>> THEN "TRENDING_UP" ELSE BySlope(slope[1])
    IN  IF width = <<>> THEN byAdx
        ELSE IF width[1] >= 500 THEN "VOLATILE" ELSE IF width[1] <= 120 THEN "QUIET" ELSE byAdx

\* Percentile of the last ATR in its window, and the side of the VWAP the
\* volume traded on.
AtrPercentile(atrs) ==
    IF Len(atrs) < 2 THEN 50
    ELSE (Cardinality({i \in DOMAIN atrs : atrs[i] <= Last(atrs)}) * 100) \div Len(atrs)

VolumeProfile(above, below) ==
    LET total == above + below
    IN  IF total > 0 /\ above * 100 > 60 * total THEN "ACCUMULATION"
        ELSE IF total > 0 /\ above * 100 < 40 * total THEN "DISTRIBUTION" ELSE "NEUTRAL"

(***************************************************************************)
(* mtf.py: confluence of the timeframes.  tfs is a function from the       *)
(* timeframes with data to [fast, slow, close]; weights are in tenths.     *)
(***************************************************************************)
Trend(tf) ==
    CASE tf.fast > tf.slow /\ tf.close > tf.fast -> "BULLISH"
      [] tf.fast < tf.slow /\ tf.close < tf.fast -> "BEARISH"
      [] OTHER -> "NEUTRAL"

TfWeight(tf) == CASE tf = "1m" -> 5 [] tf = "5m" -> 10 [] tf = "15m" -> 15 [] tf = "1h" -> 20 [] OTHER -> 30

\* The regime stretches the weights of higher and lower timeframes.
RegimeWeight(regime, tf) ==
    LET higher == CASE regime \in Trending -> 150 [] regime = "RANGING" -> 70 [] regime = "QUIET" -> 80 [] OTHER -> 100
        lower == CASE regime \in Trending -> 80 [] regime = "RANGING" -> 140 [] regime = "QUIET" -> 120 [] OTHER -> 100
    IN  TfWeight(tf) * (CASE tf = "4h" -> higher [] tf = "1h" -> 100 [] OTHER -> lower)

\* compute_mtf_confluence adds up timeframe by timeframe.
SumOverTimeframes(of) == of["1m"] + of["5m"] + of["15m"] + of["1h"] + of["4h"]

\* Share of the weight that agrees with the direction, half for neutral ones.
Confluence(d, tfs, weight) ==
    LET wanted == IF d = "LONG" THEN "BULLISH" ELSE "BEARISH"
        credit(tf) == CASE Trend(tfs[tf]) = wanted -> 100 [] Trend(tfs[tf]) = "NEUTRAL" -> 50 [] OTHER -> 0
        all == [tf \in Timeframes |-> IF tf \in DOMAIN tfs THEN weight[tf] ELSE 0]
        agreeing == [tf \in Timeframes |-> IF tf \in DOMAIN tfs THEN weight[tf] * credit(tf) ELSE 0]
    IN  IF DOMAIN tfs = {} THEN 0
        ELSE SumOverTimeframes(agreeing) \div SumOverTimeframes(all)

MtfMinimum(regime) ==
    CASE regime \in Trending -> 60 [] regime = "RANGING" -> 30 [] regime = "VOLATILE" -> 20 [] OTHER -> 40
MtfAllowed(d, tfs, regime) ==
    \/ DOMAIN tfs = {}
    \/ Confluence(d, tfs, [tf \in DOMAIN tfs |-> RegimeWeight(regime, tf)]) >= MtfMinimum(regime)

(***************************************************************************)
(* mtf.py: the gates of single channels on one higher timeframe.  Each     *)
(* gives the adjustment of the confidence, or Blocked.                     *)
(***************************************************************************)
Blocked == -10000

EmasAligned(h, d) ==
    \/ h.ema9 = None \/ h.ema21 = None
    \/ /\ Beyond(h.ema9, h.ema21, d)
       /\ h.ema200 # None => IF d = "LONG" THEN h.ema9 > h.ema200 ELSE h.ema9 <= h.ema200

RsiRoom(h, d) == h.rsi = None \/ (IF d = "LONG" THEN h.rsi < 70 ELSE h.rsi > 30)

StandardMtf(h, d, regime) ==
    CASE EmasAligned(h, d) /\ RsiRoom(h, d) -> 0
      [] EmasAligned(h, d) # RsiRoom(h, d) -> -500
      [] OTHER -> IF regime \in Trending \cup {"VOLATILE"} THEN Blocked ELSE -1000

RangeFadeMtf(h, d) ==
    IF h.rsi = None \/ (IF d = "LONG" THEN h.rsi <= 45 ELSE h.rsi >= 55) THEN 0 ELSE Blocked

SwingMtf(h, d) ==
    IF ~EmasAligned(h, d) THEN Blocked
    ELSE IF h.adx = None \/ h.adx \in 1800..7000 THEN 0 ELSE -500

(***************************************************************************)
(* oi_filter.py.  The scanner passes no funding rates.                     *)
(***************************************************************************)
Moves(change) == IF change > 50 THEN "RISING" ELSE IF change < -50 THEN "FALLING" ELSE "FLAT"

OiSignal(price, oi) ==
    CASE Moves(price) = "RISING" /\ Moves(oi) = "FALLING" -> "SQUEEZE"
      [] Moves(price) = "FALLING" /\ Moves(oi) = "RISING" -> "DISTRIBUTION"
      [] Moves(price) = Moves(oi) /\ Moves(oi) # "FLAT" -> "MOMENTUM"
      [] OTHER -> "NEUTRAL"

OiAllowed(d, price, oi) ==
    OiSignal(price, oi) = (IF d = "LONG" THEN "SQUEEZE" ELSE "DISTRIBUTION") => AbsVal(oi) < 300

(***************************************************************************)
(* kill_zone.py: quality of the session, day 0 is Monday.                  *)
(***************************************************************************)
Weekend(day, hour) == day = 6 \/ (day = 5 /\ hour >= 22)
SessionQuality(day, hour) ==
    CASE Weekend(day, hour) -> 40
      [] hour < 4 -> 75 [] hour \in 4..6 -> 50 [] hour \in 7..8 -> 95 [] hour \in 9..11 -> 90
      [] hour \in 12..15 -> 100 [] hour \in 16..19 -> 90 [] OTHER -> 60
KillZoneAllowed(day, hour, minimum) == ~Weekend(day, hour) /\ SessionQuality(day, hour) >= minimum

Session(hour) == IF hour < 8 THEN "asia" ELSE IF hour < 16 THEN "europe" ELSE "us"

(***************************************************************************)
(* cross_asset.py: an altcoin does not go against a moving major.          *)
(***************************************************************************)
MacroTrend(change) ==
    IF change < -200 THEN "DUMPING" ELSE IF change < -50 THEN "BEARISH"
    ELSE IF change > 50 THEN "BULLISH" ELSE "NEUTRAL"

\* majors is the set of the changes of those majors that have candles.
CrossAssetAllowed(d, sym, majors) ==
    \/ sym \in {"BTCUSDT", "ETHUSDT"}
    \/ \A c \in majors : MacroTrend(c) \notin (IF d = "LONG" THEN {"DUMPING", "BEARISH"} ELSE {"BULLISH"})

(***************************************************************************)
(* spoof_detect.py: a side of the book, quantities from the best price on; *)
(* without a book both sides are empty.                                    *)
(***************************************************************************)
Total(qtys) == FoldSeq(LAMBDA q, sum : q + sum, 0, qtys)
Suspicious(side) ==
    LET top == Total(SubSeq(side, 1, 3))
        rest == SubSeq(side, 4, Len(side))
    IN  IF Len(side) < 3
        THEN Len(side) = 2 /\ \E i \in 1..2 : side[i] * 2 > 5 * Total(side)
        ELSE \/ rest # <<>> /\ Total(rest) > 0 /\ top * Len(rest) > 5 * Total(rest)
             \/ Total(side) > 0 /\ top * 100 > 70 * Total(side)

SpoofAllowed(d, book) == ~Suspicious(IF d = "LONG" THEN book.asks ELSE book.bids)

(***************************************************************************)
(* volume_divergence.py: last volumes against their average of the primary *)
(* and the next higher timeframe, None without enough candles.             *)
(***************************************************************************)
SpikeLimit(regime) ==
    CASE regime = "VOLATILE" -> 300 [] regime \in Trending -> 250 [] regime = "RANGING" -> 200 [] OTHER -> 150
DeclineLimit(regime) ==
    CASE regime = "VOLATILE" -> 50 [] regime \in Trending -> 65 [] regime = "RANGING" -> 70 [] OTHER -> 80
VolumesAgree(tf, primary, higher, regime) ==
    \/ tf = "4h" \/ primary = None \/ higher = None
    \/ primary <= SpikeLimit(regime) \/ higher >= DeclineLimit(regime)

(***************************************************************************)
(* vwap.py.  A band is <<vwap, standard deviation>>, or <<>>.              *)
(***************************************************************************)
VwapAllowed(d, price, band) ==
    \/ band = <<>>
    \/ IF d = "LONG" THEN price < band[1] + 3 * band[2] ELSE price > band[1] - 3 * band[2]

(***************************************************************************)
(* cluster_suppression.py: recent is the window of <<symbol, direction>>   *)
(* records.                                                                *)
(***************************************************************************)
ClusterLimit == 5
ClusterAllowed(d, recent) ==
    LET symbols == Cardinality({recent[i].sym : i \in DOMAIN recent})
        same == Cardinality({i \in DOMAIN recent : recent[i].dir = d})
    IN  /\ symbols * 2 <= ClusterLimit * 3
        /\ symbols > ClusterLimit => same * 100 < 80 * Len(recent)
=============================================================================
