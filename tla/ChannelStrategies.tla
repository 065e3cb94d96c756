------------------------- MODULE ChannelStrategies -------------------------
(***************************************************************************)
(* What makes a channel propose a signal: evaluate() of the seven channels *)
(* and the shared filters.                                                 *)
(*                                                                         *)
(* A record x holds what the scan found for a symbol: x.t maps the         *)
(* timeframes with enough candles to their indicators, x.z is what the     *)
(* detector found, x.spread is in thousandths of a percent, x.volume and   *)
(* the tick volumes x.buys and x.sells are in thousands of dollars.        *)
(* Indicators are those of SignalQuality, and of each timeframe the        *)
(* extremes of the last candles and the volume of the last one against     *)
(* their average.  An indicator that is missing is None.                   *)
(*                                                                         *)
(* The detector runs again for every channel and its dictionary has        *)
(* neither the pair's profile nor the regime context, so a channel works   *)
(* with the defaults: tier MIDCAP and the 50th percentile of the ATR.      *)
(* What a channel writes to confidence, setup class and quality tier is    *)
(* overwritten by the scanner and left out.                                *)
(***************************************************************************)
EXTENDS MarketGates

(***************************************************************************)
(* filters.py.                                                             *)
(***************************************************************************)
RsiOk(rsi, d, high, low) == rsi = None \/ (IF d = "LONG" THEN rsi < high ELSE rsi > low)
RsiRegimeOk(rsi, d, regime) ==
    IF regime \in {"RANGING", "QUIET"} THEN RsiOk(rsi, d, 70, 30) ELSE RsiOk(rsi, d, 80, 20)

\* Without a setup class; no channel passes one.
AdxMin(regime) ==
    CASE regime \in Trending -> 2000 [] regime = "RANGING" -> 1500
      [] regime = "VOLATILE" -> 1800 [] OTHER -> 1200
AdxIn(adx, low, high) == adx # None /\ adx \in low..high

SpreadOk(spread, regime) ==
    spread * 100 <= 20 * (CASE regime = "VOLATILE" -> 150 [] regime = "QUIET" -> 70
                            [] regime \in Trending -> 120 [] OTHER -> 100)

\* The fast average clears the slow one by a buffer that grows with the ATR.
EmaClears(t, d, regime) ==
    LET byRegime == CASE regime \in Trending -> 80 [] regime = "VOLATILE" -> 150 [] OTHER -> 100
        buffer == Larger(20, (AtrPercent(t) * byRegime) \div 200)
    IN  \/ regime \in {"RANGING", "QUIET"}
        \/ /\ t.ema9 # None /\ t.ema21 # None
           /\ Toward(0, d, t.ema9 - t.ema21) * 10 >= (t.close * buffer) \div 1000

\* The histogram moves with the trade or lies on its side.
MacdConfirms(t, d) ==
    t.hist = <<>> \/ Beyond(t.hist[2], t.hist[1], d) \/ Beyond(t.hist[2], 0, d)

VolumeExpands(t, multiple) == t.ratio # None /\ t.ratio >= multiple

\* _pass_basic_filters of the channels without one of their own.
BasicFilters(x, minimum) == x.spread <= 20 /\ x.volume >= minimum

(***************************************************************************)
(* A proposal.  base is the distance of the stop before the adaptation.    *)
(***************************************************************************)
DefaultSetup == ""
StopDistance(chan, close, byAtr) == Larger((close * ChannelStop[chan]) \div 100000, byAtr)
Proposal(chan, d, t, base, setup, regime, vwap) ==
    BuildSignal(chan, d, t.close, base, setup, regime, t.atr, vwap, 50, "MIDCAP")

(***************************************************************************)
(* ScalpChannel: three strategies, of which the one with the best weighted *)
(* reward for its risk is proposed.                                        *)
(***************************************************************************)
ScalpFilters(x) == SpreadOk(x.spread, x.regime) /\ x.volume >= 5000

ScalpStandard(x) ==
    IF "5m" \notin DOMAIN x.t \/ x.z.sweeps = <<>> \/ ~ScalpFilters(x) THEN Rejected
    ELSE LET t == x.t["5m"]
             d == x.z.sweeps[1].dir
             threshold == Larger(10, Smaller(30, AtrPercent(t) \div 2))
         IN  IF /\ AdxIn(t.adx, 1500, 10000)
                /\ t.ema9 # None /\ t.ema21 # None
                /\ AbsVal(t.mom) >= threshold /\ AbsVal(t.momPrev) >= threshold
                /\ ~Beyond(0, t.mom, d)
                /\ RsiRegimeOk(t.rsi, d, x.regime)
                /\ EmaClears(t, d, x.regime)
                /\ x.regime \in {"RANGING", "QUIET"} => MacdConfirms(t, d)
                /\ "1h" \in DOMAIN x.t => StandardMtf(x.t["1h"], d, x.regime) # Blocked
             THEN Proposal("SCALP", d, t, StopDistance("SCALP", t.close, t.atr \div 2),
                           "LIQUIDITY_SWEEP_REVERSAL", x.regime, 0)
             ELSE Rejected

RangeAdxCeiling(regime) ==
    CASE regime \in {"RANGING", "QUIET"} -> 2500 [] regime \in Trending -> 1800 [] OTHER -> 2200

ScalpRangeFade(x) ==
    IF "5m" \notin DOMAIN x.t \/ ~ScalpFilters(x) THEN Rejected
    ELSE LET t == x.t["5m"]
             low == t.close * 1000 <= t.bbLower * 1002
             high == t.close * 1000 >= t.bbUpper * 998
             d == IF low THEN "LONG" ELSE "SHORT"
             room == IF x.regime = "QUIET" THEN 60 ELSE 55
         IN  IF /\ t.adx <= RangeAdxCeiling(x.regime)
                /\ t.bbUpper # None /\ t.bbLower # None /\ (low \/ high)
                /\ t.bbWidthPrev = None \/ t.bbWidth * 10 <= t.bbWidthPrev * 11
                /\ t.rsi = None \/ (IF d = "LONG" THEN t.rsi <= room ELSE t.rsi >= 100 - room)
                /\ MacdConfirms(t, d)
                /\ "15m" \in DOMAIN x.t => RangeFadeMtf(x.t["15m"], d) # Blocked
             THEN Proposal("SCALP", d, t, StopDistance("SCALP", t.close, Pct(t.atr, 80)),
                           "RANGE_FADE", x.regime, 0)
             ELSE Rejected

\* Twice as much is bought as sold, or the other way round.
ScalpWhale(x) ==
    IF "1m" \notin DOMAIN x.t \/ ~ScalpFilters(x) THEN Rejected
    ELSE LET t == x.t["1m"]
             d == IF x.buys >= 2 * x.sells THEN "LONG" ELSE "SHORT"
         IN  IF /\ x.z.whale \/ x.z.spike
                /\ x.buys + x.sells >= 500
                /\ x.buys >= 2 * x.sells \/ x.sells >= 2 * x.buys
                /\ RsiRegimeOk(t.rsi, d, x.regime)
             THEN Proposal("SCALP", d, t, StopDistance("SCALP", t.close, t.atr),
                           "WHALE_MOMENTUM", x.regime, 0)
             ELSE Rejected

\* Weights of trend, mean reversion and order flow, in tenths.
StrategyWeights(regime) ==
    CASE regime = "VOLATILE" -> <<7, 5, 15>>
      [] regime \in {"QUIET", "RANGING"} -> <<5, 15, 7>>
      [] OTHER -> <<15, 3, 10>>

RewardForRisk(sig) ==
    IF sig.stop = sig.entry THEN 0 ELSE (Dist(sig.tp[1], sig.entry) * 100) \div Dist(sig.entry, sig.stop)

Best(found, weights) ==
    LET worth(i) == RewardForRisk(found[i]) * weights[i]
        some == {i \in 1..3 : ~found[i].rejected}
    IN  IF some = {} THEN Rejected
        ELSE found[CHOOSE i \in some : \A j \in some : worth(i) > worth(j) \/ (worth(i) = worth(j) /\ i <= j)]

ScalpSignal(x) ==
    Best(<<ScalpStandard(x), ScalpRangeFade(x), ScalpWhale(x)>>, StrategyWeights(x.regime))

(***************************************************************************)
(* The first of two timeframes that proposes something.                    *)
(***************************************************************************)
Either(first, second) == IF first.rejected THEN second ELSE first

(***************************************************************************)
(* ScalpFVGChannel: the price is back at the edge of a fresh gap.  An old  *)
(* gap gets a nearer stop.                                                 *)
(***************************************************************************)
Edge(zone) == IF zone.dir = "LONG" THEN zone.high ELSE zone.low
Retested(zone, close) ==
    /\ zone.high > zone.low /\ zone.age <= 80
    /\ Dist(close, Edge(zone)) * 100 <= 35 * (zone.high - zone.low)
Filled(zone, close) ==
    IF zone.dir = "LONG" THEN Larger(0, zone.high - close) ELSE Larger(0, close - zone.low)

\* The proposal for the retest of a zone on the timeframe of indicators t.
FvgRetest(x, t, zone) ==
    LET d == zone.dir
        far == IF d = "LONG" THEN zone.low ELSE zone.high
        stop == Farther(Toward(t.close, d, -((t.close * ChannelStop["FVG"]) \div 100000)),
                        Toward(far, d, -(t.atr \div 2)), IF d = "LONG" THEN "SHORT" ELSE "LONG")
    IN  IF /\ AdxIn(t.adx, 1500, 10000) /\ BasicFilters(x, 5000)
           /\ Filled(zone, t.close) * 10 <= 6 * (zone.high - zone.low)
           /\ RsiOk(t.rsi, d, 75, 25)
        THEN Proposal("FVG", d, t, Pct(Dist(t.close, stop), Larger(20, 100 - zone.age)),
                      "FVG_RETEST", x.regime, 0)
        ELSE Rejected

FvgTry(x, tf) ==
    IF tf \notin DOMAIN x.t THEN Rejected
    ELSE LET fresh == {i \in DOMAIN x.z.zones : Retested(x.z.zones[i], x.t[tf].close)}
         IN  IF fresh = {} THEN Rejected ELSE FvgRetest(x, x.t[tf], x.z.zones[Min(fresh)])

FvgSignal(x) == Either(FvgTry(x, "5m"), FvgTry(x, "15m"))

(***************************************************************************)
(* ScalpVWAPChannel: a volume spike outside the first band.                *)
(***************************************************************************)
VwapTry(x, tf) ==
    IF tf \notin DOMAIN x.t \/ ~BasicFilters(x, 5000) THEN Rejected
    ELSE IF x.t[tf].vwap = <<>> THEN Rejected
    ELSE LET t == x.t[tf]
             mean == t.vwap[1]
             sd == t.vwap[2]
             d == IF t.close <= mean - sd THEN "LONG" ELSE "SHORT"
             stop == Toward(mean, d, -Pct(sd, 210))
         IN  IF /\ t.adx <= 2500
                /\ t.ratio # None /\ t.ratio >= 150
                /\ Dist(t.close, mean) >= sd
                /\ RsiOk(t.rsi, d, 75, 25)
                /\ ~WrongSide(stop, t.close, d)
             THEN Proposal("VWAP", d, t, Dist(t.close, stop), "VWAP_BOUNCE", x.regime, mean)
             ELSE Rejected

VwapSignal(x) == Either(VwapTry(x, "5m"), VwapTry(x, "15m"))

(***************************************************************************)
(* ScalpCVDChannel and ScalpOBIChannel ask the detector's dictionary for   *)
(* the age and strength of a divergence and for an order book.  It has     *)
(* none of them (SMCResult.as_dict), and both insist.                      *)
(***************************************************************************)
DetectorKeys == {"sweeps", "mss", "fvg", "whale_alert", "volume_delta_spike", "recent_ticks",
                 "oi_invalidated", "cvd_divergence"}
CvdKeys == {"cvd_divergence", "cvd_divergence_age", "cvd_divergence_strength"}
ObiKeys == {"order_book"}
CanPropose(chan) ==
    CASE chan = "CVD" -> CvdKeys \subseteq DetectorKeys
      [] chan = "OBI" -> ObiKeys \subseteq DetectorKeys
      [] OTHER -> TRUE

(***************************************************************************)
(* SwingChannel: a swept level and a structure shift on the side of the    *)
(* long average, at the edge of the bands.                                 *)
(***************************************************************************)
\* Distance from the average below which the bias is ambiguous, in
\* hundredths of a percent.
SwingBuffer(t, regime) ==
    LET byRegime == CASE regime \in Trending -> 80 [] regime = "VOLATILE" -> 150 [] OTHER -> 120
    IN  Larger(50, (AtrPercent(t) * byRegime * 4) \div 1000)

AtBand(t, d) ==
    IF t.bbUpper # None /\ t.bbLower # None /\ t.bbUpper # t.bbLower
    THEN IF d = "LONG" THEN (t.close - t.bbLower) * 100 <= 15 * (t.bbUpper - t.bbLower)
                       ELSE (t.close - t.bbLower) * 100 >= 85 * (t.bbUpper - t.bbLower)
    ELSE IF d = "LONG" THEN t.bbLower = None \/ t.close * 100 <= t.bbLower * 102
                       ELSE t.bbUpper = None \/ t.close * 100 >= t.bbUpper * 98

SwingSignal(x) ==
    IF ~{"1h", "4h"} \subseteq DOMAIN x.t \/ x.z.sweeps = <<>> \/ x.z.mss = <<>> THEN Rejected
    ELSE LET t == x.t["1h"]
             d == x.z.mss[1].dir
         IN  IF /\ AdxIn(x.t["4h"].adx, AdxMin(x.regime), 4000)
                /\ SpreadOk(x.spread, x.regime) /\ x.volume >= 10000
                /\ x.z.sweeps[1].body >= 5
                /\ RsiRegimeOk(t.rsi, d, x.regime)
                /\ t.ema200 # None
                /\ Dist(t.close, t.ema200) * 100 >= (SwingBuffer(t, x.regime) * t.ema200) \div 100
                /\ Beyond(t.close, t.ema200, d)
                /\ AtBand(t, d)
                /\ SwingMtf(x.t["4h"], d) # Blocked
             THEN Proposal("SWING", d, t, StopDistance("SWING", t.close, t.atr), DefaultSetup, x.regime, 0)
             ELSE Rejected

(***************************************************************************)
(* SpotChannel: a breakout from a squeeze on the side of the averages.     *)
(***************************************************************************)
Expansion(regime) ==
    CASE regime \in {"QUIET", "RANGING"} -> 220 [] regime = "VOLATILE" -> 150 [] OTHER -> 180

\* h.high and h.low are the extremes of the nine candles before the last, h.c2
\* and h.c3 the two closes before it.
Breakout(h, d, x) ==
    LET level == IF d = "LONG" THEN h.high ELSE h.low
        retest == Beyond(level, h.c2, d)
                  /\ (IF d = "LONG" THEN h.c3 * 1000 >= level * 998 ELSE h.c3 * 1000 <= level * 1002)
    IN  IF /\ h.bbWidth = None \/ h.bbWidth <= Larger(200, Smaller(600, AtrPercent(h) * 3))
           /\ ~Beyond(Toward(level, d, h.atr \div 5), h.close, d)
           /\ VolumeExpands(h, Expansion(x.regime))
           /\ x.z.mss = <<>> \/ x.z.mss[1].dir = d
           /\ RsiRegimeOk(h.rsi, d, x.regime)
        THEN Proposal("SPOT", d, h, StopDistance("SPOT", h.close, (h.atr * 3) \div 2),
                      IF retest THEN "BREAKOUT_RETEST" ELSE "BREAKOUT_INITIAL", x.regime, 0)
        ELSE Rejected

SpotSignal(x) ==
    IF "4h" \notin DOMAIN x.t THEN Rejected
    ELSE LET h == x.t["4h"]
             below == x.ema50d # None /\ h.close < x.ema50d
         IN  IF \/ ~AdxIn(h.adx, AdxMin(x.regime), 10000)
                \/ ~SpreadOk(x.spread, x.regime) \/ x.volume < 1000 \/ h.ema200 = None
             THEN Rejected
             ELSE IF h.close >= h.ema200
             THEN IF below THEN Rejected ELSE Breakout(h, "LONG", x)
             ELSE IF below THEN Breakout(h, "SHORT", x) ELSE Rejected

(***************************************************************************)
(* evaluate() of the channel.                                              *)
(***************************************************************************)
Evaluate(chan, x) ==
    IF ~CanPropose(chan) THEN Rejected
    ELSE CASE chan = "SCALP" -> ScalpSignal(x)
           [] chan = "FVG" -> FvgSignal(x)
           [] chan = "VWAP" -> VwapSignal(x)
           [] chan = "SWING" -> SwingSignal(x)
           [] chan = "SPOT" -> SpotSignal(x)
           [] OTHER -> Rejected
=============================================================================
