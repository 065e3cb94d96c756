--------------------------- MODULE SignalQuality ---------------------------
(***************************************************************************)
(* What the scanner makes of a signal a channel proposes: the state of the *)
(* market, the quality of the pair, the setup class, the check of the      *)
(* entry, and the two scores, the component score and the composite score  *)
(* that later replaces it.                                                 *)
(*                                                                         *)
(* Scores are integers in hundredths of a point; adx and momentum, the     *)
(* ratio of wicks to bodies, the width of the bands and the extension are  *)
(* in hundredths, the spread in thousandths of a percent, volumes in       *)
(* thousands of dollars.  A record t holds the indicators of the primary   *)
(* timeframe, a record z what the detector of sweeps, structure shifts and *)
(* gaps found.                                                             *)
(***************************************************************************)
EXTENDS SignalLevels

Between(x, low, high) == Larger(low, Smaller(x, high))
AbsVal(x) == Dist(x, 0)

(***************************************************************************)
(* classify_market_state and assess_pair_quality_for_channel.              *)
(***************************************************************************)
Ranges == {"CLEAN_RANGE", "DIRTY_RANGE"}
MarketStates == Ranges \cup {"STRONG_TREND", "WEAK_TREND", "BREAKOUT_EXPANSION", "VOLATILE_UNSUITABLE"}

AtrPercent(t) == (t.atr * 10000) \div t.close

MarketState(regime, t, spread) ==
    LET explosive == t.adx >= 2400 /\ AbsVal(t.mom) >= 45
    IN  IF spread >= 30 \/ t.wick >= 300 \/ AtrPercent(t) >= 450 THEN "VOLATILE_UNSUITABLE"
        ELSE CASE regime = "VOLATILE" ->
                      IF explosive /\ t.wick <= 220 THEN "BREAKOUT_EXPANSION" ELSE "VOLATILE_UNSUITABLE"
               [] regime \in Trending ->
                      IF t.adx >= 3000 /\ AbsVal(t.mom) >= 15 THEN "STRONG_TREND" ELSE "WEAK_TREND"
               [] regime = "QUIET" -> IF t.wick <= 150 THEN "CLEAN_RANGE" ELSE "DIRTY_RANGE"
               [] OTHER -> IF t.adx <= 1800 /\ t.wick <= 310 /\ t.bbWidth <= 320
                           THEN "CLEAN_RANGE" ELSE "DIRTY_RANGE"

VolatilityScore(a) ==
    IF a < 15 THEN Larger(2000, (a * 10000) \div 15)
    ELSE IF a <= 350 THEN 10000 ELSE Larger(0, 10000 - ((a - 350) * 10000) \div 300)

PairScore(volume, spread, t) ==
    LET spreadScore == Between(10000 - spread * 500, 0, 10000)
        volumeScore == Between((volume * 10) \div 15, 0, 10000)
        noiseScore == Between(10000 - Larger(t.wick - 100, 0) * 35, 0, 10000)
    IN  (spreadScore * 3 + volumeScore * 3 + VolatilityScore(AtrPercent(t)) * 2 + noiseScore * 2) \div 10

SpreadLimit == [SCALP |-> 25, FVG |-> 30, CVD |-> 30, OBI |-> 30, VWAP |-> 30, SWING |-> 50, SPOT |-> 60]
MinComposite(chan) == CASE chan = "SWING" -> 5000 [] chan = "SPOT" -> 4500 [] OTHER -> 5800
MinVolume(chan) == CASE chan = "SWING" -> 500 [] chan = "SPOT" -> 250 [] OTHER -> 1000

PairPasses(chan, volume, spread, t, regime) ==
    LET limit == IF regime = "VOLATILE" THEN Pct(SpreadLimit[chan], 130) ELSE SpreadLimit[chan]
    IN  /\ PairScore(volume, spread, t) >= MinComposite(chan)
        /\ spread <= limit
        /\ volume >= MinVolume(chan)

(***************************************************************************)
(* classify_setup: the class of the setup, and the channels and market     *)
(* states it is compatible with.  A channel that is not in the table is    *)
(* compatible with no setup.                                               *)
(***************************************************************************)
Core == {"TREND_PULLBACK_CONTINUATION", "BREAKOUT_RETEST", "LIQUIDITY_SWEEP_REVERSAL"}
Setups == Core \cup {"RANGE_REJECTION", "MOMENTUM_EXPANSION", "EXHAUSTION_FADE", "RANGE_FADE", "WHALE_MOMENTUM"}

ChannelSetups(chan) ==
    CASE chan = "SCALP" -> Core \cup {"MOMENTUM_EXPANSION", "WHALE_MOMENTUM", "RANGE_FADE"}
      [] chan = "SWING" -> Core
      [] chan = "SPOT" -> Core \cup {"MOMENTUM_EXPANSION"}
      [] OTHER -> {}

StateSetups ==
    [STRONG_TREND |-> {"TREND_PULLBACK_CONTINUATION", "BREAKOUT_RETEST", "MOMENTUM_EXPANSION", "WHALE_MOMENTUM"},
     WEAK_TREND |-> Core \cup {"WHALE_MOMENTUM"},
     CLEAN_RANGE |-> {"RANGE_REJECTION", "LIQUIDITY_SWEEP_REVERSAL", "EXHAUSTION_FADE", "RANGE_FADE"},
     DIRTY_RANGE |-> {"LIQUIDITY_SWEEP_REVERSAL", "RANGE_FADE"},
     BREAKOUT_EXPANSION |-> Core \cup {"MOMENTUM_EXPANSION", "WHALE_MOMENTUM"},
     VOLATILE_UNSUITABLE |-> {}]

SetupClass(chan, d, mom, z, state) ==
    LET swept == z.sweeps # <<>> /\ z.sweeps[1].dir = d
        shifted == z.mss # <<>>
        whale == (z.whale \/ z.spike) /\ AbsVal(mom) >= 30
    IN  IF chan = "SCALP" /\ whale THEN "WHALE_MOMENTUM"
        ELSE IF chan = "SCALP" /\ state \in Ranges THEN "RANGE_FADE"
        ELSE IF swept /\ (shifted \/ AbsVal(mom) >= 20) THEN "LIQUIDITY_SWEEP_REVERSAL"
        ELSE IF shifted /\ z.mss[1].dir = d THEN "BREAKOUT_RETEST"
        ELSE IF z.zones # <<>> /\ state \notin Ranges \cup {"VOLATILE_UNSUITABLE"} THEN "TREND_PULLBACK_CONTINUATION"
        ELSE IF state \in Ranges THEN "RANGE_REJECTION"
        ELSE IF AbsVal(mom) >= 45 THEN "MOMENTUM_EXPANSION"
        ELSE "TREND_PULLBACK_CONTINUATION"

SetupAllowed(chan, setup, state) == setup \in ChannelSetups(chan) \cap StateSetups[state]

(***************************************************************************)
(* execution_quality_check: the trigger of the setup and how far the entry *)
(* has run from its anchor.  A missing indicator is None.                  *)
(***************************************************************************)
Or(level, default) == IF level = None THEN default ELSE level
Reached(entry, anchor, d) == ~Beyond(anchor, entry, d)

Anchor(setup, entry, d, t, z) ==
    LET ema == Or(t.ema21, entry)
        sweep == IF z.sweeps = <<>> THEN entry ELSE Or(z.sweeps[1].level, entry)
    IN  CASE setup \in {"RANGE_REJECTION", "RANGE_FADE"} ->
                 Or(IF d = "LONG" THEN t.bbLower ELSE t.bbUpper, entry)
          [] setup = "LIQUIDITY_SWEEP_REVERSAL" -> sweep
          [] setup = "BREAKOUT_RETEST" -> IF z.mss = <<>> THEN ema ELSE z.mss[1].mid
          [] setup \in {"MOMENTUM_EXPANSION", "WHALE_MOMENTUM"} -> Or(t.ema9, ema)
          [] setup = "EXHAUSTION_FADE" -> Or(t.bbMid, sweep)
          [] OTHER -> ema

Triggered(setup, entry, d, t, z, state) ==
    LET anchor == Anchor(setup, entry, d, t, z)
        near(m) == Dist(entry, anchor) * 100 <= RiskAtr(entry, t) * m
    IN  CASE setup = "RANGE_REJECTION" -> state = "CLEAN_RANGE" /\ near(70)
          [] setup = "LIQUIDITY_SWEEP_REVERSAL" -> z.sweeps # <<>> /\ Reached(entry, anchor, d)
          [] setup = "BREAKOUT_RETEST" -> z.mss # <<>> /\ Reached(entry, anchor, d)
          [] setup = "MOMENTUM_EXPANSION" -> AbsVal(t.mom) >= 45
          [] setup = "EXHAUSTION_FADE" -> state = "CLEAN_RANGE" /\ z.sweeps # <<>>
          [] setup = "RANGE_FADE" -> state \in Ranges /\ near(80)
          [] setup = "WHALE_MOMENTUM" -> AbsVal(t.mom) >= 30
          [] OTHER -> Reached(t.ema9, anchor, d)

Extension(setup, entry, d, t, z) ==
    LET atr == RiskAtr(entry, t)
    IN  (Dist(entry, Anchor(setup, entry, d, t, z)) * 100 + atr \div 2) \div atr

MaxExtension ==
    [TREND_PULLBACK_CONTINUATION |-> 150, BREAKOUT_RETEST |-> 130, LIQUIDITY_SWEEP_REVERSAL |-> 110,
     RANGE_REJECTION |-> 120, MOMENTUM_EXPANSION |-> 100, EXHAUSTION_FADE |-> 100,
     RANGE_FADE |-> 130, WHALE_MOMENTUM |-> 120]

ExecutionPasses(setup, entry, d, t, z, state) ==
    /\ Triggered(setup, entry, d, t, z, state)
    /\ Extension(setup, entry, d, t, z) <= MaxExtension[setup]

(***************************************************************************)
(* score_signal_components.  verified is "yes", "no" or "unknown".         *)
(***************************************************************************)
ContextScore(legacy, verified) ==
    LET context == Between(legacy, 0, 10000) \div 10
    IN  CASE verified = "yes" -> Smaller(1000, context + 100)
          [] verified = "no" -> Larger(0, context - 200)
          [] OTHER -> context

Components(pairScore, chan, setup, state, triggered, ext, r, legacy, verified) ==
    [market |-> Smaller(pairScore \div 4, 2500),
     setup |-> 1100 + (IF setup \in Core THEN 600 ELSE 0)
                    + (IF setup \in ChannelSetups(chan) THEN 400 ELSE 0)
                    + (IF setup \in StateSetups[state] THEN 400 ELSE 0),
     execution |-> 800 + (IF triggered THEN 600 ELSE 0) + Larger(0, 600 - Larger(ext - 40, 0) * 4),
     risk |-> Smaller(800 + (Smaller(r, 250) * 48) \div 10, 2000),
     context |-> Smaller(ContextScore(legacy, verified), 1000)]

TotalScore(c) == c.market + c.setup + c.execution + c.risk + c.context
QualityTier(total) ==
    IF total >= 9000 THEN "A+" ELSE IF total >= 8200 THEN "A" ELSE IF total >= 7400 THEN "B" ELSE "C"

(***************************************************************************)
(* SignalScoringEngine: the composite score.                               *)
(***************************************************************************)
SmcPoints(z) ==
    Smaller(2500, (IF z.sweeps = <<>> THEN 0 ELSE 1000 + IF z.sweeps[1].age <= 3 THEN 500 ELSE 0)
                  + (IF z.mss # <<>> THEN 800 ELSE 0) + (IF z.zones # <<>> THEN 200 ELSE 0))

Affinity(regime) ==
    CASE regime \in Trending -> {"LIQUIDITY_SWEEP_REVERSAL", "BREAKOUT_RETEST", "WHALE_MOMENTUM"}
      [] regime \in {"RANGING", "QUIET"} -> {"RANGE_FADE"}
      [] regime = "VOLATILE" -> {"WHALE_MOMENTUM", "LIQUIDITY_SWEEP_REVERSAL"}
      [] OTHER -> {}

RegimePoints(regime, setup, atrPct) ==
    (IF setup \in Affinity(regime) THEN 1800 ELSE IF Affinity(regime) = {} THEN 1000 ELSE 800)
    + (IF regime = "VOLATILE" /\ atrPct >= 75 THEN 200 ELSE 0)

\* ratio is the last volume against the average; None when either is missing.
VolumePoints(ratio) ==
    IF ratio = None THEN 750
    ELSE IF ratio >= 300 THEN 1500 ELSE IF ratio >= 200 THEN 1200
    ELSE IF ratio >= 150 THEN 900 ELSE IF ratio >= 100 THEN 600 ELSE 300

\* hist is the MACD histogram, <<previous, last>> or <<>>; a value that
\* neither rises nor falls counts as falling.
MacdPoints(d, hist) ==
    IF hist = <<>> THEN 0
    ELSE LET rising == hist[2] > hist[1]
             moves == IF d = "LONG" THEN rising ELSE ~rising
             sided == IF d = "LONG" THEN hist[2] > 0 ELSE hist[2] < 0
         IN  IF moves /\ sided THEN 700 ELSE IF moves \/ sided THEN 400 ELSE 0

RsiPoints(d, rsi) ==
    LET v == IF d = "LONG" THEN rsi ELSE 100 - rsi
    IN  IF rsi = None THEN 0
        ELSE IF v <= 45 THEN 700 ELSE IF v <= 60 THEN 400 ELSE 100

EmaPoints(d, fast, slow) ==
    IF fast = None \/ slow = None THEN 0 ELSE IF Beyond(fast, slow, d) THEN 600 ELSE 100

\* patterns is None, or the sum of the bonuses of the patterns in the
\* direction of the trade.
PatternPoints(patterns) == IF patterns = None THEN 500 ELSE Between(500 + patterns \div 2, 0, 1000)

CompositeScore(d, setup, regime, atrPct, ratio, t, z, patterns, mtf) ==
    Smaller(10000, SmcPoints(z) + RegimePoints(regime, setup, atrPct) + VolumePoints(ratio)
                   + Smaller(2000, MacdPoints(d, t.hist) + RsiPoints(d, t.rsi) + EmaPoints(d, t.ema9, t.ema21))
                   + PatternPoints(patterns) + mtf * 10)
=============================================================================
