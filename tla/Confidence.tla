----------------------------- MODULE Confidence -----------------------------
(***************************************************************************)
(* The first confidence of a signal (the sub-scores and compute_confidence)*)
(* what the prediction does to it, and how it decays with the age of the   *)
(* signal.  Scores are integers in hundredths of a point, the features and *)
(* the score of the prediction in thousandths.                             *)
(***************************************************************************)
EXTENDS SignalQuality

(***************************************************************************)
(* The sub-scores.                                                         *)
(***************************************************************************)
\* depth of the sweep and size of the gap in hundredths (% and ATR).
ScoreSmc(z) ==
    Smaller(3000, (IF z.sweeps = <<>> THEN 0 ELSE 1000 + Smaller(z.depth * 10, 500))
                  + (IF z.mss = <<>> THEN 0 ELSE 1100)
                  + (IF z.zones # <<>> THEN 200 + Smaller((z.gap * 4) \div 3, 200) ELSE 0))

MacdBonus(d, hist) ==
    IF hist = <<>> THEN 0
    ELSE LET aligned == IF d = "LONG" THEN hist[2] > 0 ELSE hist[2] < 0
         IN  IF ~aligned THEN -200 ELSE IF Beyond(hist[2], hist[1], d) THEN 300 ELSE 200

ScoreTrend(d, t) ==
    LET emaAligned == Beyond(t.ema9, t.ema21, d)
        rises == IF d = "LONG" THEN t.mom > 0 ELSE t.mom < 0
    IN  Between((IF emaAligned THEN 1000 ELSE 0)
                + (IF t.adx >= 2000 THEN 400 + Smaller((t.adx - 2000) \div 4, 500) ELSE 0)
                + (IF rises THEN 200 + Smaller(AbsVal(t.mom) * 4, 400) ELSE 0)
                + MacdBonus(d, t.hist), 0, 2500)

LiquidityThreshold(chan) == CASE chan = "SWING" -> 10000 [] chan = "SPOT" -> 1000 [] OTHER -> 5000
ScoreLiquidity(chan, volume) == Smaller((volume * 2000) \div LiquidityThreshold(chan), 2000)
ScoreSpread(spread) == Between(1000 - spread * 50, 0, 1000)
ScoreDataSufficiency(candles) == Smaller(candles * 2, 1000)
ScoreMultiExchange(verified) == CASE verified = "yes" -> 500 [] verified = "no" -> 0 [] OTHER -> 250
\* sentiment is a percentage of its range -1..1.
ScoreSentiment(chan, sentiment) ==
    IF chan = "SPOT" THEN (Between(sentiment, -100, 100) + 100) * 5 ELSE 500

\* Falling open interest with liquidations, a divergence of the volume delta
\* and extreme funding; o.funding in hundredths of a percent.
ScoreOrderFlow(d, o) ==
    LET squeeze == IF o.oi = "FALLING" THEN 500 + Smaller(o.liquidated, 500) ELSE 0
        divergence == CASE o.cvd = "NONE" -> 0
                        [] (o.cvd = "BULLISH") = (d = "LONG") -> 500
                        [] OTHER -> -300
        crowded == (o.funding > 0) = (d = "LONG")
        funding == IF AbsVal(o.funding) < 100 THEN 0
                   ELSE IF crowded THEN -300 ELSE Smaller((AbsVal(o.funding) * 5) \div 3, 500)
    IN  Between(squeeze + divergence + funding, 0, 2000)

(***************************************************************************)
(* compute_confidence: weights of the channel, trading session, cap for a  *)
(* pair without history.                                                   *)
(***************************************************************************)
Scores == {"smc", "trend", "liquidity", "spread", "data", "exchanges", "onchain", "flow", "sentiment"}
Weights(chan) ==
    CASE chan = "SWING" -> [smc |-> 70, trend |-> 140, liquidity |-> 100, spread |-> 80, data |-> 100,
                            exchanges |-> 100, onchain |-> 120, flow |-> 90, sentiment |-> 0]
      [] chan = "SPOT" -> [smc |-> 50, trend |-> 140, liquidity |-> 75, spread |-> 80, data |-> 100,
                           exchanges |-> 100, onchain |-> 150, flow |-> 80, sentiment |-> 100]
      [] OTHER -> [s \in Scores |-> IF s = "sentiment" THEN 0 ELSE 100]

Sessions == {"asia", "europe", "us"}
SessionMultiplier(chan, session) ==
    CASE chan = "SPOT" \/ session = "europe" -> 100
      [] session = "asia" -> IF chan = "SWING" THEN 95 ELSE 90
      [] OTHER -> IF chan = "SWING" THEN 102 ELSE 105

NewPairCap == 5000

\* in gives each sub-score; "sentiment" already scored.
ComputeConfidence(chan, in, session, history) ==
    LET w == Weights(chan)
        part(s) == Pct(in[s], w[s])
        sum == part("smc") + part("trend") + part("liquidity") + part("spread") + part("data")
               + part("exchanges") + part("onchain") + part("flow") + part("sentiment")
        total == Between(Pct(sum, SessionMultiplier(chan, session)), 0, 10000)
    IN  IF history THEN total ELSE Smaller(total, NewPairCap)

(***************************************************************************)
(* _multi_factor_predict and update_confidence.                            *)
(***************************************************************************)
Clip(x) == Between(x, -1000, 1000)
Features(t) ==
    [ema |-> IF t.ema9 > 0 /\ t.ema21 > 0 THEN Clip(((t.ema9 - t.ema21) * 50000) \div t.ema21) ELSE 0,
     rsi |-> Clip((Or(t.rsi, 50) - 50) * 20),
     bb |-> IF t.bbUpper # None /\ t.bbLower # None /\ t.bbUpper > t.bbLower
            THEN Clip(((t.close - t.bbLower) * 2000) \div (t.bbUpper - t.bbLower) - 1000) ELSE 0,
     mom |-> Clip(t.mom * 2)]

PredictionScore(t) ==
    LET f == Features(t)
        raw == (45 * f.ema + 15 * f.rsi + 15 * f.bb + 25 * f.mom) \div 100
        conviction == 500 + Smaller(Or(t.adx, 2000) \div 10, 500)
    IN  Clip((raw * conviction) \div 1000)

\* direction, adjustment of the confidence, and the multipliers (hundredths)
\* for the distances of the targets and of the stop.
Predict(t) ==
    LET s == PredictionScore(t)
        a == AbsVal(s)
        atr == (t.atr * 10000) \div t.close
    IN  [dir |-> IF s > 100 THEN "UP" ELSE IF s < -100 THEN "DOWN" ELSE "NEUTRAL",
         adj |-> IF a > 100 THEN a ELSE 0,
         tpBy |-> IF atr > 0 THEN Smaller(115, 100 + (atr * 3) \div 10) ELSE 100 + a \div 100,
         slBy |-> IF atr > 0 THEN Larger(85, 100 - a \div 100) ELSE Larger(85, 100 - a \div 200)]

UpdatedConfidence(conf, d, p) ==
    LET aligned == p.dir = "NEUTRAL" \/ (p.dir = "UP") = (d = "LONG")
    IN  Between(IF aligned THEN conf + p.adj ELSE conf - p.adj, 0, 10000)

(***************************************************************************)
(* apply_confidence_decay: linear within twice the freshness window of the *)
(* channel, then a fixed penalty.                                          *)
(***************************************************************************)
MaxFreshness(chan) == CASE chan = "SCALP" -> 60 [] chan = "SWING" -> 600 [] chan = "SPOT" -> 3600 [] OTHER -> 120
Decayed(conf, chan, age) ==
    IF age > 2 * MaxFreshness(chan) THEN Pct(conf, 70)
    ELSE conf - (conf * age * 15) \div (100 * MaxFreshness(chan))
=============================================================================
