---------------------------- MODULE SignalLevels ----------------------------
(***************************************************************************)
(* The price levels of a signal: how a channel builds them                 *)
(* (build_channel_signal), how the scanner replaces them by a risk plan    *)
(* (build_risk_plan) and how the prediction stretches them (adjust_tp_sl). *)
(*                                                                         *)
(* A price is an integer in hundredths of 1e-8, the unit round(x, 8)       *)
(* leaves; ratios and multipliers are integers in hundredths.  What floats *)
(* lose in the last digits is not modelled, what rounding to 8 decimals    *)
(* does to the price of a micro-cap token is.                              *)
(***************************************************************************)
EXTENDS Integers, Sequences, FiniteSetsExt

Scalps == {"SCALP", "FVG", "CVD", "VWAP", "OBI"}
Channels == Scalps \cup {"SWING", "SPOT"}
Regimes == {"TRENDING_UP", "TRENDING_DOWN", "RANGING", "VOLATILE", "QUIET"}
Trending == {"TRENDING_UP", "TRENDING_DOWN"}
Directions == {"LONG", "SHORT"}

None == 0        \* an indicator or level that is missing
Rejected == [rejected |-> TRUE]

Larger(x, y) == IF x >= y THEN x ELSE y
Smaller(x, y) == IF x <= y THEN x ELSE y
Dist(x, y) == IF x >= y THEN x - y ELSE y - x
Pct(x, m) == (x * m) \div 100
Round8(p) == ((p + 50) \div 100) * 100

\* The price dist away from p in the direction of the trade; against it with
\* a negative distance.
Toward(p, d, dist) == IF d = "LONG" THEN p + dist ELSE p - dist
Beyond(p, q, d) == IF d = "LONG" THEN p > q ELSE p < q
Farther(p, q, d) == IF Beyond(p, q, d) THEN p ELSE q
WrongSide(stop, entry, d) == ~Beyond(entry, stop, d)

(***************************************************************************)
(* The parameters of a channel and of a setup in a regime.                 *)
(***************************************************************************)
\* Smallest stop in thousandths of a percent and target ratios of a channel.
ChannelStop == [SCALP |-> 200, FVG |-> 50, CVD |-> 150, VWAP |-> 100, OBI |-> 100,
                SWING |-> 200, SPOT |-> 5]
ChannelRatios ==
    [SCALP |-> <<150, 250, 400>>, FVG |-> <<150, 250, 300>>, CVD |-> <<150, 250, 350>>,
     VWAP |-> <<150, 250, 350>>, OBI |-> <<150, 250, 300>>, SWING |-> <<150, 300, 500>>,
     SPOT |-> <<200, 500, 1000>>]

Row(p, s, r, ratios, sl, bias, dca, valid) ==
    [prefix |-> p, setup |-> s, regime |-> r, ratios |-> ratios, sl |-> sl, bias |-> bias,
     dca |-> dca, valid |-> valid]

ParamTable == <<
    Row("SCALP", "LIQUIDITY_SWEEP_REVERSAL", "TRENDING_UP", <<100, 180, 250>>, 120, 70, TRUE, 8),
    Row("SCALP", "LIQUIDITY_SWEEP_REVERSAL", "TRENDING_DOWN", <<100, 180, 250>>, 120, 70, TRUE, 8),
    Row("SCALP", "LIQUIDITY_SWEEP_REVERSAL", "RANGING", <<70, 120, 180>>, 90, 60, TRUE, 10),
    Row("SCALP", "RANGE_FADE", "RANGING", <<50, 80, 120>>, 80, 50, TRUE, 12),
    Row("SCALP", "RANGE_FADE", "QUIET", <<40, 70, 100>>, 70, 50, TRUE, 15),
    Row("SCALP", "WHALE_MOMENTUM", "VOLATILE", <<30, 70, 100>>, 150, 80, FALSE, 3),
    Row("SCALP", "WHALE_MOMENTUM", "TRENDING_UP", <<50, 100, 150>>, 130, 80, FALSE, 5),
    Row("SCALP", "WHALE_MOMENTUM", "TRENDING_DOWN", <<50, 100, 150>>, 130, 80, FALSE, 5),
    Row("SCALP", "BREAKOUT_RETEST", "TRENDING_UP", <<80, 150, 220>>, 110, 70, TRUE, 8),
    Row("SCALP", "BREAKOUT_RETEST", "TRENDING_DOWN", <<80, 150, 220>>, 110, 70, TRUE, 8),
    Row("SCALP", "MOMENTUM_EXPANSION", "TRENDING_UP", <<100, 200, 300>>, 130, 75, FALSE, 5),
    Row("SCALP", "MOMENTUM_EXPANSION", "VOLATILE", <<50, 100, 150>>, 150, 80, FALSE, 3),
    Row("SCALP", "TREND_PULLBACK_CONTINUATION", "TRENDING_UP", <<80, 150, 230>>, 100, 70, TRUE, 10),
    Row("SCALP", "TREND_PULLBACK_CONTINUATION", "WEAK_TREND", <<60, 100, 150>>, 90, 60, TRUE, 12),
    Row("SWING", "BREAKOUT_RETEST", "TRENDING_UP", <<120, 200, 300>>, 120, 70, TRUE, 30),
    Row("SWING", "LIQUIDITY_SWEEP_REVERSAL", "TRENDING_UP", <<100, 180, 280>>, 110, 65, TRUE, 30),
    Row("SPOT", "BREAKOUT_RETEST", "TRENDING_UP", <<150, 250, 400>>, 100, 65, TRUE, 60),
    Row("SPOT", "BREAKOUT_INITIAL", "TRENDING_UP", <<150, 250, 400>>, 100, 65, TRUE, 60),
    Row("SPOT", "BREAKOUT_RETEST", "TRENDING_DOWN", <<200, 500, 1000>>, 100, 65, FALSE, 60),
    Row("SPOT", "BREAKOUT_INITIAL", "TRENDING_DOWN", <<200, 500, 1000>>, 100, 65, FALSE, 60)>>

\* The exact row, the first row of the setup in any regime, or the defaults.
SignalParams(chan, setup, regime) ==
    LET prefix == IF chan \in Scalps THEN "SCALP" ELSE chan
        rows == {i \in DOMAIN ParamTable : ParamTable[i].prefix = prefix /\ ParamTable[i].setup = setup}
        exact == {i \in rows : ParamTable[i].regime = regime}
    IN  IF rows = {} THEN Row(prefix, setup, regime, ChannelRatios[chan], 100, 70, TRUE, 15)
        ELSE ParamTable[Min(IF exact = {} THEN rows ELSE exact)]

\* compute_dynamic_sl_tp_ratios: volatility, regime and tier of the pair.
DynamicStop(sl, atrPct, regime, tier) ==
    LET volatility == IF atrPct >= 80 THEN 130 ELSE IF atrPct <= 20 THEN 80 ELSE 100
        byRegime == CASE regime = "RANGING" -> 90 [] regime = "QUIET" -> 85
                      [] regime = "VOLATILE" -> 140 [] OTHER -> 100
        byTier == [MAJOR |-> 95, MIDCAP |-> 100, ALTCOIN |-> 120][tier]
    IN  Pct(Pct(Pct(sl, volatility), byRegime), byTier)

DynamicRatios(ratios, atrPct, regime) ==
    LET volatility == IF atrPct >= 80 THEN 125 ELSE IF atrPct <= 20 THEN 75 ELSE 100
        byRegime(i) == CASE regime \in Trending -> IF i = 3 THEN 120 ELSE 100
                         [] regime \in {"RANGING", "QUIET"} -> 90
                         [] regime = "VOLATILE" -> 110 [] OTHER -> 100
    IN  [i \in 1..3 |-> Pct(Pct(ratios[i], volatility), byRegime(i))]

(***************************************************************************)
(* build_channel_signal.  base is the channel's stop distance.  The fields *)
(* the scanner fills in later have the defaults of Signal.                 *)
(***************************************************************************)
DcaZone(entry, stop, d) ==
    {Toward(entry, d, -Pct(Dist(entry, stop), 30)), Toward(entry, d, -Pct(Dist(entry, stop), 70))}

\* The zone for limit orders, its far bound from the targets first.
EntryZone(close, d, dist, bias, atr, vwap) ==
    LET width == IF atr > 0 THEN Pct(atr, 40) ELSE Pct(dist, 60)
        centre == IF vwap > 0 /\ Dist(vwap, close) < width
                  THEN Pct(close, 60) + Pct(vwap, 40) ELSE close
    IN  <<Round8(Toward(centre, d, -Pct(width, bias))),
          Round8(Toward(centre, d, Pct(width, 100 - bias)))>>

Built(chan, d, close, setup, dist, ratios, stop, par, atr, vwap) ==
    IF WrongSide(Toward(close, d, -dist), close, d) THEN Rejected
    ELSE [rejected |-> FALSE, chan |-> chan, dir |-> d, setup |-> setup, entry |-> close,
          stop |-> stop,
          tp |-> [i \in 1..3 |-> Round8(Toward(close, d, Pct(dist, ratios[i])))],
          dca |-> IF par.dca THEN DcaZone(close, stop, d) ELSE {},
          zone |-> EntryZone(close, d, dist, par.bias, atr, vwap),
          class |-> "UNCLASSIFIED", r |-> 0, penalty |-> 0, conf |-> 0, tier |-> "B"]

\* With a positive distance the channel's own stop is on the right side too.
BuildSignal(chan, d, close, base, setup, regime, atr, vwap, atrPct, tier) ==
    LET From(par, dist) == Built(chan, d, close, setup, dist, DynamicRatios(par.ratios, atrPct, regime),
                                 Round8(Toward(close, d, -dist)), par, atr, vwap)
        With(par) == From(par, Pct(base, DynamicStop(par.sl, atrPct, regime, tier)))
    IN  With(SignalParams(chan, setup, regime))

(***************************************************************************)
(* build_risk_plan: a structural stop with a volatility buffer, capped per *)
(* channel, and targets by setup.  m holds what the scan context says of   *)
(* the market: atr, the recent low or high, the level of the last sweep,   *)
(* the Bollinger bands, and the spread in thousandths of a percent.        *)
(***************************************************************************)
MaxStop == [SCALP |-> 150, FVG |-> 100, CVD |-> 100, VWAP |-> 100, OBI |-> 100,
            SWING |-> 300, SPOT |-> 200]

RiskAtr(entry, m) == Larger(m.atr, entry \div 100)
RiskBuffer(entry, m) == Larger(Pct(RiskAtr(entry, m), 35), (entry * m.spread) \div 66667)

\* The recent extreme, or the swept level when it is nearer to the entry.
Structure(entry, d, m) ==
    LET swept == m.sweep # None /\ Beyond(entry, m.sweep, d)
        level == IF ~swept THEN m.extreme
                 ELSE IF m.extreme = None THEN m.sweep ELSE Farther(m.extreme, m.sweep, d)
    IN  IF level > 0 /\ Beyond(entry, level, d) THEN level
        ELSE Toward(entry, d, -RiskAtr(entry, m))

PlannedStop(chan, entry, d, m) ==
    LET stop == Round8(Toward(Structure(entry, d, m), d, -RiskBuffer(entry, m)))
        cap == (entry * MaxStop[chan]) \div 10000
    IN  IF Dist(entry, stop) > cap THEN Round8(Toward(entry, d, -cap)) ELSE stop

\* RANGE_REJECTION aims at the bands and has no third target.
PlannedTargets(entry, d, risk, setup, m) ==
    LET far(r) == Toward(entry, d, Pct(risk, r))
        bb(level, default) == IF level = None THEN default ELSE level
        mid == Farther(far(90), bb(m.bbMid, entry), d)
        edge == bb(IF d = "LONG" THEN m.bbUpper ELSE m.bbLower, far(100))
    IN  CASE setup = "RANGE_REJECTION" ->
                 <<mid, Farther(Toward(mid, d, Pct(risk, 40)), edge, d)>>
          [] setup \in {"LIQUIDITY_SWEEP_REVERSAL", "EXHAUSTION_FADE"} -> <<far(120), far(210), far(300)>>
          [] setup = "MOMENTUM_EXPANSION" -> <<far(140), far(220), far(320)>>
          [] OTHER -> <<far(130), far(230), far(340)>>

RiskMultiple(entry, risk, tp1) == (Dist(entry, tp1) * 100 + risk \div 2) \div risk

\* The plan, or Rejected: the stop on the wrong side, a risk too tight or too
\* large, a reward too small, or a level that is not a positive price.
RiskPlan(chan, entry, d, setup, m) ==
    LET stop == PlannedStop(chan, entry, d, m)
        risk == Dist(entry, stop)
        tight == Larger((entry * 3) \div 10000, RiskBuffer(entry, m) \div 2)
        tp == PlannedTargets(entry, d, risk, setup, m)
        minimum == IF setup = "RANGE_REJECTION" THEN 90 ELSE 120
    IN  IF WrongSide(stop, entry, d) \/ risk <= tight THEN Rejected
        ELSE IF \/ RiskMultiple(entry, risk, tp[1]) < minimum
                \/ stop <= 0 \/ \E i \in DOMAIN tp : tp[i] <= 0
                \/ risk * 20 > entry
        THEN Rejected
        ELSE [rejected |-> FALSE, stop |-> stop, tp |-> [i \in DOMAIN tp |-> Round8(tp[i])],
              r |-> RiskMultiple(entry, risk, tp[1])]

(***************************************************************************)
(* adjust_tp_sl: the prediction scales the distances from the entry, not   *)
(* the prices.                                                             *)
(***************************************************************************)
\* The bug the comment of adjust_tp_sl warns of: the price itself is scaled.
ScaledFaulty(entry, level, m) == Pct(level, m)
Scaled(entry, level, m) == entry + Pct(level - entry, m)
AdjustTpSl(sig, tpBy, slBy) ==
    [sig EXCEPT !.tp = [i \in DOMAIN @ |-> Scaled(sig.entry, @[i], tpBy)],
                !.stop = Scaled(sig.entry, @, slBy)]
=============================================================================
