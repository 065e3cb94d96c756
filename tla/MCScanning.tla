----------------------------- MODULE MCScanning -----------------------------
(***************************************************************************)
(* The scan on small instances: the loop and its jobs (Scanner), one job's *)
(* way through the channels (SignalPipeline) and the regime detector the   *)
(* jobs share.  A behaviour follows one of them, its focus, while the      *)
(* others rest in their initial states.                                    *)
(*                                                                         *)
(* The loop has two pairs, a scalp channel before a swing channel, and one *)
(* of the findings that meet each reason to skip.  The pipeline scans      *)
(* contexts built from one market that suits the scalp, swing and spot     *)
(* channels, upwards and downwards, at the price of an ordinary coin and   *)
(* of two micro-caps, and variants of it that meet the branches of the     *)
(* skips, gates and thresholds.                                            *)
(***************************************************************************)
EXTENDS Scanner, SignalPipeline, RegimeDetector

VARIABLE focus

vars == <<focus, scVars, plVars, rdVars>>

Init ==
    /\ focus \in {"loop", "scan", "regime"}
    /\ ScInit /\ PlInit /\ RdInit

Next ==
    /\ UNCHANGED focus
    /\ \/ focus = "loop" /\ ScNext /\ UNCHANGED <<plVars, rdVars>>
       \/ focus = "scan" /\ PlNext /\ UNCHANGED <<scVars, rdVars>>
       \/ focus = "regime" /\ RdNext /\ UNCHANGED <<scVars, plVars>>

Spec ==
    /\ Init /\ [][Next]_vars
    /\ WF_scVars(LoopStep)
    /\ \A s \in Symbols : WF_scVars(JobStep(s))

\* The scan and the detector alone, for what their documentation says.
Focused == Init /\ focus # "loop" /\ [][Next]_vars

-----------------------------------------------------------------------------
(* The loop                                                                *)

MCSymbols == {"X", "Y"}
MCRank == "X" :> 1 @@ "Y" :> 2
MCOrder == <<"scalp", "swing">>
MCScalp == {"scalp"}
Finding(q, r, ok) ==
    [quality |-> q, unsuitable |-> r = "unsuitable", paused |-> r = "paused",
     tripped |-> r = "tripped", weak_range |-> r = "weak range", compatible |-> ok]
MCFindings ==
    {Finding("passes", r, MCScalp \cup {"swing"}) : r \in {"fine", "unsuitable", "paused", "tripped"}}
    \cup {Finding("passes for channel", "weak range", {"scalp", "swing"}),
          Finding("fails", "fine", {"scalp", "swing"}), Finding("passes", "fine", {})}
MCCooldown == "scalp" :> 1 @@ "swing" :> 1

-----------------------------------------------------------------------------
(* The pipeline                                                            *)

At(p, s, permille) == p + s * ((p * permille) \div 1000)

\* Indicators of a timeframe at price p in a market that moves up (s = 1) or
\* down (s = -1) and is back at the band behind it.
Frame(p, s) ==
    [close |-> p, atr |-> p \div 100, ema9 |-> At(p, s, -2), ema21 |-> At(p, s, -8),
     ema200 |-> At(p, s, -20), rsi |-> 50, adx |-> 2600, mom |-> 50 * s, momPrev |-> 50 * s,
     hist |-> <<s, 2 * s>>, bbMid |-> At(p, s, 19),
     bbUpper |-> IF s = 1 THEN At(p, 1, 40) ELSE At(p, 1, 1),
     bbLower |-> IF s = 1 THEN At(p, 1, -1) ELSE At(p, 1, -40),
     bbWidth |-> 250, bbWidthPrev |-> 250, wick |-> 100,
     lowest |-> At(p, 1, -9), highest |-> At(p, 1, 9),
     high |-> At(p, s, -3), low |-> At(p, s, -3), c2 |-> At(p, s, -2), c3 |-> At(p, s, -4),
     ratio |-> 220, vwap |-> <<p, p \div 100>>]

Side(s) == IF s = 1 THEN "LONG" ELSE "SHORT"
Found(p, s) ==
    [sweeps |-> <<[dir |-> Side(s), level |-> At(p, s, -5), age |-> 2, body |-> 6]>>,
     mss |-> <<[dir |-> Side(s), mid |-> At(p, s, -3)]>>, zones |-> <<>>, whale |-> FALSE,
     spike |-> FALSE, depth |-> 50, gap |-> 0, invalid |-> FALSE]

Market(p, s) ==
    [t |-> [f \in {"5m", "15m", "1h", "4h"} |-> Frame(p, s)], z |-> Found(p, s),
     spread |-> 5, volume |-> 20000, buys |-> 300, sells |-> 100,
     regime |-> IF s = 1 THEN "TRENDING_UP" ELSE "TRENDING_DOWN", ema50d |-> At(p, s, -30),
     pair |-> "TIER1", tripped |-> FALSE, candles |-> 500, history |-> TRUE, onchain |-> 500,
     flow |-> [oi |-> "NEUTRAL", liquidated |-> 0, cvd |-> "NONE", funding |-> 0],
     percentile |-> 50, day |-> 1, hour |-> 13, majors |-> {0},
     book |-> [bids |-> <<5, 5, 5, 5, 5, 5>>, asks |-> <<5, 5, 5, 5, 5, 5>>], oi |-> <<>>,
     patterns |-> [LONG |-> 0, SHORT |-> 0]]

Up == Market(1000000, 1)
In5m(x, change) == [x EXCEPT !.t["5m"] = change @@ @]

\* A range whose lower edge the price has reached.
Ranging == In5m([Up EXCEPT !.regime = "RANGING", !.z.sweeps = <<>>, !.z.mss = <<>>],
              [adx |-> 1600, bbMid |-> 1020000, bbUpper |-> 1040000, bbLower |-> 999500, mom |-> 10, rsi |-> 45])
\* Heavy buying, seen on the shortest timeframe.
Whale == [Up EXCEPT !.regime = "VOLATILE", !.z.whale = TRUE, !.z.sweeps = <<>>,
                    !.t = "1m" :> Frame(1000000, 1) @@ @]
\* A fresh gap below, and a volume spike below the VWAP.
Gap == [Up EXCEPT !.z.zones = <<[dir |-> "LONG", high |-> 1001000, low |-> 991000, age |-> 5]>>]
Stretched == In5m(Up, [adx |-> 1700, vwap |-> <<1012000, 10000>>])
\* Signs that are weaker, until the score of a watchlist or filtered signal.
Weak == In5m([Up EXCEPT !.z.sweeps[1].age = 9, !.z.mss = <<>>], [ratio |-> 60, rsi |-> 70, hist |-> <<1, 1>>])
Poor == [Weak EXCEPT !.patterns["LONG"] = -1000]
\* Every soft gate objects.
Contested ==
    In5m([Up EXCEPT !.day = 6, !.oi = <<100, -400>>, !.book.asks = <<90, 90, 90, 1, 1, 1>>,
                    !.t["15m"].ratio = 30],
         [ratio |-> 300, vwap |-> <<960000, 10000>>])

MCContexts ==
    "up" :> Up @@ "down" :> Market(1000000, -1)
    @@ "micro up" :> Market(20000, 1) @@ "micro down" :> Market(10000, -1)
    @@ "range" :> Ranging @@ "quiet" :> [Ranging EXCEPT !.regime = "QUIET"] @@ "whale" :> Whale
    @@ "gap" :> Gap @@ "stretched" :> Stretched @@ "weak" :> Weak @@ "poor" :> Poor
    @@ "contested" :> Contested
    @@ "second tier" :> [Up EXCEPT !.pair = "TIER2"]
    @@ "wide" :> [Up EXCEPT !.spread = 35, !.pair = "gone"]
    @@ "thin" :> [Up EXCEPT !.volume = 300]
    @@ "majors fall" :> [Up EXCEPT !.majors = {-100}]
    @@ "new pair" :> [Up EXCEPT !.history = FALSE, !.flow.oi = "FALLING", !.flow.cvd = "BEARISH"]
    @@ "invalid" :> [Up EXCEPT !.z.invalid = TRUE]

Open(sym, chan, dir) == [sym |-> sym, chan |-> chan, dir |-> dir]
MCPositions ==
    {Open("S", "SWING", "LONG"), Open("S", "SPOT", "SHORT"), Open("T", "FVG", "LONG")}
MCMinConfidence == [c \in Channels |-> CASE c = "SWING" -> 7200 [] c = "SPOT" -> 6500 [] OTHER -> 6800]
MCCrowd == [i \in 1..6 |-> [sym |-> <<"A", "B", "C", "D", "E", "F">>[i], dir |-> "LONG"]]

-----------------------------------------------------------------------------
(* The detector: a reading of each regime, and one without the bands.      *)

Reading(adx, slope, width) == [adx |-> adx, slope |-> slope, width |-> width]
MCReadings ==
    {Reading(<<3000>>, <<-10>>, <<300>>), Reading(<<1000>>, <<0>>, <<>>), Reading(<<>>, <<>>, <<100>>)}
=============================================================================
