--------------------------- MODULE SignalPipeline ---------------------------
(***************************************************************************)
(* One scan of a symbol (_scan_symbol, _prepare_signal): the channels are  *)
(* tried in turn; what one proposes is judged, gets a risk plan, is        *)
(* verified, rated and handed to the queue.  Meanwhile, wherever the scan  *)
(* awaits something, positions are opened and closed, cooldowns end and    *)
(* channels are paused.                                                    *)
(*                                                                         *)
(* A context x is that of ChannelStrategies with what the scan gathers     *)
(* besides: x.pair (the tier in PairManager, or "gone"), x.tripped,        *)
(* x.candles and x.history, x.onchain (a score), x.flow (see               *)
(* ScoreOrderFlow), x.percentile of the ATR, x.day and x.hour, x.majors    *)
(* (changes of BTC and ETH), x.book, x.oi (<<>> or the changes of price    *)
(* and open interest), x.patterns (by direction, the bonuses of the chart  *)
(* patterns), and x.z.invalid, the detector's word on the open interest.   *)
(* Predicted levels follow the trained default model: the engine loads it  *)
(* before it scans.                                                        *)
(***************************************************************************)
EXTENDS ChannelStrategies

CONSTANTS
    Scanned,          \* the symbol
    ScanContexts,     \* names and contexts of what its scans may find
    Positions,        \* [sym, chan, dir] records of signals that may be open
    MinConfidence,    \* confidence_overrides and min_confidence, by channel
    MaxSameSide,      \* MAX_CORRELATED_SCALP_SIGNALS
    Crowd,            \* signals of other symbols within the cluster window
    Pausable          \* channels the operator may pause

\* The exchange's prices are positive and have at most 8 decimals, so that a
\* close is a multiple of 100; a missing indicator is None, a number too.
IsIndicators(t) ==
    /\ {t.close, t.atr, t.ema9, t.ema21, t.rsi, t.adx, t.mom, t.bbMid, t.bbUpper, t.bbLower,
        t.wick, t.lowest, t.highest} \subseteq Int
    /\ t.close >= 100 /\ t.close % 100 = 0

\* What the detector hands over.
IsDetection(z) ==
    /\ z.sweeps \in Seq([dir : Directions, level : Int, age : Int, body : Int])
    /\ z.mss \in Seq([dir : Directions, mid : Int])
    /\ {z.depth, z.gap} \subseteq Int

\* A scan has candles of one of the short timeframes.
IsContext(x) ==
    /\ \A f \in DOMAIN x.t : IsIndicators(x.t[f])
    /\ {"1m", "5m"} \cap DOMAIN x.t # {}
    /\ IsDetection(x.z)
    /\ {x.spread, x.volume, x.candles, x.onchain, x.flow.liquidated, x.flow.funding} \subseteq Int
    /\ x.patterns \in [Directions -> Int]

ASSUME ContextAssumption == \A name \in DOMAIN ScanContexts : IsContext(ScanContexts[name])

\* As configured, no channel trades what is rated for its watchlist.
ASSUME BarAssumption ==
    /\ MinConfidence \in [Channels -> Int]
    /\ \A c \in Channels : MinConfidence[c] >= 6500

VARIABLES
    scan,        \* the scan: stage, name of its context, channels left, signal
    open,        \* router.active_signals
    cooling,     \* channels of the symbol in their cooldown
    window,      \* ClusterSuppressor._recent
    paused       \* paused_channels

plVars == <<scan, open, cooling, window, paused>>

NoSignal == [chan |-> "none"]
ScanOrder == <<"SCALP", "SWING", "SPOT", "FVG", "CVD", "VWAP", "OBI">>
Resting == [stage |-> "idle", x |-> "none", left |-> <<>>, sig |-> NoSignal]
Context == ScanContexts[scan.x]

PlInit == scan = Resting /\ open = {} /\ cooling = {} /\ window = <<>> /\ paused = {}

-----------------------------------------------------------------------------
(* _should_skip_channel                                                    *)

Fast(x) == IF "5m" \in DOMAIN x.t THEN x.t["5m"] ELSE x.t["1m"]
State(x) == MarketState(x.regime, Fast(x), x.spread)
Quality(x) == PairScore(x.volume, x.spread, Fast(x))

\* A pair that fails in general may still do for the channel; the regime is
\* not passed on.
GoodPair(c, x) ==
    \/ Quality(x) >= 5800 /\ x.spread <= 50 /\ x.volume >= 1000
    \/ x.pair # "gone" /\ x.volume > 0 /\ PairPasses(c, x.volume, x.spread, Fast(x), "RANGING")

Incompatible(c) == CASE c = "VWAP" -> {"QUIET"} [] c = "SWING" -> {"VOLATILE"} [] OTHER -> {}

SkipsChannel(c, x) ==
    \/ x.pair = "TIER2" /\ c = "SCALP"
    \/ ~GoodPair(c, x)
    \/ State(x) = "VOLATILE_UNSUITABLE" /\ c # "SPOT"
    \/ c \in paused
    \/ c \in cooling
    \/ x.tripped
    \/ \E p \in open : p.sym = Scanned /\ p.chan = c
    \/ c = "SCALP" /\ x.regime = "RANGING" /\ Fast(x).adx < 1500
    \/ x.regime \in Incompatible(c)

-----------------------------------------------------------------------------
(* The gates.  Some are hard; the others cost confidence.                  *)

PrimaryFrame(c) == CASE c = "SWING" -> "1h" [] c = "SPOT" -> "4h" [] OTHER -> "5m"
Primary(c, x) == IF PrimaryFrame(c) \in DOMAIN x.t THEN x.t[PrimaryFrame(c)] ELSE Fast(x)

Averages(x, frames) ==
    [f \in {g \in DOMAIN x.t \cap frames : x.t[g].ema9 # None /\ x.t[g].ema21 # None} |->
        [fast |-> x.t[f].ema9, slow |-> x.t[f].ema21, close |-> x.t[f].close]]

\* _CHANNEL_GATE_PROFILE.
SoftGates(c) ==
    CASE c = "SWING" -> {"vwap", "oi", "volume_div"}
      [] c = "SPOT" -> {}
      [] OTHER -> {"vwap", "kill_zone", "oi", "spoof", "volume_div", "cluster"}

\* _CHANNEL_PENALTY_WEIGHTS, in points.
GateWeight(c, gate) ==
    CASE gate = "vwap" -> (CASE c \in {"SCALP", "FVG"} -> 15 [] c = "VWAP" -> 18 [] c = "SWING" -> 10 [] OTHER -> 12)
      [] gate = "kill_zone" -> IF c \in {"SCALP", "FVG"} THEN 10 ELSE 8
      [] gate = "oi" -> (CASE c \in {"SCALP", "FVG"} -> 8 [] c \in {"VWAP", "OBI"} -> 6 [] OTHER -> 10)
      [] gate = "volume_div" -> (CASE c \in {"SCALP", "FVG"} -> 12 [] c = "SWING" -> 8 [] OTHER -> 10)
      [] gate = "spoof" -> (CASE c \in {"SCALP", "FVG"} -> 12 [] c = "OBI" -> 15 [] OTHER -> 10)
      [] OTHER -> 10

\* In tenths; a scalp in a quiet market pays most.
Severity(c, regime) ==
    CASE regime = "QUIET" -> IF c \in Scalps THEN 18 ELSE 8
      [] regime \in Trending -> 6 [] regime = "VOLATILE" -> 15 [] OTHER -> 10

NextFrame == [f \in Timeframes |-> CASE f = "1m" -> "5m" [] f = "5m" -> "15m" [] f = "15m" -> "1h" [] OTHER -> "4h"]
Volumes(x, f) == IF f \in DOMAIN x.t THEN x.t[f].ratio ELSE None

Passes(gate, c, d, x, entry) ==
    CASE gate = "vwap" -> VwapAllowed(d, entry, Primary(c, x).vwap)
      [] gate = "kill_zone" -> KillZoneAllowed(x.day, x.hour, IF c = "SCALP" THEN 40 ELSE 50)
      [] gate = "oi" -> x.oi = <<>> \/ OiAllowed(d, x.oi[1], x.oi[2])
      [] gate = "spoof" -> SpoofAllowed(d, x.book)
      [] gate = "volume_div" ->
             LET f == PrimaryFrame(c) IN VolumesAgree(f, Volumes(x, f), Volumes(x, NextFrame[f]), x.regime)
      [] OTHER -> ClusterAllowed(d, window)

SoftPenalty(c, d, x, entry) ==
    LET cost(gate) == IF gate \in SoftGates(c) /\ ~Passes(gate, c, d, x, entry)
                      THEN GateWeight(c, gate) * Severity(c, x.regime) * 10 ELSE 0
    IN  cost("vwap") + cost("kill_zone") + cost("oi") + cost("spoof") + cost("volume_div") + cost("cluster")

-----------------------------------------------------------------------------
(* The verdict on a proposal up to its risk plan: Rejected, or the signal  *)
(* with the levels of the plan.                                            *)

WithPlan(sig, setup, risk, x) ==
    IF \/ ~SetupAllowed(sig.chan, setup, State(x))
       \/ ~ExecutionPasses(setup, sig.entry, sig.dir, Primary(sig.chan, x), x.z, State(x))
       \/ ~MtfAllowed(sig.dir, Averages(x, Timeframes), x.regime)
       \/ ~CrossAssetAllowed(sig.dir, Scanned, x.majors)
       \/ risk.rejected
    THEN Rejected
    ELSE [sig EXCEPT !.stop = risk.stop, !.tp = risk.tp, !.class = setup, !.r = risk.r,
                     !.penalty = SoftPenalty(sig.chan, sig.dir, x, sig.entry)]

\* What build_risk_plan reads of the context.
RiskContext(sig, t, x) ==
    [atr |-> t.atr, extreme |-> IF sig.dir = "LONG" THEN t.lowest ELSE t.highest,
     sweep |-> IF x.z.sweeps = <<>> THEN None ELSE x.z.sweeps[1].level,
     bbMid |-> t.bbMid, bbUpper |-> t.bbUpper, bbLower |-> t.bbLower, spread |-> x.spread]

Judged(sig, x) ==
    LET With(setup, t) ==
            WithPlan(sig, setup, RiskPlan(sig.chan, sig.entry, sig.dir, setup, RiskContext(sig, t, x)), x)
        t == Primary(sig.chan, x)
    IN  IF sig.rejected THEN Rejected
        ELSE With(SetupClass(sig.chan, sig.dir, t.mom, x.z, State(x)), t)

Plan(c, x) == Judged(Evaluate(c, x), x)

\* The cap of scalps in one direction counts the registered signals.
CapReached(sig) ==
    sig.chan \in Scalps
    /\ Cardinality({p \in open : p.dir = sig.dir /\ p.chan \in Scalps}) >= MaxSameSide

-----------------------------------------------------------------------------
(* The rating                                                              *)

Opposed(sig) == \E p \in open : p.sym = Scanned /\ p.dir # sig.dir

BaseConfidence(sig, x, verified, sentiment) ==
    ComputeConfidence(sig.chan,
        [smc |-> ScoreSmc(x.z), trend |-> ScoreTrend(sig.dir, Fast(x)),
         liquidity |-> ScoreLiquidity(sig.chan, x.volume), spread |-> ScoreSpread(x.spread),
         data |-> ScoreDataSufficiency(x.candles), exchanges |-> ScoreMultiExchange(verified),
         onchain |-> x.onchain, flow |-> ScoreOrderFlow(sig.dir, x.flow),
         sentiment |-> ScoreSentiment(sig.chan, sentiment)],
        Session(x.hour), x.history)

\* A range fade in a ranging market gets five points, then the prediction.
LegacyConfidence(sig, x, verified, sentiment) ==
    LET boost == IF sig.chan = "SCALP" /\ x.regime = "RANGING" /\ sig.setup = "RANGE_FADE" THEN 500 ELSE 0
    IN  UpdatedConfidence(BaseConfidence(sig, x, verified, sentiment) + boost, sig.dir, Predict(Fast(x)))

TierOf(conf) ==
    IF conf >= 8000 THEN "A+" ELSE IF conf >= 6500 THEN "B" ELSE IF conf >= 5000 THEN "WATCHLIST" ELSE "FILTERED"

Agreement(d, x) == Confluence(d, Averages(x, {"5m", "15m", "1h", "4h"}), [tf \in Timeframes |-> TfWeight(tf)])
Unaligned(d, x) == DOMAIN Averages(x, {"5m", "15m", "1h", "4h"}) # {} /\ Agreement(d, x) < 50

\* From the component score: patterns, agreement, age, soft gates.
PenalisedConfidence(sig, x, total, age) ==
    LET patterned == Between(total + x.patterns[sig.dir], 0, 10000)
        agreed == patterned + IF Agreement(sig.dir, x) >= 80 THEN 300 ELSE 0
    IN  Between(Between(Decayed(agreed, sig.chan, age), 0, 10000) - sig.penalty, 0, 10000)

\* The composite score has its own indicators: none without the channel's
\* primary timeframe.
FinalScore(sig, x) ==
    LET c == sig.chan
        t == Primary(c, x)
        own == IF PrimaryFrame(c) \in DOMAIN x.t THEN t
               ELSE [t EXCEPT !.hist = <<>>, !.rsi = None, !.ema9 = None, !.ema21 = None]
    IN  CompositeScore(sig.dir, sig.class, x.regime, x.percentile, t.ratio, own, x.z,
                       x.patterns[sig.dir], Agreement(sig.dir, x))

\* The thresholds at the end.
Acceptable(c, regime, conf, label, parts) ==
    /\ regime = "QUIET" /\ c \in Scalps => conf >= 6800
    /\ \/ label = "WATCHLIST" /\ c \in Scalps /\ conf >= 5000
       \/ /\ conf >= MinConfidence[c]
          /\ parts.market >= 1200 /\ parts.execution >= 1000 /\ parts.risk >= 1000

Parts(sig, x, verified, sentiment) ==
    LET t == Primary(sig.chan, x)
    IN  Components(Quality(x), sig.chan, sig.class, State(x),
                   Triggered(sig.class, sig.entry, sig.dir, t, x.z, State(x)),
                   Extension(sig.class, sig.entry, sig.dir, t, x.z), sig.r,
                   LegacyConfidence(sig, x, verified, sentiment), verified)

\* The signal with its last confidence and tier, or Rejected.
Labelled(sig, x, parts, conf, label) ==
    IF x.z.invalid \/ Unaligned(sig.dir, x) \/ ~Acceptable(sig.chan, x.regime, conf, label, parts)
    THEN Rejected
    ELSE LET Adjusted(p) == AdjustTpSl(sig, p.tpBy, p.slBy)
         IN  [Adjusted(Predict(Fast(x))) EXCEPT !.conf = conf, !.tier = label]

\* The bug of a composite score that replaces the confidence only.
ScoredFaulty(sig, x, parts, before, score, raises) ==
    IF raises THEN Labelled(sig, x, parts, before, TierOf(before))
    ELSE IF score < 5000 THEN Rejected
    ELSE Labelled(sig, x, parts, score, TierOf(before))

\* The composite score replaces the penalised confidence and its tier; when
\* it raises, those stay.
Scored(sig, x, parts, before, score, raises) ==
    IF raises THEN Labelled(sig, x, parts, before, TierOf(before))
    ELSE IF score < 5000 THEN Rejected
    ELSE Labelled(sig, x, parts, score, TierOf(score))

Rated(sig, x, verified, sentiment, age, raises) ==
    LET With(parts) == Scored(sig, x, parts, PenalisedConfidence(sig, x, TotalScore(parts), age),
                              FinalScore(sig, x), raises)
    IN  With(Parts(sig, x, verified, sentiment))

-----------------------------------------------------------------------------
(* The scan.  From one await to the next it is a single step.              *)

Proceed(left) ==
    scan' = IF left = <<>> THEN Resting
            ELSE [scan EXCEPT !.stage = "channel", !.left = left, !.sig = NoSignal]
Hold(stage, sig) == scan' = [scan EXCEPT !.stage = stage, !.sig = sig]

\* What earlier scans recorded has left the window (a bound).
ScanStarts ==
    /\ scan.stage = "idle" /\ window \in {<<>>, Crowd}
    /\ \E name \in DOMAIN ScanContexts :
           scan' = [stage |-> "channel", x |-> name, left |-> ScanOrder, sig |-> NoSignal]
    /\ UNCHANGED <<open, cooling, window, paused>>

\* The next channel is not skipped and its proposal sig not turned down.
Promising(c, sig) == ~SkipsChannel(c, Context) /\ ~sig.rejected /\ ~CapReached(sig)

TurnedDown ==
    /\ scan.stage = "channel"
    /\ ~Promising(Head(scan.left), Plan(Head(scan.left), Context))
    /\ Proceed(Tail(scan.left))
    /\ UNCHANGED <<open, cooling, window, paused>>

\* The rating follows the last await before the queue.
Offered(rated, opposed) ==
    IF opposed \/ rated.rejected THEN Proceed(Tail(scan.left)) ELSE Hold("offer", rated)

Rate(sig, verified, sentiment, age) ==
    \E raises \in BOOLEAN : Offered(Rated(sig, Context, verified, sentiment, age, raises), Opposed(sig))

\* A scalp is rated at once, another signal asks a second exchange and, in
\* the spot channel, for the sentiment.
GoesOnWith(c, sig) ==
    /\ Promising(c, sig)
    /\ IF c \in Scalps THEN Rate(sig, "unknown", 0, 0) ELSE Hold("verify", sig)

Planned ==
    /\ scan.stage = "channel"
    /\ GoesOnWith(Head(scan.left), Plan(Head(scan.left), Context))
    /\ UNCHANGED <<open, cooling, window, paused>>

VerifiedAgain ==
    /\ scan.stage = "verify"
    /\ \E verified \in {"yes", "no", "unknown"}, sentiment \in {-100, 100}, age \in {0, 10} :
           Rate(scan.sig, verified, sentiment, age)
    /\ UNCHANGED <<open, cooling, window, paused>>

\* put() answers.
Enqueued ==
    /\ scan.stage = "offer"
    /\ cooling' = cooling \cup {scan.sig.chan}
    /\ window' = Append(window, [sym |-> Scanned, dir |-> scan.sig.dir])
    /\ Proceed(Tail(scan.left))
    /\ UNCHANGED <<open, paused>>

Dropped ==
    /\ scan.stage = "offer"
    /\ Proceed(Tail(scan.left))
    /\ UNCHANGED <<open, cooling, window, paused>>

-----------------------------------------------------------------------------
(* What happens elsewhere, wherever the scan awaits something              *)

Awaits == scan.stage \in {"idle", "verify", "offer"}

\* The router registers one signal of a symbol at a time.
Opened ==
    /\ Awaits
    /\ \E p \in Positions : (\A q \in open : q.sym # p.sym) /\ open' = open \cup {p}
    /\ UNCHANGED <<scan, cooling, window, paused>>

Closed ==
    /\ Awaits
    /\ \E p \in open : open' = open \ {p}
    /\ UNCHANGED <<scan, cooling, window, paused>>

CooledDown ==
    /\ Awaits
    /\ \E c \in cooling : cooling' = cooling \ {c}
    /\ UNCHANGED <<scan, open, window, paused>>

\* Records leave the window, or other symbols have signals.
WindowMoves ==
    /\ Awaits
    /\ window' \in {<<>>, Crowd} \ {window}
    /\ UNCHANGED <<scan, open, cooling, paused>>

PauseToggled ==
    /\ Awaits
    /\ \E c \in Pausable : paused' = IF c \in paused THEN paused \ {c} ELSE paused \cup {c}
    /\ UNCHANGED <<scan, open, cooling, window>>

PlNext ==
    \/ ScanStarts \/ TurnedDown \/ Planned \/ VerifiedAgain \/ Enqueued \/ Dropped
    \/ Opened \/ Closed \/ CooledDown \/ WindowMoves \/ PauseToggled

PlSpec == PlInit /\ [][PlNext]_plVars

-----------------------------------------------------------------------------
(* A signal handed to the queue has its stop on the losing side of the     *)
(* entry and its targets one beyond the other on the winning side, also    *)
(* for a token whose price has so few digits that rounding to 8 decimals   *)
(* moves its levels, and after the plan has replaced the channel's levels  *)
(* and the prediction scaled them.                                         *)
Ordered(sig) ==
    /\ Beyond(sig.entry, sig.stop, sig.dir)
    /\ Beyond(sig.tp[1], sig.entry, sig.dir)
    /\ \A i \in 2..Len(sig.tp) : Beyond(sig.tp[i], sig.tp[i - 1], sig.dir)

LevelsOrdered == scan.stage = "offer" => Ordered(scan.sig)

(* The confidence of a signal is written several times on its way, and its *)
(* tier twice.  A signal handed to the queue has the tier of the           *)
(* confidence it carries, whether or not the composite scoring failed, is  *)
(* never filtered, and a watchlist signal is a scalp outside a quiet       *)
(* market; any other reaches its channel's minimum.                        *)
TierIsEarned ==
    scan.stage = "offer" =>
      LET sig == scan.sig
      IN  /\ sig.tier = TierOf(sig.conf) /\ sig.tier # "FILTERED"
          /\ IF sig.tier = "WATCHLIST" THEN sig.chan \in Scalps /\ Context.regime # "QUIET"
             ELSE sig.conf >= MinConfidence[sig.chan] /\ Pct(Quality(Context), 25) >= 1200

(* No signal is handed to the queue against an open position on its        *)
(* symbol: one opened while the signal was verified counts.                *)
NoOpposingEnqueued ==
    [][scan.stage # "offer" /\ scan'.stage = "offer" => ~Opposed(scan'.sig)]_plVars

(* The gate profile lists seven channels whose signals are to pass its     *)
(* gates (src/scanner/__init__.py:236): a channel that proposes something  *)
(* trades some setup.                                                      *)
NoChannelIsMuted ==
    scan.stage = "channel" =>
      LET c == Head(scan.left)
      IN  ~SkipsChannel(c, Context) /\ ~Evaluate(c, Context).rejected => ChannelSetups(c) # {}

PlTypeOK ==
    /\ scan.stage \in {"idle", "channel", "verify", "offer"}
    /\ scan.stage # "idle" => scan.x \in DOMAIN ScanContexts
    /\ open \subseteq Positions
    /\ cooling \subseteq Channels
    /\ paused \subseteq Pausable
    /\ scan.stage # "idle" => scan.left # <<>>
=============================================================================
