--------------------------- MODULE RegimeDetector ---------------------------
(***************************************************************************)
(* MarketRegimeDetector with its hysteresis: the regime it reports changes *)
(* only when the indicators have said so several times in a row.  The      *)
(* scanner has one detector, which the scans of all symbols ask in turn,   *)
(* and so does the trade monitor (src/trade_monitor.py).  None of them     *)
(* passes a volume delta, so nothing forces a regime.                      *)
(***************************************************************************)
EXTENDS MarketGates

CONSTANTS
    Asking,      \* the symbols
    Frames,      \* timeframes their scans classify, "5m" or without it "1m"
    Readings,    \* [adx, slope, width] records, see Decide
    Hysteresis   \* _hysteresis_candles

ASSUME RegimeAssumption ==
    /\ "none" \notin Frames
    /\ Hysteresis \in Nat \ {0}

VARIABLES
    rdStable,    \* _previous_regime, "none" before the first call
    rdPending,   \* _pending_regime
    rdDwell,     \* _regime_dwell_count
    rdFrame,     \* _last_timeframe
    rdLast,      \* history: the last raw regimes of this timeframe
    rdTold,      \* history: the regime each symbol was told last
    rdRun        \* history: each symbol's own last raw regime, and for how
                 \* many of its calls, saturating at Hysteresis

rdVars == <<rdStable, rdPending, rdDwell, rdFrame, rdLast, rdTold, rdRun>>

RdInit ==
    /\ rdStable = "none" /\ rdPending = "none" /\ rdDwell = 0 /\ rdFrame = "none"
    /\ rdLast = <<>>
    /\ rdTold = [s \in Asking |-> "none"]
    /\ rdRun = [s \in Asking |-> [raw |-> "none", n |-> 0]]

\* Another timeframe starts afresh.
StableAt(f) == IF f = rdFrame THEN rdStable ELSE "none"

\* The bug of a count that is not restarted for a new candidate.
DweltFaulty(raw) == rdDwell + 1
Dwelt(raw) == IF raw = rdPending THEN rdDwell + 1 ELSE 1
Adopts(raw, f) == StableAt(f) \in {"none", raw} \/ Dwelt(raw) >= Hysteresis

Ran(s, raw) ==
    [raw |-> raw, n |-> IF rdRun[s].raw = raw THEN Smaller(rdRun[s].n + 1, Hysteresis) ELSE 1]
Lately(f, raw) ==
    LET all == Append(IF f = rdFrame THEN rdLast ELSE <<>>, raw)
    IN  IF Len(all) > Hysteresis THEN Tail(all) ELSE all

Adopted(raw) == rdStable' = raw /\ rdDwell' = Hysteresis
Postponed(raw) == rdDwell' = Dwelt(raw) /\ UNCHANGED rdStable

Classify(s, f, r) ==
    LET raw == Decide(r.adx, r.slope, r.width, f)
    IN  /\ IF Adopts(raw, f) THEN Adopted(raw) ELSE Postponed(raw)
        /\ rdPending' = raw
        /\ rdFrame' = f
        /\ rdLast' = Lately(f, raw)
        /\ rdRun' = [rdRun EXCEPT ![s] = Ran(s, raw)]
        /\ rdTold' = [rdTold EXCEPT ![s] = rdStable']

RdNext == \E s \in Asking, f \in Frames, r \in Readings : Classify(s, f, r)
RdSpec == RdInit /\ [][RdNext]_rdVars

(* As long as the timeframe stays the same, the detector reports another   *)
(* regime only after so many calls in a row have measured that regime,     *)
(* whatever was measured and reported before.                              *)
RegimeDwell ==
    [][rdFrame' = rdFrame /\ rdStable' # rdStable =>
         /\ Len(rdLast') = Hysteresis
         /\ \A i \in DOMAIN rdLast' : rdLast'[i] = rdStable']_rdVars

(* What _apply_hysteresis promises (src/regime.py:260, "3-candle           *)
(* dwell-time hysteresis"): the regime a symbol is told changes only after *)
(* the symbol's own raw classification has been the new regime for that    *)
(* many consecutive calls.  TLC refutes it: the symbols share the count.   *)
RegimeDwellsPerSymbol ==
    [][\A s \in Asking :
         rdTold[s] # "none" /\ rdTold'[s] # rdTold[s]
           => rdRun'[s] = [raw |-> rdTold'[s], n |-> Hysteresis]]_rdVars

RdTypeOK ==
    /\ rdStable \in Regimes \cup {"none"} /\ rdPending \in Regimes \cup {"none"}
    /\ rdDwell \in 0..Hysteresis
    /\ rdFrame \in Frames \cup {"none"}
    /\ rdLast \in UNION {[1..n -> Regimes] : n \in 0..Hysteresis}
    /\ rdTold \in [Asking -> Regimes \cup {"none"}]
=============================================================================
