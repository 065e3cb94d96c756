------------------------------ MODULE Learning ------------------------------
(***************************************************************************)
(* What the engine remembers of its trades: the PerformanceTracker, which  *)
(* saves every outcome (src/performance_tracker.py), the StatisticalFilter *)
(* with its rolling win rates (src/stat_filter.py) and the TradeObserver,  *)
(* which follows a trade from its entry to its exit and sends digests      *)
(* (src/trade_observer.py).  The trade monitor reports to all of them when *)
(* a trade ends; FeedbackLoop is reported to by nobody.                    *)
(***************************************************************************)
EXTENDS Integers, Sequences, FiniteSets

CONSTANTS
    Trades,
    Combo,      \* Combo[t]: the (channel, pair, regime) of a trade
    Window,     \* STAT_FILTER_WINDOW
    MinSamples, \* STAT_FILTER_MIN_SAMPLES
    HardRate,   \* STAT_FILTER_HARD_SUPPRESS_WR, in percent
    SoftRate,   \* STAT_FILTER_SOFT_PENALTY_WR, in percent
    FilterWired,\* has the monitor a stat_filter? main.py gives it none
    MaxViews    \* OBSERVER_MAX_OBSERVATIONS_PER_TRADE

Combos == {Combo[t] : t \in Trades}

ASSUME LearningAssumption ==
    /\ IsFiniteSet(Trades)
    /\ Combo \in [Trades -> Combos]
    /\ Window \in Nat \ {0} /\ MinSamples \in Nat \ {0}
    /\ "torn" \notin Trades   \* Torn is no set of trades
    /\ HardRate \in 0..100 /\ SoftRate \in HardRate..100
    /\ FilterWired \in BOOLEAN
    /\ MaxViews \in Nat

VARIABLES
    stage,      \* each trade: "none", "open" or "ended"
    records,    \* PerformanceTracker._records, as the set of their trades
    file,       \* its JSON file: the trades in it, or Torn
    window,     \* the filter's deque of each combination: was it won?
    watch,      \* the observer's record of each trade, see Watch
    analysed,   \* TradeObserver._completed
    stale,      \* the trades in it that are older than its rolling window
    saving,     \* has call_soon queued the observer's _save?
    diary,      \* the observer's file: the trades in it, or Torn
    digest,     \* the digest under way: <<>> or <<the trades it is about>>
    results,    \* history: all results of a combination
    kept,       \* history: outcomes recorded and not reset
    damaged     \* history: which files a failing write has ever torn

lrVars == <<stage, records, file, window, watch, analysed, stale, saving, diary,
            digest, results, kept, damaged>>
observer == <<watch, analysed, stale, saving, diary, digest>>
outcomes == <<records, file, window, results, kept>>

Torn == {"torn"}
Watch(s, n) == [state |-> s, views |-> n]

LrInit ==
    /\ stage = [t \in Trades |-> "none"]
    /\ records = {} /\ file = {} /\ kept = {}
    /\ window = [c \in Combos |-> <<>>]
    /\ results = [c \in Combos |-> <<>>]
    /\ watch = [t \in Trades |-> Watch("none", 0)]
    /\ analysed = {} /\ stale = {} /\ saving = FALSE /\ diary = {}
    /\ digest = <<>>
    /\ damaged = {}

-----------------------------------------------------------------------------
(* The statistical filter                                                  *)

Wins(q) == Cardinality({i \in DOMAIN q : q[i]})

LastOf(q, n) == IF Len(q) <= n THEN q ELSE SubSeq(q, Len(q) - n + 1, Len(q))

Remembered(q, won) == LastOf(Append(q, won), Window)

(* What check() says of a signal; with too few results it lets it pass.    *)
Verdict(q) ==
    IF Len(q) < MinSamples THEN "no_history"
    ELSE IF 100 * Wins(q) < HardRate * Len(q) THEN "hard_suppress"
    ELSE IF 100 * Wins(q) < SoftRate * Len(q) THEN "soft_penalty"
    ELSE "ok"

-----------------------------------------------------------------------------
(* The files.  A write truncates the file first: one that fails, or during *)
(* which the process dies, leaves nothing that can be loaded.              *)

WriteFaulty(S) == UNCHANGED <<file, damaged>>

WriteRecords(S) ==
    \/ file' = S /\ UNCHANGED damaged
    \/ file' = Torn /\ damaged' = damaged \cup {"records"}

WriteDiary(S) ==
    \/ diary' = S /\ UNCHANGED damaged
    \/ diary' = Torn /\ damaged' = damaged \cup {"diary"}

Loaded(f) == IF f = Torn THEN {} ELSE f

-----------------------------------------------------------------------------
(* A trade                                                                 *)

(* The router registers a delivered signal, and tells the observer only    *)
(* after the free-channel preview has been awaited.                        *)
Register(t) ==
    /\ stage[t] = "none"
    /\ stage' = [stage EXCEPT ![t] = "open"]
    /\ UNCHANGED <<outcomes, observer, damaged>>

CaptureEntry(t) ==
    /\ stage[t] # "none"
    /\ watch[t].state = "none"
    /\ watch' = [watch EXCEPT ![t] = Watch("open", 0)]
    /\ UNCHANGED <<stage, outcomes, analysed, stale, saving, diary, digest, damaged>>

ObserveTrade(t) ==
    /\ stage[t] = "open"
    /\ watch[t].state = "open" /\ watch[t].views < MaxViews
    /\ watch' = [watch EXCEPT ![t].views = @ + 1]
    /\ UNCHANGED <<stage, outcomes, analysed, stale, saving, diary, digest, damaged>>

(* capture_exit_analysis: a trade that is watched is completed, outdated   *)
(* ones are dropped, and a save is queued.                                 *)
CaptureExit(t) ==
    IF watch[t].state = "open"
      THEN /\ watch' = [watch EXCEPT ![t].state = "complete"]
           /\ analysed' = (analysed \cup {t}) \ stale
           /\ saving' = TRUE
      ELSE UNCHANGED <<watch, analysed, saving>>

RecordInFilter(t, won) ==
    window' = IF FilterWired
                THEN [window EXCEPT ![Combo[t]] = Remembered(@, won)] ELSE window

(* PerformanceTracker.record_outcome.                                      *)
RecordOutcome(t) ==
    /\ records' = records \cup {t}
    /\ kept' = kept \cup {t}
    /\ WriteRecords(records')

(* The monitor's _record_outcome.                                          *)
TradeEnded(t, won) ==
    /\ stage[t] = "open"
    /\ stage' = [stage EXCEPT ![t] = "ended"]
    /\ RecordOutcome(t)
    /\ results' = [results EXCEPT ![Combo[t]] = Append(@, won)]
    /\ CaptureExit(t)
    /\ RecordInFilter(t, won)
    /\ UNCHANGED <<stale, diary, digest>>

(* The scan loop's cleanup drops an expired signal and reports nothing.    *)
CleanedUp(t) ==
    /\ stage[t] = "open"
    /\ stage' = [stage EXCEPT ![t] = "ended"]
    /\ UNCHANGED <<outcomes, observer, damaged>>

-----------------------------------------------------------------------------
(* /reset_stats for the trades of one channel, or for all of them.         *)
ResetStats(S) ==
    /\ S \cap records # {}
    /\ records' = records \ S
    /\ kept' = kept \ S
    /\ WriteRecords(records')
    /\ UNCHANGED <<stage, window, results, observer>>

SaveObserver ==
    /\ saving
    /\ saving' = FALSE
    /\ WriteDiary(analysed)
    /\ UNCHANGED <<stage, outcomes, watch, analysed, stale, digest>>

Outdated(t) ==
    /\ t \in analysed \ stale
    /\ stale' = stale \cup {t}
    /\ UNCHANGED <<stage, outcomes, watch, analysed, saving, diary, digest, damaged>>

(* A digest is about the trades of its lookback; the answer of the model   *)
(* is awaited, and without one the digest is purely statistical.           *)
DigestStarts ==
    /\ digest = <<>>
    /\ analysed \ stale # {}
    /\ digest' = <<analysed \ stale>>
    /\ UNCHANGED <<stage, outcomes, watch, analysed, stale, saving, diary, damaged>>

DigestSent ==
    /\ digest # <<>>
    /\ digest' = <<>>
    /\ UNCHANGED <<stage, outcomes, watch, analysed, stale, saving, diary, damaged>>

(* The process starts again: files are loaded, the filter starts empty and *)
(* the trades that were open are forgotten.                                *)
LrRestart ==
    /\ stage' = [t \in Trades |-> IF stage[t] = "open" THEN "ended" ELSE stage[t]]
    /\ records' = Loaded(file)
    /\ window' = [c \in Combos |-> <<>>]
    /\ results' = [c \in Combos |-> <<>>]
    /\ watch' = [t \in Trades |-> Watch(IF stage[t] = "none" THEN "none" ELSE "complete", 0)]
    /\ analysed' = Loaded(diary) \ stale
    /\ saving' = FALSE
    /\ digest' = <<>>
    /\ UNCHANGED <<file, kept, stale, diary, damaged>>

LrNext ==
    \/ \E t \in Trades :
         \/ Register(t) \/ CaptureEntry(t) \/ ObserveTrade(t) \/ CleanedUp(t) \/ Outdated(t)
         \/ \E won \in BOOLEAN : TradeEnded(t, won)
    \/ \E c \in Combos : ResetStats({t \in Trades : Combo[t] = c})
    \/ ResetStats(Trades)
    \/ SaveObserver \/ DigestStarts \/ DigestSent \/ LrRestart

LrSpec == LrInit /\ [][LrNext]_lrVars

-----------------------------------------------------------------------------
LrTypeOK ==
    /\ stage \in [Trades -> {"none", "open", "ended"}]
    /\ records \subseteq Trades /\ analysed \subseteq Trades /\ stale \subseteq Trades
    /\ file \subseteq Trades \/ file = Torn
    /\ diary \subseteq Trades \/ diary = Torn
    /\ \A c \in Combos : Len(window[c]) <= Window
    /\ \A t \in Trades : watch[t].state \in {"none", "open", "complete"}
    /\ \A t \in Trades : watch[t].views \in 0..MaxViews
    /\ saving \in BOOLEAN

(* As long as no write of its file has failed, the tracker has exactly the *)
(* outcomes that were reported and not reset, in memory and on disk, over  *)
(* any restarts; and a trade the observer has analysed did end and is on   *)
(* disk once the queued save has run.                                      *)
OutcomesKept ==
    /\ "records" \notin damaged => records = kept /\ file = kept
    /\ \A t \in analysed : stage[t] = "ended"
    /\ "diary" \notin damaged /\ ~ saving => analysed \ stale = diary \ stale

(* The code's doc: the filter "can penalise or suppress future signals     *)
(* from poor (channel, pair, regime) combinations": a combination whose    *)
(* last results are poor is suppressed.                                    *)
PoorComboSuppressed ==
    \A c \in Combos :
      Verdict(LastOf(results[c], Window)) = "hard_suppress" => Verdict(window[c]) = "hard_suppress"
=============================================================================
