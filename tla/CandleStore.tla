---------------------------- MODULE CandleStore ----------------------------
(***************************************************************************)
(* The candle series of HistoricalDataStore (src/historical_data.py) for   *)
(* one timeframe: seeded at boot or filled up from the disk snapshot,      *)
(* extended by the WebSocket's closed candles, by the REST fallback during *)
(* an outage, saved from time to time, and lost with the process.          *)
(*                                                                         *)
(* A candle is its number; time is in half candles, so that candle k is    *)
(* open at 2k and 2k + 1.  Every timeframe goes through the same steps.    *)
(* A series is the set of its candles: the copies that an overlap of two   *)
(* downloads leaves in it, and the oldest candles a full bucket drops, are *)
(* not told apart.  Ticks are only ever replaced.                          *)
(***************************************************************************)
EXTENDS Integers, FiniteSets

CONSTANTS
    Series,        \* the pairs of PairManager
    Streamed,      \* those with a WebSocket stream (Tier 1)
    SeedLimit,     \* TimeframeSeed.limit
    GapBuffer,     \* _GAP_BUFFER_CANDLES
    MaxGapAge,     \* _MAX_GAP_FILL_SECONDS, in half candles
    MaxFill,       \* bound of the time a download takes, in half candles
    BulkLimit,     \* WS_FALLBACK_BULK_LIMIT
    Missing,       \* no snapshot of a series, no request
    CsMaxTime,     \* bound of the clock
    CsMaxRestarts  \* bound of the restarts

ASSUME CandleAssumption ==
    /\ Streamed \subseteq Series
    /\ SeedLimit \in Nat \ {0}
    /\ GapBuffer \in Nat /\ MaxGapAge \in Nat /\ MaxFill \in Nat /\ BulkLimit \in Nat \ {0}
    /\ CsMaxTime \in Nat /\ CsMaxRestarts \in Nat
    /\ Missing \notin Int

\* The buffer outlasts a download: the answer of a gap is its last candles.
ASSUME FillAssumption == GapBuffer >= (MaxFill + 2) \div 2 + 1

VARIABLES
    csTime,       \* half candles since the start
    csUp,         \* "down", "filling" (boot, before the WebSockets) or "up"
    csRestarts,   \* restarts so far
    stream,       \* does the WebSocket deliver?
    candles,      \* candles[p]: the candles of the series
    request,      \* request[p]: candles asked for at boot, or Missing
    askedAt,      \* when the boot asked
    files,        \* files[p]: the series' file, or Missing
    savedAt,      \* savedAt[p]: saved_at in metadata.json, or Missing
    excused,      \* history: candles that closed while nothing delivered them
    unasked       \* history: candles that closed while the process was down
                  \* and that gap_fill did not ask for

csVars == <<csTime, csUp, csRestarts, stream, candles, request, askedAt, files, savedAt, excused, unasked>>

None == [p \in Series |-> {}]

CsInit ==
    /\ csTime = 0
    /\ csUp = "down"
    /\ csRestarts = 0
    /\ stream = FALSE
    /\ candles = [p \in Series |-> {}]
    /\ request = [p \in Series |-> Missing]
    /\ askedAt = 0
    /\ files = [p \in Series |-> Missing]
    /\ savedAt = [p \in Series |-> Missing]
    /\ excused = None
    /\ unasked = None

CandleAt(t) == t \div 2

(* The exchange's answer: the last n candles, the open one included.       *)
Klines(n) == (CandleAt(csTime) - n + 1)..CandleAt(csTime)

GapFaulty(t, now) ==
    IF now - t > MaxGapAge THEN SeedLimit ELSE (now - t) \div 2

(* _estimate_gap_candles, and _gap_fill_symbol's choice of a full fetch.   *)
Gap(t, now) ==
    LET raw == (now - t) \div 2
    IN  IF now - t > MaxGapAge THEN SeedLimit
        ELSE IF raw = 0 THEN 0
        ELSE IF raw + GapBuffer >= SeedLimit THEN SeedLimit
        ELSE raw + GapBuffer

-----------------------------------------------------------------------------
(* Boot                                                                    *)

(* The series the metadata names are loaded from their files and each asks *)
(* for its gap, if it has one; the others are seeded in full.              *)
Boots ==
    /\ csUp = "down"
    /\ csRestarts < CsMaxRestarts
    /\ csRestarts' = csRestarts + 1
    /\ csUp' = "filling"
    /\ LET known(p) == savedAt[p] # Missing /\ files[p] # Missing
           ask(p) == IF known(p) THEN Gap(savedAt[p], csTime) ELSE SeedLimit
       IN  /\ candles' = [p \in Series |-> IF known(p) THEN files[p] ELSE {}]
           /\ request' = [p \in Series |-> IF ask(p) = 0 THEN Missing ELSE ask(p)]
           /\ unasked' = [p \in Series |->
                IF known(p) /\ ask(p) = 0
                  THEN unasked[p] \cup (CandleAt(savedAt[p])..(CandleAt(csTime) - 1))
                  ELSE unasked[p]]
    /\ askedAt' = csTime
    /\ UNCHANGED <<csTime, stream, files, savedAt, excused>>

(* The request is answered, after the time it took: a full series replaces *)
(* the old one, a gap is appended to it (_merge_candles).                  *)
Filled(p) ==
    /\ request[p] # Missing
    /\ candles' = [candles EXCEPT ![p] =
         Klines(request[p]) \cup (IF request[p] = SeedLimit THEN {} ELSE @)]
    /\ request' = [request EXCEPT ![p] = Missing]
    /\ UNCHANGED <<csTime, csUp, csRestarts, stream, askedAt, files, savedAt, excused, unasked>>

(* The candles of a request that failed.  A full fetch stands for a gap    *)
(* that is longer than a full series, or too old to be counted.            *)
Asked(p) ==
    LET n == request[p]
    IN  (IF n = SeedLimit THEN 0 ELSE CandleAt(csTime) - n)..CandleAt(csTime)

(* The request failed: what it asked for stays missing.                    *)
FillFails(p) ==
    /\ request[p] # Missing
    /\ request' = [request EXCEPT ![p] = Missing]
    /\ excused' = [excused EXCEPT ![p] = @ \cup Asked(p)]
    /\ UNCHANGED <<csTime, csUp, csRestarts, stream, candles, askedAt, files, savedAt, unasked>>

(* The WebSockets start when all series are filled.                        *)
StreamsStart ==
    /\ csUp = "filling"
    /\ \A p \in Series : request[p] = Missing
    /\ csUp' = "up"
    /\ stream' = TRUE
    /\ UNCHANGED <<csTime, csRestarts, candles, request, askedAt, files, savedAt, excused, unasked>>

-----------------------------------------------------------------------------
(* Running                                                                 *)

Delivered(p) == csUp = "up" /\ p \in Streamed /\ stream

(* Time passes.  The candle that closes is appended (update_candle) where  *)
(* a stream delivers it.                                                   *)
HalfCandle ==
    /\ csTime < CsMaxTime
    /\ csUp = "filling" => csTime < askedAt + MaxFill
    /\ csTime' = csTime + 1
    /\ LET k == CandleAt(csTime)
           closes == CandleAt(csTime + 1) > k
       IN  /\ candles' = [p \in Series |->
                IF closes /\ Delivered(p) THEN candles[p] \cup {k}
                ELSE candles[p]]
           /\ excused' = [p \in Series |->
                IF closes /\ csUp # "down" /\ ~ Delivered(p) THEN excused[p] \cup {k}
                ELSE excused[p]]
    /\ UNCHANGED <<csUp, csRestarts, stream, request, askedAt, files, savedAt, unasked>>

Outage ==
    /\ csUp = "up"
    /\ stream' = ~ stream
    /\ UNCHANGED <<csTime, csUp, csRestarts, candles, request, askedAt, files, savedAt, excused, unasked>>

(* fetch_and_store_fallback: the bulk download of the REST fallback.       *)
FallbackSeeds(p) ==
    /\ csUp = "up" /\ p \in Streamed /\ ~ stream
    /\ candles' = [candles EXCEPT ![p] = @ \cup Klines(BulkLimit)]
    /\ UNCHANGED <<csTime, csUp, csRestarts, stream, request, askedAt, files, savedAt, excused, unasked>>

(* A poll of the fallback delivers the candle that is open as a closed one.*)
FallbackPolls(p) ==
    /\ csUp = "up" /\ p \in Streamed /\ ~ stream
    /\ candles' = [candles EXCEPT ![p] = @ \cup {CandleAt(csTime)}]
    /\ UNCHANGED <<csTime, csUp, csRestarts, stream, request, askedAt, files, savedAt, excused, unasked>>

(* The pair refresh drops a pair that left the universe.                   *)
PairPruned(p) ==
    /\ csUp = "up" /\ candles[p] # {}
    /\ candles' = [candles EXCEPT ![p] = {}]
    /\ UNCHANGED <<csTime, csUp, csRestarts, stream, request, askedAt, files, savedAt, excused, unasked>>

-----------------------------------------------------------------------------
(* The snapshot                                                            *)

(* One file per series that has candles, then the metadata, which names    *)
(* those series alone: a crash may leave new files under the old metadata. *)
Written(S) == [p \in Series |-> IF p \in S /\ candles[p] # {} THEN candles[p] ELSE files[p]]

SaveSnapshot ==
    /\ csUp = "up"
    /\ files' = Written(Series)
    /\ savedAt' = [p \in Series |-> IF candles[p] # {} THEN csTime ELSE Missing]
    /\ UNCHANGED <<csTime, csUp, csRestarts, stream, candles, request, askedAt, excused, unasked>>

Dies ==
    /\ csUp' = "down"
    /\ stream' = FALSE
    /\ candles' = [p \in Series |-> {}]
    /\ request' = [p \in Series |-> Missing]

Crash ==
    /\ csUp # "down"
    /\ Dies
    /\ UNCHANGED <<csTime, csRestarts, askedAt, files, savedAt, excused, unasked>>

CrashInSnapshot ==
    /\ csUp = "up"
    /\ \E S \in SUBSET Series : files' = Written(S)
    /\ Dies
    /\ UNCHANGED <<csTime, csRestarts, askedAt, savedAt, excused, unasked>>

CsNext ==
    \/ Boots \/ StreamsStart \/ HalfCandle \/ Outage
    \/ SaveSnapshot \/ Crash \/ CrashInSnapshot
    \/ \E p \in Series :
         Filled(p) \/ FillFails(p) \/ FallbackSeeds(p) \/ FallbackPolls(p) \/ PairPruned(p)

CsSpec == CsInit /\ [][CsNext]_csVars

-----------------------------------------------------------------------------
CsTypeOK ==
    /\ csTime \in 0..CsMaxTime
    /\ csUp \in {"down", "filling", "up"}
    /\ csRestarts \in 0..CsMaxRestarts
    /\ stream \in BOOLEAN
    /\ \A p \in Series :
         /\ candles[p] \subseteq Int /\ IsFiniteSet(candles[p])
         /\ request[p] = Missing \/ request[p] \in 1..SeedLimit
         /\ files[p] = Missing \/ files[p] \subseteq Int
         /\ savedAt[p] = Missing \/ savedAt[p] \in 0..CsMaxTime
    /\ askedAt \in 0..csTime

Holes(p) ==
    {k \in CandleAt(0)..CandleAt(csTime) :
       /\ k \notin candles[p]
       /\ \E i, j \in candles[p] : i < k /\ k < j}

(* What a restart has to make up for is made up for: between the oldest    *)
(* and the newest candle of a series none is missing, except those that    *)
(* closed while the engine ran and nothing delivered them, those whose     *)
(* download failed, and those gap_fill took for no gap.                    *)
FilledGapsAreWhole ==
    \A p \in Series : csUp = "up" => Holes(p) \subseteq excused[p] \cup unasked[p]

(* "Return the number of candles needed to cover the gap since saved_at":  *)
(* a candle that closed during a restart is not missing afterwards.        *)
GapIsCovered ==
    \A p \in Series : csUp = "up" => Holes(p) \subseteq excused[p]
=============================================================================
