---------------------------- MODULE PairUniverse ----------------------------
(***************************************************************************)
(* The universe of trading pairs: PairManager's dictionary with its tiers  *)
(* (src/pair_manager.py), the engine's refresh loop, which seeds new pairs *)
(* and restarts the WebSocket subscriptions (src/main.py), the operator's  *)
(* /update_pairs and the scan loop's promotions, which change the same     *)
(* dictionary while the loop waits for an answer.                          *)
(*                                                                         *)
(* Volumes are left out: an answer of the exchange lists its pairs by      *)
(* volume, and a Tier 3 pair whose previous volume is known may surge.     *)
(***************************************************************************)
EXTENDS Integers, Sequences, FiniteSets, SequencesExt

CONSTANTS
    Symbols,         \* the trading pairs
    FuturesAnswers,  \* answers of the futures ticker, <<>> when it failed
    SpotAnswers,     \* answers of the spot ticker
    TierOneCount,    \* TIER1_PAIR_COUNT
    TierTwoCount,    \* TIER2_PAIR_COUNT, Tier 1 included
    WsLimit,         \* _WS_SYMBOL_LIMIT
    PruneEnabled     \* PAIR_PRUNE_ENABLED

ASSUME PairAssumption ==
    /\ IsFiniteSet(Symbols)
    /\ FuturesAnswers \subseteq Seq(Symbols) /\ SpotAnswers \subseteq Seq(Symbols)
    /\ TierOneCount \in Nat /\ TierTwoCount \in Nat /\ TierOneCount <= TierTwoCount
    /\ WsLimit \in Nat /\ PruneEnabled \in BOOLEAN

VARIABLES
    universe,   \* the keys of PairManager.pairs, in the order they were added
    pairMarket, \* the market each pair was first seen on
    pairTier,   \* the tier of each pair
    measured,   \* the pairs in _prev_volumes
    seeded,     \* the pairs whose candles are in the data store
    streams,    \* the pairs the WebSocket managers are subscribed to
    refresh,    \* the refresh loop: "boot", "asleep", "fetching", "seeding"
                \* or "restarting"
    oldFirst,   \* the symbol sets it took before it fetched
    toSeed,     \* the new symbols it has not seeded yet
    exempt      \* history: pairs nobody has to seed: their seeding failed,
                \* they were new to the operator's refresh, or of Tier 3

puVars == <<universe, pairMarket, pairTier, measured, seeded, streams, refresh,
            oldFirst, toSeed, exempt>>
puLoop == <<refresh, oldFirst, toSeed>>

NoSymbols == [spot |-> {}, futures |-> {}]

PuInit ==
    /\ universe = <<>>
    /\ pairMarket = [s \in Symbols |-> "spot"]
    /\ pairTier = [s \in Symbols |-> 3]
    /\ measured = {}
    /\ seeded = {}
    /\ streams = {}
    /\ refresh = "boot"
    /\ oldFirst = NoSymbols
    /\ toSeed = <<>>
    /\ exempt = {}

Active == ToSet(universe)
TierOne == {s \in Active : pairTier[s] = 1}

(* _current_ws_symbol_sets: the first pairs of each market, in the order   *)
(* in which they joined the dictionary.                                    *)
FirstOf(m) ==
    LET of == SelectSeq(universe, LAMBDA s : pairMarket[s] = m)
    IN  ToSet(SubSeq(of, 1, IF Len(of) < WsLimit THEN Len(of) ELSE WsLimit))
FirstSymbols == [spot |-> FirstOf("spot"), futures |-> FirstOf("futures")]

(* The entries of s that are not in X.                                     *)
Without(s, X) ==
    LET left[n \in 0..Len(s)] ==
          IF n = 0 THEN <<>>
          ELSE IF s[n] \in X THEN left[n - 1] ELSE Append(left[n - 1], s[n])
    IN  left[Len(s)]

(* Futures first, then the spot pairs that have no future.                 *)
Fetched(fut, spot) == fut \o Without(spot, ToSet(fut))

TierOfRank(r) == IF r <= TierOneCount THEN 1 ELSE IF r <= TierTwoCount THEN 2 ELSE 3

New(all) == Without(all, Active)
Stale(all) == IF PruneEnabled /\ all # <<>> THEN Active \ ToSet(all) ELSE {}

(* refresh_pairs, once the answers are there: the tiers follow the ranks,  *)
(* new pairs are added, pairs that no answer lists are pruned.             *)
RefreshPairs(fut, spot) ==
    LET all == Fetched(fut, spot)
        Rank(s) == CHOOSE r \in 1..Len(all) : all[r] = s
    IN  /\ universe' = Without(universe, Stale(all)) \o New(all)
        /\ pairTier' = [s \in Symbols |->
             IF s \in ToSet(all) THEN TierOfRank(Rank(s))
             ELSE IF s \in Stale(all) THEN 3 ELSE pairTier[s]]
        /\ pairMarket' = [s \in Symbols |->
             IF s \in ToSet(New(all)) THEN (IF s \in ToSet(fut) THEN "futures" ELSE "spot")
             ELSE IF s \in Stale(all) THEN "spot" ELSE pairMarket[s]]
        /\ measured' = (measured \cup (Active \cap ToSet(all))) \ Stale(all)

-----------------------------------------------------------------------------
(* Boot: all pairs are seeded, then the streams of Tier 1 start            *)

PuBoot ==
    /\ refresh = "boot"
    /\ \E fut \in FuturesAnswers, spot \in SpotAnswers : RefreshPairs(fut, spot)
    /\ \E failed \in SUBSET ToSet(universe') :
         seeded' = ToSet(universe') \ failed /\ exempt' = failed
    /\ streams' = {s \in ToSet(universe') : pairTier'[s] = 1}
    /\ refresh' = "asleep"
    /\ UNCHANGED <<oldFirst, toSeed>>

-----------------------------------------------------------------------------
(* _pair_refresh_loop                                                      *)

LoopWakes ==
    /\ refresh = "asleep"
    /\ refresh' = "fetching"
    /\ oldFirst' = FirstSymbols
    /\ UNCHANGED <<universe, pairMarket, pairTier, measured, seeded, streams, toSeed, exempt>>

LoopFetchedFaulty(all) == <<>>

(* The new pairs to seed.                                                  *)
LoopFetched(all) == New(all)

(* The answers arrive: the candles of the pruned pairs are dropped and the *)
(* new ones wait to be seeded.                                             *)
LoopAnswered ==
    /\ refresh = "fetching"
    /\ \E fut \in FuturesAnswers, spot \in SpotAnswers :
         LET all == Fetched(fut, spot)
         IN  /\ RefreshPairs(fut, spot)
             /\ seeded' = seeded \ Stale(all)
             /\ toSeed' = LoopFetched(all)
             /\ exempt' = exempt \ (Stale(all) \cup ToSet(New(all)))
    /\ refresh' = "seeding"
    /\ UNCHANGED <<streams, oldFirst>>

(* The next new pair, unless it is gone again; Tier 3 is not seeded.       *)
LoopSeeds ==
    /\ refresh = "seeding"
    /\ toSeed # <<>>
    /\ toSeed' = Tail(toSeed)
    /\ LET s == Head(toSeed)
       IN  IF s \in Active /\ pairTier[s] # 3
             THEN \/ seeded' = seeded \cup {s} /\ UNCHANGED exempt
                  \/ exempt' = exempt \cup {s} /\ UNCHANGED seeded
             ELSE exempt' = exempt \cup {s} /\ UNCHANGED seeded
    /\ UNCHANGED <<universe, pairMarket, pairTier, measured, streams, refresh, oldFirst>>

(* _restart_websockets_if_pair_universe_changed: the managers are stopped, *)
(* and started again with the Tier 1 pairs of that moment.                 *)
LoopCompares ==
    /\ refresh = "seeding"
    /\ toSeed = <<>>
    /\ IF FirstSymbols = oldFirst
         THEN refresh' = "asleep" /\ UNCHANGED streams
         ELSE refresh' = "restarting" /\ streams' = {}
    /\ oldFirst' = NoSymbols
    /\ UNCHANGED <<universe, pairMarket, pairTier, measured, seeded, toSeed, exempt>>

LoopRestarts ==
    /\ refresh = "restarting"
    /\ refresh' = "asleep"
    /\ streams' = TierOne
    /\ UNCHANGED <<universe, pairMarket, pairTier, measured, seeded, oldFirst, toSeed, exempt>>

-----------------------------------------------------------------------------
(* The others who change the dictionary                                    *)

(* /update_pairs [spot|futures]: a refresh that neither seeds nor drops    *)
(* candles nor touches the subscriptions.                                  *)
OperatorUpdates ==
    /\ refresh # "boot"
    /\ \E fut \in FuturesAnswers \cup {<<>>}, spot \in SpotAnswers \cup {<<>>} :
         /\ RefreshPairs(fut, spot)
         /\ exempt' = exempt \cup ToSet(New(Fetched(fut, spot)))
    /\ UNCHANGED <<seeded, streams, puLoop>>

(* check_promotions, in the scan loop's Tier 3 scan.                       *)
Promoted ==
    /\ refresh # "boot"
    /\ \E s \in Active \cap measured :
         /\ pairTier[s] = 3
         /\ pairTier' = [pairTier EXCEPT ![s] = 2]
    /\ UNCHANGED <<universe, pairMarket, measured, seeded, streams, puLoop, exempt>>

(* A candle of a subscribed pair creates its series again.                 *)
StreamDelivers ==
    /\ \E s \in streams \ seeded : seeded' = seeded \cup {s}
    /\ UNCHANGED <<universe, pairMarket, pairTier, measured, streams, puLoop, exempt>>

PuNext ==
    \/ PuBoot \/ LoopWakes \/ LoopAnswered \/ LoopSeeds \/ LoopCompares \/ LoopRestarts
    \/ OperatorUpdates \/ Promoted \/ StreamDelivers

PuSpec == PuInit /\ [][PuNext]_puVars

-----------------------------------------------------------------------------
PuTypeOK ==
    /\ universe \in Seq(Symbols) /\ IsInjective(universe)
    /\ pairMarket \in [Symbols -> {"spot", "futures"}]
    /\ pairTier \in [Symbols -> 1..3]
    /\ measured \subseteq Active
    /\ seeded \subseteq Symbols /\ streams \subseteq Symbols /\ exempt \subseteq Symbols
    /\ refresh \in {"boot", "asleep", "fetching", "seeding", "restarting"}
    /\ toSeed \in Seq(Symbols)

(* The streams never outnumber Tier 1, whatever failed answers, partial    *)
(* refreshes of the operator and promotions did to the tiers before.       *)
StreamsWithinLimit ==
    /\ Cardinality(streams) <= TierOneCount
    /\ PruneEnabled => Cardinality(TierOne) <= TierOneCount

(* Between two refreshes every pair that is scanned in full has candles,   *)
(* though others change the dictionary while the loop waits - except pairs *)
(* whose seeding failed or that the loop never met as new Tier 1 or Tier 2 *)
(* pairs.                                                                  *)
ScannedPairsSeeded ==
    \A s \in Active :
        pairTier[s] # 3 /\ s \notin exempt /\ s \notin ToSet(toSeed) => s \in seeded

(* "Only Tier 1 spot symbols get WebSocket subscriptions", "Tier 1 - Core: *)
(* full scan every cycle, all channels, WebSocket + order book": between   *)
(* two refreshes the subscriptions are the Tier 1 pairs.                   *)
CoreStreamed == refresh = "asleep" => streams = TierOne
=============================================================================
