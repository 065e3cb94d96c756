------------------------- MODULE SignalRouterProofs -------------------------
(***************************************************************************)
(* Type correctness of the router and, through the inductive invariant     *)
(* RouterInv, its safety: one position per symbol, the channel caps, the   *)
(* correlation limit, the cooldown and, with AnnouncedInv, that no signal  *)
(* is announced twice, for every set of signals, symbols, channels and     *)
(* groups and every limit the assumptions of SignalRouter admit.           *)
(***************************************************************************)
EXTENDS SignalRouter, SequenceTheorems, FiniteSetTheorems, TLAPS

-----------------------------------------------------------------------------
(* The free-channel ranking: inserting a message in the daily list and     *)
(* trimming it yields a list of messages no longer than the limit.         *)

LEMMA TrimmedType ==
    ASSUME NEW S, NEW best \in Seq(S), NEW limit \in Nat
    PROVE  /\ Trimmed(best, limit) \in Seq(S)
           /\ Len(Trimmed(best, limit)) <= limit
<1> DEFINE n == IF Len(best) < limit THEN Len(best) ELSE limit
<1>1. n \in Nat /\ n <= Len(best) /\ n <= limit
    OBVIOUS
<1>2. \A i \in 1..n : best[i] \in S
    BY <1>1
<1>3. SubSeq(best, 1, n) \in Seq(S) /\ Len(SubSeq(best, 1, n)) <= limit
    BY <1>1, <1>2, SubSeqProperties
<1> QED
    BY <1>3 DEF Trimmed

LEMMA RankedType ==
    ASSUME NEW best \in Seq(Message), NEW m \in Message
    PROVE  Ranked(best, m) \in Seq(Message)
<1> DEFINE above == {i \in 1..Len(best) : best[i].confidence >= m.confidence}
           r == Cardinality(above)
<1>1. IsFiniteSet(1..Len(best)) /\ Cardinality(1..Len(best)) = Len(best)
    BY Len(best) \in Nat, 1 \in Int, FS_Interval
<1>2. r \in 0..Len(best)
    BY <1>1, FS_Subset, FS_CardinalityType, above \in SUBSET (1..Len(best))
<1>3. SubSeq(best, 1, r) \in Seq(Message)
    <2>1. \A i \in 1..r : best[i] \in Message
        BY <1>2
    <2> QED
        BY <1>2, <2>1, SubSeqProperties
<1>4. SubSeq(best, r + 1, Len(best)) \in Seq(Message)
    <2>1. \A i \in r + 1..Len(best) : best[i] \in Message
        BY <1>2
    <2> QED
        BY <1>2, <2>1, SubSeqProperties
<1>5. <<m>> \in Seq(Message)
    OBVIOUS
<1> QED
    BY <1>3, <1>4, <1>5, ConcatProperties DEF Ranked

-----------------------------------------------------------------------------
(* The state of the coroutine.                                             *)

LEMMA RouterStateType ==
    ASSUME NEW m \in Message
    PROVE  /\ Idle \in RouterStates
           /\ \A pc \in {"enrich", "send", "backoff", "free"} : Busy(pc, m) \in RouterStates
           /\ AfterEnrichment(m) \in RouterStates
BY DEF RouterStates, Busy, AfterEnrichment

LEMMA BusyMessage ==
    ASSUME router \in RouterStates, router.pc \in {"enrich", "send", "backoff", "free"}
    PROVE  router.msg \in Message /\ router # Idle /\ router = Busy(router.pc, router.msg)
BY DEF RouterStates, Idle, Busy

LEMMA ReleaseType ==
    ASSUME TypeOK, NEW S \in SUBSET Signals, Release(S)
    PROVE  /\ active' \in SUBSET Signals
           /\ position_lock' \in [Symbols -> Directions \cup {NoLock}]
           /\ cooldown' \in [Symbols \X Channels -> Nat]
<1>1. active' \in SUBSET Signals
    BY DEF TypeOK, Release
<1>2. position_lock' \in [Symbols -> Directions \cup {NoLock}]
    BY DEF TypeOK, Release
<1>3. cooldown' \in [Symbols \X Channels -> Nat]
    <2>1. \A k \in Symbols \X Channels : k[2] \in Channels
        OBVIOUS
    <2>2. \A k \in Symbols \X Channels :
              (IF \E s \in S : CooldownKey(s) = k THEN Cooldown[k[2]] ELSE cooldown[k]) \in Nat
        BY <2>1, LimitsAssumption DEF TypeOK
    <2> QED
        BY <2>2 DEF Release
<1> QED
    BY <1>1, <1>2, <1>3

-----------------------------------------------------------------------------
(* Every reachable state is a state of the program: the router holds a     *)
(* well-formed message, the queue stays within QUEUE_MAXSIZE although the  *)
(* router puts signals back, and the daily list within its limit.          *)
LEMMA InitType == Init => TypeOK
<1> SUFFICES ASSUME Init PROVE TypeOK
    OBVIOUS
<1>1. queue \in Seq(Message) /\ Len(queue) <= QueueMax
    BY LimitsAssumption DEF Init
<1>2. router \in RouterStates
    BY DEF Init, RouterStates
<1>3. daily_best \in Seq(Message) /\ Len(daily_best) <= free_limit /\ free_limit \in Nat
    BY LimitsAssumption DEF Init
<1>4. idle_polls \in 0..CleanupEvery
    BY LimitsAssumption DEF Init
<1>5. age \in [Signals -> 0..AgeCap]
    BY LimitsAssumption DEF Init
<1>6. ai_wired \in BOOLEAN /\ queue_has_timeout \in BOOLEAN
    BY LimitsAssumption DEF Init
<1> QED
    BY <1>1, <1>2, <1>3, <1>4, <1>5, <1>6 DEF Init, TypeOK

LEMMA NextType == TypeOK /\ [Next]_vars => TypeOK'
<1> SUFFICES ASSUME TypeOK, [Next]_vars PROVE TypeOK'
    OBVIOUS
<1> USE DEF queueVars, tradeVars, freeVars, wiring
<1>1. ASSUME NEW s \in Signals, Fire(s) PROVE TypeOK'
    <2>1. PICK c \in Confidence :
              queue' = Append(queue, [id |-> s, retries |-> 0, confidence |-> c])
        BY <1>1 DEF Fire
    <2>2. [id |-> s, retries |-> 0, confidence |-> c] \in Message
        BY LimitsAssumption DEF Message
    <2>3. queue' \in Seq(Message) /\ Len(queue') <= QueueMax
        BY <1>1, <2>1, <2>2, AppendProperties, LimitsAssumption DEF TypeOK, Fire
    <2>4. entered' \in [Signals -> Nat]
        BY <1>1 DEF TypeOK, Fire
    <2> QED
        BY <1>1, <2>3, <2>4 DEF TypeOK, Fire
<1>2. CASE Take
    <2>1. Head(queue) \in Message /\ Tail(queue) \in Seq(Message) /\ Len(Tail(queue)) <= QueueMax
        BY <1>2, HeadTailProperties, LimitsAssumption DEF TypeOK, Take
    <2>2. router' \in RouterStates
        BY <1>2, <2>1, RouterStateType DEF Take
    <2> QED
        BY <1>2, <2>1, <2>2 DEF TypeOK, Take
<1>3. CASE IdleTimeout
    <2>1. idle_polls' \in 0..CleanupEvery
        BY <1>3, LimitsAssumption DEF TypeOK, IdleTimeout
    <2>2. CASE idle_polls + 1 >= CleanupEvery
        <3>1. ExpiredIn(active) \in SUBSET Signals
            BY DEF TypeOK, ExpiredIn
        <3> QED
            BY <1>3, <2>1, <2>2, <3>1, ReleaseType DEF TypeOK, IdleTimeout
    <2>3. CASE ~ (idle_polls + 1 >= CleanupEvery)
        BY <1>3, <2>1, <2>3 DEF TypeOK, IdleTimeout
    <2> QED
        BY <2>2, <2>3
<1>4. CASE Enriched
    <2>1. PICK c \in Confidence : router' = AfterEnrichment([router.msg EXCEPT !.confidence = c])
        BY <1>4 DEF Enriched
    <2>2. [router.msg EXCEPT !.confidence = c] \in Message
        BY <1>4, BusyMessage DEF TypeOK, Enriched, Message
    <2> QED
        BY <1>4, <2>1, <2>2, RouterStateType DEF TypeOK, Enriched
<1>5. CASE Delivered
    <2> DEFINE m == router.msg
    <2>1. m \in Message /\ m.id \in Signals
        BY <1>5, BusyMessage DEF TypeOK, Delivered, Message
    <2>2. daily_best' \in Seq(Message) /\ Len(daily_best') <= free_limit
        BY <1>5, <2>1, RankedType, TrimmedType DEF TypeOK, Delivered
    <2>3. router' \in RouterStates
        BY <1>5, <2>1, RouterStateType DEF Delivered
    <2>4. position_lock' \in [Symbols -> Directions \cup {NoLock}]
        BY <1>5, <2>1, AttributesAssumption DEF TypeOK, Delivered
    <2> QED
        BY <1>5, <2>1, <2>2, <2>3, <2>4 DEF TypeOK, Delivered
<1>6. CASE DeliveryFailed
    <2> DEFINE m == router.msg
    <2>1. m \in Message
        BY <1>6, BusyMessage DEF TypeOK, DeliveryFailed
    <2>2. m.retries < MaxRetries => [m EXCEPT !.retries = @ + 1] \in Message
        BY <2>1, LimitsAssumption DEF Message
    <2>3. router' \in RouterStates
        BY <1>6, <2>1, <2>2, RouterStateType DEF DeliveryFailed
    <2> QED
        BY <1>6, <2>3 DEF TypeOK, DeliveryFailed
<1>7. CASE Requeue
    <2>1. router.msg \in Message
        BY <1>7, BusyMessage DEF TypeOK, Requeue
    <2>2. queue' \in Seq(Message) /\ Len(queue') <= QueueMax
        BY <1>7, <2>1, AppendProperties, LimitsAssumption DEF TypeOK, Requeue
    <2> QED
        BY <1>7, <2>2, RouterStateType, <2>1 DEF TypeOK, Requeue
<1>8. CASE PreviewDone
    <2>1. router' \in RouterStates
        BY <1>8 DEF PreviewDone, RouterStates
    <2>2. free_posted' \in BOOLEAN
        BY <1>8 DEF TypeOK, PreviewDone
    <2> QED
        BY <1>8, <2>1, <2>2 DEF TypeOK, PreviewDone
<1>9. ASSUME NEW s \in Signals, RemoveSignal(s) PROVE TypeOK'
    <2>1. {s} \in SUBSET Signals
        OBVIOUS
    <2> QED
        BY <1>9, <2>1, ReleaseType DEF TypeOK, RemoveSignal
<1>10. CASE CleanupExpired
    <2>1. ExpiredIn(active) \in SUBSET Signals
        BY DEF TypeOK, ExpiredIn
    <2> QED
        BY <1>10, <2>1, ReleaseType DEF TypeOK, CleanupExpired
<1>11. ASSUME NEW n \in FreeLimits, SetFreeLimit(n) PROVE TypeOK'
    <2>1. n \in Nat
        BY LimitsAssumption
    <2> QED
        BY <1>11, <2>1, TrimmedType DEF TypeOK, SetFreeLimit
<1>12. CASE NewDay
    BY <1>12 DEF TypeOK, NewDay
<1>13. CASE Tick
    <2>1. age' \in [Signals -> 0..AgeCap]
        BY <1>13, LimitsAssumption DEF TypeOK, Tick
    <2>2. cooldown' \in [Symbols \X Channels -> Nat]
        BY <1>13 DEF TypeOK, Tick
    <2> QED
        BY <1>13, <2>1, <2>2 DEF TypeOK, Tick
<1>14. CASE UNCHANGED vars
    BY <1>14 DEF TypeOK, vars
<1> QED
    BY <1>1, <1>2, <1>3, <1>4, <1>5, <1>6, <1>7, <1>8, <1>9, <1>10, <1>11, <1>12, <1>13, <1>14
    DEF Next, RouterStep

(* The program's variables keep their types in every reachable state.      *)
THEOREM TypeCorrect == Spec => []TypeOK
<1>1. Spec => Init /\ [][Next]_vars
    BY DEF Spec
<1> QED
    BY <1>1, InitType, NextType, PTL

-----------------------------------------------------------------------------
(* The inductive step of the safety invariants.                            *)

Positions == OnePositionPerSymbol /\ ChannelCapRespected /\ CorrelationLimitRespected

LEMMA InitPositions == Init => Positions /\ GatesStillHold
<1> SUFFICES ASSUME Init PROVE Positions /\ GatesStillHold
    OBVIOUS
<1>1. OnePositionPerSymbol
    BY DEF Init, OnePositionPerSymbol
<1>2. \A c \in Channels : InChannel(c) = {}
    BY DEF Init, InChannel
<1>3. \A g \in Groups, d \in Directions : SameSide(g, d) = {}
    BY DEF Init, SameSide
<1>4. ChannelCapRespected /\ CorrelationLimitRespected
    <2>1. Cardinality({}) = 0
        BY FS_EmptySet
    <2>2. ASSUME NEW c \in Channels PROVE Cardinality(InChannel(c)) <= ChannelMax[c]
        <3>1. Cardinality(InChannel(c)) = 0
            BY <1>2, <2>1, Zenon
        <3>2. ChannelMax[c] \in Nat
            BY LimitsAssumption
        <3> QED
            BY <3>1, <3>2
    <2>3. ASSUME NEW g \in Groups, NEW d \in Directions
          PROVE  Cardinality(SameSide(g, d)) <= MaxPerGroup
        <3>1. Cardinality(SameSide(g, d)) = 0
            BY <1>3, <2>1, Zenon
        <3> QED
            BY <3>1, LimitsAssumption
    <2> QED
        BY <2>2, <2>3 DEF ChannelCapRespected, CorrelationLimitRespected
<1>5. GatesStillHold
    BY DEF Init, GatesStillHold, AwaitsDelivery
<1> QED
    BY <1>1, <1>4, <1>5 DEF Positions

(* A step that leaves the positions alone keeps what is said of them.      *)
LEMMA PositionsUnchanged ==
    ASSUME Positions, UNCHANGED <<active, position_lock>>
    PROVE  Positions'
BY DEF Positions, OnePositionPerSymbol, ChannelCapRespected, CorrelationLimitRespected,
       InChannel, SameSide

(* The gates also survive when only the other variables change and a       *)
(* cooldown that was over stays over.                                      *)
LEMMA GatesUnchanged ==
    ASSUME GatesStillHold,
           UNCHANGED <<active, position_lock, router>>,
           TypeOK,
           \A k \in Symbols \X Channels : cooldown[k] = 0 => cooldown'[k] = 0
    PROVE  GatesStillHold'
<1> SUFFICES ASSUME AwaitsDelivery PROVE GatesStillHold'
    BY DEF GatesStillHold, AwaitsDelivery
<1> DEFINE s == router.msg.id
<1>1. s \in Signals
    BY BusyMessage DEF TypeOK, AwaitsDelivery, Message
<1>2. CooldownKey(s) \in Symbols \X Channels
    BY <1>1, AttributesAssumption DEF CooldownKey
<1>3. cooldown'[CooldownKey(s)] = 0
    BY <1>2 DEF GatesStillHold
<1>4. WithinCorrelationLimit(s)' /\ (Cardinality(InChannel(ChannelOf[s])) < ChannelMax[ChannelOf[s]])'
    BY DEF GatesStillHold, WithinCorrelationLimit, SameSide, InChannel
<1> QED
    BY <1>3, <1>4 DEF GatesStillHold, CooldownKey

(* Subsets of signals are finite, and losing members never enlarges them.  *)
LEMMA SmallerCounts ==
    ASSUME active \in SUBSET Signals, active' \in SUBSET active
    PROVE  /\ \A c \in Channels : Cardinality(InChannel(c))' <= Cardinality(InChannel(c))
           /\ \A g \in Groups, d \in Directions :
                  Cardinality(SameSide(g, d))' <= Cardinality(SameSide(g, d))
           /\ \A c \in Channels : Cardinality(InChannel(c)) \in Nat /\ Cardinality(InChannel(c))' \in Nat
           /\ \A g \in Groups, d \in Directions :
                  Cardinality(SameSide(g, d)) \in Nat /\ Cardinality(SameSide(g, d))' \in Nat
<1>1. IsFiniteSet(active)
    BY FinitenessAssumption, FS_Subset
<1>2. ASSUME NEW c \in Channels
      PROVE  /\ Cardinality(InChannel(c))' <= Cardinality(InChannel(c))
             /\ Cardinality(InChannel(c)) \in Nat /\ Cardinality(InChannel(c))' \in Nat
    <2>1. InChannel(c)' \in SUBSET InChannel(c) /\ InChannel(c) \in SUBSET active
        BY DEF InChannel
    <2>2. IsFiniteSet(InChannel(c))
        BY <1>1, <2>1, FS_Subset
    <2> QED
        BY <2>1, <2>2, FS_Subset, FS_CardinalityType
<1>3. ASSUME NEW g \in Groups, NEW d \in Directions
      PROVE  /\ Cardinality(SameSide(g, d))' <= Cardinality(SameSide(g, d))
             /\ Cardinality(SameSide(g, d)) \in Nat /\ Cardinality(SameSide(g, d))' \in Nat
    <2>1. SameSide(g, d)' \in SUBSET SameSide(g, d) /\ SameSide(g, d) \in SUBSET active
        BY DEF SameSide
    <2>2. IsFiniteSet(SameSide(g, d))
        BY <1>1, <2>1, FS_Subset
    <2> QED
        BY <2>1, <2>2, FS_Subset, FS_CardinalityType
<1> QED
    BY <1>2, <1>3

(* remove_signal and cleanup_expired: the lock of a removed signal is the  *)
(* one they free, and the cooldown they stamp is never the one the router  *)
(* has just checked, because its symbol was unlocked.                      *)
LEMMA ReleasePreserves ==
    ASSUME RouterInv, NEW S \in SUBSET active, Release(S), UNCHANGED router
    PROVE  Positions' /\ GatesStillHold'
<1> USE DEF RouterInv
<1>1. active \in SUBSET Signals /\ active' \in SUBSET active /\ active' = active \ S
    BY DEF TypeOK, Release
<1>2. \A x \in active : SymbolOf[x] \in Symbols /\ ChannelOf[x] \in Channels /\ DirectionOf[x] \in Directions
    BY <1>1, AttributesAssumption
<1>3. OnePositionPerSymbol'
    <2>1. \A x, y \in active' : SymbolOf[x] = SymbolOf[y] => x = y
        BY <1>1 DEF OnePositionPerSymbol
    <2>2. \A x \in active' : position_lock'[SymbolOf[x]] = DirectionOf[x]
        BY <1>1, <1>2 DEF OnePositionPerSymbol, Release
    <2>3. \A sym \in Symbols : position_lock'[sym] # NoLock => \E x \in active' : SymbolOf[x] = sym
        <3> SUFFICES ASSUME NEW sym \in Symbols, position_lock'[sym] # NoLock
                     PROVE  \E x \in active' : SymbolOf[x] = sym
            OBVIOUS
        <3>1. position_lock[sym] # NoLock /\ ~ \E x \in S : SymbolOf[x] = sym
            BY DEF Release
        <3> QED
            BY <1>1, <3>1 DEF OnePositionPerSymbol
    <2> QED
        BY <2>1, <2>2, <2>3 DEF OnePositionPerSymbol
<1>4. ChannelCapRespected' /\ CorrelationLimitRespected'
    <2>1. \A c \in Channels : Cardinality(InChannel(c))' <= ChannelMax[c]
        BY <1>1, SmallerCounts, LimitsAssumption DEF ChannelCapRespected
    <2>2. \A g \in Groups, d \in Directions : Cardinality(SameSide(g, d))' <= MaxPerGroup
        BY <1>1, SmallerCounts, LimitsAssumption DEF CorrelationLimitRespected
    <2> QED
        BY <2>1, <2>2 DEF ChannelCapRespected, CorrelationLimitRespected
<1>5. GatesStillHold'
    <2> SUFFICES ASSUME AwaitsDelivery PROVE GatesStillHold'
        BY DEF GatesStillHold, AwaitsDelivery
    <2> DEFINE s == router.msg.id
               c == ChannelOf[s]
    <2>1. /\ s \in Signals /\ SymbolOf[s] \in Symbols /\ c \in Channels
          /\ DirectionOf[s] \in Directions /\ GroupsOf[SymbolOf[s]] \in SUBSET Groups
        BY BusyMessage, AttributesAssumption DEF TypeOK, AwaitsDelivery, Message
    <2>2. /\ position_lock[SymbolOf[s]] = NoLock
          /\ cooldown[CooldownKey(s)] = 0
          /\ Cardinality(InChannel(c)) < ChannelMax[c]
          /\ WithinCorrelationLimit(s)
        BY DEF GatesStillHold
    <2>3. \A x \in S : SymbolOf[x] # SymbolOf[s]
        BY <1>2, <2>2, AttributesAssumption DEF OnePositionPerSymbol
    <2>4. position_lock'[SymbolOf[s]] = NoLock
        BY <2>1, <2>2 DEF Release
    <2>5. cooldown'[CooldownKey(s)] = 0
        BY <2>1, <2>2, <2>3 DEF Release, CooldownKey
    <2>6. Cardinality(InChannel(c))' < ChannelMax[c]
        BY <1>1, <2>1, <2>2, SmallerCounts, LimitsAssumption
    <2>7. \A g \in GroupsOf[SymbolOf[s]] : Cardinality(SameSide(g, DirectionOf[s]))' < MaxPerGroup
        <3> SUFFICES ASSUME NEW g \in GroupsOf[SymbolOf[s]]
                     PROVE  Cardinality(SameSide(g, DirectionOf[s]))' < MaxPerGroup
            OBVIOUS
        <3> DEFINE old == Cardinality(SameSide(g, DirectionOf[s]))
                   new == Cardinality(SameSide(g, DirectionOf[s]))'
        <3>1. g \in Groups /\ old < MaxPerGroup
            BY <2>1, <2>2 DEF WithinCorrelationLimit
        <3>2. old \in Nat /\ new \in Nat /\ new <= old
            BY <1>1, <2>1, <3>1, SmallerCounts
        <3> HIDE DEF old, new
        <3>3. new < MaxPerGroup
            BY <3>1, <3>2, LimitsAssumption
        <3> QED
            BY <3>3 DEF new
    <2>8. WithinCorrelationLimit(s)'
        BY <2>7 DEF WithinCorrelationLimit
    <2> QED
        BY <2>4, <2>5, <2>6, <2>8 DEF GatesStillHold, CooldownKey
<1> QED
    BY <1>3, <1>4, <1>5 DEF Positions

(* The delivery: the signal it registers still fits.                       *)
LEMMA DeliveredPreserves ==
    ASSUME RouterInv, Delivered
    PROVE  Positions' /\ GatesStillHold'
<1> USE DEF RouterInv
<1> DEFINE s == router.msg.id
<1>1. /\ s \in Signals /\ SymbolOf[s] \in Symbols /\ ChannelOf[s] \in Channels
      /\ DirectionOf[s] \in Directions /\ DirectionOf[s] # NoLock
    BY BusyMessage, AttributesAssumption DEF TypeOK, Delivered, Message
<1>2. AwaitsDelivery
    BY BusyMessage DEF Delivered, AwaitsDelivery, TypeOK
<1>3. /\ active' = active \cup {s}
      /\ position_lock' = [position_lock EXCEPT ![SymbolOf[s]] = DirectionOf[s]]
    BY DEF Delivered
<1>4. active \in SUBSET Signals /\ IsFiniteSet(active)
    BY FinitenessAssumption, FS_Subset DEF TypeOK
<1>5. position_lock[SymbolOf[s]] = NoLock
    BY <1>2 DEF GatesStillHold
<1>6. \A x \in active : SymbolOf[x] # SymbolOf[s]
    BY <1>4, <1>5, AttributesAssumption DEF OnePositionPerSymbol
<1>7. OnePositionPerSymbol'
    <2>1. \A x, y \in active' : SymbolOf[x] = SymbolOf[y] => x = y
        BY <1>3, <1>6 DEF OnePositionPerSymbol
    <2>2. \A x \in active' : position_lock'[SymbolOf[x]] = DirectionOf[x]
        BY <1>1, <1>3, <1>6 DEF OnePositionPerSymbol, TypeOK
    <2>3. \A sym \in Symbols : position_lock'[sym] # NoLock => \E x \in active' : SymbolOf[x] = sym
        BY <1>1, <1>3 DEF OnePositionPerSymbol, TypeOK
    <2> QED
        BY <2>1, <2>2, <2>3 DEF OnePositionPerSymbol
<1>8. ChannelCapRespected'
    <2> SUFFICES ASSUME NEW c \in Channels PROVE Cardinality(InChannel(c))' <= ChannelMax[c]
        BY DEF ChannelCapRespected
    <2>1. IsFiniteSet(InChannel(c)) /\ Cardinality(InChannel(c)) \in Nat /\ ChannelMax[c] \in Nat
        <3>1. InChannel(c) \in SUBSET active
            BY DEF InChannel
        <3> QED
            BY <1>4, <3>1, FS_Subset, FS_CardinalityType, LimitsAssumption
    <2>2. CASE c = ChannelOf[s]
        <3>1. InChannel(c)' = InChannel(c) \cup {s}
            BY <1>3, <2>2 DEF InChannel
        <3>2. Cardinality(InChannel(c)) < ChannelMax[c]
            BY <1>2, <2>2 DEF GatesStillHold
        <3>3. s \notin InChannel(c)
            BY <1>6 DEF InChannel
        <3>4. Cardinality(InChannel(c) \cup {s}) = Cardinality(InChannel(c)) + 1
            BY <2>1, <3>3, FS_AddElement
        <3> QED
            BY <2>1, <3>1, <3>2, <3>4
    <2>3. CASE c # ChannelOf[s]
        <3>1. InChannel(c)' = InChannel(c)
            BY <1>3, <2>3 DEF InChannel
        <3> QED
            BY <3>1 DEF ChannelCapRespected
    <2> QED
        BY <2>2, <2>3
<1>9. CorrelationLimitRespected'
    <2> SUFFICES ASSUME NEW g \in Groups, NEW d \in Directions
                 PROVE  Cardinality(SameSide(g, d))' <= MaxPerGroup
        BY DEF CorrelationLimitRespected
    <2>1. IsFiniteSet(SameSide(g, d)) /\ Cardinality(SameSide(g, d)) \in Nat /\ MaxPerGroup \in Nat
        <3>1. SameSide(g, d) \in SUBSET active
            BY DEF SameSide
        <3> QED
            BY <1>4, <3>1, FS_Subset, FS_CardinalityType, LimitsAssumption
    <2>2. CASE g \in GroupsOf[SymbolOf[s]] /\ d = DirectionOf[s]
        <3>1. SameSide(g, d)' = SameSide(g, d) \cup {s}
            BY <1>3, <2>2 DEF SameSide
        <3>2. Cardinality(SameSide(g, d)) < MaxPerGroup
            BY <1>2, <2>2 DEF GatesStillHold, WithinCorrelationLimit
        <3>3. s \notin SameSide(g, d)
            BY <1>6 DEF SameSide
        <3>4. Cardinality(SameSide(g, d) \cup {s}) = Cardinality(SameSide(g, d)) + 1
            BY <2>1, <3>3, FS_AddElement
        <3> QED
            BY <2>1, <3>1, <3>2, <3>4
    <2>3. CASE ~ (g \in GroupsOf[SymbolOf[s]] /\ d = DirectionOf[s])
        <3>1. SameSide(g, d)' = SameSide(g, d)
            BY <1>3, <2>3 DEF SameSide
        <3> QED
            BY <3>1 DEF CorrelationLimitRespected
    <2> QED
        BY <2>2, <2>3
<1>10. GatesStillHold'
    <2>1. router' = Idle \/ router'.pc = "free"
        BY DEF Delivered, Busy
    <2> QED
        BY <2>1 DEF GatesStillHold, AwaitsDelivery
<1> QED
    BY <1>7, <1>8, <1>9, <1>10 DEF Positions

(* Every step keeps the inductive invariant: Take establishes the gates,   *)
(* Delivered and the removals are the lemmas above, every other step       *)
(* leaves the positions alone and can only shorten a cooldown.             *)
LEMMA NextInv == RouterInv /\ [Next]_vars => RouterInv'
<1> SUFFICES ASSUME RouterInv, [Next]_vars PROVE RouterInv'
    OBVIOUS
<1> USE DEF queueVars, tradeVars, freeVars, wiring
<1>1. TypeOK /\ Positions /\ GatesStillHold /\ TypeOK'
    BY NextType DEF RouterInv, Positions
<1>2. SUFFICES Positions' /\ GatesStillHold'
    BY <1>1 DEF RouterInv, Positions
<1>3. ASSUME UNCHANGED <<active, position_lock, router, cooldown>>
      PROVE  Positions' /\ GatesStillHold'
    BY <1>1, <1>3, PositionsUnchanged, GatesUnchanged
<1>4. ASSUME UNCHANGED <<active, position_lock>>,
             router' = Idle \/ router'.pc \in {"backoff", "free"}
      PROVE  Positions' /\ GatesStillHold'
    <2>1. Positions'
        BY <1>1, <1>4, PositionsUnchanged
    <2>2. ~ AwaitsDelivery'
        BY <1>4 DEF AwaitsDelivery
    <2> QED
        BY <2>1, <2>2 DEF GatesStillHold
<1>5. ASSUME NEW s \in Signals, Fire(s) PROVE Positions' /\ GatesStillHold'
    BY <1>3, <1>5 DEF Fire
<1>6. CASE Take
    <2>1. UNCHANGED <<active, position_lock, cooldown>>
        BY <1>6 DEF Take
    <2> DEFINE m == Head(queue)
    <2>2. CASE router' = Idle
        BY <1>4, <2>1, <2>2
    <2>3. CASE router' # Idle
        <3>1. Admissible(m.id) /\ router'.msg = m
            BY <1>6, <2>3 DEF Take, Busy, AfterEnrichment
        <3>2. GatesStillHold'
            BY <2>1, <3>1 DEF GatesStillHold, Admissible, WithinCorrelationLimit, CooldownKey,
                InChannel, SameSide
        <3> QED
            BY <1>1, <2>1, <3>2, PositionsUnchanged
    <2> QED
        BY <2>2, <2>3
<1>7. CASE IdleTimeout
    <2>1. CASE idle_polls + 1 >= CleanupEvery
        <3>1. ExpiredIn(active) \in SUBSET active
            BY DEF ExpiredIn
        <3> QED
            BY <1>7, <2>1, <3>1, ReleasePreserves DEF IdleTimeout
    <2>2. CASE ~ (idle_polls + 1 >= CleanupEvery)
        BY <1>3, <1>7, <2>2 DEF IdleTimeout
    <2> QED
        BY <2>1, <2>2
<1>8. CASE Enriched
    <2>1. PICK c \in Confidence : router' = AfterEnrichment([router.msg EXCEPT !.confidence = c])
        BY <1>8 DEF Enriched
    <2>2. UNCHANGED <<active, position_lock, cooldown>>
        BY <1>8 DEF Enriched
    <2>3. CASE router' = Idle
        BY <1>4, <2>2, <2>3
    <2>4. CASE router' # Idle
        <3>1. router.msg \in Message /\ AwaitsDelivery
            BY <1>1, <1>8, BusyMessage DEF TypeOK, Enriched, AwaitsDelivery
        <3>2. router'.msg.id = router.msg.id
            BY <2>1, <2>4, <3>1 DEF AfterEnrichment, Busy, Message
        <3>3. GatesStillHold'
            BY <1>1, <2>2, <3>1, <3>2 DEF GatesStillHold, WithinCorrelationLimit, CooldownKey,
                InChannel, SameSide
        <3> QED
            BY <1>1, <2>2, <3>3, PositionsUnchanged
    <2> QED
        BY <2>3, <2>4
<1>9. CASE Delivered
    BY <1>9, DeliveredPreserves
<1>10. CASE DeliveryFailed
    BY <1>4, <1>10 DEF DeliveryFailed, Busy
<1>11. CASE Requeue
    BY <1>4, <1>11 DEF Requeue
<1>12. CASE PreviewDone
    BY <1>4, <1>12 DEF PreviewDone
<1>13. ASSUME NEW s \in Signals, RemoveSignal(s) PROVE Positions' /\ GatesStillHold'
    BY <1>13, ReleasePreserves DEF RemoveSignal
<1>14. CASE CleanupExpired
    <2>1. ExpiredIn(active) \in SUBSET active
        BY DEF ExpiredIn
    <2> QED
        BY <1>14, <2>1, ReleasePreserves DEF CleanupExpired
<1>15. ASSUME NEW n \in FreeLimits, SetFreeLimit(n) PROVE Positions' /\ GatesStillHold'
    BY <1>3, <1>15 DEF SetFreeLimit
<1>16. CASE NewDay
    BY <1>3, <1>16 DEF NewDay
<1>17. CASE Tick
    <2>1. UNCHANGED <<active, position_lock, router>>
        BY <1>17 DEF Tick
    <2>2. \A k \in Symbols \X Channels : cooldown[k] = 0 => cooldown'[k] = 0
        BY <1>17 DEF Tick
    <2> QED
        BY <1>1, <2>1, <2>2, PositionsUnchanged, GatesUnchanged
<1>18. CASE UNCHANGED vars
    BY <1>3, <1>18 DEF vars
<1> QED
    BY <1>5, <1>6, <1>7, <1>8, <1>9, <1>10, <1>11, <1>12, <1>13, <1>14, <1>15, <1>16, <1>17, <1>18
    DEF Next, RouterStep

LEMMA InvariantHolds == Spec => []RouterInv
<1>1. Init => RouterInv
    BY InitType, InitPositions DEF RouterInv, Positions
<1> QED
    BY <1>1, NextInv, PTL DEF Spec

(* No interleaving of the router's awaits with removals, cleanups and      *)
(* duplicated deliveries trades a symbol twice or leaves it locked without *)
(* a position.                                                             *)
THEOREM PositionsExclusive == Spec => []OnePositionPerSymbol
<1>1. RouterInv => OnePositionPerSymbol
    BY DEF RouterInv
<1> QED
    BY <1>1, InvariantHolds, PTL

(* The concurrency cap of every channel holds although it is checked       *)
(* before the awaits and used after them.                                  *)
THEOREM ChannelCapHolds == Spec => []ChannelCapRespected
<1>1. RouterInv => ChannelCapRespected
    BY DEF RouterInv
<1> QED
    BY <1>1, InvariantHolds, PTL

(* So does the limit on correlated positions of one direction.             *)
THEOREM CorrelationLimitHolds == Spec => []CorrelationLimitRespected
<1>1. RouterInv => CorrelationLimitRespected
    BY DEF RouterInv
<1> QED
    BY <1>1, InvariantHolds, PTL

(* Only a delivery registers a signal, and its cooldown gate still holds.  *)
LEMMA StepRespectsCooldown ==
    RouterInv /\ [Next]_vars => [\A s \in active' \ active : cooldown[CooldownKey(s)] = 0]_vars
<1> SUFFICES ASSUME RouterInv, Next, NEW s \in active' \ active
             PROVE  cooldown[CooldownKey(s)] = 0
    OBVIOUS
<1>1. Delivered
    BY DEF Next, RouterStep, Fire, Take, IdleTimeout, Enriched, DeliveryFailed, Requeue, PreviewDone,
        RemoveSignal, CleanupExpired, SetFreeLimit, NewDay, Tick, Release, tradeVars
<1>2. AwaitsDelivery /\ s = router.msg.id
    BY <1>1, BusyMessage DEF Delivered, AwaitsDelivery, RouterInv, TypeOK
<1> QED
    BY <1>2 DEF RouterInv, GatesStillHold

(* A symbol is never entered again while its (symbol, channel) cools down, *)
(* however long the delivery took.                                         *)
THEOREM CooldownHolds == Spec => CooldownRespected
BY InvariantHolds, StepRespectsCooldown, PTL DEF Spec, CooldownRespected

-----------------------------------------------------------------------------
(* A channel whose copies are stale by the time a trade may be closed.     *)
StaleFirst(s) == StaleAfter[ChannelOf[s]] < MinLifespan[ChannelOf[s]]

(* The inductive invariant behind NeverAnnouncedTwice: an announced signal *)
(* of such a channel is still active, or too old for the stale gate, and   *)
(* the router never awaits the delivery of one.                            *)
AnnouncedInv ==
    /\ \A s \in announced : StaleFirst(s) => s \in active \/ age[s] > StaleAfter[ChannelOf[s]]
    /\ AwaitsDelivery => router.msg.id \notin announced \/ ~ StaleFirst(router.msg.id)

(* Removing signals that may be closed or have expired: they are stale.    *)
LEMMA RemovedAreStale ==
    ASSUME RouterInv, AnnouncedInv, NEW S \in SUBSET active, Release(S),
           \A s \in S : age[s] >= MinLifespan[ChannelOf[s]],
           UNCHANGED <<router, age, announced>>
    PROVE  AnnouncedInv'
<1>1. active' = active \ S /\ AwaitsDelivery' = AwaitsDelivery
    BY DEF Release, AwaitsDelivery
<1>2. ASSUME NEW s \in S, StaleFirst(s) PROVE age[s] > StaleAfter[ChannelOf[s]]
    <2>1. s \in Signals /\ ChannelOf[s] \in Channels
        BY AttributesAssumption DEF RouterInv, TypeOK
    <2>2. age[s] \in Int /\ StaleAfter[ChannelOf[s]] \in Int /\ MinLifespan[ChannelOf[s]] \in Int
        BY <2>1, LimitsAssumption, LifespanAssumption DEF RouterInv, TypeOK
    <2> QED
        BY <1>2, <2>2 DEF StaleFirst
<1> QED
    BY <1>1, <1>2 DEF AnnouncedInv, StaleFirst

(* An expired signal has lived as long as a closed one has to.             *)
LEMMA ExpiredHaveLived ==
    ASSUME RouterInv
    PROVE  /\ ExpiredIn(active) \in SUBSET active
           /\ \A s \in ExpiredIn(active) : age[s] >= MinLifespan[ChannelOf[s]]
<1> SUFFICES ASSUME NEW s \in ExpiredIn(active) PROVE age[s] >= MinLifespan[ChannelOf[s]]
    BY DEF ExpiredIn
<1>1. s \in Signals /\ ChannelOf[s] \in Channels /\ age[s] >= MaxHold[ChannelOf[s]]
    BY AttributesAssumption DEF RouterInv, TypeOK, ExpiredIn
<1>2. /\ age[s] \in Int /\ MaxHold[ChannelOf[s]] \in Int
      /\ MinLifespan[ChannelOf[s]] \in Int /\ MinLifespan[ChannelOf[s]] <= MaxHold[ChannelOf[s]]
    BY <1>1, LimitsAssumption, LifespanAssumption DEF RouterInv, TypeOK
<1> QED
    BY <1>1, <1>2

(* Every step keeps it: Take turns away what is locked or stale, Delivered *)
(* announces what is active from then on, and ages only grow.              *)
LEMMA AnnouncedStep == RouterInv /\ AnnouncedInv /\ [Next]_vars => AnnouncedInv'
<1> SUFFICES ASSUME RouterInv, AnnouncedInv, [Next]_vars PROVE AnnouncedInv'
    OBVIOUS
<1> USE DEF queueVars, tradeVars, freeVars, wiring
<1>0. active \in SUBSET Signals /\ TypeOK
    BY DEF RouterInv, TypeOK
<1>1. ASSUME UNCHANGED <<active, age, announced>>,
             router' = router \/ router' = Idle \/ router'.pc \in {"backoff", "free"}
      PROVE  AnnouncedInv'
    BY <1>1 DEF AnnouncedInv, AwaitsDelivery
<1>2. ASSUME UNCHANGED <<active, age, announced>>,
             router' # Idle => /\ router'.msg.id \notin announced \/ ~ StaleFirst(router'.msg.id)
      PROVE  AnnouncedInv'
    BY <1>2 DEF AnnouncedInv, AwaitsDelivery
<1>3. CASE (\E s \in Signals : Fire(s)) \/ (\E n \in FreeLimits : SetFreeLimit(n)) \/ NewDay \/ UNCHANGED vars
    <2>1. UNCHANGED <<active, age, announced, router>>
        BY <1>3 DEF Fire, SetFreeLimit, NewDay, vars
    <2> QED
        BY <1>1, <2>1
<1>4. CASE DeliveryFailed \/ Requeue \/ PreviewDone
    BY <1>1, <1>4 DEF DeliveryFailed, Requeue, PreviewDone, Busy
<1>5. CASE Take
    <2> DEFINE m == Head(queue)
    <2>1. UNCHANGED <<active, age, announced>>
        BY <1>5 DEF Take
    <2>2. ASSUME router' # Idle
          PROVE  router'.msg.id \notin announced \/ ~ StaleFirst(router'.msg.id)
        <3>1. Admissible(m.id) /\ router'.msg = m
            BY <1>5, <2>2 DEF Take, Busy, AfterEnrichment
        <3>2. m.id \in Signals /\ ChannelOf[m.id] \in Channels /\ DirectionOf[m.id] # NoLock
            <4>1. m \in Message
                BY <1>0, <1>5, HeadTailProperties DEF Take, TypeOK
            <4> QED
                BY <4>1, AttributesAssumption DEF Message
        <3>3. m.id \notin active
            BY <3>1, <3>2 DEF Admissible, RouterInv, OnePositionPerSymbol
        <3>4. ~ (age[m.id] > StaleAfter[ChannelOf[m.id]])
            BY <1>0, <3>1, <3>2, LimitsAssumption DEF Admissible, Fresh, TypeOK
        <3> QED
            BY <3>1, <3>3, <3>4 DEF AnnouncedInv
    <2> QED
        BY <1>2, <2>1, <2>2
<1>6. CASE Enriched
    <2>1. UNCHANGED <<active, age, announced>>
        BY <1>6 DEF Enriched
    <2>2. AwaitsDelivery /\ router.msg \in Message
        BY <1>0, <1>6, BusyMessage DEF Enriched, AwaitsDelivery, TypeOK
    <2>3. router' # Idle => router'.msg.id = router.msg.id
        BY <1>6, <2>2 DEF Enriched, AfterEnrichment, Busy, Message
    <2> QED
        BY <1>2, <2>1, <2>2, <2>3 DEF AnnouncedInv
<1>7. CASE Delivered
    <2>1. /\ active' = active \cup {router.msg.id} /\ announced' = announced \cup {router.msg.id}
          /\ age' = age /\ (router' = Idle \/ router'.pc = "free")
        BY <1>7 DEF Delivered, Busy
    <2> QED
        BY <2>1 DEF AnnouncedInv, AwaitsDelivery
<1>8. ASSUME NEW s \in Signals, RemoveSignal(s) PROVE AnnouncedInv'
    <2>1. {s} \in SUBSET active /\ \A x \in {s} : age[x] >= MinLifespan[ChannelOf[x]]
        BY <1>8 DEF RemoveSignal
    <2>2. Release({s}) /\ UNCHANGED <<router, age, announced>>
        BY <1>8 DEF RemoveSignal
    <2> QED
        BY <2>1, <2>2, RemovedAreStale
<1>9. CASE CleanupExpired
    BY <1>9, ExpiredHaveLived, RemovedAreStale DEF CleanupExpired
<1>10. CASE IdleTimeout
    <2>1. CASE Release(ExpiredIn(active))
        BY <1>10, <2>1, ExpiredHaveLived, RemovedAreStale DEF IdleTimeout
    <2>2. CASE UNCHANGED tradeVars
        BY <1>1, <1>10, <2>2 DEF IdleTimeout
    <2> QED
        BY <1>10, <2>1, <2>2 DEF IdleTimeout
<1>11. CASE Tick
    <2>1. UNCHANGED <<active, announced, router>>
        BY <1>11 DEF Tick
    <2>2. ASSUME NEW s \in announced, age[s] > StaleAfter[ChannelOf[s]]
          PROVE  age'[s] > StaleAfter[ChannelOf[s]]
        <3>1. s \in Signals /\ ChannelOf[s] \in Channels
            BY <1>0, AttributesAssumption DEF TypeOK
        <3>2. age[s] \in Int /\ StaleAfter[ChannelOf[s]] \in Int
            BY <1>0, <3>1, LimitsAssumption DEF TypeOK
        <3>3. age'[s] = age[s] \/ age'[s] = age[s] + 1
            BY <1>11, <3>1 DEF Tick
        <3> QED
            BY <2>2, <3>2, <3>3
    <2> QED
        BY <2>1, <2>2 DEF AnnouncedInv, AwaitsDelivery
<1> QED
    BY <1>3, <1>4, <1>5, <1>6, <1>7, <1>8, <1>9, <1>10, <1>11 DEF Next, RouterStep

(* The second announcement of a signal would be a delivery the router      *)
(* awaited although the signal had been announced.                         *)
LEMMA StepAnnouncesOnce ==
    RouterInv /\ AnnouncedInv /\ [Next]_vars
      => [\A s \in (active' \ active) \cap announced :
            StaleAfter[ChannelOf[s]] >= MinLifespan[ChannelOf[s]]]_vars
<1> SUFFICES ASSUME RouterInv, AnnouncedInv, Next, NEW s \in (active' \ active) \cap announced
             PROVE  StaleAfter[ChannelOf[s]] >= MinLifespan[ChannelOf[s]]
    OBVIOUS
<1>1. Delivered
    BY DEF Next, RouterStep, Fire, Take, IdleTimeout, Enriched, DeliveryFailed, Requeue, PreviewDone,
        RemoveSignal, CleanupExpired, SetFreeLimit, NewDay, Tick, Release, tradeVars
<1>2. AwaitsDelivery /\ s = router.msg.id /\ s \in Signals
    BY <1>1, BusyMessage DEF Delivered, AwaitsDelivery, RouterInv, TypeOK
<1>3. ~ StaleFirst(s)
    BY <1>2 DEF AnnouncedInv
<1>4. StaleAfter[ChannelOf[s]] \in Int /\ MinLifespan[ChannelOf[s]] \in Int
    BY <1>2, AttributesAssumption, LimitsAssumption, LifespanAssumption
<1> QED
    BY <1>3, <1>4 DEF StaleFirst

(* No signal is announced twice on a channel whose copies turn stale       *)
(* before a trade may be closed, however often the queue hands it out and  *)
(* however its retries interleave with the removals.                       *)
THEOREM AnnouncedOnceHolds == Spec => NeverAnnouncedTwice
<1>1. Init => AnnouncedInv
    BY DEF Init, AnnouncedInv, AwaitsDelivery
<1> QED
    BY <1>1, AnnouncedStep, StepAnnouncesOnce, InvariantHolds, PTL DEF Spec, NeverAnnouncedTwice
=============================================================================
