------------------------ MODULE CircuitBreakerProofs ------------------------
(***************************************************************************)
(* The circuit breaker for any symbols, jobs, thresholds, windows and      *)
(* results.  The inductive invariant is BreakerInv; what needs an argument *)
(* is that pruning and ageing never make the rolling window worse.         *)
(***************************************************************************)
EXTENDS CircuitBreaker, FiniteSetTheorems, SequenceTheorems, TLAPS

Losses(w) == {i \in DOMAIN w : w[i].loss /\ w[i].age <= Hour}

Old(w) == {i \in DOMAIN w : w[i].age > Day}

(* No worse: what the thresholds see of w2 they also see of w1.            *)
NoWorse(w1, w2) == LossConditionsActive(w2) => LossConditionsActive(w1)

LEMMA LossesFinite ==
    ASSUME NEW w \in Seq(Outcomes)
    PROVE  /\ DOMAIN w = 1..Len(w) /\ Len(w) \in Nat
           /\ IsFiniteSet(Losses(w)) /\ Cardinality(Losses(w)) \in Nat
           /\ IsFiniteSet(Old(w)) /\ Cardinality(Old(w)) \in 0..Len(w)
           /\ HourlyLosses(w) = Cardinality(Losses(w))
<1>1. DOMAIN w = 1..Len(w) /\ Len(w) \in Nat
    BY LenProperties
<1>2. IsFiniteSet(1..Len(w)) /\ Cardinality(1..Len(w)) = Len(w)
    BY <1>1, FS_Interval
<1>3. Losses(w) \in SUBSET (1..Len(w)) /\ Old(w) \in SUBSET (1..Len(w))
    BY <1>1 DEF Losses, Old
<1>4. IsFiniteSet(Losses(w)) /\ IsFiniteSet(Old(w)) /\ Cardinality(Old(w)) <= Len(w)
    BY <1>2, <1>3, FS_Subset
<1>5. Cardinality(Losses(w)) \in Nat /\ Cardinality(Old(w)) \in Nat
    BY <1>4, FS_CardinalityType
<1> QED
    BY <1>1, <1>4, <1>5 DEF HourlyLosses, Losses

LEMMA PrunedWindow ==
    ASSUME NEW w \in Seq(Outcomes)
    PROVE  /\ Pruned(w) \in Seq(Outcomes)
           /\ Len(Pruned(w)) = Len(w) - Cardinality(Old(w))
           /\ \A i \in 1..Len(Pruned(w)) : Pruned(w)[i] = w[i + Cardinality(Old(w))]
<1> DEFINE k == Cardinality(Old(w))
<1>1. DOMAIN w = 1..Len(w) /\ Len(w) \in Nat /\ k \in 0..Len(w)
    BY LossesFinite
<1>2. Pruned(w) = SubSeq(w, 1 + k, Len(w))
    BY DEF Pruned, Old
<1> HIDE DEF k
<1>3. \A i \in (1 + k)..Len(w) : w[i] \in Outcomes
    BY <1>1, ElementOfSeq
<1>4. /\ SubSeq(w, 1 + k, Len(w)) \in Seq(Outcomes)
      /\ Len(SubSeq(w, 1 + k, Len(w))) = IF 1 + k <= Len(w) THEN Len(w) - (1 + k) + 1 ELSE 0
      /\ \A i \in 1..(Len(w) - (1 + k) + 1) : SubSeq(w, 1 + k, Len(w))[i] = w[1 + k + i - 1]
    <2>1. 1 + k \in Int /\ Len(w) \in Int
        BY <1>1
    <2> QED
        BY <2>1, <1>3, SubSeqProperties
<1> DEFINE q == SubSeq(w, 1 + k, Len(w))
           n == Len(w)
<1>5. /\ Len(q) = IF 1 + k <= n THEN n - (1 + k) + 1 ELSE 0
      /\ \A i \in 1..(n - (1 + k) + 1) : q[i] = w[1 + k + i - 1]
      /\ n \in Nat /\ k \in 0..n
    BY <1>1, <1>4
<1> HIDE DEF q, n
<1>6. Len(q) = n - k
    BY <1>5
<1>7. \A i \in 1..Len(q) : q[i] = w[i + k]
    <2> TAKE i \in 1..Len(q)
    <2>1. i \in 1..(n - (1 + k) + 1) /\ 1 + k + i - 1 = i + k
        BY <1>5, <1>6
    <2> QED
        BY <1>5, <2>1
<1> QED
    BY <1>2, <1>4, <1>6, <1>7 DEF k, q, n

LEMMA PruningIsNoWorse ==
    ASSUME NEW w \in Seq(Outcomes)
    PROVE  NoWorse(w, Pruned(w))
<1> DEFINE k == Cardinality(Old(w))
           p == Pruned(w)
           f == [i \in Losses(p) |-> i + k]
<1>1. /\ DOMAIN w = 1..Len(w) /\ Len(w) \in Nat /\ k \in 0..Len(w)
      /\ IsFiniteSet(Losses(w)) /\ Cardinality(Losses(w)) \in Nat
      /\ HourlyLosses(w) = Cardinality(Losses(w))
    BY LossesFinite
<1>2. /\ p \in Seq(Outcomes) /\ Len(p) = Len(w) - k
      /\ \A i \in 1..Len(p) : p[i] = w[i + k]
    BY PrunedWindow
<1>3. /\ DOMAIN p = 1..Len(p) /\ Cardinality(Losses(p)) \in Nat
      /\ HourlyLosses(p) = Cardinality(Losses(p))
    BY <1>2, LossesFinite
<1> HIDE DEF k, p
<1>4. \A i \in DOMAIN p : i + k \in DOMAIN w /\ p[i] = w[i + k] /\ i \in Int
    BY <1>1, <1>2, <1>3
<1>5. DrawdownExceeded(p) => DrawdownExceeded(w)
    BY <1>4 DEF DrawdownExceeded
<1>6. \A i \in Losses(p) : i + k \in Losses(w) /\ i \in Int
    BY <1>4 DEF Losses
<1>7. f \in [Losses(p) -> Losses(w)]
    BY <1>6
<1>8. \A i, j \in Losses(p) : f[i] = f[j] => i = j
    BY <1>1, <1>6
<1>9. f \in Injection(Losses(p), Losses(w))
    BY <1>7, <1>8 DEF Injection, IsInjective
<1>10. Cardinality(Losses(p)) <= Cardinality(Losses(w))
    BY <1>1, <1>9, FS_Injection
<1>11. MaxHourly \in Nat
    BY BreakerAssumption
<1>12. HourlyLosses(p) >= MaxHourly => HourlyLosses(w) >= MaxHourly
    BY <1>1, <1>3, <1>10, <1>11
<1> QED
    BY <1>5, <1>12 DEF NoWorse, LossConditionsActive, p

(* What the clock does to the window.                                      *)
Aged(w) == [i \in DOMAIN w |-> [w[i] EXCEPT !.age = Older(@, 1 + Day)]]

LEMMA AgedWindow ==
    ASSUME NEW w \in Seq(Outcomes)
    PROVE  /\ Aged(w) \in Seq(Outcomes) /\ Len(Aged(w)) = Len(w)
           /\ DOMAIN Aged(w) = DOMAIN w
           /\ \A i \in DOMAIN w :
                  /\ Aged(w)[i].loss = w[i].loss /\ Aged(w)[i].before = w[i].before
                  /\ Aged(w)[i].age \in Nat /\ w[i].age \in Nat /\ Aged(w)[i].age >= w[i].age
<1>1. DOMAIN w = 1..Len(w) /\ Len(w) \in Nat /\ \A i \in DOMAIN w : w[i] \in Outcomes
    BY LenProperties, ElementOfSeq
<1>2. Day \in Nat
    BY BreakerAssumption
<1>3. \A i \in DOMAIN w : w[i].age \in Nat /\ Older(w[i].age, 1 + Day) \in Nat
                          /\ Older(w[i].age, 1 + Day) >= w[i].age
    BY <1>1, <1>2 DEF Outcomes, Older
<1>4. \A i \in DOMAIN w : [w[i] EXCEPT !.age = Older(@, 1 + Day)] \in Outcomes
    BY <1>1, <1>3 DEF Outcomes
<1>5. Aged(w) \in [1..Len(w) -> Outcomes]
    BY <1>1, <1>4 DEF Aged
<1>6. Aged(w) \in Seq(Outcomes) /\ Len(Aged(w)) = Len(w)
    BY <1>1, <1>5
<1>7. \A i \in DOMAIN w : Aged(w)[i] = [w[i] EXCEPT !.age = Older(@, 1 + Day)]
    BY DEF Aged
<1>8. \A i \in DOMAIN w : /\ Aged(w)[i].loss = w[i].loss /\ Aged(w)[i].before = w[i].before
                          /\ Aged(w)[i].age = Older(w[i].age, 1 + Day)
    BY <1>1, <1>7 DEF Outcomes
<1> QED
    BY <1>1, <1>3, <1>5, <1>6, <1>8

LEMMA AgeingIsNoWorse ==
    ASSUME NEW w \in Seq(Outcomes)
    PROVE  NoWorse(w, Aged(w))
<1>1. Hour \in Nat /\ Day \in Nat /\ MaxHourly \in Nat
    BY BreakerAssumption
<1>2. /\ Aged(w) \in Seq(Outcomes) /\ DOMAIN Aged(w) = DOMAIN w
      /\ \A i \in DOMAIN w :
             /\ Aged(w)[i].loss = w[i].loss /\ Aged(w)[i].before = w[i].before
             /\ Aged(w)[i].age \in Nat /\ w[i].age \in Nat /\ Aged(w)[i].age >= w[i].age
    BY AgedWindow
<1>3. DrawdownExceeded(Aged(w)) => DrawdownExceeded(w)
    BY <1>1, <1>2 DEF DrawdownExceeded
<1>4. Losses(Aged(w)) \in SUBSET Losses(w)
    BY <1>1, <1>2 DEF Losses
<1>5. /\ IsFiniteSet(Losses(w)) /\ Cardinality(Losses(w)) \in Nat
      /\ HourlyLosses(w) = Cardinality(Losses(w))
      /\ HourlyLosses(Aged(w)) = Cardinality(Losses(Aged(w)))
      /\ Cardinality(Losses(Aged(w))) \in Nat
    BY <1>2, LossesFinite
<1>6. Cardinality(Losses(Aged(w))) <= Cardinality(Losses(w))
    BY <1>4, <1>5, FS_Subset
<1>7. HourlyLosses(Aged(w)) >= MaxHourly => HourlyLosses(w) >= MaxHourly
    BY <1>1, <1>5, <1>6
<1> QED
    BY <1>3, <1>7 DEF NoWorse, LossConditionsActive

LEMMA EmptyWindowIsSafe == ~ LossConditionsActive(<<>>)
<1>1. DOMAIN <<>> = {}
    OBVIOUS
<1>2. {i \in DOMAIN <<>> : <<>>[i].loss /\ <<>>[i].age <= Hour} = {}
    BY <1>1
<1>3. HourlyLosses(<<>>) = 0
    BY <1>2, FS_EmptySet DEF HourlyLosses
<1>4. MaxHourly \in Nat \ {0}
    BY BreakerAssumption
<1> QED
    BY <1>1, <1>3, <1>4 DEF LossConditionsActive, DrawdownExceeded

LEMMA RecordedWindow ==
    ASSUME NEW w \in Seq(Outcomes), Len(w) <= MaxOutcomes, NEW loss \in BOOLEAN, NEW pnl \in Int
    PROVE  Recorded(w, loss, pnl) \in Seq(Outcomes) /\ Len(Recorded(w, loss, pnl)) <= MaxOutcomes
<1> DEFINE kept == IF Len(w) < MaxOutcomes THEN w ELSE Tail(w)
           changed == [i \in DOMAIN kept |-> [kept[i] EXCEPT !.before = @ - pnl]]
           new == [loss |-> loss, age |-> 0, before |-> - pnl]
<1>1. MaxOutcomes \in Nat \ {0} /\ Len(w) \in Nat
    BY BreakerAssumption, LenProperties
<1>2. kept \in Seq(Outcomes) /\ Len(kept) \in Nat /\ Len(kept) < MaxOutcomes
    <2>1. CASE Len(w) < MaxOutcomes
        BY <1>1, <2>1
    <2>2. CASE ~ Len(w) < MaxOutcomes
        <3>1. w # <<>>
            BY <1>1, <2>2, EmptySeq
        <3>2. Tail(w) \in Seq(Outcomes) /\ Len(Tail(w)) = Len(w) - 1
            BY <3>1, HeadTailProperties
        <3> QED
            BY <1>1, <2>2, <3>2
    <2> QED
        BY <2>1, <2>2
<1> HIDE DEF kept
<1>3. DOMAIN kept = 1..Len(kept) /\ \A i \in DOMAIN kept : kept[i] \in Outcomes
    BY <1>2, LenProperties, ElementOfSeq
<1>4. \A i \in DOMAIN kept : [kept[i] EXCEPT !.before = @ - pnl] \in Outcomes
    BY <1>3 DEF Outcomes
<1>5. changed \in [1..Len(kept) -> Outcomes]
    BY <1>3, <1>4
<1>6. changed \in Seq(Outcomes) /\ Len(changed) = Len(kept)
    BY <1>2, <1>5
<1>7. new \in Outcomes
    BY DEF Outcomes
<1> HIDE DEF changed, new
<1>8. Append(changed, new) \in Seq(Outcomes) /\ Len(Append(changed, new)) = Len(kept) + 1
    BY <1>6, <1>7
<1>9. Recorded(w, loss, pnl) = Append(changed, new)
    BY DEF Recorded, changed, new, kept
<1> QED
    BY <1>1, <1>2, <1>8, <1>9

-----------------------------------------------------------------------------
(* What a refresh establishes, and what tripping does.                     *)
Safe(w, n) == n < MaxConsecutive /\ ~ LossConditionsActive(w)

BreakerTypes ==
    /\ window \in Seq(Outcomes) /\ Len(window) <= MaxOutcomes
    /\ consecutive \in Nat
    /\ tripped \in BOOLEAN
    /\ mode \in {"healthy", "cooldown", "recovery_pending", "resumed"}
    /\ tripAge \in Nat

RestTypes ==
    /\ streak \in [Symbols -> Nat]
    /\ left \in [Symbols -> Nat \cup {None}]
    /\ open \in SUBSET Symbols
    /\ waiting \in SUBSET Jobs
    /\ cleared \in SUBSET Jobs
    /\ queued \in [Jobs -> Nat]
    /\ credit \in [Jobs -> Int]

LEMMA TypeSplit == TypeOK <=> BreakerTypes /\ RestTypes
BY DEF TypeOK, BreakerTypes, RestTypes

LEMMA EmptyWindowTypes == <<>> \in Seq(Outcomes) /\ Len(<<>>) <= MaxOutcomes
<1>1. MaxOutcomes \in Nat
    BY BreakerAssumption
<1>2. <<>> \in Seq(Outcomes) /\ Len(<<>>) = 0
    BY EmptySeq
<1> QED
    BY <1>1, <1>2

LEMMA Refreshed ==
    ASSUME BreakerTypes, NEW w \in Seq(Outcomes), Len(w) <= MaxOutcomes, NEW n \in Nat,
           Refresh(w, n), ~ tripped => Safe(w, n)
    PROVE  /\ BreakerTypes'
           /\ SafeWhileRunning'
           /\ tripped' => tripped
           /\ tripped /\ ~ tripped' => tripAge >= Cooldown /\ ~ LossConditionsActive(w)
           /\ credit' = credit \/ (~ tripped' /\ credit' = NoCredit)
<1>1. CASE StaysRunning(w, n)
    BY <1>1 DEF StaysRunning, BreakerTypes, SafeWhileRunning, Safe
<1>2. CASE CoolsDown(w, n)
    BY <1>2 DEF CoolsDown, BreakerTypes, SafeWhileRunning
<1>3. CASE AwaitsRecovery(w)
    BY <1>3 DEF AwaitsRecovery, BreakerTypes, SafeWhileRunning
<1>4. CASE Resumes(w)
    <2>1. 0 < MaxConsecutive
        BY BreakerAssumption
    <2>2. /\ window' = <<>> /\ consecutive' = 0 /\ tripped' = FALSE /\ mode' = "resumed"
          /\ tripAge' = 0 /\ tripAge >= Cooldown /\ ~ LossConditionsActive(w)
          /\ credit' = NoCredit
        BY <1>4 DEF Resumes
    <2>3. BreakerTypes'
        BY <2>2, EmptyWindowTypes DEF BreakerTypes
    <2>4. ~ LossConditionsActive(window')
        BY <2>2, EmptyWindowIsSafe
    <2>5. SafeWhileRunning'
        BY <2>1, <2>2, <2>4 DEF SafeWhileRunning
    <2> QED
        BY <2>2, <2>3, <2>5
<1> QED
    BY <1>1, <1>2, <1>3, <1>4 DEF Refresh

(* A refresh on the pruned window, by the scan loop or for a status text.  *)
LEMMA Polled ==
    ASSUME BreakerInv, Refresh(Pruned(window), consecutive)
    PROVE  /\ BreakerTypes'
           /\ SafeWhileRunning'
           /\ tripped' => tripped
           /\ tripped /\ ~ tripped' => tripAge >= Cooldown
           /\ credit' = credit \/ (~ tripped' /\ credit' = NoCredit)
<1>1. BreakerTypes /\ SafeWhileRunning
    BY TypeSplit DEF BreakerInv
<1>2. window \in Seq(Outcomes) /\ Len(window) <= MaxOutcomes /\ consecutive \in Nat
    BY <1>1 DEF BreakerTypes
<1>3. Pruned(window) \in Seq(Outcomes) /\ Len(Pruned(window)) <= MaxOutcomes
    <2>1. Pruned(window) \in Seq(Outcomes)
          /\ Len(Pruned(window)) = Len(window) - Cardinality(Old(window))
        BY <1>2, PrunedWindow
    <2>2. Cardinality(Old(window)) \in 0..Len(window) /\ Len(window) \in Nat
        BY <1>2, LossesFinite
    <2>3. MaxOutcomes \in Nat
        BY BreakerAssumption
    <2> QED
        BY <1>2, <2>1, <2>2, <2>3
<1>4. ~ tripped => Safe(Pruned(window), consecutive)
    BY <1>1, <1>2, PruningIsNoWorse DEF SafeWhileRunning, NoWorse, Safe
<1> QED
    BY <1>1, <1>2, <1>3, <1>4, Refreshed

-----------------------------------------------------------------------------
(* The actions.                                                            *)
NoEarlyResume ==
    tripped /\ ~ tripped' /\ ~ Reset =>
        tripAge >= Cooldown /\ (open' = open => ~ LossConditionsActive(Pruned(window)))

LEMMA InvParts ==
    ASSUME BreakerInv
    PROVE  /\ BreakerTypes /\ RestTypes
           /\ SafeWhileRunning /\ StreakSuppresses /\ BacklogInv
BY TypeSplit DEF BreakerInv

(* A refresh keeps the credit or, at the end of a pause, drops it.         *)
LEMMA CreditRefreshed ==
    ASSUME RestTypes, BacklogInv, UNCHANGED <<cleared, queued>>,
           waiting' = waiting \/ (cleared = {} /\ waiting' = IF tripped' THEN {} ELSE Jobs),
           tripped' => tripped,
           credit' = credit \/ (~ tripped' /\ credit' = NoCredit)
    PROVE  credit' \in [Jobs -> Int] /\ BacklogInv'
<1>1. credit' \in [Jobs -> Int] /\ \A j \in Jobs : credit'[j] >= 0
    BY DEF RestTypes, BacklogInv, NoCredit
<1>2. waiting' \cap cleared' = {}
    BY DEF BacklogInv
<1>3. \A j \in Jobs : tripped' => credit'[j] >= queued'[j] + UnderWay(j)'
    <2> SUFFICES ASSUME tripped', NEW j \in Jobs PROVE credit'[j] >= queued'[j] + UnderWay(j)'
        OBVIOUS
    <2>1. tripped /\ credit' = credit /\ credit[j] >= queued[j] + UnderWay(j)
        BY DEF BacklogInv
    <2>2. CASE waiting' = waiting
        BY <2>1, <2>2 DEF UnderWay
    <2>3. CASE cleared = {} /\ waiting' = {}
        <3>1. UnderWay(j)' = 0 /\ UnderWay(j) \in {0, 1}
            BY <2>3 DEF UnderWay
        <3> QED
            BY <2>1, <3>1 DEF RestTypes
    <2> QED
        BY <2>2, <2>3
<1> QED
    BY <1>1, <1>2, <1>3 DEF BacklogInv

LEMMA SymbolOutcomeKeeps ==
    ASSUME BreakerInv, NEW s \in Symbols, NEW loss \in BOOLEAN, SymbolOutcome(s, loss)
    PROVE  /\ streak' \in [Symbols -> Nat] /\ left' \in [Symbols -> Nat \cup {None}]
           /\ StreakSuppresses'
<1>1. streak \in [Symbols -> Nat] /\ left \in [Symbols -> Nat \cup {None}] /\ StreakSuppresses
    BY InvParts DEF RestTypes
<1>2. SymbolCooldown \in Nat /\ None \notin Nat /\ SymbolMax \in Nat \ {0}
    BY BreakerAssumption
<1>3. CASE loss
    <2> DEFINE n == streak[s] + 1
    <2>1. n \in Nat
        BY <1>1
    <2>2. streak' = [streak EXCEPT ![s] = n]
          /\ left' = [left EXCEPT ![s] = IF n >= SymbolMax THEN SymbolCooldown ELSE @]
        BY <1>3 DEF SymbolOutcome
    <2> HIDE DEF n
    <2>3. streak' \in [Symbols -> Nat] /\ left' \in [Symbols -> Nat \cup {None}]
        BY <1>1, <1>2, <2>1, <2>2
    <2>4. \A x \in Symbols : streak'[x] >= SymbolMax => left'[x] # None
        <3> TAKE x \in Symbols
        <3>1. CASE x = s
            BY <3>1, <1>1, <1>2, <2>1, <2>2 DEF StreakSuppresses
        <3>2. CASE x # s
            BY <3>2, <1>1, <2>2 DEF StreakSuppresses
        <3> QED
            BY <3>1, <3>2
    <2> QED
        BY <2>3, <2>4 DEF StreakSuppresses
<1>4. CASE ~ loss
    <2>1. streak' = [streak EXCEPT ![s] = 0] /\ left' = left
        BY <1>4 DEF SymbolOutcome
    <2> QED
        BY <1>1, <1>2, <2>1 DEF StreakSuppresses
<1> QED
    BY <1>3, <1>4

LEMMA RecordOutcomeStep ==
    ASSUME BreakerInv, NEW s \in Symbols, NEW r \in Results, RecordOutcome(s, r)
    PROVE  BreakerInv' /\ NoEarlyResume
<1> DEFINE loss == r.hit_sl /\ r.pnl < 0
           n == IF loss THEN consecutive + 1 ELSE 0
           w == Recorded(Pruned(window), loss, r.pnl)
<1>1. BreakerTypes /\ RestTypes /\ BacklogInv
    BY InvParts
<1>2. r.pnl \in Int /\ loss \in BOOLEAN
    BY BreakerAssumption
<1>3. /\ s \in open /\ open' = open \ {s} /\ SymbolOutcome(s, loss)
      /\ RefreshAndEvaluate(w, n) /\ UNCHANGED <<waiting, cleared, queued>>
    BY DEF RecordOutcome
<1>4. n \in Nat
    BY <1>1 DEF BreakerTypes
<1>5. window \in Seq(Outcomes) /\ Len(window) <= MaxOutcomes
    BY <1>1 DEF BreakerTypes
<1> HIDE DEF n, loss
<1>6. Pruned(window) \in Seq(Outcomes) /\ Len(Pruned(window)) <= MaxOutcomes
    <2>1. Pruned(window) \in Seq(Outcomes)
          /\ Len(Pruned(window)) = Len(window) - Cardinality(Old(window))
        BY <1>5, PrunedWindow
    <2>2. Cardinality(Old(window)) \in 0..Len(window) /\ Len(window) \in Nat
        BY <1>5, LossesFinite
    <2>3. MaxOutcomes \in Nat
        BY BreakerAssumption
    <2> QED
        BY <1>5, <2>1, <2>2, <2>3
<1>7. w \in Seq(Outcomes) /\ Len(w) <= MaxOutcomes
    BY <1>2, <1>6, RecordedWindow
<1> HIDE DEF w
<1>8. streak' \in [Symbols -> Nat] /\ left' \in [Symbols -> Nat \cup {None}]
      /\ StreakSuppresses'
    BY <1>2, <1>3, SymbolOutcomeKeeps
<1>9. open' \in SUBSET Symbols /\ open' # open
    BY <1>1, <1>3 DEF RestTypes
<1>10. CASE ~ tripped /\ Trip(w, n)
    <2>1. /\ window' = w /\ consecutive' = n /\ tripped' = TRUE /\ mode' = "cooldown"
          /\ tripAge' = 0 /\ credit' = [j \in Jobs |-> queued[j] + UnderWay(j)]
        BY <1>10 DEF Trip
    <2>2. BreakerTypes'
        BY <1>4, <1>7, <2>1 DEF BreakerTypes
    <2>3. /\ credit' \in [Jobs -> Int]
          /\ \A j \in Jobs : /\ credit'[j] = queued'[j] + UnderWay(j)'
                              /\ queued'[j] \in Nat /\ UnderWay(j)' \in {0, 1}
        BY <1>1, <1>3, <2>1 DEF RestTypes, UnderWay
    <2>4. RestTypes'
        BY <1>1, <1>3, <1>8, <1>9, <2>3 DEF RestTypes
    <2>5. BacklogInv'
        <3>1. \A j \in Jobs : credit'[j] >= 0 /\ credit'[j] >= queued'[j] + UnderWay(j)'
            BY <2>3
        <3> QED
            BY <1>1, <1>3, <3>1 DEF BacklogInv
    <2>6. SafeWhileRunning'
        BY <2>1 DEF SafeWhileRunning
    <2>7. TypeOK'
        BY <2>2, <2>4 DEF TypeOK, BreakerTypes, RestTypes
    <2> QED
        BY <1>8, <2>1, <2>5, <2>6, <2>7 DEF BreakerInv, NoEarlyResume
<1>11. CASE (tripped \/ ~ MustTrip(w, n)) /\ Refresh(w, n)
    <2>1. ~ tripped => Safe(w, n)
        <3>1. MaxConsecutive \in Nat
            BY BreakerAssumption
        <3> QED
            BY <1>4, <1>11, <3>1 DEF MustTrip, Safe
    <2>2. /\ BreakerTypes' /\ SafeWhileRunning' /\ (tripped' => tripped)
          /\ tripped /\ ~ tripped' => tripAge >= Cooldown
          /\ credit' = credit \/ (~ tripped' /\ credit' = NoCredit)
        BY <1>1, <1>4, <1>7, <1>11, <2>1, Refreshed
    <2>4. credit' \in [Jobs -> Int] /\ BacklogInv'
        BY <1>1, <1>3, <2>2, CreditRefreshed
    <2>3. RestTypes'
        BY <1>1, <1>3, <1>8, <1>9, <2>4 DEF RestTypes
    <2>5. TypeOK'
        BY <2>2, <2>3 DEF TypeOK, BreakerTypes, RestTypes
    <2> QED
        BY <1>8, <1>9, <2>2, <2>4, <2>5 DEF BreakerInv, NoEarlyResume
<1> QED
    BY <1>3, <1>10, <1>11 DEF RefreshAndEvaluate

(* A step that only refreshes the breaker.                                 *)
LEMMA PollStep ==
    ASSUME BreakerInv, Refresh(Pruned(window), consecutive),
           UNCHANGED <<streak, left, open, cleared, queued>>,
           waiting' = waiting \/ (cleared = {} /\ waiting' = IF tripped' THEN {} ELSE Jobs)
    PROVE  BreakerInv' /\ NoEarlyResume
<1>1. RestTypes /\ StreakSuppresses /\ BacklogInv
    BY InvParts
<1>2. /\ BreakerTypes' /\ SafeWhileRunning' /\ (tripped' => tripped)
      /\ tripped /\ ~ tripped' => tripAge >= Cooldown
      /\ credit' = credit \/ (~ tripped' /\ credit' = NoCredit)
    BY Polled
<1>3. credit' \in [Jobs -> Int] /\ BacklogInv'
    BY <1>1, <1>2, CreditRefreshed
<1>4. RestTypes'
    BY <1>1, <1>3 DEF RestTypes
<1>5. StreakSuppresses'
    BY <1>1 DEF StreakSuppresses
<1>6. tripped /\ ~ tripped' => ~ LossConditionsActive(Pruned(window))
    BY DEF Refresh, StaysRunning, CoolsDown, AwaitsRecovery, Resumes
<1>7. TypeOK'
    BY <1>2, <1>4 DEF TypeOK, BreakerTypes, RestTypes
<1> QED
    BY <1>2, <1>3, <1>5, <1>6, <1>7 DEF BreakerInv, NoEarlyResume

LEMMA TradeForgottenStep ==
    ASSUME BreakerInv, NEW s \in Symbols, TradeForgotten(s)
    PROVE  BreakerInv' /\ NoEarlyResume
BY DEF BreakerInv, TypeOK, SafeWhileRunning, StreakSuppresses, BacklogInv, UnderWay,
       NoEarlyResume, TradeForgotten, breakerVars

LEMMA JobStep ==
    ASSUME BreakerInv, NEW j \in Jobs, Job(j)
    PROVE  BreakerInv' /\ NoEarlyResume
<1> DEFINE s == SymbolOf[j]
<1>1. BreakerTypes /\ RestTypes /\ SafeWhileRunning /\ StreakSuppresses /\ BacklogInv
    BY InvParts
<1>2. s \in Symbols /\ SymbolMax \in Nat \ {0}
    BY BreakerAssumption
<1>3. UNCHANGED <<window, consecutive, tripped, mode, tripAge, open, credit>>
    BY DEF Job, JobSkipped, JobCleared, JobEnds, breakerVars
<1>4. BreakerTypes' /\ SafeWhileRunning' /\ NoEarlyResume
    BY <1>1, <1>3 DEF BreakerTypes, SafeWhileRunning, NoEarlyResume
<1>5. \A i \in Jobs : /\ UnderWay(i) \in {0, 1} /\ UnderWay(i)' \in {0, 1}
                      /\ queued[i] \in Nat /\ credit[i] \in Int /\ credit[i] >= 0
                      /\ tripped => credit[i] >= queued[i] + UnderWay(i)
    BY <1>1 DEF UnderWay, RestTypes, BacklogInv
<1>6. CASE JobSkipped(j)
    <2>1. /\ waiting' = waiting \ {j} /\ UNCHANGED <<streak, left, cleared, queued>>
        BY <1>6 DEF JobSkipped, breakerVars
    <2>2. RestTypes' /\ StreakSuppresses'
        BY <1>1, <1>3, <2>1 DEF RestTypes, StreakSuppresses
    <2>3. \A i \in Jobs : UnderWay(i)' <= UnderWay(i)
        BY <2>1 DEF UnderWay
    <2>4. \A i \in Jobs : tripped => credit[i] >= queued[i] + UnderWay(i)'
        BY <1>5, <2>3
    <2>5. BacklogInv'
        BY <1>1, <1>3, <2>1, <2>4 DEF BacklogInv
    <2> QED
        BY <1>4, <2>2, <2>5 DEF BreakerInv, TypeOK, BreakerTypes, RestTypes
<1>7. CASE JobCleared(j)
    <2>1. /\ j \in waiting /\ waiting' = waiting \ {j} /\ cleared' = cleared \cup {j}
          /\ left' = [left EXCEPT ![s] = None]
          /\ streak' = [streak EXCEPT ![s] = IF left[s] = None THEN @ ELSE 0]
          /\ queued' = queued
        BY <1>7 DEF JobCleared
    <2> HIDE DEF s
    <2>2. RestTypes'
        BY <1>1, <1>2, <1>3, <2>1 DEF RestTypes
    <2>3. \A x \in Symbols : streak'[x] >= SymbolMax => left'[x] # None
        <3> TAKE x \in Symbols
        <3>1. CASE x = s
            BY <3>1, <1>1, <1>2, <2>1 DEF RestTypes, StreakSuppresses
        <3>2. CASE x # s
            BY <3>2, <1>1, <2>1 DEF RestTypes, StreakSuppresses
        <3> QED
            BY <3>1, <3>2
    <2>4. \A i \in Jobs : UnderWay(i)' = UnderWay(i)
        BY <2>1 DEF UnderWay
    <2>5. BacklogInv'
        BY <1>1, <1>3, <2>1, <2>4 DEF BacklogInv
    <2> QED
        BY <1>4, <2>2, <2>3, <2>5 DEF BreakerInv, TypeOK, BreakerTypes, RestTypes, StreakSuppresses
<1>8. CASE JobEnds(j)
    <2>1. /\ j \in cleared /\ cleared' = cleared \ {j} /\ UNCHANGED <<streak, left, waiting>>
          /\ queued' = queued \/ queued' = [queued EXCEPT ![j] = @ + 1]
        BY <1>8 DEF JobEnds, breakerVars
    <2>2. RestTypes' /\ StreakSuppresses'
        BY <1>1, <1>3, <2>1 DEF RestTypes, StreakSuppresses
    <2>3. UnderWay(j) = 1 /\ UnderWay(j)' = 0 /\ queued'[j] <= queued[j] + 1
        BY <1>1, <1>5, <2>1 DEF UnderWay, BacklogInv, RestTypes
    <2>4. \A i \in Jobs \ {j} : UnderWay(i)' = UnderWay(i) /\ queued'[i] = queued[i]
        BY <1>1, <2>1 DEF UnderWay, RestTypes
    <2>5. queued'[j] \in Nat
        BY <2>2 DEF RestTypes
    <2>6. \A i \in Jobs : tripped => credit[i] >= queued'[i] + UnderWay(i)'
        BY <1>5, <2>3, <2>4, <2>5
    <2>7. BacklogInv'
        BY <1>1, <1>3, <2>1, <2>6 DEF BacklogInv
    <2> QED
        BY <1>4, <2>2, <2>7 DEF BreakerInv, TypeOK, BreakerTypes, RestTypes
<1> QED
    BY <1>6, <1>7, <1>8 DEF Job

(* A trade that the router opens in a pause is paid for by its signal.     *)
LEMMA SignalRoutedStep ==
    ASSUME BreakerInv, NEW j \in Jobs, SignalRouted(j)
    PROVE  BreakerInv' /\ NoEarlyResume
<1>1. BreakerTypes /\ RestTypes /\ SafeWhileRunning /\ StreakSuppresses /\ BacklogInv
    BY InvParts
<1>2. SymbolOf[j] \in Symbols
    BY BreakerAssumption
<1>3. /\ queued[j] > 0 /\ queued' = [queued EXCEPT ![j] = @ - 1]
      /\ open' = open \/ open' = open \cup {SymbolOf[j]}
      /\ credit' = credit \/ (tripped /\ credit' = [credit EXCEPT ![j] = @ - 1])
      /\ UNCHANGED <<breakerVars, waiting, cleared>>
    BY DEF SignalRouted
<1>4. BreakerTypes' /\ SafeWhileRunning' /\ StreakSuppresses' /\ NoEarlyResume
    BY <1>1, <1>3 DEF BreakerTypes, SafeWhileRunning, StreakSuppresses, NoEarlyResume, breakerVars
<1>5. queued[j] \in Nat /\ queued'[j] = queued[j] - 1 /\ credit[j] \in Int
      /\ \A i \in Jobs \ {j} : queued'[i] = queued[i] /\ credit'[i] = credit[i]
    BY <1>1, <1>3 DEF RestTypes
<1>6. RestTypes'
    <2>1. queued' \in [Jobs -> Nat]
        BY <1>1, <1>3, <1>5 DEF RestTypes
    <2>2. credit' \in [Jobs -> Int]
        BY <1>1, <1>3 DEF RestTypes
    <2> QED
        BY <1>1, <1>2, <1>3, <2>1, <2>2 DEF RestTypes, breakerVars
<1>7. \A i \in Jobs : UnderWay(i)' = UnderWay(i) /\ UnderWay(i) \in {0, 1}
    BY <1>3 DEF UnderWay
<1>8. credit'[j] \in {credit[j], credit[j] - 1} /\ (credit'[j] # credit[j] => tripped)
    BY <1>1, <1>3 DEF RestTypes
<1>9. credit'[j] >= 0 /\ (tripped => credit'[j] >= queued'[j] + UnderWay(j))
    BY <1>1, <1>3, <1>5, <1>7, <1>8 DEF BacklogInv
<1>10. \A i \in Jobs : credit'[i] >= 0 /\ (tripped => credit'[i] >= queued'[i] + UnderWay(i))
    BY <1>1, <1>5, <1>9 DEF BacklogInv
<1>11. BacklogInv'
    BY <1>1, <1>3, <1>7, <1>10 DEF BacklogInv, breakerVars
<1> QED
    BY <1>4, <1>6, <1>11 DEF BreakerInv, TypeOK, BreakerTypes, RestTypes

LEMMA ResetStep ==
    ASSUME BreakerInv, Reset
    PROVE  BreakerInv' /\ NoEarlyResume
<1>1. RestTypes /\ BacklogInv
    BY InvParts
<1>2. /\ window' = <<>> /\ consecutive' = 0 /\ tripped' = FALSE /\ mode' = "resumed"
      /\ tripAge' = 0 /\ UNCHANGED <<open, waiting, cleared, queued>> /\ credit' = NoCredit
      /\ streak' = [s \in Symbols |-> 0] /\ left' = [s \in Symbols |-> None]
    BY DEF Reset
<1>3. SymbolMax \in Nat \ {0} /\ MaxConsecutive \in Nat \ {0}
    BY BreakerAssumption
<1>4. BreakerTypes'
    BY <1>2, EmptyWindowTypes DEF BreakerTypes
<1>5. RestTypes'
    BY <1>1, <1>2 DEF RestTypes, NoCredit
<1>6. ~ LossConditionsActive(window')
    BY <1>2, EmptyWindowIsSafe
<1>7. SafeWhileRunning'
    BY <1>2, <1>3, <1>6 DEF SafeWhileRunning
<1>8. StreakSuppresses'
    BY <1>2, <1>3 DEF StreakSuppresses
<1>9. BacklogInv'
    BY <1>1, <1>2 DEF BacklogInv, NoCredit
<1> QED
    BY <1>4, <1>5, <1>7, <1>8, <1>9 DEF BreakerInv, NoEarlyResume, TypeOK, BreakerTypes, RestTypes

LEMMA TickStep ==
    ASSUME BreakerInv, Tick
    PROVE  BreakerInv' /\ NoEarlyResume
<1>1. BreakerTypes /\ RestTypes /\ SafeWhileRunning /\ StreakSuppresses /\ BacklogInv
    BY InvParts
<1>2. /\ window' = Aged(window)
      /\ tripAge' = IF tripped THEN Older(tripAge, Cooldown) ELSE tripAge
      /\ left' = [s \in Symbols |-> IF Suppressed(s) THEN left[s] - 1 ELSE left[s]]
      /\ UNCHANGED <<consecutive, tripped, mode, streak, open, waiting, cleared, queued, credit>>
    BY DEF Tick, Aged
<1>3. window \in Seq(Outcomes) /\ Len(window) <= MaxOutcomes /\ tripAge \in Nat
    BY <1>1 DEF BreakerTypes
<1>4. window' \in Seq(Outcomes) /\ Len(window') <= MaxOutcomes
    BY <1>2, <1>3, AgedWindow
<1>5. tripAge' \in Nat
    BY <1>2, <1>3 DEF Older
<1>6. BreakerTypes'
    BY <1>1, <1>2, <1>4, <1>5 DEF BreakerTypes
<1>7. SafeWhileRunning'
    BY <1>1, <1>2, <1>3, AgeingIsNoWorse DEF SafeWhileRunning, NoWorse
<1>8. None \notin Nat
    BY BreakerAssumption
<1>9. \A s \in Symbols : left'[s] \in Nat \cup {None} /\ (left[s] # None => left'[s] # None)
    BY <1>1, <1>2, <1>8 DEF RestTypes, Suppressed
<1>10. RestTypes'
    BY <1>1, <1>2, <1>9 DEF RestTypes
<1>11. StreakSuppresses'
    BY <1>1, <1>2, <1>9 DEF StreakSuppresses
<1>12. BacklogInv' /\ NoEarlyResume
    BY <1>1, <1>2 DEF BacklogInv, UnderWay, NoEarlyResume
<1> QED
    BY <1>6, <1>7, <1>10, <1>11, <1>12 DEF BreakerInv, TypeOK, BreakerTypes, RestTypes

-----------------------------------------------------------------------------
LEMMA InitHolds == Init => BreakerInv
<1> SUFFICES ASSUME Init PROVE BreakerInv
    OBVIOUS
<1>1. SymbolMax \in Nat \ {0} /\ MaxConsecutive \in Nat \ {0}
    BY BreakerAssumption
<1>2. TypeOK
    <2>1. BreakerTypes
        BY EmptyWindowTypes DEF Init, BreakerTypes
    <2>2. RestTypes
        BY DEF Init, RestTypes
    <2> QED
        BY <2>1, <2>2, TypeSplit
<1>3. SafeWhileRunning
    BY <1>1, EmptyWindowIsSafe DEF Init, SafeWhileRunning
<1>4. StreakSuppresses /\ BacklogInv
    BY <1>1 DEF Init, StreakSuppresses, BacklogInv
<1> QED
    BY <1>2, <1>3, <1>4 DEF BreakerInv

LEMMA StepHolds ==
    ASSUME BreakerInv, [Next]_vars
    PROVE  BreakerInv' /\ (NoEarlyResume \/ UNCHANGED vars)
<1>1. CASE \E s \in Symbols : TradeForgotten(s) \/ \E r \in Results : RecordOutcome(s, r)
    BY <1>1, TradeForgottenStep, RecordOutcomeStep
<1>2. CASE CycleStart
    BY <1>2, PollStep DEF CycleStart, CycleIdle
<1>3. CASE \E j \in Jobs : Job(j) \/ SignalRouted(j)
    BY <1>3, JobStep, SignalRoutedStep
<1>4. CASE StatusText
    BY <1>4, PollStep DEF StatusText
<1>5. CASE Reset
    BY <1>5, ResetStep
<1>6. CASE Tick
    BY <1>6, TickStep
<1>7. CASE UNCHANGED vars
    BY <1>7 DEF vars, BreakerInv, TypeOK, SafeWhileRunning, StreakSuppresses, BacklogInv,
               UnderWay
<1> QED
    BY <1>1, <1>2, <1>3, <1>4, <1>5, <1>6, <1>7 DEF Next

LEMMA Invariance == Spec => []BreakerInv
<1>1. Init => BreakerInv
    BY InitHolds
<1>2. BreakerInv /\ [Next]_vars => BreakerInv'
    BY StepHolds
<1> QED
    BY <1>1, <1>2, PTL DEF Spec

-----------------------------------------------------------------------------
(* Every reachable state of the breaker and its users is well typed.       *)
THEOREM TypeCorrect == Spec => []TypeOK
<1>1. BreakerInv => TypeOK
    BY DEF BreakerInv
<1> QED
    BY <1>1, Invariance, PTL

(* A running breaker has no exceeded threshold: record_outcome misses none *)
(* and pruning and the passing of time create none.                        *)
THEOREM SafeHolds == Spec => []SafeWhileRunning
<1>1. BreakerInv => SafeWhileRunning
    BY DEF BreakerInv
<1> QED
    BY <1>1, Invariance, PTL

(* The per-symbol counter and the per-symbol expiry agree.                 *)
THEOREM StreakHolds == Spec => []StreakSuppresses
<1>1. BreakerInv => StreakSuppresses
    BY DEF BreakerInv
<1> QED
    BY <1>1, Invariance, PTL

(* Whatever the router makes of its backlog, no trade opens in a pause     *)
(* from a signal that was not queued, or being looked for, when it began.  *)
THEOREM BacklogHolds == Spec => []PauseOpensBacklogOnly
<1>1. BreakerInv => PauseOpensBacklogOnly
    BY DEF BreakerInv, BacklogInv, PauseOpensBacklogOnly
<1> QED
    BY <1>1, Invariance, PTL

(* A pause is served in full unless the operator ends it.                  *)
THEOREM PauseHolds == Spec => PauseServed
<1>1. BreakerInv /\ [Next]_vars =>
          [tripped /\ ~ tripped' /\ ~ Reset =>
               /\ tripAge >= Cooldown
               /\ open' = open => ~ LossConditionsActive(Pruned(window))]_vars
    BY StepHolds DEF NoEarlyResume
<1> QED
    BY <1>1, Invariance, PTL DEF Spec, PauseServed
=============================================================================
