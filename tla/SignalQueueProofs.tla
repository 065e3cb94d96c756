------------------------- MODULE SignalQueueProofs -------------------------
(***************************************************************************)
(* Type correctness of the queue and its safety for any number of          *)
(* producers, signals and restarts and any capacity: the overshoot bound,  *)
(* the exclusive use of the backends, that nothing accepted is evicted,    *)
(* and that a signal is handed over twice at most.                         *)
(***************************************************************************)
EXTENDS SignalQueue, SequenceTheorems, FiniteSetTheorems, TLAPS

(* What a sequence holds after an append, and after its head is taken.     *)
LEMMA ElementsType ==
    ASSUME NEW S, NEW q \in Seq(S)
    PROVE  Elements(q) \in SUBSET S
BY DEF Elements

LEMMA ElementsAppend ==
    ASSUME NEW S, NEW q \in Seq(S), NEW s \in S
    PROVE  Elements(Append(q, s)) = Elements(q) \cup {s}
<1> DEFINE r == Append(q, s)
<1>1. /\ DOMAIN r = DOMAIN q \cup {Len(q) + 1}
      /\ \A i \in DOMAIN q : r[i] = q[i]
      /\ r[Len(q) + 1] = s
    OBVIOUS
<1> HIDE DEF r
<1>2. {r[i] : i \in DOMAIN r} = {q[i] : i \in DOMAIN q} \cup {s}
    BY <1>1
<1> QED
    BY <1>2 DEF Elements, r

LEMMA ElementsHeadTail ==
    ASSUME NEW S, NEW q \in Seq(S), q # <<>>
    PROVE  Elements(q) \in SUBSET ({Head(q)} \cup Elements(Tail(q)))
<1> SUFFICES ASSUME NEW i \in DOMAIN q PROVE q[i] \in {Head(q)} \cup Elements(Tail(q))
    BY DEF Elements
<1>1. CASE i = 1
    BY <1>1
<1>2. CASE i # 1
    <2> DEFINE t == Tail(q)
    <2>1. i - 1 \in DOMAIN t /\ t[i - 1] = q[i]
        BY <1>2
    <2> HIDE DEF t
    <2>2. q[i] \in {t[j] : j \in DOMAIN t}
        BY <2>1
    <2> QED
        BY <2>2 DEF Elements, t
<1> QED
    BY <1>1, <1>2

(* The states of the coroutines.                                           *)
LEMMA States ==
    /\ NoPut \in PutStates /\ NoGet \in GetStates
    /\ \A pc \in {"llen", "rpush", "pushed"}, s \in Signals : At(pc, s) \in PutStates
    /\ At("blpop", None) \in GetStates /\ At("wait", None) \in GetStates
    /\ \A s \in Signals : At("popped", s) \in GetStates
BY DEF PutStates, GetStates, NoPut, NoGet, At

LEMMA AnswersType ==
    /\ "never put" \in Answers /\ "pending" \in Answers
    /\ "accepted" \in Answers /\ "refused" \in Answers
BY DEF Answers

(* A waiting put() holds a signal, and so does a get() with a reply.       *)
LEMMA PutSignal ==
    ASSUME TypeOK, NEW p \in Producers, put[p].pc \in {"llen", "rpush", "pushed"}
    PROVE  put[p].sig \in Signals
<1>1. put[p] \in PutStates
    BY DEF TypeOK
<1>2. put[p] # NoPut
    BY DEF NoPut, At
<1> QED
    BY <1>1, <1>2 DEF PutStates

LEMMA GetSignal ==
    ASSUME TypeOK
    PROVE  get.sig \in Signals \cup {None} /\ (get.pc = "popped" => get.sig \in Signals)
<1>1. get \in GetStates
    BY DEF TypeOK
<1>2. CASE get \in [pc : {"idle", "blpop", "wait"}, sig : {None}]
    BY <1>2
<1>3. CASE get \in [pc : {"popped"}, sig : Signals]
    BY <1>3
<1> QED
    BY <1>1, <1>2, <1>3 DEF GetStates

LEMMA IdleGetHoldsNothing ==
    ASSUME TypeOK, get.pc # "popped"
    PROVE  get.sig = None
<1>1. get \in GetStates
    BY DEF TypeOK
<1> QED
    BY <1>1 DEF GetStates

LEMMA PutFallbackType ==
    ASSUME TypeOK, NEW p \in Producers, NEW s \in Signals, PutFallback(p, s)
    PROVE  /\ fallback' \in Seq(Signals) /\ Len(fallback') <= QueueMax
           /\ put' \in [Producers -> PutStates]
           /\ returned' \in [Signals -> Answers]
<1>1. put' \in [Producers -> PutStates]
    BY States DEF TypeOK, PutFallback
<1>2. CASE Len(fallback) < QueueMax
    <2>1. fallback' = Append(fallback, s) /\ fallback \in Seq(Signals) /\ Len(fallback) \in Nat
        <3>1. fallback' = Append(fallback, s)
            BY <1>2 DEF PutFallback
        <3>2. fallback \in Seq(Signals)
            BY DEF TypeOK
        <3> QED
            BY <3>1, <3>2
    <2>2. fallback' \in Seq(Signals) /\ Len(fallback') = Len(fallback) + 1
        BY <2>1, AppendProperties
    <2>3. Len(fallback') <= QueueMax
        BY <1>2, <2>1, <2>2, QueueAssumption
    <2>4. returned' \in [Signals -> Answers]
        BY <1>2, AnswersType DEF TypeOK, PutFallback
    <2> QED
        BY <1>1, <2>2, <2>3, <2>4
<1>3. CASE ~ (Len(fallback) < QueueMax)
    BY <1>1, <1>3, AnswersType DEF TypeOK, PutFallback
<1> QED
    BY <1>2, <1>3

LEMMA InitType == Init => TypeOK
<1> SUFFICES ASSUME Init PROVE TypeOK
    OBVIOUS
<1>1. put \in [Producers -> PutStates] /\ get \in GetStates
    BY States DEF Init
<1>2. <<>> \in Seq(Signals) /\ Len(<<>>) <= QueueMax
    BY QueueAssumption
<1> QED
    BY <1>1, <1>2, AnswersType DEF Init, TypeOK

LEMMA NextType == TypeOK /\ [Next]_vars => TypeOK'
<1> SUFFICES ASSUME TypeOK, [Next]_vars PROVE TypeOK'
    OBVIOUS
<1>1. ASSUME NEW p \in Producers, NEW s \in Signals, PutStart(p, s) PROVE TypeOK'
    <2>1. CASE available
        <3>1. put' \in [Producers -> PutStates]
            BY <1>1, <2>1, States DEF TypeOK, PutStart
        <3> QED
            BY <1>1, <2>1, <3>1, AnswersType DEF TypeOK, PutStart
    <2>2. CASE ~ available
        BY <1>1, <2>2, PutFallbackType DEF TypeOK, PutStart
    <2> QED
        BY <2>1, <2>2
<1>2. ASSUME NEW p \in Producers, PutSized(p) PROVE TypeOK'
    <2>1. put[p].sig \in Signals
        BY <1>2, PutSignal DEF PutSized
    <2>2. CASE Len(redis_list) >= QueueMax
        <3>1. put' \in [Producers -> PutStates]
            BY <1>2, <2>2, States DEF TypeOK, PutSized
        <3> QED
            BY <1>2, <2>1, <2>2, <3>1, AnswersType DEF TypeOK, PutSized
    <2>3. CASE ~ (Len(redis_list) >= QueueMax) /\ available
        <3>1. put' \in [Producers -> PutStates]
            BY <1>2, <2>1, <2>3, States DEF TypeOK, PutSized
        <3> QED
            BY <1>2, <2>3, <3>1 DEF TypeOK, PutSized
    <2>4. CASE ~ (Len(redis_list) >= QueueMax) /\ ~ available
        BY <1>2, <2>1, <2>4, PutFallbackType DEF TypeOK, PutSized
    <2> QED
        BY <2>2, <2>3, <2>4
<1>3. ASSUME NEW p \in Producers, PutPushed(p) PROVE TypeOK'
    <2>1. put[p].sig \in Signals
        BY <1>3, PutSignal DEF PutPushed
    <2>2. put' \in [Producers -> PutStates]
        BY <1>3, <2>1, States DEF TypeOK, PutPushed
    <2> QED
        BY <1>3, <2>1, <2>2, AppendProperties DEF TypeOK, PutPushed
<1>4. ASSUME NEW p \in Producers, PutAccepted(p) PROVE TypeOK'
    <2>1. put[p].sig \in Signals
        BY <1>4, PutSignal DEF PutAccepted
    <2>2. put' \in [Producers -> PutStates]
        BY <1>4, States DEF TypeOK, PutAccepted
    <2> QED
        BY <1>4, <2>1, <2>2, AnswersType DEF TypeOK, PutAccepted
<1>5. ASSUME NEW p \in Producers, PutFails(p) PROVE TypeOK'
    <2>1. put[p].sig \in Signals
        BY <1>5, PutSignal DEF PutFails
    <2> QED
        BY <1>5, <2>1, PutFallbackType DEF TypeOK, PutFails
<1>6. CASE GetStart
    BY <1>6, States DEF TypeOK, GetStart
<1>7. CASE GetPopped
    <2>1. Head(redis_list) \in Signals /\ Tail(redis_list) \in Seq(Signals)
        BY <1>7, HeadTailProperties DEF TypeOK, GetPopped
    <2> QED
        BY <1>7, <2>1, States DEF TypeOK, GetPopped
<1>8. CASE GetNothingInRedis
    BY <1>8, States DEF TypeOK, GetNothingInRedis
<1>9. CASE GetReturnsRedis
    <2>1. get.sig \in Signals
        BY <1>9, GetSignal DEF GetReturnsRedis
    <2> QED
        <3>1. consumed' \in [Signals -> Nat]
            BY <1>9, <2>1 DEF TypeOK, GetReturnsRedis
        <3>2. get' \in GetStates
            BY <1>9, States DEF GetReturnsRedis
        <3> QED
            BY <1>9, <3>1, <3>2 DEF TypeOK, GetReturnsRedis
<1>10. CASE GetFails
    <2>1. {get.sig} \ {None} \in SUBSET Signals
        BY GetSignal
    <2> QED
        BY <1>10, <2>1, States DEF TypeOK, GetFails
<1>11. CASE GetReturnsFallback
    <2>1. fallback \in Seq(Signals) /\ fallback # <<>> /\ Len(fallback) <= QueueMax
        BY <1>11 DEF TypeOK, GetReturnsFallback
    <2>2. Head(fallback) \in Signals /\ Tail(fallback) \in Seq(Signals)
        BY <2>1, HeadTailProperties
    <2>3. Len(Tail(fallback)) <= QueueMax
        BY <2>1, QueueAssumption
    <2>4. consumed' \in [Signals -> Nat]
        BY <1>11, <2>2 DEF TypeOK, GetReturnsFallback
    <2>5. get' \in GetStates
        BY <1>11, States DEF GetReturnsFallback
    <2> QED
        BY <1>11, <2>2, <2>3, <2>4, <2>5 DEF TypeOK, GetReturnsFallback
<1>12. CASE GetReturnsNone
    BY <1>12, States DEF TypeOK, GetReturnsNone
<1>13. CASE OtherUserFails
    BY <1>13 DEF TypeOK, OtherUserFails
<1>14. CASE Restart
    <2>1. {get.sig} \ {None} \in SUBSET Signals
        BY GetSignal
    <2>2. Elements(fallback) \in SUBSET Signals
        BY ElementsType DEF TypeOK
    <2>3. put' \in [Producers -> PutStates] /\ get' \in GetStates
        BY <1>14, States DEF Restart
    <2>4. fallback' \in Seq(Signals) /\ Len(fallback') <= QueueMax
        BY <1>14, QueueAssumption DEF Restart
    <2> QED
        <3>1. lost' \in SUBSET Signals
            BY <1>14, <2>1, <2>2 DEF TypeOK, Restart
        <3>2. restarts' \in Nat
            BY <1>14 DEF TypeOK, Restart
        <3> QED
            BY <1>14, <2>3, <2>4, <3>1, <3>2 DEF TypeOK, Restart
<1>15. CASE UNCHANGED vars
    BY <1>15 DEF TypeOK, vars
<1> QED
    BY <1>1, <1>2, <1>3, <1>4, <1>5, <1>6, <1>7, <1>8, <1>9, <1>10, <1>11, <1>12, <1>13, <1>14, <1>15
    DEF Next, Put, Get

-----------------------------------------------------------------------------
(* The overshoot bound.                                                    *)

LEMMA PushingFinite ==
    /\ IsFiniteSet(Pushing) /\ Cardinality(Pushing) \in Nat
    /\ Cardinality(Producers) \in Nat /\ Cardinality(Producers) >= 1
    /\ Cardinality(Pushing) <= Cardinality(Producers)
<1>1. Pushing \in SUBSET Producers
    BY DEF Pushing
<1>2. IsFiniteSet(Pushing) /\ Cardinality(Pushing) <= Cardinality(Producers)
    BY <1>1, FS_Subset, QueueAssumption
<1>3. Cardinality(Producers) \in Nat /\ Cardinality(Producers) # 0
    BY FS_CardinalityType, FS_EmptySet, QueueAssumption
<1>4. Cardinality(Pushing) \in Nat
    BY <1>2, FS_CardinalityType
<1> QED
    BY <1>2, <1>3, <1>4

(* Steps that push nothing onto the list and start no push.                *)
LEMMA NoNewPush ==
    ASSUME TypeOK, TypeOK', OvershootBounded,
           Len(redis_list') <= Len(redis_list), Pushing' \in SUBSET Pushing
    PROVE  OvershootBounded'
<1>1. Cardinality(Pushing)' <= Cardinality(Pushing) /\ Cardinality(Pushing)' \in Nat
    <2>1. IsFiniteSet(Pushing') /\ Cardinality(Pushing') <= Cardinality(Pushing)
        BY PushingFinite, FS_Subset
    <2> QED
        BY <2>1, FS_CardinalityType
<1>2. Len(redis_list) \in Nat /\ Len(redis_list') \in Nat
    BY DEF TypeOK
<1> DEFINE k == Cardinality(Pushing)
           n == Cardinality(Producers)
           k1 == Cardinality(Pushing)'
<1>3. k \in Nat /\ n \in Nat /\ k1 \in Nat /\ k1 <= k
    BY <1>1, PushingFinite
<1>4. Len(redis_list) + k <= QueueMax + n - 1
    BY DEF OvershootBounded
<1> HIDE DEF k, n, k1
<1>5. Len(redis_list') + k1 <= QueueMax + n - 1
    BY <1>2, <1>3, <1>4, QueueAssumption
<1> QED
    BY <1>5 DEF OvershootBounded, k1, n

LEMMA OvershootStep ==
    ASSUME TypeOK, OvershootBounded, [Next]_vars
    PROVE  OvershootBounded'
<1>0. TypeOK'
    BY NextType
<1>1. Len(redis_list) \in Nat
    BY DEF TypeOK
<1>2. ASSUME UNCHANGED redis_list, Pushing' \in SUBSET Pushing PROVE OvershootBounded'
    BY <1>0, <1>1, <1>2, NoNewPush
<1>3. ASSUME UNCHANGED <<redis_list, put>> PROVE OvershootBounded'
    BY <1>2, <1>3 DEF Pushing
<1>4. ASSUME NEW p \in Producers, NEW s \in Signals, put' = [put EXCEPT ![p] = NoPut]
      PROVE  Pushing' \in SUBSET Pushing
    BY <1>4 DEF Pushing, TypeOK, NoPut, At
<1>5. ASSUME NEW p \in Producers, NEW s \in Signals, PutStart(p, s) PROVE OvershootBounded'
    <2>1. Pushing' \in SUBSET Pushing
        <3>1. CASE available
            <4>1. put' = [put EXCEPT ![p] = At("llen", s)]
                BY <1>5, <3>1 DEF PutStart
            <4> QED
                BY <4>1 DEF Pushing, TypeOK, At
        <3>2. CASE ~ available
            BY <1>4, <1>5, <3>2 DEF PutStart, PutFallback
        <3> QED
            BY <3>1, <3>2
    <2> QED
        BY <1>2, <1>5, <2>1 DEF PutStart
<1>6. ASSUME NEW p \in Producers, PutSized(p) PROVE OvershootBounded'
    <2>1. CASE Len(redis_list) >= QueueMax
        BY <1>2, <1>4, <1>6, <2>1, PutSignal DEF PutSized
    <2>2. CASE ~ (Len(redis_list) >= QueueMax)
        <3> DEFINE k1 == Cardinality(Pushing)'
                   n == Cardinality(Producers)
        <3>1. k1 \in Nat /\ n \in Nat /\ k1 <= n
            <4>1. Pushing' \in SUBSET Producers
                BY DEF Pushing
            <4> QED
                BY <4>1, FS_Subset, FS_CardinalityType, PushingFinite, QueueAssumption
        <3>2. redis_list' = redis_list
            BY <1>6 DEF PutSized
        <3> HIDE DEF k1, n
        <3>3. Len(redis_list') + k1 <= QueueMax + n - 1
            BY <1>1, <2>2, <3>1, <3>2, QueueAssumption
        <3> QED
            BY <3>3 DEF k1, n, OvershootBounded
    <2> QED
        BY <2>1, <2>2
<1>7. ASSUME NEW p \in Producers, PutPushed(p) PROVE OvershootBounded'
    <2>1. Len(redis_list') = Len(redis_list) + 1
        <3>1. put[p].sig \in Signals /\ redis_list \in Seq(Signals)
            BY <1>7, PutSignal DEF PutPushed, TypeOK
        <3> QED
            BY <1>7, <3>1, AppendProperties DEF PutPushed
    <2>2. Pushing' = Pushing \ {p} /\ p \in Pushing
        BY <1>7 DEF PutPushed, Pushing, TypeOK, At
    <2> DEFINE k == Cardinality(Pushing)
               n == Cardinality(Producers)
               k1 == Cardinality(Pushing)'
    <2>3. k1 = k - 1 /\ k \in Nat /\ n \in Nat
        BY <2>2, FS_RemoveElement, PushingFinite
    <2>4. Len(redis_list) + k <= QueueMax + n - 1
        BY DEF OvershootBounded
    <2> HIDE DEF k, n, k1
    <2>5. Len(redis_list') + k1 <= QueueMax + n - 1
        BY <1>1, <2>1, <2>3, <2>4, QueueAssumption
    <2> QED
        BY <2>5 DEF OvershootBounded, k1, n
<1>8. ASSUME NEW p \in Producers, PutAccepted(p) PROVE OvershootBounded'
    BY <1>2, <1>4, <1>8, PutSignal DEF PutAccepted
<1>9. ASSUME NEW p \in Producers, PutFails(p) PROVE OvershootBounded'
    BY <1>2, <1>4, <1>9, PutSignal DEF PutFails, PutFallback
<1>10. CASE GetPopped
    <2>1. Len(redis_list') <= Len(redis_list)
        BY <1>10, HeadTailProperties DEF GetPopped, TypeOK
    <2>2. Pushing' \in SUBSET Pushing
        BY <1>10 DEF GetPopped, Pushing
    <2> QED
        BY <1>0, <2>1, <2>2, NoNewPush
<1>11. CASE Restart
    <2>1. Pushing' \in SUBSET Pushing
        BY <1>11 DEF Restart, Pushing, NoPut, At
    <2> QED
        BY <1>2, <1>11, <2>1 DEF Restart
<1>12. CASE GetStart \/ GetNothingInRedis \/ GetReturnsRedis \/ GetFails \/ GetReturnsFallback
            \/ GetReturnsNone \/ OtherUserFails \/ UNCHANGED vars
    BY <1>3, <1>12 DEF GetStart, GetNothingInRedis, GetReturnsRedis, GetFails, GetReturnsFallback,
        GetReturnsNone, OtherUserFails, vars
<1> QED
    BY <1>5, <1>6, <1>7, <1>8, <1>9, <1>10, <1>11, <1>12 DEF Next, Put, Get

-----------------------------------------------------------------------------
(* The backends exclude each other.                                        *)
LEMMA FallbackStep ==
    ASSUME TypeOK, FallbackOnlyWhenDown, [Next]_vars
    PROVE  FallbackOnlyWhenDown'
<1> USE DEF FallbackOnlyWhenDown
<1>1. ASSUME NEW p \in Producers, NEW s \in Signals, PutStart(p, s) PROVE FallbackOnlyWhenDown'
    BY <1>1 DEF PutStart
<1>2. ASSUME NEW p \in Producers, Put(p) PROVE FallbackOnlyWhenDown'
    BY <1>2 DEF Put, PutSized, PutPushed, PutAccepted, PutFails
<1>3. CASE GetReturnsFallback
    <2>1. fallback # <<>> /\ UNCHANGED available
        BY <1>3 DEF GetReturnsFallback
    <2> QED
        BY <2>1
<1>4. CASE GetStart \/ GetPopped \/ GetNothingInRedis \/ GetReturnsRedis \/ GetFails \/ GetReturnsNone
    BY <1>4 DEF GetStart, GetPopped, GetNothingInRedis, GetReturnsRedis, GetFails, GetReturnsNone
<1>5. CASE OtherUserFails \/ Restart \/ UNCHANGED vars
    BY <1>5 DEF OtherUserFails, Restart, vars
<1> QED
    BY <1>1, <1>2, <1>3, <1>4, <1>5 DEF Next, Get

-----------------------------------------------------------------------------
(* What is accounted for stays accounted for.                              *)
LEMMA AccountedStep ==
    ASSUME TypeOK, NEW x \in Signals, Accounted(x), [Next]_vars
    PROVE  Accounted(x)'
<1> USE DEF Accounted
<1>0. consumed[x] \in Nat /\ redis_list \in Seq(Signals) /\ fallback \in Seq(Signals) /\ x # None
    BY QueueAssumption DEF TypeOK
<1>1. ASSUME NEW p \in Producers, NEW s \in Signals, PutFallback(p, s)
      PROVE  Elements(fallback) \in SUBSET Elements(fallback')
    <2>1. CASE Len(fallback) < QueueMax
        <3>1. fallback' = Append(fallback, s)
            BY <1>1, <2>1 DEF PutFallback
        <3> QED
            BY <1>0, <3>1, ElementsAppend
    <2>2. CASE ~ (Len(fallback) < QueueMax)
        BY <1>1, <2>2 DEF PutFallback
    <2> QED
        BY <2>1, <2>2
<1>2. ASSUME NEW p \in Producers, NEW s \in Signals, PutStart(p, s) PROVE Accounted(x)'
    <2>1. Elements(fallback) \in SUBSET Elements(fallback')
        BY <1>1, <1>2 DEF PutStart
    <2> QED
        BY <1>2, <2>1 DEF PutStart
<1>3. ASSUME NEW p \in Producers, PutSized(p) PROVE Accounted(x)'
    <2>1. put[p].sig \in Signals
        BY <1>3, PutSignal DEF PutSized
    <2>2. Elements(fallback) \in SUBSET Elements(fallback')
        BY <1>1, <1>3, <2>1 DEF PutSized
    <2> QED
        BY <1>3, <2>2 DEF PutSized
<1>4. ASSUME NEW p \in Producers, PutPushed(p) PROVE Accounted(x)'
    <2>1. put[p].sig \in Signals
        BY <1>4, PutSignal DEF PutPushed
    <2>2. Elements(redis_list) \in SUBSET Elements(redis_list')
        BY <1>0, <1>4, <2>1, ElementsAppend DEF PutPushed
    <2> QED
        BY <1>4, <2>2 DEF PutPushed
<1>5. ASSUME NEW p \in Producers, PutAccepted(p) PROVE Accounted(x)'
    BY <1>5 DEF PutAccepted
<1>6. ASSUME NEW p \in Producers, PutFails(p) PROVE Accounted(x)'
    <2>1. put[p].sig \in Signals
        BY <1>6, PutSignal DEF PutFails
    <2>2. Elements(fallback) \in SUBSET Elements(fallback')
        BY <1>1, <1>6, <2>1 DEF PutFails
    <2> QED
        BY <1>6, <2>2 DEF PutFails
<1>7. CASE GetPopped
    <2>1. Elements(redis_list) \in SUBSET ({Head(redis_list)} \cup Elements(redis_list'))
        BY <1>0, <1>7, ElementsHeadTail DEF GetPopped
    <2>2. get'.sig = Head(redis_list) /\ UNCHANGED <<fallback, lost, consumed>>
        BY <1>7 DEF GetPopped, At
    <2>3. get.sig = None
        BY <1>7, IdleGetHoldsNothing DEF GetPopped
    <2> QED
        BY <1>0, <2>1, <2>2, <2>3
<1>8. CASE GetReturnsRedis
    <2>1. UNCHANGED <<redis_list, fallback, lost>>
        BY <1>8 DEF GetReturnsRedis
    <2>2. get.sig \in Signals
        BY <1>8, GetSignal DEF GetReturnsRedis
    <2>3. x = get.sig => consumed'[x] > 0
        BY <1>0, <1>8, <2>2 DEF GetReturnsRedis, TypeOK
    <2>4. x # get.sig => consumed'[x] = consumed[x]
        BY <1>8, <2>2 DEF GetReturnsRedis, TypeOK
    <2> QED
        BY <1>0, <2>1, <2>3, <2>4
<1>9. CASE GetFails
    BY <1>0, <1>9 DEF GetFails
<1>10. CASE GetReturnsFallback
    <2>1. Elements(fallback) \in SUBSET ({Head(fallback)} \cup Elements(fallback'))
        BY <1>0, <1>10, ElementsHeadTail DEF GetReturnsFallback
    <2>2. Head(fallback) \in Signals
        BY <1>0, <1>10, HeadTailProperties DEF GetReturnsFallback
    <2>3. x = Head(fallback) => consumed'[x] > 0
        BY <1>0, <1>10, <2>2 DEF GetReturnsFallback, TypeOK
    <2>4. x # Head(fallback) => consumed'[x] = consumed[x]
        BY <1>10, <2>2 DEF GetReturnsFallback, TypeOK
    <2>5. UNCHANGED <<redis_list, lost>> /\ get.sig = None
        BY <1>10, IdleGetHoldsNothing DEF GetReturnsFallback
    <2> QED
        BY <1>0, <2>1, <2>3, <2>4, <2>5
<1>11. CASE GetStart \/ GetNothingInRedis \/ GetReturnsNone
    <2>1. UNCHANGED <<redis_list, fallback, lost, consumed>>
        BY <1>11 DEF GetStart, GetNothingInRedis, GetReturnsNone
    <2>2. get.sig = None
        BY <1>11, IdleGetHoldsNothing DEF GetStart, GetNothingInRedis, GetReturnsNone, NoGet, At
    <2> QED
        BY <1>0, <2>1, <2>2
<1>12. CASE OtherUserFails
    BY <1>12 DEF OtherUserFails
<1>13. CASE Restart
    BY <1>0, <1>13 DEF Restart
<1>14. CASE UNCHANGED vars
    BY <1>14 DEF vars
<1> QED
    BY <1>2, <1>3, <1>4, <1>5, <1>6, <1>7, <1>8, <1>9, <1>10, <1>11, <1>12, <1>13, <1>14 DEF Next, Put, Get

(* put() answers only for signals that are accounted for.                  *)
LEMMA EvictionStep ==
    ASSUME TypeOK, NothingEvicted, PushedAccounted, [Next]_vars
    PROVE  NothingEvicted' /\ PushedAccounted'
<1>0. TypeOK'
    BY NextType
<1>1. ASSUME NEW p \in Producers, NEW s \in Signals, PutFallback(p, s), returned'[s] = "accepted"
      PROVE  Accounted(s)'
    <2>1. Len(fallback) < QueueMax
        BY <1>1 DEF PutFallback, TypeOK
    <2>2. fallback' = Append(fallback, s)
        BY <1>1, <2>1 DEF PutFallback
    <2>3. s \in Elements(fallback')
        BY <2>2, ElementsAppend DEF TypeOK
    <2> QED
        BY <2>3 DEF Accounted
<1>2. ASSUME NEW x \in Signals, returned'[x] = "accepted", returned[x] # "accepted"
      PROVE  Accounted(x)'
    <2>1. ASSUME NEW p \in Producers, NEW s \in Signals, PutStart(p, s) PROVE Accounted(x)'
        <3>1. CASE available
            BY <1>2, <2>1, <3>1 DEF PutStart, TypeOK
        <3>2. CASE ~ available
            <4>1. PutFallback(p, s)
                BY <2>1, <3>2 DEF PutStart
            <4>2. x = s
                BY <1>2, <4>1 DEF PutFallback, TypeOK
            <4> QED
                BY <1>1, <1>2, <4>1, <4>2
        <3> QED
            BY <3>1, <3>2
    <2>2. ASSUME NEW p \in Producers, Put(p) PROVE Accounted(x)'
        <3> DEFINE s == put[p].sig
        <3>1. s \in Signals
            BY <2>2, PutSignal DEF Put, PutSized, PutPushed, PutAccepted, PutFails
        <3>2. CASE PutFallback(p, s)
            <4>1. x = s
                BY <1>2, <3>1, <3>2 DEF PutFallback, TypeOK
            <4> QED
                BY <1>1, <1>2, <3>2, <4>1
        <3>3. CASE PutAccepted(p)
            <4>1. x = s
                BY <1>2, <3>1, <3>3 DEF PutAccepted, TypeOK
            <4>2. Accounted(s)
                BY <3>3 DEF PutAccepted, PushedAccounted
            <4> QED
                BY <3>1, <4>1, <4>2, AccountedStep
        <3>4. CASE PutSized(p) /\ ~ PutFallback(p, s)
            BY <1>2, <3>1, <3>4 DEF PutSized, TypeOK
        <3>5. CASE PutPushed(p)
            BY <1>2, <3>5 DEF PutPushed
        <3> QED
            BY <2>2, <3>2, <3>3, <3>4, <3>5 DEF Put, PutFails
    <2>3. CASE Get \/ OtherUserFails \/ Restart \/ UNCHANGED vars
        BY <1>2, <2>3 DEF Get, GetStart, GetPopped, GetNothingInRedis, GetReturnsRedis, GetFails,
            GetReturnsFallback, GetReturnsNone, OtherUserFails, Restart, vars
    <2> QED
        BY <2>1, <2>2, <2>3 DEF Next
<1>3. NothingEvicted'
    BY <1>2, AccountedStep DEF NothingEvicted
<1>4. ASSUME NEW q \in Producers, put'[q].pc = "pushed" PROVE Accounted(put[q].sig)' /\ put'[q].sig = put[q].sig
    <2>1. ASSUME NEW p \in Producers, NEW s \in Signals, PutStart(p, s) PROVE put[q] = put'[q]
        <3>1. \E t \in {At("llen", s), NoPut} : put' = [put EXCEPT ![p] = t]
            BY <2>1 DEF PutStart, PutFallback
        <3>2. put \in [Producers -> PutStates]
            BY DEF TypeOK
        <3>3. put'[p].pc # "pushed"
            BY <3>1, <3>2 DEF At, NoPut
        <3> QED
            BY <1>4, <3>1, <3>2, <3>3
    <2>2. ASSUME NEW p \in Producers, Put(p), q # p PROVE put[q] = put'[q]
        BY <2>2 DEF Put, PutSized, PutPushed, PutAccepted, PutFails, PutFallback, TypeOK
    <2>3. ASSUME Put(q) PROVE PutPushed(q)
        <3>1. ~ PutAccepted(q) /\ ~ PutFails(q)
            BY <1>4 DEF PutAccepted, PutFails, PutFallback, TypeOK, NoPut, At
        <3>2. ~ PutSized(q)
            BY <1>4 DEF PutSized, PutFallback, TypeOK, NoPut, At
        <3> QED
            BY <2>3, <3>1, <3>2 DEF Put
    <2>4. CASE PutPushed(q)
        <3>1. put[q].sig \in Signals
            BY <2>4, PutSignal DEF PutPushed
        <3>2. put[q].sig \in Elements(redis_list')
            BY <2>4, <3>1, ElementsAppend DEF PutPushed, TypeOK
        <3>3. put'[q].sig = put[q].sig
            BY <2>4 DEF PutPushed, TypeOK, At
        <3> QED
            BY <3>2, <3>3 DEF Accounted
    <2>5. CASE put[q] = put'[q]
        <3>1. put[q].sig \in Signals
            BY <1>4, <2>5, PutSignal
        <3>2. Accounted(put[q].sig)
            BY <1>4, <2>5 DEF PushedAccounted
        <3> QED
            BY <2>5, <3>1, <3>2, AccountedStep
    <2>6. CASE Get \/ OtherUserFails \/ UNCHANGED vars
        <3>1. put' = put
            BY <2>6 DEF Get, GetStart, GetPopped, GetNothingInRedis, GetReturnsRedis, GetFails,
                GetReturnsFallback, GetReturnsNone, OtherUserFails, vars
        <3> QED
            BY <2>5, <3>1
    <2>7. CASE Restart
        BY <1>4, <2>7 DEF Restart, NoPut, At
    <2> QED
        BY <2>1, <2>2, <2>3, <2>4, <2>5, <2>6, <2>7 DEF Next
<1>5. PushedAccounted'
    BY <1>4 DEF PushedAccounted, Accounted
<1> QED
    BY <1>3, <1>5

-----------------------------------------------------------------------------
LEMMA InvariantHolds == Spec => []QueueInv
<1>1. Init => QueueInv
    <2> SUFFICES ASSUME Init PROVE QueueInv
        OBVIOUS
    <2>1. TypeOK
        BY InitType
    <2>2. Pushing = {} /\ Len(redis_list) = 0
        BY DEF Init, Pushing, NoPut, At
    <2>3. OvershootBounded
        <3>1. Cardinality(Pushing) = 0
            BY <2>2, FS_EmptySet
        <3> QED
            BY <2>2, <3>1, PushingFinite, QueueAssumption DEF OvershootBounded
    <2>4. FallbackOnlyWhenDown /\ NothingEvicted /\ PushedAccounted
        BY DEF Init, FallbackOnlyWhenDown, NothingEvicted, PushedAccounted, NoPut, At
    <2> QED
        BY <2>1, <2>3, <2>4 DEF QueueInv
<1>2. QueueInv /\ [Next]_vars => QueueInv'
    BY NextType, OvershootStep, FallbackStep, EvictionStep DEF QueueInv
<1> QED
    BY <1>1, <1>2, PTL DEF Spec

(* The queue's variables keep their types; in particular the in-memory     *)
(* queue never exceeds QUEUE_MAXSIZE.                                      *)
THEOREM TypeCorrect == Spec => []TypeOK
BY InitType, NextType, PTL DEF Spec

(* However many producers put at the same time, the Redis list exceeds     *)
(* QUEUE_MAXSIZE by less than their number.                                *)
THEOREM OvershootHolds == Spec => []OvershootBounded
<1>1. QueueInv => OvershootBounded
    BY DEF QueueInv
<1> QED
    BY <1>1, InvariantHolds, PTL

(* No signal waits in memory while get() prefers Redis.                    *)
THEOREM BackendsExclusive == Spec => []FallbackOnlyWhenDown
<1>1. QueueInv => FallbackOnlyWhenDown
    BY DEF QueueInv
<1> QED
    BY <1>1, InvariantHolds, PTL

(* An accepted signal is never evicted: only a crash or a lost reply takes *)
(* it from the queue without handing it to the router.                     *)
THEOREM NoEviction == Spec => []NothingEvicted
<1>1. QueueInv => NothingEvicted
    BY DEF QueueInv
<1> QED
    BY <1>1, InvariantHolds, PTL

-----------------------------------------------------------------------------
(***************************************************************************)
(* At most one duplicate: the copies of a signal are counted.  A put()     *)
(* makes one copy in Redis at most, and one in the in-memory queue after   *)
(* that; every get() turns a copy into a delivery.                         *)
(***************************************************************************)

(* A condition as a number.                                                *)
Ind(b) == IF b THEN 1 ELSE 0

(* The copies of a signal: in Redis, in memory, in the hands of get(), and *)
(* the deliveries.                                                         *)
Copies(s) ==
    Ind(s \in Elements(redis_list)) + Ind(s \in Elements(fallback)) + Ind(get.sig = s) + consumed[s]

(* A sequence without repetitions.                                         *)
Once(q) == \A i, j \in DOMAIN q : q[i] = q[j] => i = j

(* The copies a put() may have made: one in Redis before it returns, and a *)
(* second one, in memory, when it gave up on the reply.                    *)
MostCopies(s) ==
    IF returned[s] = "never put" THEN 0 ELSE IF returned[s] = "pending" THEN 1 ELSE 2

(* No backend holds a signal twice.                                        *)
StoredOnce == Once(redis_list) /\ Once(fallback)

(* What is counted stays below what the put() may have made, which turns   *)
(* to the in-memory queue last.                                            *)
CopiesBounded ==
    \A s \in Signals :
      /\ Copies(s) <= MostCopies(s)
      /\ returned[s] = "pending" => s \notin Elements(fallback)

(* A signal is in the hands of one producer, and not stored yet when its   *)
(* push has not been executed.                                             *)
PutsDistinct ==
    \A p \in Producers, s \in Signals : put[p].sig = s =>
      /\ returned[s] = "pending"
      /\ \A q \in Producers : put[q].sig = s => q = p
      /\ put[p].pc # "pushed" => Copies(s) = 0

(* The inductive invariant of the copies.                                  *)
CopyInv == StoredOnce /\ CopiesBounded /\ PutsDistinct

(* A sequence without repetitions, after an append and without its head.   *)
LEMMA OnceAppend ==
    ASSUME NEW S, NEW q \in Seq(S), NEW s \in S, Once(q), s \notin Elements(q)
    PROVE  Once(Append(q, s))
<1> DEFINE r == Append(q, s)
<1>1. /\ DOMAIN r = DOMAIN q \cup {Len(q) + 1}
      /\ \A i \in DOMAIN q : r[i] = q[i]
      /\ r[Len(q) + 1] = s
    OBVIOUS
<1>2. \A i \in DOMAIN q : q[i] # s
    BY DEF Elements
<1> HIDE DEF r
<1>3. \A i, j \in DOMAIN r : r[i] = r[j] => i = j
    BY <1>1, <1>2 DEF Once
<1> QED
    BY <1>3 DEF Once, r

(* The head of a sequence without repetitions is not in its tail.          *)
LEMMA OnceTail ==
    ASSUME NEW S, NEW q \in Seq(S), q # <<>>, Once(q)
    PROVE  /\ Once(Tail(q))
           /\ Head(q) \in S /\ Head(q) \in Elements(q)
           /\ Elements(Tail(q)) = Elements(q) \ {Head(q)}
<1> DEFINE t == Tail(q)
<1>1. /\ DOMAIN t = 1..(Len(q) - 1) /\ DOMAIN q = 1..Len(q) /\ Len(q) \in Nat /\ Len(q) >= 1
      /\ \A i \in DOMAIN t : t[i] = q[i + 1]
      /\ Head(q) = q[1] /\ Head(q) \in S
    BY HeadTailProperties
<1> HIDE DEF t
<1>2. \A i, j \in DOMAIN t : t[i] = t[j] => i = j
    <2> SUFFICES ASSUME NEW i \in DOMAIN t, NEW j \in DOMAIN t, t[i] = t[j] PROVE i = j
        OBVIOUS
    <2>1. i + 1 \in DOMAIN q /\ j + 1 \in DOMAIN q /\ q[i + 1] = q[j + 1]
        BY <1>1
    <2> QED
        BY <1>1, <2>1 DEF Once
<1>3. \A x \in Elements(t) : x \in Elements(q) /\ x # Head(q)
    <2> SUFFICES ASSUME NEW i \in DOMAIN t PROVE t[i] \in Elements(q) /\ t[i] # Head(q)
        BY DEF Elements
    <2>1. i + 1 \in DOMAIN q /\ 1 \in DOMAIN q /\ i + 1 # 1 /\ t[i] = q[i + 1]
        BY <1>1
    <2> QED
        BY <1>1, <2>1 DEF Once, Elements
<1>4. \A x \in Elements(q) : x # Head(q) => x \in Elements(t)
    <2> SUFFICES ASSUME NEW i \in DOMAIN q, q[i] # Head(q) PROVE q[i] \in Elements(t)
        BY DEF Elements
    <2>1. i - 1 \in DOMAIN t /\ t[i - 1] = q[i]
        BY <1>1
    <2> QED
        BY <2>1 DEF Elements
<1>5. Head(q) \in Elements(q)
    BY <1>1 DEF Elements
<1> QED
    BY <1>1, <1>2, <1>3, <1>4, <1>5 DEF Once, t

(* Counting: no copy anywhere, a copy more in the in-memory queue at most. *)
LEMMA NoCopy ==
    ASSUME NEW s, s \notin Elements(redis_list), s \notin Elements(fallback),
           get.sig # s, consumed[s] = 0
    PROVE  Copies(s) = 0
BY DEF Copies, Ind

(* A put in memory makes one copy more.                                    *)
LEMMA OneCopyMore ==
    ASSUME NEW s, redis_list' = redis_list, get' = get, consumed' = consumed,
           consumed[s] \in Nat, s \notin Elements(fallback)
    PROVE  Copies(s)' <= Copies(s) + 1
BY DEF Copies, Ind

(* It is the second one at most.                                           *)
LEMMA SecondCopy ==
    ASSUME TypeOK, TypeOK', NEW s \in Signals, s \notin Elements(fallback),
           redis_list' = redis_list, get' = get, consumed' = consumed
    PROVE  Copies(s) <= 1 => Copies(s)' <= 2
<1>1. consumed[s] \in Nat /\ \A x \in Signals : Copies(x) \in Nat /\ Copies(x)' \in Nat
    BY DEF TypeOK, Copies, Ind
<1>2. Copies(s)' <= Copies(s) + 1
    BY <1>1, OneCopyMore
<1> QED
    BY <1>1, <1>2

(* Copies are counted in natural numbers.                                  *)
LEMMA CopiesNat ==
    ASSUME TypeOK
    PROVE  \A s \in Signals : consumed[s] \in Nat /\ Copies(s) \in Nat
BY DEF TypeOK, Copies, Ind

(* A step that makes no copy, and forgets puts at most, is harmless.       *)
LEMMA NoNewCopy ==
    ASSUME TypeOK, TypeOK', CopyInv, StoredOnce', returned' = returned,
           put' = put \/ put' = [p \in Producers |-> NoPut],
           Elements(fallback)' \subseteq Elements(fallback),
           \A s \in Signals : Copies(s)' <= Copies(s)
    PROVE  CopyInv'
<1>1. \A s \in Signals : Copies(s) \in Nat /\ Copies(s)' \in Nat
    BY CopiesNat DEF TypeOK, Copies, Ind
<1>2. CopiesBounded'
    <2> SUFFICES ASSUME NEW s \in Signals
                 PROVE  Copies(s)' <= MostCopies(s)' /\ (returned'[s] = "pending" => s \notin Elements(fallback)')
        BY DEF CopiesBounded
    <2>1. Copies(s) <= MostCopies(s) /\ MostCopies(s)' = MostCopies(s) /\ MostCopies(s) \in Nat
        BY DEF CopyInv, CopiesBounded, MostCopies
    <2>2. Copies(s)' <= Copies(s) /\ Copies(s)' \in Nat /\ Copies(s) \in Nat
        BY <1>1
    <2> QED
        BY <2>1, <2>2 DEF CopyInv, CopiesBounded
<1>3. PutsDistinct'
    <2> SUFFICES ASSUME NEW p \in Producers, NEW s \in Signals, put'[p].sig = s
                 PROVE  /\ returned'[s] = "pending"
                        /\ \A q \in Producers : put'[q].sig = s => q = p
                        /\ put'[p].pc # "pushed" => Copies(s)' = 0
        BY DEF PutsDistinct
    <2>1. put' = put
        BY QueueAssumption DEF NoPut, At
    <2>2. /\ returned[s] = "pending"
          /\ \A q \in Producers : put[q].sig = s => q = p
          /\ put[p].pc # "pushed" => Copies(s) = 0
        BY <2>1 DEF CopyInv, PutsDistinct
    <2> QED
        BY <1>1, <2>1, <2>2
<1> QED
    BY <1>2, <1>3 DEF CopyInv

(* get() moves copies and hands them over.                                 *)
LEMMA GetCopies ==
    ASSUME TypeOK, TypeOK', CopyInv, Get \/ OtherUserFails \/ Restart \/ UNCHANGED vars
    PROVE  CopyInv'
<1>0. /\ redis_list \in Seq(Signals) /\ fallback \in Seq(Signals)
      /\ Once(redis_list) /\ Once(fallback)
      /\ \A s \in Signals : consumed[s] \in Nat /\ s # None
    BY QueueAssumption DEF CopyInv, StoredOnce, TypeOK
<1> DEFINE Harmless ==
        /\ StoredOnce' /\ Elements(fallback)' \subseteq Elements(fallback)
        /\ \A s \in Signals : Copies(s)' <= Copies(s)
<1>1. CASE GetStart \/ GetNothingInRedis \/ GetReturnsNone
    <2>1. UNCHANGED <<redis_list, fallback, put, returned, consumed>>
        BY <1>1 DEF GetStart, GetNothingInRedis, GetReturnsNone
    <2>2. get'.sig = None
        BY <1>1 DEF GetStart, GetNothingInRedis, GetReturnsNone, NoGet, At
    <2>3. Harmless
        BY <1>0, <2>1, <2>2 DEF StoredOnce, Copies, Ind
    <2> QED
        BY <2>1, <2>3, NoNewCopy
<1>2. CASE GetPopped
    <2>1. /\ get.sig = None /\ get'.sig = Head(redis_list) /\ redis_list' = Tail(redis_list)
          /\ redis_list # <<>>
          /\ UNCHANGED <<fallback, put, returned, consumed>>
        BY <1>2, IdleGetHoldsNothing DEF GetPopped, At
    <2>2. Once(redis_list') /\ Elements(redis_list') = Elements(redis_list) \ {Head(redis_list)}
          /\ Head(redis_list) \in Elements(redis_list)
        BY <1>0, <2>1, OnceTail
    <2>3. Harmless
        BY <1>0, <2>1, <2>2 DEF StoredOnce, Copies, Ind
    <2> QED
        BY <2>1, <2>3, NoNewCopy
<1>3. CASE GetReturnsRedis
    <2>1. /\ get.sig \in Signals /\ get'.sig = None
          /\ UNCHANGED <<redis_list, fallback, put, returned>>
        BY <1>3, GetSignal DEF GetReturnsRedis, NoGet, At
    <2>2. \A s \in Signals : consumed'[s] = consumed[s] + Ind(get.sig = s)
        BY <1>0, <1>3, <2>1 DEF GetReturnsRedis, TypeOK, Ind
    <2>3. Harmless
        BY <1>0, <2>1, <2>2 DEF StoredOnce, Copies, Ind
    <2> QED
        BY <2>1, <2>3, NoNewCopy
<1>4. CASE GetFails
    <2>1. get'.sig = None /\ UNCHANGED <<redis_list, fallback, put, returned, consumed>>
        BY <1>4 DEF GetFails, At
    <2>2. Harmless
        BY <1>0, <2>1 DEF StoredOnce, Copies, Ind
    <2> QED
        BY <2>1, <2>2, NoNewCopy
<1>5. CASE GetReturnsFallback
    <2>1. /\ get.sig = None /\ get'.sig = None /\ fallback # <<>> /\ fallback' = Tail(fallback)
          /\ UNCHANGED <<redis_list, put, returned>>
        BY <1>5, IdleGetHoldsNothing DEF GetReturnsFallback, NoGet, At
    <2>2. Once(fallback') /\ Elements(fallback') = Elements(fallback) \ {Head(fallback)}
          /\ Head(fallback) \in Elements(fallback) /\ Head(fallback) \in Signals
        BY <1>0, <2>1, OnceTail
    <2>3. \A s \in Signals : consumed'[s] = consumed[s] + Ind(Head(fallback) = s)
        BY <1>0, <1>5, <2>2 DEF GetReturnsFallback, TypeOK, Ind
    <2>4. Harmless
        BY <1>0, <2>1, <2>2, <2>3 DEF StoredOnce, Copies, Ind
    <2> QED
        BY <2>1, <2>4, NoNewCopy
<1>6. CASE OtherUserFails \/ UNCHANGED vars
    <2>1. UNCHANGED <<redis_list, fallback, get, put, returned, consumed>>
        BY <1>6 DEF OtherUserFails, vars
    <2>2. Harmless
        BY <1>0, <2>1 DEF StoredOnce, Copies, Ind
    <2> QED
        BY <2>1, <2>2, NoNewCopy
<1>7. CASE Restart
    <2>1. /\ get'.sig = None /\ fallback' = <<>> /\ UNCHANGED <<redis_list, returned, consumed>>
          /\ put' = [p \in Producers |-> NoPut]
        BY <1>7 DEF Restart, NoGet, At
    <2>2. Elements(fallback)' = {} /\ Once(fallback)'
        BY <2>1 DEF Elements, Once
    <2>3. Harmless
        BY <1>0, <2>1, <2>2 DEF StoredOnce, Copies, Ind
    <2> QED
        BY <2>1, <2>3, NoNewCopy
<1> QED
    BY <1>1, <1>2, <1>3, <1>4, <1>5, <1>6, <1>7 DEF Get

(* put() of s ends, or reaches the push; the other puts go on.             *)
LEMMA PutMoves ==
    ASSUME TypeOK, TypeOK', CopyInv, StoredOnce', NEW p \in Producers, NEW s \in Signals,
           NEW st \in PutStates, put' = [put EXCEPT ![p] = st],
           st = NoPut \/ (st.sig = s /\ returned'[s] = "pending" /\ (st.pc # "pushed" => Copies(s)' = 0)),
           put[p].sig = s \/ returned[s] = "never put",
           \A x \in Signals : x # s =>
             /\ returned'[x] = returned[x] /\ Copies(x)' = Copies(x)
             /\ x \in Elements(fallback)' => x \in Elements(fallback),
           Copies(s)' <= MostCopies(s)',
           returned'[s] = "pending" => s \notin Elements(fallback)'
    PROVE  CopyInv'
<1>1. CopiesBounded'
    BY DEF CopyInv, CopiesBounded, MostCopies
<1>2. PutsDistinct'
    <2> SUFFICES ASSUME NEW q \in Producers, NEW x \in Signals, put'[q].sig = x
                 PROVE  /\ returned'[x] = "pending"
                        /\ \A r \in Producers : put'[r].sig = x => r = q
                        /\ put'[q].pc # "pushed" => Copies(x)' = 0
        BY DEF PutsDistinct
    <2>1. \A r \in Producers : put'[r] = IF r = p THEN st ELSE put[r]
        BY DEF TypeOK
    <2>2. \A r \in Producers : r # p => put[r].sig # s
        BY DEF CopyInv, PutsDistinct
    <2>5. NoPut.sig \notin Signals
        BY QueueAssumption DEF NoPut, At
    <2>6. \A y \in Signals : st.sig = y => y = s
        BY <2>5
    <2>3. CASE q = p
        <3>1. st.sig = x
            BY <2>1, <2>3
        <3>2. x = s
            BY <2>6, <3>1
        <3>3. st # NoPut
            BY <2>5, <3>1
        <3>4. /\ returned'[s] = "pending"
              /\ st.pc # "pushed" => Copies(s)' = 0
            BY <3>3
        <3>5. put'[q] = st
            BY <2>1, <2>3
        <3>6. \A r \in Producers : put'[r].sig = s => r = q
            BY <2>1, <2>2, <2>3
        <3> QED
            BY <3>2, <3>4, <3>5, <3>6
    <2>4. CASE q # p
        <3>1. put'[q] = put[q] /\ put[q].sig = x /\ x # s
            BY <2>1, <2>2, <2>4
        <3>2. /\ returned[x] = "pending"
              /\ \A r \in Producers : put[r].sig = x => r = q
              /\ put[q].pc # "pushed" => Copies(x) = 0
            BY <3>1 DEF CopyInv, PutsDistinct
        <3>3. st.sig # x
            BY <2>6, <3>1
        <3>4. \A r \in Producers : put'[r].sig = x => r = q
            BY <2>1, <3>2, <3>3
        <3>5. returned'[x] = returned[x] /\ Copies(x)' = Copies(x)
            BY <3>1
        <3> QED
            BY <3>1, <3>2, <3>4, <3>5
    <2> QED
        BY <2>3, <2>4
<1> QED
    BY <1>1, <1>2 DEF CopyInv

(* Putting a signal in memory, directly or after a push whose reply was    *)
(* lost.                                                                   *)
LEMMA PutFallbackCopies ==
    ASSUME TypeOK, TypeOK', CopyInv, NEW p \in Producers, NEW s \in Signals, PutFallback(p, s),
           UNCHANGED <<redis_list, get, consumed>>,
           Copies(s) <= 1, s \notin Elements(fallback),
           put[p].sig = s \/ returned[s] = "never put"
    PROVE  CopyInv'
<1>1. /\ fallback \in Seq(Signals) /\ Once(redis_list) /\ Once(fallback)
      /\ \A x \in Signals : consumed[x] \in Nat /\ Copies(x) \in Nat
    BY CopiesNat DEF TypeOK, CopyInv, StoredOnce
<1>2. Once(fallback') /\ Elements(fallback') \subseteq Elements(fallback) \cup {s}
    <2>1. CASE Len(fallback) < QueueMax
        <3>1. fallback' = Append(fallback, s)
            BY <2>1 DEF PutFallback
        <3> QED
            BY <1>1, <3>1, OnceAppend, ElementsAppend
    <2>2. CASE ~ (Len(fallback) < QueueMax)
        BY <1>1, <2>2 DEF PutFallback
    <2> QED
        BY <2>1, <2>2
<1>3. Elements(fallback) \subseteq Elements(fallback')
    <2>1. CASE Len(fallback) < QueueMax
        <3>1. fallback' = Append(fallback, s)
            BY <2>1 DEF PutFallback
        <3>2. Elements(Append(fallback, s)) = Elements(fallback) \cup {s}
            BY <1>1, ElementsAppend
        <3> QED
            BY <3>1, <3>2
    <2>2. CASE ~ (Len(fallback) < QueueMax)
        BY <1>1, <2>2 DEF PutFallback
    <2> QED
        BY <2>1, <2>2
<1>4. /\ put' = [put EXCEPT ![p] = NoPut]
      /\ returned'[s] \in {"accepted", "refused"}
      /\ \A x \in Signals : x # s => returned'[x] = returned[x]
    BY DEF PutFallback, TypeOK
<1>5. \A x \in Signals : x # s => Copies(x)' = Copies(x)
    BY <1>1, <1>2, <1>3 DEF Copies, Ind
<1>6. Copies(s)' <= 2
    BY SecondCopy
<1>7. MostCopies(s)' = 2
    BY <1>4 DEF MostCopies
<1> QED
    BY <1>1, <1>2, <1>4, <1>5, <1>6, <1>7, States, PutMoves DEF StoredOnce

(* What a waiting put() knows of its signal.                               *)
LEMMA PendingPut ==
    ASSUME TypeOK, CopyInv, NEW p \in Producers, put[p].pc \in {"llen", "rpush", "pushed"}
    PROVE  /\ put[p].sig \in Signals /\ returned[put[p].sig] = "pending"
           /\ Copies(put[p].sig) <= 1 /\ put[p].sig \notin Elements(fallback)
           /\ put[p].pc # "pushed" => Copies(put[p].sig) = 0
<1>1. put[p].sig \in Signals
    BY PutSignal
<1> QED
    BY <1>1 DEF CopyInv, PutsDistinct, CopiesBounded, MostCopies

(* put() makes a copy of a signal that has none, and a second one only     *)
(* after a push without a reply.                                           *)
LEMMA PutCopies ==
    ASSUME TypeOK, TypeOK', CopyInv,
           NEW p \in Producers, (\E s \in Signals : PutStart(p, s)) \/ Put(p)
    PROVE  CopyInv'
<1>0. /\ redis_list \in Seq(Signals) /\ StoredOnce
      /\ \A x \in Signals : consumed[x] \in Nat /\ Copies(x) \in Nat /\ x # None
    BY CopiesNat, QueueAssumption DEF TypeOK, CopyInv
<1>1. ASSUME UNCHANGED <<redis_list, fallback, get, consumed>>
      PROVE  StoredOnce' /\ \A x \in Signals : Copies(x)' = Copies(x)
    BY <1>0, <1>1 DEF StoredOnce, Copies
<1>2. ASSUME NEW s \in Signals, PutStart(p, s) PROVE CopyInv'
    <2>1. /\ put[p] = NoPut /\ returned[s] = "never put" /\ UNCHANGED <<redis_list, get, consumed>>
          /\ Copies(s) = 0 /\ s \notin Elements(fallback)
        <3>1. returned[s] = "never put" /\ MostCopies(s) = 0
            BY <1>2 DEF PutStart, MostCopies
        <3>2. Copies(s) <= 0 /\ Copies(s) \in Nat
            BY <1>0, <3>1 DEF CopyInv, CopiesBounded
        <3>3. s \notin Elements(fallback)
            BY <1>0, <3>2 DEF Copies, Ind
        <3>4. Copies(s) = 0
            BY <3>2
        <3>5. put[p] = NoPut /\ UNCHANGED <<redis_list, get, consumed>>
            BY <1>2 DEF PutStart
        <3> QED
            BY <3>1, <3>3, <3>4, <3>5
    <2>2. CASE available
        <3>1. /\ put' = [put EXCEPT ![p] = At("llen", s)] /\ fallback' = fallback
              /\ returned' = [returned EXCEPT ![s] = "pending"]
            BY <1>2, <2>2 DEF PutStart
        <3>2. StoredOnce' /\ \A x \in Signals : Copies(x)' = Copies(x)
            BY <1>1, <2>1, <3>1
        <3>3. returned'[s] = "pending" /\ \A x \in Signals : x # s => returned'[x] = returned[x]
            BY <3>1 DEF TypeOK
        <3>4. At("llen", s) \in PutStates /\ At("llen", s).sig = s
            BY States DEF At
        <3>5. Copies(s)' = 0 /\ MostCopies(s)' = 1
            BY <2>1, <3>2, <3>3 DEF MostCopies
        <3>6. Copies(s)' <= MostCopies(s)'
            BY <3>5
        <3>7. /\ s \notin Elements(fallback)'
              /\ \A x \in Signals : x \in Elements(fallback)' => x \in Elements(fallback)
            BY <2>1, <3>1
        <3> HIDE DEF CopyInv
        <3> QED
            BY <2>1, <3>1, <3>2, <3>3, <3>4, <3>5, <3>6, <3>7, PutMoves
    <2>3. CASE ~ available
        <3>1. PutFallback(p, s)
            BY <1>2, <2>3 DEF PutStart
        <3>2. Copies(s) = 0
            BY <2>1
        <3>3. Copies(s) <= 1
            BY <3>2
        <3> QED
            BY <2>1, <3>1, <3>3, PutFallbackCopies
    <2> QED
        BY <2>2, <2>3
<1> SUFFICES ASSUME NEW s \in Signals, put[p].sig = s, Put(p) PROVE CopyInv'
    <2>1. Put(p) => put[p].sig \in Signals
        BY PutSignal DEF Put, PutSized, PutPushed, PutAccepted, PutFails
    <2> QED
        BY <1>2, <2>1
<1>3. ASSUME put[p].pc \in {"llen", "rpush", "pushed"}
      PROVE  /\ returned[s] = "pending" /\ Copies(s) <= 1 /\ s \notin Elements(fallback)
             /\ put[p].pc # "pushed" => Copies(s) = 0
    BY <1>3, PendingPut
<1>4. ASSUME put[p].pc \in {"llen", "rpush", "pushed"}, PutFallback(p, s),
             UNCHANGED <<redis_list, get, consumed>>
      PROVE  CopyInv'
    BY <1>3, <1>4, PutFallbackCopies
\* The put answers and leaves no copy behind but those that are there.
<1>5. ASSUME NEW a \in {"accepted", "refused"}, put[p].pc \in {"llen", "pushed"},
             put' = [put EXCEPT ![p] = NoPut], returned' = [returned EXCEPT ![s] = a],
             UNCHANGED <<redis_list, fallback, get, consumed>>
      PROVE  CopyInv'
    <2>1. Copies(s) <= 1 /\ s \notin Elements(fallback)
        BY <1>3, <1>5
    <2>2. StoredOnce' /\ \A x \in Signals : Copies(x)' = Copies(x)
        BY <1>1, <1>5
    <2>3. returned'[s] = a /\ \A x \in Signals : x # s => returned'[x] = returned[x]
        BY <1>5, <2>1 DEF TypeOK
    <2>4. MostCopies(s)' = 2
        BY <2>3 DEF MostCopies
    <2>5. Copies(s)' <= MostCopies(s)'
        BY <1>0, <2>1, <2>2, <2>4
    <2> QED
        BY <1>5, <2>1, <2>2, <2>3, <2>5, States, PutMoves
<1>6. CASE PutSized(p)
    <2>1. put[p].pc = "llen" /\ UNCHANGED <<redis_list, available, get, consumed, lost, restarts>>
        BY <1>6 DEF PutSized
    <2>2. CASE Len(redis_list) >= QueueMax
        <3>1. put' = [put EXCEPT ![p] = NoPut] /\ returned' = [returned EXCEPT ![s] = "refused"]
              /\ fallback' = fallback
            BY <1>6, <2>2 DEF PutSized
        <3> QED
            BY <1>5, <2>1, <3>1
    <2>3. CASE ~ (Len(redis_list) >= QueueMax) /\ available
        <3>1. put' = [put EXCEPT ![p] = At("rpush", s)] /\ UNCHANGED <<fallback, returned>>
            BY <1>6, <2>3 DEF PutSized
        <3>2. StoredOnce' /\ \A x \in Signals : Copies(x)' = Copies(x)
            BY <1>1, <2>1, <3>1
        <3>3. s \in Signals /\ returned[s] = "pending" /\ Copies(s) = 0 /\ s \notin Elements(fallback)
            BY <1>3, <2>1
        <3>4. At("rpush", s) \in PutStates /\ At("rpush", s).sig = s /\ MostCopies(s)' = 1 /\ Copies(s)' = 0
            BY <3>1, <3>2, <3>3, States DEF At, MostCopies
        <3>5. /\ Copies(s)' <= MostCopies(s)' /\ s \notin Elements(fallback)'
              /\ \A x \in Signals : x \in Elements(fallback)' => x \in Elements(fallback)
              /\ returned' = returned
            BY <3>1, <3>3, <3>4
        <3> QED
            BY <3>1, <3>2, <3>3, <3>4, <3>5, PutMoves
    <2>4. CASE ~ (Len(redis_list) >= QueueMax) /\ ~ available
        <3>1. PutFallback(p, s)
            BY <1>6, <2>4 DEF PutSized
        <3> QED
            BY <1>4, <2>1, <3>1
    <2> QED
        BY <2>2, <2>3, <2>4
<1>7. CASE PutPushed(p)
    <2>1. /\ put[p].pc = "rpush" /\ redis_list' = Append(redis_list, s)
          /\ put' = [put EXCEPT ![p] = At("pushed", s)]
          /\ UNCHANGED <<fallback, get, returned, consumed>>
        BY <1>7 DEF PutPushed
    <2>2. s \in Signals /\ returned[s] = "pending" /\ Copies(s) = 0 /\ s \notin Elements(fallback)
        BY <1>3, <2>1
    <2>3. s \notin Elements(redis_list)
        BY <1>0, <2>2 DEF Copies, Ind
    <2>4. Elements(redis_list)' = Elements(redis_list) \cup {s} /\ Once(redis_list)'
        BY <1>0, <2>1, <2>2, <2>3, ElementsAppend, OnceAppend DEF StoredOnce
    <2>5. StoredOnce'
        BY <1>0, <2>1, <2>4 DEF StoredOnce
    <2>6. \A x \in Signals : x # s => Copies(x)' = Copies(x)
        BY <2>1, <2>4 DEF Copies
    <2>7. Copies(s)' = Copies(s) + 1
        BY <1>0, <2>1, <2>2, <2>3, <2>4 DEF Copies, Ind
    <2>8. At("pushed", s) \in PutStates /\ At("pushed", s).sig = s /\ At("pushed", s).pc = "pushed"
          /\ MostCopies(s)' = 1 /\ Copies(s)' = 1
        BY <2>1, <2>2, <2>7, States DEF At, MostCopies
    <2>9. /\ Copies(s)' <= MostCopies(s)' /\ s \notin Elements(fallback)'
          /\ \A x \in Signals : x \in Elements(fallback)' => x \in Elements(fallback)
        BY <2>1, <2>2, <2>8
    <2> QED
        BY <2>1, <2>2, <2>5, <2>6, <2>8, <2>9, PutMoves
<1>8. CASE PutAccepted(p)
    BY <1>5, <1>8 DEF PutAccepted
<1>9. CASE PutFails(p)
    BY <1>4, <1>9 DEF PutFails
<1> QED
    BY <1>2, <1>6, <1>7, <1>8, <1>9 DEF Put

(* A signal is handed to the router twice at most: the second time after a *)
(* push that succeeded although its reply was lost.                        *)
THEOREM OneDuplicateHolds == Spec => []AtMostOneDuplicate
<1>1. Init => CopyInv
    <2> SUFFICES ASSUME Init PROVE CopyInv
        OBVIOUS
    <2>0. redis_list = <<>> /\ fallback = <<>>
        BY DEF Init
    <2>5. DOMAIN <<>> = {}
        OBVIOUS
    <2>1. Elements(redis_list) = {} /\ Elements(fallback) = {} /\ StoredOnce
        <3>1. Elements(<<>>) = {}
            BY <2>5 DEF Elements
        <3>2. Once(<<>>)
            BY <2>5 DEF Once
        <3> QED
            BY <2>0, <3>1, <3>2 DEF StoredOnce
    <2>2. \A s \in Signals : consumed[s] = 0 /\ get.sig # s /\ returned[s] = "never put"
        BY QueueAssumption DEF Init, NoGet, At
    <2>3. CopiesBounded
        <3> SUFFICES ASSUME NEW s \in Signals
                     PROVE  Copies(s) <= MostCopies(s) /\ s \notin Elements(fallback)
            BY DEF CopiesBounded
        <3>3. consumed[s] = 0 /\ returned[s] = "never put"
            BY <2>2
        <3>1. s \notin Elements(redis_list) /\ s \notin Elements(fallback) /\ get.sig # s
            BY <2>1, <2>2
        <3>4. Copies(s) = 0
            BY <3>1, <3>3, NoCopy
        <3>5. MostCopies(s) = 0
            BY <3>3 DEF MostCopies
        <3>2. Copies(s) = 0 /\ MostCopies(s) = 0
            BY <3>4, <3>5
        <3> QED
            BY <2>1, <3>2
    <2>4. PutsDistinct
        <3>1. \A p \in Producers : put[p].sig \notin Signals
            BY QueueAssumption DEF Init, NoPut, At
        <3> QED
            BY <3>1 DEF PutsDistinct
    <2> QED
        BY <2>1, <2>3, <2>4 DEF CopyInv
<1>2. TypeOK /\ TypeOK' /\ CopyInv /\ [Next]_vars => CopyInv'
    BY GetCopies, PutCopies DEF Next
<1>3. TypeOK /\ CopyInv => AtMostOneDuplicate
    <2> SUFFICES ASSUME TypeOK, CopyInv, NEW s \in Signals PROVE consumed[s] <= 2
        BY DEF AtMostOneDuplicate
    <2>1. consumed[s] \in Nat /\ Copies(s) \in Nat
        BY CopiesNat
    <2>2. Copies(s) <= MostCopies(s)
        BY DEF CopyInv, CopiesBounded
    <2>3. MostCopies(s) \in Nat /\ MostCopies(s) <= 2
        BY DEF MostCopies
    <2>4. Copies(s) <= 2
        BY <2>1, <2>2, <2>3
    <2>5. consumed[s] <= Copies(s)
        BY <2>1 DEF Copies, Ind
    <2> QED
        BY <2>1, <2>4, <2>5
<1> QED
    BY <1>1, <1>2, <1>3, TypeCorrect, PTL DEF Spec
=============================================================================
