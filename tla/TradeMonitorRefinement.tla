----------------------- MODULE TradeMonitorRefinement -----------------------
(***************************************************************************)
(* The trade monitor implements TradeLifecycle: each of its steps advances *)
(* the life of at most one trade by one step, or none.                     *)
(***************************************************************************)
EXTENDS TradeMonitorProofs

SameLife(u) ==
    /\ exit'[u] = exit[u] /\ best'[u] = best[u] /\ entry_2'[u] = entry_2[u]
    /\ status'[u] = "CANCELLED" <=> status[u] = "CANCELLED"

(* What a step of t's evaluation does to the variables of the mapping.     *)
Moves(t) ==
    /\ \A u \in Trades \ {t} : SameLife(u)
    /\ best'[t] \in best[t]..2
    /\ exit'[t] = exit[t] \/ best'[t] = best[t]
    /\ status'[t] = "CANCELLED" => exit'[t] = exit[t] /\ best'[t] = best[t]

LEMMA JudgeMoves ==
    ASSUME SignalTypes, NEW t \in Trades, NEW p \in Int, Judge(t, p)
    PROVE  Moves(t)
<1>1. CASE UNCHANGED signalVars
    BY <1>1 DEF signalVars, SignalTypes, Moves, SameLife
<1>2. CASE StopOut(t, p)
    BY <1>2 DEF StopOut, StopLabel, SignalTypes, Moves, SameLife
<1>3. CASE Invalidate(t, p)
    BY <1>3 DEF Invalidate, SignalTypes, Moves, SameLife
<1>4. CASE FullTP(t)
    BY <1>4 DEF FullTP, SignalTypes, Moves, SameLife
<1>5. CASE HitTP2(t, p) \/ HitTP1(t, p) \/ NoTarget(t, p) \/ Cancel(t)
    <2>1. UNCHANGED <<entry_2, best, exit>> /\ \A u \in Trades \ {t} : status'[u] = status[u]
        BY <1>5 DEF HitTP2, HitTP1, NoTarget, Cancel, SignalTypes
    <2> QED
        BY <2>1 DEF SignalTypes, Moves, SameLife
<1> QED
    BY <1>1, <1>2, <1>3, <1>4, <1>5 DEF Judge, TakeProfit, HitTP3

LEMMA EvaluateMoves ==
    ASSUME SignalTypes, NEW t \in Trades, NEW p \in Int, Evaluate(t, p)
    PROVE  Moves(t)
<1>1. CASE TooNew(t)
    BY <1>1 DEF TooNew, signalVars, SignalTypes, Moves, SameLife
<1>2. CASE Expire(t, p)
    BY <1>2 DEF Expire, SignalTypes, Moves, SameLife
<1>3. CASE Average(t, p)
    BY <1>3 DEF Average, SignalTypes, Moves, SameLife
<1> QED
    BY <1>1, <1>2, <1>3, JudgeMoves DEF Evaluate

(* A step of t's evaluation other than its end: nothing has been decided   *)
(* before it, and no outcome is recorded by it.                            *)
EvaluationStep(t) ==
    \/ NoPrice(t)
    \/ \E p \in Prices[t] : SendOrder(t, p) \/ EvaluateNow(t, p)
    \/ OrderAnswered(t) \/ DcaPosted(t)
    \/ TP2Posted(t) \/ TP1Posted(t)
    \/ \E k \in 1..2 : PartClosed(t, k)
    \/ LastPartClosed(t)

LEMMA EvaluationMoves ==
    ASSUME MonitorInv, NEW t \in Trades, EvaluationStep(t)
    PROVE  /\ Moves(t) /\ recorded' = recorded
           /\ exit[t] = None /\ status[t] # "CANCELLED"
<1>1. SignalTypes /\ SignalInv(t) /\ price[t] \in Int
    BY InvParts
<1>2. pc[t] \notin {"idle", "outcome", "cancel"} /\ recorded' = recorded
    BY DEF EvaluationStep, NoPrice, SendOrder, EvaluateNow, OrderAnswered, DcaPosted,
           TP2Posted, TP1Posted, PartClosed, LastPartClosed
<1>3. exit[t] = None /\ status[t] # "CANCELLED"
    BY <1>1, <1>2 DEF SignalInv, Over
<1>4. CASE NoPrice(t) \/ \E p \in Prices[t] : SendOrder(t, p)
    <2>1. UNCHANGED signalVars
        BY <1>4 DEF NoPrice, SendOrder
    <2> QED
        BY <2>1, <1>1, <1>2, <1>3 DEF signalVars, SignalTypes, Moves, SameLife
<1>5. CASE \E p \in Prices[t] : EvaluateNow(t, p)
    <2>1. PICK p \in Prices[t] : EvaluateNow(t, p)
        BY <1>5
    <2>2. p \in Int /\ Evaluate(t, p)
        BY <2>1, LevelsAssumption DEF EvaluateNow
    <2> QED
        BY <2>2, <1>1, <1>2, <1>3, EvaluateMoves
<1>6. CASE OrderAnswered(t)
    BY <1>6, <1>1, <1>2, <1>3, EvaluateMoves DEF OrderAnswered
<1>7. CASE DcaPosted(t)
    BY <1>7, <1>1, <1>2, <1>3, JudgeMoves DEF DcaPosted
<1>8. CASE TP2Posted(t)
    <2>1. best' = [best EXCEPT ![t] = 2] /\ UNCHANGED <<status, entry_2, exit>>
        BY <1>8 DEF TP2Posted
    <2> QED
        BY <2>1, <1>1, <1>2, <1>3 DEF SignalTypes, Moves, SameLife
<1>9. CASE TP1Posted(t)
    <2>1. best' = [best EXCEPT ![t] = IF @ < 1 THEN 1 ELSE @] /\ UNCHANGED <<status, entry_2, exit>>
        BY <1>9 DEF TP1Posted
    <2> QED
        BY <2>1, <1>1, <1>2, <1>3 DEF SignalTypes, Moves, SameLife
<1>10. CASE \E k \in 1..2 : PartClosed(t, k)
    <2>1. UNCHANGED <<status, entry_2, best, exit>>
        BY <1>10 DEF PartClosed
    <2> QED
        BY <2>1, <1>1, <1>2, <1>3 DEF SignalTypes, Moves, SameLife
<1>11. CASE LastPartClosed(t)
    <2>1. FullTP(t)
        BY <1>11 DEF LastPartClosed
    <2> QED
        BY <2>1, <1>1, <1>2, <1>3 DEF FullTP, SignalTypes, Moves, SameLife
<1> QED
    BY <1>4, <1>5, <1>6, <1>7, <1>8, <1>9, <1>10, <1>11 DEF EvaluationStep

-----------------------------------------------------------------------------
(* The mapped variables, as functions of the trade.                        *)
Phases == [u \in Trades |-> LifePhase(u)]
LifeResults == [u \in Trades |-> LifeResult(u)]

LEMMA OthersLive ==
    ASSUME NEW t \in Trades, \A u \in Trades \ {t} : SameLife(u) /\ recorded'[u] = recorded[u]
    PROVE  /\ Phases' = [Phases EXCEPT ![t] = LifePhase(t)']
           /\ LifeResults' = [LifeResults EXCEPT ![t] = LifeResult(t)']
<1>1. \A u \in Trades \ {t} : LifePhase(u)' = LifePhase(u) /\ LifeResult(u)' = LifeResult(u)
    BY DEF SameLife, LifePhase, LifeResult
<1> QED
    BY <1>1 DEF Phases, LifeResults

(* An evaluation's step announces a target, decides the end, cancels the   *)
(* trade, or does none of these.                                           *)
LEMMA EvaluationLives ==
    ASSUME MonitorInv, MonitorInv', NEW t \in Trades, Moves(t), recorded' = recorded,
           exit[t] = None, status[t] # "CANCELLED"
    PROVE  Life!FirstTarget(t) \/ Life!SecondTarget(t) \/ Life!End(t) \/ Life!Cancel(t)
           \/ UNCHANGED <<Phases, LifeResults>>
<1>1. /\ SignalInv(t) /\ SignalInv(t)' /\ SignalTypes /\ SignalTypes'
      /\ recorded \in [Trades -> Nat]
    <2>1. SignalInv(t) /\ SignalTypes /\ recorded \in [Trades -> Nat]
        BY TypeSplit DEF MonitorInv, OtherTypes
    <2>2. TypeOK' /\ SignalInv(t)'
        BY DEF MonitorInv
    <2>3. SignalTypes'
        BY <2>2 DEF TypeOK, SignalTypes
    <2> QED
        BY <2>1, <2>2, <2>3
<1>2. /\ Phases' = [Phases EXCEPT ![t] = LifePhase(t)']
      /\ LifeResults' = [LifeResults EXCEPT ![t] = LifeResult(t)']
    BY OthersLive DEF Moves
<1>3. recorded[t] = 0 /\ recorded'[t] = 0 /\ best[t] \in 0..2 /\ best'[t] \in best[t]..2
    <2>1. recorded[t] = 0
        BY <1>1 DEF SignalInv
    <2>2. best[t] \in 0..2
        BY <1>1 DEF SignalTypes
    <2> QED
        BY <2>1, <2>2 DEF Moves
<1>4. /\ LifePhase(t) = IF best[t] = 2 THEN "locked" ELSE IF best[t] = 1 THEN "proven" ELSE "open"
      /\ LifeResult(t) = None
    BY <1>3 DEF LifePhase, LifeResult
<1>5. Phases[t] = LifePhase(t) /\ LifeResults[t] = LifeResult(t)
    BY DEF Phases, LifeResults
<1>6. Phases = [u \in Trades |-> LifePhase(u)] /\ LifeResults = [u \in Trades |-> LifeResult(u)]
    BY DEF Phases, LifeResults
<1>7. CASE exit'[t] = None /\ status'[t] # "CANCELLED"
    <2>1. LifeResult(t)' = None
        BY <1>7 DEF LifeResult
    <2>2. UNCHANGED LifeResults
        BY <2>1, <1>2, <1>4, <1>5, <1>6
    <2>3. LifePhase(t)' =
              IF best'[t] = 2 THEN "locked" ELSE IF best'[t] = 1 THEN "proven" ELSE "open"
        BY <1>3, <1>7 DEF LifePhase
    <2>4. CASE best'[t] = best[t]
        <3>1. UNCHANGED Phases
            BY <2>3, <2>4, <1>2, <1>4, <1>5, <1>6
        <3> QED
            BY <3>1, <2>2
    <2>5. CASE best[t] = 0 /\ best'[t] = 1
        <3>1. LifePhase(t) = "open" /\ LifePhase(t)' = "proven"
            BY <2>3, <2>5, <1>4
        <3>2. Phases[t] = "open" /\ Phases' = [Phases EXCEPT ![t] = "proven"]
            BY <3>1, <1>2, <1>5
        <3> QED
            BY <3>2, <2>2 DEF Life!FirstTarget, Phases, LifeResults
    <2>6. CASE best[t] \in {0, 1} /\ best'[t] = 2
        <3>1. Phases[t] \in {"open", "proven"} /\ Phases' = [Phases EXCEPT ![t] = "locked"]
            BY <2>3, <2>6, <1>2, <1>4, <1>5
        <3> QED
            BY <3>1, <2>2 DEF Life!SecondTarget, Phases, LifeResults
    <2> QED
        BY <2>4, <2>5, <2>6, <1>3
<1>8. CASE exit'[t] # None /\ status'[t] # "CANCELLED"
    <2> DEFINE r == LifeResult(t)'
    <2>1. exit'[t] \in Exits /\ best'[t] = best[t]
        BY <1>1, <1>8 DEF Moves, SignalTypes
    <2>2. r = [how |-> exit'[t].how, kept |-> exit'[t].at >= BreakEven[entry_2'[t]]]
        BY <1>8 DEF LifeResult
    <2>3. r \in Life!Results /\ r.how = exit'[t].how
          /\ r.kept = (exit'[t].at >= BreakEven[entry_2'[t]])
        BY <2>1, <2>2 DEF Life!Results, Exits
    <2>4. LifePhase(t)' = "ended"
        BY <1>3, <1>8 DEF LifePhase
    <2>5. Phases[t] \in {"open", "proven", "locked"} /\ (Phases[t] # "open" => best[t] >= 1)
        BY <1>3, <1>4, <1>5
    <2>6. Phases[t] # "open" /\ r.how # "expired" => r.kept
        <3>1. exit'[t].how \in {"expired", "stop", "invalidated", "full"}
            BY <2>1 DEF Exits
        <3>2. best'[t] >= 1 /\ exit'[t].how # "expired" =>
                  exit'[t].at >= BreakEven[entry_2'[t]]
            BY <3>1, <1>1, <1>8 DEF SignalInv, Ended
        <3> QED
            BY <3>2, <2>1, <2>3, <2>5
    <2>7. Phases' = [Phases EXCEPT ![t] = "ended"] /\ LifeResults' = [LifeResults EXCEPT ![t] = r]
        BY <2>4, <1>2
    <2> HIDE DEF r
    <2> QED
        BY <2>3, <2>5, <2>6, <2>7 DEF Life!End, Phases, LifeResults
<1>9. CASE status'[t] = "CANCELLED"
    <2>1. exit'[t] = None /\ best'[t] = best[t]
        BY <1>9 DEF Moves
    <2>2. ~ (best[t] >= 1)
        BY <1>1, <1>9, <2>1 DEF SignalInv
    <2>3. Phases[t] = "open" /\ LifePhase(t)' = "cancelled"
        BY <1>3, <1>4, <1>5, <1>9, <2>2 DEF LifePhase
    <2>4. LifeResult(t)' = None
        BY <2>1 DEF LifeResult
    <2>5. UNCHANGED LifeResults
        BY <2>4, <1>2, <1>4, <1>5, <1>6
    <2>6. Phases' = [Phases EXCEPT ![t] = "cancelled"]
        BY <2>3, <1>2
    <2> QED
        BY <2>3, <2>5, <2>6 DEF Life!Cancel, Phases, LifeResults
<1> QED
    BY <1>7, <1>8, <1>9

(* The end of an evaluation reports what was decided.                      *)
LEMMA FinishLives ==
    ASSUME MonitorInv, MonitorInv', NEW t \in Trades, Finish(t)
    PROVE  Life!Report(t)
<1>1. /\ pc[t] = "outcome" /\ recorded' = [recorded EXCEPT ![t] = @ + 1]
      /\ UNCHANGED signalVars
    BY DEF Finish
<1>2. SignalInv(t) /\ recorded \in [Trades -> Nat]
    BY DEF MonitorInv, TypeOK
<1>3. recorded[t] = 0 /\ recorded'[t] = 1 /\ exit[t] # None /\ status[t] # "CANCELLED"
    BY <1>1, <1>2 DEF SignalInv, Final
<1>4. \A u \in Trades \ {t} : SameLife(u) /\ recorded'[u] = recorded[u]
    BY <1>1, <1>2 DEF SameLife, signalVars
<1>5. LifePhase(t) = "ended" /\ LifePhase(t)' = "reported" /\ LifeResult(t)' = LifeResult(t)
    BY <1>1, <1>3 DEF LifePhase, LifeResult, signalVars
<1>6. /\ Phases' = [Phases EXCEPT ![t] = "reported"] /\ Phases[t] = "ended"
      /\ LifeResults' = LifeResults
    <2>1. Phases' = [Phases EXCEPT ![t] = "reported"]
        BY <1>4, <1>5, OthersLive
    <2>2. LifeResults' = [LifeResults EXCEPT ![t] = LifeResult(t)]
        BY <1>4, <1>5, OthersLive
    <2> QED
        BY <2>1, <2>2, <1>5 DEF Phases, LifeResults
<1> QED
    BY <1>6 DEF Life!Report, Phases, LifeResults

LEMMA StepLives ==
    ASSUME MonitorInv, MonitorInv', [Next]_vars
    PROVE  [Life!Next]_Life!vars
<1>1. CASE \E t \in Trades : EvaluationStep(t)
    <2>1. PICK t \in Trades : EvaluationStep(t)
        BY <1>1
    <2>2. Moves(t) /\ recorded' = recorded /\ exit[t] = None /\ status[t] # "CANCELLED"
        BY <2>1, EvaluationMoves
    <2> QED
        BY <2>2, EvaluationLives DEF Life!Next, Life!vars, Phases, LifeResults
<1>2. CASE \E t \in Trades : Finish(t)
    BY <1>2, FinishLives DEF Life!Next
<1>3. CASE UNCHANGED <<signalVars, recorded>>
    <2>1. UNCHANGED <<status, exit, best, entry_2, recorded>>
        BY <1>3 DEF signalVars
    <2>2. \A t \in Trades : LifePhase(t)' = LifePhase(t) /\ LifeResult(t)' = LifeResult(t)
        BY <2>1 DEF LifePhase, LifeResult
    <2> QED
        BY <2>2 DEF Life!vars
<1>4. \/ \E t \in Trades : EvaluationStep(t) \/ Finish(t)
      \/ UNCHANGED <<signalVars, recorded>>
    BY DEF Next, Evaluation, EvaluationStep, CancelPosted, StartRound, LimitFills, CleanupExpired,
           Tick, vars, signalVars
<1> QED
    BY <1>1, <1>2, <1>3, <1>4

(* Every behaviour of the trade monitor is a behaviour of TradeLifecycle.  *)
THEOREM Implements == Spec => ImplementsLifecycle
<1>1. Init => Life!Init
    BY DEF Init, Life!Init, LifePhase, LifeResult
<1>2. MonitorInv /\ MonitorInv' /\ [Next]_vars => [Life!Next]_Life!vars
    BY StepLives
<1> QED
    BY <1>1, <1>2, Invariance, PTL DEF Spec, ImplementsLifecycle, Life!Spec
=============================================================================
