------------------------- MODULE TradeMonitorProofs -------------------------
(***************************************************************************)
(* Type correctness and safety of the trade monitor and its orders for any *)
(* number of trades, any price levels in the assumed order, any prices and *)
(* any failures of the exchange.                                           *)
(***************************************************************************)
EXTENDS TradeMonitor, TLAPS

(* The part of the type invariant an evaluation touches.                   *)
SignalTypes ==
    /\ status \in [Trades -> Statuses]
    /\ stop \in [Trades -> Int]
    /\ entry_2 \in [Trades -> Bases]
    /\ best \in [Trades -> 0..2]
    /\ pc \in [Trades -> {"idle", "ready"} \cup Awaits]
    /\ exit \in [Trades -> Exits \cup {None}]

OtherTypes ==
    /\ tracked \in SUBSET Trades
    /\ age \in [Trades -> Nat]
    /\ price \in [Trades -> Int]
    /\ recorded \in [Trades -> Nat]
    /\ placed \in SUBSET Trades
    /\ qty \in [Trades -> Nat]
    /\ closed \in [Trades -> SUBSET (1..3)]
    /\ resting \in [Trades -> BOOLEAN]
    /\ position \in [Trades -> Int]
    /\ auto_execution \in BOOLEAN

LEMMA TypeSplit == TypeOK <=> SignalTypes /\ OtherTypes
BY DEF TypeOK, SignalTypes, OtherTypes

(* The order of the levels, and how a trailed stop relates to its floor.   *)
LEMMA Levels ==
    ASSUME NEW b \in Bases
    PROVE  /\ Entry[b] \in Int /\ BreakEven[b] \in Int
           /\ TP1[b] \in Int /\ TP2[b] \in Int /\ TP3[b] \in Int
           /\ InitialStop \in Int
           /\ Entry[b] <= BreakEven[b] /\ BreakEven[b] <= TP1[b]
           /\ TP1[b] <= TP2[b] /\ TP2[b] <= TP3[b]
BY LevelsAssumption

(* An entry below the stop is an average with a second entry beyond it.    *)
LEMMA WrongEntry ==
    ASSUME NEW b \in Bases, InitialStop > Entry[b]
    PROVE  b # None /\ b < InitialStop
<1>1. b # None
    BY LevelsAssumption DEF Bases
<1>2. b \in Int /\ b <= Entry[b]
    BY <1>1, LevelsAssumption DEF Bases
<1> QED
    BY <1>1, <1>2, Levels

LEMMA SecondEntry ==
    ASSUME NEW t \in Trades, NEW p \in DcaZone[t]
    PROVE  p \in Bases /\ p \in Int
BY LevelsAssumption DEF Bases

LEMMA TrailedStop ==
    ASSUME stop \in [Trades -> Int], NEW t \in Trades, NEW from \in Int, NEW p \in Int,
           Trailed(t, from, p)
    PROVE  /\ stop' \in [Trades -> Int]
           /\ stop'[t] \in Int /\ stop'[t] >= from
           /\ \A u \in Trades \ {t} : stop'[u] = stop[u]
<1>1. PICK d \in TrailDistances : stop' = [stop EXCEPT ![t] = Larger(from, p - d)]
    BY DEF Trailed
<1>2. d \in Int
    BY <1>1, LevelsAssumption
<1>3. Larger(from, p - d) \in Int /\ Larger(from, p - d) >= from
    BY <1>2 DEF Larger
<1> QED
    BY <1>1, <1>3

-----------------------------------------------------------------------------
(* What an evaluation does to the other trades and to the signal.          *)
SameSignal(u) ==
    /\ pc'[u] = pc[u] /\ status'[u] = status[u] /\ stop'[u] = stop[u]
    /\ entry_2'[u] = entry_2[u] /\ best'[u] = best[u] /\ exit'[u] = exit[u]

Others(t) == \A u \in Trades \ {t} : SameSignal(u)

(* The outcome of the trade t has just been decided.                       *)
Decided(t, how, at) ==
    /\ status' = [status EXCEPT ![t] = status'[t]] /\ status'[t] \in Final
    /\ exit' = [exit EXCEPT ![t] = [how |-> how, at |-> at]]
    /\ pc' = [pc EXCEPT ![t] = "outcome"]
    /\ UNCHANGED <<stop, entry_2, best>>

LEMMA DecidedTypes ==
    ASSUME SignalTypes, NEW t \in Trades,
           NEW how \in {"expired", "stop", "invalidated", "full"}, NEW at \in Int,
           Decided(t, how, at)
    PROVE  SignalTypes' /\ Others(t)
<1>1. [how |-> how, at |-> at] \in Exits
    BY DEF Exits
<1>2. exit' \in [Trades -> Exits \cup {None}]
    BY <1>1 DEF Decided, SignalTypes
<1>3. status' \in [Trades -> Statuses]
    BY DEF Decided, SignalTypes, Statuses, Over
<1>4. pc' \in [Trades -> {"idle", "ready"} \cup Awaits]
    BY DEF Decided, SignalTypes, Awaits
<1>5. UNCHANGED <<stop, entry_2, best>>
    BY DEF Decided
<1>6. SignalTypes'
    BY <1>2, <1>3, <1>4, <1>5 DEF SignalTypes
<1>7. Others(t)
    BY DEF Decided, SignalTypes, Others, SameSignal
<1> QED
    BY <1>6, <1>7

LEMMA DecidedKeeps ==
    ASSUME SignalTypes, NEW t \in Trades,
           NEW how \in {"expired", "stop", "invalidated", "full"}, NEW at \in Int,
           Decided(t, how, at), SignalInv(t), recorded' = recorded, tracked' = tracked,
           status[t] \notin Over,
           how # "expired" /\ best[t] >= 1 => at >= BreakEven[entry_2[t]]
    PROVE  SignalInv(t)'
<1>1. /\ pc'[t] = "outcome" /\ status'[t] \in Final
      /\ exit'[t] = [how |-> how, at |-> at]
      /\ best'[t] = best[t] /\ entry_2'[t] = entry_2[t]
      /\ recorded'[t] = recorded[t] /\ recorded[t] = 0
    BY DEF Decided, SignalTypes, SignalInv, Over
<1>2. exit'[t] # None
    BY <1>1, ExecutionAssumption
<1>3. exit'[t].how = how /\ exit'[t].at = at
    BY <1>1
<1>4. status'[t] \notin {"ACTIVE", "TP1_HIT", "TP2_HIT", "CANCELLED"}
    BY <1>1 DEF Final
<1>5. Ended(t, {"stop", "invalidated", "full"})' /\ best'[t] >= 1 =>
          exit'[t].at >= BreakEven[entry_2'[t]]
    BY <1>1, <1>3 DEF Ended
<1> QED
    BY <1>1, <1>2, <1>4, <1>5 DEF SignalInv, CancelFits

(* The verdicts that decide an outcome.                                    *)
LEMMA ProvenStop ==
    ASSUME SignalTypes, NEW t \in Trades, StopFits(t), SignalInv(t), best[t] >= 1,
           status[t] \notin Over
    PROVE  stop[t] >= BreakEven[entry_2[t]]
<1>1. status[t] \in Proven
    BY DEF SignalInv, SignalTypes, Statuses
<1>2. entry_2[t] \in Bases /\ stop[t] \in Int
    BY DEF SignalTypes
<1>3. BreakEven[entry_2[t]] <= TP1[entry_2[t]] /\ BreakEven[entry_2[t]] \in Int
      /\ TP1[entry_2[t]] \in Int
    BY <1>2, Levels
<1> QED
    BY <1>1, <1>2, <1>3 DEF StopFits, Proven

LEMMA StopOutDecides ==
    ASSUME SignalTypes, NEW t \in Trades, NEW p \in Int, StopOut(t, p)
    PROVE  Decided(t, "stop", stop[t])
<1>1. StopLabel(t) \in Final
    BY DEF StopLabel, Final
<1>2. status' = [status EXCEPT ![t] = StopLabel(t)] /\ status'[t] = StopLabel(t)
    BY DEF StopOut, SignalTypes
<1> QED
    BY <1>1, <1>2 DEF StopOut, Decided, Goto

LEMMA InvalidateDecides ==
    ASSUME SignalTypes, NEW t \in Trades, NEW p \in Int, Invalidate(t, p)
    PROVE  /\ Larger(p, stop[t]) \in Int /\ Larger(p, stop[t]) >= stop[t]
           /\ Decided(t, "invalidated", Larger(p, stop[t]))
<1>1. status' = [status EXCEPT ![t] = "INVALIDATED"] /\ status'[t] = "INVALIDATED"
    BY DEF Invalidate, SignalTypes
<1>2. Larger(p, stop[t]) \in Int /\ Larger(p, stop[t]) >= stop[t]
    BY DEF Larger, SignalTypes
<1> QED
    BY <1>1, <1>2 DEF Invalidate, Decided, Goto, Final

LEMMA FullTPDecides ==
    ASSUME SignalTypes, NEW t \in Trades, FullTP(t)
    PROVE  /\ TP3[entry_2[t]] \in Int /\ TP3[entry_2[t]] >= BreakEven[entry_2[t]]
           /\ Decided(t, "full", TP3[entry_2[t]])
<1>1. status' = [status EXCEPT ![t] = "FULL_TP_HIT"] /\ status'[t] = "FULL_TP_HIT"
    BY DEF FullTP, SignalTypes
<1>2. entry_2[t] \in Bases
    BY DEF SignalTypes
<1>3. TP3[entry_2[t]] \in Int /\ TP3[entry_2[t]] >= BreakEven[entry_2[t]]
    BY <1>2, Levels
<1> QED
    BY <1>1, <1>3 DEF FullTP, Decided, Goto, Final

LEMMA ExpireDecides ==
    ASSUME SignalTypes, NEW t \in Trades, NEW p \in Int, Expire(t, p)
    PROVE  Decided(t, "expired", p)
<1>1. status' = [status EXCEPT ![t] = "EXPIRED"] /\ status'[t] = "EXPIRED"
    BY DEF Expire, SignalTypes
<1> QED
    BY <1>1 DEF Expire, Decided, Goto, Final

(* A verdict that moves the evaluation on without deciding an outcome.     *)
LEMMA MovedTypes ==
    ASSUME SignalTypes, NEW t \in Trades, NEW l \in {"idle", "ready"} \cup Awaits, Goto(t, l),
           NEW st \in Statuses, status' = [status EXCEPT ![t] = st],
           UNCHANGED <<stop, entry_2, best, exit>>
    PROVE  SignalTypes' /\ Others(t) /\ pc'[t] = l /\ status'[t] = st
BY DEF SignalTypes, Goto, Others, SameSignal

LEMMA IdleTypes ==
    ASSUME SignalTypes, NEW t \in Trades, NEW l \in {"idle", "ready"} \cup Awaits, Goto(t, l),
           UNCHANGED signalVars
    PROVE  SignalTypes' /\ Others(t) /\ pc'[t] = l
BY DEF SignalTypes, Goto, Others, SameSignal, signalVars

-----------------------------------------------------------------------------
(* A step of the evaluation of t keeps the types, the other signals and    *)
(* the invariant of t, and never takes t back to an unsent order.          *)
Kept(t) ==
    /\ SignalTypes'
    /\ Others(t)
    /\ SignalInv(t)'
    /\ pc'[t] # "order"
    /\ status'[t] = "ACTIVE" => status[t] = "ACTIVE"
    /\ status'[t] # status[t] => Progress(status[t]) < Progress(status'[t])

Judging == {"ready", "order", "averaged"}

LEMMA DecidedKept ==
    ASSUME SignalTypes, NEW t \in Trades,
           NEW how \in {"expired", "stop", "invalidated", "full"}, NEW at \in Int,
           Decided(t, how, at), SignalInv(t), recorded' = recorded, tracked' = tracked,
           status[t] \notin Over,
           how # "expired" /\ best[t] >= 1 => at >= BreakEven[entry_2[t]]
    PROVE  Kept(t)
<1>1. SignalTypes' /\ Others(t)
    BY DecidedTypes
<1>2. SignalInv(t)'
    BY DecidedKeeps
<1>3. pc'[t] = "outcome" /\ status'[t] \in Final
    BY DEF Decided, SignalTypes
<1>4. Progress(status'[t]) = 3
    BY <1>3 DEF Progress, Final
<1>5. status[t] \in {"ACTIVE"} \cup Proven
    BY DEF SignalTypes, Statuses
<1>6. Progress(status[t]) \in 0..2
    BY <1>5 DEF Progress, Proven
<1>7. status'[t] # "ACTIVE"
    BY <1>3 DEF Final
<1> QED
    BY <1>1, <1>2, <1>3, <1>4, <1>6, <1>7 DEF Kept

LEMMA HitTP2Kept ==
    ASSUME SignalTypes, NEW t \in Trades, NEW p \in Int, HitTP2(t, p), SignalInv(t),
           recorded' = recorded, tracked' = tracked, status[t] \notin Over
    PROVE  Kept(t)
<1>1. SignalTypes' /\ Others(t) /\ pc'[t] = "tp2" /\ status'[t] = "TP2_HIT"
    BY MovedTypes DEF HitTP2, Statuses, Proven, Awaits
<1>2. best'[t] = best[t] /\ entry_2'[t] = entry_2[t] /\ exit'[t] = exit[t]
      /\ recorded'[t] = recorded[t]
    BY DEF HitTP2
<1>3. exit[t] = None /\ recorded[t] = 0
    BY DEF SignalInv, Over
<1>4. SignalInv(t)'
    BY <1>1, <1>2, <1>3 DEF SignalInv, CancelFits, Ended, Final, Over
<1>5. status[t] \in {"ACTIVE", "TP1_HIT"}
    BY DEF SignalTypes, Statuses, Proven, HitTP2
<1>6. Progress(status[t]) < Progress(status'[t])
    BY <1>1, <1>5 DEF Progress
<1> QED
    BY <1>1, <1>4, <1>6 DEF Kept

LEMMA HitTP1Kept ==
    ASSUME SignalTypes, NEW t \in Trades, NEW p \in Int, HitTP1(t, p), SignalInv(t),
           recorded' = recorded, tracked' = tracked, status[t] \notin Over
    PROVE  Kept(t)
<1>1. SignalTypes' /\ Others(t) /\ pc'[t] = "tp1" /\ status'[t] = "TP1_HIT"
    BY MovedTypes DEF HitTP1, Statuses, Proven, Awaits
<1>2. best'[t] = best[t] /\ entry_2'[t] = entry_2[t] /\ exit'[t] = exit[t]
      /\ recorded'[t] = recorded[t]
    BY DEF HitTP1
<1>3. exit[t] = None /\ recorded[t] = 0
    BY DEF SignalInv, Over
<1>4. SignalInv(t)'
    BY <1>1, <1>2, <1>3 DEF SignalInv, CancelFits, Ended, Final, Over
<1>5. status[t] = "ACTIVE"
    BY DEF SignalTypes, Statuses, HitTP1
<1>6. Progress(status[t]) < Progress(status'[t])
    BY <1>1, <1>5 DEF Progress
<1> QED
    BY <1>1, <1>4, <1>6 DEF Kept

(* Nothing about t changes but the point its evaluation has reached.       *)
LEMMA MovedOnKept ==
    ASSUME SignalTypes, NEW t \in Trades, NEW l \in {"idle", "close3"}, Goto(t, l),
           UNCHANGED signalVars, SignalInv(t), StopFits(t), ~ WrongSide(t),
           recorded' = recorded, tracked' = tracked, status[t] \notin Over
    PROVE  Kept(t)
<1>1. SignalTypes' /\ Others(t) /\ pc'[t] = l
    BY IdleTypes DEF Awaits
<1>2. CancelFits(t)'
    <2>1. /\ status[t] # "CANCELLED" /\ status'[t] = status[t] /\ entry_2'[t] = entry_2[t]
          /\ stop[t] \in Int /\ entry_2[t] \in Bases
        BY DEF signalVars, SignalTypes, Over
    <2>2. status[t] = "ACTIVE" => InitialStop <= Entry[entry_2[t]]
        BY <2>1, Levels DEF StopFits, WrongSide, Proven
    <2> QED
        BY <2>1, <2>2 DEF CancelFits
<1>3. SignalInv(t)'
    BY <1>1, <1>2 DEF SignalInv, StopFits, Ended, signalVars
<1> QED
    BY <1>1, <1>3 DEF Kept, signalVars

(* The stop of a proven trade is trailed from a floor that fits its status.*)
LEMMA TrailedFits ==
    ASSUME SignalTypes, NEW t \in Trades, NEW from \in Int, NEW p \in Int,
           Trailed(t, from, p), status[t] \in Proven,
           status[t] = "TP1_HIT" => from >= BreakEven[entry_2[t]],
           status[t] = "TP2_HIT" => from >= TP1[entry_2[t]],
           entry_2' = entry_2, status' = status
    PROVE  /\ StopFits(t)'
           /\ stop' \in [Trades -> Int]
           /\ \A u \in Trades \ {t} : stop'[u] = stop[u]
<1>1. /\ stop' \in [Trades -> Int] /\ stop'[t] \in Int /\ stop'[t] >= from
      /\ \A u \in Trades \ {t} : stop'[u] = stop[u]
    BY TrailedStop DEF SignalTypes
<1>2. entry_2[t] \in Bases
    BY DEF SignalTypes
<1>3. BreakEven[entry_2[t]] \in Int /\ TP1[entry_2[t]] \in Int
    BY <1>2, Levels
<1> QED
    BY <1>1, <1>3 DEF StopFits, Proven

LEMMA NoTargetKept ==
    ASSUME SignalTypes, NEW t \in Trades, NEW p \in Int, NoTarget(t, p), SignalInv(t),
           ~ WrongSide(t), StopFits(t), recorded' = recorded, tracked' = tracked,
           status[t] \notin Over
    PROVE  Kept(t)
<1>1. CASE status[t] \notin Proven
    <2>1. Goto(t, "idle") /\ UNCHANGED signalVars
        BY <1>1 DEF NoTarget, signalVars
    <2> QED
        BY <2>1, MovedOnKept
<1>2. CASE status[t] \in Proven
    <2>1. Trailed(t, stop[t], p) /\ Goto(t, "idle") /\ UNCHANGED <<status, entry_2, best, exit>>
        BY <1>2 DEF NoTarget
    <2>2. stop[t] \in Int
        BY DEF SignalTypes
    <2>3. StopFits(t)' /\ stop' \in [Trades -> Int]
          /\ \A u \in Trades \ {t} : stop'[u] = stop[u]
        BY <1>2, <2>1, <2>2, TrailedFits DEF StopFits
    <2>4. pc' \in [Trades -> {"idle", "ready"} \cup Awaits] /\ pc'[t] = "idle"
          /\ \A u \in Trades \ {t} : pc'[u] = pc[u]
        BY <2>1 DEF Goto, SignalTypes
    <2>5. SignalTypes'
        BY <2>1, <2>3, <2>4 DEF SignalTypes
    <2>6. Others(t)
        BY <2>1, <2>3, <2>4 DEF Others, SameSignal
    <2>7. SignalInv(t)'
        BY <1>2, <2>1, <2>3, <2>4 DEF SignalInv, CancelFits, Ended, Proven
    <2> QED
        BY <2>1, <2>4, <2>5, <2>6, <2>7 DEF Kept
<1> QED
    BY <1>1, <1>2

(* The sanity check cancels a trade that is active, was never at a target  *)
(* and was averaged beyond its stop.                                       *)
LEMMA CancelKept ==
    ASSUME SignalTypes, NEW t \in Trades, Cancel(t), SignalInv(t), StopFits(t),
           recorded' = recorded, tracked' = tracked, status[t] \notin Over
    PROVE  Kept(t)
<1>1. SignalTypes' /\ Others(t) /\ pc'[t] = "cancel" /\ status'[t] = "CANCELLED"
    BY MovedTypes DEF Cancel, Statuses, Over, Awaits
<1>2. UNCHANGED <<stop, entry_2, best, exit>>
    BY DEF Cancel
<1>3. status[t] = "ACTIVE"
    BY DEF Cancel, WrongSide, SignalTypes, Statuses
<1>4. entry_2[t] # None /\ entry_2[t] < InitialStop
    BY <1>3, WrongEntry DEF Cancel, WrongSide, StopFits, SignalTypes
<1>5. exit[t] = None /\ recorded[t] = 0 /\ ~ (best[t] >= 1)
    BY <1>3 DEF SignalInv, Final
<1>6. SignalInv(t)'
    BY <1>1, <1>2, <1>4, <1>5 DEF SignalInv, StopFits, CancelFits, Ended, Final
<1>7. Progress(status[t]) < Progress(status'[t])
    BY <1>1, <1>3 DEF Progress
<1> QED
    BY <1>1, <1>6, <1>7 DEF Kept

LEMMA JudgeKept ==
    ASSUME SignalTypes, NEW t \in Trades, NEW p \in Int, Judge(t, p), SignalInv(t),
           pc[t] \in Judging, recorded' = recorded, tracked' = tracked
    PROVE  Kept(t)
<1>1. StopFits(t) /\ status[t] \notin Over
    BY DEF SignalInv, Judging, SignalTypes
<1>2. CASE ~ WrongSide(t) /\ Goto(t, "idle") /\ UNCHANGED signalVars
    BY <1>1, <1>2, MovedOnKept
<1>3. CASE StopOut(t, p)
    <2>1. best[t] >= 1 => stop[t] >= BreakEven[entry_2[t]]
        BY <1>1, ProvenStop
    <2>2. stop[t] \in Int
        BY DEF SignalTypes
    <2> QED
        BY <1>1, <1>3, <2>1, <2>2, StopOutDecides, DecidedKept
<1>4. CASE Invalidate(t, p)
    <2> DEFINE at == Larger(p, stop[t])
    <2>1. at \in Int /\ at >= stop[t] /\ Decided(t, "invalidated", at)
        BY <1>4, InvalidateDecides
    <2>2. best[t] >= 1 => stop[t] >= BreakEven[entry_2[t]]
        BY <1>1, ProvenStop
    <2>3. stop[t] \in Int /\ BreakEven[entry_2[t]] \in Int
        BY Levels DEF SignalTypes
    <2>4. best[t] >= 1 => at >= BreakEven[entry_2[t]]
        BY <2>1, <2>2, <2>3
    <2> HIDE DEF at
    <2> QED
        BY <1>1, <2>1, <2>4, DecidedKept
<1>5. CASE ~ WrongSide(t) /\ HitTP3(t, p)
    <2>1. CASE auto_execution
        BY <1>1, <1>5, <2>1, MovedOnKept DEF HitTP3
    <2>2. CASE ~ auto_execution
        <3>1. FullTP(t)
            BY <1>5, <2>2 DEF HitTP3
        <3> QED
            BY <1>1, <3>1, FullTPDecides, DecidedKept
    <2> QED
        BY <2>1, <2>2
<1>6. CASE HitTP2(t, p)
    BY <1>1, <1>6, HitTP2Kept
<1>7. CASE HitTP1(t, p)
    BY <1>1, <1>7, HitTP1Kept
<1>8. CASE ~ WrongSide(t) /\ NoTarget(t, p)
    BY <1>1, <1>8, NoTargetKept
<1>9. CASE Cancel(t)
    BY <1>1, <1>9, CancelKept
<1> QED
    BY <1>2, <1>3, <1>4, <1>5, <1>6, <1>7, <1>8, <1>9 DEF Judge, TakeProfit

LEMMA AverageKept ==
    ASSUME SignalTypes, NEW t \in Trades, NEW p \in Int, Average(t, p), SignalInv(t),
           StopFits(t), recorded' = recorded, tracked' = tracked
    PROVE  Kept(t)
<1>1. /\ entry_2' = [entry_2 EXCEPT ![t] = p] /\ pc' = [pc EXCEPT ![t] = "averaged"]
      /\ UNCHANGED <<status, stop, best, exit>> /\ status[t] = "ACTIVE"
      /\ p \in Bases
    BY SecondEntry DEF Average, DcaDue, Goto
<1>2. SignalTypes' /\ Others(t) /\ pc'[t] = "averaged"
    BY <1>1 DEF SignalTypes, Others, SameSignal, Awaits
<1>3. StopFits(t)' /\ CancelFits(t)'
    BY <1>1, <1>2 DEF StopFits, CancelFits
<1>4. exit'[t] = None /\ best[t] = 0
    BY <1>1 DEF SignalInv, Final, SignalTypes
<1>5. SignalInv(t)'
    BY <1>1, <1>2, <1>3, <1>4 DEF SignalInv, Ended, Final, Over
<1> QED
    BY <1>1, <1>2, <1>5 DEF Kept

(* Before an average, no trade is on the wrong side of its stop.           *)
LEMMA SoundSide ==
    ASSUME SignalTypes, NEW t \in Trades, SignalInv(t), StopFits(t), status[t] \notin Over,
           pc[t] # "averaged"
    PROVE  ~ WrongSide(t)
<1>1. stop[t] \in Int /\ entry_2[t] \in Bases /\ status[t] \in {"ACTIVE"} \cup Proven
    BY DEF SignalTypes, Statuses
<1>2. Entry[entry_2[t]] \in Int
    BY <1>1, Levels
<1> QED
    BY <1>1, <1>2 DEF WrongSide, SignalInv, CancelFits, StopFits

LEMMA EvaluateKept ==
    ASSUME SignalTypes, NEW t \in Trades, NEW p \in Int, Evaluate(t, p), SignalInv(t),
           pc[t] \in {"ready", "order"}, recorded' = recorded, tracked' = tracked
    PROVE  Kept(t)
<1>1. StopFits(t) /\ status[t] \notin Over
    BY DEF SignalInv, Judging, SignalTypes
<1>2. CASE TooNew(t)
    BY <1>1, <1>2, SoundSide, MovedOnKept DEF TooNew
<1>3. CASE Expire(t, p)
    BY <1>1, <1>3, ExpireDecides, DecidedKept
<1>4. CASE Average(t, p)
    BY <1>1, <1>4, AverageKept
<1>5. CASE Judge(t, p)
    BY <1>5, JudgeKept DEF Judging
<1> QED
    BY <1>2, <1>3, <1>4, <1>5 DEF Evaluate

-----------------------------------------------------------------------------
(* The steps after a target's message, and the last step of an outcome.    *)
LEMMA PostedKept ==
    ASSUME SignalTypes, NEW t \in Trades, TP2Posted(t) \/ TP1Posted(t), SignalInv(t),
           price \in [Trades -> Int]
    PROVE  Kept(t)
<1> DEFINE floor == IF pc[t] = "tp2" THEN TP1[entry_2[t]]
                    ELSE Larger(stop[t], BreakEven[entry_2[t]])
           next == IF pc[t] = "tp2" THEN "close2" ELSE "close1"
<1>1. /\ entry_2[t] \in Bases /\ stop[t] \in Int /\ price[t] \in Int
      /\ BreakEven[entry_2[t]] \in Int /\ TP1[entry_2[t]] \in Int
    BY Levels DEF SignalTypes
<1>2. pc[t] \in {"tp1", "tp2"} /\ (pc[t] = "tp1" => status[t] = "TP1_HIT")
      /\ (pc[t] = "tp2" => status[t] = "TP2_HIT")
    BY DEF SignalInv, TP1Posted, TP2Posted
<1>3. /\ floor \in Int
      /\ status[t] = "TP1_HIT" => floor >= BreakEven[entry_2[t]]
      /\ status[t] = "TP2_HIT" => floor >= TP1[entry_2[t]]
    BY <1>1, <1>2 DEF Larger
<1>4. /\ UNCHANGED <<tracked, recorded, status, entry_2, exit>>
      /\ best' \in [Trades -> 0..2] /\ best'[t] >= 1
      /\ \A u \in Trades \ {t} : best'[u] = best[u]
    BY DEF SignalTypes, TP1Posted, TP2Posted
<1>5. \/ stop' = [stop EXCEPT ![t] = floor] /\ Goto(t, next)
      \/ Trailed(t, floor, price[t]) /\ Goto(t, "idle")
    <2>1. CASE TP2Posted(t)
        BY <2>1, <1>2 DEF TP2Posted
    <2>2. CASE TP1Posted(t)
        <3>1. pc[t] = "tp1"
            BY <2>2 DEF TP1Posted
        <3> QED
            BY <2>2, <3>1 DEF TP1Posted
    <2> QED
        BY <2>1, <2>2
<1>6. status[t] \in Proven /\ status[t] \notin Over
    BY <1>2 DEF Proven, Over, Final
<1> HIDE DEF floor
<1>7. /\ StopFits(t)' /\ stop' \in [Trades -> Int]
      /\ \A u \in Trades \ {t} : stop'[u] = stop[u]
    <2>1. CASE stop' = [stop EXCEPT ![t] = floor]
        BY <2>1, <1>2, <1>3, <1>4 DEF StopFits, SignalTypes
    <2>2. CASE Trailed(t, floor, price[t])
        BY <2>2, <1>1, <1>3, <1>4, <1>6, TrailedFits
    <2> QED
        BY <1>5, <2>1, <2>2
<1>8. /\ pc' \in [Trades -> {"idle", "ready"} \cup Awaits] /\ pc'[t] \in {next, "idle"}
      /\ \A u \in Trades \ {t} : pc'[u] = pc[u]
    BY <1>5 DEF Goto, SignalTypes, Awaits
<1>9. SignalTypes'
    BY <1>4, <1>7, <1>8 DEF SignalTypes
<1>10. Others(t)
    BY <1>4, <1>7, <1>8 DEF Others, SameSignal
<1>11. pc'[t] \in {"idle", "close1", "close2"} /\ (pc'[t] = "close1" => status[t] = "TP1_HIT")
       /\ (pc'[t] = "close2" => status[t] = "TP2_HIT")
    BY <1>2, <1>8
<1>12. status[t] # "ACTIVE" /\ exit[t] = None /\ recorded[t] = 0
    BY <1>2, <1>6 DEF SignalInv, Over
<1>13. SignalInv(t)'
    BY <1>4, <1>6, <1>7, <1>11, <1>12 DEF SignalInv, CancelFits, Ended, Proven, Over
<1> QED
    BY <1>4, <1>9, <1>10, <1>11, <1>13 DEF Kept

LEMMA PartClosedKept ==
    ASSUME SignalTypes, NEW t \in Trades, NEW k \in 1..2, PartClosed(t, k), SignalInv(t),
           price \in [Trades -> Int]
    PROVE  Kept(t)
<1>1. pc[t] \in {"close1", "close2"} /\ Trailed(t, stop[t], price[t]) /\ Goto(t, "idle")
      /\ UNCHANGED <<tracked, recorded, status, entry_2, best, exit>>
    BY DEF PartClosed
<1>2. StopFits(t) /\ status[t] \in Proven /\ status[t] \notin Over
    BY <1>1 DEF SignalInv, Proven, Over, Final
<1>3. stop[t] \in Int /\ price[t] \in Int
    BY DEF SignalTypes
<1>4. StopFits(t)' /\ stop' \in [Trades -> Int]
      /\ \A u \in Trades \ {t} : stop'[u] = stop[u]
    BY <1>1, <1>2, <1>3, TrailedFits DEF StopFits
<1>5. pc' \in [Trades -> {"idle", "ready"} \cup Awaits] /\ pc'[t] = "idle"
      /\ \A u \in Trades \ {t} : pc'[u] = pc[u]
    BY <1>1 DEF Goto, SignalTypes
<1>6. SignalTypes' /\ Others(t)
    BY <1>1, <1>4, <1>5 DEF SignalTypes, Others, SameSignal
<1>7. SignalInv(t)'
    BY <1>1, <1>2, <1>4, <1>5 DEF SignalInv, CancelFits, Ended
<1> QED
    BY <1>1, <1>5, <1>6, <1>7 DEF Kept

-----------------------------------------------------------------------------
(* What one trade's step leaves alone.                                     *)
SameOrder(u) ==
    /\ u \in placed' <=> u \in placed
    /\ qty'[u] = qty[u] /\ closed'[u] = closed[u]
    /\ resting'[u] = resting[u] /\ position'[u] = position[u]

SameHistory(u) == recorded'[u] = recorded[u] /\ (u \in tracked' => u \in tracked)

NoStatusFalls ==
    \A u \in Trades : status'[u] # status[u] => Progress(status[u]) < Progress(status'[u])

LEMMA SameSignalKept ==
    ASSUME NEW u \in Trades, SameSignal(u), SameHistory(u), SignalInv(u)
    PROVE  SignalInv(u)'
BY DEF SameSignal, SameHistory, SignalInv, StopFits, CancelFits, Ended

LEMMA SameOrderKept ==
    ASSUME NEW u \in Trades, OrderInv(u), SameOrder(u), pc'[u] = "order" => pc[u] = "order",
           status'[u] = "ACTIVE" => status[u] = "ACTIVE",
           pc'[u] = "order" => status'[u] = status[u]
    PROVE  OrderInv(u)'
BY DEF OrderInv, SameOrder

LEMMA Frame ==
    ASSUME MonitorInv, NEW t \in Trades, Kept(t), OtherTypes',
           \A u \in Trades \ {t} : SameHistory(u) /\ SameOrder(u),
           t \notin LimitTrades => OrderInv(t)'
    PROVE  MonitorInv' /\ NoStatusFalls
<1>1. \A u \in Trades \ {t} : SameSignal(u)
    BY DEF Kept, Others
<1>2. \A u \in Trades : SignalInv(u)'
    <2> TAKE u \in Trades
    <2>1. CASE u = t
        BY <2>1 DEF Kept
    <2>2. CASE u # t
        BY <2>2, <1>1, SameSignalKept DEF MonitorInv
    <2> QED
        BY <2>1, <2>2
<1>3. \A u \in Trades \ LimitTrades : OrderInv(u)'
    <2> TAKE u \in Trades \ LimitTrades
    <2>1. CASE u = t
        BY <2>1
    <2>2. CASE u # t
        <3>1. SameSignal(u) /\ SameOrder(u) /\ OrderInv(u)
            BY <2>2, <1>1 DEF MonitorInv
        <3> QED
            BY <3>1, SameOrderKept DEF SameSignal
    <2> QED
        BY <2>1, <2>2
<1>4. TypeOK'
    BY TypeSplit DEF TypeOK, Kept, SignalTypes, OtherTypes
<1>5. NoStatusFalls
    BY <1>1 DEF NoStatusFalls, SameSignal, Kept
<1> QED
    BY <1>2, <1>3, <1>4, <1>5 DEF MonitorInv

(* The same for a step that does not touch the orders.                     *)
LEMMA FrameNoOrder ==
    ASSUME MonitorInv, NEW t \in Trades, Kept(t), OtherTypes', UNCHANGED orderVars,
           UNCHANGED <<tracked, recorded>>
    PROVE  MonitorInv' /\ NoStatusFalls
<1>1. \A u \in Trades : SameHistory(u) /\ SameOrder(u)
    BY DEF SameHistory, SameOrder, orderVars
<1>2. t \notin LimitTrades => OrderInv(t)'
    BY <1>1, SameOrderKept DEF MonitorInv, Kept
<1> QED
    BY <1>1, <1>2, Frame

LEMMA InvParts ==
    ASSUME MonitorInv, NEW t \in Trades
    PROVE  /\ SignalTypes /\ OtherTypes
           /\ SignalInv(t)
           /\ price \in [Trades -> Int] /\ price[t] \in Int
           /\ t \notin LimitTrades => OrderInv(t)
<1>1. SignalTypes /\ OtherTypes
    BY TypeSplit DEF MonitorInv
<1> QED
    BY <1>1 DEF MonitorInv, OtherTypes

-----------------------------------------------------------------------------
(* The actions of one trade's evaluation.                                  *)
LEMMA NoPriceStep ==
    ASSUME MonitorInv, NEW t \in Trades, NoPrice(t)
    PROVE  MonitorInv' /\ NoStatusFalls
<1>1. Goto(t, "idle") /\ UNCHANGED signalVars /\ pc[t] = "ready"
      /\ UNCHANGED <<tracked, age, price, recorded, orderVars, auto_execution>>
    BY DEF NoPrice
<1>2. StopFits(t) /\ status[t] \notin Over
    BY <1>1, InvParts DEF SignalInv
<1>3. Kept(t)
    BY <1>1, <1>2, InvParts, SoundSide, MovedOnKept
<1>4. OtherTypes'
    BY <1>1, InvParts DEF OtherTypes, orderVars
<1> QED
    BY <1>1, <1>3, <1>4, FrameNoOrder

LEMMA EvaluateNowStep ==
    ASSUME MonitorInv, NEW t \in Trades, NEW p \in Prices[t], EvaluateNow(t, p)
    PROVE  MonitorInv' /\ NoStatusFalls
<1>1. p \in Int
    BY LevelsAssumption
<1>2. Evaluate(t, p) /\ pc[t] = "ready" /\ price' = [price EXCEPT ![t] = p]
      /\ UNCHANGED <<tracked, age, recorded, orderVars, auto_execution>>
    BY DEF EvaluateNow
<1>3. Kept(t)
    BY <1>1, <1>2, InvParts, EvaluateKept
<1>4. OtherTypes'
    BY <1>1, <1>2, InvParts DEF OtherTypes, orderVars
<1> QED
    BY <1>2, <1>3, <1>4, FrameNoOrder

LEMMA DcaPostedStep ==
    ASSUME MonitorInv, NEW t \in Trades, DcaPosted(t)
    PROVE  MonitorInv' /\ NoStatusFalls
<1>1. Judge(t, price[t]) /\ pc[t] = "averaged"
      /\ UNCHANGED <<tracked, age, price, recorded, orderVars, auto_execution>>
    BY DEF DcaPosted
<1>2. Kept(t)
    BY <1>1, InvParts, JudgeKept DEF Judging
<1>3. OtherTypes'
    BY <1>1, InvParts DEF OtherTypes, orderVars
<1> QED
    BY <1>1, <1>2, <1>3, FrameNoOrder

LEMMA PostedStep ==
    ASSUME MonitorInv, NEW t \in Trades, TP2Posted(t) \/ TP1Posted(t)
    PROVE  MonitorInv' /\ NoStatusFalls
<1>1. UNCHANGED <<tracked, age, price, recorded, orderVars, auto_execution>>
    BY DEF TP1Posted, TP2Posted
<1>2. Kept(t)
    BY InvParts, PostedKept
<1>3. OtherTypes'
    BY <1>1, InvParts DEF OtherTypes, orderVars
<1> QED
    BY <1>1, <1>2, <1>3, FrameNoOrder

LEMMA SendOrderStep ==
    ASSUME MonitorInv, NEW t \in Trades, NEW p \in Prices[t], SendOrder(t, p)
    PROVE  MonitorInv' /\ NoStatusFalls
<1>1. p \in Int
    BY LevelsAssumption
<1>2. /\ pc[t] = "ready" /\ status[t] = "ACTIVE" /\ t \notin placed
      /\ Goto(t, "order") /\ price' = [price EXCEPT ![t] = p]
      /\ UNCHANGED <<tracked, age, signalVars, recorded, orderVars, auto_execution>>
    BY DEF SendOrder, NeedsOrder
<1>3. SignalTypes' /\ Others(t) /\ pc'[t] = "order"
    BY <1>2, InvParts, IdleTypes DEF Awaits
<1>4. OtherTypes'
    BY <1>1, <1>2, InvParts DEF OtherTypes, orderVars
<1>5. \A u \in Trades : SignalInv(u)'
    <2> TAKE u \in Trades
    <2>1. CASE u = t
        <3>1. SignalInv(t) /\ status[t] \notin Over
            BY <1>2, InvParts DEF Over, Final
        <3> QED
            BY <2>1, <3>1, <1>2, <1>3 DEF SignalInv, StopFits, CancelFits, Ended, signalVars
    <2>2. CASE u # t
        <3>1. SameSignal(u) /\ SameHistory(u)
            BY <2>2, <1>2, <1>3 DEF Others, SameHistory
        <3> QED
            BY <3>1, SameSignalKept DEF MonitorInv
    <2> QED
        BY <2>1, <2>2
<1>6. \A u \in Trades \ LimitTrades : OrderInv(u)'
    <2> TAKE u \in Trades \ LimitTrades
    <2>1. OrderInv(u) /\ SameOrder(u) /\ status'[u] = status[u]
        BY <1>2 DEF MonitorInv, SameOrder, orderVars, signalVars
    <2>2. CASE u = t
        BY <2>1, <2>2, <1>2 DEF OrderInv, SameOrder
    <2>3. CASE u # t
        <3>1. pc'[u] = pc[u]
            BY <2>3, <1>3 DEF Others, SameSignal
        <3> QED
            BY <2>1, <3>1, SameOrderKept
    <2> QED
        BY <2>2, <2>3
<1>7. NoStatusFalls
    BY <1>2 DEF NoStatusFalls, signalVars
<1>8. TypeOK'
    BY <1>3, <1>4 DEF TypeOK, SignalTypes, OtherTypes
<1> QED
    BY <1>5, <1>6, <1>7, <1>8 DEF MonitorInv

-----------------------------------------------------------------------------
(* The actions of the orders.                                              *)
LEMMA OrderAnsweredStep ==
    ASSUME MonitorInv, NEW t \in Trades, OrderAnswered(t)
    PROVE  MonitorInv' /\ NoStatusFalls
<1>1. /\ Evaluate(t, price[t]) /\ pc[t] = "order" /\ placed' = placed \cup {t}
      /\ UNCHANGED <<tracked, age, price, recorded, closed, auto_execution>>
    BY DEF OrderAnswered
<1>2. Kept(t)
    BY <1>1, InvParts, EvaluateKept
<1>3. \/ UNCHANGED <<resting, position>>
      \/ /\ resting' = [resting EXCEPT ![t] = t \in LimitTrades]
         /\ position' = [position EXCEPT ![t] = IF t \in LimitTrades THEN @ ELSE @ + 100]
    BY DEF OrderAnswered, Accepted
<1>4. qty' = qty \/ qty' = [qty EXCEPT ![t] = 100]
    BY DEF OrderAnswered
<1>5. OtherTypes'
    <2>1. OtherTypes
        BY InvParts
    <2>2. position' \in [Trades -> Int]
        BY <1>3, <2>1 DEF OtherTypes
    <2>3. resting' \in [Trades -> BOOLEAN]
        <3>1. (t \in LimitTrades) \in BOOLEAN
            OBVIOUS
        <3> QED
            BY <1>3, <2>1, <3>1 DEF OtherTypes
    <2>4. qty' \in [Trades -> Nat]
        BY <1>4, <2>1 DEF OtherTypes
    <2> QED
        BY <1>1, <2>1, <2>2, <2>3, <2>4 DEF OtherTypes
<1>6. \A u \in Trades \ {t} : SameHistory(u) /\ SameOrder(u)
    BY <1>1, <1>3, <1>4, InvParts DEF SameHistory, SameOrder, OtherTypes
<1>7. ASSUME t \notin LimitTrades
      PROVE  OrderInv(t)'
    <2>1. OrderInv(t) /\ OtherTypes
        BY <1>7, InvParts
    <2>2. qty[t] = 0 /\ position[t] = 0 /\ ~ resting[t]
        BY <1>1, <2>1 DEF OrderInv
    <2>3. closed'[t] = closed[t] /\ closed[t] \subseteq {1, 2, 3}
        BY <1>1, <2>1 DEF OtherTypes
    <2>4. Sold(closed[t]) \in 0..100
        BY <2>3, ExecutionAssumption DEF Sold, Share
    <2>5. ~ resting'[t] /\ t \in placed'
        BY <1>1, <1>3, <1>7, <2>1, <2>2 DEF OtherTypes
    <2>6. \/ qty'[t] = 100 /\ position'[t] = 100
          \/ qty'[t] = 0 /\ position'[t] \in {0, 100}
        BY <1>7, <2>1, <2>2 DEF OrderAnswered, Accepted, OtherTypes
    <2>7. pc'[t] # "order"
        BY <1>2 DEF Kept
    <2> HIDE DEF Sold
    <2>8. qty'[t] = 100 => position'[t] \in (100 - Sold(closed'[t]))..100
        BY <2>3, <2>4, <2>6
    <2>9. qty'[t] \in {0, 100} /\ (qty'[t] = 0 => position'[t] \in {0, 100})
        BY <2>6
    <2> QED
        BY <2>5, <2>7, <2>8, <2>9 DEF OrderInv
<1> QED
    BY <1>2, <1>5, <1>6, <1>7, Frame

(* Closing one more level sells its fraction, never more than everything.  *)
LEMMA SoldGrows ==
    ASSUME NEW c, NEW k \in 1..3
    PROVE  /\ Sold(c) \in 0..100 /\ Sold(c \cup {k}) \in 0..100
           /\ Sold(c \cup {k}) >= Sold(c)
           /\ k \notin c => Sold(c \cup {k}) = Sold(c) + Fraction[k]
<1>1. /\ Fraction[1] \in Nat /\ Fraction[2] \in Nat /\ Fraction[3] \in Nat
      /\ Fraction[1] + Fraction[2] + Fraction[3] = 100
    BY ExecutionAssumption
<1>2. \A j \in 1..3 : \A d : Share(j, d) \in {0, Fraction[j]}
    BY DEF Share
<1>3. \A j \in 1..3 : j # k => Share(j, c \cup {k}) = Share(j, c)
    BY DEF Share
<1>4. Share(k, c \cup {k}) = Fraction[k]
    BY DEF Share
<1>5. k \notin c => Share(k, c) = 0
    BY DEF Share
<1> HIDE DEF Share
<1>6. \A d : /\ Share(1, d) \in {0, Fraction[1]}
             /\ Share(2, d) \in {0, Fraction[2]}
             /\ Share(3, d) \in {0, Fraction[3]}
    BY <1>2
<1>7. \A d : Sold(d) \in 0..100
    BY <1>1, <1>6 DEF Sold
<1>8. Sold(c \cup {k}) = Sold(c) + Fraction[k] - Share(k, c)
    <2>1. CASE k = 1
        BY <2>1, <1>1, <1>3, <1>4, <1>6 DEF Sold
    <2>2. CASE k = 2
        BY <2>2, <1>1, <1>3, <1>4, <1>6 DEF Sold
    <2>3. CASE k = 3
        BY <2>3, <1>1, <1>3, <1>4, <1>6 DEF Sold
    <2> QED
        BY <2>1, <2>2, <2>3
<1>9. Fraction[k] \in Nat /\ Share(k, c) \in {0, Fraction[k]}
    BY <1>2, ExecutionAssumption
<1> HIDE DEF Sold
<1> QED
    BY <1>5, <1>7, <1>8, <1>9

(* What close_partial leaves of a market order.                            *)
LEMMA ClosePartialKept ==
    ASSUME OtherTypes, NEW t \in Trades, NEW k \in 1..3, ClosePartial(t, k), OrderInv(t),
           pc'[t] # "order", status'[t] = "ACTIVE" => status[t] = "ACTIVE"
    PROVE  OrderInv(t)'
<1>1. /\ closed'[t] = closed[t] \cup {k} /\ closed[t] \subseteq {1, 2, 3}
      /\ placed' = placed /\ qty'[t] = qty[t] /\ resting'[t] = resting[t]
    BY DEF ClosePartial, OtherTypes
<1>2. \/ k \notin closed[t] /\ qty[t] > 0 /\ position'[t] = position[t] - Fraction[k]
      \/ position'[t] = position[t]
    BY DEF ClosePartial, Closable, OtherTypes
<1>4. /\ Sold(closed[t]) \in 0..100 /\ Sold(closed'[t]) \in 0..100
      /\ Sold(closed'[t]) >= Sold(closed[t])
      /\ k \notin closed[t] => Sold(closed'[t]) = Sold(closed[t]) + Fraction[k]
    BY <1>1, SoldGrows
<1>5. position[t] \in Int /\ Fraction[k] \in Nat
    BY ExecutionAssumption DEF OtherTypes
<1> HIDE DEF Sold
<1>6. qty[t] = 100 => position'[t] \in (100 - Sold(closed'[t]))..100
    <2> SUFFICES ASSUME qty[t] = 100 PROVE position'[t] \in (100 - Sold(closed'[t]))..100
        OBVIOUS
    <2>1. position[t] \in (100 - Sold(closed[t]))..100
        BY DEF OrderInv
    <2> QED
        BY <2>1, <1>2, <1>4, <1>5
<1>7. qty[t] = 0 => position'[t] = position[t]
    BY <1>2
<1>8. /\ status'[t] = "ACTIVE" /\ t \notin placed => qty[t] = 0 /\ position[t] = 0
      /\ ~ resting[t] /\ qty[t] \in {0, 100} /\ (qty[t] = 0 => position[t] \in {0, 100})
    BY DEF OrderInv
<1>9. /\ status'[t] = "ACTIVE" /\ t \notin placed => qty'[t] = 0 /\ position'[t] = 0
      /\ ~ resting'[t] /\ qty'[t] \in {0, 100} /\ (qty'[t] = 0 => position'[t] \in {0, 100})
      /\ qty'[t] = 100 => position'[t] \in (100 - Sold(closed'[t]))..100
    BY <1>1, <1>6, <1>7, <1>8
<1> QED
    BY <1>1, <1>9 DEF OrderInv

LEMMA ClosePartialOthers ==
    ASSUME OtherTypes, NEW t \in Trades, NEW k \in 1..3, ClosePartial(t, k),
           UNCHANGED <<tracked, age, price, recorded, auto_execution>>
    PROVE  OtherTypes' /\ \A u \in Trades \ {t} : SameHistory(u) /\ SameOrder(u)
<1>1. closed' \in [Trades -> SUBSET (1..3)]
    BY DEF ClosePartial, OtherTypes
<1>2. Fraction[k] \in Int
    BY ExecutionAssumption
<1>3. position' \in [Trades -> Int]
    BY <1>2 DEF ClosePartial, OtherTypes
<1>4. OtherTypes'
    BY <1>1, <1>3 DEF ClosePartial, OtherTypes
<1>5. \A u \in Trades \ {t} : SameHistory(u) /\ SameOrder(u)
    BY DEF ClosePartial, OtherTypes, SameHistory, SameOrder
<1> QED
    BY <1>4, <1>5

LEMMA PartClosedStep ==
    ASSUME MonitorInv, NEW t \in Trades, NEW k \in 1..2, PartClosed(t, k)
    PROVE  MonitorInv' /\ NoStatusFalls
<1>1. ClosePartial(t, k) /\ UNCHANGED <<tracked, age, price, recorded, auto_execution>>
    BY DEF PartClosed
<1>2. Kept(t)
    BY InvParts, PartClosedKept
<1>3. k \in 1..3
    OBVIOUS
<1>4. OtherTypes' /\ \A u \in Trades \ {t} : SameHistory(u) /\ SameOrder(u)
    BY <1>1, <1>3, InvParts, ClosePartialOthers
<1>5. t \notin LimitTrades => OrderInv(t)'
    BY <1>1, <1>2, <1>3, InvParts, ClosePartialKept DEF Kept
<1> QED
    BY <1>2, <1>4, <1>5, Frame

LEMMA LastPartClosedStep ==
    ASSUME MonitorInv, NEW t \in Trades, LastPartClosed(t)
    PROVE  MonitorInv' /\ NoStatusFalls
<1>1. /\ ClosePartial(t, 3) /\ FullTP(t) /\ pc[t] = "close3"
      /\ UNCHANGED <<tracked, age, price, recorded, auto_execution>>
    BY DEF LastPartClosed
<1>2. Kept(t)
    <2>1. SignalTypes /\ SignalInv(t)
        BY InvParts
    <2>2. status[t] \notin Over
        BY <1>1, <2>1 DEF SignalInv
    <2> QED
        BY <1>1, <2>1, <2>2, FullTPDecides, DecidedKept
<1>3. OtherTypes' /\ \A u \in Trades \ {t} : SameHistory(u) /\ SameOrder(u)
    BY <1>1, InvParts, ClosePartialOthers
<1>4. t \notin LimitTrades => OrderInv(t)'
    BY <1>1, <1>2, InvParts, ClosePartialKept DEF Kept
<1> QED
    BY <1>2, <1>3, <1>4, Frame

LEMMA FinishStep ==
    ASSUME MonitorInv, NEW t \in Trades, Finish(t)
    PROVE  MonitorInv' /\ NoStatusFalls
<1>1. /\ pc[t] = "outcome" /\ recorded' = [recorded EXCEPT ![t] = @ + 1]
      /\ placed' = placed \ {t} /\ tracked' = tracked \ {t} /\ Goto(t, "idle")
      /\ UNCHANGED <<age, signalVars, price, qty, closed, resting, position, auto_execution>>
    BY DEF Finish
<1>2. SignalTypes /\ OtherTypes /\ SignalInv(t)
    BY InvParts
<1>3. SignalTypes' /\ Others(t) /\ pc'[t] = "idle"
    BY <1>1, <1>2, IdleTypes
<1>4. status[t] \in Final /\ recorded[t] = 0 /\ recorded'[t] = 1
    BY <1>1, <1>2 DEF SignalInv, OtherTypes
<1>5. status'[t] = status[t] /\ status[t] \notin {"ACTIVE", "CANCELLED"} \cup Proven
    BY <1>1, <1>4 DEF signalVars, Final, Proven
<1>6. SignalInv(t)'
    BY <1>1, <1>2, <1>3, <1>4, <1>5
       DEF SignalInv, StopFits, CancelFits, Ended, signalVars, Proven
<1>7. Kept(t)
    BY <1>3, <1>5, <1>6 DEF Kept
<1>8. OtherTypes'
    BY <1>1, <1>2 DEF OtherTypes
<1>9. \A u \in Trades \ {t} : SameHistory(u) /\ SameOrder(u)
    BY <1>1, <1>2 DEF OtherTypes, SameHistory, SameOrder
<1>10. t \notin LimitTrades => OrderInv(t)'
    BY <1>1, <1>3, <1>5, InvParts DEF OrderInv
<1> QED
    BY <1>7, <1>8, <1>9, <1>10, Frame

LEMMA CancelPostedStep ==
    ASSUME MonitorInv, NEW t \in Trades, CancelPosted(t)
    PROVE  MonitorInv' /\ NoStatusFalls
<1>1. /\ pc[t] = "cancel" /\ tracked' = tracked \ {t} /\ Goto(t, "idle")
      /\ UNCHANGED <<age, signalVars, price, recorded, orderVars, auto_execution>>
    BY DEF CancelPosted
<1>2. SignalTypes /\ OtherTypes /\ SignalInv(t)
    BY InvParts
<1>3. SignalTypes' /\ Others(t) /\ pc'[t] = "idle"
    BY <1>1, <1>2, IdleTypes
<1>4. status[t] = "CANCELLED" /\ status'[t] = status[t]
    BY <1>1, <1>2 DEF SignalInv, signalVars
<1>5. SignalInv(t)'
    BY <1>1, <1>2, <1>3, <1>4 DEF SignalInv, StopFits, CancelFits, Ended, Final, signalVars
<1>6. Kept(t)
    BY <1>3, <1>4, <1>5 DEF Kept
<1>7. OtherTypes'
    BY <1>1, <1>2 DEF OtherTypes, orderVars
<1>8. \A u \in Trades : SameHistory(u) /\ SameOrder(u)
    BY <1>1 DEF SameHistory, SameOrder, orderVars
<1>9. t \notin LimitTrades => OrderInv(t)'
    BY <1>3, <1>4, <1>8, SameOrderKept, InvParts
<1> QED
    BY <1>6, <1>7, <1>8, <1>9, Frame

-----------------------------------------------------------------------------
(* The poll, the scan loop, the exchange and the clock.                    *)
LEMMA StartRoundStep ==
    ASSUME MonitorInv, StartRound
    PROVE  MonitorInv' /\ NoStatusFalls
<1>1. /\ \A t \in Trades : pc[t] = "idle"
      /\ pc' = [t \in Trades |-> IF t \in tracked THEN "ready" ELSE "idle"]
      /\ UNCHANGED <<tracked, age, signalVars, price, recorded, orderVars, auto_execution>>
    BY DEF StartRound
<1>2. TypeOK'
    BY <1>1 DEF MonitorInv, TypeOK, signalVars, orderVars
<1>3. \A t \in Trades : SignalInv(t)'
    <2> TAKE t \in Trades
    <2>1. SignalInv(t) /\ pc[t] = "idle" /\ pc'[t] = IF t \in tracked THEN "ready" ELSE "idle"
        BY <1>1 DEF MonitorInv
    <2> QED
        BY <1>1, <2>1 DEF SignalInv, StopFits, CancelFits, Ended, signalVars
<1>4. \A t \in Trades \ LimitTrades : OrderInv(t)'
    <2> TAKE t \in Trades \ LimitTrades
    <2>1. OrderInv(t) /\ pc'[t] # "order"
        BY <1>1 DEF MonitorInv
    <2>2. UNCHANGED <<orderVars, status>>
        BY <1>1 DEF signalVars
    <2> QED
        BY <2>1, <2>2 DEF OrderInv, orderVars
<1>5. NoStatusFalls
    BY <1>1 DEF NoStatusFalls, signalVars
<1> QED
    BY <1>2, <1>3, <1>4, <1>5 DEF MonitorInv

(* Steps that leave every signal, every evaluation and every order alone.  *)
LEMMA QuietStep ==
    ASSUME MonitorInv, UNCHANGED <<signalVars, pc, recorded, orderVars>>,
           tracked' \subseteq tracked, TypeOK'
    PROVE  MonitorInv' /\ NoStatusFalls
<1>1. \A t \in Trades : SameSignal(t) /\ SameHistory(t) /\ SameOrder(t)
    BY DEF signalVars, orderVars, SameSignal, SameHistory, SameOrder
<1>2. \A t \in Trades : SignalInv(t)'
    BY <1>1, SameSignalKept DEF MonitorInv
<1>3. \A t \in Trades \ LimitTrades : OrderInv(t)'
    BY <1>1, SameOrderKept DEF MonitorInv, SameSignal
<1>4. NoStatusFalls
    BY <1>1 DEF NoStatusFalls, SameSignal
<1> QED
    BY <1>2, <1>3, <1>4 DEF MonitorInv

LEMMA LimitFillsStep ==
    ASSUME MonitorInv, NEW t \in Trades, LimitFills(t)
    PROVE  MonitorInv' /\ NoStatusFalls
<1>1. /\ resting[t] /\ resting' = [resting EXCEPT ![t] = FALSE]
      /\ position' = [position EXCEPT ![t] = @ + 100]
      /\ UNCHANGED <<tracked, age, signalVars, pc, price, recorded, placed, qty, closed,
                     auto_execution>>
    BY DEF LimitFills
<1>2. t \in LimitTrades
    BY <1>1 DEF MonitorInv, OrderInv
<1>3. TypeOK'
    BY <1>1 DEF MonitorInv, TypeOK, signalVars
<1>4. \A u \in Trades : SignalInv(u)'
    <2> TAKE u \in Trades
    <2>1. SameSignal(u) /\ SameHistory(u)
        BY <1>1 DEF signalVars, SameSignal, SameHistory
    <2> QED
        BY <2>1, SameSignalKept DEF MonitorInv
<1>5. \A u \in Trades \ LimitTrades : OrderInv(u)'
    <2> TAKE u \in Trades \ LimitTrades
    <2>1. u # t
        BY <1>2
    <2>2. SameOrder(u) /\ pc'[u] = pc[u] /\ status'[u] = status[u] /\ OrderInv(u)
        BY <1>1, <2>1 DEF MonitorInv, TypeOK, SameOrder, signalVars
    <2> QED
        BY <2>2, SameOrderKept
<1>6. NoStatusFalls
    BY <1>1 DEF NoStatusFalls, signalVars
<1> QED
    BY <1>3, <1>4, <1>5, <1>6 DEF MonitorInv

LEMMA CleanupExpiredStep ==
    ASSUME MonitorInv, CleanupExpired
    PROVE  MonitorInv' /\ NoStatusFalls
<1>1. UNCHANGED <<age, signalVars, pc, price, recorded, orderVars, auto_execution>>
      /\ tracked' \subseteq tracked
    BY DEF CleanupExpired
<1>2. TypeOK'
    BY <1>1 DEF MonitorInv, TypeOK, signalVars, orderVars
<1> QED
    BY <1>1, <1>2, QuietStep

LEMMA TickStep ==
    ASSUME MonitorInv, Tick
    PROVE  MonitorInv' /\ NoStatusFalls
<1>1. /\ UNCHANGED <<tracked, signalVars, pc, price, recorded, orderVars, auto_execution>>
      /\ age' = [t \in Trades |-> IF age[t] < MaxHold THEN age[t] + 1 ELSE age[t]]
    BY DEF Tick
<1>2. TypeOK'
    BY <1>1 DEF MonitorInv, TypeOK, signalVars, orderVars
<1> QED
    BY <1>1, <1>2, QuietStep

-----------------------------------------------------------------------------
LEMMA InitHolds == Init => MonitorInv
<1> SUFFICES ASSUME Init PROVE MonitorInv
    OBVIOUS
<1>0. auto_execution \in BOOLEAN
    BY ExecutionAssumption DEF Init
<1>1. /\ None \in Bases
      /\ Entry[None] \in Int /\ InitialStop \in Int /\ InitialStop < Entry[None]
      /\ auto_execution \in BOOLEAN
    BY <1>0, LevelsAssumption DEF Bases
<1>2. TypeOK
    <2>1. /\ status \in [Trades -> Statuses] /\ stop \in [Trades -> Int]
          /\ entry_2 \in [Trades -> Bases] /\ best \in [Trades -> 0..2]
        BY <1>1 DEF Init, Statuses
    <2>2. /\ pc \in [Trades -> {"idle", "ready"} \cup Awaits]
          /\ exit \in [Trades -> Exits \cup {None}]
        BY DEF Init
    <2>3. /\ tracked \in SUBSET Trades /\ placed \in SUBSET Trades
          /\ closed \in [Trades -> SUBSET (1..3)] /\ resting \in [Trades -> BOOLEAN]
        BY DEF Init
    <2>4. /\ age \in [Trades -> Nat] /\ recorded \in [Trades -> Nat]
          /\ qty \in [Trades -> Nat] /\ position \in [Trades -> Int]
        BY DEF Init
    <2>5. price \in [Trades -> Int]
        <3> DEFINE first == Entry[None]
        <3>1. first \in Int /\ price = [t \in Trades |-> first]
            BY <1>1 DEF Init
        <3> HIDE DEF first
        <3> QED
            BY <3>1
    <2> QED
        BY <1>1, <2>1, <2>2, <2>3, <2>4, <2>5 DEF TypeOK
<1>3. \A t \in Trades : SignalInv(t)
    <2> TAKE t \in Trades
    <2>1. /\ status[t] = "ACTIVE" /\ stop[t] = InitialStop /\ entry_2[t] = None
          /\ best[t] = 0 /\ pc[t] = "idle" /\ exit[t] = None /\ recorded[t] = 0
        BY DEF Init
    <2>2. StopFits(t) /\ CancelFits(t)
        BY <1>1, <2>1 DEF StopFits, CancelFits
    <2> QED
        BY <2>1, <2>2 DEF SignalInv, Ended, Final, Over
<1>4. \A t \in Trades \ LimitTrades : OrderInv(t)
    <2> TAKE t \in Trades \ LimitTrades
    <2>1. pc[t] = "idle" /\ ~ resting[t] /\ qty[t] = 0 /\ position[t] = 0
        BY DEF Init
    <2> QED
        BY <2>1 DEF OrderInv
<1> QED
    BY <1>2, <1>3, <1>4 DEF MonitorInv

LEMMA StepHolds ==
    ASSUME MonitorInv, [Next]_vars
    PROVE  MonitorInv' /\ NoStatusFalls
<1>1. CASE StartRound
    BY <1>1, StartRoundStep
<1>2. CASE \E t \in Trades : Evaluation(t) \/ LimitFills(t)
    <2>1. PICK t \in Trades : Evaluation(t) \/ LimitFills(t)
        BY <1>2
    <2>2. CASE NoPrice(t)
        BY <2>2, NoPriceStep
    <2>3. CASE \E p \in Prices[t] : SendOrder(t, p) \/ EvaluateNow(t, p)
        BY <2>3, SendOrderStep, EvaluateNowStep
    <2>4. CASE OrderAnswered(t)
        BY <2>4, OrderAnsweredStep
    <2>5. CASE DcaPosted(t)
        BY <2>5, DcaPostedStep
    <2>6. CASE TP2Posted(t) \/ TP1Posted(t)
        BY <2>6, PostedStep
    <2>7. CASE \E k \in 1..2 : PartClosed(t, k)
        BY <2>7, PartClosedStep
    <2>8. CASE LastPartClosed(t)
        BY <2>8, LastPartClosedStep
    <2>9. CASE Finish(t)
        BY <2>9, FinishStep
    <2>10. CASE CancelPosted(t)
        BY <2>10, CancelPostedStep
    <2>11. CASE LimitFills(t)
        BY <2>11, LimitFillsStep
    <2> QED
        BY <2>1, <2>2, <2>3, <2>4, <2>5, <2>6, <2>7, <2>8, <2>9, <2>10, <2>11 DEF Evaluation
<1>3. CASE CleanupExpired
    BY <1>3, CleanupExpiredStep
<1>4. CASE Tick
    BY <1>4, TickStep
<1>5. CASE UNCHANGED vars
    <2>1. UNCHANGED <<signalVars, pc, recorded, orderVars>> /\ tracked' \subseteq tracked
        BY <1>5 DEF vars, signalVars, orderVars
    <2>2. TypeOK'
        BY <1>5 DEF MonitorInv, TypeOK, vars
    <2> QED
        BY <2>1, <2>2, QuietStep
<1> QED
    BY <1>1, <1>2, <1>3, <1>4, <1>5 DEF Next

LEMMA Invariance == Spec => []MonitorInv
<1>1. Init => MonitorInv
    BY InitHolds
<1>2. MonitorInv /\ [Next]_vars => MonitorInv'
    BY StepHolds
<1> QED
    BY <1>1, <1>2, PTL DEF Spec

-----------------------------------------------------------------------------
(* Every reachable state of the trade monitor is well typed.               *)
THEOREM TypeCorrect == Spec => []TypeOK
<1>1. MonitorInv => TypeOK
    BY DEF MonitorInv
<1> QED
    BY <1>1, Invariance, PTL

(* The stop fits the status at every point where an evaluation looks at it,*)
(* and the sanity check of _evaluate_signal cancels only a trade whose     *)
(* second entry lies beyond its stop, wherever the DCA zones are.          *)
THEOREM StopFollows == Spec => []StopFollowsStatus
<1>1. MonitorInv => StopFollowsStatus
    BY DEF MonitorInv, SignalInv, StopFollowsStatus
<1> QED
    BY <1>1, Invariance, PTL

(* Once TP1 was announced, only an expiry ends the trade below break-even. *)
THEOREM ProvenExitHolds == Spec => []ProvenExitKeepsProfit
<1>1. MonitorInv => ProvenExitKeepsProfit
    BY DEF MonitorInv, SignalInv, ProvenExitKeepsProfit
<1> QED
    BY <1>1, Invariance, PTL

(* record_outcome is called at most once for a trade.                      *)
THEOREM OutcomeOnceHolds == Spec => []OutcomeRecordedOnce
<1>1. MonitorInv => OutcomeRecordedOnce
    BY DEF MonitorInv, SignalInv, OutcomeRecordedOnce
<1> QED
    BY <1>1, Invariance, PTL

(* A market-order trade holds between nothing and its whole order.         *)
THEOREM PositionHolds == Spec => []PositionWithinOrder
<1>1. MonitorInv => PositionWithinOrder
    <2> SUFFICES ASSUME MonitorInv, NEW t \in Trades \ LimitTrades
                 PROVE  position[t] \in 0..100
        BY DEF PositionWithinOrder
    <2>1. OrderInv(t) /\ position[t] \in Int /\ closed[t] \subseteq {1, 2, 3}
        BY DEF MonitorInv, TypeOK
    <2>2. Sold(closed[t]) \in 0..100
        BY <2>1, ExecutionAssumption DEF Sold, Share
    <2> HIDE DEF Sold
    <2> QED
        BY <2>1, <2>2 DEF OrderInv
<1> QED
    BY <1>1, Invariance, PTL

(* A signal's status only ever moves towards its outcome.                  *)
THEOREM StatusHolds == Spec => StatusNeverFallsBack
<1>1. MonitorInv /\ [Next]_vars =>
          [\A t \in Trades :
               status'[t] # status[t] => Progress(status[t]) < Progress(status'[t])]_vars
    BY StepHolds DEF NoStatusFalls
<1> QED
    BY <1>1, Invariance, PTL DEF Spec, StatusNeverFallsBack
=============================================================================
