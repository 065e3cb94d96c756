---------------------------- MODULE TradeMonitor ----------------------------
(***************************************************************************)
(* The trade monitor (src/trade_monitor.py) and the order manager it       *)
(* drives (src/order_manager.py).  Every poll takes a snapshot of the      *)
(* router's active signals and evaluates them concurrently; the next poll  *)
(* starts when all evaluations have ended.  An evaluation awaits the       *)
(* exchange and Telegram in its middle, while the scan loop may expire the *)
(* same signal (SignalRouter's cleanup_expired) and the clock advances.    *)
(*                                                                         *)
(* Prices are integers on the profit side of the trade: the code's SHORT   *)
(* branches mirror its LONG branches, so a higher price is a better one    *)
(* here.  Positions are percents of the entry order.  One action is the    *)
(* code between two suspension points.                                     *)
(***************************************************************************)
EXTENDS Integers, FiniteSets

CONSTANTS
    Trades,         \* signals the router has registered
    LimitTrades,    \* those of _LIMIT_ORDER_CHANNELS: their entry may rest unfilled
    Prices,         \* the prices _latest_price returns for a trade's symbol
    InitialStop,    \* stop_loss at registration
    DcaZone,        \* of each trade, from the channel's stop, which the plan replaced
    Entry, BreakEven, TP1, TP2, TP3,   \* levels, by the price of the second entry
    TrailDistances, \* what _adjust_trailing may compute
    MinLifespan,    \* MIN_SIGNAL_LIFESPAN_SECONDS, in ticks
    MaxHold,        \* MAX_SIGNAL_HOLD_SECONDS, in ticks: ages saturate here
    Fraction,       \* _TP_FRACTIONS, in percent
    AutoModes,      \* the values of AUTO_EXECUTION_ENABLED
    ExchangeFails,  \* whether exchange calls may fail or lose their answer
    None            \* no exit yet, no second entry yet

(* What the levels of a trade are computed from.                           *)
Bases == {None} \cup UNION {DcaZone[t] : t \in Trades}

(* The router accepts only a stop below the entry.  A second entry moves   *)
(* the average towards its price, possibly beyond the stop, and puts the   *)
(* targets on the profit side of the average.                              *)
ASSUME LevelsAssumption ==
    /\ Prices \in [Trades -> SUBSET Int]
    /\ DcaZone \in [Trades -> SUBSET Int]
    /\ None \notin Int
    /\ InitialStop \in Int
    /\ TrailDistances \subseteq Nat
    /\ TrailDistances # {}
    /\ Entry \in [Bases -> Int] /\ BreakEven \in [Bases -> Int]
    /\ TP1 \in [Bases -> Int] /\ TP2 \in [Bases -> Int] /\ TP3 \in [Bases -> Int]
    /\ InitialStop < Entry[None]
    /\ \A b \in Bases :
           /\ Entry[b] <= BreakEven[b]
           /\ BreakEven[b] <= TP1[b]
           /\ TP1[b] <= TP2[b]
           /\ TP2[b] <= TP3[b]
           /\ b # None => b <= Entry[b]

ASSUME ExecutionAssumption ==
    /\ LimitTrades \subseteq Trades
    /\ MinLifespan \in Nat
    /\ MaxHold \in Nat
    /\ AutoModes \subseteq BOOLEAN
    /\ ExchangeFails \in BOOLEAN
    /\ Fraction \in [1..3 -> Nat] /\ Fraction[1] + Fraction[2] + Fraction[3] = 100
    /\ None \notin [how : {"expired", "stop", "invalidated", "full"}, at : Int]

VARIABLES
    tracked,        \* ids in the router's _active_signals
    age,            \* ticks since registration
    status, stop, entry_2, best,       \* Signal.status, stop_loss, entry_2, best_tp_hit
    pc, price,      \* the evaluation of each trade: where it waits, its current_price
    exit,           \* history: how and at which price the outcome was decided
    recorded,       \* history: calls of record_outcome per trade
    placed,         \* _order_placed_ids
    qty,            \* _open_quantities
    closed,         \* _partial_closed_tps
    resting,        \* exchange: the entry order waits to be filled
    position,       \* exchange: what is held of the trade
    auto_execution  \* OrderManager.is_enabled

signalVars == <<status, stop, entry_2, best, exit>>
orderVars  == <<placed, qty, closed, resting, position>>
vars == <<tracked, age, status, stop, entry_2, best, pc, price, exit, recorded,
          placed, qty, closed, resting, position, auto_execution>>

Proven == {"TP1_HIT", "TP2_HIT"}
Final == {"EXPIRED", "SL_HIT", "BREAKEVEN_EXIT", "PROFIT_LOCKED", "INVALIDATED", "FULL_TP_HIT"}
Over == Final \cup {"CANCELLED"}

Init ==
    /\ tracked = Trades
    /\ age = [t \in Trades |-> 0]
    /\ status = [t \in Trades |-> "ACTIVE"]
    /\ stop = [t \in Trades |-> InitialStop]
    /\ entry_2 = [t \in Trades |-> None]
    /\ best = [t \in Trades |-> 0]
    /\ pc = [t \in Trades |-> "idle"]
    /\ price = [t \in Trades |-> Entry[None]]
    /\ exit = [t \in Trades |-> None]
    /\ recorded = [t \in Trades |-> 0]
    /\ placed = {}
    /\ qty = [t \in Trades |-> 0]
    /\ closed = [t \in Trades |-> {}]
    /\ resting = [t \in Trades |-> FALSE]
    /\ position = [t \in Trades |-> 0]
    /\ auto_execution \in AutoModes

Goto(t, l) == pc' = [pc EXCEPT ![t] = l]

-----------------------------------------------------------------------------
(* The poll: gather() over a snapshot, and only one round at a time.       *)
StartRound ==
    /\ \A t \in Trades : pc[t] = "idle"
    /\ pc' = [t \in Trades |-> IF t \in tracked THEN "ready" ELSE "idle"]
    /\ UNCHANGED <<tracked, age, signalVars, price, recorded, orderVars, auto_execution>>

(* _latest_price has nothing for the symbol.                               *)
NoPrice(t) ==
    /\ pc[t] = "ready"
    /\ Goto(t, "idle")
    /\ UNCHANGED <<tracked, age, signalVars, price, recorded, orderVars, auto_execution>>

NeedsOrder(t) == auto_execution /\ status[t] = "ACTIVE" /\ t \notin placed

SendOrder(t, p) ==
    /\ pc[t] = "ready"
    /\ NeedsOrder(t)
    /\ price' = [price EXCEPT ![t] = p]
    /\ Goto(t, "order")
    /\ UNCHANGED <<tracked, age, signalVars, recorded, orderVars, auto_execution>>

-----------------------------------------------------------------------------
(* _evaluate_signal from its beginning to its first suspension.  These     *)
(* operators say what becomes of the signal and of the evaluation.         *)

TooNew(t) ==
    /\ age[t] < MinLifespan
    /\ Goto(t, "idle")
    /\ UNCHANGED signalVars

Expire(t, p) ==
    /\ age[t] >= MaxHold
    /\ exit' = [exit EXCEPT ![t] = [how |-> "expired", at |-> p]]
    /\ status' = [status EXCEPT ![t] = "EXPIRED"]
    /\ Goto(t, "outcome")
    /\ UNCHANGED <<stop, entry_2, best>>

Evaluable(t) == age[t] >= MinLifespan /\ age[t] < MaxHold

DcaDue(t, p) == status[t] = "ACTIVE" /\ entry_2[t] = None /\ p \in DcaZone[t]

(* recalculate_after_dca: the entry and the targets move, the stop stays.  *)
Average(t, p) ==
    /\ Evaluable(t)
    /\ DcaDue(t, p)
    /\ entry_2' = [entry_2 EXCEPT ![t] = p]
    /\ Goto(t, "averaged")
    /\ UNCHANGED <<status, stop, best, exit>>

(* _adjust_trailing: the stop follows the price of a proven trade, never   *)
(* back.                                                                   *)
Larger(x, y) == IF x >= y THEN x ELSE y

Trailed(t, from, p) ==
    \E d \in TrailDistances : stop' = [stop EXCEPT ![t] = Larger(from, p - d)]

StopLabel(t) ==
    IF stop[t] = Entry[entry_2[t]] THEN "BREAKEVEN_EXIT"
    ELSE IF stop[t] < Entry[entry_2[t]] THEN "SL_HIT" ELSE "PROFIT_LOCKED"

(* Variants named ...Faulty and the like are plausible slips of the        *)
(* definition that follows them.  No action uses them: the run must notice *)
(* when one takes the definition's place.                                  *)
StopOutFaulty(t, p) ==
    /\ p <= stop[t]
    /\ exit' = [exit EXCEPT ![t] = [how |-> "stop", at |-> p]]
    /\ status' = [status EXCEPT ![t] = StopLabel(t)]
    /\ Goto(t, "outcome")
    /\ UNCHANGED <<stop, entry_2, best>>

StopOut(t, p) ==
    /\ p <= stop[t]
    /\ exit' = [exit EXCEPT ![t] = [how |-> "stop", at |-> stop[t]]]
    /\ status' = [status EXCEPT ![t] = StopLabel(t)]
    /\ Goto(t, "outcome")
    /\ UNCHANGED <<stop, entry_2, best>>

InvalidateFaulty(t, p) ==
    /\ exit' = [exit EXCEPT ![t] = [how |-> "invalidated", at |-> p]]
    /\ status' = [status EXCEPT ![t] = "INVALIDATED"]
    /\ Goto(t, "outcome")
    /\ UNCHANGED <<stop, entry_2, best>>

(* _check_invalidation finds a reason: the regime, the EMAs, the momentum. *)
Invalidate(t, p) ==
    /\ p > stop[t]
    /\ exit' = [exit EXCEPT ![t] = [how |-> "invalidated", at |-> Larger(p, stop[t])]]
    /\ status' = [status EXCEPT ![t] = "INVALIDATED"]
    /\ Goto(t, "outcome")
    /\ UNCHANGED <<stop, entry_2, best>>

FullTP(t) ==
    /\ exit' = [exit EXCEPT ![t] = [how |-> "full", at |-> TP3[entry_2[t]]]]
    /\ status' = [status EXCEPT ![t] = "FULL_TP_HIT"]
    /\ Goto(t, "outcome")
    /\ UNCHANGED <<stop, entry_2, best>>

HitTP3(t, p) ==
    /\ p >= TP3[entry_2[t]]
    /\ IF auto_execution THEN Goto(t, "close3") /\ UNCHANGED signalVars ELSE FullTP(t)

HitTP2(t, p) ==
    /\ p >= TP2[entry_2[t]]
    /\ p < TP3[entry_2[t]]
    /\ status[t] # "TP2_HIT"
    /\ status' = [status EXCEPT ![t] = "TP2_HIT"]
    /\ Goto(t, "tp2")
    /\ UNCHANGED <<stop, entry_2, best, exit>>

HitTP1(t, p) ==
    /\ p >= TP1[entry_2[t]]
    /\ p < TP2[entry_2[t]]
    /\ status[t] \notin Proven
    /\ status' = [status EXCEPT ![t] = "TP1_HIT"]
    /\ Goto(t, "tp1")
    /\ UNCHANGED <<stop, entry_2, best, exit>>

(* No new target: trail the stop of a proven trade.                        *)
NoTarget(t, p) ==
    /\ p < TP3[entry_2[t]]
    /\ p < TP2[entry_2[t]] \/ status[t] = "TP2_HIT"
    /\ p < TP1[entry_2[t]] \/ status[t] \in Proven
    /\ IF status[t] \in Proven THEN Trailed(t, stop[t], p) ELSE UNCHANGED stop
    /\ Goto(t, "idle")
    /\ UNCHANGED <<status, entry_2, best, exit>>

TakeProfit(t, p) ==
    /\ p > stop[t]
    /\ HitTP3(t, p) \/ HitTP2(t, p) \/ HitTP1(t, p) \/ NoTarget(t, p)

WrongSideUnprotected(t) == stop[t] > Entry[entry_2[t]]

(* The SL sanity check.  The stop of a trade that reached a target is      *)
(* meant to be above the entry.                                            *)
WrongSide(t) == status[t] \notin Proven /\ stop[t] > Entry[entry_2[t]]

Cancel(t) ==
    /\ WrongSide(t)
    /\ status' = [status EXCEPT ![t] = "CANCELLED"]
    /\ Goto(t, "cancel")
    /\ UNCHANGED <<stop, entry_2, best, exit>>

(* From the SL sanity check on.                                            *)
Judge(t, p) ==
    \/ Cancel(t)
    \/ /\ ~ WrongSide(t)
       /\ p = Entry[entry_2[t]]
       /\ Goto(t, "idle")
       /\ UNCHANGED signalVars
    \/ /\ ~ WrongSide(t)
       /\ p # Entry[entry_2[t]]
       /\ StopOut(t, p) \/ Invalidate(t, p) \/ TakeProfit(t, p)

Evaluate(t, p) ==
    \/ TooNew(t)
    \/ Expire(t, p)
    \/ Average(t, p)
    \/ Evaluable(t) /\ ~ DcaDue(t, p) /\ Judge(t, p)

-----------------------------------------------------------------------------
(* The steps of an evaluation.                                             *)

EvaluateNow(t, p) ==
    /\ pc[t] = "ready"
    /\ ~ NeedsOrder(t)
    /\ price' = [price EXCEPT ![t] = p]
    /\ Evaluate(t, p)
    /\ UNCHANGED <<tracked, age, recorded, orderVars, auto_execution>>

Accepted(t) ==
    /\ resting' = [resting EXCEPT ![t] = t \in LimitTrades]
    /\ position' = [position EXCEPT ![t] = IF t \in LimitTrades THEN @ ELSE @ + 100]

OrderAnsweredFaulty(t) ==
    /\ pc[t] = "order"
    /\ \/ Accepted(t) /\ qty' = [qty EXCEPT ![t] = 100] /\ placed' = placed \cup {t}
       \/ ExchangeFails /\ Accepted(t) /\ UNCHANGED <<qty, placed>>
       \/ ExchangeFails /\ UNCHANGED <<resting, position, qty, placed>>
    /\ Evaluate(t, price[t])
    /\ UNCHANGED <<tracked, age, price, recorded, closed, auto_execution>>

(* execute_signal returned: the order was accepted, refused, or accepted   *)
(* without the answer reaching the bot.  A market order fills at once, a   *)
(* limit order rests.  Whatever came back, the id is marked as placed.     *)
OrderAnswered(t) ==
    /\ pc[t] = "order"
    /\ \/ Accepted(t) /\ qty' = [qty EXCEPT ![t] = 100]
       \/ ExchangeFails /\ Accepted(t) /\ UNCHANGED qty
       \/ ExchangeFails /\ UNCHANGED <<resting, position, qty>>
    /\ placed' = placed \cup {t}
    /\ Evaluate(t, price[t])
    /\ UNCHANGED <<tracked, age, price, recorded, closed, auto_execution>>

(* The DCA message is out: the evaluation goes on with the new levels.     *)
DcaPosted(t) ==
    /\ pc[t] = "averaged"
    /\ Judge(t, price[t])
    /\ UNCHANGED <<tracked, age, price, recorded, orderVars, auto_execution>>

TP2PostedFaulty(t) ==
    /\ pc[t] = "tp2"
    /\ best' = [best EXCEPT ![t] = 2]
    /\ LET floor == Larger(stop[t], BreakEven[entry_2[t]]) IN
       IF auto_execution
         THEN stop' = [stop EXCEPT ![t] = floor] /\ Goto(t, "close2")
         ELSE Trailed(t, floor, price[t]) /\ Goto(t, "idle")
    /\ UNCHANGED <<tracked, age, status, entry_2, exit, price, recorded, orderVars, auto_execution>>

(* The TP2 message is out: remember the target, move the stop to TP1, then *)
(* close a part of the position or trail at once.                          *)
TP2Posted(t) ==
    /\ pc[t] = "tp2"
    /\ best' = [best EXCEPT ![t] = 2]
    /\ IF auto_execution
         THEN stop' = [stop EXCEPT ![t] = TP1[entry_2[t]]] /\ Goto(t, "close2")
         ELSE Trailed(t, TP1[entry_2[t]], price[t]) /\ Goto(t, "idle")
    /\ UNCHANGED <<tracked, age, status, entry_2, exit, price, recorded, orderVars, auto_execution>>

TP1Posted(t) ==
    /\ pc[t] = "tp1"
    /\ best' = [best EXCEPT ![t] = IF @ < 1 THEN 1 ELSE @]
    /\ LET floor == Larger(stop[t], BreakEven[entry_2[t]]) IN
       IF auto_execution
         THEN stop' = [stop EXCEPT ![t] = floor] /\ Goto(t, "close1")
         ELSE Trailed(t, floor, price[t]) /\ Goto(t, "idle")
    /\ UNCHANGED <<tracked, age, status, entry_2, exit, price, recorded, orderVars, auto_execution>>

(* close_partial: each level once, whether or not the exchange call works, *)
(* and only for an entry whose quantity is known.  A failed call may still *)
(* have been executed.                                                     *)
Closable(t, k) == k \notin closed[t] /\ qty[t] > 0

ClosePartial(t, k) ==
    /\ closed' = [closed EXCEPT ![t] = @ \cup {k}]
    /\ \/ /\ Closable(t, k)
          /\ position' = [position EXCEPT ![t] = @ - Fraction[k]]
       \/ /\ Closable(t, k) => ExchangeFails
          /\ UNCHANGED position
    /\ UNCHANGED <<placed, qty, resting>>

(* close_partial returned after TP1 or TP2: trail the stop.                *)
PartClosed(t, k) ==
    /\ pc[t] = IF k = 1 THEN "close1" ELSE "close2"
    /\ ClosePartial(t, k)
    /\ Trailed(t, stop[t], price[t])
    /\ Goto(t, "idle")
    /\ UNCHANGED <<tracked, age, status, entry_2, best, exit, price, recorded, auto_execution>>

LastPartClosed(t) ==
    /\ pc[t] = "close3"
    /\ ClosePartial(t, 3)
    /\ FullTP(t)
    /\ UNCHANGED <<tracked, age, price, recorded, auto_execution>>

FinishKeepsSignal(t) ==
    /\ pc[t] = "outcome"
    /\ recorded' = [recorded EXCEPT ![t] = @ + 1]
    /\ placed' = placed \ {t}
    /\ Goto(t, "idle")
    /\ UNCHANGED <<tracked, age, signalVars, price, qty, closed, resting, position, auto_execution>>

FinishUnlessRemoved(t) ==
    /\ pc[t] = "outcome"
    /\ recorded' = [recorded EXCEPT ![t] = IF t \in tracked THEN @ + 1 ELSE @]
    /\ placed' = placed \ {t}
    /\ tracked' = tracked \ {t}
    /\ Goto(t, "idle")
    /\ UNCHANGED <<age, signalVars, price, qty, closed, resting, position, auto_execution>>

(* The message of a final outcome is out: record it, release the order id  *)
(* and remove the signal from the router, which may have dropped it.       *)
Finish(t) ==
    /\ pc[t] = "outcome"
    /\ recorded' = [recorded EXCEPT ![t] = @ + 1]
    /\ placed' = placed \ {t}
    /\ tracked' = tracked \ {t}
    /\ Goto(t, "idle")
    /\ UNCHANGED <<age, signalVars, price, qty, closed, resting, position, auto_execution>>

(* The message of a cancellation is out: the signal leaves the router.     *)
(* Nothing is recorded, the order id stays and the position stays open.    *)
CancelPosted(t) ==
    /\ pc[t] = "cancel"
    /\ tracked' = tracked \ {t}
    /\ Goto(t, "idle")
    /\ UNCHANGED <<age, signalVars, price, recorded, orderVars, auto_execution>>

-----------------------------------------------------------------------------
(* The scan loop expires signals in the router, without an outcome.        *)
CleanupExpired ==
    /\ \E t \in tracked : age[t] >= MaxHold
    /\ tracked' = {t \in tracked : age[t] < MaxHold}
    /\ UNCHANGED <<age, signalVars, pc, price, recorded, orderVars, auto_execution>>

(* The exchange fills a resting limit order.                               *)
LimitFills(t) ==
    /\ resting[t]
    /\ resting' = [resting EXCEPT ![t] = FALSE]
    /\ position' = [position EXCEPT ![t] = @ + 100]
    /\ UNCHANGED <<tracked, age, signalVars, pc, price, recorded, placed, qty, closed, auto_execution>>

Tick ==
    /\ \E t \in Trades : age[t] < MaxHold
    /\ age' = [t \in Trades |-> IF age[t] < MaxHold THEN age[t] + 1 ELSE age[t]]
    /\ UNCHANGED <<tracked, signalVars, pc, price, recorded, orderVars, auto_execution>>

Evaluation(t) ==
    \/ NoPrice(t)
    \/ \E p \in Prices[t] : SendOrder(t, p) \/ EvaluateNow(t, p)
    \/ OrderAnswered(t) \/ DcaPosted(t)
    \/ TP2Posted(t) \/ TP1Posted(t)
    \/ \E k \in 1..2 : PartClosed(t, k)
    \/ LastPartClosed(t)
    \/ Finish(t) \/ CancelPosted(t)

Next ==
    \/ StartRound
    \/ \E t \in Trades : Evaluation(t) \/ LimitFills(t)
    \/ CleanupExpired
    \/ Tick

Spec == Init /\ [][Next]_vars

(* The event loop runs every coroutine whose await has ended; exchange and *)
(* Telegram calls have timeouts.                                           *)
FairSpec == Spec /\ WF_vars(StartRound) /\ \A t \in Trades : WF_vars(Evaluation(t))

-----------------------------------------------------------------------------
Statuses == {"ACTIVE"} \cup Proven \cup Over
Exits == [how : {"expired", "stop", "invalidated", "full"}, at : Int]
Awaits == {"order", "averaged", "cancel", "outcome", "close1", "close2", "close3", "tp1", "tp2"}

TypeOK ==
    /\ tracked \in SUBSET Trades
    /\ age \in [Trades -> Nat]
    /\ status \in [Trades -> Statuses]
    /\ stop \in [Trades -> Int]
    /\ entry_2 \in [Trades -> Bases]
    /\ best \in [Trades -> 0..2]
    /\ pc \in [Trades -> {"idle", "ready"} \cup Awaits]
    /\ price \in [Trades -> Int]
    /\ exit \in [Trades -> Exits \cup {None}]
    /\ recorded \in [Trades -> Nat]
    /\ placed \in SUBSET Trades
    /\ qty \in [Trades -> Nat]
    /\ closed \in [Trades -> SUBSET (1..3)]
    /\ resting \in [Trades -> BOOLEAN]
    /\ position \in [Trades -> Int]
    /\ auto_execution \in BOOLEAN

(* Whenever a signal is at rest or about to be judged, its stop fits its   *)
(* status: an unproven trade has its structural stop, averaging or not; a  *)
(* trade that reached TP1 or TP2 is protected at break-even or TP1.        *)
StopFits(t) ==
    /\ status[t] = "ACTIVE" => stop[t] = InitialStop
    /\ status[t] = "TP1_HIT" => stop[t] >= BreakEven[entry_2[t]]
    /\ status[t] = "TP2_HIT" => stop[t] >= TP1[entry_2[t]]

(* The SL sanity check meets only a trade whose second entry was taken     *)
(* beyond its stop: every trade it cancels is one, and none stays open.    *)
CancelFits(t) ==
    /\ status[t] = "CANCELLED" => entry_2[t] # None /\ entry_2[t] < InitialStop
    /\ status[t] = "ACTIVE" /\ pc[t] # "averaged" => InitialStop <= Entry[entry_2[t]]

(* The stop follows the status, and the check that cancels a trade for its *)
(* stop hits no other trade than the one averaged beyond it, in particular *)
(* none whose stop was raised above the entry by TP1, TP2 or the trailing. *)
StopFollowsStatus ==
    \A t \in Trades :
        /\ pc[t] \in {"idle", "ready", "order", "averaged"} => StopFits(t)
        /\ CancelFits(t)

(* A trade that has proven itself at TP1 does not give the gain back: the  *)
(* stop, an invalidation or TP3 ends it at break-even or better, whatever  *)
(* the price did between two polls and during the awaits.                  *)
Ended(t, how) == exit[t] # None /\ exit[t].how \in how

ProvenExitKeepsProfit ==
    \A t \in Trades :
        Ended(t, {"stop", "invalidated", "full"}) /\ best[t] >= 1 =>
            exit[t].at >= BreakEven[entry_2[t]]

(* The break-even stop promises that a retrace never produces a full loss  *)
(* once TP1 was hit (src/trade_monitor.py:701).                            *)
NoFullLossOnceProven ==
    \A t \in Trades : exit[t] # None /\ best[t] >= 1 => exit[t].at > InitialStop

(* A final outcome reaches the performance tracker and the circuit breaker *)
(* at most once, although the trade stays in the router while its message  *)
(* is being sent and the scan loop may remove it meanwhile.                *)
OutcomeRecordedOnce == \A t \in Trades : recorded[t] <= 1

(* The bot never holds more of a market-order trade than it ordered and    *)
(* never closes more than it holds, when calls fail or lose their answers. *)
PositionWithinOrder == \A t \in Trades \ LimitTrades : position[t] \in 0..100

(* The inductive invariant.  SignalInv ties status, stop and outcome of a  *)
(* signal to the point its evaluation has reached; OrderInv ties what the  *)
(* exchange holds to what the order manager has tracked and closed.        *)
SignalInv(t) ==
    /\ pc[t] \notin {"tp1", "tp2", "outcome"} => StopFits(t)
    /\ pc[t] \in {"tp1", "close1"} => status[t] = "TP1_HIT"
    /\ pc[t] \in {"tp2", "close2"} => status[t] = "TP2_HIT"
    /\ CancelFits(t)
    /\ pc[t] \notin {"idle", "outcome", "cancel"} => status[t] \notin Over
    /\ pc[t] = "outcome" => status[t] \in Final
    /\ pc[t] = "cancel" => status[t] = "CANCELLED"
    /\ pc[t] = "idle" /\ status[t] \in Over => t \notin tracked
    /\ exit[t] = None <=> status[t] \notin Final
    /\ best[t] >= 1 => status[t] \notin {"ACTIVE", "CANCELLED"}
    /\ recorded[t] <= 1
    /\ status[t] \notin Final \/ pc[t] = "outcome" => recorded[t] = 0
    /\ Ended(t, {"stop", "invalidated", "full"}) /\ best[t] >= 1 =>
           exit[t].at >= BreakEven[entry_2[t]]

Share(k, c) == IF k \in c THEN Fraction[k] ELSE 0
Sold(c) == Share(1, c) + Share(2, c) + Share(3, c)

OrderInv(t) ==
    /\ pc[t] = "order" => status[t] = "ACTIVE" /\ t \notin placed
    /\ ~ resting[t]
    /\ qty[t] \in {0, 100}
    /\ qty[t] = 100 => position[t] \in (100 - Sold(closed[t]))..100
    /\ qty[t] = 0 => position[t] \in {0, 100}
    /\ status[t] = "ACTIVE" /\ t \notin placed => qty[t] = 0 /\ position[t] = 0

MonitorInv ==
    /\ TypeOK
    /\ \A t \in Trades : SignalInv(t)
    /\ \A t \in Trades \ LimitTrades : OrderInv(t)

(* The status of a signal never falls back to an earlier target, and a     *)
(* final status stays.                                                     *)
Progress(st) ==
    IF st = "ACTIVE" THEN 0 ELSE IF st = "TP1_HIT" THEN 1 ELSE IF st = "TP2_HIT" THEN 2 ELSE 3

StatusNeverFallsBack ==
    [][\A t \in Trades :
           status'[t] # status[t] => Progress(status[t]) < Progress(status'[t])]_vars

(* What TradeLifecycle sees of a trade: a target counts when its message   *)
(* is out, an end when the outcome or the cancellation is decided, a       *)
(* report when it is recorded.                                             *)
LifePhase(t) ==
    IF status[t] = "CANCELLED" THEN "cancelled"
    ELSE IF recorded[t] > 0 THEN "reported"
    ELSE IF exit[t] # None THEN "ended"
    ELSE IF best[t] = 2 THEN "locked"
    ELSE IF best[t] = 1 THEN "proven" ELSE "open"

LifeResult(t) ==
    IF exit[t] = None THEN None
    ELSE [how |-> exit[t].how, kept |-> exit[t].at >= BreakEven[entry_2[t]]]

Life == INSTANCE TradeLifecycle WITH
    phase <- [t \in Trades |-> LifePhase(t)],
    result <- [t \in Trades |-> LifeResult(t)]

(* The trade monitor implements the life of a trade: targets in order, one *)
(* end, which keeps a proven trade's gain unless its maximum hold is over, *)
(* one report, whatever prices, orders and the scan loop do.               *)
ImplementsLifecycle == Life!Spec

(* An outcome that was decided is recorded, also when the scan loop has    *)
(* removed the signal while its message was being sent.                    *)
DecidedIsRecorded == \A t \in Trades : exit[t] # None ~> recorded[t] > 0

(* The fractions "must sum to 1.0" (src/order_manager.py:41): when every   *)
(* exchange call works, a full take-profit leaves nothing open.            *)
FullTPLeavesNothing ==
    \A t \in Trades :
        status[t] = "FULL_TP_HIT" /\ qty[t] > 0 /\ ~ resting[t] => position[t] = 0
=============================================================================
