--------------------------- MODULE CircuitBreaker ---------------------------
(***************************************************************************)
(* The circuit breaker (src/circuit_breaker.py) between its two users: the *)
(* trade monitor reports the outcomes of open trades, the scan loop asks   *)
(* whether to scan and whether a symbol is suppressed, and an operator may *)
(* reset it.  Its methods run to completion; a scan cycle does not: it     *)
(* asks once, then works on its jobs while trades close and time passes.   *)
(* Nor does what a cycle has found: a job ends when its signal is in the   *)
(* queue, and the router, which never asks the breaker, opens the trade    *)
(* when it gets there, in a later cycle or during a pause.                 *)
(*                                                                         *)
(* Times are ages in ticks, saturated where the code no longer tells them  *)
(* apart.  A profit or loss is a change of the logarithm of the equity, so *)
(* that compounding is addition.  The window holds what the code counts:   *)
(* the outcomes since _monitoring_started_at.                              *)
(***************************************************************************)
EXTENDS Integers, Sequences, FiniteSets

CONSTANTS
    Symbols,
    Jobs,            \* the (symbol, channel) evaluations of a scan cycle
    SymbolOf,        \* the symbol of a job
    Results,         \* [hit_sl, pnl] a trade may end with
    MaxConsecutive,  \* max_consecutive_sl
    MaxHourly,       \* max_hourly_sl
    MaxDrawdown,     \* max_daily_drawdown_pct, as a loss of log-equity
    Cooldown,        \* cooldown_seconds, in ticks
    SymbolMax,       \* per_symbol_max_sl
    SymbolCooldown,  \* per_symbol_cooldown_seconds, in ticks
    Hour, Day,       \* the rolling windows, in ticks
    MaxOutcomes,     \* the deque's maxlen
    MaxBacklog,      \* signals the queue and the router have room for
    None             \* no suppression

ASSUME BreakerAssumption ==
    /\ SymbolOf \in [Jobs -> Symbols]
    /\ Results \subseteq [hit_sl : BOOLEAN, pnl : Int]
    /\ MaxConsecutive \in Nat \ {0} /\ MaxHourly \in Nat \ {0} /\ MaxDrawdown \in Nat \ {0}
    /\ SymbolMax \in Nat \ {0}
    /\ Cooldown \in Nat /\ SymbolCooldown \in Nat
    /\ Hour \in Nat /\ Day \in Nat
    /\ MaxOutcomes \in Nat \ {0}
    /\ MaxBacklog \in Nat \ {0}
    /\ None \notin Nat

VARIABLES
    window,       \* _outcomes since _monitoring_started_at
    consecutive,  \* _consecutive_sl
    tripped, mode,  \* _tripped, _status_mode
    tripAge,      \* ticks since _trip_time
    streak,       \* _per_symbol_consecutive_sl
    left,         \* ticks until _per_symbol_tripped_until, or None
    open,         \* symbols with an open trade
    waiting,      \* jobs of the cycle that have not asked about their symbol
    cleared,      \* jobs on their way from that answer to the queue
    queued,       \* signals of each job in the queue or with the router
    credit        \* history: in a pause, the trades that signals found before
                  \* it may still open, per job

breakerVars == <<window, consecutive, tripped, mode, tripAge, streak, left>>
vars == <<window, consecutive, tripped, mode, tripAge, streak, left, open, waiting, cleared,
          queued, credit>>

Init ==
    /\ window = <<>>
    /\ consecutive = 0
    /\ tripped = FALSE
    /\ mode = "healthy"
    /\ tripAge = 0
    /\ streak = [s \in Symbols |-> 0]
    /\ left = [s \in Symbols |-> None]
    /\ open = {}
    /\ waiting = {}
    /\ cleared = {}
    /\ queued = [j \in Jobs |-> 0]
    /\ credit = [j \in Jobs |-> 0]

-----------------------------------------------------------------------------
(* The rolling window.  An outcome knows whether it was a stop loss, its   *)
(* age, and the equity before it, relative to the current one: the peak of *)
(* the equity curve is the largest of these, or now.                       *)

HourlyLosses(w) == Cardinality({i \in DOMAIN w : w[i].loss /\ w[i].age <= Hour})

DrawdownExceeded(w) ==
    \E i \in DOMAIN w : w[i].age <= Day /\ w[i].before >= MaxDrawdown

LossConditionsActive(w) == HourlyLosses(w) >= MaxHourly \/ DrawdownExceeded(w)

(* Outcomes leave at the old end, for their age or for the deque's length. *)
Pruned(w) == SubSeq(w, 1 + Cardinality({i \in DOMAIN w : w[i].age > Day}), Len(w))

Recorded(w, loss, pnl) ==
    LET kept == IF Len(w) < MaxOutcomes THEN w ELSE Tail(w) IN
    Append([i \in DOMAIN kept |-> [kept[i] EXCEPT !.before = @ - pnl]],
           [loss |-> loss, age |-> 0, before |-> - pnl])

-----------------------------------------------------------------------------
(* _refresh_state, on a window w and a count n of consecutive losses.      *)

StaysRunning(w, n) ==
    /\ ~ tripped
    /\ window' = w
    /\ consecutive' = n
    /\ UNCHANGED <<tripped, mode, tripAge, credit>>

CoolsDown(w, n) ==
    /\ tripped
    /\ tripAge < Cooldown
    /\ window' = w
    /\ consecutive' = n
    /\ mode' = "cooldown"
    /\ UNCHANGED <<tripped, tripAge, credit>>

AwaitsRecovery(w) ==
    /\ tripped
    /\ tripAge >= Cooldown
    /\ LossConditionsActive(w)
    /\ window' = w
    /\ consecutive' = 0
    /\ mode' = "recovery_pending"
    /\ UNCHANGED <<tripped, tripAge, credit>>

NoCredit == [j \in Jobs |-> 0]

(* A fresh monitoring window starts.                                       *)
Resumes(w) ==
    /\ tripped
    /\ tripAge >= Cooldown
    /\ ~ LossConditionsActive(w)
    /\ window' = <<>>
    /\ consecutive' = 0
    /\ tripped' = FALSE
    /\ mode' = "resumed"
    /\ tripAge' = 0
    /\ credit' = NoCredit

Refresh(w, n) == StaysRunning(w, n) \/ CoolsDown(w, n) \/ AwaitsRecovery(w) \/ Resumes(w)

(* _evaluate, after its own refresh, on a running breaker.                 *)
MustTripFaulty(w, n) == n > MaxConsecutive \/ LossConditionsActive(w)

MustTrip(w, n) == n >= MaxConsecutive \/ LossConditionsActive(w)

(* A job of the cycle under way may still find a signal.                   *)
UnderWay(j) == IF j \in waiting \cup cleared THEN 1 ELSE 0

Trip(w, n) ==
    /\ window' = w
    /\ consecutive' = n
    /\ tripped' = TRUE
    /\ mode' = "cooldown"
    /\ tripAge' = 0
    /\ credit' = [j \in Jobs |-> queued[j] + UnderWay(j)]

RefreshAndEvaluate(w, n) ==
    \/ ~ tripped /\ MustTrip(w, n) /\ Trip(w, n)
    \/ (tripped \/ ~ MustTrip(w, n)) /\ Refresh(w, n)

-----------------------------------------------------------------------------
(* The trade monitor.                                                      *)

SymbolOutcome(s, loss) ==
    LET n == streak[s] + 1 IN
    IF loss
      THEN /\ streak' = [streak EXCEPT ![s] = n]
           /\ left' = [left EXCEPT ![s] = IF n >= SymbolMax THEN SymbolCooldown ELSE @]
      ELSE streak' = [streak EXCEPT ![s] = 0] /\ UNCHANGED left

(* record_outcome: only a stop with a negative result is a loss.           *)
RecordOutcome(s, r) ==
    LET loss == r.hit_sl /\ r.pnl < 0 IN
    /\ s \in open
    /\ open' = open \ {s}
    /\ SymbolOutcome(s, loss)
    /\ RefreshAndEvaluate(Recorded(Pruned(window), loss, r.pnl), IF loss THEN consecutive + 1 ELSE 0)
    /\ UNCHANGED <<waiting, cleared, queued>>

(* The router drops an expired trade, or a message is lost: no outcome.    *)
TradeForgotten(s) ==
    /\ s \in open
    /\ open' = open \ {s}
    /\ UNCHANGED <<breakerVars, waiting, cleared, queued, credit>>

-----------------------------------------------------------------------------
(* The scan loop.  gather() ends when every job has ended: skipped, found  *)
(* nothing, or put its signal.                                             *)

CycleIdle == waiting = {} /\ cleared = {}

CycleStartUnrefreshed ==
    /\ CycleIdle
    /\ waiting' = IF tripped THEN {} ELSE Jobs
    /\ UNCHANGED <<breakerVars, open, cleared, queued, credit>>

CycleStartUnchecked ==
    /\ CycleIdle
    /\ Refresh(Pruned(window), consecutive)
    /\ waiting' = Jobs
    /\ UNCHANGED <<streak, left, open, cleared, queued>>

CycleStart ==
    /\ CycleIdle
    /\ Refresh(Pruned(window), consecutive)
    /\ waiting' = IF tripped' THEN {} ELSE Jobs
    /\ UNCHANGED <<streak, left, open, cleared, queued>>

Suppressed(s) == left[s] # None /\ left[s] > 0

(* Some other gate stops the job, or is_symbol_tripped does.               *)
JobSkipped(j) ==
    /\ j \in waiting
    /\ waiting' = waiting \ {j}
    /\ UNCHANGED <<breakerVars, open, cleared, queued, credit>>

(* is_symbol_tripped is false; a lapsed suppression is removed.            *)
JobCleared(j) ==
    LET s == SymbolOf[j] IN
    /\ j \in waiting
    /\ ~ Suppressed(s)
    /\ left' = [left EXCEPT ![s] = None]
    /\ streak' = [streak EXCEPT ![s] = IF left[s] = None THEN @ ELSE 0]
    /\ waiting' = waiting \ {j}
    /\ cleared' = cleared \cup {j}
    /\ UNCHANGED <<window, consecutive, tripped, mode, tripAge, open, queued, credit>>

InQueue == UNION {{j} \X (1..queued[j]) : j \in Jobs}

(* A later gate drops the signal, the queue refuses it, or put() returns:  *)
(* the job does not wait for the router.                                   *)
JobEnds(j) ==
    /\ j \in cleared
    /\ cleared' = cleared \ {j}
    /\ \/ UNCHANGED queued
       \/ /\ Cardinality(InQueue) < MaxBacklog
          /\ queued' = [queued EXCEPT ![j] = @ + 1]
    /\ UNCHANGED <<breakerVars, open, waiting, credit>>

(* The router drains the queue whatever the breaker says: a gate stops the *)
(* signal, or it opens a trade.                                            *)
SignalRouted(j) ==
    /\ queued[j] > 0
    /\ queued' = [queued EXCEPT ![j] = @ - 1]
    /\ \/ UNCHANGED <<open, credit>>
       \/ /\ SymbolOf[j] \notin open
          /\ open' = open \cup {SymbolOf[j]}
          /\ credit' = IF tripped THEN [credit EXCEPT ![j] = @ - 1] ELSE credit
    /\ UNCHANGED <<breakerVars, waiting, cleared>>

-----------------------------------------------------------------------------
(* The operator asks for the status text or resets the breaker.            *)

StatusText ==
    /\ Refresh(Pruned(window), consecutive)
    /\ UNCHANGED <<streak, left, open, waiting, cleared, queued>>

Reset ==
    /\ window' = <<>>
    /\ consecutive' = 0
    /\ tripped' = FALSE
    /\ mode' = "resumed"
    /\ tripAge' = 0
    /\ credit' = NoCredit
    /\ streak' = [s \in Symbols |-> 0]
    /\ left' = [s \in Symbols |-> None]
    /\ UNCHANGED <<open, waiting, cleared, queued>>

Older(age, limit) == IF age < limit THEN age + 1 ELSE age

Tick ==
    /\ window' = [i \in DOMAIN window |-> [window[i] EXCEPT !.age = Older(@, 1 + Day)]]
    /\ tripAge' = IF tripped THEN Older(tripAge, Cooldown) ELSE tripAge
    /\ left' = [s \in Symbols |-> IF Suppressed(s) THEN left[s] - 1 ELSE left[s]]
    /\ UNCHANGED <<consecutive, tripped, mode, streak, open, waiting, cleared, queued, credit>>

Job(j) == JobSkipped(j) \/ JobCleared(j) \/ JobEnds(j)

Next ==
    \/ \E s \in Symbols : TradeForgotten(s) \/ \E r \in Results : RecordOutcome(s, r)
    \/ CycleStart
    \/ \E j \in Jobs : Job(j) \/ SignalRouted(j)
    \/ StatusText
    \/ Reset
    \/ Tick

Spec == Init /\ [][Next]_vars

(* The event loop runs the scan loop and its jobs; time passes.            *)
FairSpec ==
    /\ Spec
    /\ WF_vars(CycleStart) /\ WF_vars(Tick)
    /\ \A j \in Jobs : WF_vars(Job(j))

-----------------------------------------------------------------------------
Outcomes == [loss : BOOLEAN, age : Nat, before : Int]

TypeOK ==
    /\ window \in Seq(Outcomes) /\ Len(window) <= MaxOutcomes
    /\ consecutive \in Nat
    /\ tripped \in BOOLEAN
    /\ mode \in {"healthy", "cooldown", "recovery_pending", "resumed"}
    /\ tripAge \in Nat
    /\ streak \in [Symbols -> Nat]
    /\ left \in [Symbols -> Nat \cup {None}]
    /\ open \in SUBSET Symbols
    /\ waiting \in SUBSET Jobs
    /\ cleared \in SUBSET Jobs
    /\ queued \in [Jobs -> Nat]
    /\ credit \in [Jobs -> Int]

(* While signal generation is not paused, no threshold is exceeded: every  *)
(* loss that should trip the breaker has, and time cannot make a window    *)
(* worse than it was when it was last evaluated.                           *)
SafeWhileRunning ==
    ~ tripped => consecutive < MaxConsecutive /\ ~ LossConditionsActive(window)

(* A symbol with too many losses in a row is under a suppression, or its   *)
(* suppression has lapsed without having been looked at: the counter and   *)
(* the expiry, two dictionaries updated in four places, agree.             *)
StreakSuppresses == \A s \in Symbols : streak[s] >= SymbolMax => left[s] # None

(* A pause stops the search for signals, not the router: the trades that   *)
(* open in it come from signals already queued when the breaker tripped,   *)
(* or from a job of the cycle then under way, one signal each.  No cycle   *)
(* that begins in the pause adds to them, however long it lasts.           *)
PauseOpensBacklogOnly == \A j \in Jobs : credit[j] >= 0

(* Unless the operator resets the breaker, a pause ends after its cooldown *)
(* and with the rolling losses back to normal (status_text's promise).     *)
PauseServed ==
    [][tripped /\ ~ tripped' /\ ~ Reset =>
           /\ tripAge >= Cooldown
           /\ open' = open => ~ LossConditionsActive(Pruned(window))]_vars

(* The inductive invariant: during a pause the credit of a job covers its  *)
(* signals in the queue and the one it may be about to put.                *)
BacklogInv ==
    /\ waiting \cap cleared = {}
    /\ \A j \in Jobs :
           /\ credit[j] >= 0
           /\ tripped => credit[j] >= queued[j] + UnderWay(j)

BreakerInv == TypeOK /\ SafeWhileRunning /\ StreakSuppresses /\ BacklogInv

(* Every pause ends: the trades open when it began and those the backlog   *)
(* opens in it are finitely many, and their losses leave the windows.      *)
EventuallyResumes == tripped ~> ~ tripped
=============================================================================
