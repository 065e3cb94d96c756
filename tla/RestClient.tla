----------------------------- MODULE RestClient -----------------------------
(***************************************************************************)
(* A Binance client (src/binance.py) and the rate limiter it shares with   *)
(* the other clients of its market (src/rate_limiter.py).  A call passes   *)
(* the depth circuit and acquire, waits for one of the client's slots, is  *)
(* sent, and is retried after a timeout or a 429; callers may give up at   *)
(* any time.                                                               *)
(*                                                                         *)
(* The limiter's window and the sleep of acquire are ticks; a back-off or  *)
(* a burst-protection sleep is much shorter and takes any time.            *)
(***************************************************************************)
EXTENDS Integers, FiniteSets

CONSTANTS
    Calls,       \* concurrent uses of _get
    Depth,       \* those of the depth endpoint
    Weight,      \* of each call
    Retries,     \* max_retries of each call
    Budgets,     \* what bootstrap gives the limiter
    FirstBudget, \* _DEFAULT_BUDGET
    Headers,     \* values of X-MBX-USED-WEIGHT-1m; other users count as well
    NoHeader,    \* the header is missing or no number
    Window,      \* _window_s, in ticks
    Slots,       \* permits of _inflight_sem
    Threshold,   \* DEPTH_CIRCUIT_BREAKER_THRESHOLD
    Cooldown,    \* DEPTH_CIRCUIT_BREAKER_COOLDOWN, in ticks
    MaxBudget    \* the largest budget

ASSUME ClientAssumption ==
    /\ Depth \subseteq Calls
    /\ Retries \in [Calls -> Nat \ {0}]
    /\ Budgets \subseteq Nat /\ FirstBudget \in Nat /\ MaxBudget \in Nat
    /\ \A b \in Budgets \cup {FirstBudget} : b <= MaxBudget
    /\ Weight \in [Calls -> 1..MaxBudget]
    /\ \A c \in Calls, b \in Budgets \cup {FirstBudget} : Weight[c] <= b
    /\ Headers \subseteq Nat /\ NoHeader \notin Nat
    /\ Window \in Nat \ {0} /\ Slots \in Nat \ {0}
    /\ Threshold \in Nat \ {0} /\ Cooldown \in Nat

VARIABLES
    budget, used, age,    \* _budget, _used, ticks since _window_start
    pc,                   \* where each call is
    wake,                 \* ticks a call still sleeps in acquire
    attempt,              \* attempts of a call that have failed
    timeouts, openFor,    \* _depth_consecutive_timeouts, ticks until _depth_circuit_open_until
    spent,                \* history: weight let through since _window_start
    burst,                \* history: weight sent since the last tick
    outage                \* history: no depth call succeeded since the circuit opened

limiterVars == <<budget, used, age, spent>>
callVars == <<pc, wake, attempt>>
depthVars == <<timeouts, openFor, outage>>
vars == <<budget, used, age, pc, wake, attempt, timeouts, openFor, spent, burst, outage>>

Init ==
    /\ budget = FirstBudget
    /\ used = 0 /\ age = 0 /\ spent = 0 /\ burst = 0
    /\ pc = [c \in Calls |-> "idle"]
    /\ wake = [c \in Calls |-> 0]
    /\ attempt = [c \in Calls |-> 0]
    /\ timeouts = 0 /\ openFor = 0 /\ outage = FALSE

-----------------------------------------------------------------------------
(* The limiter.  Current(n) is the counter n after _maybe_reset.           *)
Elapsed == age >= Window

Current(n) == IF Elapsed THEN 0 ELSE n

MaybeReset ==
    /\ used' = Current(used)
    /\ age' = Current(age)
    /\ spent' = Current(spent)

(* acquire: a call the budget has no room for starts the next window and   *)
(* sleeps until the end of this one; any other is counted and goes on.     *)
Acquire(c) ==
    \/ /\ Current(used) + Weight[c] > budget
       /\ used' = Weight[c] /\ spent' = Weight[c] /\ age' = 0
       /\ pc' = [pc EXCEPT ![c] = "asleep"]
       /\ wake' = [wake EXCEPT ![c] = Window - Current(age)]
    \/ /\ Current(used) + Weight[c] <= budget
       /\ used' = Current(used) + Weight[c]
       /\ spent' = Current(spent) + Weight[c]
       /\ age' = Current(age)
       /\ pc' = [pc EXCEPT ![c] = "ready"]
       /\ UNCHANGED wake

(* update_from_header.  Faulty: as the client's own _used_weight.          *)
SyncHeaderFaulty(h) ==
    /\ used' = IF h = NoHeader THEN used ELSE h
    /\ age' = Current(age) /\ spent' = Current(spent)

SyncHeader(h) ==
    \/ h = NoHeader /\ UNCHANGED <<used, age, spent>>
    \/ /\ h # NoHeader
       /\ used' = IF h > Current(used) THEN h ELSE Current(used)
       /\ age' = Current(age) /\ spent' = Current(spent)

(* The scanner reads remaining before it asks for a depth snapshot.        *)
ReadRemaining == MaybeReset /\ UNCHANGED <<budget, callVars, depthVars, burst>>

SetBudget ==
    /\ budget' \in Budgets
    /\ UNCHANGED <<used, age, spent, callVars, depthVars, burst>>

-----------------------------------------------------------------------------
(* A call: idle, asleep in acquire, ready to send, in flight, held back by *)
(* a 429 with its slot, or backing off from a timeout without it.          *)
Start(c) ==
    /\ pc[c] = "idle"
    /\ c \in Depth => openFor = 0
    /\ Acquire(c)
    /\ UNCHANGED <<budget, attempt, depthVars, burst>>

Wake(c) ==
    /\ pc[c] = "asleep" /\ wake[c] = 0
    /\ pc' = [pc EXCEPT ![c] = "ready"]
    /\ UNCHANGED <<limiterVars, wake, attempt, depthVars, burst>>

HoldsSlot(c) == pc[c] \in {"flight", "held"}

Send(c) ==
    /\ pc[c] = "ready"
    /\ Cardinality({d \in Calls : HoldsSlot(d)}) < Slots
    /\ pc' = [pc EXCEPT ![c] = "flight"]
    /\ burst' = IF burst + Weight[c] > MaxBudget THEN MaxBudget + 1 ELSE burst + Weight[c]
    /\ UNCHANGED <<limiterVars, wake, attempt, depthVars>>

(* _get returns or is cancelled.                                           *)
Leave(c) ==
    /\ pc' = [pc EXCEPT ![c] = "idle"]
    /\ wake' = [wake EXCEPT ![c] = 0]
    /\ attempt' = [attempt EXCEPT ![c] = 0]

Answered(c) ==
    /\ pc[c] = "flight"
    /\ \E h \in Headers \cup {NoHeader} : SyncHeader(h)
    /\ \/ c \in Depth /\ timeouts' = 0 /\ outage' = FALSE
       \/ c \notin Depth /\ UNCHANGED <<timeouts, outage>>
    /\ Leave(c)
    /\ UNCHANGED <<budget, openFor, burst>>

(* Another status than 200, 429 and 418, or an exception.                  *)
Refused(c) ==
    /\ pc[c] = "flight"
    /\ Leave(c)
    /\ UNCHANGED <<limiterVars, depthVars, burst>>

(* 429 or 418: the sleep is inside the async with of the semaphore.        *)
RateLimited(c) ==
    /\ pc[c] = "flight"
    /\ pc' = [pc EXCEPT ![c] = "held"]
    /\ UNCHANGED <<limiterVars, wake, attempt, depthVars, burst>>

(* An open circuit ends the call that opened it and, as long as no depth   *)
(* call succeeds, every other one at its next timeout.  Faulty: opening    *)
(* the circuit restarts the count.                                         *)
TimedOutFaulty(c) ==
    /\ pc[c] = "flight"
    /\ IF c \in Depth /\ timeouts + 1 >= Threshold
       THEN timeouts' = 0 /\ openFor' = Cooldown /\ outage' = TRUE /\ Leave(c)
       ELSE /\ timeouts' = timeouts + IF c \in Depth THEN 1 ELSE 0
            /\ pc' = [pc EXCEPT ![c] = "backoff"]
            /\ UNCHANGED <<wake, attempt, openFor, outage>>
    /\ UNCHANGED <<limiterVars, burst>>

TimedOut(c) ==
    /\ pc[c] = "flight"
    /\ \/ /\ c \in Depth /\ timeouts + 1 >= Threshold
          /\ timeouts' = Threshold /\ openFor' = Cooldown /\ outage' = TRUE
          /\ Leave(c)
       \/ /\ c \in Depth /\ timeouts + 1 < Threshold
          /\ timeouts' = timeouts + 1
          /\ pc' = [pc EXCEPT ![c] = "backoff"]
          /\ UNCHANGED <<wake, attempt, openFor, outage>>
       \/ /\ c \notin Depth
          /\ pc' = [pc EXCEPT ![c] = "backoff"]
          /\ UNCHANGED <<wake, attempt, depthVars>>
    /\ UNCHANGED <<limiterVars, burst>>

(* The end of a retry's sleep: the next turn of the loop, or the last one. *)
(* Faulty: the attempts of a limited call are not counted; off by one.     *)
RetryUncounted(c) ==
    /\ pc[c] \in {"held", "backoff"}
    /\ \/ /\ pc[c] = "backoff" /\ attempt[c] + 1 = Retries[c] /\ Leave(c)
       \/ /\ pc[c] = "held" \/ attempt[c] + 1 < Retries[c]
          /\ pc' = [pc EXCEPT ![c] = "ready"]
          /\ attempt' = IF pc[c] = "held" THEN attempt ELSE [attempt EXCEPT ![c] = @ + 1]
          /\ UNCHANGED wake
    /\ UNCHANGED <<limiterVars, depthVars, burst>>

Retry(c) ==
    /\ pc[c] \in {"held", "backoff"}
    /\ \/ attempt[c] + 1 = Retries[c] /\ Leave(c)
       \/ /\ attempt[c] + 1 < Retries[c]
          /\ pc' = [pc EXCEPT ![c] = "ready"]
          /\ attempt' = [attempt EXCEPT ![c] = @ + 1]
          /\ UNCHANGED wake
    /\ UNCHANGED <<limiterVars, depthVars, burst>>

(* wait_for around the call runs out, or its task is cancelled.            *)
GiveUp(c) ==
    /\ pc[c] # "idle"
    /\ Leave(c)
    /\ UNCHANGED <<limiterVars, depthVars, burst>>

Tick ==
    /\ age' = IF age < Window THEN age + 1 ELSE age
    /\ openFor' = IF openFor > 0 THEN openFor - 1 ELSE 0
    /\ wake' = [c \in Calls |-> IF wake[c] > 0 THEN wake[c] - 1 ELSE 0]
    /\ burst' = 0
    /\ UNCHANGED <<budget, used, spent, pc, attempt, timeouts, outage>>

Proceed(c) == Wake(c) \/ Answered(c) \/ Refused(c) \/ RateLimited(c) \/ TimedOut(c) \/ Retry(c)

Next ==
    \/ \E c \in Calls : Start(c) \/ Send(c) \/ Proceed(c) \/ GiveUp(c)
    \/ ReadRemaining
    \/ SetBudget
    \/ Tick

Spec == Init /\ [][Next]_vars

(* Sleeps end, a request in flight has a timeout, and the semaphore serves *)
(* its waiters in turn.                                                    *)
FairSpec ==
    /\ Spec
    /\ WF_vars(Tick)
    /\ \A c \in Calls : WF_vars(Proceed(c)) /\ SF_vars(Send(c))

-----------------------------------------------------------------------------
TypeOK ==
    /\ budget \in Budgets \cup {FirstBudget}
    /\ used \in Nat /\ age \in 0..Window /\ spent \in Nat
    /\ burst \in 0..MaxBudget + 1
    /\ pc \in [Calls -> {"idle", "asleep", "ready", "flight", "held", "backoff"}]
    /\ wake \in [Calls -> 0..Window]
    /\ attempt \in [Calls -> Nat]
    /\ \A c \in Calls : attempt[c] < Retries[c]
    /\ timeouts \in 0..Threshold
    /\ openFor \in 0..Cooldown
    /\ outage \in BOOLEAN

(* In one window of the limiter no more than the largest budget is let     *)
(* through, in whatever order answers with whatever headers come back and  *)
(* whenever the budget is changed.                                         *)
WindowWithinBudget == spent <= used /\ spent <= MaxBudget

(* Once the depth circuit has opened, and until a depth call succeeds, a   *)
(* depth call costs one timeout: none backs off to try again, neither      *)
(* those under way nor those that start when the circuit has closed.       *)
FailsFastInOutage ==
    [][\A c \in Depth : outage /\ outage' /\ pc[c] = "flight" => pc'[c] # "backoff"]_vars

(* Every call returns, with data or without.                               *)
EveryCallReturns == \A c \in Calls : pc[c] # "idle" ~> pc[c] = "idle"

(* rate_limiter.py: acquire suspends the caller until sufficient budget is *)
(* available, so that no request ever exceeds the limit.  Violated: the    *)
(* caller that finds the window exhausted resets it before it sleeps, and  *)
(* the others spend the new budget at once.                                *)
SentWithinBudget == burst <= MaxBudget
=============================================================================
