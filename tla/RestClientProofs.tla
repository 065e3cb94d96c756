-------------------------- MODULE RestClientProofs --------------------------
(***************************************************************************)
(* Theorems about RestClient for any number of calls, any weights, budgets *)
(* and headers.                                                            *)
(***************************************************************************)
EXTENDS RestClient, TLAPS

(* FailsFastInOutage rests on the count: it stays at the threshold until a *)
(* depth call succeeds.                                                    *)
ClientInv ==
    /\ TypeOK
    /\ WindowWithinBudget
    /\ outage => timeouts = Threshold

(* The part of the invariant the limiter's steps can disturb.              *)
LimiterInv ==
    /\ used \in Nat /\ age \in 0..Window /\ spent \in Nat
    /\ spent <= used /\ spent <= MaxBudget

LEMMA MaybeResetBounded ==
    ASSUME LimiterInv
    PROVE  /\ Current(used) \in Nat /\ Current(age) \in 0..Window /\ Current(spent) \in Nat
           /\ Current(age) < Window
           /\ Current(spent) <= Current(used) /\ Current(spent) <= MaxBudget
BY ClientAssumption DEF LimiterInv, Current, Elapsed

LEMMA AcquireStep ==
    ASSUME LimiterInv, NEW c \in Calls, Acquire(c), TypeOK
    PROVE  /\ LimiterInv'
           /\ wake' \in [Calls -> 0..Window]
           /\ pc' \in [Calls -> {"idle", "asleep", "ready", "flight", "held", "backoff"}]
           /\ \A d \in Calls : pc'[d] = pc[d] \/ pc'[d] \in {"asleep", "ready"}
<1>1. /\ Weight[c] \in Nat /\ Weight[c] <= MaxBudget /\ MaxBudget \in Nat
      /\ budget <= MaxBudget /\ budget \in Nat
    BY ClientAssumption DEF TypeOK
<1>2. /\ Current(used) \in Nat /\ Current(age) \in 0..Window /\ Current(spent) \in Nat
      /\ Current(spent) <= Current(used)
    BY MaybeResetBounded
<1>3. pc \in [Calls -> {"idle", "asleep", "ready", "flight", "held", "backoff"}]
      /\ wake \in [Calls -> 0..Window]
    BY DEF TypeOK
<1>4. CASE Current(used) + Weight[c] > budget /\ used' = Weight[c] /\ spent' = Weight[c]
           /\ age' = 0 /\ pc' = [pc EXCEPT ![c] = "asleep"]
           /\ wake' = [wake EXCEPT ![c] = Window - Current(age)]
    <2>1. Window - Current(age) \in 0..Window
        BY MaybeResetBounded, ClientAssumption
    <2>2. LimiterInv'
        BY <1>1, <1>4, ClientAssumption DEF LimiterInv
    <2> QED
        BY <1>3, <1>4, <2>1, <2>2
<1>5. CASE Current(used) + Weight[c] <= budget /\ used' = Current(used) + Weight[c]
           /\ spent' = Current(spent) + Weight[c] /\ age' = Current(age)
           /\ pc' = [pc EXCEPT ![c] = "ready"] /\ UNCHANGED wake
    <2>1. LimiterInv'
        BY <1>1, <1>5, <1>2 DEF LimiterInv
    <2> QED
        BY <1>3, <1>5, <2>1
<1> QED
    BY <1>4, <1>5 DEF Acquire

LEMMA SyncHeaderStep ==
    ASSUME LimiterInv, NEW h \in Headers \cup {NoHeader}, SyncHeader(h)
    PROVE  LimiterInv'
<1>1. CASE UNCHANGED <<used, age, spent>>
    BY <1>1 DEF LimiterInv
<1>2. CASE h # NoHeader /\ used' = (IF h > Current(used) THEN h ELSE Current(used))
           /\ age' = Current(age) /\ spent' = Current(spent)
    <2>1. h \in Nat
        BY <1>2, ClientAssumption
    <2> QED
        BY <1>2, <2>1, MaybeResetBounded DEF LimiterInv
<1> QED
    BY <1>1, <1>2 DEF SyncHeader

LEMMA InitHolds == Init => ClientInv
<1> SUFFICES ASSUME Init
             PROVE  ClientInv
    OBVIOUS
<1>1. \A c \in Calls : attempt[c] < Retries[c]
    BY ClientAssumption DEF Init
<1>2. /\ used \in Nat /\ age \in 0..Window /\ spent \in Nat /\ burst \in 0..MaxBudget + 1
      /\ timeouts \in 0..Threshold /\ openFor \in 0..Cooldown
    BY ClientAssumption DEF Init
<1>3. wake \in [Calls -> 0..Window] /\ attempt \in [Calls -> Nat]
    BY ClientAssumption DEF Init
<1>4. WindowWithinBudget
    BY ClientAssumption DEF Init, WindowWithinBudget
<1> QED
    BY <1>1, <1>2, <1>3, <1>4 DEF Init, ClientInv, TypeOK

LEMMA StepHolds == ClientInv /\ [Next]_vars => ClientInv'
<1> SUFFICES ASSUME ClientInv, [Next]_vars
             PROVE  ClientInv'
    OBVIOUS
<1>1. TypeOK /\ LimiterInv /\ (outage => timeouts = Threshold)
    BY DEF ClientInv, TypeOK, WindowWithinBudget, LimiterInv
<1>2. ASSUME NEW c \in Calls, Start(c)
      PROVE  ClientInv'
    <2>1. /\ LimiterInv'
          /\ wake' \in [Calls -> 0..Window]
          /\ pc' \in [Calls -> {"idle", "asleep", "ready", "flight", "held", "backoff"}]
        BY <1>1, <1>2, AcquireStep DEF Start
    <2> QED
        BY <1>1, <1>2, <2>1
        DEF Start, ClientInv, TypeOK, WindowWithinBudget, LimiterInv, depthVars
<1>3. ASSUME NEW c \in Calls, Send(c)
      PROVE  ClientInv'
    <2>1. Weight[c] \in Nat
        BY ClientAssumption
    <2>2. burst' \in 0..MaxBudget + 1
        BY <1>1, <1>3, <2>1, ClientAssumption DEF Send, TypeOK
    <2> QED
        BY <1>1, <1>3, <2>2
        DEF Send, ClientInv, TypeOK, WindowWithinBudget, LimiterInv, limiterVars, depthVars
<1>4. ASSUME NEW c \in Calls, Leave(c)
      PROVE  /\ pc' \in [Calls -> {"idle", "asleep", "ready", "flight", "held", "backoff"}]
             /\ wake' \in [Calls -> 0..Window]
             /\ attempt' \in [Calls -> Nat]
             /\ \A d \in Calls : attempt'[d] < Retries[d]
    <2>1. 0 \in 0..Window /\ \A d \in Calls : Retries[d] \in Nat /\ 0 < Retries[d]
        BY ClientAssumption
    <2>2. /\ pc \in [Calls -> {"idle", "asleep", "ready", "flight", "held", "backoff"}]
          /\ wake \in [Calls -> 0..Window]
          /\ attempt \in [Calls -> Nat] /\ \A d \in Calls : attempt[d] < Retries[d]
        BY <1>1 DEF TypeOK
    <2> QED
        BY <1>4, <2>1, <2>2 DEF Leave
<1>5. ASSUME NEW c \in Calls, Answered(c)
      PROVE  ClientInv'
    <2>1. LimiterInv'
        BY <1>1, <1>5, SyncHeaderStep DEF Answered
    <2>2. timeouts' \in 0..Threshold /\ outage' \in BOOLEAN /\ (outage' => timeouts' = Threshold)
        <3>1. CASE c \in Depth /\ timeouts' = 0 /\ outage' = FALSE
            <4>1. timeouts' \in 0..Threshold
                BY <3>1, ClientAssumption
            <4>2. outage' = FALSE
                BY <3>1
            <4> QED
                BY <4>1, <4>2
        <3>2. CASE UNCHANGED <<timeouts, outage>>
            BY <1>1, <3>2 DEF TypeOK
        <3> QED
            BY <1>5, <3>1, <3>2 DEF Answered
    <2> QED
        BY <1>1, <1>4, <1>5, <2>1, <2>2
        DEF Answered, ClientInv, TypeOK, WindowWithinBudget, LimiterInv
<1>6. ASSUME NEW c \in Calls, Refused(c) \/ GiveUp(c)
      PROVE  ClientInv'
    BY <1>1, <1>4, <1>6
    DEF Refused, GiveUp, ClientInv, TypeOK, WindowWithinBudget, LimiterInv, limiterVars,
        depthVars
<1>7. ASSUME NEW c \in Calls, RateLimited(c) \/ Wake(c)
      PROVE  ClientInv'
    BY <1>1, <1>7
    DEF RateLimited, Wake, ClientInv, TypeOK, WindowWithinBudget, LimiterInv, limiterVars,
        depthVars
<1>8. ASSUME NEW c \in Calls, TimedOut(c)
      PROVE  ClientInv'
    <2>1. timeouts' \in 0..Threshold /\ openFor' \in 0..Cooldown /\ outage' \in BOOLEAN
          /\ (outage' => timeouts' = Threshold)
        <3>1. timeouts \in 0..Threshold /\ openFor \in 0..Cooldown /\ outage \in BOOLEAN
              /\ Threshold \in Nat /\ Cooldown \in Nat
            BY <1>1, ClientAssumption DEF TypeOK
        <3>2. CASE timeouts' = Threshold /\ openFor' = Cooldown /\ outage' = TRUE
            BY <3>1, <3>2
        <3>3. CASE timeouts + 1 < Threshold /\ timeouts' = timeouts + 1
                   /\ UNCHANGED <<openFor, outage>>
            <4>1. timeouts # Threshold /\ timeouts' \in 0..Threshold
                BY <3>1, <3>3
            <4>2. ~ outage /\ outage' = outage /\ openFor' = openFor
                BY <1>1, <3>3, <4>1
            <4> QED
                BY <3>1, <4>1, <4>2
        <3>4. CASE UNCHANGED <<timeouts, openFor, outage>>
            BY <1>1, <3>1, <3>4
        <3> QED
            BY <1>8, <3>2, <3>3, <3>4 DEF TimedOut, depthVars
    <2>2. /\ pc' \in [Calls -> {"idle", "asleep", "ready", "flight", "held", "backoff"}]
          /\ wake' \in [Calls -> 0..Window]
          /\ attempt' \in [Calls -> Nat]
          /\ \A d \in Calls : attempt'[d] < Retries[d]
        BY <1>1, <1>4, <1>8 DEF TimedOut, TypeOK
    <2> QED
        BY <1>1, <1>8, <2>1, <2>2
        DEF TimedOut, ClientInv, TypeOK, WindowWithinBudget, LimiterInv, limiterVars
<1>9. ASSUME NEW c \in Calls, Retry(c)
      PROVE  ClientInv'
    <2>1. /\ pc' \in [Calls -> {"idle", "asleep", "ready", "flight", "held", "backoff"}]
          /\ wake' \in [Calls -> 0..Window]
          /\ attempt' \in [Calls -> Nat]
          /\ \A d \in Calls : attempt'[d] < Retries[d]
        BY <1>1, <1>4, <1>9, ClientAssumption DEF Retry, TypeOK
    <2> QED
        BY <1>1, <1>9, <2>1
        DEF Retry, ClientInv, TypeOK, WindowWithinBudget, LimiterInv, limiterVars, depthVars
<1>10. ASSUME ReadRemaining
       PROVE  ClientInv'
    <2>1. LimiterInv'
        BY <1>1, <1>10, MaybeResetBounded DEF ReadRemaining, MaybeReset, LimiterInv
    <2> QED
        BY <1>1, <1>10, <2>1
        DEF ReadRemaining, ClientInv, TypeOK, WindowWithinBudget, LimiterInv, callVars,
            depthVars
<1>11. ASSUME SetBudget
       PROVE  ClientInv'
    BY <1>1, <1>11
    DEF SetBudget, ClientInv, TypeOK, WindowWithinBudget, LimiterInv, callVars, depthVars
<1>12. ASSUME Tick
       PROVE  ClientInv'
    <2>1. wake' \in [Calls -> 0..Window]
        BY <1>1, <1>12, ClientAssumption DEF Tick, TypeOK
    <2>2. age' \in 0..Window /\ openFor' \in 0..Cooldown /\ burst' \in 0..MaxBudget + 1
        BY <1>1, <1>12, ClientAssumption DEF Tick, TypeOK
    <2> QED
        BY <1>1, <1>12, <2>1, <2>2
        DEF Tick, ClientInv, TypeOK, WindowWithinBudget, LimiterInv
<1>13. ASSUME UNCHANGED vars
       PROVE  ClientInv'
    BY <1>1, <1>13 DEF vars, ClientInv, TypeOK, WindowWithinBudget, LimiterInv
<1> QED
    BY <1>2, <1>3, <1>5, <1>6, <1>7, <1>8, <1>9, <1>10, <1>11, <1>12, <1>13
    DEF Next, Proceed

LEMMA Invariance == Spec => []ClientInv
BY InitHolds, StepHolds, PTL DEF Spec

-----------------------------------------------------------------------------
(* Limiter, calls and depth circuit are well typed, and no call fails more *)
(* often than it may retry.                                                *)
THEOREM TypeCorrect == Spec => []TypeOK
<1>1. ClientInv => TypeOK
    BY DEF ClientInv
<1> QED
    BY <1>1, Invariance, PTL

(* In one window of the limiter no more than the largest budget is let     *)
(* through.                                                                *)
THEOREM WindowHolds == Spec => []WindowWithinBudget
<1>1. ClientInv => WindowWithinBudget
    BY DEF ClientInv
<1> QED
    BY <1>1, Invariance, PTL

(* In an outage of the depth endpoint a call costs one timeout.            *)
THEOREM FailsFastHolds == Spec => FailsFastInOutage
<1>1. ASSUME ClientInv, [Next]_vars, NEW c \in Depth, outage, outage', pc[c] = "flight",
             pc'[c] = "backoff"
      PROVE  FALSE
    <2>1. c \in Calls /\ timeouts + 1 > Threshold /\ TypeOK
        BY <1>1, ClientAssumption DEF ClientInv
    <2>2. pc \in [Calls -> {"idle", "asleep", "ready", "flight", "held", "backoff"}]
        BY <2>1 DEF TypeOK
    <2>3. ~ \E d \in Calls : Start(d)
        <3> SUFFICES ASSUME NEW d \in Calls, Start(d)
                     PROVE  FALSE
            OBVIOUS
        <3>1. LimiterInv
            BY <1>1 DEF ClientInv, TypeOK, WindowWithinBudget, LimiterInv
        <3>2. Acquire(d)
            BY DEF Start
        <3> QED
            BY <1>1, <2>1, <3>1, <3>2, AcquireStep
    <2>4. ~ \E d \in Calls : Send(d) \/ Wake(d) \/ RateLimited(d)
        BY <1>1, <2>1, <2>2 DEF Send, Wake, RateLimited
    <2>5. ~ \E d \in Calls : Answered(d) \/ Refused(d) \/ GiveUp(d)
        BY <1>1, <2>1, <2>2 DEF Answered, Refused, GiveUp, Leave
    <2>6. ~ \E d \in Calls : Retry(d)
        BY <1>1, <2>1, <2>2 DEF Retry, Leave
    <2>7. ~ \E d \in Calls : TimedOut(d)
        BY <1>1, <2>1, <2>2, ClientAssumption DEF TimedOut, Leave, TypeOK
    <2>8. ~ (ReadRemaining \/ SetBudget \/ Tick \/ UNCHANGED vars)
        BY <1>1 DEF ReadRemaining, SetBudget, Tick, callVars, vars
    <2> QED
        BY <1>1, <2>3, <2>4, <2>5, <2>6, <2>7, <2>8 DEF Next, Proceed
<1>2. ClientInv /\ [Next]_vars
      => [\A c \in Depth : outage /\ outage' /\ pc[c] = "flight" => pc'[c] # "backoff"]_vars
    BY <1>1
<1> QED
    BY <1>2, Invariance, PTL DEF Spec, FailsFastInOutage
=============================================================================
