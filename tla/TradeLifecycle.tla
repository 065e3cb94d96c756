--------------------------- MODULE TradeLifecycle ---------------------------
(***************************************************************************)
(* What the engine promises about an announced trade, whatever prices,     *)
(* Telegram, the exchange and the scan loop do: it reaches its targets in  *)
(* order, ends once, keeps its gain when it ends after a target by         *)
(* anything but its maximum hold, and its result is reported once; or it   *)
(* is cancelled before any target, and then never reported.                *)
(* TradeMonitor implements this specification.                             *)
(***************************************************************************)
CONSTANTS
    Trades,
    None      \* no result yet

VARIABLES
    phase,    \* of each trade
    result    \* how a trade ended, and whether at break-even or better

vars == <<phase, result>>

Results == [how : {"expired", "stop", "invalidated", "full"}, kept : BOOLEAN]

Init ==
    /\ phase = [t \in Trades |-> "open"]
    /\ result = [t \in Trades |-> None]

(* A target is announced; the first may be skipped.                        *)
FirstTarget(t) ==
    /\ phase[t] = "open"
    /\ phase' = [phase EXCEPT ![t] = "proven"]
    /\ UNCHANGED result

SecondTarget(t) ==
    /\ phase[t] \in {"open", "proven"}
    /\ phase' = [phase EXCEPT ![t] = "locked"]
    /\ UNCHANGED result

End(t) ==
    /\ phase[t] \in {"open", "proven", "locked"}
    /\ \E r \in Results :
           /\ phase[t] # "open" /\ r.how # "expired" => r.kept
           /\ result' = [result EXCEPT ![t] = r]
    /\ phase' = [phase EXCEPT ![t] = "ended"]

(* Its stop is found on the wrong side of its entry.                       *)
Cancel(t) ==
    /\ phase[t] = "open"
    /\ phase' = [phase EXCEPT ![t] = "cancelled"]
    /\ UNCHANGED result

(* The performance tracker and the circuit breaker learn the result.       *)
Report(t) ==
    /\ phase[t] = "ended"
    /\ phase' = [phase EXCEPT ![t] = "reported"]
    /\ UNCHANGED result

Next == \E t \in Trades : FirstTarget(t) \/ SecondTarget(t) \/ End(t) \/ Cancel(t) \/ Report(t)

Spec == Init /\ [][Next]_vars
=============================================================================
