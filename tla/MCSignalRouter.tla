--------------------------- MODULE MCSignalRouter ---------------------------
(***************************************************************************)
(* Four signals on two symbols of one correlation group.  "scalp" has the  *)
(* timing of the scalp channels (stale before the minimum lifespan ends),  *)
(* "swing" that of the slower ones.  Each pair meets another gate: a and d *)
(* share symbol and channel, so that d meets the lock and the cooldown     *)
(* that a leaves behind; a and b exceed the scalp cap, a and c the         *)
(* correlation limit, b and c want symbol Y in opposite directions.  a may *)
(* enter the queue twice.  The liveness runs keep the contenders b and c,  *)
(* in a queue that the retry of one finds full with the other.             *)
(***************************************************************************)
EXTENDS SignalRouter, TLC

CONSTANTS a, b, c, d

MCSignals == {a, b, c, d}
MCContenders == {b, c}
MCSymbols == {"X", "Y"}
MCChannels == {"scalp", "swing"}
MCGroups == {"g"}
MCDirections == {"LONG", "SHORT"}
MCSymbolOf == [s \in Signals |-> IF s \in {a, d} THEN "X" ELSE "Y"]
MCChannelOf == [s \in Signals |-> IF s = c THEN "swing" ELSE "scalp"]
MCDirectionOf == [s \in Signals |-> IF s \in {b, d} THEN "SHORT" ELSE "LONG"]
MCCopies == [s \in Signals |-> IF s = a THEN 2 ELSE 1]
MCOneCopy == [s \in Signals |-> 1]
MCGroupsOf == [sym \in MCSymbols |-> {"g"}]
MCMinConfidence == [ch \in MCChannels |-> 70]
MCChannelMax == "scalp" :> 1 @@ "swing" :> 2
MCCooldown == "scalp" :> 1 @@ "swing" :> 2
MCStaleAfter == "scalp" :> 1 @@ "swing" :> 2
MCMinLifespan == "scalp" :> 2 @@ "swing" :> 1
MCMaxHold == "scalp" :> 3 @@ "swing" :> 3
=============================================================================
