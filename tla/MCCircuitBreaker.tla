-------------------------- MODULE MCCircuitBreaker --------------------------
(***************************************************************************)
(* Two symbols with one job each.  A trade ends by a stop at a loss, an    *)
(* invalidation that costs more but is no stop loss, or a profit.          *)
(***************************************************************************)
EXTENDS CircuitBreaker

MCSymbols == {"a", "b"}
MCSymbolOf == [j \in MCSymbols |-> j]
Result(sl, p) == [hit_sl |-> sl, pnl |-> p]
MCResults == {Result(TRUE, -1), Result(FALSE, -2), Result(FALSE, 1)}
=============================================================================
