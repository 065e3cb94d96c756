--------------------------- MODULE MCTradeMonitor ---------------------------
(***************************************************************************)
(* One trade entered by a market order (m) and one by a limit order (l).   *)
(* The prices of m lie below the stop, in the DCA zone, at the averaged    *)
(* entry and break-even (-1, 0) and at the targets of the averaged         *)
(* (1, 2, 4) and of the single entry (2, 4, 6).  The channel's own stop of *)
(* l was so wide that the DCA zone lies beyond the stop of its plan: l     *)
(* jumps to its last target, through its stop, or into that zone.          *)
(***************************************************************************)
EXTENDS TradeMonitor, TLC

CONSTANTS m, l

MCMarket == {m}
MCLimit == {l}
MCBoth == {m, l}
MCInitialStop == -4
OnBases(level) == [b \in Bases |-> level[b]]
MCEntry == OnBases(None :> 0 @@ -2 :> -1 @@ -12 :> -5)
MCBreakEven == OnBases(None :> 1 @@ -2 :> 0 @@ -12 :> -4)
MCTP1 == OnBases(None :> 2 @@ -2 :> 1 @@ -12 :> -3)
MCTP2 == OnBases(None :> 4 @@ -2 :> 2 @@ -12 :> -2)
MCTP3 == OnBases(None :> 6 @@ -2 :> 4 @@ -12 :> -1)
MCPrices == [t \in Trades |-> IF t = l THEN {-12, -5, 6} ELSE {-5, -2, -1, 0, 1, 2, 4, 6}]
MCDcaZone == [t \in Trades |-> IF t = l THEN {-12} ELSE {-2}]
MCFraction == <<33, 33, 34>>
=============================================================================
