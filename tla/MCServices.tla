----------------------------- MODULE MCServices -----------------------------
(***************************************************************************)
(* The engine's services on small instances.  They share no state that     *)
(* matters to their properties, so a behaviour follows one of them, its    *)
(* focus, while the others rest in their initial states: the states of the *)
(* run are the sum of theirs, not the product.                             *)
(***************************************************************************)
EXTENDS WebSocketManager, CandleStore, PairUniverse, Engine, TelegramBot,
        SignalLifecycle, Learning, OrderFlow, MacroWatchdog, GemScanner, TLC

VARIABLE focus

vars == <<focus, wsVars, csVars, puVars, enVars, tgVars, slVars, lrVars, ofVars, mwVars, gmVars>>

Init ==
    /\ focus \in {"sockets", "candles", "pairs", "engine", "telegram", "lifecycle", "learning",
                  "trades", "futures", "watchdog", "gems"}
    /\ WsInit /\ CsInit /\ PuInit /\ EnInit /\ TgInit /\ SlInit /\ LrInit
    /\ OfInit /\ MwInit /\ GmInit

Next ==
    /\ UNCHANGED focus
    /\ \/ focus = "sockets" /\ WsNext
          /\ UNCHANGED <<csVars, puVars, enVars, tgVars, slVars, lrVars, ofVars, mwVars, gmVars>>
       \/ focus = "candles" /\ CsNext
          /\ UNCHANGED <<wsVars, puVars, enVars, tgVars, slVars, lrVars, ofVars, mwVars, gmVars>>
       \/ focus = "pairs" /\ PuNext
          /\ UNCHANGED <<wsVars, csVars, enVars, tgVars, slVars, lrVars, ofVars, mwVars, gmVars>>
       \/ focus = "engine" /\ EnNext
          /\ UNCHANGED <<wsVars, csVars, puVars, tgVars, slVars, lrVars, ofVars, mwVars, gmVars>>
       \/ focus = "telegram" /\ TgNext
          /\ UNCHANGED <<wsVars, csVars, puVars, enVars, slVars, lrVars, ofVars, mwVars, gmVars>>
       \/ focus = "lifecycle" /\ SlNext
          /\ UNCHANGED <<wsVars, csVars, puVars, enVars, tgVars, lrVars, ofVars, mwVars, gmVars>>
       \/ focus = "learning" /\ LrNext
          /\ UNCHANGED <<wsVars, csVars, puVars, enVars, tgVars, slVars, ofVars, mwVars, gmVars>>
       \/ focus = "trades" /\ CandleNext
          /\ UNCHANGED <<wsVars, csVars, puVars, enVars, tgVars, slVars, lrVars, mwVars, gmVars>>
       \/ focus = "futures" /\ FuturesNext
          /\ UNCHANGED <<wsVars, csVars, puVars, enVars, tgVars, slVars, lrVars, mwVars, gmVars>>
       \/ focus = "watchdog" /\ MwNext
          /\ UNCHANGED <<wsVars, csVars, puVars, enVars, tgVars, slVars, lrVars, ofVars, gmVars>>
       \/ focus = "gems" /\ GmNext
          /\ UNCHANGED <<wsVars, csVars, puVars, enVars, tgVars, slVars, lrVars, ofVars, mwVars>>

Spec == Init /\ [][Next]_vars /\ WsFairness

(* The state of every service is well typed.                               *)
ServicesTypeOK ==
    /\ WsTypeOK /\ CsTypeOK /\ PuTypeOK /\ EnTypeOK /\ TgTypeOK /\ SlTypeOK /\ LrTypeOK
    /\ OfTypeOK /\ MwTypeOK /\ GmTypeOK

\* The order flow alone, for what its documentation says.
TradeFlow == Init /\ focus = "trades" /\ [][Next]_vars

MCFutures == {<<>>, <<"a", "b">>, <<"b">>}
MCSpot == {<<>>, <<"c">>}
MCInterval == "g" :> 2 @@ "w" :> 1
MCCombo == "t1" :> "scalp" @@ "t2" :> "swing"
MCMinutes == "1m" :> 1 @@ "5m" :> 2

\* A token with a fresh cross and everything for it, and a weak one.
Strong ==
    [days |-> 365, drawdown |-> 88, range |-> 30, volume |-> 900000, ratio |-> 32,
     above |-> <<TRUE, TRUE, TRUE, FALSE, FALSE>>, reclaimed |-> FALSE, accumulated |-> 25,
     multiple |-> 120, obv |-> TRUE]
Faint ==
    [Strong EXCEPT !.drawdown = 62, !.ratio = 13, !.above = [i \in 1..5 |-> FALSE],
                   !.accumulated = 0, !.multiple = 26, !.obv = FALSE]
MCCandidates == {Strong, Faint}
=============================================================================
