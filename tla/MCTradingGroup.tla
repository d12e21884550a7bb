--------------------------- MODULE MCTradingGroup ---------------------------
(* Coins and strategies as model values; the cfg files choose mode and events. *)
EXTENDS TradingGroup, TLC

CONSTANTS btc, eth, sA, sB
=============================================================================
