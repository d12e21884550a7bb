--------------------------- MODULE MCExchangeSwitch --------------------------
(* Two exchanges, requests one after the other, no failure. *)
EXTENDS ExchangeSwitch

CONSTANTS bitget, okx, r1, r2
=============================================================================
