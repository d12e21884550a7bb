------------------------------ MODULE MCRiskDay ------------------------------
(* One engine of each kind on a coin. *)
EXTENDS RiskDay

CONSTANTS base, own
=============================================================================
