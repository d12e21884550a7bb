---------------------------- MODULE MCSingleEngine ----------------------------
(* One engine that asks Grok before it enters. *)
EXTENDS SingleEngine
=============================================================================
