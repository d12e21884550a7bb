--------------------------- MODULE MCBotLifecycle ---------------------------
(* Three instances alive at a time, enough for one that is registered, one the resume
   holds and one that was dropped. *)
EXTENDS BotLifecycle, TLC

CONSTANTS i1, i2, i3

Sym == Permutations({i1, i2, i3})
=============================================================================
