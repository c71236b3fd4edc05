---------------------------- MODULE MCBotLifecycle ----------------------------
(* Instances of BotLifecycle for TLC. *)
EXTENDS BotLifecycle, TLC

StartSymmetry == Permutations(Starts)
=============================================================================
