----------------------------- MODULE MCDiscordBot -----------------------------
(* Instances of DiscordBot for TLC; the constants are given in the .cfg.     *)
EXTENDS DiscordBot, TLC

CONSTANTS n1, n2

(* The second name is the first one with a blank before it.                   *)
BlankBeforeSecond == (n1 :> n1) @@ (n2 :> n1)
=============================================================================
