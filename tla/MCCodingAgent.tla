---------------------------- MODULE MCCodingAgent ----------------------------
(* Instances of CodingAgent for TLC; the constants are given in the .cfg.   *)
EXTENDS CodingAgent
=============================================================================
