---------------------------- MODULE MCJobManager ----------------------------
(* Instances of JobManager for TLC; the constants are given in the .cfg.    *)
EXTENDS JobManager
=============================================================================
