------------------------------ MODULE MCAttempt ------------------------------
(* Instances of Attempt for TLC; the constants are given in the .cfg.        *)
EXTENDS Attempt

(* Working copies of up to three files: of sizes that fit together, only alone, *)
(* or not at all, and one that is no context.                                *)
SmallFile == [kind : {"text"}, size : 1 .. 3] \union {[kind |-> "binary", size |-> 1]}
SmallCopies == UNION {[1 .. n -> SmallFile] : n \in 0 .. 3}
OneCopy == {<< >>}
=============================================================================
