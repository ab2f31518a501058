---------------------------- MODULE MCGitManager ----------------------------
(* Instances of GitManager for TLC; the constants are given in the .cfg.    *)
EXTENDS GitManager

(* Nothing tells two files apart.                                            *)
FileSymmetry == Permutations(File)

(* Two Jobs with everything that can happen to them; once the first has pushed *)
(* its branch and the second, its revision, has a working copy, a third may    *)
(* revise it too, on one version in one process.                              *)
SecondRevision ==
  job[3].place # "absent" =>
    /\ version = 1 /\ life = 1
    /\ job[1].outcome = "pushed"
    /\ job[2].branch = 1 /\ job[2].place \in {"working", "pushing", "ended"}
    /\ job[3].branch = 1
=============================================================================
