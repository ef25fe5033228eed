------------------------------ MODULE MCUtHash ------------------------------
(* Instances of UtHash for TLC.                                            *)
EXTENDS UtHash

CONSTANT HashValues

\* Keys are interchangeable, so the nondecreasing functions stand for all.
UpToRenaming ==
    {f \in [Keys -> HashValues] : \A j, k \in Keys : j < k => f[j] <= f[k]}
=============================================================================
