--------------------------- MODULE MCEpochRollup ---------------------------
(* Bounded instances of EpochRollup.                                       *)
EXTENDS EpochRollup, TLC

CONSTANTS o1, o2, o3, s1, s2

(* The second scheduler ends after the first window.                       *)
RollingUpdate == {<<s1, 0>>, <<s2, 0>>, <<s1, 1>>}
OneRun == {<<s1, 0>>}

EpochSymmetry == Permutations(Ops)
=============================================================================
