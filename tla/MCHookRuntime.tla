--------------------------- MODULE MCHookRuntime ---------------------------
(* Bounded instances of HookRuntime.                                       *)
EXTENDS HookRuntime, TLC

CONSTANTS h1, h2, h3, e1

HookSymmetry == Permutations(Hooks)
=============================================================================
