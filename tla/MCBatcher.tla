----------------------------- MODULE MCBatcher -----------------------------
(***************************************************************************)
(* Small instances of Batcher.tla for TLC.                                 *)
(***************************************************************************)
EXTENDS BatcherProps, TLC

CONSTANTS p1, p2, x1, x2, m1, m2, m3, m4

\* Callers, timers and payloads differ in nothing but their names.
MCSymmetry ==
    Permutations(Callers) \union Permutations(Timers) \union Permutations(Messages)

=============================================================================
