------------------------------ MODULE MCClient ------------------------------
(***************************************************************************)
(* Small instances of Client.tla for TLC.                                  *)
(***************************************************************************)
EXTENDS ClientProps, TLC

CONSTANTS g1, g2, g3, m1, m2, m3, m4, m5, f1

MCPublish(m) == [op |-> "publish", payloads |-> <<m>>]
MCAsync(m) == [op |-> "async", payloads |-> <<m>>]
MCBatch(m, n) == [op |-> "batch", payloads |-> <<m, n>>]

\* Two requests whose answers only the order tells apart, and one without answer.
MCMixed == {MCBatch(m1, m2), MCBatch(m3, m4), MCAsync(m5)}
MCTwo == {MCPublish(m1), MCPublish(m2)}
MCOne == {MCPublish(m1)}
MCOneBatch == {MCBatch(m2, m3)}

\* Callers differ in nothing but their names.
MCSymmetry == Permutations(Callers)

=============================================================================
