------------------------------ MODULE MCServer ------------------------------
(***************************************************************************)
(* Small instances of Server.tla for TLC.                                  *)
(***************************************************************************)
EXTENDS ServerProps, TLC

CONSTANTS c1, c2, c3, k1, k2

\* Connections and closers differ in nothing but their names.
MCSymmetry == Permutations(Conns) \union Permutations(Closers)

=============================================================================
