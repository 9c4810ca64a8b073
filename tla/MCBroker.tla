------------------------------ MODULE MCBroker ------------------------------
(***************************************************************************)
(* Small instances of Broker.tla for TLC.                                  *)
(***************************************************************************)
EXTENDS BrokerProps, TLC

CONSTANTS t1, t2, t3, bad, q1, q2, q3, s1, s2, c1, c2, k1, k2, a

MCBatches == {<<a>>}

\* Valid names, callers, closers and heap addresses differ in nothing but their names.
MCSymmetry ==
    Permutations(Topics \ InvalidNames) \union Permutations(Callers)
        \union Permutations(Closers) \union Permutations(Partitions)

=============================================================================
