---------------------------- MODULE MCPartition ----------------------------
(***************************************************************************)
(* Small instances of Partition.tla for TLC.                               *)
(***************************************************************************)
EXTENDS PartitionProps, TLC

CONSTANTS p1, p2, s1, s2, r1, r2, a, b

\* One publish of one payload and one batch of two.
MCBatches == {<<a>>, <<a, b>>}

\* Every read asks for one message, or for far more than there are.
MCReadSizes == {0, MaxInt}

\* Each subscription has its one reader.
MCSubOf == (r1 :> s1) @@ (r2 :> s2)
MCSubOfOne == r1 :> s1

\* Two readers share a subscription, against the documented contract.
MCSubOfShared == (r1 :> s1) @@ (r2 :> s1)

\* Publishers differ in nothing but their names.
MCSymmetry == Permutations(Publishers)

=============================================================================
