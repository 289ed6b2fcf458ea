---------------------------- MODULE MCTieredStore ----------------------------
EXTENDS TieredStore, TLC

\* HBM and CPU hold one block each, NVMe two files of two units.
SmallTiers == [t \in Tiers |-> IF t = "NVME" THEN 3 ELSE 1]

\* Every tier holds one block.
TightTiers == [t \in Tiers |-> 1]

BlockSymmetry == Permutations(Blocks)
=============================================================================
