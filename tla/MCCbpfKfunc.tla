----------------------------- MODULE MCCbpfKfunc -----------------------------
(* Two CPUs and two allocations; neither CPUs nor memory have an order.       *)
EXTENDS CbpfKfunc, TLC

CONSTANTS c1, c2, m1, m2

MCCPU == {c1, c2}
MCMemory == {m1, m2}
Symmetry == Permutations(MCCPU) \cup Permutations(MCMemory)
=============================================================================
