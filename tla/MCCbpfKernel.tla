---------------------------- MODULE MCCbpfKernel ----------------------------
(* Two CPUs, whose invocations interleave at every change of the count, with  *)
(* programs of a few gate calls: both cells acquired, one released, the stale *)
(* view used again.                                                           *)
EXTENDS CbpfKernel, TLC

CONSTANTS c1, c2

MCCPU == {c1, c2}
MCOperation == 1 .. 4       \* 4 is no operation
MCScalar == 0 .. 2          \* 2 is not Boolean
MCResult == {0, 1}

CPUSymmetry == Permutations(MCCPU)
=============================================================================
