-------------------------- MODULE MCCbpfKernelLife --------------------------
(* The source's gate, and six that are wrong in one thing each.  Then three   *)
(* programs, any of them with gate calls, one link, two CPUs, on each of      *)
(* which one run may interrupt another.                                       *)
EXTENDS CbpfKernelLife, TLC

CONSTANTS p1, p2, p3

MCFaults == {"none", "stale_accepted", "tag_kept", "count_kept", "first_cell",
             "failure_not_recorded", "read_consumes"}
MCProgram == {p1, p2, p3}
ProgramSymmetry == Permutations(MCProgram)
=============================================================================
