---------------------------- MODULE CbpfKernelLife ----------------------------
(* A kernel from its boot on: the controls of cbpf_cap_init (CbpfBoot), and    *)
(* then, whether they let the kfuncs be registered or not, the programs       *)
(* (CbpfProgram).  The gate such a kernel has may be a wrong one.             *)
EXTENDS CbpfProgram

CONSTANT Faults

\* What may be wrong with a gate: nothing, or one of six things.
ASSUME FaultsAssumption ==
    Faults \subseteq {"none", "stale_accepted", "tag_kept", "count_kept", "first_cell",
                      "failure_not_recorded", "read_consumes"}

VARIABLES
    fault, inexact, refs, s, check, step, ctx, pass,    \* as in CbpfBoot
    control     \* cbpf_active points to a control's invocation

bootVars == <<fault, inexact, refs, s, check, step, ctx, pass, control>>

Boot == INSTANCE CbpfBoot WITH active <- control

LifeInit == Init /\ Boot!Init

\* Initcalls run before the first process.
BootStep == Boot!Next /\ UNCHANGED vars

\* A call of a kfunc that is not registered does not get past the verifier.
Life ==
    /\ Boot!Ending
    /\ \/ \E p \in Program :
             \/ step = "registered" /\ LoadMatching(p)
             \/ LoadOrdinary(p) \/ Unload(p) \/ Attach(p) \/ Detach(p)
       \/ Links
       \/ OnCPU
    /\ UNCHANGED bootVars

LifeNext == BootStep \/ Life

LifeSpec == LifeInit /\ [][LifeNext]_<<vars, bootVars>>

-----------------------------------------------------------------------------
\* Programs with gate calls only ever exist in a kernel whose gate is sound and
\* can make its capabilities, every such kernel offers its gate, and each control
\* leaves the next one, and the first program, the baseline
\* (cbpf_runtime.c:223-228, 341-346, 368-374).
OnlySoundGates ==
    /\ Boot!ControlsDecide
    /\ Boot!ControlsLeaveBaseline
    /\ matched # {} => fault = "none" /\ ~inexact
=============================================================================
