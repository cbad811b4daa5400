------------------------------ MODULE CbpfBoot ------------------------------
(* cbpf_cap_init of linux/ownership/cbpf_runtime.c: five controls call the    *)
(* production gate from trusted code, before any program can, and the kfuncs  *)
(* are registered only if all five pass.                                      *)
(*                                                                            *)
(* The controls are there to stop a kernel whose gate is wrong.  So the gate  *)
(* here is the one in the source, or one with a fault of those they look for; *)
(* the controls themselves are always the source's.                           *)
EXTENDS Integers, Sequences

CONSTANTS
    Faults          \* the faults the gate may have; "none" is the source's gate

VARIABLES
    fault,      \* the fault of this kernel's gate
    inexact,    \* some capability could not be given exact bounds
    refs,       \* cbpf_object.refs
    active,     \* cbpf_active points to the control's invocation
    s,          \* that invocation
    check,      \* index of the control in cbpf_cap_init
    step,       \* place in the control
    ctx,        \* struct cbpf_callback_context
    pass        \* the control's verdict

vars == <<fault, inexact, refs, active, s, check, step, ctx, pass>>

CellIndex == 0 .. 1
NoView == 0
View(i) == 100 + i                  \* the tagged view of cell i
CBPF_FAILURE == -1

FreshInvocation ==
    [cells |-> [i \in CellIndex |-> "null"], views |-> [i \in CellIndex |-> NoView],
     acquired |-> 0, released |-> 0, reads |-> 0, cleanup |-> 0, failed |-> FALSE]

FreshContext == [aliases |-> [i \in CellIndex |-> NoView],
                 calls |-> 0, completed |-> 0, value |-> 0, dispatched |-> FALSE]

FieldValue == 42

Guard(operation) == [callback |-> FALSE, operation |-> operation,
                     independent |-> FALSE]
Callback(independent) == [callback |-> TRUE, operation |-> 0,
                          independent |-> independent]

\* BUG: the control with two independent acquisitions is left out.
ChecksWithoutB ==
    <<Guard(2), Guard(2), Guard(3), Callback(FALSE), Callback(FALSE)>>

\* stale_copy, stale_spill (whose spill gives the alias back unchanged),
\* duplicate_release, retained_release, independent_b.
Checks == <<Guard(2), Guard(2), Guard(3), Callback(FALSE), Callback(TRUE)>>

This == Checks[check]

Init ==
    /\ fault \in Faults
    /\ inexact = FALSE
    /\ refs = 1
    /\ active = FALSE
    /\ s = FreshInvocation
    /\ check = 1
    /\ step = "begin"
    /\ ctx = FreshContext
    /\ pass = FALSE

-----------------------------------------------------------------------------
(* The gate, as cbpf_gate_impl returns: the invocation and the count after it *)
(* and x0.                                                                    *)
Came(inv, count, x0) == [s |-> inv, refs |-> count, x0 |-> x0]

Failed == Came([s EXCEPT !.failed = (fault # "failure_not_recorded")], refs, CBPF_FAILURE)

\* exact: the bounds of view and object came out exact.
GateAcquire(exact) ==
    IF s.failed \/ s.acquired = 2 \/ ~exact THEN Failed
    ELSE Came([s EXCEPT !.cells[s.acquired] = "tagged",
                        !.views[s.acquired] = View(s.acquired),
                        !.acquired = @ + 1],
              refs + 1, View(s.acquired))

\* The cell a view stands for.
Resolved(inv, alias) ==
    IF fault = "first_cell" THEN 0
    ELSE IF \E i \in CellIndex : i < inv.acquired /\ inv.views[i] = alias
    THEN CHOOSE i \in CellIndex : i < inv.acquired /\ inv.views[i] = alias
    ELSE 2

Live(inv, i) ==
    i \in CellIndex /\ (inv.cells[i] = "tagged" \/ fault = "stale_accepted")

\* cbpf_consume.
Consumed(inv, i, cleanup) ==
    [inv EXCEPT !.cells[i] = IF fault = "tag_kept" THEN @ ELSE "cleared",
                !.released = @ + 1,
                !.cleanup = IF cleanup THEN @ + 1 ELSE @]

Dropped(count) == IF fault = "count_kept" THEN count ELSE count - 1

\* operation 2 or 3 on alias, by an invocation inv that counts count.
GateUse(inv, count, operation, alias) ==
    LET i == Resolved(inv, alias)
    IN  IF inv.failed \/ ~Live(inv, i)
        THEN Came([inv EXCEPT !.failed = (fault # "failure_not_recorded")],
                  count, CBPF_FAILURE)
        ELSE IF operation = 2
        THEN IF fault = "read_consumes"
             THEN Came([Consumed(inv, i, FALSE) EXCEPT !.reads = @ + 1],
                       Dropped(count), FieldValue)
             ELSE Came([inv EXCEPT !.reads = @ + 1], count, FieldValue)
        ELSE Came(Consumed(inv, i, FALSE), Dropped(count), 0)

-----------------------------------------------------------------------------
(* The controls.                                                              *)
Counts(inv, acquired, released, reads) ==
    /\ inv.acquired = acquired /\ inv.released = released
    /\ inv.reads = reads /\ inv.cleanup = 0

Enter(gate) ==
    /\ s' = gate.s
    /\ refs' = gate.refs

Begin ==
    /\ step = "begin"
    /\ s' = FreshInvocation
    /\ ctx' = FreshContext
    /\ pass' = FALSE
    /\ IF active \/ refs # 1
       THEN step' = "out" /\ UNCHANGED active
       ELSE step' = "acquire" /\ active' = TRUE
    /\ UNCHANGED <<fault, inexact, refs, check>>

\* The context keeps full aliases; guards have one.
Acquisitions == IF This.independent THEN 2 ELSE 1

Good(gate) ==
    /\ ~gate.s.failed /\ gate.x0 # CBPF_FAILURE
    /\ This.callback \/ (Counts(gate.s, 1, 0, 0) /\ gate.refs = 2)

Acquire ==
    /\ step = "acquire"
    /\ \E exact \in BOOLEAN :
          LET gate == GateAcquire(exact)
          IN  /\ Enter(gate)
              /\ inexact' = (inexact \/ ~exact)
              /\ IF Good(gate)
                 THEN /\ ctx' = [ctx EXCEPT !.aliases[s.acquired] = gate.x0]
                      /\ step' = IF gate.s.acquired < Acquisitions THEN "acquire"
                                 ELSE IF This.callback THEN "callback" ELSE "release"
                 ELSE step' = "out" /\ UNCHANGED ctx
    /\ UNCHANGED <<fault, active, check, pass>>

\* A consumed identity whose public capability remains intact.
Ended(inv, count) ==
    /\ ctx.aliases[0] = inv.views[0]
    /\ inv.cells[0] # "tagged"
    /\ Counts(inv, 1, 1, 0) /\ count = 1

Release ==
    /\ step = "release"
    /\ LET gate == GateUse(s, refs, 3, ctx.aliases[0])
       IN  /\ Enter(gate)
           /\ step' = IF gate.x0 = 0 /\ ~gate.s.failed /\ Ended(gate.s, gate.refs)
                      THEN "reuse" ELSE "out"
    /\ UNCHANGED <<fault, inexact, active, check, ctx, pass>>

Reuse ==
    /\ step = "reuse"
    /\ LET gate == GateUse(s, refs, This.operation, ctx.aliases[0])
       IN  /\ Enter(gate)
           /\ pass' = (/\ gate.x0 = CBPF_FAILURE /\ gate.s.failed
                       /\ Ended(gate.s, gate.refs))
    /\ step' = "out"
    /\ UNCHANGED <<fault, inexact, active, check, ctx>>

CallbackLimit == IF This.independent THEN 2 ELSE 3

\* The context's alias is the view of its cell.
Canonical(alias, index) == alias = s.views[index] /\ alias # NoView

\* cbpf_ownership_callback, for iteration ctx.calls: read first if it is the
\* second of two independent ones, then release.
OwnershipCallback ==
    /\ step = "callback"
    /\ LET iteration == ctx.calls
           index == IF This.independent THEN iteration ELSE 0
           alias == ctx.aliases[index]
           reads == This.independent /\ iteration = 1
           read == IF reads THEN GateUse(s, refs, 2, alias) ELSE Came(s, refs, 0)
           last == IF read.s.failed THEN read
                   ELSE GateUse(read.s, read.refs, 3, alias)
           ok == ~last.s.failed
       IN  IF Canonical(alias, index)
           THEN /\ Enter(last)
                /\ ctx' = [ctx EXCEPT !.calls = @ + 1,
                                      !.completed = IF ok THEN @ + 1 ELSE @,
                                      !.value = IF reads /\ ~read.s.failed
                                                THEN read.x0 ELSE @,
                                      !.dispatched = ok /\ iteration + 1 = CallbackLimit]
                /\ step' = IF ok /\ iteration + 1 < CallbackLimit THEN "callback"
                           ELSE "verdict"
           ELSE /\ Enter(Failed)
                /\ ctx' = [ctx EXCEPT !.calls = @ + 1]
                /\ step' = "verdict"
    /\ UNCHANGED <<fault, inexact, active, check, pass>>

Verdict ==
    /\ step = "verdict"
    /\ pass' =
          (/\ ctx.dispatched = This.independent
           /\ s.failed = ~This.independent
           /\ ctx.calls = 2
           /\ ctx.completed = IF This.independent THEN 2 ELSE 1
           /\ ctx.value = IF This.independent THEN FieldValue ELSE 0
           /\ Counts(s, Acquisitions, Acquisitions,
                     IF This.independent THEN 1 ELSE 0)
           /\ refs = 1
           /\ \A i \in 0 .. Acquisitions - 1 :
                 ctx.aliases[i] = s.views[i] /\ s.cells[i] # "tagged")
    /\ step' = "out"
    /\ UNCHANGED <<fault, inexact, refs, active, s, check, ctx>>

StillTagged == { i \in CellIndex : s.cells[i] = "tagged" }

NextCheck == IF check < Len(Checks) THEN check + 1 ELSE check

\* out: cells still tagged are consumed, then the arena is cleared; the first
\* control that fails ends cbpf_cap_init.
Teardown ==
    /\ step = "out"
    /\ refs' = CASE StillTagged = {} -> refs
                 [] \E i \in CellIndex : StillTagged = {i} -> Dropped(refs)
                 [] StillTagged = CellIndex -> Dropped(Dropped(refs))
    /\ s' = FreshInvocation
    /\ ctx' = FreshContext
    /\ active' = FALSE
    /\ step' = IF ~pass THEN "refused"
                ELSE IF check < Len(Checks) THEN "begin" ELSE "registered"
    /\ check' = IF pass THEN NextCheck ELSE check
    /\ UNCHANGED <<fault, inexact, pass>>

Next ==
    \/ Begin \/ Acquire \/ Release \/ Reuse
    \/ OwnershipCallback \/ Verdict \/ Teardown

-----------------------------------------------------------------------------
Ending == step \in {"registered", "refused"}

\* The controls turn away each of the faults, and a kernel whose capabilities
\* cannot be made exact, and no sound kernel: only a gate that passes all five
\* is offered to programs (cbpf_runtime.c:368-374).
ControlsDecide ==
    Ending => (step = "registered" <=> fault = "none" /\ ~inexact)

\* Whatever way a control ended, it leaves the provider at its permanent
\* reference and no invocation active, so the next control, and the first
\* program, start from the baseline (cbpf_runtime.c:223-228, 341-346).
ControlsLeaveBaseline ==
    fault = "none" /\ (step = "begin" \/ Ending) =>
        refs = 1 /\ ~active /\ s = FreshInvocation
=============================================================================
