--------------------------- MODULE MCCbpfPrograms ---------------------------
(* The user-space programs that demonstrate, one to a behaviour: demo.c and   *)
(* gate_demo.c on the host, cheri_demo.c, and linux/kfunc/guest.c, or one of  *)
(* the guest's nineteen programs by itself.  demo.c and gate_demo.c use the   *)
(* same variables for cbpf_run.                                               *)
EXTENDS CbpfGateDemo

CONSTANTS Repeats, Attempts

VARIABLES
    main,       \* which program is run
    run,        \* of CbpfDemo
    machine, at, probe_cells, allocated, probe_references, effects, alias, round,
    child, pipe, report, faults, verdict,               \* of CbpfCheriProbe
    stage, index, attempt, executed, open, before, totals, result, kernel,
    insn, registers, slots, misuse, refused, accepted, ran  \* of CbpfKfuncGuest

probeVars == <<machine, at, probe_cells, allocated, probe_references, effects, alias,
               round, child, pipe, report, faults, verdict>>
guestVars == <<stage, index, attempt, executed, open, before, totals, result, kernel,
               insn, registers, slots, misuse, refused, accepted, ran>>
allVars == <<main, run, vars, demoVars, probeVars, guestVars>>

Demo == INSTANCE CbpfDemo WITH
    n <- length, phase <- rphase, pc <- rpc, regs <- rregs, spills <- rspills,
    live <- rlive, cell <- rcell, r <- rr, events <- revents

Probe == INSTANCE CbpfCheriProbe WITH
    cells <- probe_cells, references <- probe_references

Guest == INSTANCE CbpfKfuncGuest WITH
    case <- index, pc <- insn, regs <- registers

MCOperand == 0 .. 4
MCImmediate == {-64, -7} \cup 0 .. 10
EveryViewExact == {{}}

-----------------------------------------------------------------------------
MCInit ==
    /\ main \in {"demo", "gate_demo", "cheri_demo", "guest", "program"}
    /\ IF main = "demo"
       THEN Demo!DemoInit /\ Init /\ n = 0 /\ ~purecap /\ kase = 0 /\ null = FALSE
            /\ step = "next" /\ events = <<>> /\ matched = 0
       ELSE run = 0 /\ DemoInit /\ (main # "gate_demo" => ~purecap)
    /\ Probe!Init /\ (main # "cheri_demo" => machine = "faults")
    /\ IF main = "program" THEN Guest!AloneInit ELSE Guest!GuestInit

DemoRuns ==
    /\ main = "demo"
    /\ Demo!DemoNext
    /\ UNCHANGED <<main, vars, kase, null, step, events, matched, probeVars, guestVars>>

GateDemoRuns ==
    /\ main = "gate_demo"
    /\ DemoNext
    /\ UNCHANGED <<main, run, probeVars, guestVars>>

CheriDemoRuns ==
    /\ main = "cheri_demo"
    /\ Probe!Next
    /\ UNCHANGED <<main, run, vars, demoVars, guestVars>>

GuestRuns ==
    /\ main = "guest"
    /\ Guest!GuestNext
    /\ UNCHANGED <<main, run, vars, demoVars, probeVars>>

ProgramRuns ==
    /\ main = "program"
    /\ Guest!AloneNext
    /\ UNCHANGED <<main, run, vars, demoVars, probeVars>>

MCNext == DemoRuns \/ GateDemoRuns \/ CheriDemoRuns \/ GuestRuns \/ ProgramRuns

\* Each program runs on; of the two processes of cheri_demo.c, both do.
MCSpec ==
    /\ MCInit /\ [][MCNext]_allVars
    /\ WF_allVars(DemoRuns \/ GateDemoRuns \/ GuestRuns \/ ProgramRuns)
    /\ WF_allVars(main = "cheri_demo" /\ Probe!Parent
                      /\ UNCHANGED <<main, run, vars, demoVars, guestVars>>)
    /\ WF_allVars(main = "cheri_demo" /\ Probe!Child
                      /\ UNCHANGED <<main, run, vars, demoVars, guestVars>>)

-----------------------------------------------------------------------------
\* A program that says it passed has shown what it is there to show: each of
\* demo.c's programs ended as expected; both interpreters agree with the table
\* and the metrics with the events, 494 times; both stale aliases faulted; no
\* probe got past the verifier and the module's counters are the table's sums
\* (demo.c:174, gate_demo.c:324, cheri_demo.c:121, guest.c:591).
PassIsEarned ==
    /\ Demo!Demonstrated
    /\ AllCasesMatch
    /\ Probe!PassMeansFaults
    /\ Guest!PassMeansAll

\* What the guest wants loaded keeps the module's contract on every outcome of
\* its acquisitions, and what it wants refused would break it, each for its own
\* reason, and is never run; so that nothing outlives a run and no descriptor
\* the guest (guest.c:178-204, 305, 376, 419).
ProbesForCause ==
    /\ main = "program" => Guest!ValidKeepContract /\ Guest!RejectedForCause
    /\ main = "guest" => Guest!RejectsNeverRun /\ Guest!NothingOutlivesRun /\ Guest!FilesClosed

\* Every program comes to its end, whatever fails; above all the parent of
\* cheri_demo.c never waits for a report nobody will write
\* (demo.c:175, gate_demo.c:328, cheri_demo.c:84-87, guest.c:592).
AllEnd ==
    <>(\/ main = "demo" /\ run > Len(Demo!Programs)
       \/ main = "gate_demo" /\ step = "next" /\ kase >= Cases
       \/ main = "cheri_demo" /\ at = "off"
       \/ main = "guest" /\ stage \in {"poweroff", "returned"}
       \/ main = "program" /\ stage = "accounting")
=============================================================================
