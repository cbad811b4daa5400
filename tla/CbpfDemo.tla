------------------------------- MODULE CbpfDemo -------------------------------
(* src/demo.c: fifteen fixed programs given to cbpf_run one after the other,  *)
(* with what the demonstration expects of each.  The interpreter is           *)
(* CbpfMachine's, held to the program at hand; the array r->events, of which  *)
(* it keeps the last entry, is kept whole.                                    *)
EXTENDS CbpfMachine, Sequences

VARIABLES
    run,        \* index of the call of cbpf_run
    p,          \* its program
    events,     \* r->events
    failed      \* main's

demoVars == <<run, p, events, failed>>

Ins(op, dst, src, imm) == [op |-> op, dst |-> dst, src |-> src, imm |-> imm]
ACQUIRE(d, imm) == Ins("ACQUIRE", d, 0, imm)
COPY(d, s) == Ins("COPY", d, s, 0)
SPILL(d, s) == Ins("SPILL", d, s, 0)
RELOAD(d, s) == Ins("RELOAD", d, s, 0)
READ(d) == Ins("READ", d, 0, 0)
RELEASE(d) == Ins("RELEASE", d, 0, 0)
BR_NULL(d, target) == Ins("BR_NULL", d, 0, target)
RETURN(imm) == Ins("RETURN", 0, 0, imm)

valid_ab == <<ACQUIRE(0, 1), ACQUIRE(1, 1), READ(0), RELEASE(0), READ(1),
              RELEASE(1), RETURN(0)>>
stale_a_live_b == <<ACQUIRE(0, 1), ACQUIRE(1, 1), RELEASE(0), READ(1), READ(0),
                    RELEASE(1), RETURN(0)>>
double_release == <<ACQUIRE(0, 1), COPY(1, 0), RELEASE(0), RELEASE(1), RETURN(0)>>
alias_spill == <<ACQUIRE(0, 1), SPILL(0, 0), RELOAD(1, 0), READ(1), RELEASE(1),
                 READ(0), RETURN(0)>>
null_branch == <<ACQUIRE(0, 0), BR_NULL(0, 3), READ(0), RETURN(7)>>
exhaustion == <<ACQUIRE(0, 1), RELEASE(0), ACQUIRE(1, 1), RELEASE(1),
                ACQUIRE(2, 1), RETURN(0)>>
live_cleanup == <<ACQUIRE(0, 1), COPY(1, 0), SPILL(0, 1), RETURN(9)>>

\* example's arguments after the program.
Example(code, status, trap, at, acquired, reads, releases, dropped, returned) ==
    [code |-> code,
     expect |-> [status |-> status, trap |-> trap, pc |-> at, acquired |-> acquired,
                 reads |-> reads, explicit_releases |-> releases,
                 cleanup_releases |-> dropped, returned |-> returned,
                 object_refs |-> 1]]

Examples == <<
    Example(valid_ab, "RETURNED", "NO_TRAP", 6, 2, 2, 2, 0, 0),
    Example(stale_a_live_b, "TRAPPED", "STALE", 4, 2, 1, 1, 1, 0),
    Example(double_release, "TRAPPED", "STALE", 3, 1, 0, 1, 0, 0),
    Example(alias_spill, "TRAPPED", "STALE", 5, 1, 1, 1, 0, 0),
    Example(null_branch, "RETURNED", "NO_TRAP", 3, 0, 0, 0, 0, 7),
    Example(exhaustion, "TRAPPED", "EXHAUSTED", 4, 2, 0, 2, 0, 0),
    Example(live_cleanup, "RETURNED", "NO_TRAP", 3, 1, 0, 0, 1, 9)>>

\* structural_controls: a READ of NULL, then what validation has to refuse, and
\* where.
NullRead == <<READ(0), RETURN(0)>>
Malformed == <<
    [code |-> <<READ(CBPF_REGS), RETURN(0)>>, at |-> 0],
    [code |-> <<BR_NULL(0, 0), RETURN(0)>>, at |-> 0],
    [code |-> <<Ins("OTHER", 0, 0, 0), RETURN(0)>>, at |-> 0],
    [code |-> <<ACQUIRE(0, 1)>>, at |-> 0],
    [code |-> <<ACQUIRE(0, 1), RETURN(7), READ(CBPF_REGS), RETURN(0)>>, at |-> 2]>>

\* execution_boundaries.
early_return == <<ACQUIRE(0, 1), RETURN(7), READ(0), RELEASE(0), ACQUIRE(1, 1), RETURN(9)>>
longest == [q \in 1 .. CBPF_MAX_INSNS |->
               IF q = 1 THEN ACQUIRE(0, 1) ELSE IF q = 2 THEN ACQUIRE(1, 1)
               ELSE IF q = CBPF_MAX_INSNS THEN RETURN(9) ELSE READ(0)]

Programs ==
    [i \in 1 .. Len(Examples) |-> Examples[i].code] \o <<NullRead>>
        \o [i \in 1 .. Len(Malformed) |-> Malformed[i].code] \o <<early_return, longest>>

IsExample == run \in 1 .. 7
IsMalformed == run \in 9 .. 13
EarlyReturn == Len(Programs) - 1
Longest == Len(Programs)

-----------------------------------------------------------------------------
\* The C array of the current program, indexed from 0.
Code(s) == [q \in 0 .. Len(s) - 1 |-> s[q + 1]]

DemoInit ==
    /\ Init
    /\ n = Len(Programs[1])
    /\ run = 1
    /\ p = Code(Programs[1])
    /\ events = <<>>
    /\ failed = FALSE

Bad == { i \in 0 .. n - 1 : ~ValidAt(p[i], i, n) }

\* What is recorded joins the events of this run.
Recorded ==
    /\ events' = IF r'.event_count > r.event_count THEN Append(events, r'.event) ELSE events
    /\ UNCHANGED <<run, p, failed>>

Refuse ==
    /\ Bad # {}
    /\ Reject
    /\ r'.pc = CHOOSE i \in Bad : \A j \in Bad : i <= j
    /\ Recorded

Interpret ==
    /\ \/ Bad = {} /\ Accept
       \/ phase = "run" /\ Execute(p[pc])
       \/ CleanupCell \/ CleanupSkip \/ Finish
    /\ Recorded

-----------------------------------------------------------------------------
\* example: what it was told, and every acquisition consumed once.
ExampleHolds ==
    LET e == Examples[run].expect
    IN  /\ \A f \in DOMAIN e : r[f] = e[f]
        /\ r.reads > 0 => r.last_read = FieldValue
        /\ \A t \in 1 .. r.acquired : r.explicit_by_cell[t] + r.cleanup_by_cell[t] = 1

NullReadHolds == r.status = "TRAPPED" /\ r.trap = "NULL" /\ r.reads = 0

\* Refused at its first offence, with no effect.
MalformedHolds ==
    r = [FreshResult EXCEPT !.status = "INVALID", !.pc = Malformed[run - 8].at]

EarlyReturnHolds ==
    /\ r.status = "RETURNED" /\ r.pc = 1 /\ r.returned = 7
    /\ r.acquired = 1 /\ r.reads = 0 /\ r.explicit_releases = 0
    /\ r.cleanup_releases = 1 /\ r.cleanup_by_cell[1] = 1 /\ r.object_refs = 1
    /\ r.event_count = 3
    /\ events[2].kind = "STEP" /\ events[2].op = "RETURN"
    /\ events[3].kind = "CLEANUP" /\ events[3].pc = 1

\* The longest program fills the events to the last: one step for each
\* instruction, in order, then the cells in the order they were acquired.
LongestHolds ==
    /\ r.status = "RETURNED" /\ r.pc = CBPF_MAX_INSNS - 1 /\ r.returned = 9
    /\ r.acquired = CBPF_CELLS /\ r.reads = CBPF_MAX_INSNS - 3 /\ r.last_read = FieldValue
    /\ r.explicit_releases = 0 /\ r.cleanup_releases = CBPF_CELLS
    /\ r.object_refs = 1 /\ r.event_count = CBPF_MAX_EVENTS
    /\ \A q \in 1 .. CBPF_MAX_INSNS :
          events[q].kind = "STEP" /\ events[q].pc = q - 1 /\ events[q].op = longest[q].op
    /\ \A t \in Token :
          /\ r.explicit_by_cell[t] = 0 /\ r.cleanup_by_cell[t] = 1
          /\ events[CBPF_MAX_INSNS + t] =
                [kind |-> "CLEANUP", op |-> "RELEASE", pc |-> CBPF_MAX_INSNS - 1,
                 token |-> t, object_refs |-> CBPF_CELLS - t + 1]

Holds ==
    \/ IsExample /\ ExampleHolds
    \/ run = 8 /\ NullReadHolds
    \/ IsMalformed /\ MalformedHolds
    \/ run = EarlyReturn /\ EarlyReturnHolds
    \/ run = Longest /\ LongestHolds

\* The result is looked at, and the next program is given to a fresh cbpf_run.
Check ==
    /\ phase = "done" /\ run <= Len(Programs)
    /\ failed' = (failed \/ ~Holds)
    /\ run' = run + 1
    /\ IF run' > Len(Programs)
       THEN UNCHANGED <<vars, p, events>>
       ELSE /\ p' = Code(Programs[run'])
            /\ n' = Len(Programs[run'])
            /\ phase' = "validate" /\ pc' = 0 /\ cell' = 0
            /\ regs' = [d \in Reg |-> NoToken]
            /\ spills' = [s \in Slot |-> NoToken]
            /\ live' = {} /\ r' = FreshResult /\ events' = <<>>

\* main returns; a run that cannot go on is a deadlock.
MainReturns == run > Len(Programs) /\ UNCHANGED <<vars, demoVars>>

DemoNext == Refuse \/ Interpret \/ Check \/ MainReturns

-----------------------------------------------------------------------------
\* Each program ends as the demonstration says it does: the stale alias traps
\* while the other acquisition is still live, NULL and exhaustion trap, and
\* what is left is dropped, in that order and no more (demo.c:157-173).
Demonstrated == ~failed
=============================================================================
