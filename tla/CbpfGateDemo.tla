----------------------------- MODULE CbpfGateDemo -----------------------------
(* src/gate_demo.c: 494 programs given first to cbpf_run and then to          *)
(* cbpf_gate_run, the results compared with each other and with what the      *)
(* table says, and the gate's metrics with its own events.  The gate is       *)
(* CbpfGate's and the reference CbpfMachine's, both held to the program at    *)
(* hand; the arrays of events are kept whole.                                 *)
EXTENDS CbpfGate, Sequences

VARIABLES
    kase,       \* index of the case, from 0
    p, length, null,        \* check_case's program, its length, and whether p is NULL
    step,       \* "next", "reference", "gate" or "compare"
    rphase, rpc, rregs, rspills, rlive, rcell, rr,  \* of cbpf_run
    events, revents,        \* the events of the two results
    matched, failed

reference == <<rphase, rpc, rregs, rspills, rlive, rcell, rr, revents>>
case == <<kase, p, length, null>>
demoVars == <<case, step, reference, events, matched, failed>>

Cbpf == INSTANCE CbpfMachine WITH
    n <- length, phase <- rphase, pc <- rpc, regs <- rregs, spills <- rspills,
    live <- rlive, cell <- rcell, r <- rr

Ins(op, dst, src, imm) == [op |-> op, dst |-> dst, src |-> src, imm |-> imm]
ACQUIRE(d, imm) == Ins("ACQUIRE", d, 0, imm)
COPY(d, s) == Ins("COPY", d, s, 0)
SPILL(d, s) == Ins("SPILL", d, s, 0)
RELOAD(d, s) == Ins("RELOAD", d, s, 0)
READ(d) == Ins("READ", d, 0, 0)
RELEASE(d) == Ins("RELEASE", d, 0, 0)
BR_NULL(d, target) == Ins("BR_NULL", d, 0, target)
RETURN(imm) == Ins("RETURN", 0, 0, imm)

\* struct expectation; the masks are sets of tokens.
Expectation(status, trap, at, acquired, reads, rel, drop, returned, count, expl, clean) ==
    [status |-> status, trap |-> trap, pc |-> at, acquired |-> acquired, reads |-> reads,
     explicit_releases |-> rel, cleanup_releases |-> drop, returned |-> returned,
     event_count |-> count,
     explicit_by_cell |-> [t \in Token |-> IF t \in expl THEN 1 ELSE 0],
     cleanup_by_cell |-> [t \in Token |-> IF t \in clean THEN 1 ELSE 0]]

Case(code, expect) == [code |-> code, length |-> Len(code), null |-> FALSE, expect |-> expect]

-----------------------------------------------------------------------------
(* build_case: one operator for each family, with its expectation.            *)
FAMILIES == 10

TwoAcquisitions(a, b, c, slot) == <<ACQUIRE(a, 1), ACQUIRE(b, 1), COPY(c, a), SPILL(slot, a)>>

ValidAB(a, b, c, d, slot) ==
    Case(TwoAcquisitions(a, b, c, slot)
             \o <<READ(c), READ(b), RELOAD(d, slot), RELEASE(d), RELEASE(b), RETURN(7)>>,
         Expectation("RETURNED", "NO_TRAP", 9, 2, 2, 2, 0, 7, 10, {1, 2}, {}))

\* The released acquisition used through last, an alias of it.
StaleUse(a, b, c, d, slot, last) ==
    Case(TwoAcquisitions(a, b, c, slot)
             \o <<RELEASE(a), READ(b), RELOAD(d, slot), last, RELEASE(b), RETURN(7)>>,
         Expectation("TRAPPED", "STALE", 7, 2, 1, 1, 1, 0, 9, {1}, {2}))

NullBranch(a, b, c, d, slot) ==
    Case(<<ACQUIRE(a, 0), COPY(c, a), SPILL(slot, c), RELOAD(d, slot), BR_NULL(d, 7),
           READ(d), RETURN(-7), ACQUIRE(b, 1), READ(b), RELEASE(b), RETURN(7)>>,
         Expectation("RETURNED", "NO_TRAP", 10, 1, 1, 1, 0, 7, 9, {1}, {}))

ConsumedBranch(a, b, c, d, slot) ==
    Case(<<ACQUIRE(a, 1), ACQUIRE(b, 1), COPY(c, a), SPILL(slot, c), RELEASE(a),
           RELOAD(d, slot), BR_NULL(d, 10), READ(b), READ(d), RELEASE(b), RETURN(7)>>,
         Expectation("TRAPPED", "STALE", 8, 2, 1, 1, 1, 0, 10, {1}, {2}))

OverwriteAlias(a, b, c, d, slot) ==
    Case(<<ACQUIRE(a, 1), COPY(c, a), SPILL(slot, c), ACQUIRE(b, 1), ACQUIRE(a, 0),
           COPY(c, a), SPILL(slot, a), RELOAD(d, slot), READ(b), RETURN(9)>>,
         Expectation("RETURNED", "NO_TRAP", 9, 2, 1, 0, 2, 9, 12, {}, {1, 2}))

Exhaustion(a, b, c, d, slot) ==
    Case(<<ACQUIRE(a, 1), COPY(c, a), SPILL(slot, c), RELEASE(a), ACQUIRE(b, 1),
           RELOAD(d, slot), ACQUIRE(d, 1), RETURN(9)>>,
         Expectation("TRAPPED", "EXHAUSTED", 6, 2, 0, 1, 1, 0, 8, {1}, {2}))

\* NULL used next to a live acquisition.
NullUse(a, b, c, d, slot, last) ==
    Case(<<ACQUIRE(b, 1), ACQUIRE(a, 0), COPY(c, a), SPILL(slot, c), RELOAD(d, slot), last,
           READ(b), RETURN(9)>>,
         Expectation("TRAPPED", "NULL", 5, 1, 0, 0, 1, 0, 7, {}, {1}))

Family(f, a, b, c, d, slot) ==
    CASE f = 0 -> ValidAB(a, b, c, d, slot)
      [] f = 1 -> StaleUse(a, b, c, d, slot, READ(c))
      [] f = 2 -> StaleUse(a, b, c, d, slot, READ(d))
      [] f = 3 -> StaleUse(a, b, c, d, slot, RELEASE(d))
      [] f = 4 -> NullBranch(a, b, c, d, slot)
      [] f = 5 -> ConsumedBranch(a, b, c, d, slot)
      [] f = 6 -> OverwriteAlias(a, b, c, d, slot)
      [] f = 7 -> Exhaustion(a, b, c, d, slot)
      [] f = 8 -> NullUse(a, b, c, d, slot, READ(d))
      [] f = 9 -> NullUse(a, b, c, d, slot, RELEASE(d))

-----------------------------------------------------------------------------
\* corpus: the loops over a, b, c, d, of which only the permutations go on.
Nth(S, k) == CHOOSE x \in S : Cardinality({ y \in S : y < x }) = k

Corpus(i) ==
    LET k == i \div (CBPF_SPILLS * FAMILIES)
        a == Nth(Reg, k \div 6)
        b == Nth(Reg \ {a}, (k % 6) \div 2)
        c == Nth(Reg \ {a, b}, k % 2)
        d == Nth(Reg \ {a, b, c}, 0)
    IN  Family(i % FAMILIES, a, b, c, d, (i \div FAMILIES) % CBPF_SPILLS)

CorpusSize == 24 * CBPF_SPILLS * FAMILIES

\* boundaries.
MalformedInsn == <<
    Ins("OTHER", 0, 0, 0), ACQUIRE(CBPF_REGS, 1), ACQUIRE(0, 2), COPY(0, CBPF_REGS),
    SPILL(CBPF_SPILLS, 0), RELOAD(0, CBPF_SPILLS), READ(CBPF_REGS), BR_NULL(0, 2),
    BR_NULL(0, 4)>>

Invalid(at) == Expectation("INVALID", "NO_TRAP", at, 0, 0, 0, 0, 0, 0, {}, {})

\* Stands for the C constant, which is below any other immediate used here.
INT64_MIN == -64

longest ==
    [q \in 1 .. CBPF_MAX_INSNS |->
        IF q = 1 THEN ACQUIRE(0, 1) ELSE IF q = 2 THEN ACQUIRE(1, 1)
        ELSE IF q = CBPF_MAX_INSNS THEN RETURN(INT64_MIN) ELSE READ(0)]

Boundary ==
    [i \in 1 .. Len(MalformedInsn) |->
        Case(<<ACQUIRE(0, 1), RETURN(7), MalformedInsn[i], RETURN(9)>>, Invalid(2))]
      \o <<Case(<<ACQUIRE(0, 1), RETURN(7), READ(0)>>, Invalid(2)),
           Case(<<>>, Invalid(0)),
           [Case(<<>>, Invalid(0)) EXCEPT !.length = 2, !.null = TRUE],
           [Case(longest, Invalid(0)) EXCEPT !.length = CBPF_MAX_INSNS + 1],
           Case(longest, Expectation("RETURNED", "NO_TRAP", CBPF_MAX_INSNS - 1, 2,
                                     CBPF_MAX_INSNS - 3, 0, 2, INT64_MIN, CBPF_MAX_EVENTS,
                                     {}, {1, 2}))>>

Cases == CorpusSize + Len(Boundary)

At(i) == IF i < CorpusSize THEN Corpus(i) ELSE Boundary[i - CorpusSize + 1]

-----------------------------------------------------------------------------
FreshReference ==
    /\ rphase' = "validate" /\ rpc' = 0 /\ rcell' = 0
    /\ rregs' = [d \in Reg |-> NoToken] /\ rspills' = [s \in Slot |-> NoToken]
    /\ rlive' = {} /\ rr' = FreshResult /\ revents' = <<>>

FreshGate ==
    /\ phase' = "validate" /\ pc' = 0 /\ cell' = 0 /\ r' = FreshResult
    /\ regs' = [d \in Reg |-> NullHandle] /\ spills' = [s \in Slot |-> NullHandle]
    /\ cells' = [c \in CellIndex |-> "null"] /\ views' = [c \in CellIndex |-> NullHandle]
    /\ references' = 1 /\ m' = FreshMetrics /\ events' = <<>>

DemoInit ==
    /\ Init
    /\ n = 0 /\ kase = 0 /\ p = <<>> /\ length = 0 /\ null = FALSE
    /\ step = "next"
    /\ rphase = "validate" /\ rpc = 0 /\ rcell = 0
    /\ rregs = [d \in Reg |-> NoToken] /\ rspills = [s \in Slot |-> NoToken]
    /\ rlive = {} /\ rr = FreshResult
    /\ events = <<>> /\ revents = <<>>
    /\ matched = 0 /\ failed = FALSE

\* check_case begins; p is a C array, indexed from 0.
BeginCase ==
    /\ step = "next" /\ kase < Cases
    /\ LET c == At(kase)
       IN  /\ p' = [q \in 0 .. Len(c.code) - 1 |-> c.code[q + 1]]
           /\ length' = c.length /\ n' = c.length /\ null' = c.null
    /\ FreshReference /\ FreshGate
    /\ step' = "reference"
    /\ UNCHANGED <<purecap, inexact, kase, matched, failed>>

Bad ==
    IF null \/ length \notin 1 .. CBPF_MAX_INSNS THEN {0}
    ELSE { i \in 0 .. length - 1 : ~ValidAt(p[i], i, length) }

FirstBad == CHOOSE i \in Bad : \A j \in Bad : i <= j

Appended(old, res, res2) ==
    IF res2.event_count > res.event_count THEN Append(old, res2.event) ELSE old

\* cbpf_run.
ReferenceRuns ==
    /\ step = "reference"
    /\ \/ Bad # {} /\ Cbpf!Reject /\ rr'.pc = FirstBad
       \/ Bad = {} /\ Cbpf!Accept
       \/ rphase = "run" /\ Cbpf!Execute(p[rpc])
       \/ Cbpf!CleanupCell \/ Cbpf!CleanupSkip \/ Cbpf!Finish
    /\ revents' = Appended(revents, rr, rr')
    /\ step' = IF rphase' = "done" THEN "gate" ELSE step
    /\ UNCHANGED <<vars, kase, p, null, events, matched, failed>>

\* cbpf_gate_run; where a view could not be represented it would not go on.
GateRuns ==
    /\ step = "gate"
    /\ \/ Bad # {} /\ Reject /\ r'.pc = FirstBad
       \/ Bad = {} /\ Accept
       \/ phase = "run" /\ Execute(p[pc])
       \/ CleanupCell \/ CleanupSkip \/ Finish
    /\ events' = Appended(events, r, r')
    /\ step' = IF phase' = "done" THEN "compare" ELSE step
    /\ UNCHANGED <<case, reference, matched, failed>>

-----------------------------------------------------------------------------
\* equal_result; of an event only what the entry says.
equal_result == r = rr /\ events = revents

expected_result(res, e) ==
    /\ \A f \in DOMAIN e : res[f] = e[f]
    /\ res.object_refs = 1
    /\ res.last_read = IF e.reads > 0 THEN FieldValue ELSE 0

\* The events other than those of cleanup that are of this operation.
Counted(op) ==
    Cardinality({ q \in DOMAIN events : events[q].kind # "CLEANUP" /\ events[q].op = op })

expected_metrics ==
    /\ m.acquisitions = Counted("ACQUIRE")
    /\ m.reads = Counted("READ")
    /\ m.releases = Counted("RELEASE")
    /\ m.cleanups = r.cleanup_releases
    /\ m.representation_errors = 0
    /\ m.restricted_handles = IF purecap THEN r.acquired ELSE 0
    /\ m.tag_clears = IF purecap THEN r.explicit_releases + r.cleanup_releases ELSE 0

Good ==
    LET e == At(kase).expect
    IN  equal_result /\ expected_result(rr, e) /\ expected_result(r, e) /\ expected_metrics

NextCase == kase + 1

Compare ==
    /\ step = "compare" /\ step' = "next"
    /\ matched' = IF Good THEN matched + 1 ELSE matched
    /\ failed' = (failed \/ ~Good)
    /\ kase' = NextCase
    /\ UNCHANGED <<vars, p, length, null, reference, events>>

\* main returns; a case that cannot go on is a deadlock.
MainReturns == step = "next" /\ kase >= Cases /\ UNCHANGED <<vars, demoVars>>

DemoNext == BeginCase \/ ReferenceRuns \/ GateRuns \/ Compare \/ MainReturns

-----------------------------------------------------------------------------
\* The demonstration passes, and did look at as many cases as it says
\* (gate_demo.c:321-328).
AllCasesMatch ==
    step = "next" /\ kase >= Cases => ~failed /\ matched = 494 /\ matched = Cases
=============================================================================
