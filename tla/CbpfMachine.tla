----------------------------- MODULE CbpfMachine ----------------------------
(* cbpf_run (src/cbpf.c): the reference interpreter.  One action per          *)
(* instruction outcome, each the whole body of the loop for it, and the       *)
(* terminal cleanup loop one cell at a time.                                  *)
(*                                                                            *)
(* The program is revealed as it is executed: a step picks any instruction    *)
(* validation admits at pc.  ValidAt depends on one instruction and its       *)
(* index, and control only moves forward (PcAdvances), so no index is picked  *)
(* twice, and the behaviours are those of all valid programs of length n.     *)
EXTENDS CbpfIR, FiniteSets

VARIABLES
    n,              \* program length
    phase,          \* place in the code: "validate", "run", "cleanup", "done"
    pc,
    regs, spills,   \* aliases: tokens, or NoToken
    live,           \* { t : live[t - 1] }
    cell,           \* i of the cleanup loop
    r               \* the caller's struct cbpf_result

locals == <<pc, regs, spills, live, cell>>
vars == <<n, phase, locals, r>>

Init ==
    /\ n \in 0 .. CBPF_MAX_INSNS + 1
    /\ phase = "validate"
    /\ pc = 0
    /\ regs = [d \in Reg |-> NoToken]
    /\ spills = [s \in Slot |-> NoToken]
    /\ live = {}
    /\ cell = 0
    /\ r = FreshResult

-----------------------------------------------------------------------------
Loadable == n \in 1 .. CBPF_MAX_INSNS

\* Any program may fail validation; cbpf_validate writes bad_pc into r->pc.
Reject ==
    /\ phase = "validate"
    /\ \E bad_pc \in IF Loadable THEN 0 .. n - 1 ELSE {0} :
         r' = [r EXCEPT !.status = "INVALID", !.pc = bad_pc]
    /\ phase' = "done"
    /\ UNCHANGED <<n, locals>>

Accept ==
    /\ phase = "validate"
    /\ Loadable
    /\ phase' = "run"
    /\ UNCHANGED <<n, locals, r>>

\* Instruction x is at pc and the loop body runs it.
Fetch(x) == phase = "run" /\ pc < n /\ ValidAt(x, pc, n)

\* The ways the body ends: record a step and go on, or stop with a trap.
Continue(res, x, token, next) ==
    /\ r' = Record([res EXCEPT !.pc = pc], "STEP", x.op, pc, token)
    /\ pc' = next
    /\ UNCHANGED <<n, phase, cell>>

\* BUG: a trap returns to the caller without cleanup.
TrapWithoutCleanup(reason, x, token) ==
    /\ r' = Record([r EXCEPT !.pc = pc, !.trap = reason, !.status = "TRAPPED"],
                   "TRAP_EVENT", x.op, pc, token)
    /\ phase' = "done"
    /\ UNCHANGED <<n, locals>>

Trap(reason, x, token) ==
    /\ r' = Record([r EXCEPT !.pc = pc, !.trap = reason, !.status = "TRAPPED"],
                   "TRAP_EVENT", x.op, pc, token)
    /\ phase' = "cleanup"
    /\ UNCHANGED <<n, locals>>

AcquireNull(x) ==
    /\ Fetch(x) /\ x.op = "ACQUIRE" /\ x.imm = 0
    /\ regs' = [regs EXCEPT ![x.dst] = NoToken]
    /\ Continue(r, x, NoToken, pc + 1)
    /\ UNCHANGED <<spills, live>>

Full == r.acquired = CBPF_CELLS

\* BUG: the cell of a consumed acquisition is handed out again.
ReusedToken == IF 1 \in live THEN r.acquired + 1 ELSE 1

\* No cell reuse, even after consumption.
FreshToken == r.acquired + 1

Acquire(x) ==
    /\ Fetch(x) /\ x.op = "ACQUIRE" /\ x.imm # 0
    /\ ~Full
    /\ LET token == FreshToken
       IN  /\ live' = live \cup {token}
           /\ regs' = [regs EXCEPT ![x.dst] = token]
           /\ Continue([r EXCEPT !.acquired = @ + 1,
                                 !.object_refs = @ + 1], x, token, pc + 1)
    /\ UNCHANGED spills

AcquireExhausted(x) ==
    /\ Fetch(x) /\ x.op = "ACQUIRE" /\ x.imm # 0
    /\ Full
    /\ Trap("EXHAUSTED", x, NoToken)

Copy(x) ==
    /\ Fetch(x) /\ x.op = "COPY"
    /\ regs' = [regs EXCEPT ![x.dst] = regs[x.src]]
    /\ Continue(r, x, regs[x.src], pc + 1)
    /\ UNCHANGED <<spills, live>>

Spill(x) ==
    /\ Fetch(x) /\ x.op = "SPILL"
    /\ spills' = [spills EXCEPT ![x.dst] = regs[x.src]]
    /\ Continue(r, x, regs[x.src], pc + 1)
    /\ UNCHANGED <<regs, live>>

Reload(x) ==
    /\ Fetch(x) /\ x.op = "RELOAD"
    /\ regs' = [regs EXCEPT ![x.dst] = spills[x.src]]
    /\ Continue(r, x, spills[x.src], pc + 1)
    /\ UNCHANGED <<spills, live>>

\* Reading or releasing through NULL or through a consumed acquisition.
UseNull(x) ==
    /\ Fetch(x) /\ x.op \in {"READ", "RELEASE"}
    /\ regs[x.dst] = NoToken
    /\ Trap("NULL", x, NoToken)

UseStale(x) ==
    /\ Fetch(x) /\ x.op \in {"READ", "RELEASE"}
    /\ regs[x.dst] # NoToken /\ regs[x.dst] \notin live
    /\ Trap("STALE", x, regs[x.dst])

Read(x) ==
    /\ Fetch(x) /\ x.op = "READ"
    /\ regs[x.dst] \in live
    /\ Continue([r EXCEPT !.reads = @ + 1, !.last_read = FieldValue],
                x, regs[x.dst], pc + 1)
    /\ UNCHANGED <<regs, spills, live>>

\* BUG: the acquisition is released but not consumed.
ReleaseKeepsLive(x) ==
    /\ Fetch(x) /\ x.op = "RELEASE"
    /\ regs[x.dst] \in live
    /\ Continue([r EXCEPT !.object_refs = @ - 1,
                          !.explicit_releases = @ + 1,
                          !.explicit_by_cell[regs[x.dst]] = @ + 1],
                x, regs[x.dst], pc + 1)
    /\ UNCHANGED <<regs, spills, live>>

Release(x) ==
    /\ Fetch(x) /\ x.op = "RELEASE"
    /\ regs[x.dst] \in live
    /\ live' = live \ {regs[x.dst]}
    /\ Continue([r EXCEPT !.object_refs = @ - 1,
                          !.explicit_releases = @ + 1,
                          !.explicit_by_cell[regs[x.dst]] = @ + 1],
                x, regs[x.dst], pc + 1)
    /\ UNCHANGED <<regs, spills>>

\* A consumed alias keeps its token, so it does not take the NULL branch.
BranchNull(x) ==
    /\ Fetch(x) /\ x.op = "BR_NULL"
    /\ Continue(r, x, regs[x.dst],
                IF regs[x.dst] = NoToken THEN x.imm ELSE pc + 1)
    /\ UNCHANGED <<regs, spills, live>>

Return(x) ==
    /\ Fetch(x) /\ x.op = "RETURN"
    /\ r' = Record([r EXCEPT !.pc = pc, !.returned = x.imm,
                             !.status = "RETURNED"], "STEP", x.op, pc, NoToken)
    /\ phase' = "cleanup"
    /\ UNCHANGED <<n, locals>>

-----------------------------------------------------------------------------
Drop(t) ==
    [r EXCEPT !.object_refs = @ - 1, !.cleanup_releases = @ + 1,
              !.cleanup_by_cell[t] = @ + 1]

\* finish: drop every acquisition that is still live, in the order acquired.
CleanupCell ==
    /\ phase = "cleanup" /\ cell < r.acquired
    /\ cell + 1 \in live
    /\ live' = live \ {cell + 1}
    /\ r' = Record(Drop(cell + 1), "CLEANUP", "RELEASE", r.pc, cell + 1)
    /\ cell' = cell + 1
    /\ UNCHANGED <<n, phase, pc, regs, spills>>

\* BUG: a dead cell is not passed over.
CleanupSkipStuck ==
    /\ phase = "cleanup" /\ cell < r.acquired
    /\ cell + 1 \notin live
    /\ UNCHANGED vars

CleanupSkip ==
    /\ phase = "cleanup" /\ cell < r.acquired
    /\ cell + 1 \notin live
    /\ cell' = cell + 1
    /\ UNCHANGED <<n, phase, pc, regs, spills, live, r>>

Finish ==
    /\ phase = "cleanup" /\ cell >= r.acquired
    /\ phase' = "done"
    /\ UNCHANGED <<n, locals, r>>

Execute(x) ==
    \/ AcquireNull(x) \/ Acquire(x) \/ AcquireExhausted(x)
    \/ Copy(x) \/ Spill(x) \/ Reload(x)
    \/ UseNull(x) \/ UseStale(x) \/ Read(x) \/ Release(x)
    \/ BranchNull(x) \/ Return(x)

Progress ==
    \/ Reject \/ Accept
    \/ \E x \in Insn : Execute(x)
    \/ CleanupCell \/ CleanupSkip \/ Finish

\* The function has returned; anything else that cannot move is a deadlock.
Returned == phase = "done" /\ UNCHANGED vars

Next == Progress \/ Returned

Spec == Init /\ [][Next]_vars
FairSpec == Spec /\ WF_vars(Progress)

-----------------------------------------------------------------------------
TypeOK ==
    /\ n \in 0 .. CBPF_MAX_INSNS + 1
    /\ phase \in {"validate", "run", "cleanup", "done"}
    /\ pc \in Nat
    /\ regs \in [Reg -> Alias]
    /\ spills \in [Slot -> Alias]
    /\ live \subseteq Token
    /\ cell \in 0 .. CBPF_CELLS
    /\ r \in ResultType

\* Execution never runs off the end of the program: the loop is left only by
\* RETURN or by a trap, never by its own condition, which would report an
\* ordinary return nobody executed (cbpf.c:61).
WithinProgram == phase = "run" => pc < n

\* The event buffer is never overrun: validated control flow records at most
\* one event per instruction, and cleanup one per cell (cbpf.c:44).
EventsFit == r.event_count <= CBPF_MAX_EVENTS

\* The three accounts of the same drops agree at every step: the reference
\* count, the per-cell counters and the totals (cbpf.c:76, 95-98, 125-128).
AccountsAgree ==
    /\ r.object_refs = 1 + Cardinality(live)
    /\ \A t \in Token :
          r.explicit_by_cell[t] + r.cleanup_by_cell[t] =
              IF t <= r.acquired /\ t \notin live THEN 1 ELSE 0
    /\ r.explicit_releases = Cardinality({t \in Token : r.explicit_by_cell[t] = 1})
    /\ r.cleanup_releases = Cardinality({t \in Token : r.cleanup_by_cell[t] = 1})

\* What the caller receives: every acquisition was consumed and the object is
\* back at its baseline, however the run ended; a trap reason exactly when the
\* status is TRAPPED; and nothing at all happened if validation refused.
SettledResult ==
    phase = "done" =>
        /\ live = {} /\ r.object_refs = 1
        /\ r.explicit_releases + r.cleanup_releases = r.acquired
        /\ (r.status = "TRAPPED") = (r.trap # "NO_TRAP")
        /\ IF r.status = "INVALID"
           THEN r = [FreshResult EXCEPT !.status = "INVALID", !.pc = r.pc]
           ELSE r.event_count > 0

\* Control only moves forward, so every instruction runs at most once.
PcAdvances == [][phase = "run" /\ phase' = "run" => pc' > pc]_vars

\* Once a run has returned or trapped no program effect follows: aliases,
\* reads, explicit releases and the outcome stay, and only cleanup drops what
\* is left (cbpf.c:120).
OnlyCleanup ==
    /\ UNCHANGED <<pc, regs, spills>>
    /\ \A f \in {"status", "trap", "pc", "returned", "acquired", "reads",
                 "explicit_releases", "explicit_by_cell"} : r'[f] = r[f]

NothingAfterEnd == [][(phase \in {"cleanup", "done"}) => OnlyCleanup]_vars

\* Every run returns to its caller, because jumps are forward and cleanup is
\* bounded (cbpf.h:42).
Terminates == <>(phase = "done")

-----------------------------------------------------------------------------
\* The ownership promise, seen from this code: cleanup is one abstract step,
\* taken when the run ends, so what the loop has not dropped yet counts as
\* dropped.
Ended == phase = "cleanup" \/ (phase = "done" /\ r.status # "INVALID")

Reason == [NO_TRAP |-> "return", NULL |-> "null", STALE |-> "stale",
           EXHAUSTED |-> "exhaustion"]

Ownership == INSTANCE CbpfOwnership WITH
    Capacity <- CBPF_CELLS,
    acquired <- r.acquired,
    live <- IF Ended THEN {} ELSE live,
    registers <- regs,
    explicit <- r.explicit_by_cell,
    cleanup <- [t \in Token |-> IF Ended /\ t \in live
                                THEN r.cleanup_by_cell[t] + 1
                                ELSE r.cleanup_by_cell[t]],
    refcount <- IF Ended THEN r.object_refs - Cardinality(live)
                         ELSE r.object_refs,
    terminal <- IF Ended THEN Reason[r.trap] ELSE "active"

\* The interpreter implements the ownership model of theory/check_model.py.
ImplementsOwnership == Ownership!Spec
=============================================================================
