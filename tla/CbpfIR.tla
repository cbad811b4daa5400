------------------------------- MODULE CbpfIR -------------------------------
(* The instruction set of the host model (src/cbpf.h) and the structural      *)
(* rules cbpf_validate (src/cbpf.c) imposes on one instruction.  Both         *)
(* interpreters, cbpf_run and cbpf_gate_run, run only validated programs.     *)
EXTENDS Integers

CONSTANTS
    CBPF_CELLS,      \* acquisitions one invocation may make (2 in cbpf.h)
    CBPF_REGS,       \* registers (4)
    CBPF_SPILLS,     \* spill slots (2)
    CBPF_MAX_INSNS,  \* longest program (64)
    Operand,         \* values the unsigned fields dst and src range over
    Immediate        \* values the int64_t field imm ranges over

ASSUME SizesAssumption ==
    /\ CBPF_CELLS \in Nat
    /\ CBPF_REGS \in Nat
    /\ CBPF_SPILLS \in Nat
    /\ CBPF_MAX_INSNS \in Nat

ASSUME FieldsAssumption ==
    /\ Operand \subseteq Nat
    /\ Immediate \subseteq Int

\* One event per executed instruction, then at most one per cell (cbpf.h:9).
CBPF_MAX_EVENTS == CBPF_MAX_INSNS + CBPF_CELLS

Opcode == {"ACQUIRE", "COPY", "SPILL", "RELOAD", "READ", "RELEASE",
           "BR_NULL", "RETURN"}

\* "OTHER" stands for every enum value outside the opcode range.
Insn == [op : Opcode \cup {"OTHER"}, dst : Operand, src : Operand,
         imm : Immediate]

Reg == 0 .. CBPF_REGS - 1
Slot == 0 .. CBPF_SPILLS - 1
Token == 1 .. CBPF_CELLS          \* token t names the t-th acquisition
NoToken == 0                      \* the NULL alias
Alias == Token \cup {NoToken}

\* BUG: a branch may target the end of the program.
BranchToEnd(i, target, count) == i < target /\ target <= count

\* BUG: a branch may target itself.
BranchToSelf(i, target, count) == i <= target /\ target < count

BranchForward(i, target, count) == i < target /\ target < count

\* The switch of cbpf_validate: may instruction x stand at index i of a
\* program of count instructions?
OperandsOk(x, i, count) ==
    \/ x.op = "ACQUIRE" /\ x.dst \in Reg /\ x.imm \in {0, 1}
    \/ x.op = "COPY"    /\ x.dst \in Reg /\ x.src \in Reg
    \/ x.op = "SPILL"   /\ x.dst \in Slot /\ x.src \in Reg
    \/ x.op = "RELOAD"  /\ x.dst \in Reg /\ x.src \in Slot
    \/ x.op \in {"READ", "RELEASE"} /\ x.dst \in Reg
    \/ x.op = "BR_NULL" /\ x.dst \in Reg /\ BranchForward(i, x.imm, count)
    \/ x.op = "RETURN"

\* What validation guarantees of instruction x at index i: its operands, and
\* that the last instruction is a RETURN.
ValidAt(x, i, count) ==
    /\ OperandsOk(x, i, count)
    /\ i = count - 1 => x.op = "RETURN"

-----------------------------------------------------------------------------
(* struct cbpf_result, which both interpreters fill in the same way.          *)
Status == {"RETURNED", "TRAPPED", "INVALID"}
TrapReason == {"NO_TRAP", "NULL", "STALE", "EXHAUSTED"}

\* Only the last event is kept; event_count says how many were recorded.
NoEvent == [kind |-> "none", op |-> "none", pc |-> 0, token |-> 0,
            object_refs |-> 0]

\* memset to zero, so status and trap start as RETURNED and NO_TRAP; then one
\* baseline reference.
FreshResult ==
    [status |-> "RETURNED", trap |-> "NO_TRAP", pc |-> 0, returned |-> 0,
     acquired |-> 0, reads |-> 0, last_read |-> 0,
     explicit_releases |-> 0, cleanup_releases |-> 0, object_refs |-> 1,
     explicit_by_cell |-> [t \in Token |-> 0],
     cleanup_by_cell |-> [t \in Token |-> 0],
     event_count |-> 0, event |-> NoEvent]

\* record(): res with one more event.
Record(res, kind, op, at, token) ==
    [res EXCEPT !.event_count = @ + 1,
                !.event = [kind |-> kind, op |-> op, pc |-> at,
                           token |-> token, object_refs |-> res.object_refs]]

\* The value of the modeled object.
FieldValue == 42

ByCell == [Token -> Nat]

EventKind == {"none", "STEP", "TRAP_EVENT", "CLEANUP"}

EventType == [kind : EventKind, op : Opcode \cup {"none"}, pc : Nat,
              token : Alias, object_refs : Int]

ResultType ==
    [status : Status, trap : TrapReason, pc : Nat,
     returned : Immediate \cup {0},
     acquired : 0 .. CBPF_CELLS, reads : Nat, last_read : {0, FieldValue},
     explicit_releases : Nat, cleanup_releases : Nat, object_refs : Int,
     explicit_by_cell : ByCell, cleanup_by_cell : ByCell, event_count : Nat,
     event : EventType]
=============================================================================
