---------------------------- MODULE CbpfJitAdmit ----------------------------
(* Admission in the restricted compiler (linux/ownership/cbpf_jit.c) against  *)
(* the native program it admits.                                              *)
(*                                                                            *)
(* admit makes one pass over the bytecode, in order, and keeps per            *)
(* instruction a set of kinds for each register and for the one spill slot.   *)
(* The admitted program then runs: each instruction by the words body emits   *)
(* for it, each call through cbpf_gateway to the gates.  What the pass        *)
(* believes is thus set against what a run does.                              *)
EXTENDS Integers, FiniteSets

CONSTANTS
    Programs,       \* the programs a load may bring: functions of 0 .. len - 1
    Immediate       \* values of the 32-bit immediate of an instruction

Reg == 0 .. 9                       \* BPF r0 .. r9; flow.reg[10]
FramePointer == 10                  \* BPF r10; also names the spill slot
Location == Reg \cup {FramePointer}
PseudoKfuncCall == 2                \* BPF_PSEUDO_KFUNC_CALL

AcquireOp == 1
ReadOp == 2
ReleaseOp == 3

Opcode == {"MOV_X", "MOV_K", "STX", "LDX", "JEQ", "CALL", "EXIT", "OTHER"}

\* The immediate of a CALL names the function: 1, 2, 3 are the three kfuncs.
Insn == [op : Opcode, dst : 0 .. 15, src : 0 .. 15, off : Int, imm : Immediate]

ASSUME ProgramsAssumption ==
    \A p \in Programs :
        \E len \in 1 .. 64 : p \in [0 .. len - 1 -> Insn]

Kind == {"UNINIT", "ZERO", "SCALAR", "HANDLE"}

VARIABLES
    prog,           \* the loaded program
    phase,          \* "admit", then "rejected", or "admitted" and run
    pc,             \* instruction the pass, or the run, is at
    flow,           \* c->flow: the pass's facts on entry to each instruction
    acquisitions,   \* acquiring calls the pass has met
    has_exit,
    regs,           \* the run: value of each register and of the spill slot
    known,          \* locations the program has written and may read
    cells,          \* the invocation's two cells
    result          \* the value the run came back with

vars == <<prog, phase, pc, flow, acquisitions, has_exit, regs, known, cells,
          result>>

passVars == <<flow, acquisitions, has_exit>>
runVars == <<regs, known, cells, result>>

Length(p) == Cardinality(DOMAIN p)

-----------------------------------------------------------------------------
(* The analysis.                                                              *)
call_operation(i) ==
    IF i.op = "CALL" /\ i.src = PseudoKfuncCall /\ i.dst = 0
          /\ i.imm \in {AcquireOp, ReadOp, ReleaseOp}
    THEN i.imm ELSE 0

scalar(kind) == kind # {} /\ kind \subseteq {"ZERO", "SCALAR"}
defined(kind) == kind # {} /\ "UNINIT" \notin kind

Facts == [reg : [Reg -> SUBSET Kind], spill : SUBSET Kind, reached : BOOLEAN]

Nothing == [reg |-> [r \in Reg |-> {}], spill |-> {}, reached |-> FALSE]

AtEntry == [reg |-> [r \in Reg |-> {"UNINIT"}], spill |-> {"UNINIT"},
            reached |-> TRUE]

\* BUG: the last edge into an instruction decides its facts.
JoinOverwrites(destination, source) == source

join(destination, source) ==
    IF ~destination.reached THEN source
    ELSE [destination EXCEPT
             !.reg = [r \in Reg |-> @[r] \cup source.reg[r]],
             !.spill = @ \cup source.spill]

Target(i, at) == at + 1 + i.off

\* BUG: a branch need not go forward.
ForwardBranchAny(i, at, len) ==
    0 <= Target(i, at) /\ Target(i, at) < len

ForwardBranch(i, at, len) ==
    0 < i.off /\ Target(i, at) < len

AcquisitionFits(count) == count + 1 <= 2

\* BUG: a handle that may be NULL is taken for one that is not.
HandleArgumentMaybeNull(kind) == "HANDLE" \in kind /\ "UNINIT" \notin kind

HandleArgument(kind) == kind = {"HANDLE"}

\* The conditions of the switch: may instruction i stand at index at of a
\* program of len instructions, after count acquiring calls, given facts s?
Admissible(i, s, at, len, count) ==
    \/ /\ i.op = "MOV_X" /\ i.dst \in Reg /\ i.src \in Reg
       /\ i.off = 0 /\ i.imm = 0 /\ defined(s.reg[i.src])
    \/ i.op = "MOV_K" /\ i.dst \in Reg /\ i.src = 0 /\ i.off = 0
    \/ /\ i.op = "STX" /\ i.dst = FramePointer /\ i.src \in Reg
       /\ i.off = -8 /\ i.imm = 0 /\ defined(s.reg[i.src])
    \/ /\ i.op = "LDX" /\ i.dst \in Reg /\ i.src = FramePointer
       /\ i.off = -8 /\ i.imm = 0 /\ defined(s.spill)
    \/ /\ i.op = "JEQ" /\ i.dst \in Reg /\ i.src = 0 /\ i.imm = 0
       /\ ForwardBranch(i, at, len)
       /\ defined(s.reg[i.dst]) /\ s.reg[i.dst] \subseteq {"ZERO", "HANDLE"}
    \/ /\ call_operation(i) = AcquireOp
       /\ scalar(s.reg[1]) /\ AcquisitionFits(count)
    \/ call_operation(i) \in {ReadOp, ReleaseOp} /\ HandleArgument(s.reg[1])
    \/ /\ i.op = "EXIT" /\ i.dst = 0 /\ i.src = 0 /\ i.off = 0 /\ i.imm = 0
       /\ scalar(s.reg[0])

\* BUG: the argument registers survive a call.
ClobberedNone == {}

Clobbered == 1 .. 5

CallResult(operation) ==
    IF operation = AcquireOp THEN {"HANDLE", "ZERO"}
    ELSE IF operation = ReadOp THEN {"SCALAR"} ELSE {"ZERO"}

AfterCall(i, s) ==
    [s EXCEPT !.reg = [r \in Reg |->
        IF r = 0 THEN CallResult(call_operation(i))
        ELSE IF r \in Clobbered THEN {"UNINIT"} ELSE @[r]]]

\* The facts on the fall-through edge.
After(i, s) ==
    CASE i.op = "MOV_X" -> [s EXCEPT !.reg[i.dst] = s.reg[i.src]]
      [] i.op = "MOV_K" -> [s EXCEPT !.reg[i.dst] =
                               IF i.imm = 0 THEN {"ZERO"} ELSE {"SCALAR"}]
      [] i.op = "STX"   -> [s EXCEPT !.spill = s.reg[i.src]]
      [] i.op = "LDX"   -> [s EXCEPT !.reg[i.dst] = s.spill]
      [] i.op = "JEQ"   -> [s EXCEPT !.reg[i.dst] = @ \ {"ZERO"}]
      [] i.op = "CALL"  -> AfterCall(i, s)
      [] i.op \in {"EXIT", "OTHER"} -> s

FallsThrough(i, s) ==
    /\ i.op # "EXIT"
    /\ i.op = "JEQ" => After(i, s).reg[i.dst] # {}

Branches(i, s) == i.op = "JEQ" /\ "ZERO" \in s.reg[i.dst]

Taken(i, s) == [s EXCEPT !.reg[i.dst] = {"ZERO"}]

Init ==
    /\ prog \in Programs
    /\ phase = "admit"
    /\ pc = 0
    /\ flow = [q \in 0 .. Length(prog) |-> IF q = 0 THEN AtEntry ELSE Nothing]
    /\ acquisitions = 0
    /\ has_exit = FALSE
    /\ regs = [l \in Location |-> [kind |-> "word", n |-> 0]]
    /\ known = {}
    /\ cells = [i \in 0 .. 1 |-> "null"]
    /\ result = [kind |-> "word", n |-> 0]

\* One turn of the loop.
AdmitInsn ==
    /\ phase = "admit" /\ pc < Length(prog)
    /\ LET i == prog[pc]
           s == flow[pc]
       IN  /\ s.reached
           /\ Admissible(i, s, pc, Length(prog), acquisitions)
           /\ flow' = [q \in 0 .. Length(prog) |->
                 IF Branches(i, s) /\ q = Target(i, pc)
                 THEN join(flow[q], Taken(i, s))
                 ELSE IF FallsThrough(i, s) /\ q = pc + 1
                 THEN join(flow[q], After(i, s))
                 ELSE flow[q]]
           /\ acquisitions' = IF call_operation(i) = AcquireOp
                              THEN acquisitions + 1 ELSE acquisitions
           /\ has_exit' = (has_exit \/ i.op = "EXIT")
    /\ pc' = pc + 1
    /\ UNCHANGED <<prog, phase, runVars>>

RejectInsn ==
    /\ phase = "admit" /\ pc < Length(prog)
    /\ ~( /\ flow[pc].reached
          /\ Admissible(prog[pc], flow[pc], pc, Length(prog), acquisitions) )
    /\ phase' = "rejected"
    /\ UNCHANGED <<prog, pc, passVars, runVars>>

Accepted == has_exit /\ acquisitions > 0 /\ ~flow[Length(prog)].reached

Decide ==
    /\ phase = "admit" /\ pc = Length(prog)
    /\ phase' = IF Accepted THEN "admitted" ELSE "rejected"
    /\ UNCHANGED <<prog, pc, passVars, runVars>>

-----------------------------------------------------------------------------
(* A run of the admitted program.                                             *)
Word(n) == [kind |-> "word", n |-> n]
Handle(i) == [kind |-> "handle", n |-> i]     \* the view of cell i, tagged
Leftover == [kind |-> "leftover", n |-> 0]    \* what the stack held before

FieldValue == 42

\* cbpf_enter succeeded: clear_registers has run, the sidecar below the sealed
\* caller slot has not been written.
Start ==
    /\ phase = "admitted"
    /\ phase' = "run"
    /\ pc' = 0
    /\ regs' = [regs EXCEPT ![FramePointer] = Leftover]
    /\ UNCHANGED <<prog, passVars, known, cells, result>>

\* cbpf_enter refused, or cbpf_test_invoke did not call the program: nothing of it
\* was executed, and the value that comes back is 0.
EntryRefused ==
    /\ phase = "admitted"
    /\ phase' = "aborted"
    /\ result' = Word(0)
    /\ UNCHANGED <<prog, pc, passVars, regs, known, cells>>

At(op) == phase = "run" /\ pc \in DOMAIN prog /\ prog[pc].op = op

\* The instruction copies v to location l and goes on.
Put(l, v) ==
    /\ regs' = [regs EXCEPT ![l] = v]
    /\ known' = known \cup {l}
    /\ pc' = pc + 1
    /\ UNCHANGED <<prog, phase, passVars, cells, result>>

MovX == At("MOV_X") /\ Put(prog[pc].dst, regs[prog[pc].src])
MovK == At("MOV_K") /\ Put(prog[pc].dst, Word(prog[pc].imm))
Stx == At("STX") /\ Put(FramePointer, regs[prog[pc].src])
Ldx == At("LDX") /\ Put(prog[pc].dst, regs[FramePointer])

\* CBZ on the low 64 bits, which of a handle are the address of its cell.
Jeq ==
    /\ At("JEQ")
    /\ pc' = IF regs[prog[pc].dst] = Word(0) THEN Target(prog[pc], pc) ELSE pc + 1
    /\ UNCHANGED <<prog, phase, passVars, runVars>>

\* The gateway keeps c19 .. c22 (r6 .. r9) and the sidecar and clears the other
\* registers but x0, the result, which the program's next word copies to c7.
Return(v) ==
    /\ regs' = [l \in Location |->
          IF l \in {0, 1} THEN v ELSE IF l \in 2 .. 5 THEN Word(0) ELSE regs[l]]
    /\ known' = (known \ (1 .. 5)) \cup {0}
    /\ pc' = pc + 1
    /\ UNCHANGED <<prog, phase, passVars, result>>

Acquired == Cardinality({ i \in 0 .. 1 : cells[i] # "null" })

Operation == call_operation(prog[pc])

AcquireNull ==
    /\ At("CALL") /\ Operation = AcquireOp /\ regs[1] = Word(1)
    /\ Return(Word(0))
    /\ UNCHANGED cells

Acquire ==
    /\ At("CALL") /\ Operation = AcquireOp /\ regs[1] = Word(0)
    /\ Acquired < 2
    /\ cells' = [cells EXCEPT ![Acquired] = "live"]
    /\ Return(Handle(Acquired))

Usable(i) == regs[1] = Handle(i) /\ cells[i] = "live"

Read ==
    /\ At("CALL") /\ Operation = ReadOp
    /\ \E i \in 0 .. 1 : Usable(i)
    /\ Return(Word(FieldValue))
    /\ UNCHANGED cells

Release ==
    /\ At("CALL") /\ Operation = ReleaseOp
    /\ \E i \in 0 .. 1 : Usable(i) /\ cells' = [cells EXCEPT ![i] = "ended"]
    /\ Return(Word(0))

Refused ==
    \/ Operation = 0
    \/ Operation = AcquireOp /\ regs[1] \notin {Word(0), Word(1)}
    \/ Operation = AcquireOp /\ regs[1] = Word(0) /\ Acquired = 2
    \/ Operation \in {ReadOp, ReleaseOp} /\ ~\E i \in 0 .. 1 : Usable(i)

\* Bounds that cannot be made exact refuse an acquisition too.
Inexact == Operation = AcquireOp /\ regs[1] = Word(0)

\* A gate failed: the gateway goes to the executive exit with x7 cleared.
GateFails ==
    /\ At("CALL") /\ (Refused \/ Inexact)
    /\ phase' = "aborted"
    /\ result' = Word(0)
    /\ UNCHANGED <<prog, pc, passVars, regs, known, cells>>

Exit ==
    /\ At("EXIT")
    /\ phase' = "returned"
    /\ result' = regs[0]
    /\ UNCHANGED <<prog, pc, passVars, regs, known, cells>>

Pass == AdmitInsn \/ RejectInsn \/ Decide

Run ==
    \/ Start \/ EntryRefused \/ MovX \/ MovK \/ Stx \/ Ldx \/ Jeq
    \/ AcquireNull \/ Acquire \/ Read \/ Release \/ GateFails \/ Exit

Next == Pass \/ Run

Spec == Init /\ [][Next]_vars

-----------------------------------------------------------------------------
\* The pass may find value v where it believes kind.
Covers(kind, v) ==
    \/ "UNINIT" \in kind
    \/ "ZERO" \in kind /\ v = Word(0)
    \/ "SCALAR" \in kind /\ v.kind = "word"
    \/ "HANDLE" \in kind /\ v.kind = "handle"

\* Whatever path a run takes to an instruction, the facts the pass kept there
\* cover every register and the spill slot, and a location they call defined
\* has been written on that path: one forward pass is a fixed point, although
\* edges are joined in as they are met (cbpf_jit.c:103).
FactsCoverRun ==
    phase = "run" =>
        /\ pc \in DOMAIN prog
        /\ flow[pc].reached
        /\ \A r \in Reg : /\ Covers(flow[pc].reg[r], regs[r])
                          /\ defined(flow[pc].reg[r]) => r \in known
        /\ Covers(flow[pc].spill, regs[FramePointer])
        /\ defined(flow[pc].spill) => FramePointer \in known

Uses(i) ==
    CASE i.op \in {"MOV_X", "STX"} -> {i.src}
      [] i.op = "LDX" -> {FramePointer}
      [] i.op = "JEQ" -> {i.dst}
      [] i.op = "CALL" -> {1}
      [] i.op = "EXIT" -> {0}
      [] i.op \in {"MOV_K", "OTHER"} -> {}

\* No admitted program reads a register or the spill slot before writing it,
\* or an argument register a call has clobbered; so what the stack held before
\* never gets into a register (cbpf_jit.c:123, 135, 141, 176).
NoUndefinedUse ==
    /\ phase = "run" => Uses(prog[pc]) \subseteq known
    /\ \A r \in Reg : regs[r] # Leftover

\* A gate is always called with the kind of argument it wants: acquire gets a
\* word, read and release the canonical view of an acquisition made in this
\* run; the third acquisition, which the pass counts over call sites and the
\* gate over a run, never happens; and no address comes back to the caller of
\* the program (cbpf_jit.c:163, 168, 180).
GateArguments ==
    /\ At("CALL") =>
          /\ Operation = AcquireOp => regs[1].kind = "word" /\ Acquired < 2
          /\ Operation \in {ReadOp, ReleaseOp} =>
                \E i \in 0 .. 1 : regs[1] = Handle(i) /\ cells[i] # "null"
          /\ Operation # 0
    /\ result.kind = "word"

\* Facts on an instruction the pass has gone by are final; with that, what it
\* was admitted on still stands when the pass ends (cbpf_jit.c:103).
Settled ==
    [][phase = "admit" => \A q \in 0 .. pc : flow'[q] = flow[q]]_vars
=============================================================================
