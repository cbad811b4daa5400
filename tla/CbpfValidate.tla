---------------------------- MODULE CbpfValidate ----------------------------
(* cbpf_validate (src/cbpf.c): the loop that accepts or rejects a program     *)
(* before anything runs.  One step per iteration, so that its verdict and     *)
(* *bad_pc can be compared with what a valid program is.                      *)
EXTENDS CbpfIR, Sequences

CONSTANTS
    Programs,       \* the programs presented, sequences of instructions
    NoPc            \* *bad_pc as the caller left it

ASSUME ProgramsAssumption ==
    /\ Programs \subseteq Seq(Insn)
    /\ NoPc \notin Nat

VARIABLES
    program,        \* p; <<>> also stands for a null pointer
    index,          \* i of the loop
    bad_pc,
    verdict         \* "scanning", then "valid" (1) or "invalid" (0)

scanVars == <<program, index, bad_pc, verdict>>

length == Len(program)
At(k) == program[k + 1]         \* p[k]: the C array counts from 0

ScanInit ==
    /\ program \in Programs
    /\ index = 0
    /\ bad_pc = NoPc
    /\ verdict = "scanning"

Scanning == verdict = "scanning"
InBounds == 1 <= length /\ length <= CBPF_MAX_INSNS

\* goto invalid, with pc the value of i at that point.
RejectAt(pc) ==
    /\ verdict' = "invalid"
    /\ bad_pc' = pc
    /\ index' = pc
    /\ UNCHANGED program

RejectSize == Scanning /\ ~InBounds /\ RejectAt(0)

\* BUG: the index is left at the next instruction.
RejectNextInsn ==
    /\ Scanning /\ InBounds /\ index < length
    /\ ~OperandsOk(At(index), index, length)
    /\ RejectAt(index + 1)

AdmitInsn ==
    /\ Scanning /\ InBounds /\ index < length
    /\ OperandsOk(At(index), index, length)
    /\ index' = index + 1
    /\ UNCHANGED <<program, bad_pc, verdict>>

RejectInsn ==
    /\ Scanning /\ InBounds /\ index < length
    /\ ~OperandsOk(At(index), index, length)
    /\ RejectAt(index)

RejectNoReturn ==
    /\ Scanning /\ InBounds /\ index = length
    /\ At(length - 1).op # "RETURN"
    /\ RejectAt(length - 1)

AcceptProgram ==
    /\ Scanning /\ InBounds /\ index = length
    /\ At(length - 1).op = "RETURN"
    /\ verdict' = "valid"
    /\ UNCHANGED <<program, index, bad_pc>>

ScanNext == RejectSize \/ AdmitInsn \/ RejectInsn \/ RejectNoReturn \/ AcceptProgram

ScanSpec == ScanInit /\ [][ScanNext]_scanVars

-----------------------------------------------------------------------------
\* The reference definition, independent of the loop: where control can go
\* from instruction k, and what each access touches.
Successors(k) ==
    CASE At(k).op = "RETURN"  -> {}
      [] At(k).op = "BR_NULL" -> {k + 1, At(k).imm}
      [] OTHER                -> {k + 1}

RegsUsed(x) ==
    CASE x.op \in {"ACQUIRE", "READ", "RELEASE", "BR_NULL"} -> {x.dst}
      [] x.op = "COPY"   -> {x.dst, x.src}
      [] x.op = "SPILL"  -> {x.src}
      [] x.op = "RELOAD" -> {x.dst}
      [] OTHER           -> {}

SlotsUsed(x) ==
    CASE x.op = "SPILL" -> {x.dst} [] x.op = "RELOAD" -> {x.src} [] OTHER -> {}

\* What the interpreters need of an instruction: it stays inside the register
\* and spill arrays, and control moves forward and never past the end.
SafeToRun(k) ==
    /\ At(k).op \in Opcode
    /\ RegsUsed(At(k)) \subseteq Reg
    /\ SlotsUsed(At(k)) \subseteq Slot
    /\ At(k).op = "ACQUIRE" => At(k).imm \in {0, 1}
    /\ \A t \in Successors(k) : k < t /\ t < length

ScanTypeOK ==
    /\ program \in Programs
    /\ index \in Nat
    /\ bad_pc \in Nat \cup {NoPc}
    /\ verdict \in {"scanning", "valid", "invalid"}

\* An accepted program is safe at every one of its instructions, the
\* unreachable ones included: no array is left, no jump is backward, and no
\* path runs off the end (cbpf.h:41-42).
AcceptedIsSafe ==
    verdict = "valid" => InBounds /\ \A k \in 0 .. length - 1 : SafeToRun(k)

\* A rejected program is really unsafe, so validation never refuses a program
\* the interpreters could run; and *bad_pc is the first instruction that makes
\* it unsafe, every earlier one having acceptable operands (cbpf.c:36-38).
RejectedHasCause ==
    verdict = "invalid" =>
        IF InBounds
        THEN /\ bad_pc \in 0 .. length - 1
             /\ ~SafeToRun(bad_pc)
             /\ \A k \in 0 .. bad_pc - 1 : SafeToRun(k)
        ELSE bad_pc = 0
=============================================================================
