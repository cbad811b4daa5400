---------------------------- MODULE CbpfJitImage ----------------------------
(* The restricted compiler of linux/ownership/cbpf_jit.c from the moment      *)
(* bpf_int_jit_compile finds a gate call to the publication of native code:   *)
(* generate runs three times, to lay the image out, to write it and to check  *)
(* it, and the distances a pass uses are those an earlier pass recorded.      *)
(* Either allocation may fail.  What admit decides is CbpfJitAdmit's matter;  *)
(* here it refuses, or accepts what is Linkable.  A word is its name and its  *)
(* one argument.                                                              *)
EXTENDS Integers, Sequences

CONSTANTS
    Units,          \* programs: sequences of [op, off], a branch's offset
    Attributes,     \* what else a program brings: see Eligible
    Builds,         \* kernels to compile in: see below
    MAX_INSNS       \* CBPF_MAX_INSNS (64)

\* The opcodes of the restricted grammar; "OTHER" stands for the rest.
Grammar == {"MOV_X", "MOV_K", "STX", "LDX", "JEQ", "CALL", "EXIT"}

ASSUME UnitsAssumption ==
    /\ Units \subseteq Seq([op : Grammar \cup {"OTHER"}, off : Int])
    /\ Builds \subseteq [max_words : Nat, reach : Nat, bti : BOOLEAN, ptr_auth : BOOLEAN]
    /\ MAX_INSNS \in Nat

VARIABLES
    unit,       \* the program, its attributes and the kernel's build
    place,      \* place in bpf_int_jit_compile and cbpf_jit_compile
    pass,       \* "layout", "write" or "check": image = NULL, check = 0, 1
    section,    \* part of generate the pass is at
    insn,       \* pc of body
    index,      \* c->index
    words,      \* c->words
    layout,     \* c->offset, restricted_exit, executive_exit, executive_words
    image,      \* the words of the allocated image
    failed,     \* c->failed
    held,       \* what is allocated: "context", "image"
    cbpf_gate,  \* prog->aux->cbpf_gate
    published   \* bpf_func, jited_len and jited are set

imageVars == <<unit, place, pass, section, insn, index, words, layout, image,
               failed, held, cbpf_gate, published>>

GenerateVars == <<pass, section, insn, index, words, layout, image, failed>>

Insns == unit.insns
len == Len(Insns)

MAX_WORDS == unit.build.max_words   \* CBPF_MAX_WORDS (1024)
REACH == unit.build.reach           \* longest branch of the encoders, in words
BTI == unit.build.bti               \* CONFIG_ARM64_BTI_KERNEL
PTR_AUTH == unit.build.ptr_auth     \* CONFIG_ARM64_PTR_AUTH_KERNEL

A64(name, arg) == [name |-> name, arg |-> arg]
Hole == A64("break_fault", 0)       \* fill_hole
Fixed(size) == [n \in 1 .. size |-> A64("fixed", n)]
Count(config) == IF config THEN 1 ELSE 0

NoLayout == [offset |-> [q \in 0 .. MAX_INSNS |-> 0],
             restricted_exit |-> 0, executive_exit |-> 0, executive_words |-> 0]

-----------------------------------------------------------------------------
(* The templates, at place x.                                                 *)

\* Before the executive return address in x2.
FRAME == Count(BTI) + 2 + Count(PTR_AUTH) + 11

\* Call of cbpf_enter, then either the cleared registers of a restricted entry
\* or a branch to the executive exit.
Prologue(x, l) ==
    [Fixed(FRAME + 43) EXCEPT
        ![FRAME + 1] = A64("adr", l.executive_exit - (x + FRAME)),
        ![FRAME + 2] = A64("movz", l.executive_words * 4),
        ![FRAME + 13] = A64("cbz", 3),
        ![FRAME + 15] = A64("b", l.executive_exit - (x + FRAME + 14))]

TargetOf(at) == at + 1 + Insns[at + 1].off

\* The words of the instruction at index at.
Body(at, x, l) ==
    LET op == Insns[at + 1].op
    IN  CASE op \in {"MOV_X", "STX", "LDX"} -> Fixed(1)
          [] op = "MOV_K" -> Fixed(4)
          [] op = "JEQ" -> <<A64("cbz", l.offset[TargetOf(at)] - x)>>
          [] op = "CALL" -> [Fixed(5) EXCEPT ![2] = A64("movz", at)]
          [] op = "EXIT" -> <<A64("b", l.restricted_exit - x)>>

\* From the executive exit to the end.
SCRUB == 42 + Count(PTR_AUTH) + 4

Epilogue == [Fixed(1 + SCRUB) EXCEPT ![1] = A64("ret_clr", 0)]

-----------------------------------------------------------------------------
(* word, over a section's words.                                              *)
Smaller(a, b) == IF a < b THEN a ELSE b

Encodable(w) == w.name \in {"adr", "b", "cbz"} =>
                    -REACH <= w.arg /\ w.arg < REACH

Limit == IF pass = "layout" THEN MAX_WORDS ELSE Smaller(words, MAX_WORDS)

\* No word of ws is refused.
Fits(ws) ==
    /\ index + Len(ws) <= Limit
    /\ \A k \in 1 .. Len(ws) : Encodable(ws[k])

\* Of the words ws those that get through, one at a time while there is room.
Through(ws) ==
    LET encodable == SelectSeq(ws, Encodable)
    IN  IF Fits(ws) THEN ws
        ELSE SubSeq(encodable, 1, Smaller(Len(encodable), Limit - index))

\* The pass emits ws, having found its place as recorded, or not.
Emit(ws, inPlace) ==
    LET out == Through(ws)
        within == index .. index + Len(out) - 1
    IN  /\ index' = index + Len(out)
        /\ failed' = \/ failed \/ ~inPlace \/ ~Fits(ws)
                     \/ /\ pass = "check"
                        /\ \E x \in within : image[x] # out[x - index + 1]
        /\ image' = IF pass = "write"
                    THEN [x \in DOMAIN image |->
                             IF x \in within THEN out[x - index + 1] ELSE image[x]]
                    ELSE image

\* The first pass records a place, the others compare it.
Recorded(at, before) ==
    IF pass = "layout" THEN [value |-> at, same |-> TRUE]
    ELSE [value |-> before, same |-> at = before]

InPass(s) == place = "generate" /\ section = s

EmitPrologue ==
    /\ InPass("prologue")
    /\ Emit(Prologue(index, layout), TRUE)
    /\ section' = "body"
    /\ insn' = 0
    /\ UNCHANGED <<unit, place, pass, words, layout, held, cbpf_gate, published>>

EmitInsn ==
    /\ InPass("body") /\ insn < len
    /\ LET r == Recorded(index, layout.offset[insn])
           l == [layout EXCEPT !.offset[insn] = r.value]
       IN  /\ layout' = l
           /\ Emit(Body(insn, index, l), r.same)
    /\ insn' = insn + 1
    /\ UNCHANGED <<unit, place, pass, section, words, held, cbpf_gate, published>>

EndBody ==
    /\ InPass("body") /\ insn = len
    /\ LET r == Recorded(index, layout.offset[insn])
       IN  /\ layout' = [layout EXCEPT !.offset[insn] = r.value]
           /\ failed' = (failed \/ ~r.same)
    /\ section' = "epilogue"
    /\ UNCHANGED <<unit, place, pass, insn, index, words, image, held, cbpf_gate,
                   published>>

\* BUG: the executive part is sized from the restricted exit.
ExecutiveWordsAll(end) == end - index

ExecutiveWords(end) == end - (index + 1)

EmitEpilogue ==
    /\ InPass("epilogue")
    /\ LET ws == Epilogue
           restricted == Recorded(index, layout.restricted_exit)
           executive == Recorded(index + 1, layout.executive_exit)
           size == Recorded(ExecutiveWords(index + Len(Through(ws))), layout.executive_words)
       IN  /\ Emit(ws, restricted.same /\ executive.same /\ size.same)
           /\ layout' = [layout EXCEPT !.restricted_exit = restricted.value,
                                       !.executive_exit = executive.value,
                                       !.executive_words = size.value]
    /\ section' = "end"
    /\ UNCHANGED <<unit, place, pass, insn, words, held, cbpf_gate, published>>

-----------------------------------------------------------------------------
NextPass(p) ==
    /\ pass' = p
    /\ section' = "prologue"
    /\ index' = 0

\* The compiler is done; what it holds stays held.
Leave(keep) ==
    /\ place' = "done"
    /\ held' = keep

CompileInit ==
    /\ unit \in [insns : Units, attributes : Attributes, build : Builds]
    /\ place = "load"
    /\ pass = "layout" /\ section = "prologue"
    /\ insn = 0 /\ index = 0 /\ words = 0
    /\ layout = NoLayout
    /\ image = <<>>
    /\ failed = FALSE
    /\ held = {}
    /\ cbpf_gate = FALSE
    /\ published = FALSE

\* bpf_int_jit_compile returns at once without jit_requested; cbpf_jit_match
\* leaves a program without gate calls to the ordinary compiler.
NotOurs ==
    /\ place = "load"
    /\ \/ ~unit.attributes.jit_requested
       \/ \A n \in 1 .. len : Insns[n].op # "CALL"
    /\ Leave({})
    /\ UNCHANGED <<unit, GenerateVars, cbpf_gate, published>>

Match ==
    /\ place = "load" /\ unit.attributes.jit_requested
    /\ \E n \in 1 .. len : Insns[n].op = "CALL"
    /\ cbpf_gate' = TRUE
    /\ place' = "check_program"
    /\ UNCHANGED <<unit, GenerateVars, held, published>>

\* No blinding, BPF_PROG_TYPE_SCHED_CLS, no subprograms or maps, 1 .. 64 insns.
Eligible ==
    /\ ~unit.attributes.blinding /\ unit.attributes.sched_cls
    /\ ~unit.attributes.functions_or_maps
    /\ len \in 1 .. MAX_INSNS

Ineligible ==
    /\ place = "check_program" /\ ~Eligible
    /\ Leave({})
    /\ UNCHANGED <<unit, GenerateVars, cbpf_gate, published>>

NoMemoryForContext ==
    /\ place = "check_program" /\ Eligible
    /\ Leave({})
    /\ UNCHANGED <<unit, GenerateVars, cbpf_gate, published>>

AllocContext ==
    /\ place = "check_program" /\ Eligible
    /\ held' = {"context"}
    /\ place' = "admit"
    /\ UNCHANGED <<unit, GenerateVars, cbpf_gate, published>>

\* What admit makes sure of in a program it accepts: the grammar, branches
\* forward to an instruction, no way past the last one.
Linkable ==
    /\ \A q \in 0 .. len - 1 :
          /\ Insns[q + 1].op \in Grammar
          /\ Insns[q + 1].op = "JEQ" => q < TargetOf(q) /\ TargetOf(q) < len
    /\ Insns[len].op = "EXIT"

Admit ==
    /\ place = "admit" /\ Linkable
    /\ place' = "generate"
    /\ NextPass("layout")
    /\ UNCHANGED <<unit, insn, words, layout, image, failed, held, cbpf_gate, published>>

\* BUG: a failure leaves the context allocated.
HeldAfterFailureContext == {"context"}

\* free_context.
HeldAfterFailure == {}

NotAdmitted ==
    /\ place = "admit"
    /\ Leave(HeldAfterFailure)
    /\ UNCHANGED <<unit, GenerateVars, cbpf_gate, published>>

LayoutBad == failed \/ index = 0

LayoutFails ==
    /\ InPass("end") /\ pass = "layout" /\ LayoutBad
    /\ words' = index
    /\ Leave(HeldAfterFailure)
    /\ UNCHANGED <<unit, pass, section, insn, index, layout, image, failed,
                   cbpf_gate, published>>

NoMemoryForImage ==
    /\ InPass("end") /\ pass = "layout" /\ ~LayoutBad
    /\ words' = index
    /\ Leave(HeldAfterFailure)
    /\ UNCHANGED <<unit, pass, section, insn, index, layout, image, failed,
                   cbpf_gate, published>>

AllocImage ==
    /\ InPass("end") /\ pass = "layout" /\ ~LayoutBad
    /\ words' = index
    /\ image' = [x \in 0 .. index - 1 |-> Hole]
    /\ held' = {"context", "image"}
    /\ NextPass("write")
    /\ UNCHANGED <<unit, place, insn, layout, failed, cbpf_gate, published>>

AfterWrite == "check"

WriteDone ==
    /\ InPass("end") /\ pass = "write"
    /\ NextPass(AfterWrite)
    /\ UNCHANGED <<unit, place, insn, words, layout, image, failed, held,
                   cbpf_gate, published>>

CheckFailed == failed \/ index # words

\* The image is freed on failure; otherwise it is what the program now runs.
Check ==
    /\ InPass("end") /\ pass = "check"
    /\ published' = ~CheckFailed
    /\ Leave(IF CheckFailed THEN HeldAfterFailure ELSE {"image"})
    /\ UNCHANGED <<unit, GenerateVars, cbpf_gate>>

Generate ==
    \/ EmitPrologue \/ EmitInsn \/ EndBody \/ EmitEpilogue

CompileNext ==
    \/ NotOurs \/ Match \/ Ineligible \/ NoMemoryForContext \/ AllocContext
    \/ Admit \/ NotAdmitted \/ Generate
    \/ LayoutFails \/ NoMemoryForImage \/ AllocImage \/ WriteDone \/ Check

CompileSpec == CompileInit /\ [][CompileNext]_imageVars

-----------------------------------------------------------------------------
\* Where the native code of each instruction begins, summed from the sizes of
\* the templates, and the restricted exit after the last.
Begins(b) ==
    /\ b[0] = Len(Prologue(0, NoLayout))
    /\ \A q \in 0 .. len - 1 : b[q + 1] = b[q] + Len(Body(q, 0, NoLayout))

\* Branch word w at place x of the image goes to place y.
Reaches(x, name, y) == image[x].name = name /\ x + image[x].arg = y

\* The image is all written and every branch of it lands where the bytecode
\* says: a conditional branch on the first word of its target, an exit on the
\* restricted exit, a refused entry on the executive exit; the executive
\* capability runs from there to the last word, and each call of the gateway
\* says which instruction it is.
Linked ==
    LET b == layout.offset
        executive == b[len] + 1
    IN  /\ Begins(b)
        /\ DOMAIN image = 0 .. executive + SCRUB - 1
        /\ \A x \in DOMAIN image : image[x] # Hole
        /\ \A q \in 0 .. len - 1 :
              /\ Insns[q + 1].op = "JEQ" => Reaches(b[q], "cbz", b[TargetOf(q)])
              /\ Insns[q + 1].op = "EXIT" => Reaches(b[q], "b", b[len])
              /\ Insns[q + 1].op = "CALL" => image[b[q] + 1] = A64("movz", q)
        /\ image[b[len]].name = "ret_clr"
        /\ \E x \in 0 .. b[0] - 1 :
              /\ Reaches(x, "adr", executive)
              /\ image[x + 1].arg = 4 * SCRUB
        /\ \E x \in 0 .. b[0] - 1 : Reaches(x, "b", executive)

\* Layout, writing and checking see the same places and the same words, and
\* what could be encoded with the distances of the layout pass can be with the
\* true ones: the check at the end never has anything to refuse.
PassesAgree ==
    place = "generate" /\ pass # "layout" => ~failed /\ index <= words

\* The passes agree and a published image is linked, whatever the layout pass
\* used for distances it did not know yet (cbpf_jit.c:392, 402-415).
ImageLinked == PassesAgree /\ (published => Linked)

\* However the compiler ends, the context is freed, and the image unless it is
\* published; and a program with a gate call is flagged even when it was
\* refused, which is what forbids its fallback (cbpf_jit.c:73, 440-444).
NothingLeftBehind ==
    place = "done" =>
        /\ held = IF published THEN {"image"} ELSE {}
        /\ cbpf_gate <=> /\ unit.attributes.jit_requested
                         /\ \E n \in 1 .. len : Insns[n].op = "CALL"
        /\ published => cbpf_gate /\ Eligible /\ ~failed
=============================================================================
