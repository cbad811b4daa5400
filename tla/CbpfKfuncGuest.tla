---------------------------- MODULE CbpfKfuncGuest ----------------------------
(* linux/kfunc/guest.c: PID 1 of an isolated guest loads the kfunc module,    *)
(* runs fourteen programs (one of them 32 times), and shows five that the     *)
(* verifier must reject.  The kernel's answers, the verifier's verdict and    *)
(* every system call that may fail are left open; the kfuncs are those of     *)
(* cbpf_kfunc.c, whole, since the guest runs one program at a time.           *)
EXTENDS Integers, Sequences

CONSTANTS
    Repeats,        \* 32
    Attempts        \* 128, identifiers module_btf_fd looks at

VARIABLES
    stage,          \* main's stage, and the place in run_valid or check_rejected
    case,           \* index of the case
    attempt,        \* identifiers looked at
    executed,       \* runs of this case
    open,           \* descriptors open: "module", "btf", "program"
    before,         \* counters of the last snapshot
    totals,         \* struct totals
    result,         \* "none", "PASS" or "FAIL"
    kernel,         \* the module's object and counters
    pc, regs, slots,\* the program that runs
    misuse,         \* a handle was used that is not live
    refused,        \* an acquisition that was to succeed found no memory
    accepted,       \* the rejected kinds the verifier let pass
    ran             \* the rejected kinds that ran

vars == <<stage, case, attempt, executed, open, before, totals, result, kernel,
          pc, regs, slots, misuse, refused, accepted, ran>>

machine == <<kernel, pc, regs, slots, misuse, refused>>

-----------------------------------------------------------------------------
(* The programs.                                                              *)
Ins(o, d, s, i) == <<[op |-> o, dst |-> d, src |-> s, imm |-> i]>>
mov(d, s) == Ins("MOV_X", d, s, 0)
imm(d, value) == Ins("MOV_K", d, 0, value)
call(id) == Ins(id, 0, 0, 0)
exit == Ins("EXIT", 0, 0, 0)

\* null_branch, and forward_to past the instructions p.
null_branch(p) == Ins("JEQ", 0, 0, Len(p))

finish(value) == imm(0, value) \o exit

save_alias(a, spill) == IF spill # 0 THEN Ins("STX", 10, a, spill) ELSE mov(8, a)

alias_arg(spill) ==
    (IF spill # 0 THEN Ins("LDX", 8, 10, spill) ELSE <<>>) \o mov(1, 8)

acquire(want_null) == imm(1, want_null) \o call("acquire")

OnlyA(spill) == alias_arg(spill) \o call("release") \o finish(7)

valid_ab(a, spill, null_b) ==
    LET b == IF a = 6 THEN 7 ELSE 6
        both == mov(b, 0) \o alias_arg(spill) \o call("release")
                \o mov(1, b) \o call("read") \o mov(9, 0)
                \o mov(1, b) \o call("release") \o mov(0, 9) \o exit
        second == mov(a, 0) \o save_alias(a, spill) \o acquire(null_b)
                  \o null_branch(both) \o both \o OnlyA(spill)
    IN  acquire(0) \o null_branch(second) \o second \o finish(0)

valid_null ==
    LET other == mov(1, 0) \o call("release") \o finish(13)
    IN  acquire(1) \o null_branch(other) \o other \o finish(0)

Rejection == {"stale_copy", "stale_spill", "double_release", "missing_null", "leaked_ref"}

\* BUG: the probe asks for NULL, so that it has no handle to misuse.
ProbeAcquireNull == acquire(1)

ProbeAcquire == acquire(0)

rejected_program(kind) ==
    LET spill == IF kind = "stale_spill" THEN -8 ELSE 0
        use == mov(6, 0) \o
               CASE kind \in {"stale_copy", "stale_spill", "double_release"} ->
                        save_alias(6, spill) \o mov(1, 6) \o call("release")
                        \o alias_arg(spill)
                        \o call(IF kind = "double_release" THEN "release" ELSE "read")
                 [] kind = "missing_null" ->
                        mov(1, 6) \o call("read") \o mov(1, 6) \o call("release")
                 [] kind = "leaked_ref" -> <<>>
    IN  ProbeAcquire \o (IF kind = "missing_null" THEN <<>> ELSE null_branch(use))
        \o use \o finish(0)

Valid(p, retval, acquisitions, reads, repeats) ==
    [reject |-> "none", program |-> p, expected |-> retval,
     acquisitions |-> acquisitions, reads |-> reads, repeats |-> repeats]

\* The loop of run_valid is not for these.
Rejected(kind) ==
    [reject |-> kind, program |-> rejected_program(kind), expected |-> 0,
     acquisitions |-> 0, reads |-> 0, repeats |-> 1]

spills == <<0, -8, -16>>

\* The loops of main, over a, alias and null_b.
Pair(n) ==
    LET a == 6 + (n \div 6)
        alias == (n % 6) \div 2
        null_b == n % 2
    IN  Valid(valid_ab(a, spills[alias + 1], null_b), IF null_b = 1 THEN 7 ELSE 42,
              2 - null_b, 1 - null_b, 1)

Cases ==
    [n \in 1 .. 12 |-> Pair(n - 1)] \o
    <<Valid(valid_null, 0, 0, 0, 1),
      Valid(valid_ab(7, -16, 0), 42, 2, 1, Repeats),
      Rejected("stale_copy"), Rejected("stale_spill"), Rejected("double_release"),
      Rejected("missing_null"), Rejected("leaked_ref")>>

This == Cases[case]

-----------------------------------------------------------------------------
(* A run.                                                                     *)
Unset == -1                         \* never written, or left by a call
Handle(id) == 1000 + id
FieldValue == 42

Fresh == [refs |-> 1, acquisitions |-> 0, releases |-> 0, reads |-> 0,
          handles |-> {}]

\* BPF_PROG_TEST_RUN reaches the program's first instruction.
StartProgram ==
    /\ pc' = 1
    /\ regs' = [r \in 0 .. 10 |-> Unset]
    /\ slots' = [slot \in {-8, -16} |-> Unset]

To(value, dst) ==
    /\ regs' = [regs EXCEPT ![dst] = value]
    /\ pc' = pc + 1
    /\ UNCHANGED <<kernel, slots, misuse, refused>>

\* A call leaves r1 to r5 undefined.
Called(x0) ==
    /\ regs' = [r \in 0 .. 10 |-> IF r = 0 THEN x0 ELSE IF r <= 5 THEN Unset ELSE regs[r]]
    /\ pc' = pc + 1
    /\ UNCHANGED slots

\* cbpf_ref_acquire.
Acquire ==
    \/ /\ regs[1] # 0
       /\ Called(0)
       /\ UNCHANGED <<kernel, misuse, refused>>
    \/ /\ regs[1] = 0
       /\ Called(0)
       /\ refused' = TRUE
       /\ UNCHANGED <<kernel, misuse>>
    \/ /\ regs[1] = 0
       /\ LET id == kernel.acquisitions + 1
          IN  /\ kernel' = [kernel EXCEPT !.refs = @ + 1, !.acquisitions = id,
                                         !.handles = @ \cup {id}]
              /\ Called(Handle(id))
       /\ UNCHANGED <<misuse, refused>>

Argument == { id \in kernel.handles : regs[1] = Handle(id) }

\* cbpf_ref_read and cbpf_ref_release; without a live handle in r1, whatever
\* they would do is a misuse.
ReadValue ==
    /\ kernel' = IF Argument = {} THEN kernel ELSE [kernel EXCEPT !.reads = @ + 1]
    /\ misuse' = (misuse \/ Argument = {})
    /\ Called(FieldValue)
    /\ UNCHANGED refused

Release ==
    /\ kernel' = IF Argument = {} THEN kernel
                 ELSE [kernel EXCEPT !.refs = @ - 1, !.releases = @ + 1,
                                     !.handles = @ \ Argument]
    /\ misuse' = (misuse \/ Argument = {})
    /\ Called(Unset)
    /\ UNCHANGED refused

Insn ==
    LET I == This.program[pc]
    IN  CASE I.op = "MOV_X" -> To(regs[I.src], I.dst)
          [] I.op = "MOV_K" -> To(I.imm, I.dst)
          [] I.op = "LDX" -> To(slots[I.imm], I.dst)
          [] I.op = "STX" ->
                 /\ slots' = [slots EXCEPT ![I.imm] = regs[I.src]]
                 /\ pc' = pc + 1
                 /\ UNCHANGED <<kernel, regs, misuse, refused>>
          [] I.op = "JEQ" ->
                 /\ pc' = IF regs[0] = 0 THEN pc + 1 + I.imm ELSE pc + 1
                 /\ UNCHANGED <<kernel, regs, slots, misuse, refused>>
          [] I.op = "acquire" -> Acquire
          [] I.op = "read" -> ReadValue
          [] I.op = "release" -> Release

AtExit == This.program[pc].op = "EXIT"

Step ==
    /\ stage = "running" /\ ~AtExit
    /\ Insn
    /\ UNCHANGED <<stage, case, attempt, executed, open, before, totals, result,
                   accepted, ran>>

Stop ==
    /\ stage = "running" /\ AtExit
    /\ stage' = "accounting"
    /\ pc' = 0
    /\ UNCHANGED <<case, attempt, executed, open, before, totals, result, kernel,
                   regs, slots, misuse, refused, accepted, ran>>

-----------------------------------------------------------------------------
(* The guest.                                                                 *)
GuestInit ==
    /\ stage = "identity"
    /\ case = 1 /\ attempt = 0 /\ executed = 0
    /\ open = {}
    /\ before = Fresh
    /\ totals = [positive_cases |-> 0, rejected_cases |-> 0, repeated_runs |-> 0,
                 executions |-> 0, acquisitions |-> 0, reads |-> 0]
    /\ result = "none"
    /\ kernel = Fresh
    /\ pc = 0
    /\ regs = [r \in 0 .. 10 |-> Unset]
    /\ slots = [slot \in {-8, -16} |-> Unset]
    /\ misuse = FALSE /\ refused = FALSE
    /\ accepted = {} /\ ran = {}

\* snapshot; counters are as they are, since no program runs.
Snapshot == kernel

balanced(s) == s.handles = {} /\ s.refs = 1 /\ s.acquisitions = s.releases

delta(from, to, acquisitions, reads) ==
    /\ balanced(from) /\ balanced(to)
    /\ to.acquisitions = from.acquisitions + acquisitions
    /\ to.releases = from.releases + acquisitions
    /\ to.reads = from.reads + reads

Goes(to) == stage' = to

\* The release does not match: main returns, and touches nothing.
Identity ==
    /\ stage = "identity"
    /\ \/ Goes("prepare") /\ UNCHANGED result
       \/ Goes("returned") /\ result' = "FAIL"
    /\ UNCHANGED <<case, attempt, executed, open, before, totals, accepted, ran, machine>>

Prepare ==
    /\ stage = "prepare"
    /\ Goes("module_btf") \/ Goes("out")
    /\ UNCHANGED <<case, attempt, executed, open, before, totals, result, accepted, ran, machine>>

NextAttempt == attempt + 1

\* Each identifier is looked at and closed until one is the module's.
ModuleBtf ==
    /\ stage = "module_btf"
    /\ \/ Goes("out") /\ UNCHANGED <<attempt, open>>
       \/ /\ attempt < Attempts
          /\ \/ /\ Goes("module_btf")
                /\ attempt' = NextAttempt
                /\ UNCHANGED open
             \/ /\ Goes("initial_accounting")
                /\ attempt' = 0
                /\ open' = {"module"}
    /\ UNCHANGED <<case, executed, before, totals, result, accepted, ran, machine>>

InitialAccounting ==
    /\ stage = "initial_accounting"
    /\ \/ Goes("out")
       \/ /\ balanced(Snapshot) /\ Snapshot.acquisitions = 0 /\ Snapshot.reads = 0
          /\ Goes("case")
    /\ UNCHANGED <<case, attempt, executed, open, before, totals, result, accepted, ran, machine>>

Closed(ok) == {"program"}

Leave(ok) ==
    /\ open' = open \ Closed(ok)
    /\ Goes(IF ok THEN "next" ELSE "out")

Before ==
    /\ stage = "case"
    /\ \/ Goes("out") /\ UNCHANGED before
       \/ balanced(Snapshot) /\ Goes("load") /\ before' = Snapshot
    /\ UNCHANGED <<case, attempt, executed, open, totals, result, accepted, ran, machine>>

AfterAccept(c) == IF c.reject = "none" THEN "jit" ELSE "unexpected"

LoadAccepted ==
    /\ stage = "load"
    /\ open' = open \cup {"program"}
    /\ accepted' = accepted \cup ({This.reject} \ {"none"})
    /\ Goes(AfterAccept(This))
    /\ UNCHANGED <<case, attempt, executed, before, totals, result, ran, machine>>

\* For a program that should load, the end; for the others the log must say
\* why (attributable_rejection), and nothing may have been counted.
LoadRefused ==
    /\ stage = "load"
    /\ \/ Leave(FALSE) /\ UNCHANGED totals
       \/ /\ This.reject # "none"
          /\ delta(before, Snapshot, 0, 0)
          /\ totals' = [totals EXCEPT !.rejected_cases = @ + 1]
          /\ Leave(TRUE)
    /\ UNCHANGED <<case, attempt, executed, before, result, accepted, ran, machine>>

UnexpectedOk == FALSE

\* Fail closed: even an unexpectedly accepted probe is never executed.
Unexpected ==
    /\ stage = "unexpected"
    /\ Leave(UnexpectedOk)
    /\ totals' = IF UnexpectedOk THEN [totals EXCEPT !.rejected_cases = @ + 1] ELSE totals
    /\ UNCHANGED <<case, attempt, executed, before, result, accepted, ran, machine>>

JitedLength ==
    /\ stage = "jit"
    /\ Leave(FALSE) \/ (Goes("run") /\ UNCHANGED open)
    /\ UNCHANGED <<case, attempt, executed, before, totals, result, accepted, ran, machine>>

RunLoaded ==
    /\ stage = "run"
    /\ executed' = executed + 1
    /\ \/ Leave(FALSE) /\ UNCHANGED <<machine, ran>>
       \/ /\ Goes("running")
          /\ ran' = ran \cup ({This.reject} \ {"none"})
          /\ StartProgram
          /\ UNCHANGED <<open, kernel, misuse, refused>>
    /\ UNCHANGED <<case, attempt, before, totals, result, accepted>>

Count(c) ==
    [totals EXCEPT !.executions = @ + c.repeats,
                   !.acquisitions = @ + c.acquisitions * c.repeats,
                   !.reads = @ + c.reads * c.repeats,
                   !.positive_cases = IF c.repeats = 1 THEN @ + 1 ELSE @,
                   !.repeated_runs = IF c.repeats = 1 THEN @ ELSE @ + c.repeats]

\* regs[0] is the value TEST_RUN returned.
Accounting ==
    /\ stage = "accounting"
    /\ \/ Leave(FALSE) /\ UNCHANGED <<before, totals>>
       \/ /\ regs[0] = This.expected
          /\ delta(before, Snapshot, This.acquisitions, This.reads)
          /\ before' = Snapshot
          /\ IF executed < This.repeats
             THEN Goes("run") /\ UNCHANGED <<open, totals>>
             ELSE Leave(TRUE) /\ totals' = Count(This)
    /\ UNCHANGED <<case, attempt, executed, result, accepted, ran, machine>>

Advance ==
    /\ stage = "next"
    /\ IF case = Len(Cases)
       THEN Goes("final_accounting") /\ UNCHANGED <<case, executed>>
       ELSE Goes("case") /\ case' = case + 1 /\ executed' = 0
    /\ UNCHANGED <<attempt, open, before, totals, result, accepted, ran, machine>>

FinalAccounting ==
    /\ stage = "final_accounting"
    /\ \/ UNCHANGED result
       \/ /\ balanced(Snapshot)
          /\ Snapshot.acquisitions = totals.acquisitions
          /\ Snapshot.reads = totals.reads
          /\ totals.positive_cases = 13 /\ totals.rejected_cases = 5
          /\ totals.repeated_runs = Repeats /\ totals.executions = 13 + Repeats
          /\ result' = "PASS"
    /\ Goes("out")
    /\ UNCHANGED <<case, attempt, executed, open, before, totals, accepted, ran, machine>>

Out ==
    /\ stage = "out"
    /\ open' = open \ {"module"}
    /\ result' = IF result = "none" THEN "FAIL" ELSE result
    /\ Goes("poweroff")
    /\ UNCHANGED <<case, attempt, executed, before, totals, accepted, ran, machine>>

GuestNext ==
    \/ Identity \/ Prepare \/ ModuleBtf \/ InitialAccounting
    \/ Before \/ LoadAccepted \/ LoadRefused \/ Unexpected \/ JitedLength
    \/ RunLoaded \/ Step \/ Stop \/ Accounting \/ Advance
    \/ FinalAccounting \/ Out

-----------------------------------------------------------------------------
\* Every program alone, those the verifier must reject too, as if it ran.
AloneInit ==
    /\ stage = "running"
    /\ case \in DOMAIN Cases
    /\ attempt = 0 /\ executed = 1
    /\ open = {}
    /\ before = Fresh
    /\ totals = [positive_cases |-> 0, rejected_cases |-> 0, repeated_runs |-> 0,
                 executions |-> 0, acquisitions |-> 0, reads |-> 0]
    /\ result = "none"
    /\ kernel = Fresh
    /\ pc = 1
    /\ regs = [r \in 0 .. 10 |-> Unset]
    /\ slots = [slot \in {-8, -16} |-> Unset]
    /\ misuse = FALSE /\ refused = FALSE
    /\ accepted = {} /\ ran = {}

AloneNext == Step \/ Stop

-----------------------------------------------------------------------------
\* A probe never runs, whatever the verifier says of it (guest.c:305, 419).
RejectsNeverRun == ran = {}

\* The guest says PASS only if the verifier turned every probe down, every
\* acquisition that was to succeed did, and the module counted what the table
\* in main adds up to, Repeats times for the repeated program.
PassMeansAll ==
    result = "PASS" =>
        /\ accepted = {} /\ ~refused
        /\ kernel.acquisitions = 18 + 2 * Repeats
        /\ kernel.reads = 6 + Repeats

\* Nothing outlives a run, so that whenever the guest stops, and however it
\* came to that, the module holds no handle it could not free.
NothingOutlivesRun == pc = 0 => balanced(kernel)

\* PID 1 powers off with no descriptor open, after any failure.
FilesClosed == stage \in {"poweroff", "returned"} => open = {}

\* A program that is to load keeps the contract the module relies on, on every
\* outcome of its acquisitions, and returns what main expects when they succeed.
ValidKeepContract ==
    This.reject = "none" =>
        /\ ~misuse
        /\ stage = "accounting" =>
              /\ kernel.handles = {}
              /\ ~refused => /\ regs[0] = This.expected
                             /\ kernel.acquisitions = This.acquisitions
                             /\ kernel.reads = This.reads

\* And each probe does break it if it were to run: with the handle it acquired,
\* or, when it does not test for NULL, without (guest.c:178-204).
RejectedForCause ==
    stage = "accounting" /\ This.reject # "none" =>
        LET breaks == misuse \/ kernel.handles # {}
        IN  breaks = IF This.reject = "missing_null" THEN refused ELSE ~refused
=============================================================================
