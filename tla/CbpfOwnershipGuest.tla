------------------------- MODULE CbpfOwnershipGuest -------------------------
(* linux/ownership/guest.c: the loader that takes seven fixed programs        *)
(* through BPF_PROG_LOAD and, unless the case expects a rejection, through    *)
(* BPF_PROG_TEST_RUN.  Loading is Linux's verifier, whose verdict is left     *)
(* open, and then the pass of CbpfJitAdmit; executing is the run there.       *)
EXTENDS CbpfJitAdmit, Sequences

VARIABLES
    test,       \* index of the case
    stage,      \* place in run_case
    executed,   \* TEST_RUN was issued in this case
    outcome,    \* per case: how run_case ended
    ran         \* the cases whose program has started

guestVars == <<test, stage, executed, outcome, ran>>

Case == 0 .. 6

Fields(o, d, s, f, v) == [op |-> o, dst |-> d, src |-> s, off |-> f, imm |-> v]
IMM(d, v) == Fields("MOV_K", d, 0, 0, v)
COPY(d, s) == Fields("MOV_X", d, s, 0, 0)
CALL(operation) == Fields("CALL", 0, PseudoKfuncCall, 0, operation)
IFZERO(d, offset) == Fields("JEQ", d, 0, offset, 0)
NULL_TO(offset) == IFZERO(0, offset)
STORE(s) == Fields("STX", FramePointer, s, -8, 0)
LOAD(d) == Fields("LDX", d, FramePointer, -8, 0)
RELOAD == LOAD(8)
EXIT == Fields("EXIT", 0, 0, 0, 0)

\* The C arrays are indexed from 0.
Code(s) == [q \in 0 .. Len(s) - 1 |-> s[q + 1]]

program == Code(<<
    IMM(1, 0), CALL(AcquireOp), NULL_TO(21),
    COPY(6, 0), STORE(6),
    IMM(1, 0), CALL(AcquireOp), NULL_TO(11),
    COPY(7, 0), RELOAD, COPY(1, 8), CALL(ReleaseOp),
    COPY(1, 7), CALL(ReadOp), COPY(9, 0),
    COPY(1, 7), CALL(ReleaseOp), COPY(0, 9), EXIT,
    RELOAD, COPY(1, 8), CALL(ReleaseOp), IMM(0, 7), EXIT,
    IMM(0, 0), EXIT>>)

\* NULL refinement on r8 and r6; other result registers and branch targets.
alternate == Code(<<
    IMM(1, 0), CALL(AcquireOp), COPY(8, 0), IFZERO(8, 21),
    STORE(8),
    IMM(1, 0), CALL(AcquireOp), COPY(6, 0), IFZERO(6, 11),
    LOAD(7), COPY(1, 7), CALL(ReleaseOp),
    COPY(1, 6), CALL(ReadOp), COPY(9, 0),
    COPY(1, 6), CALL(ReleaseOp), COPY(8, 9), COPY(0, 8), EXIT,
    LOAD(7), COPY(1, 7), CALL(ReleaseOp), IMM(0, 9), EXIT,
    IMM(0, 0), EXIT>>)

\* The instructions of each case, selected before the verifier sees any.
Selected(t) ==
    CASE t = 0 -> program
      [] t = 1 -> alternate
      [] t = 2 -> [program EXCEPT ![5] = IMM(1, 1)]
      [] t = 3 -> [program EXCEPT ![5] = IMM(1, 2)]
      [] t = 4 -> [program EXCEPT ![12] = COPY(1, 6)]
      [] t = 5 -> [program EXCEPT ![12] = LOAD(1)]
      [] t = 6 -> [program EXCEPT ![12] = COPY(1, 6), ![13] = CALL(ReleaseOp)]

Expected(t) == IF t = 2 THEN 7 ELSE IF t = 3 THEN 0 ELSE 42

Reject(t) == t >= 4

GuestInit ==
    /\ Init
    /\ prog = Selected(0)
    /\ test = 0
    /\ stage = "load"
    /\ executed = FALSE
    /\ outcome = [t \in Case |-> "none"]
    /\ ran = {}

\* run_case returns; the first failure ends main's loop.
Conclude(ok) ==
    /\ outcome' = [outcome EXCEPT ![test] = IF ok THEN "PASS" ELSE "FAIL"]
    /\ stage' = IF ok THEN "next" ELSE "end"
    /\ UNCHANGED <<test, executed, ran>>

\* The verifier turns the program down; expects says that its log holds one of
\* the four messages the loader looks for, with EACCES or EINVAL.
VerifierRejects ==
    /\ stage = "load"
    /\ \E expects \in BOOLEAN : Conclude(Reject(test) /\ expects)
    /\ UNCHANGED vars

VerifierAccepts ==
    /\ stage = "load"
    /\ stage' = "compile"
    /\ UNCHANGED <<vars, test, executed, outcome, ran>>

Compile == stage = "compile" /\ Pass /\ UNCHANGED guestVars

\* A program the pass rejected has no native image, nor has one the compiler
\* found no memory for: either the load fails for another reason than the
\* verifier's, or jited_prog_len is 0.
NoImage ==
    /\ stage = "compile" /\ phase \in {"rejected", "admitted"}
    /\ Conclude(FALSE)
    /\ UNCHANGED vars

\* BUG: an unexpected acceptance is executed like the others.
UnexpectedIgnored(t) == FALSE

\* "Unexpected acceptance is terminal and NEVER reaches TEST_RUN."
Unexpected(t) == Reject(t)

LoadedUnexpectedly ==
    /\ stage = "compile" /\ phase = "admitted" /\ Unexpected(test)
    /\ Conclude(FALSE)
    /\ UNCHANGED vars

\* BPF_PROG_TEST_RUN is issued.
TestRun ==
    /\ stage = "compile" /\ phase = "admitted" /\ ~Unexpected(test)
    /\ stage' = "execute"
    /\ executed' = TRUE
    /\ UNCHANGED <<vars, test, outcome, ran>>

ProgramStarts ==
    /\ stage = "execute" /\ Start
    /\ ran' = ran \cup {test}
    /\ UNCHANGED <<test, stage, executed, outcome>>

\* The program is not entered, which the loader cannot tell from a value of 0.
ProgramRefused == stage = "execute" /\ EntryRefused /\ UNCHANGED guestVars

Execute ==
    /\ stage = "execute" /\ phase = "run"
    /\ Run
    /\ UNCHANGED guestVars

\* cbpf_test_invoke returned the value, or 0 for a run that failed.
CheckValue ==
    /\ stage = "execute" /\ phase \in {"returned", "aborted"}
    /\ Conclude(result = Word(Expected(test)))
    /\ UNCHANGED vars

\* The command itself fails, before the program or when its result is copied out.
TestRunFails ==
    /\ stage = "execute" /\ phase \in {"admitted", "returned", "aborted"}
    /\ Conclude(FALSE)
    /\ UNCHANGED vars

NextProgram(t) == Selected(t)

NextTest(t) == t + 1

NextCase ==
    /\ stage = "next"
    /\ IF test = 6
       THEN stage' = "end" /\ UNCHANGED <<vars, test, executed>>
       ELSE /\ test' = NextTest(test)
            /\ stage' = "load"
            /\ executed' = FALSE
            /\ prog' = NextProgram(test')
            /\ phase' = "admit"
            /\ pc' = 0
            /\ flow' = [q \in 0 .. Length(prog') |->
                           IF q = 0 THEN AtEntry ELSE Nothing]
            /\ acquisitions' = 0
            /\ has_exit' = FALSE
            /\ regs' = [l \in Location |-> Word(0)]
            /\ known' = {}
            /\ cells' = [i \in 0 .. 1 |-> "null"]
            /\ result' = Word(0)
    /\ UNCHANGED <<outcome, ran>>

GuestNext ==
    \/ VerifierRejects \/ VerifierAccepts \/ Compile \/ NoImage
    \/ LoadedUnexpectedly \/ TestRun \/ ProgramStarts \/ ProgramRefused \/ Execute
    \/ CheckValue \/ TestRunFails \/ NextCase

GuestSpec == GuestInit /\ [][GuestNext]_<<vars, guestVars>>

-----------------------------------------------------------------------------
Passed == stage = "end" /\ \A t \in Case : outcome[t] = "PASS"

\* A program the loader wants rejected never reaches TEST_RUN and is never
\* started, whatever the verifier says; and the final PASS means that each case
\* that is to bring back a value ran. Of fail_second, which is to bring back 0, it
\* does not: a program that was not entered gives 0 as well (guest.c:91, 128, 168,
\* 178; cbpf_runtime.c:398-412).
RejectsNeverRun ==
    /\ executed => ~Reject(test)
    /\ \A t \in ran : ~Reject(t)
    /\ Passed => { t \in Case : ~Reject(t) /\ Expected(t) # 0 } \subseteq ran

\* Each fixture means what the loader expects of it: the pass admits all seven
\* (the three stale ones too, which only the verifier and the gates refuse),
\* the value that comes back is the expected one unless entry or a gate failed, and
\* the program has by then released all it acquired (guest.c:27-50).
FixturesConform ==
    /\ stage = "compile" => phase # "rejected"
    /\ stage = "execute" /\ phase = "returned" =>
          /\ result = Word(Expected(test))
          /\ \A i \in 0 .. 1 : cells[i] # "live"
    /\ stage = "execute" /\ test = 3 => phase # "returned"

\* The loader's verdict is earned: by fixtures that mean what it expects, and
\* without a start of one it wants rejected (guest.c:27-50, 91, 178).
LoaderVerdict == RejectsNeverRun /\ FixturesConform
=============================================================================
