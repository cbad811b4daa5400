--------------------------- MODULE MCCbpfCompiler ---------------------------
(* The restricted compiler, looked at in three ways, one to a behaviour: the  *)
(* admission of every program of two shapes and the runs of what it admits;   *)
(* the loader's own seven programs, from load to result; the generation and   *)
(* publication of an image in one of several kernels.                         *)
EXTENDS CbpfOwnershipGuest, CbpfJitImage

VARIABLE
    study       \* "admission", "loader" or "generation"

allVars == <<study, vars, guestVars, imageVars>>

-----------------------------------------------------------------------------
(* Programs.  Short: an acquisition, then any three of fourteen instructions. *)
(* Double: two acquisitions and a guarded branch, with choices in between of  *)
(* what is kept where, what is released and what is used afterwards.          *)
J(d, f) == IFZERO(d, f)
K(d, v) == IMM(d, v)
X(d, s) == COPY(d, s)

Middle == {X(6, 0), X(1, 0), X(1, 6), STORE(0), LOAD(1), K(0, 0), K(1, 0),
           CALL(1), CALL(2), CALL(3), CALL(4), J(0, 1), J(1, 1), EXIT}

Short ==
    { Code(<<K(1, n), CALL(1), a, b, c, EXIT>>) :
        n \in {0, 1, 2}, a \in Middle \cup {J(0, 2), J(0, 3), J(0, -1), J(0, -2)},
        b \in Middle, c \in Middle }

Double ==
    { Code(<<K(1, 0), CALL(1), J(0, n), a, K(1, 0), CALL(1), b, c, d, e, f, K(0, 0), EXIT>>) :
        n \in {8, 9}, a \in {X(6, 0), STORE(0)},
        b \in {X(6, 0), J(0, 4), X(7, 0)}, c \in {X(1, 0), X(1, 6), LOAD(1)},
        d \in {CALL(2), CALL(3), CALL(1)}, e \in {X(1, 6), X(1, 7), X(1, 0), LOAD(1), K(1, 0)},
        f \in {CALL(1), CALL(2), CALL(3), EXIT} }

MCImmediate == -8 .. 9
MCPrograms == Short \cup Double \cup { Selected(t) : t \in Case }

-----------------------------------------------------------------------------
(* Units of generation: branches over one and several instructions, two       *)
(* exits, no gate call, a branch to nowhere, and too many instructions; every *)
(* combination of attributes; the source's limits, and limits some of these   *)
(* meet.                                                                      *)
I(op) == [op |-> op, off |-> 0]
B(off) == [op |-> "JEQ", off |-> off]
k == I("MOV_K")
c == I("CALL")
e == I("EXIT")

MCUnits == {
    <<k, e>>,
    <<k, c, e>>,
    <<k, c, B(1), k, e>>,
    <<k, c, B(1), e>>,
    <<k, c, B(3), I("MOV_X"), c, e, k, e>>,
    <<k, c, B(7), I("STX"), k, c, B(1), c, I("LDX"), c, e, e>>,
    <<k, k, k, k, c, k, k, k, k, k, k, k, e>> }

UnitAttributes == [jit_requested : BOOLEAN, blinding : BOOLEAN,
                   sched_cls : BOOLEAN, functions_or_maps : BOOLEAN]

Build(words_, reach, bti) ==
    [max_words |-> words_, reach |-> reach, bti |-> bti, ptr_auth |-> TRUE]

Kernels == {Build(1024, 262144, TRUE), Build(1024, 262144, FALSE), Build(133, 75, FALSE),
            [Build(1024, 75, TRUE) EXCEPT !.ptr_auth = FALSE]}

-----------------------------------------------------------------------------
NoLoader ==
    /\ test = 0 /\ stage = "none" /\ executed = FALSE
    /\ outcome = [t \in Case |-> "none"] /\ ran = {}

NoImageYet ==
    /\ unit = [insns |-> <<k, e>>, build |-> Build(1024, 262144, TRUE),
               attributes |-> CHOOSE a \in UnitAttributes : TRUE]
    /\ CompileInit

MCInit ==
    \/ study = "admission" /\ Init /\ NoLoader /\ NoImageYet
    \/ study = "loader" /\ GuestInit /\ NoImageYet
    \/ study = "generation" /\ Init /\ prog = Selected(0) /\ NoLoader /\ CompileInit

Admission ==
    /\ study = "admission"
    /\ Next
    /\ UNCHANGED <<study, guestVars, imageVars>>

Loader ==
    /\ study = "loader"
    /\ GuestNext
    /\ UNCHANGED <<study, imageVars>>

Generation ==
    /\ study = "generation"
    /\ CompileNext
    /\ UNCHANGED <<study, vars, guestVars>>

MCNext == Admission \/ Loader \/ Generation

MCSpec == MCInit /\ [][MCNext]_allVars
=============================================================================
