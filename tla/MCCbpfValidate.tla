--------------------------- MODULE MCCbpfValidate ---------------------------
(* Every program of up to two instructions over two registers and one spill   *)
(* slot, with each field in and just out of its range; every program of three *)
(* that mixes branches to anywhere with one good and one bad instruction of   *)
(* the rest; the empty program and one that is too long.                      *)
EXTENDS CbpfValidate

MCOperand == 0 .. 2
MCImmediate == -1 .. 3

\* Fields an opcode does not use stay 0: the code never looks at them.
Row(ops, dsts, srcs, imms) ==
    [op : ops, dst : dsts, src : srcs, imm : imms]

Instructions ==
    UNION { Row({"ACQUIRE"}, {1, 2}, {0}, -1 .. 2),
            Row({"COPY"}, {1, 2}, {1, 2}, {0}),
            Row({"SPILL", "RELOAD"}, 0 .. 2, 0 .. 2, {0}),
            Row({"READ", "RELEASE"}, {1, 2}, {0}, {0}),
            Row({"BR_NULL"}, {1, 2}, {0}, MCImmediate),
            Row({"RETURN", "OTHER"}, {0}, {0}, {0}) }

Return == [op |-> "RETURN", dst |-> 0, src |-> 0, imm |-> 0]

Mixed ==
    UNION { Row({"BR_NULL"}, {1}, {0}, MCImmediate),
            Row({"COPY"}, {1}, {1, 2}, {0}),
            {Return} }

MCPrograms ==
    { <<>>, <<Return, Return, Return, Return>> }
        \cup [1 .. 1 -> Instructions]
        \cup [1 .. 2 -> Instructions]
        \cup [1 .. 3 -> Mixed]
=============================================================================
