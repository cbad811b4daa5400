----------------------------- MODULE MCCbpfGate -----------------------------
(* All validated programs of up to five instructions over two registers, one  *)
(* slot and both cells, in both builds: enough for an alias of a cell to      *)
(* outlive its release next to a live second acquisition.                     *)
EXTENDS CbpfGate

MCOperand == 0 .. 1
MCImmediate == 0 .. 5

EveryViewExact == {{}}
SecondViewExactOrNot == {{}, {1}}
=============================================================================
