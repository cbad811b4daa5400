---------------------------- MODULE MCCbpfMachine ---------------------------
(* All validated programs of up to MAX_INSNS instructions over two registers, *)
(* one spill slot and the two cells of the sources: enough for two live       *)
(* acquisitions, an alias of one of them parked in the slot, and a stale use  *)
(* or an exhausting third acquisition before the RETURN.                      *)
EXTENDS CbpfMachine

MCOperand == 0 .. 1
MCImmediate == 0 .. 6
=============================================================================
