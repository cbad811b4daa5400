--------------------------- MODULE MCCbpfOwnership --------------------------
(* CbpfOwnership with three registers, two slots and three acquisitions:      *)
(* one more than the sources, and room for an alias of each or several of     *)
(* one.                                                                       *)
EXTENDS CbpfOwnership

MCReg == 0 .. 2
MCSlot == 0 .. 1
=============================================================================
