----------------------------- MODULE MCCbpfArray -----------------------------
(* Array maps, in two ways, one to a behaviour: two maps made, looked up and  *)
(* freed in any order, by any programs; and the guest with its one map.       *)
(* At the addresses and sizes here the root, a value, both or neither have    *)
(* exact bounds.                                                              *)
EXTENDS CbpfArrayGuest

CONSTANTS m1, m2

MCSlot == {m1, m2}
MCBase == {0, 2, 8, 128, 256}
A(v, n, p) == [value_size |-> v, max_entries |-> n, plain |-> p, special |-> FALSE]
MCAttr == {A(7, 2, TRUE), A(9, 2, TRUE), A(12, 3, TRUE), A(64, 3, TRUE),
           A(24, 1, TRUE), A(7, 2, FALSE), [A(12, 3, TRUE) EXCEPT !.special = TRUE]}

\* Maps without the guest: it is at no stage.
AnyMaps ==
    /\ Init
    /\ attr = [m \in Slot |-> MapAttr]
    /\ stage_of = "none"
    /\ map_fd = FALSE /\ prog_fd = FALSE
    /\ data = Zeros /\ readback = [i \in Logical |-> 0]
    /\ reply = "none" /\ runs = 0 /\ regs = [r0 |-> 0, r1 |-> 0]
    /\ retval = 0 /\ result = "FAIL"

MCInit == AnyMaps \/ GuestInit

Maps == stage_of = "none" /\ Next /\ UNCHANGED guestVars

MCNext == Maps \/ GuestNext

MCSpec == MCInit /\ [][MCNext]_<<vars, guestVars>>
=============================================================================
