--------------------------- MODULE MCMemorySlots ---------------------------
(***************************************************************************)
(* The cartridges, register values and addresses MemorySlots is checked    *)
(* with.                                                                   *)
(***************************************************************************)
EXTENDS MemorySlots

Mega8(t) == [type |-> t, size |-> 8, flat |-> FALSE, lastFirst |-> FALSE]
Last8(t) == [type |-> t, size |-> 8, flat |-> FALSE, lastFirst |-> TRUE]
Flat64 == [type |-> 0, size |-> 8, flat |-> TRUE, lastFirst |-> FALSE]
Small(n) == [type |-> 0, size |-> n, flat |-> FALSE, lastFirst |-> FALSE]
Pair(a, b) == [I \in Carts |-> IF I = 0 THEN a ELSE b]

(* A MegaROM in one slot, and none, a small one or a flat one in the other.*)
ViewSetups == {Pair(Mega8(0), Small(0)), Pair(Small(3), Mega8(2)),
               Pair(Last8(3), Small(2)), Pair(Mega8(4), Small(1)),
               Pair(Small(0), Mega8(5)), Pair(Mega8(8), Small(4)),
               Pair(Small(1), Last8(8))}
PairedSetups == {Pair(Mega8(t), Small(0)) : t \in {1, 6, 7, 9, 10}}
                  \union {Pair(Small(0), Mega8(1)), Pair(Flat64, Small(0))}
Generic16Setups == {Pair(Mega8(1), Small(0))}

AllSetups == ViewSetups \union PairedSetups

(* A slot register from the slots of pages 0 to 3.                         *)
Reg(a, b, c, d) == a + 4*b + 16*c + 64*d

(* The BIOS and each slot in some page, next to another; RAM everywhere;   *)
(* and a cartridge, in either slot, in the pages 4000h and 8000h only.     *)
Mixed == {Reg(0,1,1,3), Reg(0,2,2,3), Reg(3,1,3,2), Reg(1,3,2,3), Reg(3,3,3,3)}
Paired == {Reg(0,1,1,3), Reg(0,2,2,0), Reg(3,3,3,3)}
PairedSlots == [s \in Generic16Setups |-> Paired]
AllSlots == [s \in AllSetups |-> IF s \in ViewSetups THEN Mixed ELSE Paired]
MixedSubslots == {Reg(2,2,2,2), Reg(0,2,1,2), Reg(2,3,2,0)}

AllAddresses == {16*KB + 1, 16*KB + 2, 20*KB, 24*KB, 28*KB, 30*KB, 36*KB, 38*KB, 40*KB}
PairedAddresses == {16*KB + 1, 16*KB + 2, 24*KB, 28*KB, 36*KB, 40*KB}
=============================================================================
