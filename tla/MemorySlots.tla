---------------------------- MODULE MemorySlots ----------------------------
(***************************************************************************)
(* What the Z80 sees: four 16kB pages, each showing one of four primary    *)
(* slots, slot 3 being divided into four secondary ones; cartridges in     *)
(* slots 1 and 2 that switch 8kB banks of their ROM, and mapped RAM in     *)
(* slot 3-2.  The slot registers, the banks and the RAM mapper decide what *)
(* is seen, but the Z80 reads and writes through eight pointers, RAM[0] to *)
(* RAM[7], that every handler updates on its own, skipping the update when *)
(* the register has not changed.                                           *)
(*                                                                         *)
(* The contents of memory are left out: a block of 8kB is a record, and a  *)
(* pointer is the block it points to.  `&' with a mask 2^n-1 is `%', and   *)
(* KB is 1024, so that 0x6000 is 24*KB.                                    *)
(***************************************************************************)
EXTENDS Integers

CONSTANTS
  Setups,         \* what may be in the two cartridge slots
  RamPages,       \* RAMPages, 16kB each; RAMMask is one less
  Addresses,      \* addresses the program writes to, of those that matter
  Data,           \* what it writes to banks, the RAM mapper and port 77h
  SlotValues,     \* what it writes to port A8h, with either setup
  SubslotValues,  \* what it writes to FFFFh
  MapperPages     \* pages whose RAM mapper port (FCh..FFh) it writes to

Carts == 0..1
Slots == 0..3
Pages == 0..3     \* 16kB pages
Views == 0..7     \* 8kB halves of them
KB == 1024
Types == 0..10

(* ROMTypeA or ROMTypeB, chosen in the menu or guessed; the size of the    *)
(* file in 8kB pages, 0 if there is none; and where it has its header: in  *)
(* the middle of a flat 64kB ROM, in its last page, or else in its first.  *)
Cartridge == [type : Types, size : 0..128, flat : BOOLEAN, lastFirst : BOOLEAN]

ASSUME SetupAssumption ==
  /\ Setups \subseteq [Carts -> Cartridge]
  /\ \A s \in Setups, I \in Carts : s[I].type = 10 => s[I].size > 4 /\ ~s[I].flat
ASSUME RamAssumption == RamPages \in {4, 8, 16, 32}
ASSUME InputAssumption ==
  /\ Addresses \subseteq 0 .. 64*KB - 1
  /\ Data \subseteq 0..255
  /\ SlotValues \in [Setups -> SUBSET (0..255)]
  /\ SubslotValues \subseteq 0..255
  /\ MapperPages \subseteq Pages

VARIABLES
  cart,           \* what is in the cartridge slots
  PSL, SSL,       \* slots shown, by page
  PSLReg, SSLReg,
  ppiR0,          \* PPI.R[0], the latch of port A
  ppiAIn,         \* bit 10h of PPI.R[3]: port A is an input
  EnWrite,        \* by page
  RAM,            \* the block each pointer points to
  cartMap,        \* MemMap[I+1][0]
  ramMap,         \* MemMap[3][2]
  RAMMapper,
  ROMMapper,
  SCCOn

slotVars == <<PSL, SSL, PSLReg, SSLReg, ppiR0, ppiAIn>>
cartVars == <<cart, cartMap, ROMMapper, SCCOn>>
ramVars == <<ramMap, RAMMapper>>
vars == <<slotVars, EnWrite, RAM, cartVars, ramVars>>

-----------------------------------------------------------------------------
(* Blocks *)

Block == [kind : {"empty", "system", "rom", "ram", "sram"}, unit : 0..15, page : Nat]
Empty == [kind |-> "empty", unit |-> 0, page |-> 0]
Flash == 2
(* A ROM of up to 32kB has a buffer; a larger one is written to flash, at  *)
(* flash_start, whichever slot it is for.                                  *)
Rom(I, p) ==
  [kind |-> "rom", unit |-> IF cart[I].size > 4 THEN Flash ELSE I, page |-> p]
Ram(p) == [kind |-> "ram", unit |-> 0, page |-> p]
Sram(p) == [kind |-> "sram", unit |-> 0, page |-> p]

\* Mutant: the two bits of a page are not cut off from those above.
Field_Uncut(V) == [J \in Pages |-> V \div <<1, 4, 16, 64>>[J+1]]
Field(V) == [J \in Pages |-> (V \div <<1, 4, 16, 64>>[J+1]) % 4]

(* The ROMs of the machine: BIOS, disk and FM-PAC.                         *)
System(p, s, k) ==
  IF \/ p = 0 /\ s = 0 /\ k < 4
     \/ p = 3 /\ s \in {1, 3} /\ k \in 2..3
  THEN [kind |-> "system", unit |-> 4 * p + s, page |-> k]
  ELSE Empty

(* MemMap[p][s][k]: all that a bank switch can change is in two variables. *)
MemMap(p, s, k) ==
  CASE p \in 1..2 /\ s = 0 -> cartMap[p - 1][k]
    [] p = 3 /\ s = 2      -> ramMap[k]
    [] OTHER               -> System(p, s, k)

Subslot(J) == IF PSL[J] = 3 THEN SSL[J] ELSE 0

-----------------------------------------------------------------------------
(* LoadCart, SetMegaROM and the reset in StartMSX *)

Inserted(I) == cart[I].size > 0

Pow2(n) == CHOOSE p \in {1, 2, 4, 8, 16, 32, 64, 128} : p >= n /\ p < 2 * n

(* The number of pages ROMMask leaves: 1 when nothing can be switched.     *)
Banks(I) == IF ~cart[I].flat /\ cart[I].size > 4 THEN Pow2(cart[I].size) ELSE 1

Mega(I) ==
  LET n == cart[I].size
      P == CASE cart[I].type = 1             -> <<0, 1, Banks(I) - 2, Banks(I) - 1>>
             [] cart[I].type = 10 /\ I = 0   -> <<0, -1, -2, -3>>
             [] cart[I].type = 10 /\ I = 1   -> <<0, 1, 2, 3>>
             [] cart[I].type \notin {1, 10} /\ cart[I].lastFirst
                                           -> <<n - 2, n - 1, n - 2, n - 1>>
             [] OTHER                      -> <<0, 1, 2, 3>>
  IN  [J \in Pages |-> P[J + 1] % Banks(I)]

(* The pages a MegaROM leaves out, mapped by the 25-in-1 in slot 1 only.   *)
Outside(I, k) ==
  IF cart[I].type # 10 \/ I = 1 THEN Empty
  ELSE IF k < 2 THEN Rom(I, 63 % Banks(I)) ELSE Rom(I, Mega(I)[k - 6])

InitCart(I) ==
  LET n == cart[I].size IN
  [k \in Views |->
     CASE n = 0                           -> Empty
       [] n \in 1..2                      -> Rom(I, k % n)
       [] n \in 3..4                      -> Rom(I, (k % 2) + IF k < 4 THEN 0 ELSE 2)
       [] n > 4 /\ Banks(I) = 1           -> Rom(I, k)
       [] n > 4 /\ Banks(I) > 1 /\ k \in 2..5    -> Rom(I, Mega(I)[k - 2])
       [] n > 4 /\ Banks(I) > 1 /\ k \notin 2..5 -> Outside(I, k)]

Init ==
  /\ cart \in Setups
  /\ PSL = [J \in Pages |-> 0] /\ SSL = [J \in Pages |-> 0]
  /\ PSLReg = 0 /\ SSLReg = 0
  /\ ppiR0 = 0 /\ ppiAIn = TRUE
  /\ EnWrite = [J \in Pages |-> FALSE]
  /\ RAM = [k \in Views |-> System(0, 0, k)]
  /\ cartMap = [I \in Carts |-> InitCart(I)]
  /\ ROMMapper = [I \in Carts |-> IF Banks(I) > 1 THEN Mega(I)
                                  ELSE [J \in Pages |-> 0]]
  /\ ramMap = [k \in Views |-> Ram(2 * (3 - (k \div 2)) + (k % 2))]
  /\ RAMMapper = [J \in Pages |-> 3 - J]
  /\ SCCOn = [I \in Carts |-> FALSE]

-----------------------------------------------------------------------------
(* The slot registers *)

Rout0(in, R0) == IF in THEN 0 ELSE R0

(* OutZ80, ports A8h and ABh: the new slots are shown unless PSLReg says   *)
(* that they are already.                                                  *)
WritePPI ==
  /\ LET V == Rout0(ppiAIn', ppiR0')
         slot == Field(V)
         sub == [J \in Pages |-> IF slot[J] = 3 THEN SSL[J] ELSE 0]
     IN  IF V = PSLReg
         THEN UNCHANGED <<PSL, PSLReg, EnWrite, RAM>>
         ELSE /\ PSLReg' = V
              /\ PSL' = slot
              /\ EnWrite' = [J \in Pages |-> sub[J] = 2 /\ ramMap[2*J] # Empty]
              /\ RAM' = [k \in Views |-> MemMap(slot[k \div 2], sub[k \div 2], k)]
  /\ UNCHANGED <<SSL, SSLReg, cartVars, ramVars>>

WriteSlots ==
  /\ ppiR0' \in SlotValues[cart]
  /\ UNCHANGED ppiAIn
  /\ WritePPI

(* A control word with bit 10h set makes port A an input, which reads 0 as *)
(* an output.  One without bit 80h sets a bit of port C instead.           *)
WriteControl ==
  /\ ppiAIn' \in BOOLEAN
  /\ UNCHANGED ppiR0
  /\ WritePPI

\* Mutants: the register is forgotten for pages that do not show slot 3, which
\* changes none of their pointers; pages in another slot are write enabled too.
SSlot_InSight(V) ==
  /\ PSL[3] = 3
  /\ SSLReg # V
  /\ SSLReg' = V
  /\ SSL' = [J \in Pages |-> IF PSL[J] = 3 THEN Field(V)[J] ELSE SSL[J]]
  /\ EnWrite' = [J \in Pages |-> IF PSL[J] = 3
                                 THEN Field(V)[J] = 2 /\ ramMap[2*J] # Empty
                                 ELSE EnWrite[J]]
  /\ RAM' = [k \in Views |-> IF PSL[k \div 2] = 3
                             THEN MemMap(3, Field(V)[k \div 2], k)
                             ELSE RAM[k]]
  /\ UNCHANGED <<PSL, PSLReg, ppiR0, ppiAIn, cartVars, ramVars>>
SSlot_Enable(V) ==
  /\ PSL[3] = 3
  /\ SSLReg # V
  /\ SSLReg' = V
  /\ SSL' = Field(V)
  /\ EnWrite' = [J \in Pages |-> Field(V)[J] = 2 /\ ramMap[2*J] # Empty]
  /\ RAM' = [k \in Views |-> IF PSL[k \div 2] = 3
                             THEN MemMap(3, Field(V)[k \div 2], k)
                             ELSE RAM[k]]
  /\ UNCHANGED <<PSL, PSLReg, ppiR0, ppiAIn, cartVars, ramVars>>

(* WrZ80 at FFFFh, and SSlot.                                              *)
SSlot(V) ==
  /\ PSL[3] = 3
  /\ SSLReg # V
  /\ SSLReg' = V
  /\ SSL' = Field(V)
  /\ EnWrite' = [J \in Pages |-> IF PSL[J] = 3
                                 THEN Field(V)[J] = 2 /\ ramMap[2*J] # Empty
                                 ELSE EnWrite[J]]
  /\ RAM' = [k \in Views |-> IF PSL[k \div 2] = 3
                             THEN MemMap(3, Field(V)[k \div 2], k)
                             ELSE RAM[k]]
  /\ UNCHANGED <<PSL, PSLReg, ppiR0, ppiAIn, cartVars, ramVars>>

(* OutZ80, ports FCh..FFh.                                                 *)
MapRAM(J, V) ==
  LET v == V % RamPages
      B == [k \in {2*J, 2*J + 1} |-> Ram(2*v + (k % 2))]
      shown == PSL[J] = 3 /\ SSL[J] = 2
  IN  /\ RAMMapper[J] # v
      /\ RAMMapper' = [RAMMapper EXCEPT ![J] = v]
      /\ ramMap' = [k \in Views |-> IF k \div 2 = J THEN B[k] ELSE ramMap[k]]
      /\ EnWrite' = [EnWrite EXCEPT ![J] = @ \/ shown]
      /\ RAM' = [k \in Views |-> IF k \div 2 = J /\ shown THEN B[k] ELSE RAM[k]]
      /\ UNCHANGED <<slotVars, cartVars>>

-----------------------------------------------------------------------------
(* MapROM: a write to a page that shows a cartridge *)

(* The blocks B are put into the cartridge's map, those in S in sight too. *)
ShowBanks(I, B, S) ==
  /\ cartMap' = [cartMap EXCEPT
       ![I] = [k \in Views |-> IF k \in DOMAIN B THEN B[k] ELSE cartMap[I][k]]]
  /\ RAM' = [k \in Views |-> IF k \in S THEN B[k] ELSE RAM[k]]

(* w successive pages of 8kB, from page v of the ROM and from view J+2.    *)
Bank(I, J, v, w) == [k \in J+2 .. J+1+w |-> Rom(I, v + k - (J+2))]

\* Mutant: the bank is not remembered.
SwitchBank_Forgotten(I, J, v, B, S) ==
  IF v = ROMMapper[I][J]
  THEN UNCHANGED <<cartMap, RAM, ROMMapper>>
  ELSE ShowBanks(I, B, S) /\ UNCHANGED ROMMapper

(* `if(V!=ROMMapper[I][J])': nothing is done for a bank that is there.     *)
SwitchBank(I, J, v, B, S) ==
  IF v = ROMMapper[I][J]
  THEN UNCHANGED <<cartMap, RAM, ROMMapper>>
  ELSE /\ ShowBanks(I, B, S)
       /\ ROMMapper' = [ROMMapper EXCEPT ![I][J] = v]

\* Mutant: the pointers are updated whatever the pages show.
InSight_All(I, B) == DOMAIN B

(* The blocks of pages that show the cartridge.                            *)
InSight(I, B) == {k \in DOMAIN B : PSL[k \div 2] = I + 1}

SwitchSCC(I, J, V) == SCCOn' = IF J = 2 THEN [SCCOn EXCEPT ![I] = (V = 63)] ELSE SCCOn

(* 0: Generic 8kB.  2: KONAMI5.  3: KONAMI4.  Every write to the page      *)
(* itself, so it shows the cartridge.                                      *)
Konami(I, A, V) ==
  LET J == IF cart[I].type = 2 THEN (A - 20*KB) \div (8*KB) ELSE (A - 16*KB) \div (8*KB)
      v == V % Banks(I)
      B == Bank(I, J, v, 1)
  IN  /\ \/ cart[I].type = 0
         \/ cart[I].type = 2 /\ A \in 20*KB .. 44*KB /\ A % (8*KB) = 4*KB
         \/ cart[I].type = 3 /\ A \in 24*KB .. 40*KB /\ A % (8*KB) = 0
      /\ SwitchBank(I, J, v, B, DOMAIN B)
      /\ IF cart[I].type = 3 THEN UNCHANGED SCCOn ELSE SwitchSCC(I, J, V)

(* 1: Generic 16kB.  The second half follows RAM[2], whichever page it is. *)
Generic16(I, A, V) ==
  LET J == 2 * (A \div (32*KB))
      v == (2*V) % Banks(I)
      first == IF J = 0 THEN Rom(I, v) ELSE RAM[2]
      B == [k \in {J+2, J+3} |->
              IF k = J+2 THEN Rom(I, v) ELSE [first EXCEPT !.page = @ + 1]]
  IN  /\ cart[I].type = 1
      /\ SwitchBank(I, J, v, B, DOMAIN B)
      /\ UNCHANGED SCCOn

(* 4: ASCII 8kB.  5: ASCII 16kB.  The registers are all in page 6000h.     *)
Ascii(I, A, V) ==
  LET J == IF cart[I].type = 4 THEN (A \div (2*KB)) % 4 ELSE 2 * ((A \div (4*KB)) % 2)
      v == (IF cart[I].type = 4 THEN V ELSE 2*V) % Banks(I)
      B == Bank(I, J, v, IF cart[I].type = 4 THEN 1 ELSE 2)
  IN  /\ cart[I].type \in {4, 5}
      /\ A \in 24*KB .. 32*KB - 1
      /\ SwitchBank(I, J, v, B, InSight(I, B))
      /\ UNCHANGED SCCOn

(* 6: GameMaster2.  Bit 10h of the value selects SRAM for A000h.           *)
GameMaster2(I, A, V) ==
  LET J == (A - 16*KB) \div (8*KB)
      B == [k \in {5} |-> Sram((V \div 32) % 2)]
      v == V % Banks(I)
      P == Bank(I, J, v, 1)
  IN  /\ cart[I].type = 6
      /\ A \in 24*KB .. 40*KB /\ A % (8*KB) = 0
      /\ IF (V \div 16) % 2 = 1
         THEN /\ ShowBanks(I, B, {5})
              /\ ROMMapper' = [ROMMapper EXCEPT ![I][3] = 255]
         ELSE SwitchBank(I, J, v, P, DOMAIN P)
      /\ UNCHANGED SCCOn

(* 7: ZEMINA 126-in-1, whose registers are both in page 4000h.             *)
Zemina126(I, A, V) ==
  LET J == IF A = 24*KB THEN 0 ELSE 1
      v == (2*V) % Banks(I)
      B == Bank(I, 2*J, v, 2)
  IN  /\ cart[I].type = 7
      /\ A \in {24*KB, 28*KB}
      /\ ShowBanks(I, B, DOMAIN B)
      /\ ROMMapper' = [ROMMapper EXCEPT ![I][J] = v]
      /\ UNCHANGED SCCOn

(* 9: ZEMINA 64-in-1, four registers at 4000h.                             *)
Zemina64(I, A, V) ==
  LET J == A % 4
      v == V % Banks(I)
      B == Bank(I, J, v, 1)
  IN  /\ cart[I].type = 9
      /\ A \in 16*KB .. 16*KB + 3
      /\ ShowBanks(I, B, DOMAIN B)
      /\ ROMMapper' = [ROMMapper EXCEPT ![I][J] = v]
      /\ UNCHANGED SCCOn

(* 10: ZEMINA 25-in-1.  Any write moves all eight pages.                   *)
Zemina25(I, V) ==
  LET base == (V % 64) % Banks(I)
      page == [J \in Pages |-> (base - J) % Banks(I)]
      B == [k \in Views |-> IF k < 2 THEN Rom(I, 63 % Banks(I))
                            ELSE Rom(I, page[(k - 2) % 4])]
  IN  /\ cart[I].type = 10
      /\ ShowBanks(I, B, InSight(I, [k \in 2..5 |-> B[k]]))
      /\ ROMMapper' = [ROMMapper EXCEPT ![I] = page]
      /\ UNCHANGED SCCOn

(* Registers of the SCC: such a write goes to the sound chip alone.        *)
ToSCC(I, A) == SCCOn[I] /\ A \div 256 \in {152, 184}

MapROM(I, A, V) ==
  /\ A \in 16*KB .. 48*KB - 1
  /\ ~EnWrite[A \div (16*KB)]
  /\ PSL[A \div (16*KB)] = I + 1
  /\ ~ToSCC(I, A)
  /\ \/ /\ ~Inserted(I)
        /\ A = 36*KB
        /\ SCCOn' = [SCCOn EXCEPT ![I] = (V = 63)]
        /\ UNCHANGED <<cartMap, ROMMapper, RAM>>
     \/ /\ Inserted(I)
        /\ Banks(I) > 1
        /\ \/ Konami(I, A, V)
           \/ Generic16(I, A, V)
           \/ Ascii(I, A, V)
           \/ GameMaster2(I, A, V)
           \/ Zemina126(I, A, V)
           \/ Zemina64(I, A, V)
           \/ Zemina25(I, V)
  /\ UNCHANGED <<cart, slotVars, EnWrite, ramVars>>

\* Mutant: 32kB at a time, but not aligned to 32kB.
Zemina90_Unaligned(I, V) ==
  LET base == (2 * (V % 64)) % Banks(I)
      mode == V \div 64
      B == [k \in 2..5 |-> Rom(I,
              CASE mode < 2 -> base + (k % 2)
                [] mode = 2 -> base + k - 2
                [] mode = 3 -> base + <<0, 1, 1, 0>>[k - 1])]
  IN  /\ cart[I].type = 8 /\ Inserted(I)
      /\ I = 1 => ~(cart[0].type = 8 /\ Inserted(0))
      /\ ShowBanks(I, B, InSight(I, B))
      /\ UNCHANGED <<cart, slotVars, EnWrite, ROMMapper, SCCOn, ramVars>>

(* 8: ZEMINA 90-in-1 has its register at port 77h, in no slot at all.      *)
Zemina90(I, V) ==
  LET base == (2 * (V % 64)) % Banks(I)
      mode == V \div 64
      low == base - 2 * ((base \div 2) % 2)
      B == [k \in 2..5 |-> Rom(I,
              CASE mode < 2 -> base + (k % 2)
                [] mode = 2 -> low + k - 2
                [] mode = 3 -> base + <<0, 1, 1, 0>>[k - 1])]
  IN  /\ cart[I].type = 8 /\ Inserted(I)
      /\ I = 1 => ~(cart[0].type = 8 /\ Inserted(0))
      /\ ShowBanks(I, B, InSight(I, B))
      /\ UNCHANGED <<cart, slotVars, EnWrite, ROMMapper, SCCOn, ramVars>>

Next ==
  \/ WriteSlots
  \/ WriteControl
  \/ \E V \in SubslotValues : SSlot(V)
  \/ \E J \in MapperPages, V \in Data : MapRAM(J, V)
  \/ \E I \in Carts, A \in Addresses, V \in Data : MapROM(I, A, V)
  \/ \E I \in Carts, V \in Data : Zemina90(I, V)

Spec == Init /\ [][Next]_vars

-----------------------------------------------------------------------------
(* The slots in range, every pointer at a block of some memory.            *)
TypeOK ==
  /\ cart \in Setups
  /\ PSL \in [Pages -> Slots] /\ SSL \in [Pages -> Slots]
  /\ PSLReg \in 0..255 /\ SSLReg \in 0..255
  /\ ppiR0 \in 0..255 /\ ppiAIn \in BOOLEAN
  /\ EnWrite \in [Pages -> BOOLEAN]
  /\ RAM \in [Views -> Block]
  /\ cartMap \in [Carts -> [Views -> Block]]
  /\ ramMap \in [Views -> Block]
  /\ RAMMapper \in [Pages -> Nat]
  /\ ROMMapper \in [Carts -> [Pages -> Nat]]
  /\ SCCOn \in [Carts -> BOOLEAN]

(* The pointers the Z80 reads through are those its slot registers, the    *)
(* banks and the RAM mapper select, whatever the order they changed in and *)
(* whichever updates were skipped.                                         *)
View == \A k \in Views : RAM[k] = MemMap(PSL[k \div 2], Subslot(k \div 2), k)

(* The Z80 stores only into RAM: EnWrite is on for the pages that show     *)
(* slot 3-2, and a bank switch never puts a ROM under such a page.         *)
WriteProtect ==
  \A k \in Views :
    /\ EnWrite[k \div 2] => RAM[k].kind = "ram"
    /\ EnWrite[k \div 2] <=> Subslot(k \div 2) = 2

(* The slots in force are the ones a program reads back from A8h and       *)
(* FFFFh, also those of pages that did not show slot 3 when FFFFh changed. *)
RegistersShown ==
  /\ PSL = Field(PSLReg) /\ SSL = Field(SSLReg)
  /\ PSLReg = Rout0(ppiAIn, ppiR0)

(* What MapROM remembers of a bank is the bank in the map, so a switch it  *)
(* skips would have changed nothing.                                       *)
BankShown ==
  \A I \in Carts : Banks(I) > 1 =>
    \A J \in Pages :
      /\ cart[I].type \in {0, 2, 3, 4} =>
           cartMap[I][J+2] = Rom(I, ROMMapper[I][J])
      /\ cart[I].type \in {1, 5} /\ J \in {0, 2} =>
           cartMap[I][J+2] = Rom(I, ROMMapper[I][J])
      /\ cart[I].type = 6 =>
           IF J = 3 /\ ROMMapper[I][J] = 255 THEN cartMap[I][5].kind = "sram"
           ELSE cartMap[I][J+2] = Rom(I, ROMMapper[I][J])

(* The two halves of a 16kB bank are successive pages of the ROM.          *)
WholeBanks ==
  \A I \in Carts : Banks(I) > 1 /\ cart[I].type \in {1, 5} =>
    \A k \in {2, 4} : cartMap[I][k+1] = [cartMap[I][k] EXCEPT !.page = @ + 1]

(* The cartridge a unit of memory was last loaded with, and the pages it   *)
(* holds: a buffer is filled up with a mirror of the last pages, flash is  *)
(* not.                                                                    *)
Loaded(unit) == IF unit # Flash THEN unit ELSE IF cart[1].size > 4 THEN 1 ELSE 0
Held(unit) == IF unit = Flash THEN cart[Loaded(unit)].size
              ELSE Pow2(cart[unit].size)

(* A cartridge shows its own ROM and nothing past its end.                 *)
OwnImage ==
  \A I \in Carts, k \in Views :
    LET b == cartMap[I][k] IN
    b.kind = "rom" => Loaded(b.unit) = I /\ b.page < Held(b.unit)

=============================================================================
