------------------------- MODULE MemorySlotsProofs -------------------------
(***************************************************************************)
(* What holds of the memory slots for every pair of cartridges and every   *)
(* program: the types, the slot registers, and, for the mappers that look  *)
(* which slot is shown or that only switch the page they are written in,   *)
(* that the Z80 sees what its registers select and stores only into RAM.   *)
(***************************************************************************)
EXTENDS MemorySlots, TLAPS

(***************************************************************************)
(* Operators.                                                              *)
(***************************************************************************)
LEMMA Pow2Range ==
  ASSUME NEW n \in 1..128
  PROVE  Pow2(n) \in {1, 2, 4, 8, 16, 32, 64, 128} /\ Pow2(n) >= n
<1>1. \E p \in {1, 2, 4, 8, 16, 32, 64, 128} : p >= n /\ p < 2 * n
  <2>1. CASE n <= 8
    BY <2>1
  <2>2. CASE n > 8
    BY <2>2
  <2>3. QED
    BY <2>1, <2>2
<1>2. QED
  BY <1>1 DEF Pow2

LEMMA BanksRange ==
  ASSUME NEW I \in Carts, cart \in Setups
  PROVE  Banks(I) \in Nat /\ 0 < Banks(I) /\ Banks(I) <= 128
<1>1. cart[I].size \in 0..128
  BY SetupAssumption DEF Cartridge
<1>2. CASE ~cart[I].flat /\ cart[I].size > 4
  <2>1. cart[I].size \in 1..128
    BY <1>1, <1>2
  <2>2. Pow2(cart[I].size) \in {1, 2, 4, 8, 16, 32, 64, 128}
    BY <2>1, Pow2Range
  <2>3. Banks(I) = Pow2(cart[I].size)
    BY <1>2 DEF Banks
  <2>4. QED
    BY <2>2, <2>3
<1>3. CASE ~(~cart[I].flat /\ cart[I].size > 4)
  BY <1>3 DEF Banks
<1>4. QED
  BY <1>2, <1>3

LEMMA BanksPositive ==
  ASSUME NEW I \in Carts, cart \in Setups
  PROVE  Banks(I) \in Nat \ {0}
  BY BanksRange

LEMMA ModNat ==
  ASSUME NEW a \in Int, NEW n \in Nat \ {0}
  PROVE  a % n \in Nat
  OBVIOUS

LEMMA FieldType ==
  ASSUME NEW V \in Nat
  PROVE  Field(V) \in [Pages -> Slots]
<1>1. ASSUME NEW J \in Pages
      PROVE  (V \div <<1, 4, 16, 64>>[J+1]) % 4 \in Slots
  <2>1. CASE J = 0
    BY <2>1 DEF Slots
  <2>2. CASE J = 1
    BY <2>2 DEF Slots
  <2>3. CASE J = 2
    BY <2>3 DEF Slots
  <2>4. CASE J = 3
    BY <2>4 DEF Slots
  <2>5. QED
    BY <2>1, <2>2, <2>3, <2>4 DEF Pages
<1>2. QED
  BY <1>1 DEF Field

LEMMA BlockTypes ==
  /\ Empty \in Block
  /\ \A I \in Carts, p \in Nat : Rom(I, p) \in Block
  /\ \A p \in Nat : Ram(p) \in Block /\ Sram(p) \in Block
  /\ \A p, s \in Slots, k \in Views : System(p, s, k) \in Block
<1>1. Empty \in Block
  BY DEF Empty, Block
<1>2. \A I \in Carts, p \in Nat : Rom(I, p) \in Block
  BY DEF Rom, Block, Carts, Flash
<1>3. \A p \in Nat : Ram(p) \in Block /\ Sram(p) \in Block
  BY DEF Ram, Sram, Block
<1>4. \A p, s \in Slots, k \in Views : System(p, s, k) \in Block
  BY <1>1 DEF System, Block, Slots, Views
<1>5. QED
  BY <1>1, <1>2, <1>3, <1>4

LEMMA HalfPage ==
  ASSUME NEW k \in Views
  PROVE  k \div 2 \in Pages
  BY DEF Views, Pages

LEMMA MapType ==
  ASSUME TypeOK, NEW p \in Slots, NEW s \in Slots, NEW k \in Views
  PROVE  MemMap(p, s, k) \in Block
<1>1. CASE p \in 1..2 /\ s = 0
  BY <1>1 DEF MemMap, TypeOK, Carts
<1>2. CASE p = 3 /\ s = 2
  BY <1>2 DEF MemMap, TypeOK
<1>3. CASE ~(p \in 1..2 /\ s = 0) /\ ~(p = 3 /\ s = 2)
  BY <1>3, BlockTypes DEF MemMap
<1>4. QED
  BY <1>1, <1>2, <1>3

LEMMA BankType ==
  ASSUME NEW I \in Carts, NEW J \in Pages, NEW v \in Nat, NEW w \in 1..2
  PROVE  /\ DOMAIN Bank(I, J, v, w) = J+2 .. J+1+w
         /\ \A k \in DOMAIN Bank(I, J, v, w) : Bank(I, J, v, w)[k] \in Block
  BY BlockTypes DEF Bank, Pages

LEMMA MegaType ==
  ASSUME NEW I \in Carts, cart \in Setups
  PROVE  Mega(I) \in [Pages -> Nat]
<1> DEFINE n == cart[I].size
           P == CASE cart[I].type = 1             -> <<0, 1, Banks(I) - 2, Banks(I) - 1>>
                  [] cart[I].type = 10 /\ I = 0   -> <<0, -1, -2, -3>>
                  [] cart[I].type = 10 /\ I = 1   -> <<0, 1, 2, 3>>
                  [] cart[I].type \notin {1, 10} /\ cart[I].lastFirst
                                                  -> <<n - 2, n - 1, n - 2, n - 1>>
                  [] OTHER                        -> <<0, 1, 2, 3>>
<1>1. Banks(I) \in Nat \ {0} /\ n \in Int /\ cart[I].type \in Types /\ I \in {0, 1}
  BY BanksPositive, SetupAssumption DEF Cartridge, Carts
<1>2. ASSUME NEW J \in Pages PROVE P[J+1] \in Int
  <2>1. CASE cart[I].type = 1
    BY <1>1, <2>1 DEF Pages
  <2>2. CASE cart[I].type = 10
    BY <1>1, <2>2 DEF Pages
  <2>3. CASE cart[I].type \notin {1, 10}
    BY <1>1, <2>3 DEF Pages
  <2>4. QED
    BY <2>1, <2>2, <2>3
<1>3. Mega(I) = [J \in Pages |-> P[J+1] % Banks(I)]
  BY DEF Mega
<1>4. QED
  <2> HIDE DEF P
  <2> QED
    BY <1>1, <1>2, <1>3, ModNat

LEMMA InitCartType ==
  ASSUME NEW I \in Carts, cart \in Setups
  PROVE  InitCart(I) \in [Views -> Block]
<1>1. /\ Banks(I) \in Nat \ {0} /\ cart[I].size \in 0..128
      /\ cart[I].type \in Types /\ I \in {0, 1}
  BY BanksPositive, SetupAssumption DEF Cartridge, Carts
<1> SUFFICES ASSUME NEW k \in Views
             PROVE  InitCart(I)[k] \in Block
  BY DEF InitCart
<1>2. CASE cart[I].size = 0
  BY <1>2, BlockTypes DEF InitCart
<1>3. CASE cart[I].size \in 1..4
  <2>1. k % cart[I].size \in Nat /\ k % 2 \in Nat
    BY <1>3 DEF Views
  <2>2. CASE cart[I].size \in 1..2
    BY <2>1, <2>2, BlockTypes DEF InitCart
  <2>3. CASE cart[I].size \in 3..4
    <3>1. (k % 2) + (IF k < 4 THEN 0 ELSE 2) \in Nat
      BY <2>1
    <3>2. InitCart(I)[k] = Rom(I, (k % 2) + (IF k < 4 THEN 0 ELSE 2))
      BY <2>3 DEF InitCart
    <3>3. QED
      BY <3>1, <3>2, BlockTypes
  <2>4. QED
    BY <1>3, <2>2, <2>3
<1>4. CASE cart[I].size > 4 /\ Banks(I) = 1
  BY <1>1, <1>4, BlockTypes DEF InitCart, Views
<1>5. CASE cart[I].size > 4 /\ Banks(I) > 1
  <2>1. \A J \in Pages : Rom(I, Mega(I)[J]) \in Block
    BY MegaType, BlockTypes
  <2>2. CASE k \in 2..5
    <3>1. InitCart(I)[k] = Rom(I, Mega(I)[k - 2])
      BY <1>1, <1>5, <2>2 DEF InitCart
    <3>2. QED
      BY <2>1, <2>2, <3>1 DEF Pages
  <2>3. CASE k \notin 2..5
    <3>1. InitCart(I)[k] = Outside(I, k)
      BY <1>1, <1>5, <2>3 DEF InitCart
    <3>2. 63 % Banks(I) \in Nat
      BY <1>1
    <3>3. k >= 2 => k - 6 \in Pages
      BY <2>3 DEF Views, Pages
    <3>4. Outside(I, k) \in Block
      BY <2>1, <3>2, <3>3, BlockTypes DEF Outside, Views
    <3>5. QED
      BY <3>1, <3>4
  <2>4. QED
    BY <2>2, <2>3
<1>6. QED
  BY <1>1, <1>2, <1>3, <1>4, <1>5

LEMMA InitType == Init => TypeOK
<1> SUFFICES ASSUME Init PROVE TypeOK
  OBVIOUS
<1>1. \A I \in Carts : Mega(I) \in [Pages -> Nat] /\ InitCart(I) \in [Views -> Block]
  BY MegaType, InitCartType DEF Init
<1>2. RAM \in [Views -> Block]
  BY BlockTypes DEF Init, Slots
<1>3. ramMap \in [Views -> Block]
  <2>1. \A k \in Views : 2 * (3 - (k \div 2)) + (k % 2) \in Nat
    BY DEF Views
  <2>2. QED
    BY <2>1, BlockTypes DEF Init
<1>4. cartMap \in [Carts -> [Views -> Block]]
  BY <1>1 DEF Init
<1>5. ROMMapper \in [Carts -> [Pages -> Nat]]
  BY <1>1 DEF Init
<1>6. RAMMapper \in [Pages -> Nat]
  BY DEF Init, Pages
<1>7. QED
  BY <1>2, <1>3, <1>4, <1>5, <1>6 DEF Init, TypeOK, Slots

-----------------------------------------------------------------------------
(***************************************************************************)
(* Types.                                                                  *)
(***************************************************************************)
LEMMA ShowType ==
  ASSUME TypeOK, NEW I \in Carts, NEW B, NEW S \in SUBSET DOMAIN B,
         \A k \in DOMAIN B : B[k] \in Block,
         ShowBanks(I, B, S)
  PROVE  cartMap' \in [Carts -> [Views -> Block]] /\ RAM' \in [Views -> Block]
<1>1. [k \in Views |-> IF k \in DOMAIN B THEN B[k] ELSE cartMap[I][k]]
        \in [Views -> Block]
  BY DEF TypeOK
<1>2. cartMap' \in [Carts -> [Views -> Block]]
  <2> DEFINE m == [k \in Views |-> IF k \in DOMAIN B THEN B[k] ELSE cartMap[I][k]]
  <2>1. cartMap' = [cartMap EXCEPT ![I] = m] /\ m \in [Views -> Block]
    BY <1>1 DEF ShowBanks
  <2> HIDE DEF m
  <2>2. QED
    BY <2>1 DEF TypeOK
<1>3. RAM' \in [Views -> Block]
  BY DEF ShowBanks, TypeOK
<1>4. QED
  BY <1>2, <1>3

(* A switch of one mapper register keeps the types of all it changes.      *)
LEMMA SwitchType ==
  ASSUME TypeOK, NEW I \in Carts, NEW J \in Pages, NEW v \in Nat,
         NEW B, NEW S \in SUBSET DOMAIN B,
         \A k \in DOMAIN B : B[k] \in Block,
         \/ SwitchBank(I, J, v, B, S)
         \/ ShowBanks(I, B, S) /\ ROMMapper' = [ROMMapper EXCEPT ![I][J] = v]
  PROVE  /\ cartMap' \in [Carts -> [Views -> Block]] /\ RAM' \in [Views -> Block]
         /\ ROMMapper' \in [Carts -> [Pages -> Nat]]
<1>1. CASE UNCHANGED <<cartMap, RAM, ROMMapper>>
  BY <1>1 DEF TypeOK
<1>2. CASE /\ ShowBanks(I, B, S)
           /\ ROMMapper' = [ROMMapper EXCEPT ![I][J] = v]
  <2>1. ROMMapper' \in [Carts -> [Pages -> Nat]]
    BY <1>2 DEF TypeOK
  <2>2. QED
    BY <1>2, <2>1, ShowType
<1>3. QED
  BY <1>1, <1>2 DEF SwitchBank

Switched ==
  /\ cartMap' \in [Carts -> [Views -> Block]] /\ RAM' \in [Views -> Block]
  /\ ROMMapper' \in [Carts -> [Pages -> Nat]]
  /\ SCCOn' \in [Carts -> BOOLEAN]

LEMMA KonamiType ==
  ASSUME TypeOK, NEW I \in Carts, NEW A \in 16*KB .. 48*KB - 1, NEW V \in 0..255,
         Konami(I, A, V)
  PROVE  Switched
<1> DEFINE J == IF cart[I].type = 2 THEN (A - 20*KB) \div (8*KB) ELSE (A - 16*KB) \div (8*KB)
           v == V % Banks(I)
           B == Bank(I, J, v, 1)
<1>1. J \in Pages
  <2>1. CASE cart[I].type = 2
    <3>1. A \in 20*KB .. 44*KB
      BY <2>1 DEF Konami
    <3>2. A \in Int /\ 20480 <= A /\ A <= 45056
      <4>1. 20*KB = 20480 /\ 44*KB = 45056
        BY DEF KB
      <4>2. QED
        BY <3>1, <4>1
    <3>3. (A - 20*KB) \div (8*KB) = (A - 20480) \div 8192
      BY DEF KB
    <3>4. (A - 20480) \div 8192 \in 0..3
      BY <3>2
    <3>5. QED
      BY <2>1, <3>3, <3>4 DEF Pages
  <2>2. CASE cart[I].type # 2
    <3>1. A \in Int /\ 16384 <= A /\ A <= 49151
      BY DEF KB
    <3>2. (A - 16*KB) \div (8*KB) = (A - 16384) \div 8192
      BY DEF KB
    <3>3. (A - 16384) \div 8192 \in 0..3
      BY <3>1
    <3>4. QED
      BY <2>2, <3>2, <3>3 DEF Pages
  <2>3. QED
    BY <2>1, <2>2
<1>2. v \in Nat
  BY BanksPositive, ModNat DEF TypeOK
<1>3. SwitchBank(I, J, v, B, DOMAIN B)
  BY DEF Konami
<1>4. SCCOn' \in [Carts -> BOOLEAN]
  BY DEF Konami, SwitchSCC, TypeOK
<1>5. \A k \in DOMAIN B : B[k] \in Block
  <2> HIDE DEF J, v
  <2>1. 1 \in 1..2
    OBVIOUS
  <2>2. QED
    BY <1>1, <1>2, <2>1, BankType
<1>6. QED
  <2> HIDE DEF J, v, B
  <2> QED
    BY <1>1, <1>2, <1>3, <1>4, <1>5, SwitchType DEF Switched

LEMMA Generic16Type ==
  ASSUME TypeOK, NEW I \in Carts, NEW A \in 16*KB .. 48*KB - 1, NEW V \in 0..255,
         Generic16(I, A, V)
  PROVE  Switched
<1> DEFINE J == 2 * (A \div (32*KB))
           v == (2*V) % Banks(I)
           first == IF J = 0 THEN Rom(I, v) ELSE RAM[2]
           B == [k \in {J+2, J+3} |->
                   IF k = J+2 THEN Rom(I, v) ELSE [first EXCEPT !.page = @ + 1]]
<1>1. J \in Pages
  BY DEF KB, Pages
<1>2. v \in Nat
  BY BanksPositive, ModNat DEF TypeOK
<1>3. SwitchBank(I, J, v, B, DOMAIN B) /\ UNCHANGED SCCOn
  BY DEF Generic16
<1>4. \A k \in DOMAIN B : B[k] \in Block
  <2> HIDE DEF J, v
  <2>1. Rom(I, v) \in Block /\ first \in Block
    BY <1>2, BlockTypes DEF TypeOK, Views
  <2>2. [first EXCEPT !.page = @ + 1] \in Block
    <3> HIDE DEF first
    <3> QED
      BY <2>1 DEF Block
  <2>3. QED
    BY <2>1, <2>2
<1>5. QED
  <2> HIDE DEF J, v, B
  <2> QED
    BY <1>1, <1>2, <1>3, <1>4, SwitchType DEF Switched, TypeOK

LEMMA AsciiType ==
  ASSUME TypeOK, NEW I \in Carts, NEW A \in 16*KB .. 48*KB - 1, NEW V \in 0..255,
         Ascii(I, A, V)
  PROVE  Switched
<1> DEFINE J == IF cart[I].type = 4 THEN (A \div (2*KB)) % 4 ELSE 2 * ((A \div (4*KB)) % 2)
           v == (IF cart[I].type = 4 THEN V ELSE 2*V) % Banks(I)
           B == Bank(I, J, v, IF cart[I].type = 4 THEN 1 ELSE 2)
<1>1. J \in Pages
  BY DEF KB, Pages
<1>2. v \in Nat
  <2>1. (IF cart[I].type = 4 THEN V ELSE 2*V) \in Int
    OBVIOUS
  <2>2. QED
    BY <2>1, BanksPositive, ModNat DEF TypeOK
<1>3. SwitchBank(I, J, v, B, InSight(I, B)) /\ UNCHANGED SCCOn
  BY DEF Ascii
<1>4. \A k \in DOMAIN B : B[k] \in Block
  <2> HIDE DEF J, v
  <2> QED
    BY <1>1, <1>2, BankType
<1>5. InSight(I, B) \in SUBSET DOMAIN B
  BY DEF InSight
<1>6. SCCOn' \in [Carts -> BOOLEAN]
  BY <1>3 DEF TypeOK
<1>7. QED
  <2> HIDE DEF J, v, B
  <2> QED
    BY <1>1, <1>2, <1>3, <1>4, <1>5, <1>6, SwitchType DEF Switched

LEMMA GameMaster2Type ==
  ASSUME TypeOK, NEW I \in Carts, NEW A \in 16*KB .. 48*KB - 1, NEW V \in 0..255,
         GameMaster2(I, A, V)
  PROVE  Switched
<1> DEFINE J == (A - 16*KB) \div (8*KB)
           B == [k \in {5} |-> Sram((V \div 32) % 2)]
           v == V % Banks(I)
           P == Bank(I, J, v, 1)
<1>1. J \in Pages
  <2>1. (A - 16384) \div 8192 \in 0..3
    BY DEF KB
  <2>2. J = (A - 16384) \div 8192
    BY DEF KB
  <2>3. QED
    BY <2>1, <2>2 DEF Pages
<1>2. v \in Nat
  BY BanksPositive, ModNat DEF TypeOK
<1>3. SCCOn' \in [Carts -> BOOLEAN]
  BY DEF GameMaster2, TypeOK
<1>4. CASE (V \div 16) % 2 = 1
  <2>1. ShowBanks(I, B, {5}) /\ ROMMapper' = [ROMMapper EXCEPT ![I][3] = 255]
    BY <1>4 DEF GameMaster2
  <2>2. \A k \in DOMAIN B : B[k] \in Block
    <3>1. (V \div 32) % 2 \in Nat
      OBVIOUS
    <3>2. QED
      BY <3>1, BlockTypes
  <2>3. {5} \in SUBSET DOMAIN B
    OBVIOUS
  <2>4. 3 \in Pages /\ 255 \in Nat
    BY DEF Pages
  <2>5. /\ cartMap' \in [Carts -> [Views -> Block]] /\ RAM' \in [Views -> Block]
        /\ ROMMapper' \in [Carts -> [Pages -> Nat]]
    <3> HIDE DEF B
    <3> DEFINE S == {5}
               j == 3
               b == 255
    <3>1. /\ ShowBanks(I, B, S) /\ ROMMapper' = [ROMMapper EXCEPT ![I][j] = b]
          /\ S \in SUBSET DOMAIN B /\ j \in Pages /\ b \in Nat
      BY <2>1, <2>3, <2>4
    <3> HIDE DEF S, j, b
    <3>2. QED
      BY <2>2, <3>1, SwitchType
  <2>6. QED
    BY <1>3, <2>5 DEF Switched
<1>5. CASE (V \div 16) % 2 # 1
  <2>1. SwitchBank(I, J, v, P, DOMAIN P)
    BY <1>5 DEF GameMaster2
  <2>2. \A k \in DOMAIN P : P[k] \in Block
    <3> HIDE DEF J, v
    <3>1. 1 \in 1..2
      OBVIOUS
    <3>2. QED
      BY <1>1, <1>2, <3>1, BankType
  <2>3. QED
    <3> HIDE DEF J, v, P
    <3> QED
      BY <1>1, <1>2, <1>3, <2>1, <2>2, SwitchType DEF Switched
<1>6. QED
  BY <1>4, <1>5

LEMMA Zemina126Type ==
  ASSUME TypeOK, NEW I \in Carts, NEW A \in 16*KB .. 48*KB - 1, NEW V \in 0..255,
         Zemina126(I, A, V)
  PROVE  Switched
<1> DEFINE J == IF A = 24*KB THEN 0 ELSE 1
           v == (2*V) % Banks(I)
           B == Bank(I, 2*J, v, 2)
<1>1. J \in Pages /\ 2*J \in Pages /\ 2 \in 1..2
  BY DEF Pages
<1>2. v \in Nat
  BY BanksPositive, ModNat DEF TypeOK
<1>3. /\ ShowBanks(I, B, DOMAIN B)
      /\ ROMMapper' = [ROMMapper EXCEPT ![I][J] = v]
      /\ UNCHANGED SCCOn
  BY DEF Zemina126
<1>4. \A k \in DOMAIN B : B[k] \in Block
  <2> HIDE DEF J, v
  <2> QED
    BY <1>1, <1>2, BankType
<1>5. SCCOn' \in [Carts -> BOOLEAN]
  BY <1>3 DEF TypeOK
<1>6. QED
  <2> HIDE DEF J, v, B
  <2> QED
    BY <1>1, <1>2, <1>3, <1>4, <1>5, SwitchType DEF Switched

LEMMA Zemina64Type ==
  ASSUME TypeOK, NEW I \in Carts, NEW A \in 16*KB .. 48*KB - 1, NEW V \in 0..255,
         Zemina64(I, A, V)
  PROVE  Switched
<1> DEFINE J == A % 4
           v == V % Banks(I)
           B == Bank(I, J, v, 1)
<1>1. J \in Pages /\ 1 \in 1..2
  BY DEF Pages, KB
<1>2. v \in Nat
  BY BanksPositive, ModNat DEF TypeOK
<1>3. /\ ShowBanks(I, B, DOMAIN B)
      /\ ROMMapper' = [ROMMapper EXCEPT ![I][J] = v]
      /\ UNCHANGED SCCOn
  BY DEF Zemina64
<1>4. \A k \in DOMAIN B : B[k] \in Block
  <2> HIDE DEF J, v
  <2> QED
    BY <1>1, <1>2, BankType
<1>5. SCCOn' \in [Carts -> BOOLEAN]
  BY <1>3 DEF TypeOK
<1>6. QED
  <2> HIDE DEF J, v, B
  <2> QED
    BY <1>1, <1>2, <1>3, <1>4, <1>5, SwitchType DEF Switched

LEMMA Zemina25Type ==
  ASSUME TypeOK, NEW I \in Carts, NEW V \in 0..255, Zemina25(I, V)
  PROVE  Switched
<1> DEFINE base == (V % 64) % Banks(I)
           page == [J \in Pages |-> (base - J) % Banks(I)]
           B == [k \in Views |-> IF k < 2 THEN Rom(I, 63 % Banks(I))
                                 ELSE Rom(I, page[(k - 2) % 4])]
           S == InSight(I, [k \in 2..5 |-> B[k]])
<1>1. Banks(I) \in Nat \ {0}
  BY BanksPositive DEF TypeOK
<1>2. page \in [Pages -> Nat]
  <2>1. base \in Nat
    <3>1. V % 64 \in Int
      OBVIOUS
    <3>2. QED
      BY <1>1, <3>1, ModNat
  <2>2. \A J \in Pages : (base - J) % Banks(I) \in Nat
    <3> HIDE DEF base
    <3> QED
      BY <1>1, <2>1, ModNat DEF Pages
  <2>3. QED
    BY <2>2
<1>3. /\ ShowBanks(I, B, S)
      /\ ROMMapper' = [ROMMapper EXCEPT ![I] = page]
      /\ UNCHANGED SCCOn
  BY DEF Zemina25
<1>4. \A k \in DOMAIN B : B[k] \in Block
  <2> HIDE DEF page
  <2>1. \A k \in Views : (k - 2) % 4 \in Pages
    BY DEF Views, Pages
  <2>2. 63 % Banks(I) \in Nat
    BY <1>1
  <2>3. QED
    BY <1>2, <2>1, <2>2, BlockTypes
<1>5. S \in SUBSET DOMAIN B
  BY DEF InSight, Views
<1>6. SCCOn' \in [Carts -> BOOLEAN]
  BY <1>3 DEF TypeOK
<1>7. ROMMapper' \in [Carts -> [Pages -> Nat]]
  <2> HIDE DEF page
  <2> QED
    BY <1>2, <1>3 DEF TypeOK
<1>8. QED
  <2> HIDE DEF B, S
  <2> QED
    BY <1>3, <1>4, <1>5, <1>6, <1>7, ShowType DEF Switched

LEMMA Zemina90Blocks ==
  ASSUME TypeOK, NEW I \in Carts, NEW V \in 0..255, Zemina90(I, V)
  PROVE  \E B : /\ DOMAIN B = 2..5
                /\ \A k \in DOMAIN B : B[k] \in Block
                /\ ShowBanks(I, B, InSight(I, B))
<1> DEFINE base == (2 * (V % 64)) % Banks(I)
           mode == V \div 64
           low == base - 2 * ((base \div 2) % 2)
           p == [k \in 2..5 |->
                   CASE mode < 2 -> base + (k % 2)
                     [] mode = 2 -> low + k - 2
                     [] mode = 3 -> base + <<0, 1, 1, 0>>[k - 1]]
           B == [k \in 2..5 |-> Rom(I,
                   CASE mode < 2 -> base + (k % 2)
                     [] mode = 2 -> low + k - 2
                     [] mode = 3 -> base + <<0, 1, 1, 0>>[k - 1])]
<1>1. base \in Nat
  <2>1. 2 * (V % 64) \in Int
    OBVIOUS
  <2>2. QED
    BY <2>1, BanksPositive, ModNat DEF TypeOK
<1>2. mode \in 0..3
  OBVIOUS
<1>3. \A k \in 2..5 : p[k] \in Nat
  <2> HIDE DEF base, mode
  <2>1. low \in Nat
    BY <1>1
  <2>2. \A k \in 2..5 : <<0, 1, 1, 0>>[k - 1] \in Nat
    OBVIOUS
  <2> HIDE DEF low
  <2>3. ASSUME NEW k \in 2..5 PROVE p[k] \in Nat
    <3>1. k % 2 \in Nat
      OBVIOUS
    <3>2. CASE mode < 2
      BY <1>1, <1>2, <3>1, <3>2
    <3>3. CASE mode = 2
      BY <2>1, <3>3
    <3>4. CASE mode = 3
      BY <1>1, <2>2, <3>4
    <3>5. QED
      BY <1>2, <3>2, <3>3, <3>4
  <2>4. QED
    BY <2>3
<1>4. \A k \in 2..5 : B[k] = Rom(I, p[k])
  OBVIOUS
<1>5. ShowBanks(I, B, InSight(I, B))
  BY DEF Zemina90
<1>6. DOMAIN B = 2..5
  OBVIOUS
<1>7. QED
  <2> HIDE DEF p, B
  <2> QED
    BY <1>3, <1>4, <1>5, <1>6, BlockTypes

LEMMA MapROMType ==
  ASSUME TypeOK, NEW I \in Carts, NEW A \in Addresses, NEW V \in Data,
         MapROM(I, A, V)
  PROVE  TypeOK'
<1>1. A \in 16*KB .. 48*KB - 1 /\ V \in 0..255
  BY InputAssumption DEF MapROM
<1>2. ASSUME SCCOn' = [SCCOn EXCEPT ![I] = (V = 63)],
             UNCHANGED <<cartMap, ROMMapper, RAM>>
      PROVE  Switched
  <2>1. SCCOn' \in [Carts -> BOOLEAN]
    BY <1>2 DEF TypeOK
  <2>2. QED
    BY <1>2, <2>1 DEF TypeOK, Switched
<1>3. ASSUME \/ Konami(I, A, V) \/ Generic16(I, A, V) \/ Ascii(I, A, V)
             \/ GameMaster2(I, A, V) \/ Zemina126(I, A, V) \/ Zemina64(I, A, V)
             \/ Zemina25(I, V)
      PROVE  Switched
  <2>1. CASE Konami(I, A, V)
    BY <1>1, <2>1, KonamiType
  <2>2. CASE Generic16(I, A, V)
    BY <1>1, <2>2, Generic16Type
  <2>3. CASE Ascii(I, A, V)
    BY <1>1, <2>3, AsciiType
  <2>4. CASE GameMaster2(I, A, V)
    BY <1>1, <2>4, GameMaster2Type
  <2>5. CASE Zemina126(I, A, V)
    BY <1>1, <2>5, Zemina126Type
  <2>6. CASE Zemina64(I, A, V)
    BY <1>1, <2>6, Zemina64Type
  <2>7. CASE Zemina25(I, V)
    BY <1>1, <2>7, Zemina25Type
  <2>8. QED
    BY <1>3, <2>1, <2>2, <2>3, <2>4, <2>5, <2>6, <2>7
<1>4. Switched
  BY <1>2, <1>3 DEF MapROM, TypeOK, Switched
<1>5. QED
  BY <1>4 DEF MapROM, Switched, TypeOK, slotVars, ramVars

LEMMA WritePPIType ==
  ASSUME TypeOK, WritePPI, ppiR0' \in 0..255, ppiAIn' \in BOOLEAN
  PROVE  TypeOK'
<1> DEFINE V == Rout0(ppiAIn', ppiR0')
           slot == Field(V)
           sub == [J \in Pages |-> IF slot[J] = 3 THEN SSL[J] ELSE 0]
<1>1. V \in 0..255
  BY DEF Rout0
<1>2. slot \in [Pages -> Slots]
  <2> HIDE DEF V
  <2> QED
    BY <1>1, FieldType
<1>3. sub \in [Pages -> Slots]
  <2> HIDE DEF slot
  <2> QED
    BY <1>2 DEF TypeOK, Slots
<1>4. CASE UNCHANGED <<PSL, PSLReg, EnWrite, RAM>>
  BY <1>4 DEF WritePPI, cartVars, ramVars, TypeOK
<1>5. CASE /\ PSLReg' = V
           /\ PSL' = slot
           /\ EnWrite' = [J \in Pages |-> sub[J] = 2 /\ ramMap[2*J] # Empty]
           /\ RAM' = [k \in Views |-> MemMap(slot[k \div 2], sub[k \div 2], k)]
  <2>1. RAM' \in [Views -> Block]
    <3> HIDE DEF slot, sub
    <3>1. \A k \in Views : MemMap(slot[k \div 2], sub[k \div 2], k) \in Block
      BY <1>2, <1>3, HalfPage, MapType
    <3>2. QED
      BY <1>5, <3>1
  <2>2. EnWrite' \in [Pages -> BOOLEAN]
    BY <1>5
  <2>3. QED
    <3> HIDE DEF V, slot, sub
    <3> QED
      BY <1>1, <1>2, <1>5, <2>1, <2>2 DEF WritePPI, cartVars, ramVars, TypeOK
<1>6. QED
  BY <1>4, <1>5 DEF WritePPI

LEMMA SSlotType ==
  ASSUME TypeOK, NEW V \in SubslotValues, SSlot(V)
  PROVE  TypeOK'
<1>1. V \in 0..255 /\ Field(V) \in [Pages -> Slots]
  BY InputAssumption, FieldType
<1>2. EnWrite' \in [Pages -> BOOLEAN]
  <2> DEFINE w == [J \in Pages |-> IF PSL[J] = 3
                                   THEN Field(V)[J] = 2 /\ ramMap[2*J] # Empty
                                   ELSE EnWrite[J]]
  <2>1. \A J \in Pages : w[J] \in BOOLEAN
    BY DEF TypeOK
  <2>2. EnWrite' = w
    BY DEF SSlot
  <2>3. QED
    BY <2>1, <2>2
<1>3. RAM' \in [Views -> Block]
  <2>1. \A k \in Views : MemMap(3, Field(V)[k \div 2], k) \in Block
    BY <1>1, HalfPage, MapType DEF Slots
  <2>2. QED
    BY <2>1 DEF SSlot, TypeOK
<1>4. QED
  BY <1>1, <1>2, <1>3 DEF SSlot, TypeOK, cartVars, ramVars

LEMMA MapRAMType ==
  ASSUME TypeOK, NEW J \in MapperPages, NEW V \in Data, MapRAM(J, V)
  PROVE  TypeOK'
<1> DEFINE v == V % RamPages
           B == [k \in {2*J, 2*J + 1} |-> Ram(2*v + (k % 2))]
<1>1. J \in Pages /\ V \in 0..255
  BY InputAssumption
<1>2. v \in Nat
  BY <1>1, RamAssumption, ModNat
<1>3. \A k \in Views : k \div 2 = J => B[k] \in Block
  <2> HIDE DEF v
  <2>1. SUFFICES ASSUME NEW k \in Views, k \div 2 = J PROVE B[k] \in Block
    OBVIOUS
  <2>2. k \in {2*J, 2*J + 1} /\ 2*v + (k % 2) \in Nat
    BY <1>1, <1>2, <2>1 DEF Views, Pages
  <2>3. QED
    BY <2>2, BlockTypes
<1>4. ramMap' = [k \in Views |-> IF k \div 2 = J THEN B[k] ELSE ramMap[k]]
  BY DEF MapRAM
<1>5. RAM' = [k \in Views |-> IF k \div 2 = J /\ PSL[J] = 3 /\ SSL[J] = 2
                              THEN B[k] ELSE RAM[k]]
  BY DEF MapRAM
<1>6. ramMap' \in [Views -> Block] /\ RAM' \in [Views -> Block]
  <2> HIDE DEF B
  <2> QED
    BY <1>3, <1>4, <1>5 DEF TypeOK
<1>7. RAMMapper' \in [Pages -> Nat]
  <2>1. RAMMapper' = [RAMMapper EXCEPT ![J] = v]
    BY DEF MapRAM
  <2> HIDE DEF v
  <2>2. QED
    BY <1>1, <1>2, <2>1 DEF TypeOK
<1>8. EnWrite' \in [Pages -> BOOLEAN]
  BY <1>1 DEF MapRAM, TypeOK
<1>9. QED
  BY <1>6, <1>7, <1>8 DEF MapRAM, TypeOK, slotVars, cartVars

LEMMA Zemina90Type ==
  ASSUME TypeOK, NEW I \in Carts, NEW V \in Data, Zemina90(I, V)
  PROVE  TypeOK'
<1>1. V \in 0..255
  BY InputAssumption
<1>2. PICK B : /\ DOMAIN B = 2..5
               /\ \A k \in DOMAIN B : B[k] \in Block
               /\ ShowBanks(I, B, InSight(I, B))
  BY <1>1, Zemina90Blocks
<1>3. InSight(I, B) \in SUBSET DOMAIN B
  BY DEF InSight
<1>4. cartMap' \in [Carts -> [Views -> Block]] /\ RAM' \in [Views -> Block]
  BY <1>2, <1>3, ShowType
<1>5. QED
  BY <1>4 DEF Zemina90, TypeOK, slotVars, ramVars

(* Every program, whatever cartridges are in, stays within the types.      *)
THEOREM TypeCorrect == Spec => []TypeOK
<1>1. ASSUME TypeOK, [Next]_vars
      PROVE  TypeOK'
  <2>1. CASE WriteSlots
    BY <1>1, <2>1, WritePPIType, InputAssumption DEF WriteSlots, TypeOK
  <2>2. CASE WriteControl
    BY <1>1, <2>2, WritePPIType DEF WriteControl, TypeOK
  <2>3. ASSUME NEW V \in SubslotValues, SSlot(V) PROVE TypeOK'
    BY <1>1, <2>3, SSlotType
  <2>4. ASSUME NEW J \in MapperPages, NEW V \in Data, MapRAM(J, V) PROVE TypeOK'
    BY <1>1, <2>4, MapRAMType
  <2>5. ASSUME NEW I \in Carts, NEW A \in Addresses, NEW V \in Data, MapROM(I, A, V)
        PROVE  TypeOK'
    BY <1>1, <2>5, MapROMType
  <2>6. ASSUME NEW I \in Carts, NEW V \in Data, Zemina90(I, V) PROVE TypeOK'
    BY <1>1, <2>6, Zemina90Type
  <2>7. CASE UNCHANGED vars
    BY <1>1, <2>7 DEF vars, slotVars, cartVars, ramVars, TypeOK
  <2>8. QED
    BY <1>1, <2>1, <2>2, <2>3, <2>4, <2>5, <2>6, <2>7 DEF Next
<1>2. QED
  BY <1>1, InitType, PTL DEF Spec

-----------------------------------------------------------------------------
(***************************************************************************)
(* The slot registers.                                                     *)
(***************************************************************************)

(* Whatever the program and the cartridges, the slots in force are the     *)
(* ones a program reads back: the early returns on PSLReg and SSLReg never *)
(* skip a change.                                                          *)
THEOREM RegistersAgree == Spec => []RegistersShown
<1>1. Init => RegistersShown
  <2> SUFFICES ASSUME Init PROVE RegistersShown
    OBVIOUS
  <2>1. \A J \in Pages : (0 \div <<1, 4, 16, 64>>[J+1]) % 4 = 0
    BY DEF Pages
  <2>2. Field(0) = [J \in Pages |-> 0]
    BY <2>1 DEF Field
  <2>3. QED
    BY <2>2 DEF Init, RegistersShown, Rout0
<1>2. ASSUME RegistersShown, [Next]_vars
      PROVE  RegistersShown'
  <2>1. ASSUME WritePPI PROVE RegistersShown'
    BY <1>2, <2>1 DEF WritePPI, RegistersShown
  <2>2. CASE WriteSlots \/ WriteControl
    BY <2>1, <2>2 DEF WriteSlots, WriteControl
  <2>3. ASSUME NEW V \in SubslotValues, SSlot(V) PROVE RegistersShown'
    BY <1>2, <2>3 DEF SSlot, RegistersShown
  <2>4. CASE UNCHANGED slotVars
    BY <1>2, <2>4 DEF slotVars, RegistersShown
  <2>5. QED
    BY <1>2, <2>2, <2>3, <2>4 DEF Next, MapRAM, MapROM, Zemina90, vars
<1>3. QED
  BY <1>1, <1>2, PTL DEF Spec

-----------------------------------------------------------------------------
(***************************************************************************)
(* What the Z80 sees.  The GameMaster2, the 126-in-1, the 64-in-1 and the  *)
(* 25-in-1 update pointers of pages without asking what they show, or do   *)
(* not update pages they should: nothing is claimed of them.               *)
(***************************************************************************)
SafeTypes == {0, 1, 2, 3, 4, 5, 8}

SafeSetups ==
  \A s \in Setups, I \in Carts :
    s[I].type \in SafeTypes \/ s[I].size <= 4 \/ s[I].flat

RamOnly == \A k \in Views : ramMap[k].kind = "ram"
EnWriteExact == \A J \in Pages : EnWrite[J] <=> Subslot(J) = 2
ViewInv == View /\ EnWriteExact /\ RamOnly

LEMMA SubslotTwo ==
  ASSUME NEW J \in Pages
  PROVE  Subslot(J) = 2 <=> PSL[J] = 3 /\ SSL[J] = 2
  BY DEF Subslot

LEMMA RamNotEmpty ==
  ASSUME RamOnly, NEW J \in Pages
  PROVE  ramMap[2*J] # Empty
<1>1. 2*J \in Views
  BY DEF Pages, Views
<1>2. ramMap[2*J].kind = "ram" /\ Empty.kind = "empty"
  BY <1>1 DEF RamOnly, Empty
<1>3. QED
  BY <1>2

LEMMA ProtectFollows == ViewInv => WriteProtect
<1> SUFFICES ASSUME ViewInv, NEW k \in Views
             PROVE  /\ EnWrite[k \div 2] => RAM[k].kind = "ram"
                    /\ EnWrite[k \div 2] <=> Subslot(k \div 2) = 2
  BY DEF WriteProtect
<1>1. EnWrite[k \div 2] <=> Subslot(k \div 2) = 2
  BY HalfPage DEF ViewInv, EnWriteExact
<1>2. ASSUME Subslot(k \div 2) = 2 PROVE RAM[k].kind = "ram"
  <2>1. PSL[k \div 2] = 3
    BY <1>2, HalfPage, SubslotTwo
  <2>2. RAM[k] = MemMap(3, 2, k)
    BY <1>2, <2>1 DEF ViewInv, View
  <2>3. MemMap(3, 2, k) = ramMap[k]
    BY DEF MemMap
  <2>4. QED
    BY <2>2, <2>3 DEF ViewInv, RamOnly
<1>3. QED
  BY <1>1, <1>2

(* A bank switch keeps the view if it updates just the pointers in sight.  *)
LEMMA ShowView ==
  ASSUME TypeOK, View, NEW I \in Carts, NEW B, NEW S \in SUBSET DOMAIN B,
         \A k \in DOMAIN B \cap Views : k \in S <=> PSL[k \div 2] = I + 1,
         ShowBanks(I, B, S), UNCHANGED <<PSL, SSL, ramMap>>
  PROVE  View'
<1> SUFFICES ASSUME NEW k \in Views
             PROVE  RAM'[k] = MemMap(PSL[k \div 2], Subslot(k \div 2), k)'
  BY DEF View
<1> DEFINE p == PSL[k \div 2]
           q == Subslot(k \div 2)
<1>1. p' = p /\ q' = q /\ p \in Slots
  BY HalfPage DEF TypeOK, Subslot
<1>2. RAM[k] = MemMap(p, q, k)
  BY DEF View
<1>3. RAM'[k] = IF k \in S THEN B[k] ELSE RAM[k]
  BY DEF ShowBanks
<1>4. /\ cartMap'[I][k] = IF k \in DOMAIN B THEN B[k] ELSE cartMap[I][k]
      /\ \A c \in Carts : c # I => cartMap'[c] = cartMap[c]
  BY DEF ShowBanks, TypeOK
<1>5. CASE p = I + 1
  <2>1. p \in 1..2 /\ q = 0 /\ p - 1 = I
    BY <1>5 DEF Carts, Subslot
  <2>2. MemMap(p, q, k) = cartMap[I][k] /\ MemMap(p, q, k)' = cartMap'[I][k]
    BY <1>1, <2>1 DEF MemMap
  <2>3. k \in S <=> k \in DOMAIN B
    BY <1>5
  <2>4. QED
    BY <1>2, <1>3, <1>4, <2>2, <2>3
<1>6. CASE p # I + 1
  <2>1. k \notin S
    BY <1>6
  <2>2. CASE p \in 1..2 /\ q = 0
    <3>1. p - 1 \in Carts /\ p - 1 # I
      BY <1>6, <2>2 DEF Carts
    <3>2. MemMap(p, q, k) = cartMap[p-1][k] /\ MemMap(p, q, k)' = cartMap'[p-1][k]
      BY <1>1, <2>2 DEF MemMap
    <3>3. QED
      BY <1>2, <1>3, <1>4, <2>1, <3>1, <3>2
  <2>3. CASE ~(p \in 1..2 /\ q = 0)
    <3>1. MemMap(p, q, k)' = MemMap(p, q, k)
      BY <1>1, <2>3 DEF MemMap, System, Empty
    <3>2. QED
      BY <1>2, <1>3, <2>1, <3>1
  <2>4. QED
    BY <2>2, <2>3
<1>7. QED
  BY <1>5, <1>6

LEMMA SwitchView ==
  ASSUME TypeOK, View, NEW I \in Carts, NEW J, NEW v, NEW B,
         NEW S \in SUBSET DOMAIN B,
         \A k \in DOMAIN B \cap Views : k \in S <=> PSL[k \div 2] = I + 1,
         SwitchBank(I, J, v, B, S), UNCHANGED <<PSL, SSL, ramMap>>
  PROVE  View'
<1>1. CASE v = ROMMapper[I][J]
  BY <1>1 DEF SwitchBank, View, MemMap, Subslot
<1>2. CASE v # ROMMapper[I][J]
  BY <1>2, ShowView DEF SwitchBank
<1>3. QED
  BY <1>1, <1>2

(* The Konami and the generic mappers switch banks of the very page that   *)
(* was written to, which shows the cartridge.                              *)
LEMMA KonamiView ==
  ASSUME TypeOK, View, NEW I \in Carts, NEW A \in 16*KB .. 48*KB - 1, NEW V \in 0..255,
         PSL[A \div (16*KB)] = I + 1, UNCHANGED <<PSL, SSL, ramMap>>,
         Konami(I, A, V)
  PROVE  View'
<1> DEFINE J == IF cart[I].type = 2 THEN (A - 20*KB) \div (8*KB) ELSE (A - 16*KB) \div (8*KB)
           v == V % Banks(I)
           B == Bank(I, J, v, 1)
<1>1. SwitchBank(I, J, v, B, DOMAIN B)
  BY DEF Konami
<1>2. J \in Int /\ (J + 2) \div 2 = A \div (16*KB)
  <2>1. A \in Int /\ 16384 <= A /\ A <= 49151
    BY DEF KB
  <2>2. CASE cart[I].type = 2
    <3>1. J = (A - 20480) \div 8192 /\ A % 8192 = 4096 /\ A >= 20480
      <4>1. A \in 20*KB .. 44*KB /\ A % (8*KB) = 4*KB
        BY <2>2 DEF Konami
      <4>2. J = (A - 20*KB) \div (8*KB)
        BY <2>2
      <4>3. 20*KB = 20480 /\ 44*KB = 45056 /\ 8*KB = 8192 /\ 4*KB = 4096
        BY DEF KB
      <4>4. QED
        BY <4>1, <4>2, <4>3
    <3>2. ((A - 20480) \div 8192 + 2) \div 2 = A \div 16384
      BY <2>1, <3>1
    <3>3. QED
      BY <2>1, <3>1, <3>2 DEF KB
  <2>3. CASE cart[I].type # 2
    <3>1. J = (A - 16384) \div 8192
      BY <2>3 DEF KB
    <3>2. ((A - 16384) \div 8192 + 2) \div 2 = A \div 16384
      BY <2>1
    <3>3. QED
      BY <2>1, <3>1, <3>2 DEF KB
  <2>4. QED
    BY <2>2, <2>3
<1>3. \A k \in DOMAIN B : PSL[k \div 2] = I + 1
  <2> HIDE DEF J, v
  <2>1. DOMAIN B = J+2 .. J+2
    BY <1>2 DEF Bank
  <2>2. QED
    BY <1>2, <2>1
<1>4. QED
  <2> HIDE DEF J, v, B
  <2> QED
    BY <1>1, <1>3, SwitchView

LEMMA Generic16View ==
  ASSUME TypeOK, View, NEW I \in Carts, NEW A \in 16*KB .. 48*KB - 1, NEW V \in 0..255,
         PSL[A \div (16*KB)] = I + 1, UNCHANGED <<PSL, SSL, ramMap>>,
         Generic16(I, A, V)
  PROVE  View'
<1> DEFINE J == 2 * (A \div (32*KB))
           v == (2*V) % Banks(I)
           first == IF J = 0 THEN Rom(I, v) ELSE RAM[2]
           B == [k \in {J+2, J+3} |->
                   IF k = J+2 THEN Rom(I, v) ELSE [first EXCEPT !.page = @ + 1]]
<1>1. SwitchBank(I, J, v, B, DOMAIN B)
  BY DEF Generic16
<1>2. /\ (J + 2) \div 2 = A \div (16*KB)
      /\ (J + 3) \div 2 = A \div (16*KB)
  <2>1. A \in Int /\ 16384 <= A /\ A <= 49151
    BY DEF KB
  <2>2. J = 2 * (A \div 32768)
    BY DEF KB
  <2>3. /\ (2 * (A \div 32768) + 2) \div 2 = A \div 16384
        /\ (2 * (A \div 32768) + 3) \div 2 = A \div 16384
    BY <2>1
  <2>4. QED
    BY <2>2, <2>3 DEF KB
<1>3. \A k \in DOMAIN B : PSL[k \div 2] = I + 1
  <2> HIDE DEF J, v, first
  <2>1. DOMAIN B = {J+2, J+3}
    OBVIOUS
  <2>2. QED
    BY <1>2, <2>1
<1>4. QED
  <2> HIDE DEF J, v, B
  <2> QED
    BY <1>1, <1>3, SwitchView

(* The ASCII mappers ask what the page they switch shows.                  *)
LEMMA AsciiView ==
  ASSUME TypeOK, View, NEW I \in Carts, NEW A, NEW V,
         UNCHANGED <<PSL, SSL, ramMap>>, Ascii(I, A, V)
  PROVE  View'
<1> DEFINE J == IF cart[I].type = 4 THEN (A \div (2*KB)) % 4 ELSE 2 * ((A \div (4*KB)) % 2)
           v == (IF cart[I].type = 4 THEN V ELSE 2*V) % Banks(I)
           B == Bank(I, J, v, IF cart[I].type = 4 THEN 1 ELSE 2)
<1>1. SwitchBank(I, J, v, B, InSight(I, B))
  BY DEF Ascii
<1>2. /\ InSight(I, B) \in SUBSET DOMAIN B
      /\ \A k \in DOMAIN B \cap Views : k \in InSight(I, B) <=> PSL[k \div 2] = I + 1
  BY DEF InSight
<1>3. QED
  <2> HIDE DEF J, v, B
  <2> QED
    BY <1>1, <1>2, SwitchView

LEMMA MapROMView ==
  ASSUME SafeSetups, TypeOK, ViewInv,
         NEW I \in Carts, NEW A \in Addresses, NEW V \in Data, MapROM(I, A, V)
  PROVE  ViewInv'
<1>1. A \in 16*KB .. 48*KB - 1 /\ V \in 0..255 /\ PSL[A \div (16*KB)] = I + 1
  BY InputAssumption DEF MapROM
<1>2. UNCHANGED <<PSL, SSL, EnWrite, ramMap>>
  BY DEF MapROM, slotVars, ramVars
<1>3. EnWriteExact' /\ RamOnly'
  BY <1>2 DEF ViewInv, EnWriteExact, RamOnly, Subslot
<1>4. View'
  <2>1. CASE UNCHANGED <<cartMap, ROMMapper, RAM>>
    BY <1>2, <2>1 DEF ViewInv, View, MemMap, Subslot
  <2>2. CASE Konami(I, A, V)
    BY <1>1, <1>2, <2>2, KonamiView DEF ViewInv
  <2>3. CASE Generic16(I, A, V)
    BY <1>1, <1>2, <2>3, Generic16View DEF ViewInv
  <2>4. CASE Ascii(I, A, V)
    BY <1>2, <2>4, AsciiView DEF ViewInv
  <2>5. CASE Banks(I) > 1 /\ cart[I].type \in {6, 7, 9, 10}
    <3>1. cart[I].type \in SafeTypes \/ cart[I].size <= 4 \/ cart[I].flat
      BY DEF SafeSetups, TypeOK
    <3>2. ~cart[I].flat /\ cart[I].size > 4
      BY <2>5 DEF Banks
    <3>3. cart[I].size \in Int
      <4>1. cart \in Setups
        BY DEF TypeOK
      <4>2. cart[I] \in Cartridge
        BY <4>1, SetupAssumption
      <4>3. QED
        BY <4>2 DEF Cartridge
    <3>4. QED
      BY <2>5, <3>1, <3>2, <3>3 DEF SafeTypes
  <2>6. QED
    BY <2>1, <2>2, <2>3, <2>4, <2>5
       DEF MapROM, GameMaster2, Zemina126, Zemina64, Zemina25
<1>5. QED
  BY <1>3, <1>4 DEF ViewInv

LEMMA WritePPIView ==
  ASSUME TypeOK, ViewInv, WritePPI
  PROVE  ViewInv'
<1> DEFINE slot == Field(Rout0(ppiAIn', ppiR0'))
           sub == [J \in Pages |-> IF slot[J] = 3 THEN SSL[J] ELSE 0]
<1>1. UNCHANGED <<SSL, cartMap, ramMap>>
  BY DEF WritePPI, cartVars, ramVars
<1>2. RamOnly'
  BY <1>1 DEF ViewInv, RamOnly
<1>3. CASE UNCHANGED <<PSL, PSLReg, EnWrite, RAM>>
  BY <1>1, <1>2, <1>3 DEF ViewInv, View, EnWriteExact, MemMap, Subslot
<1>4. CASE /\ PSL' = slot
           /\ EnWrite' = [J \in Pages |-> sub[J] = 2 /\ ramMap[2*J] # Empty]
           /\ RAM' = [k \in Views |-> MemMap(slot[k \div 2], sub[k \div 2], k)]
  <2>1. \A J \in Pages : Subslot(J)' = sub[J]
    BY <1>1, <1>4 DEF Subslot
  <2>2. EnWriteExact'
    <3> HIDE DEF slot, sub
    <3> QED
      BY <1>4, <2>1, RamNotEmpty DEF ViewInv, EnWriteExact
  <2>3. \A p, q : \A k \in Views : MemMap(p, q, k)' = MemMap(p, q, k)
    BY <1>1 DEF MemMap, System, Empty
  <2>4. View'
    <3>1. SUFFICES ASSUME NEW k \in Views
                   PROVE  RAM'[k] = MemMap(PSL[k \div 2], Subslot(k \div 2), k)'
      BY DEF View
    <3>2. RAM'[k] = MemMap(slot[k \div 2], sub[k \div 2], k)
      BY <1>4
    <3>3. PSL'[k \div 2] = slot[k \div 2] /\ Subslot(k \div 2)' = sub[k \div 2]
      BY <1>4, <2>1, HalfPage
    <3>4. QED
      <4> HIDE DEF slot, sub
      <4> QED
        BY <1>1, <3>2, <3>3 DEF MemMap, System, Empty
  <2>5. QED
    BY <1>2, <2>2, <2>4 DEF ViewInv
<1>5. QED
  BY <1>3, <1>4 DEF WritePPI

LEMMA SSlotView ==
  ASSUME TypeOK, ViewInv, NEW V \in SubslotValues, SSlot(V)
  PROVE  ViewInv'
<1>1. UNCHANGED <<PSL, cartMap, ramMap>> /\ SSL' = Field(V)
  BY DEF SSlot, cartVars, ramVars
<1>2. RamOnly'
  BY <1>1 DEF ViewInv, RamOnly
<1>3. \A J \in Pages : Subslot(J)' = IF PSL[J] = 3 THEN Field(V)[J] ELSE Subslot(J)
  BY <1>1 DEF Subslot
<1>4. EnWriteExact'
  <2>1. SUFFICES ASSUME NEW J \in Pages PROVE EnWrite'[J] <=> Subslot(J)' = 2
    BY DEF EnWriteExact
  <2>2. CASE PSL[J] = 3
    BY <1>3, <2>2, RamNotEmpty DEF SSlot, ViewInv
  <2>3. CASE PSL[J] # 3
    BY <1>3, <2>3 DEF SSlot, ViewInv, EnWriteExact
  <2>4. QED
    BY <2>2, <2>3
<1>5. View'
  <2>1. SUFFICES ASSUME NEW k \in Views
                 PROVE  RAM'[k] = MemMap(PSL[k \div 2], Subslot(k \div 2), k)'
    BY DEF View
  <2>2. RAM'[k] = IF PSL[k \div 2] = 3 THEN MemMap(3, Field(V)[k \div 2], k) ELSE RAM[k]
    BY DEF SSlot
  <2>3. Subslot(k \div 2)' = IF PSL[k \div 2] = 3 THEN Field(V)[k \div 2] ELSE Subslot(k \div 2)
    BY <1>3, HalfPage
  <2>4. RAM[k] = MemMap(PSL[k \div 2], Subslot(k \div 2), k)
    BY DEF ViewInv, View
  <2>5. QED
    BY <1>1, <2>2, <2>3, <2>4 DEF MemMap, System, Empty
<1>6. QED
  BY <1>2, <1>4, <1>5 DEF ViewInv

LEMMA MapRAMView ==
  ASSUME TypeOK, ViewInv, NEW J \in MapperPages, NEW V \in Data, MapRAM(J, V)
  PROVE  ViewInv'
<1> DEFINE v == V % RamPages
           B == [k \in {2*J, 2*J + 1} |-> Ram(2*v + (k % 2))]
           shown == PSL[J] = 3 /\ SSL[J] = 2
<1>1. J \in Pages /\ UNCHANGED <<PSL, SSL, cartMap>>
  BY InputAssumption DEF MapRAM, slotVars, cartVars
<1>2. /\ ramMap' = [k \in Views |-> IF k \div 2 = J THEN B[k] ELSE ramMap[k]]
      /\ RAM' = [k \in Views |-> IF k \div 2 = J /\ shown THEN B[k] ELSE RAM[k]]
      /\ EnWrite' = [EnWrite EXCEPT ![J] = @ \/ shown]
  BY DEF MapRAM
<1>3. RamOnly'
  <2>1. \A k \in Views : k \div 2 = J => B[k].kind = "ram"
    <3> HIDE DEF v
    <3>1. \A k \in Views : k \div 2 = J => k \in {2*J, 2*J + 1}
      BY <1>1 DEF Views, Pages
    <3>2. QED
      BY <3>1 DEF Ram
  <2>2. QED
    <3> HIDE DEF B
    <3> QED
      BY <1>2, <2>1 DEF ViewInv, RamOnly
<1>4. EnWriteExact'
  <2>1. \A j \in Pages : Subslot(j)' = Subslot(j)
    BY <1>1 DEF Subslot
  <2>2. EnWrite[J] <=> shown
    BY <1>1, SubslotTwo DEF ViewInv, EnWriteExact
  <2>3. EnWrite' = EnWrite
    <3> HIDE DEF shown
    <3> QED
      BY <1>2, <2>2 DEF TypeOK
  <2>4. QED
    BY <2>1, <2>3 DEF ViewInv, EnWriteExact
<1>5. View'
  <2>1. SUFFICES ASSUME NEW k \in Views
                 PROVE  RAM'[k] = MemMap(PSL[k \div 2], Subslot(k \div 2), k)'
    BY DEF View
  <2>2. RAM[k] = MemMap(PSL[k \div 2], Subslot(k \div 2), k)
    BY DEF ViewInv, View
  <2>3. Subslot(k \div 2)' = Subslot(k \div 2) /\ PSL'[k \div 2] = PSL[k \div 2]
    BY <1>1 DEF Subslot
  <2>4. CASE PSL[k \div 2] = 3 /\ Subslot(k \div 2) = 2
    <3>1. MemMap(PSL[k \div 2], Subslot(k \div 2), k)' = ramMap'[k]
      BY <2>3, <2>4 DEF MemMap
    <3>2. RAM[k] = ramMap[k]
      BY <2>2, <2>4 DEF MemMap
    <3>3. k \div 2 = J => shown
      BY <1>1, <2>4, SubslotTwo
    <3>4. QED
      <4> HIDE DEF B, shown
      <4> QED
        BY <1>2, <3>1, <3>2, <3>3
  <2>5. CASE ~(PSL[k \div 2] = 3 /\ Subslot(k \div 2) = 2)
    <3>1. MemMap(PSL[k \div 2], Subslot(k \div 2), k)'
            = MemMap(PSL[k \div 2], Subslot(k \div 2), k)
      BY <1>1, <2>3, <2>5 DEF MemMap, System, Empty
    <3>2. ~(k \div 2 = J /\ shown)
      BY <1>1, <2>5, SubslotTwo
    <3>3. QED
      <4> HIDE DEF B, shown
      <4> QED
        BY <1>2, <2>2, <3>1, <3>2
  <2>6. QED
    BY <2>4, <2>5
<1>6. QED
  BY <1>3, <1>4, <1>5 DEF ViewInv

LEMMA Zemina90View ==
  ASSUME TypeOK, ViewInv, NEW I \in Carts, NEW V \in Data, Zemina90(I, V)
  PROVE  ViewInv'
<1>1. V \in 0..255 /\ UNCHANGED <<PSL, SSL, EnWrite, ramMap>>
  BY InputAssumption DEF Zemina90, slotVars, ramVars
<1>2. PICK B : ShowBanks(I, B, InSight(I, B))
  BY <1>1, Zemina90Blocks
<1>3. /\ InSight(I, B) \in SUBSET DOMAIN B
      /\ \A k \in DOMAIN B \cap Views : k \in InSight(I, B) <=> PSL[k \div 2] = I + 1
  BY DEF InSight
<1>4. View'
  BY <1>1, <1>2, <1>3, ShowView DEF ViewInv
<1>5. QED
  BY <1>1, <1>4 DEF ViewInv, EnWriteExact, RamOnly, Subslot

LEMMA InitView == Init => ViewInv
<1> SUFFICES ASSUME Init PROVE ViewInv
  OBVIOUS
<1>1. View
  BY HalfPage DEF Init, View, MemMap, Subslot
<1>2. EnWriteExact
  BY DEF Init, EnWriteExact, Subslot
<1>3. RamOnly
  BY DEF Init, RamOnly, Ram
<1>4. QED
  BY <1>1, <1>2, <1>3 DEF ViewInv

LEMMA NextView ==
  ASSUME SafeSetups, TypeOK, ViewInv, [Next]_vars
  PROVE  ViewInv'
<1>1. CASE WriteSlots \/ WriteControl
  BY <1>1, WritePPIView DEF WriteSlots, WriteControl
<1>2. ASSUME NEW V \in SubslotValues, SSlot(V) PROVE ViewInv'
  BY <1>2, SSlotView
<1>3. ASSUME NEW J \in MapperPages, NEW V \in Data, MapRAM(J, V) PROVE ViewInv'
  BY <1>3, MapRAMView
<1>4. ASSUME NEW I \in Carts, NEW A \in Addresses, NEW V \in Data, MapROM(I, A, V)
      PROVE  ViewInv'
  BY <1>4, MapROMView
<1>5. ASSUME NEW I \in Carts, NEW V \in Data, Zemina90(I, V) PROVE ViewInv'
  BY <1>5, Zemina90View
<1>6. CASE UNCHANGED vars
  BY <1>6 DEF vars, slotVars, cartVars, ramVars, ViewInv, View, EnWriteExact,
              RamOnly, MemMap, Subslot
<1>7. QED
  BY <1>1, <1>2, <1>3, <1>4, <1>5, <1>6 DEF Next

(* With the mappers of SafeTypes the Z80 sees what its registers select,   *)
(* whatever the program does.                                              *)
THEOREM ViewFollows ==
  ASSUME SafeSetups
  PROVE  Spec => []View
<1>1. TypeOK /\ ViewInv /\ [Next]_vars => ViewInv'
  BY NextView
<1>2. ViewInv => View
  BY DEF ViewInv
<1>3. QED
  BY <1>1, <1>2, InitView, TypeCorrect, PTL DEF Spec

(* With the mappers of SafeTypes a store never reaches a ROM, the BIOS or  *)
(* the scratch block.                                                      *)
THEOREM StoresReachRam ==
  ASSUME SafeSetups
  PROVE  Spec => []WriteProtect
<1>1. TypeOK /\ ViewInv /\ [Next]_vars => ViewInv'
  BY NextView
<1>2. QED
  BY <1>1, ProtectFollows, InitView, TypeCorrect, PTL DEF Spec

-----------------------------------------------------------------------------
(***************************************************************************)
(* Banks.  BankShown is inductive by itself: it only needs that the page a *)
(* register holds stays below 255, which stands for SRAM.                  *)
(***************************************************************************)
LEMMA ModBelow ==
  ASSUME NEW a \in Int, NEW n \in Nat, 0 < n, n <= 128
  PROVE  a % n \in Nat /\ a % n < n /\ a % n # 255
<1>1. \A m \in Nat : 0 < m => a % m \in Nat /\ a % m < m
  OBVIOUS
<1>2. a % n \in Nat /\ a % n < n
  BY <1>1
<1>3. QED
  BY <1>2

LEMMA CartSame ==
  ASSUME UNCHANGED cart
  PROVE  \A I \in Carts : /\ Banks(I)' = Banks(I)
                          /\ \A p : Rom(I, p)' = Rom(I, p)
  BY DEF Banks, Rom

(* Which registers the blocks of a switch replace.                         *)
Replaces(I, J, B) ==
  /\ J + 2 \in DOMAIN B
  /\ \/ cart[I].type \in {0, 2, 3, 4, 6} /\ DOMAIN B = {J+2}
     \/ cart[I].type \in {1, 5} /\ J \in {0, 2} /\ DOMAIN B = {J+2, J+3}

(* A switch that shows the page it remembers.                              *)
LEMMA SwitchShown ==
  ASSUME TypeOK, BankShown, UNCHANGED cart, NEW I \in Carts, NEW J \in Pages,
         NEW v \in Nat, v # 255, NEW B, NEW S,
         Replaces(I, J, B), B[J+2] = Rom(I, v), SwitchBank(I, J, v, B, S)
  PROVE  BankShown'
<1>1. CASE v = ROMMapper[I][J]
  <2>1. UNCHANGED <<cartMap, ROMMapper>>
    BY <1>1 DEF SwitchBank
  <2>2. QED
    BY <2>1, CartSame DEF BankShown
<1>2. CASE v # ROMMapper[I][J]
  <2>1. /\ cartMap' = [cartMap EXCEPT
             ![I] = [k \in Views |-> IF k \in DOMAIN B THEN B[k] ELSE cartMap[I][k]]]
        /\ ROMMapper' = [ROMMapper EXCEPT ![I][J] = v]
    BY <1>2 DEF SwitchBank, ShowBanks
  <2>2. ASSUME NEW c \in Carts, c # I
        PROVE  cartMap'[c] = cartMap[c] /\ ROMMapper'[c] = ROMMapper[c]
    BY <2>1, <2>2 DEF TypeOK
  <2>3. ASSUME NEW j \in Pages, j # J
        PROVE  ROMMapper'[I][j] = ROMMapper[I][j]
    BY <2>1, <2>3 DEF TypeOK
  <2>4. ROMMapper'[I][J] = v /\ cartMap'[I][J+2] = Rom(I, v)
    BY <2>1 DEF TypeOK, Pages, Views, Replaces
  <2>5. ASSUME NEW j \in Pages, j + 2 \notin DOMAIN B
        PROVE  cartMap'[I][j+2] = cartMap[I][j+2]
    BY <2>1, <2>5 DEF TypeOK, Pages, Views
  <2>6. ASSUME NEW j \in Pages, j # J, cart[I].type \in {1, 5} => j \in {0, 2}
        PROVE  j + 2 \notin DOMAIN B
    BY <2>6 DEF Replaces, Pages
  <2>7. cart[I].type = 6 /\ J = 3 => cartMap'[I][J+2].kind = "rom"
    BY <2>4 DEF Rom
  <2>8. QED
    <3>1. SUFFICES ASSUME NEW c \in Carts, Banks(c) > 1, NEW j \in Pages
                   PROVE  /\ cart[c].type \in {0, 2, 3, 4} =>
                               cartMap'[c][j+2] = Rom(c, ROMMapper'[c][j])
                          /\ cart[c].type \in {1, 5} /\ j \in {0, 2} =>
                               cartMap'[c][j+2] = Rom(c, ROMMapper'[c][j])
                          /\ cart[c].type = 6 =>
                               IF j = 3 /\ ROMMapper'[c][j] = 255
                               THEN cartMap'[c][5].kind = "sram"
                               ELSE cartMap'[c][j+2] = Rom(c, ROMMapper'[c][j])
      BY CartSame DEF BankShown
    <3>2. CASE c # I
      BY <2>2, <3>1, <3>2 DEF BankShown
    <3>3. CASE c = I /\ j = J
      BY <2>4, <3>3
    <3>4. CASE c = I /\ j # J
      <4>1. ROMMapper'[I][j] = ROMMapper[I][j]
        BY <2>3, <3>4
      <4>2. (cart[I].type \in {1, 5} => j \in {0, 2})
              => cartMap'[I][j+2] = cartMap[I][j+2]
        BY <2>5, <2>6, <3>4
      <4>3. j = 3 => j + 2 = 5
        OBVIOUS
      <4>4. QED
        BY <3>1, <3>4, <4>1, <4>2, <4>3 DEF BankShown
    <3>5. QED
      BY <3>2, <3>3, <3>4
<1>3. QED
  BY <1>1, <1>2

LEMMA KonamiShown ==
  ASSUME TypeOK, BankShown, UNCHANGED cart, NEW I \in Carts,
         NEW A \in 16*KB .. 48*KB - 1, NEW V \in 0..255, Konami(I, A, V)
  PROVE  BankShown'
<1> DEFINE J == IF cart[I].type = 2 THEN (A - 20*KB) \div (8*KB) ELSE (A - 16*KB) \div (8*KB)
           v == V % Banks(I)
           B == Bank(I, J, v, 1)
<1>1. J \in Pages
  <2>1. A \in Int /\ 16384 <= A /\ A <= 49151
    BY DEF KB
  <2>2. CASE cart[I].type = 2
    <3>1. A \in 20*KB .. 44*KB /\ J = (A - 20*KB) \div (8*KB)
      BY <2>2 DEF Konami
    <3>2. 20*KB = 20480 /\ 44*KB = 45056 /\ 8*KB = 8192
      BY DEF KB
    <3>3. 20480 <= A /\ A <= 45056 /\ J = (A - 20480) \div 8192
      BY <2>1, <3>1, <3>2
    <3>4. (A - 20480) \div 8192 \in 0..3
      BY <2>1, <3>3
    <3>5. QED
      BY <3>3, <3>4 DEF Pages
  <2>3. CASE cart[I].type # 2
    <3>1. J = (A - 16384) \div 8192
      BY <2>3 DEF KB
    <3>2. (A - 16384) \div 8192 \in 0..3
      BY <2>1
    <3>3. QED
      BY <3>1, <3>2 DEF Pages
  <2>4. QED
    BY <2>2, <2>3
<1>2. v \in Nat /\ v # 255
  <2>1. cart \in Setups /\ V \in Int
    BY DEF TypeOK
  <2>2. QED
    BY <2>1, BanksRange, ModBelow
<1>3. SwitchBank(I, J, v, B, DOMAIN B) /\ cart[I].type \in {0, 2, 3}
  BY DEF Konami
<1>4. DOMAIN B = {J+2} /\ B[J+2] = Rom(I, v)
  <2> HIDE DEF J, v
  <2>1. J+2 .. J+1+1 = {J+2} /\ v + (J+2) - (J+2) = v
    BY <1>1, <1>2 DEF Pages
  <2>2. QED
    BY <2>1 DEF Bank
<1>5. QED
  <2> HIDE DEF J, v, B
  <2>1. Replaces(I, J, B)
    BY <1>3, <1>4 DEF Replaces
  <2>2. QED
    BY <1>1, <1>2, <1>3, <1>4, <2>1, SwitchShown

LEMMA Generic16Shown ==
  ASSUME TypeOK, BankShown, UNCHANGED cart, NEW I \in Carts,
         NEW A \in 16*KB .. 48*KB - 1, NEW V \in 0..255, Generic16(I, A, V)
  PROVE  BankShown'
<1> DEFINE J == 2 * (A \div (32*KB))
           v == (2*V) % Banks(I)
           first == IF J = 0 THEN Rom(I, v) ELSE RAM[2]
           B == [k \in {J+2, J+3} |->
                   IF k = J+2 THEN Rom(I, v) ELSE [first EXCEPT !.page = @ + 1]]
<1>1. J \in {0, 2}
  <2>1. A \in Int /\ 16384 <= A /\ A <= 49151 /\ J = 2 * (A \div 32768)
    BY DEF KB
  <2>2. A \div 32768 \in 0..1
    BY <2>1
  <2>3. QED
    BY <2>1, <2>2
<1>2. v \in Nat /\ v # 255
  <2>1. cart \in Setups /\ 2*V \in Int
    BY DEF TypeOK
  <2>2. QED
    BY <2>1, BanksRange, ModBelow
<1>3. SwitchBank(I, J, v, B, DOMAIN B) /\ cart[I].type = 1
  BY DEF Generic16
<1>4. DOMAIN B = {J+2, J+3} /\ B[J+2] = Rom(I, v)
  <2> HIDE DEF J, v, first
  <2> QED
    OBVIOUS
<1>5. QED
  <2> HIDE DEF J, v, B
  <2>1. Replaces(I, J, B) /\ J \in Pages
    BY <1>1, <1>3, <1>4 DEF Replaces, Pages
  <2>2. QED
    BY <1>2, <1>3, <1>4, <2>1, SwitchShown

LEMMA AsciiShown ==
  ASSUME TypeOK, BankShown, UNCHANGED cart, NEW I \in Carts,
         NEW A \in 16*KB .. 48*KB - 1, NEW V \in 0..255, Ascii(I, A, V)
  PROVE  BankShown'
<1> DEFINE J == IF cart[I].type = 4 THEN (A \div (2*KB)) % 4 ELSE 2 * ((A \div (4*KB)) % 2)
           v == (IF cart[I].type = 4 THEN V ELSE 2*V) % Banks(I)
           w == IF cart[I].type = 4 THEN 1 ELSE 2
           B == Bank(I, J, v, w)
<1>1. J \in Pages /\ (cart[I].type # 4 => J \in {0, 2})
  BY DEF KB, Pages
<1>2. v \in Nat /\ v # 255
  <2>1. cart \in Setups /\ (IF cart[I].type = 4 THEN V ELSE 2*V) \in Int
    BY DEF TypeOK
  <2>2. QED
    BY <2>1, BanksRange, ModBelow
<1>3. SwitchBank(I, J, v, B, InSight(I, B)) /\ cart[I].type \in {4, 5}
  BY DEF Ascii
<1>4. /\ DOMAIN B = IF cart[I].type = 4 THEN {J+2} ELSE {J+2, J+3}
      /\ B[J+2] = Rom(I, v)
  <2> HIDE DEF J, v
  <2>1. /\ J+2 .. J+1+1 = {J+2} /\ J+2 .. J+1+2 = {J+2, J+3}
        /\ v + (J+2) - (J+2) = v
    BY <1>1, <1>2 DEF Pages
  <2>2. QED
    BY <2>1 DEF Bank
<1>5. QED
  <2> HIDE DEF J, v, B
  <2>1. Replaces(I, J, B)
    BY <1>1, <1>3, <1>4 DEF Replaces
  <2>2. QED
    BY <1>1, <1>2, <1>3, <1>4, <2>1, SwitchShown

LEMMA GameMaster2Shown ==
  ASSUME TypeOK, BankShown, UNCHANGED cart, NEW I \in Carts,
         NEW A \in 16*KB .. 48*KB - 1, NEW V \in 0..255, GameMaster2(I, A, V)
  PROVE  BankShown'
<1> DEFINE J == (A - 16*KB) \div (8*KB)
           B == [k \in {5} |-> Sram((V \div 32) % 2)]
           v == V % Banks(I)
           P == Bank(I, J, v, 1)
<1>1. J \in Pages
  <2>1. (A - 16384) \div 8192 \in 0..3
    BY DEF KB
  <2>2. J = (A - 16384) \div 8192
    BY DEF KB
  <2>3. QED
    BY <2>1, <2>2 DEF Pages
<1>2. v \in Nat /\ v # 255
  <2>1. cart \in Setups /\ V \in Int
    BY DEF TypeOK
  <2>2. QED
    BY <2>1, BanksRange, ModBelow
<1>3. CASE (V \div 16) % 2 = 1
  <2>1. /\ cartMap' = [cartMap EXCEPT
             ![I] = [k \in Views |-> IF k = 5 THEN Sram((V \div 32) % 2)
                                     ELSE cartMap[I][k]]]
        /\ ROMMapper' = [ROMMapper EXCEPT ![I][3] = 255]
    <3>1. DOMAIN B = {5} /\ B[5] = Sram((V \div 32) % 2)
      OBVIOUS
    <3>2. ShowBanks(I, B, {5}) /\ ROMMapper' = [ROMMapper EXCEPT ![I][3] = 255]
      BY <1>3 DEF GameMaster2
    <3> HIDE DEF B
    <3>3. QED
      BY <3>1, <3>2 DEF ShowBanks
  <2>2. cart[I].type = 6 /\ 3 \in Pages /\ 5 \in Views
    BY DEF GameMaster2, Pages, Views
  <2>3. ASSUME NEW c \in Carts, c # I
        PROVE  cartMap'[c] = cartMap[c] /\ ROMMapper'[c] = ROMMapper[c]
    BY <2>1, <2>3 DEF TypeOK
  <2>4. /\ ROMMapper'[I][3] = 255 /\ cartMap'[I][5].kind = "sram"
        /\ \A j \in Pages : j # 3 => /\ ROMMapper'[I][j] = ROMMapper[I][j]
                                     /\ cartMap'[I][j+2] = cartMap[I][j+2]
    BY <2>1, <2>2 DEF TypeOK, Pages, Views, Sram
  <2>5. QED
    BY <2>2, <2>3, <2>4, CartSame DEF BankShown
<1>4. CASE (V \div 16) % 2 # 1
  <2>1. SwitchBank(I, J, v, P, DOMAIN P) /\ cart[I].type = 6
    BY <1>4 DEF GameMaster2
  <2>2. DOMAIN P = {J+2} /\ P[J+2] = Rom(I, v)
    <3> HIDE DEF J, v
    <3>1. J+2 .. J+1+1 = {J+2} /\ v + (J+2) - (J+2) = v
      BY <1>1, <1>2 DEF Pages
    <3>2. QED
      BY <3>1 DEF Bank
  <2>3. QED
    <3> HIDE DEF J, v, P
    <3>1. Replaces(I, J, P)
      BY <2>1, <2>2 DEF Replaces
    <3>2. QED
      BY <1>1, <1>2, <2>1, <2>2, <3>1, SwitchShown
<1>5. QED
  BY <1>3, <1>4

(* The mappers of multi-game cartridges remember no bank to skip.          *)
LEMMA OthersShown ==
  ASSUME TypeOK, BankShown, UNCHANGED cart, NEW I \in Carts,
         cart[I].type \notin 0..6,
         \A c \in Carts : c # I => /\ cartMap'[c] = cartMap[c]
                                   /\ ROMMapper'[c] = ROMMapper[c]
  PROVE  BankShown'
<1>1. cart[I].type \notin {0, 2, 3, 4} /\ cart[I].type \notin {1, 5} /\ cart[I].type # 6
  OBVIOUS
<1>2. QED
  BY <1>1, CartSame DEF BankShown

LEMMA MapROMShown ==
  ASSUME TypeOK, BankShown,
         NEW I \in Carts, NEW A \in Addresses, NEW V \in Data, MapROM(I, A, V)
  PROVE  BankShown'
<1>1. A \in 16*KB .. 48*KB - 1 /\ V \in 0..255 /\ UNCHANGED cart
  BY InputAssumption DEF MapROM
<1>2. CASE UNCHANGED <<cartMap, ROMMapper, RAM>>
  BY <1>1, <1>2, CartSame DEF BankShown
<1>3. CASE Konami(I, A, V)
  BY <1>1, <1>3, KonamiShown
<1>4. CASE Generic16(I, A, V)
  BY <1>1, <1>4, Generic16Shown
<1>5. CASE Ascii(I, A, V)
  BY <1>1, <1>5, AsciiShown
<1>6. CASE GameMaster2(I, A, V)
  BY <1>1, <1>6, GameMaster2Shown
<1>7. CASE Zemina126(I, A, V) \/ Zemina64(I, A, V) \/ Zemina25(I, V)
  <2>1. cart[I].type \notin 0..6
    BY <1>7 DEF Zemina126, Zemina64, Zemina25
  <2>2. \A c \in Carts : c # I => /\ cartMap'[c] = cartMap[c]
                                  /\ ROMMapper'[c] = ROMMapper[c]
    BY <1>7 DEF Zemina126, Zemina64, Zemina25, ShowBanks, TypeOK
  <2>3. QED
    BY <1>1, <2>1, <2>2, OthersShown
<1>8. QED
  BY <1>2, <1>3, <1>4, <1>5, <1>6, <1>7 DEF MapROM

LEMMA MegaBelow ==
  ASSUME NEW I \in Carts, cart \in Setups, NEW J \in Pages
  PROVE  Mega(I)[J] \in Nat /\ Mega(I)[J] < Banks(I) /\ Mega(I)[J] # 255
<1> DEFINE n == cart[I].size
           P == CASE cart[I].type = 1             -> <<0, 1, Banks(I) - 2, Banks(I) - 1>>
                  [] cart[I].type = 10 /\ I = 0   -> <<0, -1, -2, -3>>
                  [] cart[I].type = 10 /\ I = 1   -> <<0, 1, 2, 3>>
                  [] cart[I].type \notin {1, 10} /\ cart[I].lastFirst
                                                  -> <<n - 2, n - 1, n - 2, n - 1>>
                  [] OTHER                        -> <<0, 1, 2, 3>>
<1>1. /\ Banks(I) \in Nat /\ n \in Int /\ cart[I].type \in Types /\ I \in {0, 1}
      /\ 0 < Banks(I) /\ Banks(I) <= 128
  BY BanksRange, SetupAssumption DEF Cartridge, Carts
<1>2. P[J+1] \in Int
  <2>1. CASE cart[I].type = 1
    BY <1>1, <2>1 DEF Pages
  <2>2. CASE cart[I].type = 10
    BY <1>1, <2>2 DEF Pages
  <2>3. CASE cart[I].type \notin {1, 10}
    BY <1>1, <2>3 DEF Pages
  <2>4. QED
    BY <2>1, <2>2, <2>3
<1>3. Mega(I)[J] = P[J+1] % Banks(I)
  BY DEF Mega
<1>4. QED
  <2> HIDE DEF P
  <2> QED
    BY <1>1, <1>2, <1>3, ModBelow

LEMMA InitShown == Init => BankShown
<1> SUFFICES ASSUME Init PROVE BankShown
  OBVIOUS
<1>1. ASSUME NEW I \in Carts, Banks(I) > 1, NEW J \in Pages
      PROVE  /\ cartMap[I][J+2] = Rom(I, ROMMapper[I][J])
             /\ ROMMapper[I][J] # 255
  <2>1. ROMMapper[I] = Mega(I) /\ cartMap[I] = InitCart(I)
    BY <1>1 DEF Init
  <2>2. cart[I].size > 4 /\ cart[I].size \in Nat
    <3>1. cart \in Setups
      BY DEF Init
    <3>2. cart[I] \in Cartridge
      BY <3>1, SetupAssumption
    <3>3. QED
      BY <1>1, <3>2 DEF Banks, Cartridge
  <2>3. J + 2 \in 2..5 /\ J + 2 \in Views /\ (J + 2) - 2 = J
    BY DEF Pages, Views
  <2>4. InitCart(I)[J+2] = Rom(I, Mega(I)[J])
    BY <1>1, <2>2, <2>3 DEF InitCart
  <2>5. Mega(I)[J] # 255
    BY MegaBelow DEF Init
  <2>6. QED
    BY <2>1, <2>4, <2>5
<1>2. QED
  BY <1>1 DEF BankShown

LEMMA NextShown ==
  ASSUME TypeOK, BankShown, [Next]_vars
  PROVE  BankShown'
<1>1. CASE WriteSlots \/ WriteControl
  BY <1>1, CartSame DEF WriteSlots, WriteControl, WritePPI, cartVars, BankShown
<1>2. ASSUME NEW V \in SubslotValues, SSlot(V) PROVE BankShown'
  BY <1>2, CartSame DEF SSlot, cartVars, BankShown
<1>3. ASSUME NEW J \in MapperPages, NEW V \in Data, MapRAM(J, V) PROVE BankShown'
  BY <1>3, CartSame DEF MapRAM, cartVars, BankShown
<1>4. ASSUME NEW I \in Carts, NEW A \in Addresses, NEW V \in Data, MapROM(I, A, V)
      PROVE  BankShown'
  BY <1>4, MapROMShown
<1>5. ASSUME NEW I \in Carts, NEW V \in Data, Zemina90(I, V) PROVE BankShown'
  <2>1. cart[I].type \notin 0..6 /\ UNCHANGED cart
    BY <1>5 DEF Zemina90
  <2>2. \A c \in Carts : c # I => /\ cartMap'[c] = cartMap[c]
                                  /\ ROMMapper'[c] = ROMMapper[c]
    BY <1>5 DEF Zemina90, ShowBanks, TypeOK
  <2>3. QED
    BY <2>1, <2>2, OthersShown
<1>6. CASE UNCHANGED vars
  BY <1>6, CartSame DEF vars, cartVars, BankShown
<1>7. QED
  BY <1>1, <1>2, <1>3, <1>4, <1>5, <1>6 DEF Next

(* With any two cartridges the bank MapROM remembers is the bank in the    *)
(* map, so that the switches it skips would have changed nothing.          *)
THEOREM BanksAreShown == Spec => []BankShown
<1>1. TypeOK /\ BankShown /\ [Next]_vars => BankShown'
  BY NextShown
<1>2. QED
  BY <1>1, InitShown, TypeCorrect, PTL DEF Spec

-----------------------------------------------------------------------------
(***************************************************************************)
(* Images.  OwnImage needs what the code does not enforce: one of the two  *)
(* cartridges fits in a buffer, since there is one flash area for both; a  *)
(* large ROM has 2^n pages, since its mask is rounded up and flash holds   *)
(* no mirror of its end; it is not a generic 16kB one, whose second half   *)
(* follows RAM[2]; and the 90-in-1, whose register is at a port, is a      *)
(* large ROM, since a bank of a small one is not masked to its end.        *)
(***************************************************************************)
OwnSetups ==
  \A s \in Setups :
    /\ \E c \in Carts : s[c].size <= 4
    /\ \A I \in Carts :
         /\ s[I].size > 4 => s[I].size \in {8, 16, 32, 64, 128}
         /\ s[I].size > 4 /\ ~s[I].flat => s[I].type # 1
         /\ s[I].type = 8 => s[I].size = 0 \/ s[I].size > 4

(* The block b is none of a ROM, or inside the ROM of cartridge I.         *)
Own(I, b) == b.kind = "rom" => Loaded(b.unit) = I /\ b.page < Held(b.unit)

LEMMA OwnCart ==
  ASSUME OwnSetups, cart \in Setups, NEW I \in Carts
  PROVE  /\ cart[I].size \in 0..128
         /\ cart[I].size > 4 => cart[I].size \in {8, 16, 32, 64, 128}
         /\ cart[I].size > 4 => cart[1 - I].size <= 4
         /\ Banks(I) > 1 => Banks(I) = cart[I].size /\ cart[I].size > 4
         /\ Banks(I) > 1 => cart[I].type # 1
         /\ cart[I].type = 8 => cart[I].size = 0 \/ cart[I].size > 4
<1>1. cart[I].size \in 0..128 /\ cart[1 - I].size \in 0..128
  <2>1. 1 - I \in Carts
    BY DEF Carts
  <2>2. cart[I] \in Cartridge /\ cart[1 - I] \in Cartridge
    BY <2>1, SetupAssumption
  <2>3. QED
    BY <2>2 DEF Cartridge
<1>2. /\ cart[I].size > 4 => cart[I].size \in {8, 16, 32, 64, 128}
      /\ cart[I].size > 4 /\ ~cart[I].flat => cart[I].type # 1
      /\ cart[I].type = 8 => cart[I].size = 0 \/ cart[I].size > 4
  BY DEF OwnSetups
<1>3. cart[I].size > 4 => cart[1 - I].size <= 4
  <2>1. PICK c \in Carts : cart[c].size <= 4
    BY DEF OwnSetups
  <2>2. c = I \/ c = 1 - I
    BY DEF Carts
  <2>3. QED
    BY <1>1, <2>1, <2>2
<1>4. Banks(I) > 1 => ~cart[I].flat /\ cart[I].size > 4
  BY DEF Banks
<1>5. Banks(I) > 1 => Banks(I) = cart[I].size
  <2>1. \A n \in {8, 16, 32, 64, 128} : Pow2(n) = n
    <3>1. \A n \in {8, 16, 32, 64, 128}, p \in {1, 2, 4, 8, 16, 32, 64, 128} :
            (p >= n /\ p < 2 * n) <=> p = n
      OBVIOUS
    <3>2. SUFFICES ASSUME NEW n \in {8, 16, 32, 64, 128} PROVE Pow2(n) = n
      OBVIOUS
    <3>3. n \in {1, 2, 4, 8, 16, 32, 64, 128}
      OBVIOUS
    <3>4. \E p \in {1, 2, 4, 8, 16, 32, 64, 128} : p >= n /\ p < 2 * n
      BY <3>1, <3>3
    <3>5. QED
      BY <3>1, <3>4 DEF Pow2
  <2>2. QED
    BY <1>2, <1>4, <2>1 DEF Banks
<1>6. QED
  BY <1>1, <1>2, <1>3, <1>4, <1>5

LEMMA RomOwn ==
  ASSUME OwnSetups, cart \in Setups, NEW I \in Carts, NEW p \in Nat,
         p < IF cart[I].size > 4 THEN cart[I].size ELSE Pow2(cart[I].size)
  PROVE  Own(I, Rom(I, p))
<1>1. I \in {0, 1}
  BY DEF Carts
<1>2. cart[I].size \in 0..128 /\ cart[1 - I].size \in 0..128
  BY <1>1, OwnCart DEF Carts
<1>3. CASE cart[I].size > 4
  <2>1. cart[1 - I].size <= 4
    BY <1>3, OwnCart
  <2>2. Loaded(Flash) = I
    <3>1. CASE I = 0
      BY <1>2, <2>1, <3>1 DEF Loaded, Flash
    <3>2. CASE I = 1
      BY <1>3, <3>2 DEF Loaded, Flash
    <3>3. QED
      BY <1>1, <3>1, <3>2
  <2>3. Rom(I, p).unit = Flash /\ Rom(I, p).page = p
    BY <1>3 DEF Rom
  <2>4. Held(Flash) = cart[I].size
    BY <2>2 DEF Held
  <2>5. QED
    BY <1>3, <2>2, <2>3, <2>4 DEF Own
<1>4. CASE ~(cart[I].size > 4)
  <2>1. Rom(I, p).unit = I /\ Rom(I, p).page = p /\ I # Flash
    BY <1>1, <1>4 DEF Rom, Flash
  <2>2. Loaded(I) = I /\ Held(I) = Pow2(cart[I].size)
    BY <2>1 DEF Loaded, Held
  <2>3. QED
    BY <1>4, <2>1, <2>2 DEF Own
<1>5. QED
  BY <1>3, <1>4

(* A page below the mask is inside the ROM.                                *)
LEMMA BankOwn ==
  ASSUME OwnSetups, cart \in Setups, NEW I \in Carts, Banks(I) > 1,
         NEW p \in Nat, p < Banks(I)
  PROVE  Own(I, Rom(I, p))
  BY OwnCart, RomOwn

LEMMA ShowOwn ==
  ASSUME TypeOK, OwnImage, UNCHANGED cart, NEW I \in Carts, NEW B, NEW S,
         \A k \in DOMAIN B : Own(I, B[k]), ShowBanks(I, B, S)
  PROVE  OwnImage'
<1>1. cartMap' = [cartMap EXCEPT
         ![I] = [k \in Views |-> IF k \in DOMAIN B THEN B[k] ELSE cartMap[I][k]]]
  BY DEF ShowBanks
<1>2. ASSUME NEW c \in Carts, NEW k \in Views PROVE Own(c, cartMap'[c][k])
  <2>1. Own(c, cartMap[c][k])
    BY DEF OwnImage, Own
  <2>2. CASE c = I
    <3>1. cartMap'[c][k] = IF k \in DOMAIN B THEN B[k] ELSE cartMap[I][k]
      BY <1>1, <2>2 DEF TypeOK
    <3>2. QED
      BY <2>1, <2>2, <3>1
  <2>3. CASE c # I
    <3>1. cartMap'[c] = cartMap[c]
      BY <1>1, <2>3 DEF TypeOK
    <3>2. QED
      BY <2>1, <3>1
  <2>4. QED
    BY <2>2, <2>3
<1>3. QED
  BY <1>2 DEF OwnImage, Own, Loaded, Held

LEMMA SameOwn ==
  ASSUME OwnImage, UNCHANGED <<cart, cartMap>>
  PROVE  OwnImage'
  BY DEF OwnImage, Loaded, Held

LEMMA SwitchOwn ==
  ASSUME TypeOK, OwnImage, UNCHANGED cart, NEW I \in Carts, NEW J, NEW v, NEW B, NEW S,
         \A k \in DOMAIN B : Own(I, B[k]), SwitchBank(I, J, v, B, S)
  PROVE  OwnImage'
<1>1. CASE v = ROMMapper[I][J]
  BY <1>1, SameOwn DEF SwitchBank
<1>2. CASE v # ROMMapper[I][J]
  BY <1>2, ShowOwn DEF SwitchBank
<1>3. QED
  BY <1>1, <1>2

(* One and two successive pages below the mask are inside the ROM.         *)
LEMMA PageOwn ==
  ASSUME OwnSetups, cart \in Setups, NEW I \in Carts, Banks(I) > 1,
         NEW J \in Int, NEW v \in Nat, v < Banks(I)
  PROVE  \A k \in DOMAIN Bank(I, J, v, 1) : Own(I, Bank(I, J, v, 1)[k])
<1>1. v + (J+2) - (J+2) = v /\ J+2 .. J+1+1 = {J+2}
  OBVIOUS
<1>2. Own(I, Rom(I, v))
  BY BankOwn
<1>3. QED
  BY <1>1, <1>2 DEF Bank

LEMMA TwoPagesOwn ==
  ASSUME OwnSetups, cart \in Setups, NEW I \in Carts, Banks(I) > 1,
         NEW J \in Int, NEW v \in Nat, v + 1 < Banks(I)
  PROVE  \A k \in DOMAIN Bank(I, J, v, 2) : Own(I, Bank(I, J, v, 2)[k])
<1>1. /\ v + (J+2) - (J+2) = v /\ v + (J+3) - (J+2) = v + 1
      /\ J+2 .. J+1+2 = {J+2, J+3}
  OBVIOUS
<1>2. Banks(I) \in Nat
  BY BanksRange
<1>3. v < Banks(I)
  BY <1>2
<1>4. Own(I, Rom(I, v)) /\ Own(I, Rom(I, v + 1))
  BY <1>3, BankOwn
<1>5. QED
  BY <1>1, <1>4 DEF Bank

(* With 2^n pages the even pages and those of a multiple of four are first *)
(* of two and of four that lie below the mask.                             *)
LEMMA AlignedBanks ==
  ASSUME NEW n \in {8, 16, 32, 64, 128}, NEW a \in Nat
  PROVE  LET base == (2*a) % n
             low == base - 2 * ((base \div 2) % 2)
         IN  base \in Nat /\ base + 1 < n /\ low \in Nat /\ low + 3 < n
<1>1. CASE n = 8
  BY <1>1
<1>2. CASE n = 16
  BY <1>2
<1>3. CASE n = 32
  BY <1>3
<1>4. CASE n = 64
  BY <1>4
<1>5. CASE n = 128
  BY <1>5
<1>6. QED
  BY <1>1, <1>2, <1>3, <1>4, <1>5

(* What a bank switch of a cartridge that has banks may rely on.           *)
Large(I) == OwnSetups /\ TypeOK /\ OwnImage /\ UNCHANGED cart /\ Banks(I) > 1

LEMMA LargeFacts ==
  ASSUME NEW I \in Carts, Large(I)
  PROVE  /\ OwnSetups /\ TypeOK /\ OwnImage /\ UNCHANGED cart /\ Banks(I) > 1
         /\ cart \in Setups /\ Banks(I) \in {8, 16, 32, 64, 128}
         /\ Banks(I) \in Nat /\ 0 < Banks(I) /\ Banks(I) <= 128
         /\ cart[I].type # 1
<1>1. OwnSetups /\ TypeOK /\ OwnImage /\ UNCHANGED cart /\ Banks(I) > 1 /\ cart \in Setups
  BY DEF Large, TypeOK
<1>2. QED
  BY <1>1, OwnCart, BanksRange

LEMMA KonamiOwn ==
  ASSUME NEW I \in Carts, Large(I),
         NEW A \in 16*KB .. 48*KB - 1, NEW V \in 0..255, Konami(I, A, V)
  PROVE  OwnImage'
<1> DEFINE J == IF cart[I].type = 2 THEN (A - 20*KB) \div (8*KB) ELSE (A - 16*KB) \div (8*KB)
           v == V % Banks(I)
           B == Bank(I, J, v, 1)
<1>1. J \in Int
  BY DEF KB
<1>2. v \in Nat /\ v < Banks(I)
  BY LargeFacts, ModBelow
<1>3. SwitchBank(I, J, v, B, DOMAIN B)
  BY DEF Konami
<1>4. \A k \in DOMAIN B : Own(I, B[k])
  <2> HIDE DEF J, v
  <2> QED
    BY <1>1, <1>2, LargeFacts, PageOwn
<1>5. QED
  <2> HIDE DEF J, v, B
  <2> QED
    BY <1>3, <1>4, LargeFacts, SwitchOwn

LEMMA AsciiOwn ==
  ASSUME NEW I \in Carts, Large(I),
         NEW A \in 16*KB .. 48*KB - 1, NEW V \in 0..255, Ascii(I, A, V)
  PROVE  OwnImage'
<1> DEFINE J == IF cart[I].type = 4 THEN (A \div (2*KB)) % 4 ELSE 2 * ((A \div (4*KB)) % 2)
           v == (IF cart[I].type = 4 THEN V ELSE 2*V) % Banks(I)
           B == Bank(I, J, v, IF cart[I].type = 4 THEN 1 ELSE 2)
<1>1. J \in Int
  BY DEF KB
<1>2. SwitchBank(I, J, v, B, InSight(I, B))
  BY DEF Ascii
<1>3. \A k \in DOMAIN B : Own(I, B[k])
  <2>1. CASE cart[I].type = 4
    <3>1. v \in Nat /\ v < Banks(I)
      BY <2>1, LargeFacts, ModBelow
    <3>2. B = Bank(I, J, v, 1)
      BY <2>1
    <3> HIDE DEF J, v, B
    <3>3. QED
      BY <1>1, <3>1, <3>2, LargeFacts, PageOwn
  <2>2. CASE cart[I].type # 4
    <3>1. v \in Nat /\ v + 1 < Banks(I)
      BY <2>2, LargeFacts, AlignedBanks
    <3>2. B = Bank(I, J, v, 2)
      BY <2>2
    <3> HIDE DEF J, v, B
    <3>3. QED
      BY <1>1, <3>1, <3>2, LargeFacts, TwoPagesOwn
  <2>3. QED
    BY <2>1, <2>2
<1>4. QED
  <2> HIDE DEF J, v, B
  <2> QED
    BY <1>2, <1>3, LargeFacts, SwitchOwn

LEMMA GameMaster2Own ==
  ASSUME NEW I \in Carts, Large(I),
         NEW A \in 16*KB .. 48*KB - 1, NEW V \in 0..255, GameMaster2(I, A, V)
  PROVE  OwnImage'
<1> DEFINE J == (A - 16*KB) \div (8*KB)
           B == [k \in {5} |-> Sram((V \div 32) % 2)]
           v == V % Banks(I)
           P == Bank(I, J, v, 1)
<1>1. J \in Int
  BY DEF KB
<1>2. v \in Nat /\ v < Banks(I)
  BY LargeFacts, ModBelow
<1>3. CASE (V \div 16) % 2 = 1
  <2>1. ShowBanks(I, B, {5})
    BY <1>3 DEF GameMaster2
  <2>2. \A k \in DOMAIN B : Own(I, B[k])
    BY DEF Own, Sram
  <2>3. QED
    <3> HIDE DEF B
    <3> QED
      BY <2>1, <2>2, LargeFacts, ShowOwn
<1>4. CASE (V \div 16) % 2 # 1
  <2>1. SwitchBank(I, J, v, P, DOMAIN P)
    BY <1>4 DEF GameMaster2
  <2>2. \A k \in DOMAIN P : Own(I, P[k])
    <3> HIDE DEF J, v
    <3> QED
      BY <1>1, <1>2, LargeFacts, PageOwn
  <2>3. QED
    <3> HIDE DEF J, v, P
    <3> QED
      BY <2>1, <2>2, LargeFacts, SwitchOwn
<1>5. QED
  BY <1>3, <1>4

LEMMA Zemina126Own ==
  ASSUME NEW I \in Carts, Large(I), NEW A, NEW V \in 0..255, Zemina126(I, A, V)
  PROVE  OwnImage'
<1> DEFINE J == IF A = 24*KB THEN 0 ELSE 1
           j == 2 * J
           v == (2*V) % Banks(I)
           B == Bank(I, j, v, 2)
<1>1. j \in Int
  OBVIOUS
<1>2. v \in Nat /\ v + 1 < Banks(I)
  BY LargeFacts, AlignedBanks
<1>3. ShowBanks(I, B, DOMAIN B)
  BY DEF Zemina126
<1>4. \A k \in DOMAIN B : Own(I, B[k])
  <2> HIDE DEF j, v
  <2> QED
    BY <1>1, <1>2, LargeFacts, TwoPagesOwn
<1>5. QED
  <2> HIDE DEF B
  <2> QED
    BY <1>3, <1>4, LargeFacts, ShowOwn

LEMMA Zemina64Own ==
  ASSUME NEW I \in Carts, Large(I),
         NEW A \in 16*KB .. 48*KB - 1, NEW V \in 0..255, Zemina64(I, A, V)
  PROVE  OwnImage'
<1> DEFINE J == A % 4
           v == V % Banks(I)
           B == Bank(I, J, v, 1)
<1>1. J \in Int
  BY DEF KB
<1>2. v \in Nat /\ v < Banks(I)
  BY LargeFacts, ModBelow
<1>3. ShowBanks(I, B, DOMAIN B)
  BY DEF Zemina64
<1>4. \A k \in DOMAIN B : Own(I, B[k])
  <2> HIDE DEF J, v
  <2> QED
    BY <1>1, <1>2, LargeFacts, PageOwn
<1>5. QED
  <2> HIDE DEF J, v, B
  <2> QED
    BY <1>3, <1>4, LargeFacts, ShowOwn

LEMMA Zemina25Own ==
  ASSUME NEW I \in Carts, Large(I), NEW V \in 0..255, Zemina25(I, V)
  PROVE  OwnImage'
<1> DEFINE base == (V % 64) % Banks(I)
           page == [J \in Pages |-> (base - J) % Banks(I)]
           S == InSight(I, [k \in 2..5 |->
                  [j \in Views |-> IF j < 2 THEN Rom(I, 63 % Banks(I))
                                   ELSE Rom(I, page[(j - 2) % 4])][k]])
           B == [k \in Views |-> IF k < 2 THEN Rom(I, 63 % Banks(I))
                                 ELSE Rom(I, page[(k - 2) % 4])]
<1>1. base \in Nat
  <2>1. V % 64 \in Int
    OBVIOUS
  <2>2. QED
    BY <2>1, LargeFacts, ModBelow
<1>2. \A J \in Pages : page[J] \in Nat /\ page[J] < Banks(I)
  <2> HIDE DEF base
  <2>1. \A J \in Pages : base - J \in Int
    BY <1>1 DEF Pages
  <2>2. QED
    BY <2>1, LargeFacts, ModBelow
<1>3. 63 % Banks(I) \in Nat /\ 63 % Banks(I) < Banks(I)
  BY LargeFacts, ModBelow
<1>4. \A k \in Views : (k - 2) % 4 \in Pages
  BY DEF Views, Pages
<1>5. \A k \in DOMAIN B : Own(I, B[k])
  <2> HIDE DEF page
  <2>1. \A J \in Pages : Own(I, Rom(I, page[J]))
    BY <1>2, LargeFacts, BankOwn
  <2>2. Own(I, Rom(I, 63 % Banks(I)))
    BY <1>3, LargeFacts, BankOwn
  <2>3. QED
    BY <1>4, <2>1, <2>2
<1>6. ShowBanks(I, B, S)
  BY DEF Zemina25
<1>7. QED
  <2> HIDE DEF B, S
  <2> QED
    BY <1>5, <1>6, LargeFacts, ShowOwn

LEMMA MapROMOwn ==
  ASSUME OwnSetups, TypeOK, OwnImage,
         NEW I \in Carts, NEW A \in Addresses, NEW V \in Data, MapROM(I, A, V)
  PROVE  OwnImage'
<1>1. A \in 16*KB .. 48*KB - 1 /\ V \in 0..255 /\ UNCHANGED cart
  BY InputAssumption DEF MapROM
<1>2. CASE UNCHANGED cartMap
  BY <1>1, <1>2, SameOwn
<1>3. CASE Banks(I) > 1
  <2>1. Large(I)
    BY <1>1, <1>3 DEF Large
  <2>2. ~Generic16(I, A, V)
    BY <2>1, LargeFacts DEF Generic16
  <2>3. CASE Konami(I, A, V)
    BY <1>1, <2>1, <2>3, KonamiOwn
  <2>4. CASE Ascii(I, A, V)
    BY <1>1, <2>1, <2>4, AsciiOwn
  <2>5. CASE GameMaster2(I, A, V)
    BY <1>1, <2>1, <2>5, GameMaster2Own
  <2>6. CASE Zemina126(I, A, V)
    BY <1>1, <2>1, <2>6, Zemina126Own
  <2>7. CASE Zemina64(I, A, V)
    BY <1>1, <2>1, <2>7, Zemina64Own
  <2>8. CASE Zemina25(I, V)
    BY <1>1, <2>1, <2>8, Zemina25Own
  <2>9. QED
    BY <1>2, <2>2, <2>3, <2>4, <2>5, <2>6, <2>7, <2>8 DEF MapROM
<1>4. QED
  BY <1>2, <1>3 DEF MapROM

(* The 90-in-1 is also accepted as a flat ROM, whose mask is nil: it then  *)
(* shows the first pages.                                                  *)
LEMMA Zemina90Own ==
  ASSUME OwnSetups, TypeOK, OwnImage, NEW I \in Carts, NEW V \in Data, Zemina90(I, V)
  PROVE  OwnImage'
<1> DEFINE base == (2 * (V % 64)) % Banks(I)
           mode == V \div 64
           low == base - 2 * ((base \div 2) % 2)
           p(k) == CASE mode < 2 -> base + (k % 2)
                     [] mode = 2 -> low + k - 2
                     [] mode = 3 -> base + <<0, 1, 1, 0>>[k - 1]
           B == [k \in 2..5 |-> Rom(I, p(k))]
           n == cart[I].size
<1>1. V \in 0..255 /\ mode \in 0..3
  <2>1. V \in 0..255
    BY InputAssumption
  <2>2. QED
    BY <2>1
<1>2. cart \in Setups
  BY DEF TypeOK
<1>3. n \in {8, 16, 32, 64, 128} /\ n > 4
  <2>1. cart[I].type = 8 /\ cart[I].size > 0
    BY DEF Zemina90, Inserted
  <2>2. QED
    BY <1>2, <2>1, OwnCart
<1>4. base \in Nat /\ base + 1 < n /\ low \in Nat /\ low + 3 < n
  <2>1. CASE Banks(I) > 1
    <3>1. Banks(I) = n /\ V % 64 \in Nat
      BY <1>1, <1>2, <2>1, OwnCart
    <3>2. QED
      BY <1>3, <3>1, AlignedBanks
  <2>2. CASE ~(Banks(I) > 1)
    <3>1. Banks(I) = 1
      BY <1>2, <2>2, BanksRange
    <3>2. base = 0 /\ low = 0
      <4>1. 2 * (V % 64) \in Int
        BY <1>1
      <4>2. \A a \in Int : a % 1 = 0
        OBVIOUS
      <4>3. base = 0
        BY <3>1, <4>1, <4>2
      <4>4. QED
        BY <4>3
    <3>3. QED
      BY <1>3, <3>2
  <2>3. QED
    BY <2>1, <2>2
<1>5. \A k \in 2..5 : p(k) \in Nat /\ p(k) < n
  <2> HIDE DEF base, low, mode, n
  <2>1. n \in Nat
    BY <1>3
  <2>2. ASSUME NEW k \in 2..5 PROVE p(k) \in Nat /\ p(k) < n
    <3>1. CASE mode < 2
      <4>1. p(k) = base + (k % 2) /\ k % 2 \in 0..1
        BY <3>1
      <4> HIDE DEF p
      <4>2. QED
        BY <1>4, <2>1, <4>1
    <3>2. CASE mode = 2
      BY <1>4, <2>1, <3>2
    <3>3. CASE mode = 3
      <4>1. <<0, 1, 1, 0>>[k - 1] \in 0..1
        OBVIOUS
      <4>2. p(k) = base + <<0, 1, 1, 0>>[k - 1]
        BY <3>3
      <4> HIDE DEF p
      <4>3. QED
        BY <1>4, <2>1, <4>1, <4>2
    <3>4. QED
      BY <1>1, <3>1, <3>2, <3>3
  <2>3. QED
    BY <2>2
<1>6. \A k \in 2..5 : B[k] = Rom(I, p(k))
  <2> HIDE DEF p
  <2> QED
    OBVIOUS
<1>7. DOMAIN B = 2..5
  OBVIOUS
<1>8. ShowBanks(I, B, InSight(I, B)) /\ UNCHANGED cart
  BY DEF Zemina90
<1>9. \A k \in DOMAIN B : Own(I, B[k])
  <2> HIDE DEF p, B
  <2>1. \A q \in Nat : q < n => Own(I, Rom(I, q))
    BY <1>2, <1>3, RomOwn
  <2>2. QED
    BY <1>5, <1>6, <1>7, <2>1
<1>10. QED
  <2> HIDE DEF B
  <2> QED
    BY <1>8, <1>9, ShowOwn

LEMMA InitOwn ==
  ASSUME OwnSetups, Init
  PROVE  OwnImage
<1>1. SUFFICES ASSUME NEW I \in Carts, NEW k \in Views
               PROVE  Own(I, InitCart(I)[k])
  BY DEF Init, OwnImage, Own
<1> DEFINE n == cart[I].size
<1>2. cart \in Setups
  BY DEF Init
<1>3. /\ n \in 0..128 /\ (n > 4 => n \in {8, 16, 32, 64, 128})
      /\ (Banks(I) > 1 => n > 4)
      /\ Banks(I) \in Nat /\ 0 < Banks(I) /\ Banks(I) <= 128
  BY <1>2, OwnCart, BanksRange
<1>4. CASE n = 0
  BY <1>4 DEF InitCart, Own, Empty
<1>5. CASE n \in 1..4
  <2>1. Pow2(n) \in {1, 2, 4, 8, 16, 32, 64, 128} /\ Pow2(n) >= n
    BY <1>5, Pow2Range
  <2>2. n <= 4
    BY <1>5
  <2>3. \A q \in Nat : q < Pow2(n) => Own(I, Rom(I, q))
    BY <1>2, <1>3, <2>2, RomOwn
  <2>4. CASE n \in 1..2
    <3>1. InitCart(I)[k] = Rom(I, k % n)
      BY <2>4 DEF InitCart
    <3>2. k % n \in Nat /\ k % n < n
      BY <2>4 DEF Views
    <3>3. k % n < Pow2(n)
      <4>1. n \in Nat /\ Pow2(n) \in Nat
        BY <1>5, <2>1
      <4>2. QED
        BY <2>1, <3>2, <4>1
    <3>4. QED
      BY <2>3, <3>1, <3>2, <3>3
  <2>5. CASE n \in 3..4
    <3> DEFINE q == (k % 2) + IF k < 4 THEN 0 ELSE 2
    <3>1. InitCart(I)[k] = Rom(I, q)
      BY <2>5 DEF InitCart
    <3>2. q \in 0..3
      BY DEF Views
    <3>3. Pow2(n) >= 4
      BY <2>1, <2>5
    <3>4. q \in Nat /\ q < Pow2(n)
      <4> HIDE DEF q
      <4> QED
        BY <2>1, <3>2, <3>3
    <3>5. QED
      BY <2>3, <3>1, <3>4
  <2>6. QED
    BY <1>5, <2>4, <2>5
<1>6. CASE n > 4 /\ Banks(I) = 1
  <2>1. InitCart(I)[k] = Rom(I, k)
    BY <1>3, <1>6 DEF InitCart
  <2>2. k \in Nat /\ k < n
    BY <1>3, <1>6 DEF Views
  <2>3. QED
    BY <1>2, <1>6, <2>1, <2>2, RomOwn
<1>7. CASE Banks(I) > 1
  <2>1. \A J \in Pages : Own(I, Rom(I, Mega(I)[J]))
    BY <1>2, <1>7, MegaBelow, BankOwn
  <2>2. Own(I, Rom(I, 63 % Banks(I)))
    <3>1. 63 % Banks(I) \in Nat /\ 63 % Banks(I) < Banks(I)
      BY <1>3, ModBelow
    <3>2. QED
      BY <1>2, <1>7, <3>1, BankOwn
  <2>3. CASE k \in 2..5
    <3>1. InitCart(I)[k] = Rom(I, Mega(I)[k - 2])
      BY <1>3, <1>7, <2>3 DEF InitCart
    <3>2. k - 2 \in Pages
      BY <2>3 DEF Pages
    <3>3. QED
      BY <2>1, <3>1, <3>2
  <2>4. CASE k \notin 2..5
    <3>1. InitCart(I)[k] = Outside(I, k)
      BY <1>3, <1>7, <2>4 DEF InitCart
    <3>2. k >= 2 => k - 6 \in Pages
      BY <2>4 DEF Views, Pages
    <3>3. Own(I, Empty)
      BY DEF Own, Empty
    <3>4. Own(I, Outside(I, k))
      BY <2>1, <2>2, <3>2, <3>3 DEF Outside, Views
    <3>5. QED
      BY <3>1, <3>4
  <2>5. QED
    BY <2>3, <2>4
<1>8. QED
  BY <1>3, <1>4, <1>5, <1>6, <1>7

LEMMA NextOwn ==
  ASSUME OwnSetups, TypeOK, OwnImage, [Next]_vars
  PROVE  OwnImage'
<1>1. CASE UNCHANGED <<cart, cartMap>>
  BY <1>1, SameOwn
<1>2. ASSUME NEW I \in Carts, NEW A \in Addresses, NEW V \in Data, MapROM(I, A, V)
      PROVE  OwnImage'
  BY <1>2, MapROMOwn
<1>3. ASSUME NEW I \in Carts, NEW V \in Data, Zemina90(I, V) PROVE OwnImage'
  BY <1>3, Zemina90Own
<1>4. CASE WriteSlots \/ WriteControl
  BY <1>1, <1>4 DEF WriteSlots, WriteControl, WritePPI, cartVars
<1>5. CASE \/ \E V \in SubslotValues : SSlot(V)
           \/ \E J \in MapperPages, V \in Data : MapRAM(J, V)
  BY <1>1, <1>5 DEF SSlot, MapRAM, cartVars
<1>6. CASE UNCHANGED vars
  BY <1>1, <1>6 DEF vars, cartVars
<1>7. QED
  BY <1>2, <1>3, <1>4, <1>5, <1>6 DEF Next

(* With one large cartridge, of 2^n pages and no generic 16kB one, each    *)
(* cartridge shows its own ROM and nothing past its end.                   *)
THEOREM ImagesAreOwn ==
  ASSUME OwnSetups
  PROVE  Spec => []OwnImage
<1>1. TypeOK /\ OwnImage /\ [Next]_vars => OwnImage'
  BY NextOwn
<1>2. Init => OwnImage
  BY InitOwn
<1>3. QED
  BY <1>1, <1>2, TypeCorrect, PTL DEF Spec

=============================================================================
