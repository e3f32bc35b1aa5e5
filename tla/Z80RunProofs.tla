---------------------------- MODULE Z80RunProofs ----------------------------
(***************************************************************************)
(* Z80Run for every length of a line, every set of instruction times and   *)
(* of scans and every raster.  IInv joins the types, the interrupt lines   *)
(* and how far behind LoopZ80 may come: a CPDR may take it to MaxBehind,   *)
(* EI and the instruction after it a little further, and a half line       *)
(* brings more than those two cost.  FrameShape, ShadowOfEI and OnTime     *)
(* need the history variables of MCZ80Run; their proofs are at the end.    *)
(***************************************************************************)
EXTENDS MCZ80Run, TLAPS

CpuTypeOK ==
  /\ IFF1 \in BOOLEAN /\ IFF2 \in BOOLEAN /\ afterEI \in BOOLEAN
  /\ halted \in BOOLEAN
  /\ at \in {"fetch", "expired", "frame"}
  /\ IBackup \in -(MaxBehind + MaxCycles) .. HPeriod
  /\ ICount \in -(MaxBehind + 2 * MaxCycles + HPeriod) .. HPeriod

\* What EI leaves on the count, and what it has put aside, less its own cycles.
Behind ==
  /\ CyclesLeft >= -(MaxBehind + 2 * MaxCycles)
  /\ at = "expired" => ICount <= 0
  /\ at # "expired" /\ ~afterEI => ICount >= -MaxBehind
  /\ at # "expired" /\ afterEI => ICount = 1 /\ IBackup >= -(MaxBehind + MaxCycles)

IInv == VdpTypeOK /\ CpuTypeOK /\ Behind /\ IrqLines

LEMMA RasterNumbers ==
  /\ LastNtsc \in Nat /\ LastPal \in Nat /\ LastNtsc < LastPal
  /\ \A m \in BOOLEAN \X BOOLEAN : CoincidenceEnd[m] \in Nat
  <1>1. LastNtsc \in Nat /\ LastPal \in Nat /\ LastNtsc < LastPal
    BY RasterAssumption
  <1>2. ASSUME NEW m \in BOOLEAN \X BOOLEAN PROVE CoincidenceEnd[m] \in Nat
    <2>1. CoincidenceEnd[m] \in 1 .. LastNtsc
      BY RasterAssumption
    <2> QED BY <2>1, <1>1
  <1> QED BY <1>1, <1>2

(***************************************************************************)
(* The VDP's side: one lemma for the types and one for the lines.          *)
(***************************************************************************)

(* What a program does at a port keeps the raster's types.                 *)
LEMMA PortTypes == VdpTypeOK /\ PortAccess => VdpTypeOK'
  <1> SUFFICES ASSUME VdpTypeOK, PortAccess PROVE VdpTypeOK'
    OBVIOUS
  <1>1. CASE \E en \in BOOLEAN : WriteR0(en)
    BY <1>1 DEF WriteR0, SetIRQ, raster, VdpTypeOK
  <1>2. CASE \E en \in BOOLEAN : WriteR1(en)
    BY <1>2 DEF WriteR1, SetIRQ, raster, VdpTypeOK
  <1>3. CASE WriteR9
    BY <1>3 DEF WriteR9, raster, VdpTypeOK
  <1>4. CASE WriteHLine
    BY <1>4 DEF WriteHLine, raster, VdpTypeOK
  <1>5. CASE ReadS0
    BY <1>5 DEF ReadS0, SetIRQ, raster, registers, VdpTypeOK
  <1>6. CASE ReadS1
    BY <1>6 DEF ReadS1, SetIRQ, raster, registers, VdpTypeOK
  <1> QED BY <1>1, <1>2, <1>3, <1>4, <1>5, <1>6 DEF PortAccess

(* So do the two halves of a line; lines are counted up to the last.       *)
LEMMA LineTypes == VdpTypeOK /\ (StartLine \/ EndLine) => VdpTypeOK'
  <1> SUFFICES ASSUME VdpTypeOK, StartLine \/ EndLine PROVE VdpTypeOK'
    OBVIOUS
  <1>1. CASE StartLine
    <2>1. NextLine \in 0 .. LastPal
      BY RasterNumbers DEF NextLine, LastLine, VdpTypeOK
    <2>2. IRQPending' \in SUBSET {IE0, IE1} /\ IRequest' \in BOOLEAN
      BY <1>1 DEF StartLine, SetIRQ, VdpTypeOK
    <2>3. /\ HR' \in BOOLEAN /\ VR' \in BOOLEAN /\ Drawing' \in BOOLEAN
          /\ FH' \in BOOLEAN
      BY <1>1 DEF StartLine, VdpTypeOK
    <2> QED BY <1>1, <2>1, <2>2, <2>3 DEF StartLine, registers, VdpTypeOK
  <1>2. CASE EndLine
    <2>1. IRQPending' \in SUBSET {IE0, IE1} /\ IRequest' \in BOOLEAN
      BY <1>2 DEF EndLine, SetIRQ, VdpTypeOK
    <2>2. /\ HR' \in BOOLEAN /\ VR' \in BOOLEAN /\ Drawing' \in BOOLEAN
          /\ F' \in BOOLEAN
      BY <1>2 DEF EndLine, VdpTypeOK
    <2> QED BY <1>2, <2>1, <2>2 DEF EndLine, registers, VdpTypeOK
  <1> QED BY <1>1, <1>2

(* The lines follow the flags at each port.                                *)
LEMMA PortLines == VdpTypeOK /\ IrqLines /\ PortAccess => IrqLines'
  <1> SUFFICES ASSUME VdpTypeOK, IrqLines, PortAccess PROVE IrqLines'
    OBVIOUS
  <1> IE0 # IE1
    BY DEF IE0, IE1
  <1>1. CASE \E en \in BOOLEAN : WriteR0(en)
    BY <1>1 DEF WriteR0, SetIRQ, raster, IrqLines, VdpTypeOK
  <1>2. CASE \E en \in BOOLEAN : WriteR1(en)
    BY <1>2 DEF WriteR1, SetIRQ, raster, IrqLines, VdpTypeOK
  <1>3. CASE WriteR9
    BY <1>3 DEF WriteR9, IrqLines
  <1>4. CASE WriteHLine
    BY <1>4 DEF WriteHLine, IrqLines
  <1>5. CASE ReadS0
    BY <1>5 DEF ReadS0, SetIRQ, registers, IrqLines
  <1>6. CASE ReadS1
    BY <1>6 DEF ReadS1, SetIRQ, registers, IrqLines
  <1> QED BY <1>1, <1>2, <1>3, <1>4, <1>5, <1>6 DEF PortAccess

(* And on each half of a line.                                             *)
LEMMA RasterLines == VdpTypeOK /\ IrqLines /\ (StartLine \/ EndLine) => IrqLines'
  <1> SUFFICES ASSUME VdpTypeOK, IrqLines, StartLine \/ EndLine PROVE IrqLines'
    OBVIOUS
  <1> IE0 # IE1
    BY DEF IE0, IE1
  <1>1. CASE StartLine
    <2> DEFINE coincides == NextLine < CoincidenceLines /\ NextLine = hline
               ends == NextLine = CoincidenceLines
    <2>1. CoincidenceLines \in Nat
      BY RasterNumbers DEF CoincidenceLines, VdpTypeOK
    <2>2. ~(coincides /\ ends)
      BY <2>1
    <2>3. IE0 \in IRQPending' <=> IE0 \in IRQPending
      BY <1>1 DEF StartLine, SetIRQ
    <2>4. F' = F /\ ie0' = ie0 /\ ie1' = ie1
      BY <1>1 DEF StartLine, registers
    <2>5. IE1 \in IRQPending' => FH' /\ ie1
      BY <1>1, <2>2 DEF StartLine, SetIRQ, IrqLines, VdpTypeOK
    <2>6. IRequest' <=> IRQPending' # {}
      BY <1>1 DEF StartLine, SetIRQ
    <2> QED BY <2>3, <2>4, <2>5, <2>6 DEF IrqLines
  <1>2. CASE EndLine
    BY <1>2 DEF EndLine, SetIRQ, registers, IrqLines, VdpTypeOK
  <1> QED BY <1>1, <1>2

LEMMA VdpStutters == UNCHANGED vdpVars /\ VdpTypeOK /\ IrqLines => VdpTypeOK' /\ IrqLines'
  BY DEF vdpVars, raster, registers, VdpTypeOK, IrqLines

(***************************************************************************)
(* The CPU's side.                                                         *)
(***************************************************************************)
Cpu == CpuTypeOK /\ Behind

LEMMA Numbers ==
  /\ MaxCycles \in Nat /\ MaxCycles > 0 /\ HPeriod \in Nat /\ HPeriod > 0 /\ MaxBehind \in Nat
  /\ \A c \in Cycles : c \in Nat /\ c <= MaxCycles
  /\ \A c \in Scans : c \in Nat /\ 0 < c
  /\ \A h \in HRefresh : /\ h \in Nat /\ 2 * MaxCycles <= h
                         /\ h <= HPeriod - 2 * MaxCycles
  BY CyclesAssumption, ScanAssumption

(* What an instruction but EI, DI and HALT does to the count, if it leaves *)
(* the CPU within its bound.                                               *)
LEMMA CountKeepsBehind ==
  ASSUME Cpu, NEW c \in Nat, Count(ICount - c),
         CyclesLeft - c >= -(MaxBehind + 2 * MaxCycles),
         afterEI' = afterEI, IBackup' = IBackup, halted' = halted,
         IFF1' \in BOOLEAN, IFF2' \in BOOLEAN
  PROVE  Cpu'
  <1> USE Numbers
  <1>1. /\ ICount \in Int /\ IBackup \in Int /\ ICount <= HPeriod /\ IBackup <= HPeriod
        /\ afterEI \in BOOLEAN /\ halted \in BOOLEAN /\ at = "fetch"
        /\ IBackup \in -(MaxBehind + MaxCycles) .. HPeriod
    BY DEF Cpu, CpuTypeOK, Count
  <1>2. /\ ICount' = ICount - c /\ at' \in {"fetch", "expired"}
        /\ at' = "expired" <=> ICount' <= 0
    BY <1>1 DEF Count
  <1>3. CASE afterEI
    <2>1. ICount = 1 /\ CyclesLeft = IBackup /\ IBackup >= -(MaxBehind + MaxCycles)
      BY <1>1, <1>3 DEF Cpu, Behind, CyclesLeft
    <2>2. ICount' = 1 - c /\ IBackup - c >= -(MaxBehind + 2 * MaxCycles)
      BY <1>2, <2>1
    <2>3. /\ ICount' \in -(MaxBehind + 2 * MaxCycles + HPeriod) .. HPeriod
          /\ ICount' > 0 => ICount' = 1
      BY <1>1, <2>2
    <2>4. CyclesLeft' = 1 - c + IBackup - 1
      BY <1>3, <2>2 DEF CyclesLeft
    <2>5. CyclesLeft' >= -(MaxBehind + 2 * MaxCycles)
      BY <1>1, <2>2, <2>4
    <2>6. CpuTypeOK'
      BY <1>1, <1>2, <2>3 DEF CpuTypeOK
    <2>7. Behind'
      BY <1>2, <2>1, <2>3, <2>5 DEF Behind
    <2> QED BY <2>6, <2>7 DEF Cpu
  <1>4. CASE ~afterEI
    <2>1. CyclesLeft = ICount /\ CyclesLeft' = ICount'
      BY <1>4 DEF CyclesLeft
    <2>2. ICount' \in -(MaxBehind + 2 * MaxCycles + HPeriod) .. HPeriod
      BY <1>1, <1>2, <2>1
    <2>3. ICount' >= -(MaxBehind + 2 * MaxCycles)
      BY <1>2, <2>1
    <2>4. at' # "expired" => ICount' >= -MaxBehind
      BY <1>2, <2>2
    <2>5. CpuTypeOK'
      BY <1>1, <1>2, <2>2 DEF CpuTypeOK
    <2>6. Behind'
      BY <1>2, <1>4, <2>1, <2>3, <2>4 DEF Behind
    <2> QED BY <2>5, <2>6 DEF Cpu
  <1> QED BY <1>3, <1>4

(* An ordinary instruction, EI and DI leave it there.                      *)
LEMMA FetchKeepsBehind ==
  ASSUME NEW c \in Cycles, Cpu,
         Instruction(c) \/ EI(c) \/ DI(c) \/ RETN(c)
  PROVE  Cpu'
  <1> USE Numbers
  <1>0. /\ c \in Nat /\ c <= MaxCycles /\ at = "fetch"
        /\ ICount \in Int /\ IBackup \in Int /\ CyclesLeft \in Int
        /\ afterEI \in BOOLEAN /\ IFF1 \in BOOLEAN /\ IFF2 \in BOOLEAN
        /\ ICount <= HPeriod /\ IBackup <= HPeriod
        /\ IBackup \in -(MaxBehind + MaxCycles) .. HPeriod
    BY DEF Cpu, CpuTypeOK, Instruction, EI, DI, RETN, Count, CyclesLeft
  <1>1. CyclesLeft >= -(MaxBehind + MaxCycles)
    BY <1>0 DEF Cpu, Behind, CyclesLeft
  <1>2. CyclesLeft - c >= -(MaxBehind + 2 * MaxCycles)
    BY <1>0, <1>1
  <1>3. CASE Instruction(c)
    BY <1>0, <1>2, <1>3, CountKeepsBehind DEF Instruction
  <1>4. CASE EI(c)
    <2>1. CASE ~IFF1 /\ ~afterEI
      <3>1. /\ ICount' = 1 /\ at' = "fetch" /\ IBackup' = ICount - c
            /\ IFF1' = IFF1 /\ halted' = halted
        BY <1>4, <2>1 DEF EI, Count
      <3>a. afterEI' = TRUE /\ IFF2' = TRUE
        BY <1>4, <2>1, Zenon DEF EI
      <3>2. IBackup' >= -(MaxBehind + MaxCycles) /\ IBackup' <= HPeriod /\ IBackup' \in Int
        BY <1>0, <2>1, <3>1 DEF Cpu, Behind
      <3>3. IBackup' \in -(MaxBehind + MaxCycles) .. HPeriod
        BY <3>2
      <3>4. 1 \in -(MaxBehind + 2 * MaxCycles + HPeriod) .. HPeriod
        OBVIOUS
      <3>5. CyclesLeft' = IBackup'
        BY <3>1, <3>2, <3>a DEF CyclesLeft
      <3>6. CyclesLeft' >= -(MaxBehind + 2 * MaxCycles)
        BY <3>2, <3>5
      <3>7. CpuTypeOK'
        BY <1>0, <3>1, <3>3, <3>4, <3>a DEF Cpu, CpuTypeOK
      <3>8. Behind'
        BY <3>1, <3>2, <3>6 DEF Behind
      <3> QED BY <3>7, <3>8 DEF Cpu
    <2>2. CASE ~(~IFF1 /\ ~afterEI)
      <3>1. /\ Count(ICount - c) /\ IBackup' = IBackup /\ IFF1' = IFF1 /\ halted' = halted
            /\ afterEI' = afterEI /\ IFF2' = IFF2
        BY <1>0, <1>4, <2>2 DEF EI
      <3> QED BY <1>0, <1>2, <3>1, CountKeepsBehind
    <2> QED BY <2>1, <2>2
  <1>5. CASE DI(c)
    <2>1. /\ IFF1' = FALSE /\ IFF2' = FALSE /\ afterEI' = FALSE
          /\ halted' = halted /\ IBackup' = IBackup
      BY <1>5 DEF DI
    <2>2. /\ ICount' = IF afterEI THEN ICount - c + IBackup - 1 ELSE ICount - c
          /\ at' = IF ICount' <= 0 THEN "expired" ELSE "fetch"
      BY <1>5 DEF DI, Count
    <2>3. ICount' = CyclesLeft - c /\ ICount' \in Int /\ CyclesLeft' = ICount'
      BY <1>0, <2>1, <2>2 DEF CyclesLeft
    <2>4. CyclesLeft <= HPeriod
      BY <1>0 DEF Cpu, Behind, CyclesLeft
    <2>5. ICount' \in -(MaxBehind + 2 * MaxCycles + HPeriod) .. HPeriod
      BY <1>0, <1>2, <2>3, <2>4
    <2>6. /\ at' \in {"fetch", "expired"}
          /\ at' = "expired" <=> ICount' <= 0
          /\ ICount' >= -(MaxBehind + 2 * MaxCycles)
          /\ at' # "expired" => ICount' >= -MaxBehind
      BY <1>2, <2>2, <2>3
    <2>a. halted' \in BOOLEAN /\ IBackup' \in -(MaxBehind + MaxCycles) .. HPeriod
      BY <1>0, <2>1 DEF Cpu, CpuTypeOK
    <2>b. IFF1' \in BOOLEAN /\ IFF2' \in BOOLEAN /\ afterEI' \in BOOLEAN
      BY <2>1
    <2>7. CpuTypeOK'
      BY <2>5, <2>6, <2>a, <2>b DEF CpuTypeOK
    <2>8. Behind'
      BY <2>1, <2>3, <2>6 DEF Behind
    <2> QED BY <2>7, <2>8 DEF Cpu
  <1>6. CASE RETN(c)
    BY <1>0, <1>2, <1>6, CountKeepsBehind DEF RETN
  <1> QED BY <1>3, <1>4, <1>5, <1>6

LEMMA ScanKeepsBehind == ASSUME NEW c \in Scans, Cpu, CPDR(c) PROVE Cpu'
  <1>1. /\ c \in Nat /\ 0 < c /\ CyclesLeft - c >= -MaxBehind
        /\ ICount \in Int /\ IBackup \in Int /\ CyclesLeft \in Int
        /\ IFF1 \in BOOLEAN /\ IFF2 \in BOOLEAN
    BY Numbers DEF CPDR, Cpu, CpuTypeOK, CyclesLeft
  <1>2. CyclesLeft - c >= -(MaxBehind + 2 * MaxCycles)
    BY <1>1, Numbers
  <1> QED BY <1>1, <1>2, CountKeepsBehind DEF CPDR

LEMMA HaltKeepsBehind == Cpu /\ HALT => Cpu'
  <1> SUFFICES ASSUME Cpu, HALT PROVE Cpu'
    OBVIOUS
  <1>1. /\ ICount' = 0 /\ IBackup' = 0 /\ at' = "expired" /\ halted' = TRUE
        /\ IFF1' = IFF1 /\ IFF2' = IFF2 /\ afterEI' = afterEI
    BY DEF HALT, Count
  <1>2. CyclesLeft' \in {0, -1}
    BY <1>1 DEF CyclesLeft
  <1>3. CyclesLeft' >= -(MaxBehind + 2 * MaxCycles)
    BY <1>2, Numbers
  <1>4. /\ 0 \in -(MaxBehind + MaxCycles) .. HPeriod
        /\ 0 \in -(MaxBehind + 2 * MaxCycles + HPeriod) .. HPeriod
    BY Numbers
  <1>5. CpuTypeOK'
    BY <1>1, <1>4 DEF Cpu, CpuTypeOK
  <1>6. Behind'
    BY <1>1, <1>3 DEF Behind
  <1> QED BY <1>5, <1>6 DEF Cpu

(* The end of a half line, and of EI's instruction.                        *)
LEMMA ExpiryKeepsBehind ==
  ASSUME Cpu, IntZ80, IBackup' = IBackup, at' \in {"fetch", "frame"},
         ICount' \in -MaxBehind .. HPeriod
  PROVE  Cpu'
  <1> USE Numbers
  <1>1. /\ afterEI' = FALSE /\ IFF1' \in BOOLEAN /\ IFF2' \in BOOLEAN
        /\ halted' \in BOOLEAN
    BY DEF IntZ80, Cpu, CpuTypeOK
  <1>2. /\ CyclesLeft' = ICount'
        /\ ICount' \in -(MaxBehind + 2 * MaxCycles + HPeriod) .. HPeriod
        /\ ICount' >= -MaxBehind /\ ICount' >= -(MaxBehind + 2 * MaxCycles)
    BY <1>1 DEF CyclesLeft
  <1>3. CpuTypeOK'
    BY <1>1, <1>2 DEF Cpu, CpuTypeOK
  <1>4. Behind'
    BY <1>1, <1>2 DEF Behind
  <1> QED BY <1>3, <1>4 DEF Cpu

LEMMA ResumeKeepsBehind == Cpu /\ ResumeHalf => Cpu'
  <1> SUFFICES ASSUME Cpu, ResumeHalf PROVE Cpu'
    OBVIOUS
  <1>1. CyclesLeft \in 1 .. HPeriod
    BY Numbers DEF ResumeHalf, Cpu, CpuTypeOK, Behind, CyclesLeft
  <1>2. CyclesLeft \in -MaxBehind .. HPeriod
    BY <1>1, Numbers
  <1> QED BY <1>2, ExpiryKeepsBehind DEF ResumeHalf

LEMMA LoopKeepsBehind ==
  ASSUME Cpu, NEW p \in Int, 2 * MaxCycles <= p, p <= HPeriod - 2 * MaxCycles,
         LoopZ80(p)
  PROVE  Cpu'
  <1> USE Numbers
  <1>1. /\ CyclesLeft \in Int /\ CyclesLeft <= 0
        /\ CyclesLeft >= -(MaxBehind + 2 * MaxCycles)
    BY DEF LoopZ80, Cpu, CpuTypeOK, Behind, CyclesLeft
  <1>2. ICount' \in -MaxBehind .. HPeriod
    BY <1>1 DEF LoopZ80
  <1> QED BY <1>2, ExpiryKeepsBehind DEF LoopZ80

(***************************************************************************)
(* The invariant.                                                          *)
(***************************************************************************)
LEMMA InitIInv == Init => IInv
  <1> SUFFICES ASSUME Init PROVE IInv
    OBVIOUS
  <1> USE Numbers
  <1>1. VdpTypeOK /\ IrqLines
    <2>1. VdpTypeOK
      <3>1. 0 \in 0 .. LastPal
        BY RasterNumbers
      <3> QED BY <3>1, Zenon DEF Init, VdpInit, VdpTypeOK
    <2>2. IrqLines
      BY Zenon DEF Init, VdpInit, IrqLines
    <2> QED BY <2>1, <2>2
  <1>2. Cpu
    <2>1. ICount \in Nat /\ 0 < ICount /\ ICount <= HPeriod
      BY DEF Init
    <2>2. /\ IBackup = 0 /\ at = "fetch"
          /\ IFF1 = FALSE /\ IFF2 = FALSE /\ afterEI = FALSE /\ halted = FALSE
      BY DEF Init
    <2>3. CyclesLeft = ICount
      BY <2>2 DEF CyclesLeft
    <2>4. /\ ICount \in -(MaxBehind + 2 * MaxCycles + HPeriod) .. HPeriod
          /\ IBackup \in -(MaxBehind + MaxCycles) .. HPeriod
      BY <2>1, <2>2
    <2>5. CpuTypeOK
      BY <2>2, <2>4 DEF CpuTypeOK
    <2>6. Behind
      BY <2>1, <2>2, <2>3 DEF Behind
    <2> QED BY <2>5, <2>6 DEF Cpu
  <1> QED BY <1>1, <1>2 DEF IInv, Cpu

LEMMA NextIInv == IInv /\ [Next]_vars => IInv'
  <1> SUFFICES ASSUME IInv, [Next]_vars PROVE IInv'
    OBVIOUS
  <1> VdpTypeOK /\ IrqLines /\ Cpu
    BY DEF IInv, Cpu
  <1>1. ASSUME NEW c \in Cycles, Instruction(c) PROVE IInv'
    <2>1. VdpTypeOK' /\ IrqLines'
      BY <1>1, PortTypes, PortLines, VdpStutters DEF Instruction
    <2> QED BY <1>1, <2>1, FetchKeepsBehind DEF IInv, Cpu
  <1>2. ASSUME NEW c \in Cycles, EI(c) \/ DI(c) \/ RETN(c) PROVE IInv'
    <2>1. VdpTypeOK' /\ IrqLines'
      BY <1>2, VdpStutters DEF EI, DI, RETN
    <2> QED BY <1>2, <2>1, FetchKeepsBehind DEF IInv, Cpu
  <1>3. CASE HALT
    <2>1. VdpTypeOK' /\ IrqLines'
      BY <1>3, VdpStutters DEF HALT
    <2> QED BY <1>3, <2>1, HaltKeepsBehind DEF IInv, Cpu
  <1>4. CASE ResumeHalf
    <2>1. VdpTypeOK' /\ IrqLines'
      BY <1>4, VdpStutters DEF ResumeHalf
    <2> QED BY <1>4, <2>1, ResumeKeepsBehind DEF IInv, Cpu
  <1>5. ASSUME NEW h \in HRefresh, LoopZ80Line(h) PROVE IInv'
    <2>1. VdpTypeOK' /\ IrqLines'
      BY <1>5, LineTypes, RasterLines DEF LoopZ80Line
    <2>2. Cpu'
      BY <1>5, Numbers, LoopKeepsBehind DEF LoopZ80Line
    <2> QED BY <2>1, <2>2 DEF IInv, Cpu
  <1>6. ASSUME NEW h \in HRefresh, LoopZ80Blank(h) PROVE IInv'
    <2>1. VdpTypeOK' /\ IrqLines'
      BY <1>6, LineTypes, RasterLines DEF LoopZ80Blank
    <2>2. /\ HPeriod - h \in Int /\ 2 * MaxCycles <= HPeriod - h
          /\ HPeriod - h <= HPeriod - 2 * MaxCycles
      BY Numbers
    <2>3. Cpu'
      BY <1>6, <2>2, LoopKeepsBehind DEF LoopZ80Blank
    <2> QED BY <2>1, <2>3 DEF IInv, Cpu
  <1>7. CASE NextFrame
    <2>1. VdpTypeOK' /\ IrqLines'
      BY <1>7, VdpStutters DEF NextFrame
    <2>2. Cpu'
      BY <1>7 DEF NextFrame, Cpu, CpuTypeOK, Behind, CyclesLeft
    <2> QED BY <2>1, <2>2 DEF IInv, Cpu
  <1>8. CASE UNCHANGED vars
    <2>1. VdpTypeOK' /\ IrqLines'
      BY <1>8, VdpStutters DEF vars
    <2>2. Cpu'
      BY <1>8 DEF vars, cpuVars, Cpu, CpuTypeOK, Behind, CyclesLeft
    <2> QED BY <2>1, <2>2 DEF IInv, Cpu
  <1>9. ASSUME NEW c \in Scans, CPDR(c) PROVE IInv'
    <2>1. VdpTypeOK' /\ IrqLines'
      BY <1>9, VdpStutters DEF CPDR
    <2> QED BY <1>9, <2>1, ScanKeepsBehind DEF IInv, Cpu
  <1> QED BY <1>1, <1>2, <1>3, <1>4, <1>5, <1>6, <1>7, <1>8, <1>9 DEF Next

LEMMA Invariance == Spec => []IInv
  BY InitIInv, NextIInv, PTL DEF Spec

(* The types and ranges, for every raster, every set of instruction times  *)
(* and CPDRs of any length: behind by MaxBehind and an EI, never further.  *)
THEOREM TypeCorrect == Spec => []TypeOK
  <1>1. IInv => TypeOK
    BY DEF IInv, CpuTypeOK, Behind, TypeOK
  <1> QED BY <1>1, Invariance, PTL

(* The CPU's request line is the one the flags and enables call for, after *)
(* every sequence of port accesses on any line.                            *)
THEOREM RequestFollowsFlags == Spec => []IrqLines
  <1>1. IInv => IrqLines
    BY DEF IInv
  <1> QED BY <1>1, Invariance, PTL

(* Each instruction is charged once and each half line granted once.       *)
LEMMA StepKeepsCycles ==
  IInv /\ [Next]_vars =>
    [/\ at = "fetch" /\ ~halted' => CyclesLeft - CyclesLeft' \in Cycles \union Scans
     /\ at = "expired" => CyclesLeft' - CyclesLeft
          \in IF HR' = HR THEN {0}
              ELSE IF HR THEN HRefresh ELSE {HPeriod - h : h \in HRefresh}]_vars
  <1> SUFFICES ASSUME IInv, Next
               PROVE  /\ at = "fetch" /\ ~halted' => CyclesLeft - CyclesLeft' \in Cycles \union Scans
                      /\ at = "expired" => CyclesLeft' - CyclesLeft
                           \in IF HR' = HR THEN {0}
                               ELSE IF HR THEN HRefresh
                                    ELSE {HPeriod - h : h \in HRefresh}
    OBVIOUS
  <1> USE Numbers
  <1>0. CyclesLeft \in Int /\ ICount \in Int /\ IBackup \in Int
    BY DEF IInv, CpuTypeOK, CyclesLeft
  <1>1. ASSUME NEW c \in Cycles, Instruction(c) \/ EI(c) \/ DI(c) \/ RETN(c)
        PROVE  at = "fetch" /\ CyclesLeft - CyclesLeft' = c
    <2>1. c \in Int
      OBVIOUS
    <2>3. CASE Instruction(c)
      BY <2>3, <1>0, <2>1 DEF Instruction, Count, CyclesLeft
    <2>4. CASE EI(c)
      <3>1. CASE ~IFF1 /\ ~afterEI
        <4>1. ICount' = 1 /\ IBackup' = ICount - c /\ afterEI' /\ at = "fetch"
          BY <2>4, <3>1 DEF EI, Count
        <4> QED BY <4>1, <3>1, <1>0, <2>1 DEF CyclesLeft
      <3>2. CASE ~(~IFF1 /\ ~afterEI)
        <4>1. ICount' = ICount - c /\ IBackup' = IBackup /\ at = "fetch"
          BY <2>4, <3>2 DEF EI, Count
        <4>2. afterEI' = afterEI
          BY <2>4, <3>2 DEF EI, IInv, CpuTypeOK
        <4> QED BY <4>1, <4>2, <1>0, <2>1 DEF CyclesLeft
      <3> QED BY <3>1, <3>2
    <2>5. CASE DI(c)
      BY <2>5, <1>0, <2>1 DEF DI, Count, CyclesLeft
    <2>6. CASE RETN(c)
      BY <2>6, <1>0, <2>1 DEF RETN, Count, CyclesLeft
    <2> QED BY <1>1, <2>3, <2>4, <2>5, <2>6
  <1>2. CASE HALT
    BY <1>2 DEF HALT, Count
  <1>3. CASE ResumeHalf
    <2>1. CyclesLeft' = CyclesLeft /\ HR' = HR /\ at = "expired"
      BY <1>3 DEF ResumeHalf, IntZ80, CyclesLeft, vdpVars, raster
    <2> QED BY <2>1, <1>0
  <1>4. ASSUME NEW h \in HRefresh, LoopZ80Line(h)
        PROVE  at = "expired" /\ HR /\ HR' # HR /\ CyclesLeft' - CyclesLeft = h
    <2>1. at = "expired" /\ ICount' = CyclesLeft + h /\ afterEI' = FALSE
      BY <1>4 DEF LoopZ80Line, LoopZ80, IntZ80
    <2>2. HR /\ HR' # HR
      BY <1>4, Zenon DEF LoopZ80Line, StartLine
    <2>3. CyclesLeft' = CyclesLeft + h
      BY <2>1 DEF CyclesLeft
    <2>4. CyclesLeft' - CyclesLeft = h
      BY <2>3, <1>0
    <2> QED BY <2>1, <2>2, <2>4
  <1>5. ASSUME NEW h \in HRefresh, LoopZ80Blank(h)
        PROVE  /\ at = "expired" /\ ~HR /\ HR' # HR
               /\ CyclesLeft' - CyclesLeft = HPeriod - h
    <2>1. HPeriod - h \in Int
      OBVIOUS
    <2>2. at = "expired" /\ ICount' = CyclesLeft + (HPeriod - h) /\ afterEI' = FALSE
      BY <1>5 DEF LoopZ80Blank, LoopZ80, IntZ80
    <2>3. ~HR /\ HR' # HR
      BY <1>5, Zenon DEF LoopZ80Blank, EndLine
    <2>4. CyclesLeft' = CyclesLeft + (HPeriod - h)
      BY <2>2 DEF CyclesLeft
    <2>5. CyclesLeft' - CyclesLeft = HPeriod - h
      BY <2>1, <2>4, <1>0
    <2> QED BY <2>2, <2>3, <2>5
  <1>6. CASE NextFrame
    BY <1>6 DEF NextFrame
  <1>7. ASSUME NEW c \in Scans, CPDR(c)
        PROVE  at = "fetch" /\ CyclesLeft - CyclesLeft' = c
    <2>1. c \in Int
      OBVIOUS
    <2> QED BY <1>7, <1>0, <2>1 DEF CPDR, Count, CyclesLeft
  <1> QED BY <1>1, <1>2, <1>3, <1>4, <1>5, <1>6, <1>7 DEF Next

THEOREM TimeIsKept == Spec => CyclesKept
  <1>1. [][IInv /\ [Next]_vars =>
     [/\ at = "fetch" /\ ~halted' => CyclesLeft - CyclesLeft' \in Cycles \union Scans
      /\ at = "expired" => CyclesLeft' - CyclesLeft
          \in IF HR' = HR THEN {0}
              ELSE IF HR THEN HRefresh ELSE {HPeriod - h : h \in HRefresh}]_vars]_vars
    BY StepKeepsCycles, PTL
  <1> QED BY StepKeepsCycles, Invariance, PTL DEF Spec, CyclesKept

(***************************************************************************)
(* The history of a frame.                                                 *)
(***************************************************************************)
LEMMA HistoryStutters == [MCNext]_mcVars => [Next]_vars
  BY DEF MCNext, mcVars

LEMMA HistoryInvariance == MCSpec => []IInv
  <1>1. MCSpec => Spec
    <2>1. MCInit => Init
      BY DEF MCInit
    <2> QED BY <2>1, HistoryStutters, PTL DEF MCSpec, Spec
  <1> QED BY <1>1, Invariance, PTL

LEMMA Lines ==
  ASSUME VdpTypeOK
  PROVE  /\ ScanLine \in Nat /\ Bottom \in Nat /\ VBlankLine \in Nat
         /\ ExitLine \in Nat /\ 0 < ExitLine
         /\ 0 < Bottom /\ Bottom < VBlankLine
         /\ LastLine \in Nat /\ 0 < LastLine
  <1>1. /\ LastNtsc \in Nat /\ LastPal \in Nat /\ LastNtsc < LastPal
        /\ ExitLine \in 1 .. LastNtsc - 1 /\ Bottom212 \in ExitLine + 1 .. LastNtsc
    BY RasterAssumption
  <1>2. <<lines212, pal>> \in BOOLEAN \X BOOLEAN
    BY DEF VdpTypeOK
  <1>3. VBlankLine \in Bottom212 + 1 .. LastNtsc
    BY <1>2, RasterAssumption DEF VBlankLine
  <1>4. ExitLine \in Nat /\ 0 < ExitLine /\ ExitLine < LastNtsc
    BY <1>1
  <1>5. Bottom212 \in Nat /\ ExitLine < Bottom212
    BY <1>1
  <1>6. VBlankLine \in Nat /\ Bottom212 < VBlankLine
    BY <1>1, <1>3, <1>5
  <1>7. Bottom \in Nat /\ 0 < Bottom /\ Bottom < VBlankLine
    BY <1>4, <1>5, <1>6 DEF Bottom
  <1>8. LastLine \in Nat /\ 0 < LastLine
    BY <1>1, <1>4 DEF LastLine
  <1>9. ScanLine \in Nat
    BY <1>1 DEF VdpTypeOK
  <1> QED BY <1>4, <1>6, <1>7, <1>8, <1>9

(* The first half of a line: a new frame begins with a picture and no      *)
(* blank, and a line that is past some line has been past its blank.       *)
LEMMA StartShape ==
  ASSUME VdpTypeOK, StartLine
  PROVE  /\ NewFrame => /\ ~VR' /\ Drawing'
                        /\ \A l \in Nat : ~PastBlank(l)'
         /\ ~NewFrame => /\ VR' = VR /\ Drawing' = Drawing
                         /\ \A l \in Nat : PastBlank(l)' <=> PastBlank(l)
         /\ UNCHANGED registers
  <1>1. /\ HR /\ ~HR' /\ ScanLine' = NextLine /\ UNCHANGED registers
        /\ Drawing' = (Drawing \/ NextLine = 0) /\ VR' = (VR /\ NextLine # 0)
    BY DEF StartLine
  <1>2. ScanLine \in Nat /\ LastLine \in Nat /\ 0 < LastLine
    BY Lines
  <1>3. NewFrame <=> NextLine = 0
    BY <1>1, <1>2 DEF NewFrame, NextLine
  <1>4. NextLine = 0 \/ NextLine = ScanLine + 1
    BY DEF NextLine
  <1>5. CASE NextLine = 0
    <2>1. \A l \in Nat : ~PastBlank(l)'
      BY <1>1, <1>5 DEF PastBlank
    <2> QED BY <1>1, <1>3, <1>5, <2>1
  <1>6. CASE NextLine # 0
    <2>1. ScanLine' = ScanLine + 1
      BY <1>1, <1>4, <1>6
    <2>2. \A l \in Nat : PastBlank(l)' <=> PastBlank(l)
      BY <1>1, <1>2, <2>1 DEF PastBlank
    <2>3. VR' = VR /\ Drawing' = Drawing
      BY <1>1, <1>6 DEF VdpTypeOK
    <2> QED BY <1>1, <1>3, <1>6, <2>2, <2>3
  <1> QED BY <1>5, <1>6

LEMMA EndShape ==
  ASSUME VdpTypeOK, EndLine
  PROVE  /\ ~NewFrame /\ HR' /\ ScanLine' = ScanLine /\ UNCHANGED registers
         /\ \A l \in Nat : /\ PastBlank(l) <=> ScanLine > l
                           /\ PastBlank(l)' <=> ScanLine >= l
         /\ Drawing' <=> Drawing /\ ScanLine # Bottom
         /\ VR' <=> VR \/ (~Drawing' /\ ScanLine = VBlankLine)
  <1>1. /\ ~HR /\ HR' /\ ScanLine' = ScanLine /\ UNCHANGED registers
        /\ Drawing' = (Drawing /\ ScanLine # Bottom)
        /\ VR' = (VR \/ (~(Drawing /\ ScanLine # Bottom) /\ ScanLine = VBlankLine))
    BY DEF EndLine
  <1>2. ScanLine \in Nat
    BY Lines
  <1>3. \A l \in Nat : /\ PastBlank(l) <=> ScanLine > l
                       /\ PastBlank(l)' <=> ScanLine >= l
    BY <1>1, <1>2 DEF PastBlank
  <1> QED BY <1>1, <1>3 DEF NewFrame

(* What is not a half line leaves the raster; register 9 ends the steady   *)
(* part of a frame.                                                        *)
LEMMA OtherShape ==
  ASSUME VdpTypeOK, FrameShape, UNCHANGED raster,
         steady' => steady /\ lines212' = lines212 /\ pal' = pal,
         exited' <=> exited,
         at' = "frame" => at = "frame"
  PROVE  FrameShape'
  <1>1. steady' => steady /\ VBlankLine' = VBlankLine /\ Bottom' = Bottom
    BY DEF VBlankLine, Bottom
  <1>2. PastBlank(ExitLine)' <=> PastBlank(ExitLine)
    BY DEF PastBlank, raster
  <1>3. steady' => /\ PastBlank(VBlankLine)' <=> PastBlank(VBlankLine)
                   /\ PastBlank(Bottom)' <=> PastBlank(Bottom)
    BY <1>1 DEF PastBlank, raster
  <1> QED BY <1>1, <1>2, <1>3 DEF FrameShape, raster

LEMMA StartKeepsShape ==
  ASSUME VdpTypeOK, FrameShape, StartLine, NEW h, LoopZ80(h),
         steady' = ((steady \/ NewFrame) /\ lines212' = lines212 /\ pal' = pal),
         exited' = ((exited \/ at' = "frame") /\ ~NewFrame)
  PROVE  FrameShape'
  <1>1. /\ ExitLine \in Nat /\ VBlankLine \in Nat /\ Bottom \in Nat
    BY Lines
  <1>2. /\ VBlankLine' = VBlankLine /\ Bottom' = Bottom
        /\ lines212' = lines212 /\ pal' = pal
    BY StartShape DEF registers, VBlankLine, Bottom
  <1>3. at' = "fetch"
    BY DEF LoopZ80, ExitsFrame, StartLine
  <1>4. /\ PastBlank(VBlankLine)' <=> (ScanLine' > VBlankLine \/ (ScanLine' = VBlankLine /\ HR'))
        /\ PastBlank(Bottom)' <=> (ScanLine' > Bottom \/ (ScanLine' = Bottom /\ HR'))
        /\ PastBlank(ExitLine)' <=> (ScanLine' > ExitLine \/ (ScanLine' = ExitLine /\ HR'))
    BY <1>2 DEF PastBlank
  <1>5. \A l \in Nat : PastBlank(l)' <=> (ScanLine' > l \/ (ScanLine' = l /\ HR'))
    BY DEF PastBlank
  <1>6. CASE NewFrame
    BY <1>1, <1>3, <1>4, <1>5, <1>6, StartShape DEF FrameShape
  <1>7. CASE ~NewFrame
    <2>1. VR' = VR /\ Drawing' = Drawing
      BY <1>7, StartShape
    <2>2. /\ PastBlank(VBlankLine)' <=> PastBlank(VBlankLine)
          /\ PastBlank(Bottom)' <=> PastBlank(Bottom)
          /\ PastBlank(ExitLine)' <=> PastBlank(ExitLine)
      BY <1>1, <1>4, <1>5, <1>7, StartShape
    <2>3. (steady' => steady) /\ (exited' <=> exited)
      BY <1>3, <1>7
    <2> QED BY <1>3, <2>1, <2>2, <2>3 DEF FrameShape
  <1> QED BY <1>6, <1>7

LEMMA EndKeepsShape ==
  ASSUME VdpTypeOK, FrameShape, EndLine, NEW h, LoopZ80(h),
         steady' = ((steady \/ NewFrame) /\ lines212' = lines212 /\ pal' = pal),
         exited' = ((exited \/ at' = "frame") /\ ~NewFrame)
  PROVE  FrameShape'
  <1>1. /\ ScanLine \in Nat /\ ExitLine \in Nat /\ VBlankLine \in Nat /\ Bottom \in Nat
        /\ Bottom < VBlankLine
    BY Lines
  <1>2. /\ ~NewFrame /\ HR' /\ ScanLine' = ScanLine
        /\ VBlankLine' = VBlankLine /\ Bottom' = Bottom
    BY EndShape DEF registers, VBlankLine, Bottom
  <1>3. /\ PastBlank(VBlankLine)' <=> ScanLine >= VBlankLine
        /\ PastBlank(Bottom)' <=> ScanLine >= Bottom
        /\ PastBlank(ExitLine)' <=> ScanLine >= ExitLine
    BY <1>1, <1>2 DEF PastBlank
  <1>4. /\ PastBlank(VBlankLine) <=> ScanLine > VBlankLine
        /\ PastBlank(Bottom) <=> ScanLine > Bottom
        /\ PastBlank(ExitLine) <=> ScanLine > ExitLine
    BY <1>1, EndShape
  <1>5. at' = "frame" <=> ScanLine = ExitLine
    BY DEF LoopZ80, ExitsFrame, EndLine
  <1>6. exited' <=> ScanLine >= ExitLine
    <2>1. exited' <=> ScanLine > ExitLine \/ ScanLine = ExitLine
      BY <1>2, <1>4, <1>5, Zenon DEF FrameShape
    <2> QED BY <1>1, <2>1
  <1>7. steady' => (Drawing' <=> ~(ScanLine >= Bottom))
    <2>1. steady' => (Drawing' <=> ~(ScanLine > Bottom) /\ ScanLine # Bottom)
      BY <1>2, <1>4, EndShape, Zenon DEF FrameShape
    <2>2. ~(ScanLine > Bottom) /\ ScanLine # Bottom <=> ~(ScanLine >= Bottom)
      BY <1>1
    <2> QED BY <2>1, <2>2, Zenon
  <1>8. steady' => (VR' <=> ScanLine >= VBlankLine)
    <2>1. VR' <=> VR \/ (~Drawing' /\ ScanLine = VBlankLine)
      BY EndShape, Zenon
    <2>2. steady' => (VR <=> ScanLine > VBlankLine)
      BY <1>2, <1>4, Zenon DEF FrameShape
    <2>3. ScanLine = VBlankLine => ScanLine >= Bottom
      BY <1>1
    <2>4. ScanLine > VBlankLine \/ ScanLine = VBlankLine <=> ScanLine >= VBlankLine
      BY <1>1
    <2> QED BY <1>7, <2>1, <2>2, <2>3, <2>4, Zenon
  <1> QED BY <1>2, <1>3, <1>5, <1>6, <1>7, <1>8 DEF FrameShape

LEMMA NextShape == IInv /\ FrameShape /\ [MCNext]_mcVars => FrameShape'
  <1> SUFFICES ASSUME IInv, FrameShape, [MCNext]_mcVars PROVE FrameShape'
    OBVIOUS
  <1>1. VdpTypeOK /\ CpuTypeOK
    BY DEF IInv
  <1>2. CASE UNCHANGED mcVars
    <2>1. /\ UNCHANGED raster /\ exited' = exited /\ at' = at
          /\ steady' = steady /\ lines212' = lines212 /\ pal' = pal
      BY <1>2 DEF mcVars, vars, vdpVars, registers, cpuVars
    <2> QED BY <1>1, <2>1, OtherShape
  <1>3. CASE MCNext
    <2>1. /\ steady' = ((steady \/ NewFrame) /\ lines212' = lines212 /\ pal' = pal)
          /\ exited' = ((exited \/ at' = "frame") /\ ~NewFrame)
      BY <1>3 DEF MCNext
    <2>2. ASSUME UNCHANGED raster, at' # "frame" PROVE FrameShape'
      <3>1. ~NewFrame
        BY <2>2 DEF NewFrame, raster
      <3>2. steady' => steady /\ lines212' = lines212 /\ pal' = pal
        BY <2>1, <3>1
      <3>3. exited' <=> exited
        BY <2>1, <2>2, <3>1
      <3> QED BY <1>1, <2>2, <3>2, <3>3, OtherShape
    <2>3. ASSUME NEW c \in Cycles, Instruction(c) PROVE FrameShape'
      BY <2>2, <2>3 DEF Instruction, Count, vdpVars, raster, PortAccess,
                        WriteR0, WriteR1, WriteR9, WriteHLine, ReadS0, ReadS1
    <2>4. ASSUME NEW c \in Cycles, EI(c) \/ DI(c) \/ RETN(c) PROVE FrameShape'
      BY <2>2, <2>4 DEF EI, DI, RETN, Count, vdpVars
    <2>8. ASSUME NEW c \in Scans, CPDR(c) PROVE FrameShape'
      BY <2>2, <2>8 DEF CPDR, Count, vdpVars
    <2>5. CASE HALT \/ ResumeHalf \/ NextFrame
      BY <2>2, <2>5 DEF HALT, ResumeHalf, NextFrame, Count, vdpVars
    <2>6. ASSUME NEW h \in HRefresh, LoopZ80Line(h) PROVE FrameShape'
      BY <1>1, <2>1, <2>6, StartKeepsShape DEF LoopZ80Line
    <2>7. ASSUME NEW h \in HRefresh, LoopZ80Blank(h) PROVE FrameShape'
      BY <1>1, <2>1, <2>7, EndKeepsShape DEF LoopZ80Blank
    <2> QED BY <1>3, <2>3, <2>4, <2>5, <2>6, <2>7, <2>8 DEF MCNext, Next
  <1> QED BY <1>2, <1>3

LEMMA InitShape == MCInit => FrameShape
  <1> SUFFICES ASSUME MCInit PROVE FrameShape
    OBVIOUS
  <1>1. ScanLine = 0 /\ ~steady /\ ~exited /\ at = "fetch"
    BY DEF MCInit, Init, VdpInit
  <1>2. ExitLine \in Nat /\ 0 < ExitLine
    BY RasterAssumption
  <1>3. ~PastBlank(ExitLine)
    BY <1>1, <1>2 DEF PastBlank
  <1> QED BY <1>1, <1>3 DEF FrameShape

(* One vertical blank and one end of the picture in a frame whose height   *)
(* is left alone, and one return of RunZ80 in every frame, for every       *)
(* raster and whatever the program does to register 9.                     *)
THEOREM FramesHaveShape == MCSpec => []FrameShape
  <1>1. IInv /\ FrameShape /\ [MCNext]_mcVars => FrameShape'
    BY NextShape
  <1> QED BY <1>1, InitShape, HistoryInvariance, PTL DEF MCSpec

(* EI leaves one cycle, so that the count cannot expire on EI itself: with *)
(* armed, the next instruction is still to be fetched.                     *)
Fetching == armed => at = "fetch" /\ IFF2

LEMMA NextFetching == Fetching /\ [MCNext]_mcVars => Fetching'
  <1> SUFFICES ASSUME Fetching, [MCNext]_mcVars PROVE Fetching'
    OBVIOUS
  <1>1. CASE UNCHANGED mcVars
    BY <1>1 DEF mcVars, vars, cpuVars, Fetching
  <1>2. CASE MCNext /\ at # "fetch"
    BY <1>2 DEF MCNext, Fetching
  <1>3. CASE MCNext /\ at = "fetch"
    <2>1. armed' = (~IFF2 /\ IFF2')
      BY <1>3 DEF MCNext
    <2>2. ASSUME NEW c \in Cycles, EI(c), ~IFF2, IFF2' PROVE at' = "fetch"
      <3>1. ~IFF1 /\ ~afterEI
        BY <2>2, Zenon DEF EI
      <3>2. at' = IF 1 <= 0 THEN "expired" ELSE "fetch"
        BY <2>2, <3>1 DEF EI, Count
      <3> QED BY <3>2
    <2>3. ASSUME NEW c \in Cycles, Instruction(c) \/ DI(c) \/ RETN(c)
          PROVE  ~IFF2 => ~IFF2'
      BY <2>3 DEF Instruction, DI, RETN
    <2>4. HALT \/ NextFrame \/ (\E c \in Scans : CPDR(c)) => IFF2' = IFF2
      BY DEF HALT, NextFrame, CPDR
    <2>5. ~ResumeHalf /\ \A h \in HRefresh : ~LoopZ80Line(h) /\ ~LoopZ80Blank(h)
      BY <1>3 DEF ResumeHalf, LoopZ80Line, LoopZ80Blank, LoopZ80
    <2>6. \/ \E c \in Cycles : Instruction(c) \/ EI(c) \/ DI(c) \/ RETN(c)
          \/ HALT \/ NextFrame \/ \E c \in Scans : CPDR(c)
      BY <1>3, <2>5 DEF MCNext, Next
    <2>7. ~IFF2 /\ IFF2' => at' = "fetch"
      BY <2>2, <2>3, <2>4, <2>6, Zenon
    <2> QED BY <2>1, <2>7, Zenon DEF Fetching
  <1> QED BY <1>1, <1>2, <1>3

(* No interrupt is taken between an EI that arms and the instruction after *)
(* it, however the end of the half line falls.                             *)
THEOREM EICastsShadow == MCSpec => ShadowOfEI
  <1>1. MCInit => Fetching
    BY DEF MCInit, Fetching
  <1>2. Fetching =>
          [armed => ~(at = "expired" /\ (IFF1 \/ afterEI) /\ ~IFF1')]_mcVars
    BY DEF Fetching
  <1> QED BY <1>1, <1>2, NextFetching, PTL DEF MCSpec, ShadowOfEI

(***************************************************************************)
(* LoopZ80 is on time but for a CPDR that has overrun.                     *)
(***************************************************************************)

\* While it is, EI has put aside what the half line had left, less its cycles.
Punctual ==
  /\ Periodic
  /\ afterEI /\ at # "expired" => IBackup > -MaxCycles

LEMMA LeftIsNumber == Cpu => CyclesLeft \in Int
  BY Numbers DEF Cpu, CpuTypeOK, CyclesLeft

(* Once there are cycles left, the CPU has caught up.                      *)
LEMMA CaughtUp == Cpu /\ CyclesLeft > 0 => Punctual
  <1> SUFFICES ASSUME Cpu, CyclesLeft > 0 PROVE Punctual
    OBVIOUS
  <1>1. ICount \in Int /\ IBackup \in Int
    BY Numbers DEF Cpu, CpuTypeOK
  <1>2. CASE afterEI
    <2>1. CyclesLeft = ICount + IBackup - 1
      BY <1>2 DEF CyclesLeft
    <2>2. at # "expired" => ICount = 1 /\ IBackup > 0
      BY <1>1, <1>2, <2>1 DEF Cpu, Behind
    <2> QED BY <1>1, <2>1, <2>2, Numbers DEF Punctual, Periodic
  <1>3. CASE ~afterEI
    BY <1>1, <1>3, Numbers DEF Punctual, Periodic, CyclesLeft
  <1> QED BY <1>2, <1>3

LEMMA FetchKeepsTime ==
  ASSUME NEW c \in Cycles, Cpu, Punctual,
         Instruction(c) \/ EI(c) \/ DI(c) \/ RETN(c)
  PROVE  Punctual'
  <1> USE Numbers
  <1>0. /\ c \in Nat /\ c <= MaxCycles /\ at = "fetch"
        /\ ICount \in Int /\ IBackup \in Int /\ CyclesLeft \in Int
        /\ afterEI \in BOOLEAN /\ ICount > 0
    BY DEF Cpu, CpuTypeOK, Punctual, Periodic, Instruction, EI, DI, RETN, Count, CyclesLeft
  <1>1. afterEI => ICount = 1 /\ IBackup > -MaxCycles /\ CyclesLeft = IBackup
    BY <1>0 DEF Cpu, Behind, Punctual, CyclesLeft
  <1>2. CyclesLeft - c > -2 * MaxCycles
    BY <1>0, <1>1 DEF CyclesLeft
  <1>3. ASSUME Count(ICount - c), afterEI' = afterEI, IBackup' = IBackup PROVE Punctual'
    <2>1. ICount' = ICount - c /\ (at' # "expired" => ICount' > 0)
      BY <1>0, <1>3 DEF Count
    <2>2. CyclesLeft' = CyclesLeft - c
      BY <1>0, <1>3, <2>1 DEF CyclesLeft
    <2>3. afterEI' => IBackup' > -MaxCycles
      BY <1>1, <1>3
    <2> QED BY <1>2, <2>1, <2>2, <2>3 DEF Punctual, Periodic
  <1>4. CASE Instruction(c) \/ RETN(c)
    BY <1>3, <1>4 DEF Instruction, RETN
  <1>5. CASE EI(c)
    <2>1. CASE ~IFF1 /\ ~afterEI
      <3>1. ICount' = 1 /\ at' = "fetch" /\ IBackup' = ICount - c
        BY <1>5, <2>1 DEF EI, Count
      <3>a. afterEI' = TRUE
        BY <1>5, <2>1, Zenon DEF EI
      <3>2. IBackup' > -MaxCycles /\ IBackup' \in Int
        BY <1>0, <3>1
      <3>3. CyclesLeft' = IBackup'
        BY <3>1, <3>2, <3>a DEF CyclesLeft
      <3>4. CyclesLeft' > -2 * MaxCycles
        BY <3>2, <3>3
      <3> QED BY <3>1, <3>2, <3>4 DEF Punctual, Periodic
    <2>2. CASE ~(~IFF1 /\ ~afterEI)
      BY <1>0, <1>3, <1>5, <2>2 DEF EI
    <2> QED BY <2>1, <2>2
  <1>6. CASE DI(c)
    <2>1. /\ ICount' = IF afterEI THEN ICount - c + IBackup - 1 ELSE ICount - c
          /\ at' = (IF ICount' <= 0 THEN "expired" ELSE "fetch") /\ afterEI' = FALSE
      BY <1>6 DEF DI, Count
    <2>2. ICount' = CyclesLeft - c /\ CyclesLeft' = ICount' /\ ICount' \in Int
      BY <1>0, <2>1 DEF CyclesLeft
    <2> QED BY <1>2, <2>1, <2>2 DEF Punctual, Periodic
  <1> QED BY <1>4, <1>5, <1>6

LEMMA HaltKeepsTime == Punctual /\ HALT => Punctual'
  <1> SUFFICES ASSUME HALT PROVE Punctual'
    OBVIOUS
  <1>1. ICount' = 0 /\ IBackup' = 0 /\ at' = "expired"
    BY DEF HALT, Count
  <1>2. CyclesLeft' \in {0, -1}
    BY <1>1 DEF CyclesLeft
  <1>3. CyclesLeft' > -2 * MaxCycles
    BY <1>2, Numbers
  <1> QED BY <1>1, <1>3 DEF Punctual, Periodic

(* A half line brings more than the CPU is late.                           *)
LEMMA ExpiryCatchesUp ==
  ASSUME Cpu, Punctual,
         \/ ResumeHalf
         \/ \E p \in Int : 2 * MaxCycles <= p /\ LoopZ80(p)
  PROVE  CyclesLeft' > 0
  <1>1. CyclesLeft \in Int /\ CyclesLeft > -2 * MaxCycles
    BY Numbers DEF Cpu, CpuTypeOK, Punctual, Periodic, CyclesLeft
  <1>2. CASE ResumeHalf
    <2>1. ICount' = CyclesLeft /\ afterEI' = FALSE /\ CyclesLeft > 0
      BY <1>2 DEF ResumeHalf, IntZ80
    <2> QED BY <2>1 DEF CyclesLeft
  <1>3. ASSUME NEW p \in Int, 2 * MaxCycles <= p, LoopZ80(p) PROVE CyclesLeft' > 0
    <2>1. ICount' = CyclesLeft + p /\ afterEI' = FALSE
      BY <1>3 DEF LoopZ80, IntZ80
    <2>2. CyclesLeft' = CyclesLeft + p
      BY <2>1 DEF CyclesLeft
    <2> QED BY <1>1, <1>3, <2>2, Numbers
  <1> QED BY <1>2, <1>3

LEMMA NextPunctual ==
  IInv /\ IInv' /\ (~overrun => Punctual) /\ [MCNext]_mcVars => (~overrun => Punctual)'
  <1> SUFFICES ASSUME IInv, IInv', ~overrun => Punctual, [MCNext]_mcVars, ~overrun'
               PROVE  Punctual'
    OBVIOUS
  <1>0. Cpu /\ Cpu'
    BY DEF IInv, Cpu
  <1>1. CASE CyclesLeft' > 0
    <2>1. (Cpu /\ CyclesLeft > 0 => Punctual)'
      BY CaughtUp, PTL
    <2> QED BY <1>0, <1>1, <2>1
  <1>2. CASE ~(CyclesLeft' > 0)
    <2>a. (Cpu => CyclesLeft \in Int)'
      BY LeftIsNumber, PTL
    <2>0. CyclesLeft' <= 0
      BY <1>0, <1>2, <2>a
    <2>1. CASE UNCHANGED mcVars
      <3>1. overrun' = overrun /\ UNCHANGED cpuVars
        BY <2>1 DEF mcVars, vars
      <3> QED BY <3>1 DEF Punctual, Periodic, CyclesLeft, cpuVars
    <2>2. CASE MCNext
      <3>1. ~overrun /\ ~\E c \in Scans : CPDR(c)
        BY <2>0, <2>2 DEF MCNext
      <3>2. Punctual
        BY <3>1
      <3>3. ASSUME NEW c \in Cycles, Instruction(c) \/ EI(c) \/ DI(c) \/ RETN(c)
            PROVE  Punctual'
        BY <1>0, <3>2, <3>3, FetchKeepsTime
      <3>4. CASE HALT
        BY <3>2, <3>4, HaltKeepsTime
      <3>5. ~ResumeHalf
        BY <1>0, <1>2, <3>2, ExpiryCatchesUp
      <3>6. ASSUME NEW h \in HRefresh PROVE ~LoopZ80Line(h) /\ ~LoopZ80Blank(h)
        <4>1. /\ h \in Int /\ HPeriod - h \in Int
              /\ 2 * MaxCycles <= h /\ 2 * MaxCycles <= HPeriod - h
          BY Numbers
        <4> QED BY <1>0, <1>2, <3>2, <4>1, ExpiryCatchesUp DEF LoopZ80Line, LoopZ80Blank
      <3>7. CASE NextFrame
        BY <3>2, <3>7 DEF NextFrame, Punctual, Periodic, CyclesLeft
      <3> QED BY <2>2, <3>1, <3>3, <3>4, <3>5, <3>6, <3>7 DEF MCNext, Next
    <2> QED BY <2>1, <2>2
  <1> QED BY <1>1, <1>2

(* LoopZ80 is less than two instructions late, whatever EI, DI and HALT do *)
(* to the count, unless a CPDR has overrun; and then from when the half    *)
(* lines it has held up have been called for.                              *)
THEOREM HandlerOnTime == MCSpec => []OnTime
  <1>1. MCInit => (~overrun => Punctual)
    <2> SUFFICES ASSUME MCInit PROVE Punctual
      OBVIOUS
    <2>1. Cpu
      BY InitIInv DEF MCInit, IInv, Cpu
    <2>2. afterEI = FALSE /\ ICount \in HRefresh
      BY DEF MCInit, Init
    <2>3. CyclesLeft > 0
      BY <2>2, Numbers DEF CyclesLeft
    <2> QED BY <2>1, <2>3, CaughtUp
  <1>2. IInv /\ (~overrun => Punctual) => OnTime
    BY DEF IInv, Behind, Punctual, OnTime
  <1> QED BY <1>1, <1>2, NextPunctual, HistoryInvariance, PTL DEF MCSpec
=============================================================================
