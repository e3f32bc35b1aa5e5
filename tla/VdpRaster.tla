----------------------------- MODULE VdpRaster -----------------------------
(***************************************************************************)
(* The emulated VDP as the Z80 sees it between two instructions: the scan  *)
(* line LoopZ80 counts in halves, the flags F and FH of its status         *)
(* registers, the two interrupts they raise and the registers that arm     *)
(* them, in fmsx.c (LoopZ80, SetIRQ, VDPOut, the status port of InZ80).    *)
(*                                                                         *)
(* Register 19 less register 23 decides on which line FH is set; hline is  *)
(* that line.  Sprite flags, the blink counter, the drawing of a line and  *)
(* the frame skip of UCount leave this state alone.                        *)
(***************************************************************************)
EXTENDS Integers

CONSTANTS
  LastNtsc, LastPal,   \* 261 and 312
  ExitLine,            \* 192, of the sound, the keyboard and the end of RunZ80
  Bottom212,           \* 212; the other mode's bottom is ExitLine
  VBlank,              \* [lines212, pal -> first line of the vertical blank]
  CoincidenceEnd,      \* [lines212, pal -> first line without coincidence]
  HLines               \* the lines a program may ask to be told of

ASSUME RasterAssumption ==
  /\ LastNtsc \in Nat /\ LastPal \in Nat /\ LastNtsc < LastPal
  /\ ExitLine \in 1 .. LastNtsc - 1
  /\ Bottom212 \in ExitLine + 1 .. LastNtsc
  /\ VBlank \in [BOOLEAN \X BOOLEAN -> Bottom212 + 1 .. LastNtsc]
  /\ CoincidenceEnd \in [BOOLEAN \X BOOLEAN -> 1 .. LastNtsc]
  /\ HLines \subseteq Nat

VARIABLES
  ScanLine,
  HR,          \* VDPStatus[2] & 20h: in horizontal blank
  VR,          \* VDPStatus[2] & 40h: in vertical blank
  Drawing,
  F,           \* VDPStatus[0] & 80h
  FH,          \* VDPStatus[1] & 01h
  ie0,         \* VDP[1] & 20h
  ie1,         \* VDP[0] & 10h
  lines212,    \* VDP[9] & 80h
  pal,         \* VDP[9] & 02h
  hline,
  IRQPending,
  IRequest     \* CPU.IRequest is INT_IRQ

raster == <<ScanLine, HR, VR, Drawing>>
registers == <<ie0, ie1, lines212, pal, hline>>
vdpVars == <<raster, F, FH, registers, IRQPending, IRequest>>

IE0 == "IE0"
IE1 == "IE1"

LastLine == IF pal THEN LastPal ELSE LastNtsc
Bottom == IF lines212 THEN Bottom212 ELSE ExitLine
VBlankLine == VBlank[<<lines212, pal>>]
CoincidenceLines == CoincidenceEnd[<<lines212, pal>>]

VdpInit ==
  /\ ScanLine = 0
  /\ HR = TRUE
  /\ VR = TRUE
  /\ Drawing = FALSE
  /\ F = TRUE
  /\ FH = FALSE
  /\ ie0 = FALSE /\ ie1 = FALSE
  /\ lines212 = FALSE /\ pal = FALSE
  /\ hline \in HLines
  /\ IRQPending = {}
  /\ IRequest = FALSE

SetIRQ(irqs) ==
  /\ IRQPending' = irqs
  /\ IRequest' = (irqs # {})

(***************************************************************************)
(* What a program does to the VDP.                                         *)
(***************************************************************************)

\* Mutant: the flag goes and its interrupt stays.
WriteR0_Stays(en) ==
  /\ FH' = (FH /\ en)
  /\ SetIRQ(IRQPending)
  /\ ie1' = en
  /\ UNCHANGED <<raster, F, ie0, lines212, pal, hline>>

\* VDPOut(0): FH goes when its interrupt is turned off.
WriteR0(en) ==
  /\ FH' = (FH /\ en)
  /\ SetIRQ(IF FH /\ ~en THEN IRQPending \ {IE1} ELSE IRQPending)
  /\ ie1' = en
  /\ UNCHANGED <<raster, F, ie0, lines212, pal, hline>>

\* VDPOut(1): the interrupt of a flag that is still set comes at once.
WriteR1(en) ==
  /\ SetIRQ(IF ~F THEN IRQPending
            ELSE IF en THEN IRQPending \union {IE0} ELSE IRQPending \ {IE0})
  /\ ie0' = en
  /\ UNCHANGED <<raster, F, FH, ie1, lines212, pal, hline>>

\* VDPOut(9): a program may change the height of the picture on any line.
WriteR9 ==
  /\ lines212' \in BOOLEAN /\ pal' \in BOOLEAN
  /\ UNCHANGED <<raster, F, FH, ie0, ie1, hline, IRQPending, IRequest>>

\* VDPOut(19) and VDPOut(23)
WriteHLine ==
  /\ hline' \in HLines
  /\ UNCHANGED <<raster, F, FH, ie0, ie1, lines212, pal, IRQPending, IRequest>>

ReadS0 ==
  /\ F' = FALSE
  /\ SetIRQ(IRQPending \ {IE0})
  /\ UNCHANGED <<raster, FH, registers>>

ReadS1 ==
  /\ FH' = FALSE
  /\ SetIRQ(IRQPending \ {IE1})
  /\ UNCHANGED <<raster, F, registers>>

PortAccess ==
  \/ \E en \in BOOLEAN : WriteR0(en) \/ WriteR1(en)
  \/ WriteR9
  \/ WriteHLine
  \/ ReadS0
  \/ ReadS1

(***************************************************************************)
(* LoopZ80, which is called for each half of a line.                       *)
(***************************************************************************)
NextLine == IF ScanLine < LastLine THEN ScanLine + 1 ELSE 0

\* The line is drawn: it is counted and compared with hline.
StartLine ==
  LET coincides == NextLine < CoincidenceLines /\ NextLine = hline
      ends == NextLine = CoincidenceLines
      unwanted == NextLine < CoincidenceLines /\ ~ie1
  IN  /\ HR
      /\ HR' = FALSE
      /\ ScanLine' = NextLine
      /\ Drawing' = (Drawing \/ NextLine = 0)
      /\ VR' = (VR /\ NextLine # 0)
      /\ FH' = (coincides \/ (FH /\ ~ends /\ ~unwanted))
      /\ SetIRQ(IF coincides /\ ie1 THEN IRQPending \union {IE1}
                ELSE IF ends THEN IRQPending \ {IE1} ELSE IRQPending)
      /\ UNCHANGED <<F, registers>>

\* The horizontal blank: the vertical one starts in it.
EndLine ==
  LET drawing == Drawing /\ ScanLine # Bottom
      starts == ~drawing /\ ScanLine = VBlankLine
  IN  /\ ~HR
      /\ HR' = TRUE
      /\ Drawing' = drawing
      /\ VR' = (VR \/ starts)
      /\ F' = (F \/ starts)
      /\ SetIRQ(IF starts /\ ie0 THEN IRQPending \union {IE0} ELSE IRQPending)
      /\ UNCHANGED <<ScanLine, FH, registers>>

\* Mutant: the end of the frame moves with the bottom of the picture.
ExitsFrame_AtBottom == ~HR /\ ScanLine = Bottom

\* *ras = 1, always at line 192
ExitsFrame == ~HR /\ ScanLine = ExitLine

(***************************************************************************)
(* Properties.                                                             *)
(***************************************************************************)
VdpTypeOK ==
  /\ ScanLine \in 0 .. LastPal
  /\ HR \in BOOLEAN /\ VR \in BOOLEAN /\ Drawing \in BOOLEAN
  /\ F \in BOOLEAN /\ FH \in BOOLEAN
  /\ ie0 \in BOOLEAN /\ ie1 \in BOOLEAN
  /\ lines212 \in BOOLEAN /\ pal \in BOOLEAN
  /\ hline \in HLines
  /\ IRQPending \in SUBSET {IE0, IE1}
  /\ IRequest \in BOOLEAN

(* The request the CPU samples is always that of the flags and registers a *)
(* program can read and write, in whatever order it touches them: the      *)
(* blank's is up exactly while F is set and armed; the line's never        *)
(* without its flag and its enable, and no request outlives its cause.     *)
IrqLines ==
  /\ IE0 \in IRQPending <=> F /\ ie0
  /\ IE1 \in IRQPending => FH /\ ie1
  /\ IRequest <=> IRQPending # {}
=============================================================================
