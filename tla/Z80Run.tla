------------------------------- MODULE Z80Run -------------------------------
(***************************************************************************)
(* RunZ80 of Z80.c and the VDP: instructions spend the cycles of half a    *)
(* scan line, LoopZ80 is called when they are spent, and an interrupt is   *)
(* taken then.  EI keeps interrupts out for one more instruction by        *)
(* putting the cycles aside (IBackup) and leaving one.  DI takes them      *)
(* back, HALT gives them up.                                               *)
(*                                                                         *)
(* The registers, memory and ports but the VDP's are not in the model; an  *)
(* instruction is the cycles it takes, which are none for a disk trap and  *)
(* for an undefined opcode.  A block instruction is as many of them as its *)
(* rounds, for it stops when the count expires; but CPDR does not, and is  *)
(* an action of its own.  There is no NMI, and LoopZ80 never returns       *)
(* INT_QUIT.                                                               *)
(***************************************************************************)
EXTENDS VdpRaster

CONSTANTS
  Cycles,        \* what an instruction may take, or a round of LDIR and the like
  MaxCycles,
  Scans,         \* what a CPDR may take: up to 65536 rounds of 21 cycles
  MaxBehind,     \* how far behind CPDRs are taken; a bound of the model
  HRefresh,      \* {CPU_H240, CPU_H256}: the modes' share of a line
  HPeriod

ASSUME CyclesAssumption ==
  /\ MaxCycles \in Nat \ {0}
  /\ Cycles \subseteq 0 .. MaxCycles
  /\ HPeriod \in Nat \ {0}
  /\ HRefresh \subseteq 2 * MaxCycles .. HPeriod - 2 * MaxCycles

ASSUME ScanAssumption == Scans \subseteq Nat \ {0} /\ MaxBehind \in Nat

VARIABLES
  ICount, IBackup,
  IFF1, IFF2,
  afterEI,       \* IFF_EI
  halted,        \* IFF_HALT
  at             \* "fetch", "expired": ICount <= 0, "frame": out of RunZ80

cpuVars == <<ICount, IBackup, IFF1, IFF2, afterEI, halted, at>>
vars == <<vdpVars, cpuVars>>

Init ==
  /\ VdpInit
  /\ ICount \in HRefresh
  /\ IBackup = 0
  /\ IFF1 = FALSE /\ IFF2 = FALSE /\ afterEI = FALSE
  /\ halted = FALSE
  /\ at = "fetch"

\* The count, with what EI put aside.
CyclesLeft == IF afterEI THEN ICount + IBackup - 1 ELSE ICount

\* The count goes to n, and RunZ80 looks at it.
Count(n) ==
  /\ at = "fetch"
  /\ ICount' = n
  /\ at' = IF n <= 0 THEN "expired" ELSE "fetch"

\* Any instruction but those below; it may access the VDP.
Instruction(c) ==
  /\ ~halted
  /\ Count(ICount - c)
  /\ UNCHANGED <<IBackup, IFF1, IFF2, afterEI, halted>>
  /\ UNCHANGED vdpVars \/ PortAccess

\* The one block instruction that does not look at the count: it scans to
\* the byte or to the end of its 64K, and LoopZ80 has to wait.
CPDR(c) ==
  /\ ~halted
  /\ CyclesLeft - c >= -MaxBehind
  /\ Count(ICount - c)
  /\ UNCHANGED <<IBackup, IFF1, IFF2, afterEI, halted, vdpVars>>

\* Mutant: interrupts are on with the instruction after EI still to come.
EI_AtOnce(c) ==
  /\ ~halted
  /\ Count(ICount - c)
  /\ IFF1' = TRUE /\ IFF2' = TRUE
  /\ UNCHANGED <<IBackup, afterEI, halted, vdpVars>>

EI(c) ==
  LET arms == ~IFF1 /\ ~afterEI
  IN  /\ ~halted
      /\ Count(IF arms THEN 1 ELSE ICount - c)
      /\ IBackup' = IF arms THEN ICount - c ELSE IBackup
      /\ afterEI' = (afterEI \/ arms)
      /\ IFF2' = (IFF2 \/ arms)
      /\ UNCHANGED <<IFF1, halted, vdpVars>>

\* Mutant: the cycles EI put aside are lost.
DI_Forgets(c) ==
  /\ ~halted
  /\ Count(ICount - c)
  /\ IFF1' = FALSE /\ IFF2' = FALSE /\ afterEI' = FALSE
  /\ UNCHANGED <<IBackup, halted, vdpVars>>

DI(c) ==
  /\ ~halted
  /\ Count(IF afterEI THEN ICount - c + IBackup - 1 ELSE ICount - c)
  /\ IFF1' = FALSE /\ IFF2' = FALSE /\ afterEI' = FALSE
  /\ UNCHANGED <<IBackup, halted, vdpVars>>

\* A halted CPU repeats it.
HALT ==
  /\ Count(0)
  /\ halted' = TRUE
  /\ IBackup' = 0
  /\ UNCHANGED <<IFF1, IFF2, afterEI, vdpVars>>

RETN(c) ==
  /\ ~halted
  /\ Count(ICount - c)
  /\ IFF1' = IFF2
  /\ UNCHANGED <<IBackup, IFF2, afterEI, halted, vdpVars>>

\* Mutant: a request counts when it comes up, and not while it stays.
IntZ80_Edge ==
  LET accepted == (IFF1 \/ afterEI) /\ ~IRequest /\ IRequest'
  IN  /\ IFF1' = ((IFF1 \/ afterEI) /\ ~accepted)
      /\ IFF2' = (IFF2 /\ ~accepted)
      /\ halted' = (halted /\ ~accepted)
      /\ afterEI' = FALSE

\* IntZ80 with what IRequest has become.
IntZ80 ==
  LET accepted == (IFF1 \/ afterEI) /\ IRequest'
  IN  /\ IFF1' = ((IFF1 \/ afterEI) /\ ~accepted)
      /\ IFF2' = (IFF2 /\ ~accepted)
      /\ halted' = (halted /\ ~accepted)
      /\ afterEI' = FALSE

\* Mutant: LoopZ80 is never called after EI.
ResumeHalf_Always ==
  /\ at = "expired"
  /\ afterEI
  /\ ICount' = CyclesLeft
  /\ UNCHANGED <<vdpVars, IBackup>>
  /\ IntZ80
  /\ at' = "fetch"

\* EI's instruction is over, and the half line is not.
ResumeHalf ==
  /\ at = "expired"
  /\ afterEI /\ CyclesLeft > 0
  /\ ICount' = CyclesLeft
  /\ UNCHANGED <<vdpVars, IBackup>>
  /\ IntZ80
  /\ at' = "fetch"

LoopZ80(period) ==
  /\ at = "expired"
  /\ afterEI => CyclesLeft <= 0
  /\ ICount' = CyclesLeft + period
  /\ UNCHANGED IBackup
  /\ IntZ80
  /\ at' = IF ExitsFrame THEN "frame" ELSE "fetch"

LoopZ80Line(h) == StartLine /\ LoopZ80(h)
LoopZ80Blank(h) == EndLine /\ LoopZ80(HPeriod - h)

\* msx_Step waits for the display and runs the next frame.
NextFrame ==
  /\ at = "frame"
  /\ at' = "fetch"
  /\ UNCHANGED <<vdpVars, ICount, IBackup, IFF1, IFF2, afterEI, halted>>

Next ==
  \/ \E c \in Cycles : Instruction(c) \/ EI(c) \/ DI(c) \/ RETN(c)
  \/ \E c \in Scans : CPDR(c)
  \/ HALT
  \/ ResumeHalf
  \/ \E h \in HRefresh : LoopZ80Line(h) \/ LoopZ80Blank(h)
  \/ NextFrame

Spec == Init /\ [][Next]_vars
FairSpec == Spec /\ WF_vars(Next)

(***************************************************************************)
(* Properties.                                                             *)
(***************************************************************************)

(* Every variable keeps its type, the counters their range: EI and the     *)
(* instruction after it take the CPU further behind than its scans have,   *)
(* but the next half line makes that good.                                 *)
TypeOK ==
  /\ VdpTypeOK
  /\ IFF1 \in BOOLEAN /\ IFF2 \in BOOLEAN /\ afterEI \in BOOLEAN
  /\ halted \in BOOLEAN
  /\ at \in {"fetch", "expired", "frame"}
  /\ IBackup \in -(MaxBehind + MaxCycles) .. HPeriod
  /\ ICount \in -(MaxBehind + 2 * MaxCycles + HPeriod) .. HPeriod
  /\ CyclesLeft >= -(MaxBehind + 2 * MaxCycles)

(* Z80.h:86-87, IPeriod is the number of CPU cycles between two calls of   *)
(* LoopZ80: a call comes less than two instructions late, and leaves       *)
(* cycles for the next.                                                    *)
Periodic ==
  /\ CyclesLeft > -2 * MaxCycles
  /\ at # "expired" => ICount > 0

(* However EI, DI and the expiry of the count fall together, an            *)
(* instruction costs its cycles once and a half line brings its own once,  *)
(* be the CPU ever so far behind: emulated time is neither lost nor        *)
(* gained.  Only HALT gives time up.                                       *)
CyclesKept ==
  [][/\ at = "fetch" /\ ~halted' => CyclesLeft - CyclesLeft' \in Cycles \union Scans
     /\ at = "expired" => CyclesLeft' - CyclesLeft
          \in IF HR' = HR THEN {0}
              ELSE IF HR THEN HRefresh ELSE {HPeriod - h : h \in HRefresh}]_vars

(* A request that stays up while interrupts are on is taken, or goes away, *)
(* or the program turns interrupts off: EI and the HALT of a waiting loop  *)
(* cannot put it off for ever.                                             *)
IrqServed == IRequest /\ IFF1 ~> ~(IRequest /\ IFF1)
=============================================================================
