--------------------------- MODULE CommandEngine ---------------------------
(***************************************************************************)
(* The block commands of the V9938 (V9938.c).  A command that draws runs   *)
(* in slices: an engine loads what it needs from MMC, draws while its      *)
(* budget of cycles lasts and saves the rest, and LoopVDP gives it a new   *)
(* budget on every scan line.  A command that transfers moves one pixel    *)
(* each time the program has touched register 44 or status register 7,     *)
(* with the TR flag as the handshake.                                      *)
(*                                                                         *)
(* A pixel is a byte, as in SCREEN 8, so the byte commands HMMV, HMMM and  *)
(* HMMC are LMMV, LMMM and LMMC with the operation IMP, and a byte has one *)
(* bit, since the operations treat each bit alike.  Rows wrap where NY      *)
(* does, as in SCREEN 5.  The screen mode does not change while a command  *)
(* runs.                                                                   *)
(***************************************************************************)
EXTENDS Integers, Sequences

CONSTANTS
  Width,           \* MMC.MX: 256 or 512
  Height,          \* 1024: rows of a page, and what NY counts up to
  Slice,           \* 12500
  Deltas,          \* GetVdpTimingValue
  Operands,        \* [command -> the operands a program may give it]
  Picture          \* what a program has drawn before it gives a command

Plotting == {"LMMV", "LMMM", "YMMM", "LINE", "SRCH"}
Transfers == {"LMMC", "LMCM"}
Dots == {"POINT", "PSET"}
Commands == Plotting \union Transfers \union Dots
NoCommand == "none"
Colors == {0, 1}
Pixels == (0 .. Width - 1) \X (0 .. Height - 1)

ASSUME EngineAssumption ==
  /\ Width \in Nat \ {0} /\ Height \in Nat \ {0}
  /\ Slice \in Nat
  /\ Deltas \subseteq Nat \ {0} /\ Deltas # {}
  /\ \A d \in Deltas : 2 * d < Slice
  /\ Picture \in [Pixels -> Colors]

VARIABLES
  VRAM,
  VdpEngine,
  MMC,
  CE, TR, BD,      \* VDPStatus[2] & 01h, 80h, 10h
  R44,             \* VDP[44], and VDPStatus[7]
  regs,            \* VDP[32] to VDP[45], and VDPStatus[8] as regs.SX
  VdpOpsCnt,
  local,           \* an engine's copy of MMC
  cnt, delta,
  at,              \* "cpu", or "engine" while an engine is called
  command,         \* the command last given, and
  moved            \* the pixels the program has sent or received for it

slicing == <<local, cnt, delta, at>>
vars == <<VRAM, VdpEngine, MMC, CE, TR, BD, R44, regs, VdpOpsCnt, slicing, command, moved>>

At(x, y) == <<x % Width, y % Height>>

\* X & MX: past the left or the right edge
Off(x) == (x \div Width) % 2 = 1

Logic(lo, old, new) ==
  CASE lo = "IMP" -> new
    [] lo = "AND" -> old * new
    [] lo = "OR"  -> old + new - old * new
    [] lo = "XOR" -> (old + new) % 2
    [] lo = "NOT" -> 1 - new

\* These operations do not draw the color 0.
Transparent ==
  [TIMP |-> "IMP", TAND |-> "AND", TOR |-> "OR", TXOR |-> "XOR", TNOT |-> "NOT"]

\* VDPpsetlowlevel: what operation lo makes of a pixel.
Apply(lo, old, new) ==
  IF lo \notin DOMAIN Transparent THEN Logic(lo, old, new)
  ELSE IF new = 0 THEN old ELSE Logic(Transparent[lo], old, new)

\* What the registers can hold when a command is given.
Arguments ==
  [SX : 0 .. 2 * Width - 1, SY : 0 .. Height - 1,
   DX : 0 .. 2 * Width - 1, DY : 0 .. Height - 1,
   TX : {-1, 1}, TY : {-1, 1}, NX : 0 .. Height - 1, NY : 0 .. Height - 1,
   LO : {"IMP", "AND", "OR", "XOR", "NOT"} \union DOMAIN Transparent,
   MAJ : {0, 1}, EQ : {0, 1}]

ASSUME OperandAssumption == \A cmd \in Commands : Operands[cmd] \subseteq Arguments

Idle == [SX |-> 0, SY |-> 0, DX |-> 0, DY |-> 0, TX |-> 1, TY |-> 1, NX |-> 0, NY |-> 0,
         ASX |-> 0, ADX |-> 0, ANX |-> 0, CL |-> 0, LO |-> "IMP"]

Init ==
  /\ VRAM = Picture
  /\ VdpEngine = NoCommand
  /\ MMC = Idle
  /\ CE = FALSE /\ TR = FALSE /\ BD = FALSE
  /\ R44 = 0
  /\ regs = [SX |-> 0, SY |-> 0, DY |-> 0, NY |-> 0, MAJ |-> 0]
  /\ VdpOpsCnt = 1
  /\ local = Idle /\ cnt = 0 /\ delta = 0
  /\ at = "cpu"
  /\ command = [CM |-> NoCommand]
  /\ moved = <<>>

\* The operands as VDPDraw copies them: a has the fields of the registers.
Fetched(cmd, a) ==
  [SX |-> a.SX, SY |-> a.SY, DX |-> a.DX, DY |-> a.DY, TX |-> a.TX, TY |-> a.TY,
   NX |-> a.NX, NY |-> a.NY, CL |-> R44, LO |-> a.LO,
   ASX |-> IF cmd = "LINE" THEN (a.NX - 1) \div 2 ELSE a.SX,
   ADX |-> IF cmd = "LINE" THEN 0 ELSE a.DX,
   ANX |-> IF cmd = "SRCH" THEN a.EQ ELSE a.NX]

(***************************************************************************)
(* From one pixel to the next.  A row ends after NX pixels or at an edge   *)
(* of either rectangle, the command after NY rows or above the top.        *)
(***************************************************************************)
RowsEnd(m) == (m.NY - 1) % Height = 0

\* Mutant: a row is as long as what the one before left.
NextRow_Short(m, sy) ==
  [m EXCEPT !.NY = @ - 1, !.SY = IF sy THEN @ + m.TY ELSE @, !.DY = @ + m.TY,
            !.ASX = m.SX, !.ADX = m.DX]

NextRow(m, sy) ==
  [m EXCEPT !.NY = @ - 1, !.SY = IF sy THEN @ + m.TY ELSE @, !.DY = @ + m.TY,
            !.ASX = m.SX, !.ADX = m.DX, !.ANX = m.NX]

\* post__x_y, post__xyy and post_xxyy, as LMCM has it for its source
RowOver(cmd, m) ==
  \/ cmd # "YMMM" /\ m.ANX - 1 = 0
  \/ cmd \in {"LMMM", "LMCM"} /\ Off(m.ASX + m.TX)
  \/ cmd # "LMCM" /\ Off(m.ADX + m.TX)

BlockOver(cmd, m) ==
  /\ RowOver(cmd, m)
  /\ \/ RowsEnd(m)
     \/ cmd \in {"LMMM", "YMMM", "LMCM"} /\ m.SY + m.TY = -1
     \/ cmd # "LMCM" /\ m.DY + m.TY = -1

BlockNext(cmd, m) ==
  IF RowOver(cmd, m) THEN NextRow(m, cmd # "LMMV" /\ cmd # "LMMC")
  ELSE [m EXCEPT !.ANX = @ - 1, !.ASX = @ + m.TX, !.ADX = @ + m.TX]

\* post_linexmaj and post_lineymaj; MAJ is read in VDP[45].
LineNext(m) ==
  LET short == m.ASX - m.NY < 0
      minor == IF short THEN 1 ELSE 0
  IN  [m EXCEPT !.DX = @ + m.TX * (IF regs.MAJ = 0 THEN 1 ELSE minor),
                !.DY = @ + m.TY * (IF regs.MAJ = 0 THEN minor ELSE 1),
                !.ASX = (@ - m.NY + (IF short THEN m.NX ELSE 0)) % Height,
                !.ADX = @ + 1]

Over(m) ==
  CASE VdpEngine = "LINE" -> m.ADX = m.NX \/ Off(LineNext(m).DX)
    [] VdpEngine = "SRCH" -> Off(m.SX + m.TX)
    [] OTHER -> BlockOver(VdpEngine, m)

Following(m) ==
  CASE VdpEngine = "LINE" -> LineNext(m)
    [] VdpEngine = "SRCH" -> [m EXCEPT !.SX = @ + m.TX]
    [] OTHER -> BlockNext(VdpEngine, m)

Target(m) == IF VdpEngine = "LINE" THEN At(m.DX, m.DY) ELSE At(m.ADX, m.DY)

Color(m) ==
  CASE VdpEngine = "LMMM" -> VRAM[At(m.ASX, m.SY)]
    [] VdpEngine = "YMMM" -> VRAM[At(m.ADX, m.SY)]
    [] OTHER -> m.CL

\* The operation of the byte command YMMM is a copy.
Operation(m) == IF VdpEngine = "YMMM" THEN "IMP" ELSE m.LO

Plotted(m) ==
  IF VdpEngine = "SRCH" THEN VRAM
  ELSE [VRAM EXCEPT ![Target(m)] = Apply(Operation(m), @, Color(m))]

\* SRCH looks for the color, or with EQ for any other.
Found(m) ==
  /\ VdpEngine = "SRCH"
  /\ (VRAM[At(m.SX, m.SY)] = m.CL) # (m.ANX = 1)

\* Mutant: the row that ended the count is always left as it is.
Left_Behind(m) ==
  LET next(y) == IF RowsEnd(m) THEN y ELSE y + m.TY
  IN  CASE VdpEngine = "LINE" -> [regs EXCEPT !.DY = LineNext(m).DY % Height]
        [] VdpEngine = "SRCH" ->
             [regs EXCEPT !.SX = IF Found(m) THEN m.SX ELSE m.SX + m.TX]
        [] VdpEngine = "LMCM" ->
             [regs EXCEPT !.NY = (m.NY - 1) % Height, !.SY = next(m.SY) % Height]
        [] OTHER ->
             [regs EXCEPT !.NY = (m.NY - 1) % Height, !.DY = next(m.DY) % Height,
                          !.SY = next(m.SY) % Height]

(***************************************************************************)
(* What a command leaves in the registers: the rows it has not drawn and   *)
(* where it would go on.  A row that ended the count has not moved on yet. *)
(***************************************************************************)
Left(m) ==
  LET next(y) == (IF RowsEnd(m) /\ m.NY - 1 # 0 THEN y ELSE y + m.TY) % Height
  IN  CASE VdpEngine = "LINE" -> [regs EXCEPT !.DY = LineNext(m).DY % Height]
        [] VdpEngine = "SRCH" ->
             [regs EXCEPT !.SX = IF Found(m) THEN m.SX ELSE m.SX + m.TX]
        [] VdpEngine = "LMCM" ->
             [regs EXCEPT !.NY = (m.NY - 1) % Height,
                          !.SY = (IF RowsEnd(m) THEN m.SY ELSE m.SY + m.TY) % Height]
        [] VdpEngine \in {"LMMV", "LMMC"} ->
             [regs EXCEPT !.NY = (m.NY - 1) % Height, !.DY = next(m.DY)]
        [] OTHER ->
             [regs EXCEPT !.NY = (m.NY - 1) % Height, !.DY = next(m.DY), !.SY = next(m.SY)]

(***************************************************************************)
(* The calls of an engine.                                                 *)
(***************************************************************************)

\* VdpEngine, if there is one and a budget: engine e on MMC m with n cycles.
CallEngine(e, m, n) ==
  IF e # NoCommand /\ n > 0
  THEN /\ at' = "engine" /\ local' = m /\ cnt' = n
       /\ delta' \in Deltas
  ELSE UNCHANGED slicing

Return ==
  /\ at' = "cpu"
  /\ local' = Idle /\ cnt' = 0 /\ delta' = 0

\* Mutant: the engine stays, for LoopVDP to call again.
Finish_Engine ==
  /\ CE' = FALSE
  /\ MMC' = Idle
  /\ UNCHANGED VdpEngine

\* Nothing reads MMC again: it is cleared here to have fewer states.
Finish ==
  /\ CE' = FALSE
  /\ VdpEngine' = NoCommand
  /\ MMC' = Idle

\* What the end of a slice writes back.
Saved ==
  CASE VdpEngine = "LINE" -> {"DX", "DY", "ASX", "ADX"}
    [] VdpEngine = "SRCH" -> {"SX"}
    [] VdpEngine = "YMMM" -> {"SY", "DY", "NY", "ADX"}
    [] VdpEngine = "LMMV" -> {"DY", "NY", "ANX", "ADX"}
    [] OTHER -> {"SY", "DY", "NY", "ANX", "ASX", "ADX"}

\* The budget is spent: the loop stops before the next pixel.
Expire ==
  /\ at = "engine" /\ VdpEngine \in Plotting
  /\ cnt - delta <= 0
  /\ VdpOpsCnt' = cnt - delta
  /\ MMC' = [f \in DOMAIN MMC |-> IF f \in Saved THEN local[f] ELSE MMC[f]]
  /\ Return
  /\ UNCHANGED <<VRAM, VdpEngine, CE, TR, BD, R44, regs, command, moved>>

Plot ==
  /\ at = "engine" /\ VdpEngine \in Plotting
  /\ cnt - delta > 0
  /\ VRAM' = Plotted(local)
  /\ IF Found(local) \/ Over(local)
     THEN /\ VdpOpsCnt' = cnt - delta
          /\ Finish
          /\ BD' = IF VdpEngine = "SRCH" THEN Found(local) ELSE BD
          /\ regs' = Left(local)
          /\ Return
     ELSE /\ local' = Following(local)
          /\ cnt' = cnt - delta
          /\ UNCHANGED <<VdpOpsCnt, VdpEngine, MMC, CE, BD, regs, delta, at>>
  /\ UNCHANGED <<TR, R44, command, moved>>

\* LmcmEngine and LmmcEngine: one pixel, if TR says that one is wanted.
Transfer ==
  /\ at = "engine" /\ VdpEngine \in Transfers
  /\ Return
  /\ IF TR
     THEN UNCHANGED <<VRAM, VdpEngine, MMC, CE, TR, R44, regs, VdpOpsCnt>>
     ELSE /\ TR' = TRUE
          /\ VdpOpsCnt' = cnt - delta
          /\ IF VdpEngine = "LMCM"
             THEN R44' = VRAM[At(MMC.ASX, MMC.SY)] /\ UNCHANGED VRAM
             ELSE /\ VRAM' = [VRAM EXCEPT ![At(MMC.ADX, MMC.DY)] = Apply(MMC.LO, @, R44)]
                  /\ UNCHANGED R44
          /\ IF BlockOver(VdpEngine, MMC)
             THEN Finish /\ regs' = Left(MMC)
             ELSE /\ MMC' = BlockNext(VdpEngine, MMC)
                  /\ UNCHANGED <<CE, VdpEngine, regs>>
  /\ UNCHANGED <<BD, command, moved>>

(***************************************************************************)
(* The program's accesses.  It gives a command when CE says that there is  *)
(* none, and moves a pixel when TR says that the VDP is ready for it.      *)
(***************************************************************************)

\* VDPDraw
VDPDraw(cmd, a) ==
  /\ at = "cpu" /\ ~CE
  /\ command.CM = NoCommand
  /\ cmd \notin Dots
  /\ cmd = "LMMC" \/ cmd = "LMCM" => ~TR
  /\ VdpEngine' = cmd
  /\ MMC' = Fetched(cmd, a)
  /\ regs' = [SX |-> regs.SX, SY |-> a.SY, DY |-> a.DY, NY |-> a.NY, MAJ |-> a.MAJ]
  /\ CE' = TRUE
  /\ CallEngine(cmd, Fetched(cmd, a), VdpOpsCnt)
  /\ command' = [CM |-> cmd, args |-> a, CL |-> R44]
  /\ moved' = IF cmd = "LMMC" THEN <<R44>> ELSE <<>>
  /\ UNCHANGED <<VRAM, TR, BD, R44, VdpOpsCnt>>

\* The two commands of one dot need no engine.
Point(a) ==
  /\ R44' = VRAM[At(a.SX, a.SY)]
  /\ UNCHANGED VRAM

Pset(a) ==
  /\ VRAM' = [VRAM EXCEPT ![At(a.DX, a.DY)] = Apply(a.LO, @, R44)]
  /\ UNCHANGED R44

Dot(cmd, a) ==
  /\ at = "cpu" /\ ~CE
  /\ command.CM = NoCommand
  /\ \/ cmd = "POINT" /\ Point(a)
     \/ cmd = "PSET" /\ Pset(a)
  /\ CE' = FALSE
  /\ VdpEngine' = NoCommand
  /\ regs' = [SX |-> regs.SX, SY |-> a.SY, DY |-> a.DY, NY |-> a.NY, MAJ |-> a.MAJ]
  /\ command' = [CM |-> cmd, args |-> a, CL |-> R44]
  /\ moved' = <<>>
  /\ UNCHANGED <<MMC, TR, BD, VdpOpsCnt, slicing>>

\* CM_ABRT; what the command has drawn stays.
Abort ==
  /\ at = "cpu" /\ CE
  /\ Finish
  /\ command' = [CM |-> "ABRT"]
  /\ moved' = <<>>
  /\ UNCHANGED <<VRAM, TR, BD, R44, regs, VdpOpsCnt, slicing>>

\* VDPWrite: the color of the next command, or the next pixel of LMMC.
VDPWrite(v) ==
  /\ at = "cpu"
  /\ \/ command.CM = NoCommand /\ UNCHANGED moved
     \/ VdpEngine = "LMMC" /\ TR /\ moved' = Append(moved, v)
  /\ TR' = FALSE
  /\ R44' = v
  /\ CallEngine(VdpEngine, MMC, VdpOpsCnt)
  /\ UNCHANGED <<VRAM, VdpEngine, MMC, CE, BD, regs, VdpOpsCnt, command>>

\* InZ80 on status register 7, which returns the pixel fetched before.
VDPRead ==
  /\ at = "cpu" /\ TR
  /\ \/ command.CM = NoCommand /\ UNCHANGED moved
     \/ command.CM = "LMCM" /\ moved' = Append(moved, R44)
  /\ TR' = FALSE
  /\ CallEngine(VdpEngine, MMC, VdpOpsCnt)
  /\ UNCHANGED <<VRAM, VdpEngine, MMC, CE, BD, R44, regs, VdpOpsCnt, command>>

\* Mutant: the new budget waits for the program's next access.
LoopVDP_Later ==
  /\ at = "cpu"
  /\ VdpOpsCnt' = IF VdpOpsCnt <= 0 THEN VdpOpsCnt + Slice ELSE Slice
  /\ UNCHANGED <<VRAM, VdpEngine, MMC, CE, TR, BD, R44, regs, slicing, command, moved>>

\* LoopVDP, which LoopZ80 calls on every line.
LoopVDP ==
  /\ at = "cpu"
  /\ VdpOpsCnt' = IF VdpOpsCnt <= 0 THEN VdpOpsCnt + Slice ELSE Slice
  /\ CallEngine(VdpEngine, MMC, VdpOpsCnt')
  /\ UNCHANGED <<VRAM, VdpEngine, MMC, CE, TR, BD, R44, regs, command, moved>>

\* The program draws the picture again, with the ports of the VRAM.
Redraw ==
  /\ at = "cpu" /\ ~CE
  /\ command.CM # NoCommand
  /\ command.CM = "LMCM" => ~TR
  /\ VRAM' = Picture
  /\ command' = [CM |-> NoCommand]
  /\ moved' = <<>>
  /\ UNCHANGED <<VdpEngine, MMC, CE, TR, BD, R44, regs, VdpOpsCnt, slicing>>

Engine == Expire \/ Plot \/ Transfer

Program ==
  \/ \E cmd \in Commands : \E a \in Operands[cmd] : VDPDraw(cmd, a) \/ Dot(cmd, a)
  \/ \E v \in Colors : VDPWrite(v)
  \/ VDPRead \/ Abort \/ Redraw

Next == Engine \/ LoopVDP \/ Program

Spec == Init /\ [][Next]_vars

\* RunZ80 goes on.  The program goes on with a transfer it has begun: it
\* runs between any two lines, so the calls of LoopVDP do not starve it.
FairSpec ==
  /\ Spec
  /\ WF_vars(Engine) /\ WF_vars(LoopVDP)
  /\ SF_vars(VdpEngine = "LMMC" /\ \E v \in Colors : VDPWrite(v))
  /\ SF_vars(command.CM = "LMCM" /\ VDPRead)

(* CE is set exactly while there is an engine for LoopVDP to call, and an  *)
(* engine that draws stops short only when it has used up its budget: no   *)
(* command is left behind with CE set, and no scan line's time is lost.    *)
Busy ==
  /\ CE <=> VdpEngine # NoCommand
  /\ at = "engine" => CE
  /\ at = "cpu" /\ VdpEngine \in Plotting => VdpOpsCnt <= 0

(* A command that is given comes to its end: a picture that is drawn ends  *)
(* by itself, and a transfer if the program goes on with it.               *)
Finishes == CE ~> ~CE

=============================================================================
