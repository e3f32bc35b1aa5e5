------------------------------ MODULE MCZ80Run ------------------------------
(***************************************************************************)
(* Z80Run with the order of the real lines and few of them, and with four  *)
(* history variables: whether a program has left register 9 alone since    *)
(* line 0, whether RunZ80 has returned since line 0, whether the last      *)
(* instruction was the EI that arms, and whether a CPDR has overrun its    *)
(* half line and LoopZ80 has not caught up since.                          *)
(***************************************************************************)
EXTENDS Z80Run

VARIABLES steady, exited, armed, overrun
mcVars == <<vars, steady, exited, armed, overrun>>

\* Lines 192, 212, 220, 230, 235, 244 (245), 254, 256 (261), 312 in their order.
MCVBlank == [m \in BOOLEAN \X BOOLEAN |->
               IF m[2] THEN (IF m[1] THEN 7 ELSE 6) ELSE (IF m[1] THEN 4 ELSE 3)]
MCCoincidenceEnd == [m \in BOOLEAN \X BOOLEAN |->
                       IF m[2] THEN 8 ELSE IF m[1] THEN 6 ELSE 5]

NewFrame == ScanLine' = 0 /\ ScanLine # 0

MCInit ==
  /\ Init
  /\ steady = FALSE /\ exited = FALSE /\ armed = FALSE /\ overrun = FALSE

MCNext ==
  /\ Next
  /\ steady' = /\ steady \/ NewFrame
               /\ lines212' = lines212 /\ pal' = pal
  /\ exited' = ((exited \/ at' = "frame") /\ ~NewFrame)
  /\ armed' = IF at = "fetch" THEN ~IFF2 /\ IFF2' ELSE armed
  /\ overrun' = /\ overrun \/ \E c \in Scans : CPDR(c)
                /\ CyclesLeft' <= 0

MCSpec == MCInit /\ [][MCNext]_mcVars
MCFairSpec == MCSpec /\ WF_mcVars(MCNext)

(* LoopZ80 waits for the count to expire, but however EI falls it is less  *)
(* than two instructions late, and an instruction is only fetched with     *)
(* cycles left: the raster does not slip against the program.  Only after  *)
(* a CPDR does it, until the half lines that are due have been called for. *)
OnTime ==
  /\ at = "expired" => ICount <= 0
  /\ ~overrun => Periodic

PastBlank(line) == ScanLine > line \/ (ScanLine = line /\ HR)

(* A frame has one vertical blank, from its line to the end of the frame,  *)
(* if the program leaves the height of the picture alone; and whatever it  *)
(* does to register 9 on any line, RunZ80 returns once in every frame, so  *)
(* that the sound and the keyboard are served.                             *)
FrameShape ==
  /\ steady => (VR <=> PastBlank(VBlankLine))
  /\ steady => (Drawing <=> ~PastBlank(Bottom))
  /\ exited <=> PastBlank(ExitLine)
  /\ at = "frame" => ScanLine = ExitLine /\ HR

(* The instruction after EI runs before any interrupt: an EI RET pair at   *)
(* the end of a handler does not pile up returns.                          *)
ShadowOfEI == [][armed => ~(at = "expired" /\ (IFF1 \/ afterEI) /\ ~IFF1')]_mcVars
=============================================================================
