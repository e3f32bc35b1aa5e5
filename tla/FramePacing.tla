---------------------------- MODULE FramePacing ----------------------------
(***************************************************************************)
(* The two cores together: core 1 sends the picture (DviPipeline), and the *)
(* game loop on core 0 emulates a frame (msx_Step) and then waits in       *)
(* display_backend_vsync until vsync_flag has changed.  The flag is        *)
(* toggled, so two toggles between two looks at it are no change: the wait *)
(* is right only because core 0, which its own interrupts may hold up, has *)
(* looked at the flag within PollLines scanlines.                          *)
(***************************************************************************)
EXTENDS MCDviPipeline

CONSTANT
  PollLines  \* timing bound: scanlines between two looks at vsync_flag

ASSUME PollAssumption == PollLines \in Nat \ {0}

VARIABLES
  core0,     \* "frame" while it emulates, "wait" in display_backend_vsync
  vb,        \* the value the flag had when the wait began
  unseen,    \* scanlines since core 0 last looked
  toggles    \* toggles since the wait began

pacing == <<core0, vb, unseen, toggles>>
pacedVars == <<vars, pacing>>

PacedInit ==
  /\ Init
  /\ core0 = "frame"
  /\ vb = FALSE
  /\ unseen = 0
  /\ toggles = 0

\* A frame takes as long as it takes.
BeginWait ==
  /\ core0 = "frame"
  /\ core0' = "wait"
  /\ vb' = vsync_flag
  /\ unseen' = 0
  /\ toggles' = 0
  /\ UNCHANGED vars

\* Mutant: the wait is for the flag to be set, as if it were a level.
Look_Level ==
  /\ core0 = "wait"
  /\ core0' = IF vsync_flag THEN "frame" ELSE "wait"
  /\ unseen' = 0
  /\ UNCHANGED <<vars, vb, toggles>>

Look ==
  /\ core0 = "wait"
  /\ core0' = IF vsync_flag = vb THEN "wait" ELSE "frame"
  /\ unseen' = 0
  /\ UNCHANGED <<vars, vb, toggles>>

\* A step of core 1, or of the DMA.
Core1 ==
  /\ Next
  /\ timing_state' # timing_state /\ core0 = "wait" => unseen < PollLines
  /\ unseen' = IF timing_state' # timing_state /\ core0 = "wait" THEN unseen + 1 ELSE unseen
  /\ toggles' = IF vsync_flag' # vsync_flag /\ core0 = "wait" THEN toggles + 1 ELSE toggles
  /\ UNCHANGED <<core0, vb>>

PacedNext == BeginWait \/ Look \/ Core1

PacedSpec == PacedInit /\ [][PacedNext]_pacedVars

\* Both cores run; nothing says how long a frame's emulation takes, but it
\* ends (RunZ80 returns once in a frame of the VDP).
PacedFairSpec ==
  /\ PacedSpec
  /\ WF_pacedVars(BeginWait) /\ WF_pacedVars(Look) /\ WF_pacedVars(Core1)

(* A wait ends at the first frame of the screen that begins after it, not  *)
(* before and not a frame later: the game never runs faster than the       *)
(* screen, and one that is in time is not held back for another frame.     *)
FramePaced == [][core0 = "wait" /\ core0' = "frame" => toggles = 1]_pacedVars

(* Core 0 is always released: every frame of core 1 toggles the flag.      *)
WaitEnds == core0 = "wait" ~> core0 = "frame"
=============================================================================
