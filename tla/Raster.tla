------------------------------- MODULE Raster -------------------------------
(***************************************************************************)
(* What the monitor is promised: the scanlines of a frame in raster order, *)
(* each active one showing its own row of the framebuffer or, while the    *)
(* source is late, the solid colour of dma_list_error.  A row that is      *)
(* shown at its first repetition is shown at all of them.                  *)
(***************************************************************************)
EXTENDS VideoTiming

VARIABLES
  at,    \* the scanline being sent, as a timing state
  shown  \* its picture: a row, or NoRow for a blank or solid-colour line

vars == <<at, shown>>

Init == /\ at \in TimingStates
        /\ shown = NoRow

\* The row has begun on an earlier repetition of it.
Begun(t) == t.v_ctr % VerticalRepeat # 0 /\ shown # NoRow

Pictures(t) == IF t.v_state # "active" THEN {NoRow}
               ELSE IF Begun(t) THEN {RowOf(t)}
               ELSE {RowOf(t), NoRow}

NextLine == /\ at' = Advanced(at)
            /\ shown' \in Pictures(at')

Spec == Init /\ [][NextLine]_vars

FairSpec == Spec /\ WF_vars(NextLine)
=============================================================================
