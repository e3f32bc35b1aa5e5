---------------------------- MODULE VideoTiming ----------------------------
(***************************************************************************)
(* The vertical timing of libdvi's dvi_timing.c: a frame is FrontPorch     *)
(* blank scanlines, SyncWidth of sync, BackPorch more blank ones and the   *)
(* active region.  v_active_lines is 480 and every mode the program sets   *)
(* has a framebuffer of 240 rows, so the active region shows each row      *)
(* VerticalRepeat times.                                                   *)
(***************************************************************************)
EXTENDS Integers

CONSTANTS
  VerticalRepeat,  \* DVI_VERTICAL_REPEAT
  FbHeight,        \* fb_height: rows of the framebuffer
  FrontPorch,      \* v_front_porch, in scanlines
  SyncWidth,       \* v_sync_width
  BackPorch        \* v_back_porch

ASSUME TimingAssumption ==
  /\ VerticalRepeat \in Nat \ {0}
  /\ FbHeight \in Nat /\ FbHeight > 2
  /\ FrontPorch \in Nat \ {0}
  /\ SyncWidth \in Nat \ {0}
  /\ BackPorch \in Nat \ {0}

NoRow == -1
Rows == 0 .. FbHeight - 1
VStates == {"front_porch", "sync", "back_porch", "active"}

ActiveLines == VerticalRepeat * FbHeight

LinesIn(s) == CASE s = "front_porch" -> FrontPorch
                [] s = "sync"        -> SyncWidth
                [] s = "back_porch"  -> BackPorch
                [] s = "active"      -> ActiveLines

StateAfter(s) == CASE s = "front_porch" -> "sync"
                   [] s = "sync"        -> "back_porch"
                   [] s = "back_porch"  -> "active"
                   [] s = "active"      -> "front_porch"

TimingStates == {t \in [v_state : VStates, v_ctr : Nat] :
                   t.v_ctr < LinesIn(t.v_state)}

FirstLine == [v_state |-> "front_porch", v_ctr |-> 0]

\* Mutant: the comparison misses the last line of a state.
Advanced_TooLong(t) == IF t.v_ctr = LinesIn(t.v_state)
                       THEN [v_state |-> StateAfter(t.v_state), v_ctr |-> 0]
                       ELSE [t EXCEPT !.v_ctr = @ + 1]

\* dvi_timing_state_advance
Advanced(t) == IF t.v_ctr + 1 = LinesIn(t.v_state)
               THEN [v_state |-> StateAfter(t.v_state), v_ctr |-> 0]
               ELSE [t EXCEPT !.v_ctr = @ + 1]

IsLastRepeat(t) == t.v_ctr % VerticalRepeat = VerticalRepeat - 1

\* The picture row that belongs on an active scanline.
RowOf(t) == t.v_ctr \div VerticalRepeat
=============================================================================
