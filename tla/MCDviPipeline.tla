--------------------------- MODULE MCDviPipeline ---------------------------
(***************************************************************************)
(* The properties of DviPipeline that hold for a given speed of the        *)
(* encoder.                                                                *)
(***************************************************************************)
EXTENDS DviPipeline

(* An encoder that finishes a row while one row is sent (EncodeIrqs <=     *)
(* VerticalRepeat) is never late: no row is missed at its last repetition, *)
(* and no active scanline, not even the first of a row, is sent in the     *)
(* solid colour.                                                           *)
NeverLate ==
  /\ late_scanline_ctr = 0
  /\ scan.next.at.v_state = "active" => scan.next.buf # NoBuf

(* A late source catches up, by having its late rows dropped in the        *)
(* vertical blanking.                                                      *)
CatchesUp == late_scanline_ctr > 0 ~> late_scanline_ctr = 0
=============================================================================
