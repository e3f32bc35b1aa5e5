---------------------------- MODULE MCAudioPath ----------------------------
(***************************************************************************)
(* AudioPath with the one thing NeverDry has to remember: that the timer   *)
(* has filled audio_ring once.                                             *)
(***************************************************************************)
EXTENDS AudioPath

VARIABLE primed  \* audio_ring has been seen filled, between two packets

MCInit == Init /\ primed = FALSE

MCNext == /\ Next
          /\ primed' = (\/ primed
                        \/ packet.pc = "wait" /\ audio_ring.read # audio_ring.write)

MCSpec == MCInit /\ [][MCNext]_<<vars, primed>>

(* Once audio_timer_cb has filled audio_ring, core 1 never finds it empty: *)
(* the refill of one period lasts to the next although it may stop at the  *)
(* end of the buffer, and although the lines after the info frames carry   *)
(* more samples than the average line.                                     *)
NeverDry == primed => packet.n <= packet.read_size
=============================================================================
