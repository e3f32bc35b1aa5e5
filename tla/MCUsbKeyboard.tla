--------------------------- MODULE MCUsbKeyboard ---------------------------
(***************************************************************************)
(* UsbKeyboard with two history variables: the keys whose press and whose  *)
(* release go to different places, because the keyboard became a joystick  *)
(* or a keyboard again in between, and what has been held since the menu   *)
(* closed, of which the emulator hears only the release.                   *)
(***************************************************************************)
EXTENDS UsbKeyboard

VARIABLES crossed, missed

Down == prev_report.keycode \union prev_report.modifier

MCInit == Init /\ crossed = {} /\ missed = {}

MCNext ==
  /\ Next
  /\ crossed' = crossed \union (IF kbdasjoy' # kbdasjoy THEN prev_report.keycode
                                ELSE {})
  /\ missed' = IF menuOn' # menuOn THEN Down' ELSE missed \cap Down'

MCSpec == MCInit /\ [][MCNext]_<<vars, crossed, missed>>

Typing == at = "idle" /\ ~menuOn /\ ~kbdasjoy
Playing == at = "idle" /\ (menuOn \/ kbdasjoy)
Held == prev_report.keycode \ CapsKeys

(* A key that is up is up in the emulator, however fast keys roll over:    *)
(* nothing but a key that crossed can stay down.  A keyboard that is a     *)
(* joystick, or that works the menu, keeps its keys from the emulator,     *)
(* but for the function keys.                                              *)
NoStuckKey ==
  /\ Typing => pressed_keys \ crossed \subseteq Held
  /\ Playing => pressed_keys \ crossed \subseteq Held \cap FunctionKeys

(* A key that is held is down in the emulator: the array is never full, so *)
(* long as the keys stuck in it leave room for a whole report.             *)
NoLostKey ==
  Cardinality(crossed) + ReportSize <= MaxPressedKeys /\ Typing
    => Held \ (crossed \union missed) \subseteq pressed_keys

(* Shift and control follow the keyboard while it is typed on, although    *)
(* they are only passed on with the keys and with a change of their own.   *)
ModifiersFollow ==
  Typing => iusbhk_flags \ missed = prev_report.modifier \ missed

(* A joystick or menu bit that is set is one a gamepad has set, or of a    *)
(* key held while the keyboard is a joystick, or of a key that crossed: no *)
(* key held in the menu steers the game.                                   *)
PadBits == UNION {usbnavpad_joy[p] : p \in Pads}
BitsOf(ks) == UNION {JoyBits(k) : k \in ks}
NoGhostMove ==
  /\ Typing => usbnavpad \subseteq PadBits \union BitsOf(crossed)
  /\ Playing => usbnavpad \subseteq
       PadBits \union BitsOf(crossed \union prev_report.keycode)
=============================================================================
