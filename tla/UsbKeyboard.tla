---------------------------- MODULE UsbKeyboard ----------------------------
(***************************************************************************)
(* From a USB report to the MSX keyboard matrix and joystick: the boot     *)
(* keyboard callback (process_kbd_report), the dispatch of each key to the *)
(* menu, to the joystick or to the emulator (kbd_signal_raw_key), the keys *)
(* the emulator holds down (emu_KeyboardOnDown, emu_KeyboardOnUp) and the  *)
(* gamepad callback.                                                       *)
(*                                                                         *)
(* All of it runs in the main loop of core 0, which polls USB between two  *)
(* emulated frames; a report is taken apart one key at a time so that the  *)
(* order of its keys, which the keyboard chooses, is left open.  A key is  *)
(* its unshifted code; keys the layout gives code 0 are left out.  All     *)
(* keyboards share one prev_report, so one stream of reports stands for    *)
(* however many are plugged in.                                            *)
(***************************************************************************)
EXTENDS Integers, FiniteSets

CONSTANTS
  Letters,         \* keys that are typed and mean nothing to a joystick
  ToggleKey,       \* 'j', with left shift and left control
  FunctionKeys,    \* KBD_KEY_F1 .. KBD_KEY_F12
  Arrows,          \* keys with a usbnavpad bit of their own
  Buttons,         \* return and tab: they share MASK_JOY2_BTN
  CapsKeys,        \* KBD_KEY_CAPS, code 1010
  Shifts,          \* shift keys; LShift is one
  Controls,        \* control keys; LControl is one
  LShift, LControl,
  Pads,            \* HID instances that are gamepads
  ReportSize,      \* keys in a boot keyboard report, 6
  MaxPressedKeys   \* MAX_PRESSED_KEYS, 8

Typed == Letters \union FunctionKeys \union Arrows \union Buttons
Keys == Typed \union CapsKeys
Modifiers == Shifts \union Controls
Button == "button"
Bits == Arrows \union CapsKeys \union {Button}
NoKey == "none"    \* code 0: the report changes nothing but modifiers

ASSUME KeyAssumption ==
  /\ ToggleKey \in Letters
  /\ LShift \in Shifts /\ LControl \in Controls
  /\ Shifts \cap Controls = {}
  /\ NoKey \notin Keys /\ Button \notin Keys
  /\ IsFiniteSet(Keys)
  /\ Keys \cap Modifiers = {}
ASSUME DisjointAssumption ==
  /\ FunctionKeys \cap (Letters \union Arrows \union Buttons) = {}
  /\ Letters \cap (Arrows \union Buttons) = {}
  /\ Arrows \cap Buttons = {}
  /\ CapsKeys \cap Typed = {}
ASSUME SizeAssumption == ReportSize \in Nat /\ MaxPressedKeys \in Nat

VARIABLES
  prev_report,     \* [modifier, keycode], shared by all keyboards
  report,          \* the report being processed, or prev_report
  released,        \* its released keys that are yet to be signalled
  pressed,         \* its pressed keys that are yet to be signalled
  menuOn,
  kbdasjoy,
  pressed_keys,    \* keys the emulator holds down
  iusbhk_flags,    \* modifiers the emulator holds down
  caps_lock_state,
  usbnavpad,       \* joystick and menu bits
  usbnavpad_joy,   \* the last state of each gamepad
  at               \* where process_kbd_report is: "idle" or "signal"

reportVars == <<prev_report, report, released, pressed, at>>
emuVars == <<pressed_keys, iusbhk_flags, caps_lock_state>>
vars == <<reportVars, menuOn, kbdasjoy, emuVars, usbnavpad, usbnavpad_joy>>

Reports == [modifier : SUBSET Modifiers,
            keycode : {ks \in SUBSET Keys : Cardinality(ks) <= ReportSize}]

NoReport == [modifier |-> {}, keycode |-> {}]

Init ==
  /\ prev_report = NoReport
  /\ report = NoReport
  /\ released = {}
  /\ pressed = {}
  /\ at = "idle"
  /\ menuOn = TRUE
  /\ kbdasjoy = FALSE
  /\ pressed_keys = {}
  /\ iusbhk_flags = {}
  /\ caps_lock_state = FALSE
  /\ usbnavpad = {}
  /\ usbnavpad_joy = [p \in Pads |-> {}]

(***************************************************************************)
(* Where a key goes.                                                       *)
(***************************************************************************)
JoyBits(k) == IF k \in Buttons THEN {Button} ELSE {k} \cap Bits

SignalJoy(k, down) ==
  /\ usbnavpad' = IF down THEN usbnavpad \union JoyBits(k)
                  ELSE usbnavpad \ JoyBits(k)
  /\ UNCHANGED emuVars

\* A ninth key is dropped.
KeysWith(k) == IF Cardinality(pressed_keys) < MaxPressedKeys
               THEN pressed_keys \union {k} ELSE pressed_keys

KeyboardOnDown(flags, k) ==
  /\ iusbhk_flags' = flags
  /\ caps_lock_state' = (caps_lock_state # (k \in CapsKeys))
  /\ pressed_keys' = IF k \in Typed THEN KeysWith(k) ELSE pressed_keys

KeyboardOnUp(flags, k) ==
  /\ iusbhk_flags' = IF k \in CapsKeys THEN iusbhk_flags ELSE flags
  /\ pressed_keys' = pressed_keys \ {k}
  /\ UNCHANGED caps_lock_state

SignalEmu(flags, k, down) ==
  /\ IF down THEN KeyboardOnDown(flags, k) ELSE KeyboardOnUp(flags, k)
  /\ UNCHANGED usbnavpad

\* LCTRL + LSHIFT + J, when J is released.
Toggles(flags, k, down) ==
  /\ {LShift, LControl} \subseteq flags
  /\ k = ToggleKey
  /\ ~down

\* kbd_signal_raw_key: the release that toggles is already dispatched in the
\* mode it toggles to, and function keys never reach the toggle.
Signal(flags, k, down) ==
  /\ kbdasjoy' = IF ~menuOn /\ Toggles(flags, k, down) THEN ~kbdasjoy
                 ELSE kbdasjoy
  /\ IF menuOn \/ (kbdasjoy' /\ k \notin FunctionKeys)
     THEN SignalJoy(k, down)
     ELSE SignalEmu(flags, k, down)
  /\ UNCHANGED <<menuOn, usbnavpad_joy>>

(***************************************************************************)
(* process_kbd_report: what was released, then what was pressed, then the  *)
(* modifiers.                                                              *)
(***************************************************************************)
\* Mutant: releases are looked for only when fewer keys are down.
Released_IfFewer(r) ==
  IF Cardinality(r.keycode) < Cardinality(prev_report.keycode)
  THEN prev_report.keycode \ r.keycode ELSE {}
Released(r) == prev_report.keycode \ r.keycode

ReceiveReport(r) ==
  /\ at = "idle"
  /\ at' = "signal"
  /\ report' = r
  /\ released' = Released(r)
  /\ pressed' = r.keycode \ prev_report.keycode
  /\ UNCHANGED <<prev_report, menuOn, kbdasjoy, emuVars, usbnavpad,
                 usbnavpad_joy>>

SignalReleased(k) ==
  /\ k \in released
  /\ released' = released \ {k}
  /\ Signal(report.modifier, k, FALSE)
  /\ UNCHANGED <<prev_report, report, pressed, at>>

\* Mutant: the two loops are swapped.
MayPress_First == TRUE
MayPress == released = {}

SignalPressed(k) ==
  /\ MayPress
  /\ k \in pressed
  /\ pressed' = pressed \ {k}
  /\ Signal(report.modifier, k, TRUE)
  /\ UNCHANGED <<prev_report, report, released, at>>

\* Mutant: a change of modifiers alone is not passed on.
ModifiersChanged_Never == FALSE
ModifiersChanged == prev_report.modifier # report.modifier

FinishReport ==
  /\ at = "signal"
  /\ released = {} /\ pressed = {}
  /\ at' = "idle"
  /\ prev_report' = report
  /\ IF ModifiersChanged
     THEN Signal(report.modifier, NoKey, report.modifier # {})
     ELSE UNCHANGED <<menuOn, kbdasjoy, emuVars, usbnavpad, usbnavpad_joy>>
  /\ UNCHANGED <<report, released, pressed>>

(***************************************************************************)
(* kbd_signal_raw_gamepad: the bits of all gamepads replace usbnavpad.     *)
(***************************************************************************)
GamepadReport(p, bits) ==
  /\ at = "idle"
  /\ usbnavpad_joy' = [usbnavpad_joy EXCEPT ![p] = bits]
  /\ usbnavpad' = UNION {usbnavpad_joy'[q] : q \in Pads}
  /\ UNCHANGED <<reportVars, menuOn, kbdasjoy, emuVars>>

(***************************************************************************)
(* handleMenu returns ACTION_RUN, on a click or at once for an autorun     *)
(* file, and emu_start runs before USB is polled again.                    *)
(***************************************************************************)
NavpadAtStart_Kept == usbnavpad    \* Mutant
NavpadAtStart == {}

StartEmulator ==
  /\ at = "idle"
  /\ menuOn
  /\ menuOn' = FALSE
  /\ usbnavpad' = NavpadAtStart
  /\ UNCHANGED <<reportVars, kbdasjoy, emuVars, usbnavpad_joy>>

Next ==
  \/ \E r \in Reports : ReceiveReport(r)
  \/ \E k \in Keys : SignalReleased(k)
  \/ \E k \in Keys : SignalPressed(k)
  \/ FinishReport
  \/ \E p \in Pads, bits \in SUBSET Bits : GamepadReport(p, bits)
  \/ StartEmulator

Spec == Init /\ [][Next]_vars

-----------------------------------------------------------------------------
(* msx_Step builds the matrix anew from this for each emulated frame; caps *)
(* lock is a shift key to it.                                              *)
ShiftDown == iusbhk_flags \cap Shifts # {} \/ caps_lock_state
KeyMap == pressed_keys
            \union (IF ShiftDown THEN {"SHIFT"} ELSE {})
            \union (IF iusbhk_flags \cap Controls # {} THEN {"CTRL"} ELSE {})

(* What the comments of msx_Step say of the matrix ("clear the whole       *)
(* KeyMap: all keys released", then "put every key now pressed into it"):  *)
(* with no key held on any keyboard, no key is down in it.                 *)
NoKeyNoMatrix ==
  at = "idle" /\ prev_report = NoReport /\ ~caps_lock_state => KeyMap = {}
=============================================================================
