------------------------ MODULE UsbKeyboardProofs ------------------------
(***************************************************************************)
(* What holds of the keyboard, for any keys, any gamepads, any size of a   *)
(* report and of the array of pressed keys, and any order in which the     *)
(* keys of a report are signalled.                                         *)
(***************************************************************************)
EXTENDS MCUsbKeyboard, FiniteSetTheorems, TLAPS

mcVars == <<vars, crossed, missed>>

(***************************************************************************)
(* Between two calls of kbd_signal_raw_key: which keys are still to be     *)
(* signalled, and which of them are down for those who hear the signals.   *)
(***************************************************************************)
Signalled ==
  /\ prev_report \in Reports /\ report \in Reports
  /\ released \subseteq prev_report.keycode \ report.keycode
  /\ pressed \subseteq report.keycode \ prev_report.keycode
  /\ released # {} => pressed = report.keycode \ prev_report.keycode
  /\ at = "idle" => report = prev_report

Current == released \union (prev_report.keycode \cap report.keycode)
             \union ((report.keycode \ prev_report.keycode) \ pressed)

\* The keyboard is a joystick, or works the menu.
Joystick == menuOn \/ kbdasjoy

\* Nothing has reached the emulator before it starts.
Quiet == /\ menuOn \in BOOLEAN /\ kbdasjoy \in BOOLEAN
         /\ menuOn => ~kbdasjoy /\ pressed_keys = {} /\ iusbhk_flags = {}

LEMMA NoKeyFacts ==
  /\ NoKey # ToggleKey
  /\ NoKey \notin Keys
  /\ JoyBits(NoKey) = {}
<1>1. NoKey # Button
  BY DEF NoKey, Button
<1>2. NoKey # ToggleKey /\ NoKey \notin Keys
  BY KeyAssumption DEF Keys, Typed
<1>3. QED
  BY <1>1, <1>2 DEF JoyBits, Bits, Keys, Typed

LEMMA FunctionKeyFacts ==
  ASSUME NEW k \in FunctionKeys
  PROVE  JoyBits(k) = {} /\ k \notin CapsKeys /\ k # ToggleKey
BY KeyAssumption, DisjointAssumption DEF JoyBits, Bits, Keys, Typed

\* Every key goes either to the joystick or to the emulator.
LEMMA SignalFacts ==
  ASSUME Quiet, NEW flags, NEW k, NEW down \in BOOLEAN, Signal(flags, k, down)
  PROVE  /\ menuOn' = menuOn /\ UNCHANGED usbnavpad_joy
         /\ kbdasjoy' # kbdasjoy => ~menuOn /\ k = ToggleKey /\ ~down
         /\ Quiet'
         /\ \/ SignalJoy(k, down) /\ Joystick' /\ (menuOn \/ k \notin FunctionKeys)
            \/ /\ SignalEmu(flags, k, down)
               /\ ~menuOn
               /\ ~Joystick' \/ k \in FunctionKeys
<1>1. /\ kbdasjoy' = IF ~menuOn /\ Toggles(flags, k, down) THEN ~kbdasjoy ELSE kbdasjoy
      /\ menuOn' = menuOn /\ usbnavpad_joy' = usbnavpad_joy
      /\ IF menuOn \/ (kbdasjoy' /\ k \notin FunctionKeys)
         THEN SignalJoy(k, down) ELSE SignalEmu(flags, k, down)
  BY DEF Signal
<1>2. kbdasjoy' \in BOOLEAN
  BY <1>1 DEF Quiet
<1>3. kbdasjoy' # kbdasjoy => ~menuOn /\ k = ToggleKey /\ ~down
  BY <1>1 DEF Toggles
<1>4. Quiet'
  BY <1>1, <1>2 DEF Quiet, SignalJoy, emuVars
<1>5. QED
  BY <1>1, <1>3, <1>4 DEF Joystick

-----------------------------------------------------------------------------
LEMMA InitSignalled == Init => Signalled /\ Quiet
<1> SUFFICES ASSUME Init PROVE Signalled /\ Quiet
  OBVIOUS
<1>1. Cardinality({}) = 0
  BY FS_EmptySet
<1>2. NoReport \in Reports
  BY <1>1, SizeAssumption DEF NoReport, Reports
<1>3. QED
  BY <1>2 DEF Init, Signalled, Quiet

\* What each step does to the keys that are down.
LEMMA ReceiveFacts ==
  ASSUME Signalled, NEW r \in Reports, ReceiveReport(r)
  PROVE  Signalled' /\ Current' = Current
<1>1. report = prev_report /\ released = {} /\ pressed = {}
  BY DEF Signalled, ReceiveReport
<1>2. /\ report' = r /\ prev_report' = prev_report
      /\ released' = prev_report.keycode \ r.keycode
      /\ pressed' = r.keycode \ prev_report.keycode
      /\ at' = "signal"
  BY DEF ReceiveReport, Released
<1>3. Signalled'
  BY <1>2 DEF Signalled
<1>4. QED
  BY <1>1, <1>2, <1>3 DEF Current

LEMMA ReleasedFacts ==
  ASSUME Signalled, NEW k, SignalReleased(k)
  PROVE  /\ Signalled'
         /\ k \in Current /\ Current' = Current \ {k}
         /\ Current \subseteq prev_report.keycode
         /\ prev_report' = prev_report /\ report' = report
<1>1. /\ k \in released /\ released' = released \ {k}
      /\ UNCHANGED <<prev_report, report, pressed, at>>
  BY DEF SignalReleased
<1>2. /\ released \subseteq prev_report.keycode \ report.keycode
      /\ pressed = report.keycode \ prev_report.keycode
  BY <1>1 DEF Signalled
<1>3. Signalled'
  BY <1>1 DEF Signalled
<1>4. QED
  BY <1>1, <1>2, <1>3 DEF Current

LEMMA PressedFacts ==
  ASSUME Signalled, NEW k, SignalPressed(k)
  PROVE  /\ Signalled'
         /\ k \notin Current /\ Current' = Current \union {k}
         /\ Current' \subseteq report.keycode
         /\ prev_report' = prev_report /\ report' = report
<1>1. /\ released = {} /\ k \in pressed /\ pressed' = pressed \ {k}
      /\ UNCHANGED <<prev_report, report, released, at>>
  BY DEF SignalPressed, MayPress
<1>2. pressed \subseteq report.keycode \ prev_report.keycode
  BY DEF Signalled
<1>3. Signalled'
  BY <1>1 DEF Signalled
<1>4. QED
  BY <1>1, <1>2, <1>3 DEF Current

LEMMA FinishFacts ==
  ASSUME Signalled, FinishReport
  PROVE  /\ Signalled'
         /\ Current = report.keycode /\ Current' = Current
         /\ prev_report' = report /\ report' = report
<1>1. /\ released = {} /\ pressed = {} /\ prev_report' = report
      /\ UNCHANGED <<report, released, pressed>>
  BY DEF FinishReport
<1>2. Signalled'
  BY <1>1 DEF Signalled
<1>3. QED
  BY <1>1, <1>2 DEF Current

LEMMA ReportUnchanged ==
  ASSUME Signalled, UNCHANGED reportVars
  PROVE  Signalled' /\ Current' = Current /\ prev_report' = prev_report /\ report' = report
BY DEF Signalled, Current, reportVars

\* Only a key that is signalled, or the end of a report, calls Signal.
LEMMA StepSignalled ==
  ASSUME Signalled, Quiet, [Next]_vars
  PROVE  Signalled' /\ Quiet'
<1>1. ASSUME NEW r \in Reports, ReceiveReport(r) PROVE Signalled' /\ Quiet'
  BY <1>1, ReceiveFacts DEF ReceiveReport, emuVars, Quiet
<1>2. ASSUME NEW k \in Keys, SignalReleased(k) PROVE Signalled' /\ Quiet'
  BY <1>2, ReleasedFacts, SignalFacts DEF SignalReleased
<1>3. ASSUME NEW k \in Keys, SignalPressed(k) PROVE Signalled' /\ Quiet'
  BY <1>3, PressedFacts, SignalFacts DEF SignalPressed
<1>4. CASE FinishReport
  <2>1. Signalled'
    BY <1>4, FinishFacts
  <2>2. CASE ModifiersChanged
    <3>1. Signal(report.modifier, NoKey, report.modifier # {})
      BY <1>4, <2>2 DEF FinishReport
    <3>2. (report.modifier # {}) \in BOOLEAN
      OBVIOUS
    <3>3. QED
      BY <2>1, <3>1, <3>2, SignalFacts
  <2>3. CASE ~ModifiersChanged
    BY <1>4, <2>1, <2>3 DEF FinishReport, emuVars, Quiet
  <2>4. QED
    BY <2>2, <2>3
<1>5. CASE \E p \in Pads, bits \in SUBSET Bits : GamepadReport(p, bits)
  BY <1>5, ReportUnchanged DEF GamepadReport, emuVars, Quiet
<1>6. CASE StartEmulator
  BY <1>6, ReportUnchanged DEF StartEmulator, emuVars, Quiet
<1>7. CASE UNCHANGED vars
  BY <1>7, ReportUnchanged DEF vars, emuVars, Quiet
<1>8. QED
  BY <1>1, <1>2, <1>3, <1>4, <1>5, <1>6, <1>7 DEF Next

-----------------------------------------------------------------------------
(***************************************************************************)
(* A step of the keyboard is a call of kbd_signal_raw_key, the start of    *)
(* the emulator, or one that neither the emulator nor the joystick hears.  *)
(***************************************************************************)
Remembered == missed \subseteq Down /\ crossed \subseteq Keys

Base == Signalled /\ Quiet /\ Remembered

\* What the histories record of a step that does not start the emulator.
Recorded ==
  /\ menuOn' = menuOn
  /\ crossed' = crossed \union (IF kbdasjoy' # kbdasjoy THEN prev_report.keycode ELSE {})
  /\ Current' \cap missed \subseteq missed'

Calls(k, down) ==
  /\ Signal(report.modifier, k, down)
  /\ Recorded
  /\ Current \ {k} \subseteq Current'
  /\ Current' \subseteq Current \union (IF down THEN {k} ELSE {})
  /\ down /\ k \in Keys => k \notin Current /\ k \in Current' /\ Current' \subseteq report.keycode
  /\ ~down => k \notin Current'
  /\ kbdasjoy' # kbdasjoy => Current \subseteq prev_report.keycode

Unheard ==
  /\ UNCHANGED <<menuOn, kbdasjoy, emuVars, crossed>>
  /\ Recorded
  /\ Current' = Current
  /\ \/ UNCHANGED <<usbnavpad, usbnavpad_joy>>
     \/ usbnavpad' = PadBits'

Starts ==
  /\ StartEmulator
  /\ crossed' = crossed
  /\ Current' = Current /\ Current \subseteq missed'
  /\ missed' = Down'

LEMMA CurrentKeys ==
  ASSUME Signalled
  PROVE  Current \subseteq Keys /\ report.keycode \subseteq Keys
BY DEF Signalled, Current, Reports

LEMMA StepCases ==
  ASSUME Base, [MCNext]_mcVars
  PROVE  \/ \E k \in Keys \union {NoKey}, down \in BOOLEAN : Calls(k, down)
         \/ Unheard
         \/ Starts
<1>1. /\ Signalled /\ Quiet /\ missed \subseteq Down
      /\ menuOn \in BOOLEAN /\ kbdasjoy \in BOOLEAN
  BY DEF Base, Remembered, Quiet
<1>2. ASSUME MCNext, menuOn' = menuOn, prev_report' = prev_report
      PROVE  Recorded
  BY <1>1, <1>2 DEF MCNext, Recorded, Down
<1>3. ASSUME MCNext, NEW r \in Reports, ReceiveReport(r) PROVE Unheard
  <2>1. UNCHANGED <<prev_report, menuOn, kbdasjoy, emuVars, usbnavpad, usbnavpad_joy>>
    BY <1>3 DEF ReceiveReport
  <2>2. Current' = Current
    BY <1>1, <1>3, ReceiveFacts
  <2>3. QED
    BY <1>2, <1>3, <2>1, <2>2 DEF Unheard, Recorded
<1>4. ASSUME MCNext, NEW k \in Keys, SignalReleased(k) PROVE Calls(k, FALSE)
  <2>1. Signal(report.modifier, k, FALSE)
    BY <1>4 DEF SignalReleased
  <2>2. /\ k \in Current /\ Current' = Current \ {k}
        /\ Current \subseteq prev_report.keycode
        /\ prev_report' = prev_report
    BY <1>1, <1>4, ReleasedFacts
  <2>3. Recorded
    BY <1>1, <1>2, <1>4, <2>1, <2>2, SignalFacts
  <2>4. QED
    BY <2>1, <2>2, <2>3 DEF Calls
<1>5. ASSUME MCNext, NEW k \in Keys, SignalPressed(k) PROVE Calls(k, TRUE)
  <2>1. Signal(report.modifier, k, TRUE)
    BY <1>5 DEF SignalPressed
  <2>2. /\ k \notin Current /\ Current' = Current \union {k}
        /\ Current' \subseteq report.keycode
        /\ prev_report' = prev_report
    BY <1>1, <1>5, PressedFacts
  <2>3. menuOn' = menuOn /\ kbdasjoy' = kbdasjoy
    BY <1>1, <2>1, SignalFacts
  <2>4. Recorded
    BY <1>2, <1>5, <2>2, <2>3
  <2>5. QED
    BY <2>1, <2>2, <2>3, <2>4 DEF Calls
<1>6. ASSUME MCNext, FinishReport
      PROVE  Unheard \/ Calls(NoKey, TRUE) \/ Calls(NoKey, FALSE)
  <2>1. Current = report.keycode /\ Current' = Current /\ prev_report' = report
    BY <1>1, <1>6, FinishFacts
  <2>2. NoKey \notin Current /\ NoKey \notin Keys
    BY <1>1, <2>1, CurrentKeys, NoKeyFacts
  <2>3. ASSUME menuOn' = menuOn PROVE Recorded
    BY <1>6, <2>1, <2>3 DEF MCNext, Recorded, Down
  <2>4. ASSUME NEW down \in BOOLEAN, Signal(report.modifier, NoKey, down)
        PROVE  Calls(NoKey, down)
    <3>1. menuOn' = menuOn /\ kbdasjoy' = kbdasjoy
      BY <1>1, <2>4, NoKeyFacts, SignalFacts
    <3>2. QED
      BY <2>1, <2>2, <2>3, <2>4, <3>1 DEF Calls
  <2>5. CASE ModifiersChanged
    <3>1. Signal(report.modifier, NoKey, report.modifier # {})
      BY <1>6, <2>5 DEF FinishReport
    <3>2. CASE report.modifier # {}
      <4>1. Signal(report.modifier, NoKey, TRUE)
        BY <3>1, <3>2
      <4>2. QED
        BY <2>4, <4>1
    <3>3. CASE report.modifier = {}
      <4>1. Signal(report.modifier, NoKey, FALSE)
        BY <3>1, <3>3
      <4>2. QED
        BY <2>4, <4>1
    <3>4. QED
      BY <3>2, <3>3
  <2>6. CASE ~ModifiersChanged
    <3>1. UNCHANGED <<menuOn, kbdasjoy, emuVars, usbnavpad, usbnavpad_joy>>
      BY <1>6, <2>6 DEF FinishReport
    <3>2. crossed' = crossed
      BY <2>3, <3>1 DEF Recorded
    <3>3. QED
      BY <2>1, <2>3, <3>1, <3>2 DEF Unheard
  <2>7. QED
    BY <2>5, <2>6
<1>7. ASSUME MCNext, \E p \in Pads, bits \in SUBSET Bits : GamepadReport(p, bits)
      PROVE  Unheard
  <2>1. /\ UNCHANGED <<reportVars, menuOn, kbdasjoy, emuVars>>
        /\ usbnavpad' = PadBits'
    BY <1>7 DEF GamepadReport, PadBits
  <2>2. Current' = Current /\ prev_report' = prev_report
    BY <1>1, <2>1, ReportUnchanged
  <2>3. QED
    BY <1>2, <1>7, <2>1, <2>2 DEF Unheard, Recorded
<1>8. ASSUME MCNext, StartEmulator PROVE Starts
  <2>1. /\ at = "idle" /\ UNCHANGED <<reportVars, kbdasjoy>> /\ menuOn' # menuOn
    BY <1>8 DEF StartEmulator
  <2>2. Current' = Current /\ prev_report' = prev_report
    BY <1>1, <2>1, ReportUnchanged
  <2>3. Current = prev_report.keycode
    BY <1>1, <2>1 DEF Signalled, Current
  <2>4. crossed' = crossed /\ missed' = Down'
    BY <1>8, <2>1 DEF MCNext
  <2>5. QED
    BY <1>8, <2>2, <2>3, <2>4 DEF Starts, Down
<1>9. ASSUME UNCHANGED mcVars PROVE Unheard
  <2>1. /\ UNCHANGED <<reportVars, menuOn, kbdasjoy, emuVars, usbnavpad, usbnavpad_joy>>
        /\ UNCHANGED <<crossed, missed>>
    BY <1>9 DEF mcVars, vars
  <2>2. Current' = Current
    BY <1>1, <2>1, ReportUnchanged
  <2>3. QED
    BY <2>1, <2>2 DEF Unheard, Recorded
<1>10. CASE MCNext
  <2>1. Next
    BY <1>10 DEF MCNext
  <2>2. QED
    BY <1>3, <1>4, <1>5, <1>6, <1>7, <1>8, <1>10, <2>1 DEF Next
<1>11. QED
  BY <1>9, <1>10

LEMMA StepBase ==
  ASSUME Base, [MCNext]_mcVars
  PROVE  Base'
<1>1. Signalled /\ Quiet /\ missed \subseteq Down
  BY DEF Base, Remembered
<1>2. Signalled' /\ Quiet'
  BY <1>1, StepSignalled DEF MCNext, mcVars
<1>3. missed' \subseteq Down'
  BY <1>1 DEF MCNext, mcVars, vars, reportVars, Down
<1>4. crossed' \subseteq Keys
  <2>1. crossed \subseteq Keys /\ prev_report.keycode \subseteq Keys
    BY DEF Base, Signalled, Remembered, Reports
  <2>2. QED
    BY <2>1 DEF MCNext, mcVars
<1>5. QED
  BY <1>2, <1>3, <1>4 DEF Base, Remembered

LEMMA InitBase == MCInit => Base
<1>1. MCInit => Signalled /\ Quiet
  BY InitSignalled DEF MCInit
<1>2. QED
  BY <1>1 DEF MCInit, Base, Remembered

(* A report is taken apart completely and in order: what was released      *)
(* before what was pressed, and the menu keeps the emulator silent.        *)
THEOREM BaseHolds == MCSpec => []Base
  BY InitBase, StepBase, PTL DEF MCSpec, mcVars

\* Where a call goes, and what it changes there.
LEMMA CallFacts ==
  ASSUME Base, NEW k, NEW down \in BOOLEAN, Calls(k, down)
  PROVE  /\ menuOn' = menuOn
         /\ kbdasjoy' # kbdasjoy => ~menuOn /\ k = ToggleKey /\ ~down
         /\ UNCHANGED usbnavpad_joy
         /\ \/ SignalJoy(k, down) /\ Joystick' /\ (menuOn \/ k \notin FunctionKeys)
            \/ /\ SignalEmu(report.modifier, k, down)
               /\ ~menuOn
               /\ ~Joystick' \/ k \in FunctionKeys
BY SignalFacts DEF Calls, Base

-----------------------------------------------------------------------------
(***************************************************************************)
(* No key sticks: what the emulator holds down is down on the keyboard,    *)
(* key by key while a report is taken apart.                               *)
(***************************************************************************)
Emulated ==
  /\ pressed_keys \ crossed \subseteq Current \ CapsKeys
  /\ Joystick => pressed_keys \ crossed \subseteq FunctionKeys

LEMMA StepEmulated ==
  ASSUME Base, Emulated, [MCNext]_mcVars
  PROVE  Emulated'
<1>1. ASSUME NEW k, NEW down \in BOOLEAN, Calls(k, down) PROVE Emulated'
  <2>1. /\ crossed \subseteq crossed'
        /\ kbdasjoy' # kbdasjoy => Current \subseteq crossed'
        /\ Current \ {k} \subseteq Current'
        /\ down /\ k \in Keys => k \in Current'
    BY <1>1 DEF Calls, Recorded
  <2>2. /\ pressed_keys \ crossed \subseteq Current \ CapsKeys
        /\ Joystick => pressed_keys \ crossed \subseteq FunctionKeys
        /\ menuOn => pressed_keys = {}
        /\ Current \subseteq Keys
    BY CurrentKeys DEF Emulated, Base, Quiet
  <2>3. menuOn' = menuOn /\ (kbdasjoy' # kbdasjoy => k = ToggleKey /\ ~down)
    BY <1>1, CallFacts
  <2>4. CASE SignalJoy(k, down) /\ Joystick' /\ (menuOn \/ k \notin FunctionKeys)
    <3>1. pressed_keys' = pressed_keys
      BY <2>4 DEF SignalJoy, emuVars
    <3>2. CASE kbdasjoy' = kbdasjoy
      <4>1. Joystick /\ (menuOn \/ k \notin FunctionKeys)
        BY <2>3, <2>4, <3>2 DEF Joystick
      <4>2. QED
        BY <2>1, <2>2, <3>1, <4>1 DEF Emulated
    <3>3. CASE kbdasjoy' # kbdasjoy
      BY <2>1, <2>2, <3>1, <3>3 DEF Emulated
    <3>4. QED
      BY <3>2, <3>3
  <2>5. CASE SignalEmu(report.modifier, k, down) /\ (~Joystick' \/ k \in FunctionKeys)
    <3>1. Joystick' => k \in FunctionKeys /\ Joystick
      BY <2>3, <2>5, FunctionKeyFacts DEF Joystick
    <3>2. CASE down
      <4>1. pressed_keys' \subseteq pressed_keys \union ({k} \cap Typed)
        BY <2>5, <3>2 DEF SignalEmu, KeyboardOnDown, KeysWith
      <4>2. k \in Typed => k \in Keys \ CapsKeys
        BY DisjointAssumption DEF Keys
      <4>3. QED
        BY <2>1, <2>2, <3>1, <3>2, <4>1, <4>2 DEF Emulated
    <3>3. CASE ~down
      <4>1. pressed_keys' = pressed_keys \ {k}
        BY <2>5, <3>3 DEF SignalEmu, KeyboardOnUp
      <4>2. QED
        BY <2>1, <2>2, <3>1, <4>1 DEF Emulated
    <3>4. QED
      BY <3>2, <3>3
  <2>6. QED
    BY <1>1, <2>4, <2>5, CallFacts
<1>2. CASE Unheard
  BY <1>2 DEF Unheard, Emulated, Joystick, emuVars
<1>3. CASE Starts
  BY <1>3 DEF Starts, StartEmulator, Emulated, Joystick, emuVars, Base, Quiet
<1>4. QED
  BY <1>1, <1>2, <1>3, StepCases

LEMMA InitEmulated == MCInit => Emulated
  BY DEF MCInit, Init, Emulated

\* Between two reports the keys that are down are those of the last report.
LEMMA AtRest ==
  ASSUME Base, at = "idle"
  PROVE  Current = prev_report.keycode /\ report = prev_report
BY DEF Base, Signalled, Current

(* While a report is taken apart the emulator holds no key down that is up *)
(* by now, but for those that crossed.                                     *)
THEOREM EmulatedHolds == MCSpec => []Emulated
  BY InitEmulated, StepEmulated, BaseHolds, PTL DEF MCSpec, mcVars

(* A key that is up is up in the emulator, and a keyboard that is a        *)
(* joystick keeps its keys from it.                                        *)
THEOREM NoKeySticks == MCSpec => []NoStuckKey
<1>1. Base /\ Emulated => NoStuckKey
  BY AtRest DEF Emulated, NoStuckKey, Typing, Playing, Held, Joystick
<1>2. QED
  BY <1>1, BaseHolds, EmulatedHolds, PTL

-----------------------------------------------------------------------------
(***************************************************************************)
(* No key is lost, while there is room for a whole report besides what is  *)
(* stuck in the array.                                                     *)
(***************************************************************************)
Room == Cardinality(crossed) + ReportSize <= MaxPressedKeys

Kept ==
  Room /\ ~Joystick => (Current \ CapsKeys) \ (crossed \union missed) \subseteq pressed_keys

LEMMA FiniteKeys == \A S : S \subseteq Keys => IsFiniteSet(S) /\ Cardinality(S) \in Nat
  BY KeyAssumption, FS_Subset, FS_CardinalityType

LEMMA RoomBefore ==
  ASSUME Base, Base', crossed \subseteq crossed', Room'
  PROVE  Room
<1>1. IsFiniteSet(crossed') /\ Cardinality(crossed') \in Nat /\ Cardinality(crossed) \in Nat
  BY FiniteKeys DEF Base, Remembered
<1>2. Cardinality(crossed) <= Cardinality(crossed')
  BY <1>1, FS_Subset
<1>3. QED
  BY <1>1, <1>2, SizeAssumption DEF Room

\* A key that goes down finds the array not full.
LEMMA KeyFits ==
  ASSUME Base, Emulated, Room, NEW k \in Keys, k \notin Current,
         Current \union {k} \subseteq report.keycode
  PROVE  Cardinality(pressed_keys) < MaxPressedKeys
<1>1. /\ Current \subseteq Keys /\ crossed \subseteq Keys
      /\ report.keycode \subseteq Keys
      /\ Cardinality(report.keycode) <= ReportSize
      /\ pressed_keys \subseteq crossed \union Current
  BY CurrentKeys DEF Base, Signalled, Remembered, Emulated, Reports
<1>2. /\ IsFiniteSet(Current) /\ Cardinality(Current) \in Nat
      /\ IsFiniteSet(crossed) /\ Cardinality(crossed) \in Nat
      /\ IsFiniteSet(report.keycode) /\ Cardinality(report.keycode) \in Nat
  BY <1>1, FiniteKeys
<1>3. Cardinality(Current) + 1 <= ReportSize
  <2>1. Cardinality(Current \union {k}) = Cardinality(Current) + 1
    BY <1>2, FS_AddElement
  <2>2. Cardinality(Current \union {k}) <= Cardinality(report.keycode)
    BY <1>2, FS_Subset
  <2>3. QED
    BY <1>1, <1>2, <2>1, <2>2, SizeAssumption
<1>4. Cardinality(crossed \union Current) <= Cardinality(crossed) + Cardinality(Current)
  <2>1. Cardinality(crossed \cap Current) \in Nat
    BY <1>1, FiniteKeys
  <2>2. Cardinality(crossed \union Current)
          = Cardinality(crossed) + Cardinality(Current) - Cardinality(crossed \cap Current)
    BY <1>2, FS_Union
  <2>3. \A m, n, c \in Nat : m + n - c <= m + n
    OBVIOUS
  <2>4. QED
    BY <1>2, <2>1, <2>2, <2>3
<1>5. Cardinality(pressed_keys) <= Cardinality(crossed \union Current)
  <2>1. IsFiniteSet(crossed \union Current)
    BY <1>2, FS_Union
  <2>2. QED
    BY <1>1, <2>1, FS_Subset
<1>6. Cardinality(pressed_keys) \in Nat /\ Cardinality(crossed \union Current) \in Nat
  BY <1>1, FiniteKeys
<1>7. QED
  BY <1>2, <1>3, <1>4, <1>5, <1>6, SizeAssumption DEF Room

LEMMA StepKept ==
  ASSUME Base, Emulated, Kept, [MCNext]_mcVars
  PROVE  Kept'
<1>1. SUFFICES ASSUME Room', ~Joystick',
                      NEW x \in Current', x \notin CapsKeys, x \notin crossed', x \notin missed'
               PROVE  x \in pressed_keys'
  BY DEF Kept
<1>2. Base'
  BY StepBase
<1>3. ASSUME NEW k, NEW down \in BOOLEAN, Calls(k, down) PROVE x \in pressed_keys'
  <2>1. /\ crossed \subseteq crossed'
        /\ kbdasjoy' # kbdasjoy => Current \subseteq crossed'
        /\ x \in Current => x \notin missed
        /\ Current' \subseteq Current \union (IF down THEN {k} ELSE {})
        /\ ~down => k \notin Current'
        /\ down /\ k \in Keys => k \notin Current /\ k \in Current' /\ Current' \subseteq report.keycode
        /\ Current \ {k} \subseteq Current'
    BY <1>1, <1>3 DEF Calls, Recorded
  <2>2. menuOn' = menuOn /\ (kbdasjoy' # kbdasjoy => ~down)
    BY <1>3, CallFacts
  <2>3. SignalEmu(report.modifier, k, down)
    BY <1>1, <1>3, CallFacts
  <2>4. kbdasjoy' = kbdasjoy
    BY <1>1, <2>1, <2>2
  <2>5. ~Joystick /\ Room
    BY <1>1, <1>2, <2>1, <2>2, <2>4, RoomBefore DEF Joystick
  <2>6. CASE x \in Current
    <3>1. x \in pressed_keys
      BY <1>1, <2>1, <2>5, <2>6 DEF Kept
    <3>2. CASE down
      BY <2>3, <3>1, <3>2 DEF SignalEmu, KeyboardOnDown, KeysWith
    <3>3. CASE ~down
      BY <1>1, <2>1, <2>3, <3>1, <3>3 DEF SignalEmu, KeyboardOnUp
    <3>4. QED
      BY <3>2, <3>3
  <2>7. CASE x \notin Current
    <3>1. down /\ x = k
      BY <1>1, <2>1, <2>7
    <3>2. k \in Keys /\ k \in Typed
      BY <1>1, <1>2, <3>1, CurrentKeys DEF Base, Signalled, Current, Reports, Keys
    <3>3. Cardinality(pressed_keys) < MaxPressedKeys
      BY <2>1, <2>5, <3>1, <3>2, KeyFits
    <3>4. QED
      BY <2>3, <3>1, <3>2, <3>3 DEF SignalEmu, KeyboardOnDown, KeysWith
  <2>8. QED
    BY <2>6, <2>7
<1>4. CASE Unheard
  BY <1>1, <1>4 DEF Unheard, Recorded, Kept, Room, Joystick, emuVars
<1>5. CASE Starts
  BY <1>1, <1>5 DEF Starts
<1>6. QED
  BY <1>3, <1>4, <1>5, StepCases

(* A key that is held is down in the emulator, however many were pressed   *)
(* and released before.                                                    *)
THEOREM NoKeyIsLost == MCSpec => []NoLostKey
<1>1. MCInit => Kept
  BY DEF MCInit, Init, Kept, Joystick
<1>2. Base /\ Emulated /\ Kept /\ [MCNext]_mcVars => Kept'
  BY StepKept
<1>3. Base /\ Kept => NoLostKey
  BY AtRest DEF Kept, NoLostKey, Room, Typing, Held, Joystick
<1>4. QED
  BY <1>1, <1>2, <1>3, BaseHolds, EmulatedHolds, PTL DEF MCSpec, mcVars

-----------------------------------------------------------------------------
(***************************************************************************)
(* The modifiers are those of the last report, or already those of the one *)
(* that is being signalled.                                                *)
(***************************************************************************)
Followed ==
  /\ iusbhk_flags \subseteq Modifiers
  /\ ~Joystick => \/ iusbhk_flags \ missed = prev_report.modifier \ missed
                  \/ iusbhk_flags = report.modifier

\* A signalled key sets the modifiers to those of its report, unless it
\* releases caps lock.
LEMMA FlagsAfter ==
  ASSUME Base, NEW k, NEW down \in BOOLEAN, Signal(report.modifier, k, down)
  PROVE  /\ iusbhk_flags' \in {iusbhk_flags, report.modifier}
         /\ ~Joystick' /\ (kbdasjoy' # kbdasjoy \/ k \notin CapsKeys)
              => iusbhk_flags' = report.modifier
<1>1. k = ToggleKey => k \notin CapsKeys
  BY KeyAssumption, DisjointAssumption DEF Typed
<1>2. CASE SignalJoy(k, down) /\ Joystick'
  BY <1>2 DEF SignalJoy, emuVars
<1>3. CASE SignalEmu(report.modifier, k, down)
  BY <1>1, <1>3, SignalFacts DEF SignalEmu, KeyboardOnDown, KeyboardOnUp, Base
<1>4. QED
  BY <1>2, <1>3, SignalFacts DEF Base

LEMMA SignalFollowed ==
  ASSUME Base, Followed, MCNext, NEW k, NEW down \in BOOLEAN,
         Signal(report.modifier, k, down), UNCHANGED <<prev_report, report>>
  PROVE  Followed'
<1>1. missed' = missed
  <2>1. menuOn' = menuOn
    BY SignalFacts DEF Base
  <2>2. QED
    BY <2>1 DEF MCNext, Base, Remembered, Down
<1>2. report.modifier \subseteq Modifiers
  BY DEF Base, Signalled, Reports
<1>3. iusbhk_flags' \subseteq Modifiers
  BY <1>2, FlagsAfter DEF Followed
<1>4. ASSUME ~Joystick'
      PROVE  \/ iusbhk_flags' \ missed = prev_report.modifier \ missed
             \/ iusbhk_flags' = report.modifier
  <2>1. CASE kbdasjoy' # kbdasjoy
    BY <1>4, <2>1, FlagsAfter
  <2>2. CASE kbdasjoy' = kbdasjoy
    <3>1. ~Joystick
      BY <1>4, <2>2, SignalFacts DEF Joystick, Base
    <3>2. QED
      BY <3>1, FlagsAfter DEF Followed
  <2>3. QED
    BY <2>1, <2>2
<1>5. QED
  BY <1>1, <1>3, <1>4 DEF Followed

\* At the end of a report they are its own, but for what was missed.
LEMMA FinishFollowed ==
  ASSUME Base, Followed, MCNext, FinishReport
  PROVE  Followed'
<1>1. /\ prev_report' = report /\ report' = report
      /\ report.modifier \subseteq Modifiers
      /\ prev_report.modifier \subseteq Modifiers
      /\ prev_report.keycode \cap Modifiers = {}
      /\ missed \subseteq prev_report.keycode \union prev_report.modifier
  BY FinishFacts, KeyAssumption DEF Base, Signalled, Reports, Remembered, Down
<1>2. CASE ModifiersChanged
  <2>1. Signal(report.modifier, NoKey, report.modifier # {})
    BY <1>2 DEF FinishReport
  <2>2. (report.modifier # {}) \in BOOLEAN
    OBVIOUS
  <2>3. /\ iusbhk_flags' \in {iusbhk_flags, report.modifier}
        /\ ~Joystick' => iusbhk_flags' = report.modifier
    <3>1. NoKey \notin CapsKeys
      BY NoKeyFacts DEF Keys
    <3>2. QED
      BY <2>1, <2>2, <3>1, FlagsAfter
  <2>4. QED
    BY <1>1, <2>3 DEF Followed
<1>3. CASE ~ModifiersChanged
  <2>1. /\ UNCHANGED <<menuOn, kbdasjoy, iusbhk_flags>>
        /\ prev_report.modifier = report.modifier
    BY <1>3 DEF FinishReport, emuVars, ModifiersChanged
  <2>2. missed' = missed \cap (report.keycode \union report.modifier)
    BY <1>1, <2>1 DEF MCNext, Down
  <2>3. ASSUME ~Joystick' PROVE iusbhk_flags \ missed' = report.modifier \ missed'
    <3>1. ~Joystick
      BY <2>1, <2>3 DEF Joystick
    <3>2. iusbhk_flags \ missed = report.modifier \ missed
      BY <2>1, <3>1 DEF Followed
    <3>3. iusbhk_flags \subseteq Modifiers
      BY DEF Followed
    <3>4. ASSUME NEW x \in Modifiers, x \in missed PROVE x \in missed' /\ x \in report.modifier
      BY <1>1, <2>1, <2>2, <3>4
    <3>5. QED
      BY <1>1, <3>2, <3>3, <3>4
  <2>4. QED
    BY <1>1, <2>1, <2>3 DEF Followed
<1>4. QED
  BY <1>2, <1>3

LEMMA StepFollowed ==
  ASSUME Base, Followed, [MCNext]_mcVars
  PROVE  Followed'
<1>1. ASSUME MCNext, NEW k \in Keys, SignalReleased(k) PROVE Followed'
  BY <1>1, SignalFollowed DEF SignalReleased
<1>2. ASSUME MCNext, NEW k \in Keys, SignalPressed(k) PROVE Followed'
  BY <1>2, SignalFollowed DEF SignalPressed
<1>3. ASSUME MCNext, NEW r \in Reports, ReceiveReport(r) PROVE Followed'
  <2>1. /\ UNCHANGED <<prev_report, menuOn, kbdasjoy, iusbhk_flags>>
        /\ report = prev_report
    BY <1>3 DEF ReceiveReport, emuVars, Base, Signalled
  <2>2. missed' = missed
    BY <1>3, <2>1 DEF MCNext, Base, Remembered, Down
  <2>3. QED
    BY <2>1, <2>2 DEF Followed, Joystick
<1>4. ASSUME MCNext, \E p \in Pads, bits \in SUBSET Bits : GamepadReport(p, bits)
      PROVE  Followed'
  <2>1. UNCHANGED <<reportVars, menuOn, kbdasjoy, emuVars>>
    BY <1>4 DEF GamepadReport
  <2>2. missed' = missed
    BY <1>4, <2>1 DEF MCNext, Base, Remembered, Down, reportVars
  <2>3. QED
    BY <2>1, <2>2 DEF Followed, Joystick, reportVars, emuVars
<1>5. ASSUME MCNext, StartEmulator PROVE Followed'
  <2>1. /\ UNCHANGED <<reportVars, emuVars>> /\ menuOn' # menuOn
        /\ iusbhk_flags = {}
    BY <1>5 DEF StartEmulator, Base, Quiet
  <2>2. missed' = prev_report.keycode \union prev_report.modifier
    BY <1>5, <2>1 DEF MCNext, Down, reportVars
  <2>3. QED
    BY <2>1, <2>2 DEF Followed, reportVars, emuVars
<1>6. CASE UNCHANGED mcVars
  BY <1>6 DEF mcVars, vars, reportVars, emuVars, Followed, Joystick
<1>7. CASE MCNext
  BY <1>1, <1>2, <1>3, <1>4, <1>5, <1>7, FinishFollowed DEF MCNext, Next
<1>8. QED
  BY <1>6, <1>7

(* Shift and control follow the keyboard while it is typed on, whatever    *)
(* mode it was in when they went down.                                     *)
THEOREM ModifiersAreFollowed == MCSpec => []ModifiersFollow
<1>1. MCInit => Followed
  BY DEF MCInit, Init, Followed, Joystick
<1>2. Base /\ Followed /\ [MCNext]_mcVars => Followed'
  BY StepFollowed
<1>3. Base /\ Followed => ModifiersFollow
  BY AtRest DEF Followed, ModifiersFollow, Typing, Joystick
<1>4. QED
  BY <1>1, <1>2, <1>3, BaseHolds, PTL DEF MCSpec, mcVars

-----------------------------------------------------------------------------
(***************************************************************************)
(* Every joystick bit has a gamepad or a key behind it.                    *)
(***************************************************************************)
Steering == IF Joystick THEN crossed \union Current ELSE crossed

Steered == usbnavpad \subseteq PadBits \union BitsOf(Steering)

LEMMA BitsGrow ==
  ASSUME NEW S, NEW T, S \subseteq T
  PROVE  BitsOf(S) \subseteq BitsOf(T)
BY DEF BitsOf

\* A key that goes to the joystick takes no bit of another key with it.
LEMMA BitsWithout ==
  ASSUME NEW S, NEW T, NEW k, S \ {k} \subseteq T
  PROVE  BitsOf(S) \ JoyBits(k) \subseteq BitsOf(T)
BY DEF BitsOf

LEMMA StepSteered ==
  ASSUME Base, Steered, [MCNext]_mcVars
  PROVE  Steered'
<1>1. ASSUME NEW k \in Keys \union {NoKey}, NEW down \in BOOLEAN, Calls(k, down)
      PROVE Steered'
  <2>1. /\ crossed \subseteq crossed'
        /\ kbdasjoy' # kbdasjoy => Current \subseteq crossed'
        /\ Current \ {k} \subseteq Current'
        /\ down /\ k \in Keys => k \in Current'
    BY <1>1 DEF Calls, Recorded
  <2>2. /\ menuOn' = menuOn
        /\ kbdasjoy' # kbdasjoy => ~menuOn /\ k = ToggleKey /\ ~down
        /\ PadBits' = PadBits
    BY <1>1, CallFacts DEF PadBits
  <2>3. Steering \ {k} \subseteq Steering'
    BY <2>1, <2>2 DEF Steering, Joystick
  <2>4. CASE SignalJoy(k, down) /\ Joystick'
    <3>1. CASE down
      <4>1. usbnavpad' = usbnavpad \union JoyBits(k)
        BY <2>4, <3>1 DEF SignalJoy
      <4>2. JoyBits(k) \subseteq BitsOf(Steering')
        <5>1. k \in Keys => k \in Steering'
          BY <2>1, <2>4, <3>1 DEF Steering, Joystick
        <5>2. CASE k \in Keys
          BY <5>1, <5>2 DEF BitsOf
        <5>3. CASE k = NoKey
          BY <5>3, NoKeyFacts
        <5>4. QED
          BY <5>2, <5>3
      <4>3. BitsOf(Steering) \ JoyBits(k) \subseteq BitsOf(Steering')
        BY <2>3, BitsWithout
      <4>4. usbnavpad' \subseteq PadBits \union BitsOf(Steering')
        BY <4>1, <4>2, <4>3 DEF Steered
      <4>5. BitsOf(Steering)' = BitsOf(Steering')
        BY DEF BitsOf, JoyBits
      <4>6. QED
        BY <2>2, <4>4, <4>5 DEF Steered
    <3>2. CASE ~down
      <4>1. usbnavpad' = usbnavpad \ JoyBits(k)
        BY <2>4, <3>2 DEF SignalJoy
      <4>2. BitsOf(Steering) \ JoyBits(k) \subseteq BitsOf(Steering')
        BY <2>3, BitsWithout
      <4>3. usbnavpad' \subseteq PadBits \union BitsOf(Steering')
        BY <4>1, <4>2 DEF Steered
      <4>4. BitsOf(Steering)' = BitsOf(Steering')
        BY DEF BitsOf, JoyBits
      <4>5. QED
        BY <2>2, <4>3, <4>4 DEF Steered
    <3>3. QED
      BY <3>1, <3>2
  <2>5. CASE /\ SignalEmu(report.modifier, k, down)
             /\ ~menuOn
             /\ ~Joystick' \/ k \in FunctionKeys
    <3>1. usbnavpad' = usbnavpad
      BY <2>5 DEF SignalEmu
    <3>2. BitsOf(Steering) \subseteq BitsOf(Steering')
      <4>1. CASE k \in FunctionKeys
        <5>1. JoyBits(k) = {}
          BY <4>1, FunctionKeyFacts
        <5>2. BitsOf(Steering) \ JoyBits(k) \subseteq BitsOf(Steering')
          BY <2>3, BitsWithout
        <5>3. QED
          BY <5>1, <5>2
      <4>2. CASE ~Joystick'
        <5>1. Steering \subseteq Steering'
          BY <2>1, <2>2, <4>2 DEF Steering, Joystick
        <5>2. QED
          BY <5>1, BitsGrow
      <4>3. QED
        BY <2>5, <4>1, <4>2
    <3>3. BitsOf(Steering)' = BitsOf(Steering')
      BY DEF BitsOf, JoyBits
    <3>4. QED
      BY <2>2, <3>1, <3>2, <3>3 DEF Steered
  <2>6. QED
    BY <1>1, <2>4, <2>5, CallFacts
<1>2. CASE Unheard
  <2>1. BitsOf(Steering)' = BitsOf(Steering)
    BY <1>2 DEF Unheard, Steering, Joystick, BitsOf, JoyBits
  <2>2. usbnavpad' = PadBits' \/ (usbnavpad' = usbnavpad /\ PadBits' = PadBits)
    BY <1>2 DEF Unheard, PadBits
  <2>3. QED
    BY <2>1, <2>2 DEF Steered
<1>3. CASE Starts
  BY <1>3 DEF Starts, StartEmulator, NavpadAtStart, Steered
<1>4. QED
  BY <1>1, <1>2, <1>3, StepCases

(* A joystick bit that is set has a gamepad, a key of a keyboard that is a *)
(* joystick, or a key that crossed behind it.                              *)
THEOREM NothingSteersAlone == MCSpec => []NoGhostMove
<1>1. MCInit => Steered
  BY DEF MCInit, Init, Steered
<1>2. Base /\ Steered /\ [MCNext]_mcVars => Steered'
  BY StepSteered
<1>3. Base /\ Steered => NoGhostMove
  BY AtRest DEF Steered, Steering, NoGhostMove, Typing, Playing, Joystick
<1>4. QED
  BY <1>1, <1>2, <1>3, BaseHolds, PTL DEF MCSpec, mcVars
=============================================================================
