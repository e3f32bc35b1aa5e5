# A TLA+ development of Pico2MSX

Pico2MSX runs the fMSX emulator on an RP2350. Core 0 runs the file menu, the Z80, the sound mixer and the USB
host; core 1 encodes the frame buffer into TMDS symbols and feeds them, with the sound, to the HDMI link. The
two cores and their interrupts meet in queues and rings without a scheduler, and the emulated machine keeps
redundant copies of its state (pointers, cached registers, sets of keys) that many handlers update by hand. The
modules here model those places, TLC checks them on small and, where it can, on real sizes, and TLAPS proves the
central safety properties for every size.

- [The system](#the-system): inventory, interactions, hard behaviours
- [The modules](#the-modules) and how their state and actions correspond to the code
- [The runs](#the-runs): what each shows, its bounds
- [Fairness and timing](#fairness-and-timing)
- [The proofs](#the-proofs)
- [Where the code departs from its documentation](#where-the-code-departs-from-its-documentation)
- [What is not modelled](#what-is-not-modelled)
- [The plan](#the-plan)

Source names are relative to `src/`; `fmsx.c` is `picomsx/fmsx.c`, `dvi.c` is `PicoDVI/software/libdvi/dvi.c`.

## The system

The board variants differ in their back ends. The Waveshare board uses PicoDVI (`display/display_picodvi.c`),
Fruit Jam and Olimex use HSTX (`display/display_hstx.c`). This development follows the PicoDVI build with a USB
host and the file browser. `picomsx.cpp` starts the display, loops in the menu until a file is chosen, calls
`emu_start` and `emu_Init`, and then repeats `emu_DebounceLocalKeys` (which polls USB), `emu_Input` and
`emu_Step`, one emulated frame each.

| Component | State | Operations | What makes it correct |
| --- | --- | --- | --- |
| DVI scan-out, core 1 (`dvi.c`, `dvi_timing.c`) | four pointer queues, the release delay of two interrupts, the lateness counter, the raster position | encoder thread; DMA interrupt once a scanline; scanline callback inside it | no TMDS buffer is lost, doubled, or written while it is sent; each scanline shows its own row or a solid colour; the interrupt never blocks |
| PicoDVI back end (`display_picodvi.c`) | next row, vsync flag, sound ring | callback, start-up, timer interrupt, ring functions and the wait for a frame called by core 0 | the row counter stays in step with the raster; core 0 is released once for each frame of the screen |
| HDMI audio (`audio_ring.c`, `data_packet.c`, `dvi.c`) | ring of samples, fractional sample position | one packet per scanline: info frame or up to four samples | reads only what was published; bounded position; does not run dry |
| Sound output (`Sound.c`) | one chunk | render and queue a frame of sound | nothing rendered is thrown away; order is kept |
| USB keyboard, gamepad (`hid_app.c`) | previous report, one for all keyboards | report callback to single keys | each press is followed by its release |
| Key dispatch and menu (`emuapi.cpp`) | menu and joystick modes, joystick bits of all sources in one word | dispatch of a key, start of the emulator | no key of one mode acts in another |
| Keyboard of the emulator (`fmsx.c`) | array of pressed keys, modifiers, caps lock | key down, key up, matrix built for each frame | no key sticks, none is lost |
| Memory slots and mappers (`fmsx.c`, `I8255.c`) | slot registers, banks, RAM mapper, eight cached pointers, write enables | port A8h-ABh, FFFFh, FCh-FFh, eleven ROM mappers, port 77h | the pointers are what the registers select; stores reach RAM only |
| VDP, interrupts (`fmsx.c`) | the line in halves, two flags, two interrupts, the registers that arm them | `LoopZ80`, `SetIRQ`, register writes, status reads | the request is that of the flags; one blank and one return a frame |
| Z80 (`Z80.c`, `Codes.h`, `CodesED.h`) | cycle count and what EI put aside, interrupt flip-flops, HALT | an instruction, EI, DI, HALT, RETN, CPDR, the end of a half line, the hand-over | time is kept, and the raster in step; a request is taken, not before the instruction after EI |
| V9938 command engine (`V9938.c`) | registers, `MMC`, the budget, CE, TR, BD | fourteen commands, a slice, one pixel of a transfer, abort | slices add up to the command; a command ends |
| SD card driver (`tf_card.c`) | card type, `Stat`, a stream that is open | initialise, read, write, sync, command by command, block by block | no sector in another's place; streams are closed; calls return |
| PSG, SCC, OPLL | register files with dirty bits | write, `Sync` | what was written is played |
| Cartridge loader, flash (`fmsx.c`, `flash_t.c`) | one flash area, allocated buffers | load, erase, program | each slot gets its own image |
| Files (`emuapi.cpp`, `fatfs`) | handle table | open, read, close | handles are returned |
| PSRAM cache (`psram_t.cpp`) | LRU list of pages | hit, miss, write back | the list stays a list |

How they interact:

- core 0 -> core 1: pixels in the frame buffer (no synchronisation, tearing by design); the audio ring, one index
  written by each side; core 1 -> core 0: the vsync flag, polled.
- encoder thread <-> DMA interrupt of the same core: the four queues. The interrupt cannot wait for the thread.
- game loop <-> timer interrupt of the same core: the sound ring. The interrupt runs to its end.
- USB callbacks, dispatch and emulator: plain calls in the main loop of core 0; the state of one call outlives it.
- Z80 <-> mappers: a write to an address or a port runs a handler, reads and writes of the Z80 go through the
  cached pointers only.
- Z80 <-> VDP: `RunZ80` calls `LoopZ80` when the cycles of half a line are spent, samples `IRequest` then and after
  EI only, and returns to `msx_Step` once in a frame. Port accesses run inside an instruction.
- VDP <-> command engine: `LoopZ80` gives a budget of cycles on every line, status and register accesses of the
  program move one pixel of a transfer.
- core 0 -> core 1 at the frame: `msx_Step` waits in `display_backend_vsync` for the flag of core 1 to change.
- FatFs <-> SD card: one call at a time, each a series of commands and blocks to a card that may go away between
  any two, or within a block it sends.

What is hard to test is listed with its line in `PROJECT.json` under `hazards`: the two-interrupt distance
between release and reuse of a buffer, the drop of rows that come too late, two rows of lead that must be kept
for ever, free-running indexes, snapshots of an index used while the other side moves it, reports that release
and press at once, keys that cross from one mode to another, updates of cached pointers that are skipped, a flag
that is toggled and not set, cycles put aside across EI or spent in advance by CPDR, commands cut between any two
pixels, and a card that is exchanged, late or busy between two commands or within a block.

## The modules

| Module | What it is |
| --- | --- |
| `VideoTiming` | the raster: states of a frame, the next scanline, the row of a scanline |
| `Raster` | abstract: scanlines in order, each showing its row or a solid colour |
| `DviPipeline` | encoder thread, DMA interrupt, callback; refines `Raster` |
| `MCDviPipeline` | properties that hold for a given speed of the encoder |
| `FramePacing` | core 0's wait for a frame, composed with `DviPipeline` |
| `SampleStream` | abstract: a queue of samples, with silence wherever the source is behind |
| `AudioPath` | game loop, timer interrupt and core 1 on two rings; refines `SampleStream` |
| `MCAudioPath` | remembers that the ring has been filled once, for `NeverDry` |
| `UsbKeyboard` | report callback, dispatch, pressed keys, gamepad |
| `MCUsbKeyboard` | remembers the keys that crossed from one mode to another |
| `MemorySlots` | slots, subslots, RAM mapper, ROM mappers, cached pointers |
| `MCMemorySlots` | cartridges, addresses and register values for TLC |
| `VdpRaster` | the VDP's lines, flags and interrupt requests |
| `Z80Run` | the CPU loop on top of `VdpRaster` |
| `MCZ80Run` | a short raster in the order of the real one, and four history variables |
| `CommandEngine` | the V9938 commands in slices |
| `MCCommandEngine` | commands to check, and the reference: what each does as one step |
| `TfCard` | the SD card driver and a card |
| `VideoTimingProofs`, `DviPipelineProofs`, `AudioPathProofs`, `UsbKeyboardProofs`, `MemorySlotsProofs`, `Z80RunProofs`, `CommandEngineProofs`, `TfCardProofs` | theorems |

Operators named `X_Something` next to an operator `X` are faulty variants of it (a dropped guard, a missing
reset). They are not part of the specification; with one of them in the place of `X`, TLC finds the property of
the run violated, which shows that the property depends on that code.

### DviPipeline

The variables are the queues of `struct dvi_inst`, `tmds_buf_release`, `late_scanline_ctr`, `timing_state`, the
static counter and the vsync flag of `core1_scanline_callback`, the program counter of the thread (`encoder`),
the contents of each TMDS buffer as the row in it (`pixels`), and what the DMA reads (`scan`).

`TakeRow`, `TakeBuffer`, `PublishBuffer` and `ReturnRow` are the four queue operations of
`dvi_scanbuf_main_8bpp` and `_dvi_prepare_scanline_8bpp`; everything between two of them is local to the thread.
`DmaIrq` is the whole `dvi_dma_irq_handler` with its callback. It is one step because it preempts the only other
actor on its core; core 0 does not touch this state. A panic or a wait in the handler sets `core1` to `"panic"` or
`"blocked"` and nothing runs any more: that is what the code does, since the thread that would make room cannot
run before the handler returns. The DMA is the environment: after an interrupt it reads the control blocks the
previous interrupt loaded (`scan.now`), so a buffer is read for two interrupts after it was chosen.

Left out, since this build never does it: the 16bpp thread, blank lines (`blank_settings` are set to 0,
`scanline_is_enabled` is never set), `dvi_stop`, `dvi_unregister_irqs_this_core`, and modes without 240 rows
(every mode of `pico_dsp.cpp` has 240 on 480 lines).

### FramePacing

The game loop is `core0`, emulating a frame or waiting. `BeginWait` reads the flag, `Look` compares it, `Core1` is
any step of `DviPipeline`. The loop that polls is on a core that is interrupted (timer, USB), so `Look` need not
come with each scanline: `unseen` counts scanlines since the last look and is bounded by `PollLines`. `toggles`
counts what the flag did during the wait; it is a history variable.

### AudioPath

Three actors, each a program counter and the locals it carries between accesses: the game loop
(`StartFrame`, `RenderChunk`, `PlayChunk`, `WriteChunk`, `StoreSample`, `PublishSample` for `RenderAndPlayAudio`,
`PlayAudio` and `display_backend_write_audio`), the timer (`TimerFires`, `TimerFills`, `TimerPublishes` for
`audio_timer_cb`) and core 1 (`ScanlineIrq`, `PutSample` for `dvi_update_data_packet_` and `set_audio_sample`).
The timer preempts the game loop between any two of its actions and runs to its end; core 1 interleaves with both.
The store of a sample and the move of the index are two actions in the order of the built image: both are to
statics of one file, and `build/picomsx.dis` shows them in that order. `snd_wr` and `snd_rd` run freely modulo `IndexRange`,
which stands for 2^32. A sample is named by its place in the stream, modulo `Names`, so that one that is skipped,
repeated or overtaken is told from its neighbours.
The fill callback of `audio_timer_cb` is left out: `emu_sndInit` passes `NULL` and nothing else registers one.

### UsbKeyboard

`ReceiveReport`, `SignalReleased`, `SignalPressed` and `FinishReport` are `process_kbd_report`: what is in the
old report and not in the new one, then what is new, then a change of modifiers. A report is taken apart one key
at a time because the keyboard chooses the order of its keys; nothing else runs in between. `Signal` is
`kbd_signal_raw_key` with the two destinations `signal_joy` and `emu_KeyboardOnDown`/`OnUp`; `GamepadReport` is
`kbd_signal_raw_gamepad`, `StartEmulator` is the return of the menu and `emu_start`. A key is its unshifted code;
classes of keys that the code treats alike (letters, function keys, arrows, keys that share a joystick bit) are
constants. The caps lamp, the layouts and the auto-repeat of the menu are left out.
The toggle on F12 in `kbd_signal_raw_key` cannot be reached, since function keys return before it.

### MemorySlots

A memory is a unit (a cartridge's buffer, the flash area, RAM, a system ROM, SRAM, the SCC, the empty page) and
a block of 8kB is a record `[kind, unit, page]`; contents are left out. `RAM[0..7]` are the pointers the Z80 goes
through, `cartMap` and `ramMap` the parts of `MemMap` that change. The actions are the handlers: `WriteSlots` and
`WriteControl` for the PPI with its latch and direction bit and the slot switch in `OutZ80`, `SSlot` for FFFFh,
`MapRAM` for FCh-FFh, `MapROM` for a write to a cartridge (types 0 to 7, 9, 10), `Zemina90` for port 77h (type 8).
The initial states are those after `StartMSX` with any of the `Setups` loaded. A bit mask `& (2^n-1)` is a
remainder. The separate paths of `WrZ80` for types 9 and 10 do what its default path does. The system ROMs are
those of an MSX1, whose subslots of slot 3 other than RAM are empty.

### VdpRaster and Z80Run

`LoopZ80` is called for each half of a line. `StartLine` is the half in which the line is counted, compared with
the line of register 19 (less the scroll of register 23: `hline` is the difference) and drawn; `EndLine` the
horizontal blank, in which the vertical one begins. The seven line numbers are constants; the real ones, for the
heights 192 and 212 in 60 and 50 Hz, are given by their order in `MCZ80Run`. `WriteR0`, `WriteR1`, `WriteR9`,
`WriteHLine`, `ReadS0` and `ReadS1` are what a program can do to this state; any instruction may do one of them.

In `Z80Run` an instruction is the cycles it takes. The block instructions that repeat (LDIR, OTIR, CPIR, ...) end their
loop when the count expires and are fetched again, so one of them is as many `Instruction`s as rounds. CPDR does not
look at the count (`CodesED.h:299`), and is the action `CPDR` with any cost in `Scans`, up to 65536 rounds of 21 cycles in
the code. The model takes one only if the count stays above `-MaxBehind`, a bound of the model: the code has no
other than the 32 bits of `ICount`, which some 1560 full scans without a pause would overflow, and that is not modelled. `EI`, `DI`, `HALT`, `RETN` are the opcodes that touch the count
or the flip-flops; `Count` is the test of `ICount` at the end of each instruction, after which `RunZ80` either
fetches or is `"expired"`. There it either gives back what EI put aside (`ResumeHalf`) or calls `LoopZ80` and adds
the next half line (`LoopZ80Line`, `LoopZ80Blank`), and runs `IntZ80` with the request that `LoopZ80` left. `at =
"frame"` is the return of `RunZ80` to `msx_Step`, at line 192. There is no NMI, and nothing sets `INT_QUIT`.

`Periodic` is what IPeriod promises, and CPDR breaks it: the count is then below zero, and each instruction that is
fetched is followed by a `LoopZ80` until the half lines have caught up (HALT gives the rest of the debt up). `overrun`
in `MCZ80Run` is set by a CPDR that ends with no cycles left and reset when there are cycles again; `OnTime` says that
`Periodic` holds whenever it is not set.

### CommandEngine

An engine is called with `MMC` copied to `local` and the budget in `cnt`; `Plot` is one pixel, `Expire` the exit of
its loop with the budget spent, which writes back the fields in `Saved`. `Transfer` is the call of `LmcmEngine` or
`LmmcEngine`, one pixel if TR is down. `LoopVDP` renews the budget on each line and calls the engine; `VDPDraw`,
`VDPWrite`, `VDPRead`, `Abort` and `Dot` are the program's accesses. An engine runs inside one call, so nothing
interleaves with it, but it has one action for a pixel, because where it is cut is the question. `Redraw`
lets the program draw anew before its next command, so that each one starts from the same picture; it leaves
budget, TR and the registers as they were. `MMC` and the locals are cleared when nothing reads them again.

HMMV, HMMM, HMMC and YMMM work on bytes. In a mode with a byte to a pixel their loops are those of LMMV, LMMM and
LMMC with a copy as the operation; the model has YMMM and takes the other three as those. Each of the ten
operations is there, on a pixel of one bit.

### TfCard

The driver's program counter stops before each command, each block and each return; a step is one command with
its answer. `Sent` is `send_cmd`: it waits for a busy card up to its time limit, and what a card answers is
`Answers`, from the physical layer specification that the driver follows (it is external to `src/`). The time
limits are nondeterministic: a wait ends with the card ready or without. `late` is the second that
`disk_initialize` grants. A card's blocks are known by their sector. `Exchange` pulls the card out at any moment,
between two commands of one call too, and may put in another of any kind; `CardReady` ends a busy period, or never
comes.

`rcvr_datablock` is two steps: `Token` ends the wait, `Received` takes the bytes and the CRC. The driver looks at none of
them, so a block counts as received if the card has gone in between, or if bits of it are spoilt: it is `Noise` then. A
written block is one step (`Accepted`, `Refused`), since the driver does look at the card's answer to it: a card that
goes away before it has answered has refused. Spoilt commands, answers and written blocks are not in the model.

## The runs

| Run | Instance | What it shows |
| --- | --- | --- |
| `dvi_late` | 9 rows, 11 blank lines, two buffers, an encoder that needs up to 3 scanlines for a row shown on 2 | ownership of buffers, no hang below the threshold, the depth of the pipeline, the place of each row; the pipeline implements `Raster` with its liveness; a late source catches up |
| `dvi_frames` | three buffers, an encoder that needs up to 2 scanlines, core 0 | no scanline is missed; core 0 is released once for each frame, and always |
| `dvi_hang` | `dvi_late` with no spare time | a counterexample: core 1 hangs, see below |
| `audio_fifo` | rings of 2 and 3 slots, frames of 3 samples in chunks of 2, 2 samples a line | slots are free when filled and published when read, nothing is cut short, and the path implements `SampleStream` with its liveness |
| `audio_rate` | 1.5 samples a line, a ring of 24 | the position is bounded; a filled ring never runs dry |
| `kbd_play` | a letter (also the toggle key), a function key, return, caps lock, both modifiers, one gamepad; reports of 2 keys, an array of 2 | no stuck, lost or ghost key but those that crossed a mode; modifiers follow |
| `kbd_stuck` | one letter and both modifiers | a counterexample: a key sticks, see below |
| `slots_view` | each of the eleven mappers, 64kB, in either slot, beside none, a small or a mirrored cartridge | the pointers, write protection, registers, cached banks and images stay right |
| `slots_generic16` | one generic 16kB cartridge | a counterexample, see below |
| `z80_loop` | ten lines, instructions of one or two cycles, half lines of four or five, a CPDR of nine | requests follow flags, `LoopZ80` is on time but after a CPDR that overran, time is kept, frames have their shape, the shadow of EI; every request is served |
| `vdp_command` | a page of 3 by 4, budgets of two to four pixels, 20 operand sets | every command's picture, search result, transferred pixels and registers; CE; it ends |
| `sd_card` | four kinds of card, 4 sectors, transfers of up to 3 | no sector is read or written in another's place, streams are closed, calls return |

Why the bounds are enough:

- `dvi_late`: lateness can grow only in the active region and shrinks in the blank lines. Nine rows at
  three lines each against two are up to four rows late, with the queues' eight places never reached; every
  branch of the handler is taken. Two buffers are the hard case: with three, as `display_backend_init` asks for,
  the encoder always finds one that is older, and the release delay is a second line of defence. The proofs cover
  any number.
- `audio_fifo`: rings that wrap at different lengths, indexes that wrap at 6, every level from empty to full.
  `Names` exceeds what both rings and the chunk can hold, so a repeated sample cannot be mistaken for a new one.
- `audio_rate`: the real figures are 1.47 samples a line, a 2 ms timer (60 lines, 88 samples) and a ring of 1024,
  11 periods. The run has 3 lines a period and a ring of 24, five to six periods: half the slack of the code.
  With 16 `NeverDry` fails, because a refill stops at the end of the buffer and because the two lines with info
  frames are paid back at four samples a line; the code's ring is comfortably larger.
- `kbd_play`: the code's sizes are reports of 6 keys and an array of 8. What matters is that an array holds one
  report and not two, and 2 against 2 is the tightest case of that.
- `slots_view`: registers are independent but for the branches on their addresses, and the addresses, data and slot
  values take one of each. Data cover a bank within the ROM, one past its end, the value that turns on the SCC
  (63), and the mode bits of the 90-in-1. The slot values depend on the cartridge: the handlers of the generic
  16kB, GameMaster2, FMPAC-sized and N-in-1 mappers change a page without asking what it shows, so with those a
  cartridge is in both middle pages or in neither; with the others all four pages are mixed.
- `dvi_frames`: the frame has 29 lines. `PollLines = 29` is the largest that works: with 30 TLC finds a wait that
  misses two toggles. The real figure is a frame, 525 lines or 16.7 ms, and the longest interrupt of core 0 is far
  shorter.
- `z80_loop`: only the order of the lines matters to the code, and it is kept: the exit, the bottoms, the blanks
  and the ends of the coincidence for both heights and both frequencies, and the last lines. Two instruction times
  and two lengths of a half line are enough to spend a half line exactly, with one cycle left, or overdrawn by
  one, with EI on either side. The CPDR costs a whole line, and `MaxBehind = 4` is the half line it may have to wait
  for: after it an instruction is fetched with no cycle left, and another `LoopZ80` follows it. The proofs take any cost,
  none too (a disk trap, an undefined opcode); the run does not, since a program that runs nothing else for ever (64kB
  of undefined opcodes) never ends its half line, and `IrqServed` is false of it.
- `vdp_command`: rectangles that overlap, that are cut at each edge, that have NX or NY 0, that start beyond the
  edge or go around the page, in both directions; lines with either major axis; searches for the color and for the
  other. A budget of two to four pixels cuts each of them at each pixel, also at the end of a row.
- `sd_card`: sectors of two bytes, so that the byte address 2 is the block address of the third sector: a
  card taken for the other kind answers with another sector and no error. Three blocks have a first, a middle and
  a last.

## Fairness and timing

`DviPipeline!FairSpec`: weak fairness of the thread and of the interrupt. Core 1 does nothing else, the DMA
raises its interrupt for as long as it is chained, and each control block list is chained to the next.
`AudioPath!FairSpec`: weak fairness of the timer and of core 1; the repeating timer is never cancelled. The game
loop has none, since the menu may suspend it: what is promised is that samples already queued are sent.
`FramePacing!PacedFairSpec`: core 1 as above, and the game loop begins its wait (`RunZ80` returns once a frame) and
goes on looking.
`MCZ80Run!MCFairSpec`: weak fairness of the whole loop, which never stops.
`CommandEngine!FairSpec`: weak fairness of the engine and of `LoopVDP`. The program's next access of a transfer it
has begun has strong fairness: between two lines it is disabled for the length of an engine's call, but a program
that polls TR runs between any two lines. A program that leaves a transfer alone leaves CE set, as in the chip.
`TfCard!FairSpec`: weak fairness of the driver and of the clock; none of the card.
No fairness is assumed of keyboards, gamepads or Z80 programs otherwise.

Timing is in two named bounds. `EncodeIrqs` is the number of interrupts during which the thread may be runnable
before it has finished its row (`busy` counts them): the interrupt may come earlier, not later. `TimerLines` is
the number of scanlines from one timer interrupt to the next. Both are assumptions on the hardware, varied over
the runs. `PollLines` is the third, for core 0. The safety theorems hold for every value of the three, but for those
about a deadline: they name what they ask of the bound as a hypothesis (`InTime`, `Ample`, `PollLines <= FrameLines`).

## The proofs

All of them hold for every value of the constants that satisfies the named assumptions: any frame with more than
two rows and non-empty blanking, any number of buffers that fits the queues, any queue length from 2, any ring
sizes of which the first divides the range of its indexes, any rate of up to two samples a line, any set of
cartridges, addresses, data and slot values of the widths of the bus, any raster whose lines are in order, any
instruction times that are small against half a line but for a CPDR, which may take any time, any page and budget and all operands the registers hold (`OperandAssumption`), any size of card
and block.

`DviPipelineProofs`: `TypeCorrect` is inductive by itself and everything else stands on it.
`Conservation` counts buffers over the five places they can be in, `Accounting` counts rows over the pipeline
(two plus the lateness). `NeverPanics` follows from the first (all buffers together fit a queue), and
`HangsOnlyWhenLate` from both: the drop never blocks, and the callback blocks only with a full queue of rows, of
which the encoder and the encoded rows hold few. `OneOwner` is the set version of conservation, by lemmas on
sequences without repetition. `ScanIsOwned` is the strengthening that makes "no tearing" inductive: what the DMA
reads is in the release delay, or is the head of the valid queue at a time when nothing will be dropped;
`NeverTears` then follows with `OneOwner`. `Owners` joins them to the property of the run, `BufferOwners`.
`Order` says that the rows in the queues, in the encoder and on their way to the screen are consecutive modulo
the height, in the order of their scanlines and however many were dropped; `InPlace` ties the first of them to the
position of the raster. `ScanOut` follows (what the DMA reads is the row that belongs there, or a solid line that was
counted as late), and so does `ImplementsRaster`: the first state maps to a first state of `Raster`, an interrupt to a
scanline, and every step of the encoder to a stutter.
`InTimeNeverLate` and `InTimeNoHang` are about an encoder that is in time: `InTime` asks that it needs no more
scanlines for a row than show it, fewer than the blank has, that there are three buffers, and that a row is shown on at
least two lines. All of it holds of this program (one row in two scanlines, 45 blank lines, three buffers). The
invariant is `InTimeInv`: the encoder is done with its row when the first scanline of that row is chosen (`Timely`),
the rows handed back since the last callback are still to be shown (`Returned`), and one buffer at a time is in
the release delay. `PacedNeverLate` carries
it to the composition with core 0 (`PacedIsDvi`), and `WaitsOneFrame` proves `FramePaced` if core 0 looks at
least once in a frame of scanlines: `PacedInv` says how many scanlines ago the flag was toggled last, so that a
second toggle needs a frame in which nobody looked.

`AudioPathProofs`: the inductive invariant `Inv` adds to the type of every index the loop counters of the three
actors, the room left for the frame (`RoomInv`), and for both sides of the audio ring that the snapshot taken of
the other side's index is still a safe estimate (`TimerInv`, `PacketInv`): the writer's free space can only have
grown, the reader's level too. `PositionInv` bounds the fractional position by place in the frame, which is
needed because the two lines with info frames pay nothing back. `TypeCorrect`, `NothingIsCutShort`,
`PositionIsBounded`, `FillsOnlyFreeSlots` and `ReadsOnlyPublished` are its consequences.
`ImplementsStream` is the refinement of `SampleStream` for rings of every size. `RingContents` reads a ring as a
sequence; four lemmas say what it is after a slot past its end is written (`RingAppend`), after its first
is taken (`RingTail`), after a slot outside is written (`RingKept`) and when it is empty. `InTransit` adds to
`Inv` the sample that is stored and not yet published, and those the interrupt has copied. Every step then stutters or is one of `Accept` (the index moves), `Fill`
(the timer finds no sample), `Deliver` and `Pad`.
`NeverRunsDry` assumes `Ample`: the ring covers three refill periods and ten samples (three times 88 of the code's
1024). `Slack` is what the ring holds beyond what the packet being made still takes and what the position and the lines
up to the next refill can ask for. Core 1 leaves it as it is; a line passed makes `Owed` smaller by what the
packet takes. `DryInv` says that it is never negative, and that it is at least `FullSlack` unless
`write` is 0: a refill that the end of the buffer cut short leaves `write` at 0, so that the next is not cut.

`UsbKeyboardProofs`: a report is taken apart in as many steps as it has keys, so what is invariant is said of
`Current`, the keys that are down for those who hear the signals: it goes from the last report to the new one key by key.
`Base` has what is still to be signalled (`Signalled`) and that nothing reaches the emulator before it starts (`Quiet`); the
lemma `StepCases` turns every step into a call of `kbd_signal_raw_key`, the start of the emulator, or a step nobody
hears. On it stand `Emulated` (what the emulator holds down is current), `Kept` (what is current is down, while the array has
room), `Followed` (the modifiers are those of the last report, or already of the one that is signalled) and `Steered`
(every joystick bit has a gamepad or a key behind it), which give `NoKeySticks`, `NoKeyIsLost`,
`ModifiersAreFollowed` and `NothingSteersAlone`, for any finite set of keys, any size of report and of the array.

`MemorySlotsProofs`: types, then `RegistersAgree`, then `ViewInv`: the pointers agree with the maps, a page is
write-enabled exactly if it shows slot 3-2, and the RAM map holds only RAM. The last two are needed because the
subslot handler and the RAM mapper skip pages by what the cached registers say. `ViewFollows` and
`StoresReachRam` assume that the MegaROMs are of the types 0 to 5 and 8 (`SafeTypes`); of the others they are
false, as the runs show. `BanksAreShown` needs no hypothesis: `BankShown` is inductive by itself, since the pointers and
the register change together in every path, so that a switch that is skipped would have changed nothing. `ImagesAreOwn` is `OwnImage` under
`OwnSetups`, which says of the cartridges what the code takes for granted: at most one of the two is above 32kB (there is one
flash area), its size is 64kB to 1MB and a power of two (the mask is rounded up, and nothing is mirrored in flash), and it is not
of type 1 if it has banks, nor of type 8 if it is small. The invariant is that every register and every block of the map is
below the mask.

`Z80RunProofs`: the invariant `IInv` joins types, `IrqLines` and `Behind`, which bounds the count at each point of the
loop: CPDRs take it to `-MaxBehind`, EI and the instruction after it two instructions further, and a half line brings
at least those two. That much `CyclesAssumption` asks: a half line is longer than two instructions on either side of
the blank. Of the code it holds for every instruction and every single round of a block instruction (by `Tables.h` 0 to 23
cycles with the prefixes, against 228 a line), and CPDR is not one of them: `Scans` is any set of numbers and `MaxBehind` any number. `HandlerOnTime` is about
`MCSpec`, with `overrun`: what is inductive with `IInv` is that without an overrun the count is `Punctual`, that is `Periodic`, and what EI put
aside is above minus one instruction. Once the count is positive it is punctual whatever came before (`CaughtUp`),
and without a CPDR it stays so. `TypeCorrect` and `RequestFollowsFlags` are parts of `IInv`; `TimeIsKept` is an
action property proved from it, step by step of the loop, CPDR among them. `FramesHaveShape` and `EICastsShadow` are about `MCSpec`, whose history
variables remember whether the height changed, whether the frame was returned from, and EI: on top of `IInv` the first
is inductive by itself, for both heights and frequencies and a height that changes on any line; the second needs that
after EI the next thing is a fetch (`Fetching`).

`CommandEngineProofs`: the reference of `Outcome` (`Drawn`) is a fold of a whole command over a picture; the engines
go pixel by pixel with counters of their own, cut anywhere. `IInv` relates the two. A machine, `MMC` or the
engine's copy, is before the k-th pixel of its command (`Going`: row and column of a rectangle, point and remainder of a
line, place of a search), and the picture is a `Chain` of k pixels of the reference. A program that sends has sent k
pixels, or one more that waits behind a cleared TR (`SentTo`); one that reads has got k, or one fewer (`ReceivedTo`). Each
operator then has a lemma about one step: `BlockNextIs` and `BlockOverIs`, `LineStep` and `LineEnds`, `SearchStep` say that
an engine goes from the k-th pixel to the next and is over at the last, `PlottedIs` and `TransferredIs` that it draws the
k-th pixel of the reference, `SavedGoes` that what a cut saves in `MMC` is enough to go on, `LeftBy` what the last pixel leaves
in the registers. `CalledAgain` says what a call does with a budget, none, or no engine, and is used wherever the
program or `LoopVDP` makes one. `ChainEnds` needs that a fold is determined by its steps: two functions that
start and go on alike have no least place where they differ (`LeastElement`, from the library's well-founded order of
the naturals). From `IInv` come `TypesHold`, `BusyFlag`, `DrawsWhatItIsToDraw` and `LeavesTheNextRow`. The last two assume `LongAxis`:
a line has NX at least NY, as the V9938 asks. `LineEngine` moves its shorter axis at most one pixel for a point, so
that with the sides exchanged it draws a diagonal and no line; the first two theorems do not need it, nor does any
other command.

`TfCardProofs`: `IInv` joins types, `Addressing`, `Progress` and `Transferred`. `Addressing` is why an exchange does no
harm: a card that takes data is of the kind that `disk_initialize` found, since a card that was put in is `Apart`, it
takes none before it is initialised; and while `disk_initialize` asks, what it has learned holds of a card that could
answer further. `AskedIsTransferred` says no more than the driver does: a block may be `Noise`, cut off or spoilt after its
token, but no block is another sector's. `Progress` relates the blocks moved to `count` and to the card's own position, and needs that a
multiple of the block size divided by it is the sector again. `Streams` is the invariant behind `Closed`, on top of
`IInv`: which program points a card in a stream goes with.

Only model-checked: all liveness, with the fairness part of the two refinements (ENABLED and fairness are out of the
prover's reach); `NoHang` and `NeverLate` for an encoder that is not in time, where the run shows how many spare
lines are enough. No module here needs recursion.

## Where the code departs from its documentation

1. `dvi_hang`: `dvi.h:45` promises solid colour while the source is late, "rather than dying". The scanline
   callback adds to `q_colour_valid` with a blocking call inside the interrupt (`display_picodvi.c:64`); an encoder
   that stays too slow fills that queue, and core 1 stops with the picture and the sound. Lateness of six rows is
   the threshold (`HangsOnlyWhenLate`).
2. `kbd_stuck`: the release of J that toggles the joystick mode is itself dispatched in the new mode
   (`emuapi.cpp:1361`), so the emulator never hears it, nor the release of the modifiers.
3. `slots_generic16`: the second half of a 16kB bank in page 8000h is taken from page 4000h (`fmsx.c:2510`).

More follow from the models, or were met while reading for them, and have no run of their own:

- `Z80.h:86` calls IPeriod the number of cycles between calls of `LoopZ80`. CPDR, alone among the block
  instructions, loops without a look at `ICount` (`CodesED.h:299`; CPIR at line 276 has the test): one of them can take
  1.4 million cycles, 6000 lines, in which there is no interrupt and no frame, and after it `LoopZ80` is called after
  each instruction until the raster has caught up. No cycle is lost (`CyclesKept`). The model has the step:
  `Periodic` in place of `OnTime` is violated by the first CPDR;
- after a block's token `rcvr_datablock` looks at nothing and discards the CRC (`tf_card.c:275`), and returns
  "1:OK". A card that is pulled out in the middle of the last block, or a bit that is spoilt in any, gives
  RES_OK ("Successful", `diskio.h:17`) with a buffer that does not hold the sector. In `Transferred` such a block is
  `Noise`; without it TLC finds the read of one sector whose card goes after the token;
- a register of the 126-in-1 changes the pointers of page 8000h even if that page shows RAM (`fmsx.c:2629`); stores
  then reach the cartridge. `WriteProtect` fails for it when the slot values of `Mixed` are used;
- every ROM above 32kB is loaded to the same flash address (`fmsx.c:2789`); the second of two replaces the first;
- the 25-in-1 updates four of the eight pointers it changes (`fmsx.c:2693`), so a page 0000h or C000h that shows it
  keeps the old bank;
- a ROM in flash whose size is not a power of two is not mirrored up to its mask (`fmsx.c:2878`), so high banks show
  what the flash held before;
- LINE reads its major axis from register 45 on each slice, not from the copy it made (`V9938.c:450`); a program
  that writes the register while the line is drawn turns it. The reads differ only then, and the model has no such
  write;
- a block command with NY = 0 does not advance DY and SY past its last row, since its count ends at -1024 and not at 0
  (`V9938.c:526`), and LMCM moves DY where SY is meant (`V9938.c:619`): `RegistersLeft` leaves these two out;
- a program that leaves SCREEN 5 to 8 while a command draws ends it at the next slice, with CE cleared as if it were
  complete (`V9938.c:522`);
- a multiple-block write to a card that stays busy before the stop token sends none (`tf_card.c:524`): the call fails,
  the card keeps waiting for blocks, and a later `CTRL_SYNC` may still say OK. `Closed` allows for exactly this;
- the time limits of `tf_card.c` compare `_millis() < t + wt` in 32 bits (`tf_card.c:217`): when the clock wraps, after 49
  days, a wait ends at once or lasts too long;
- `LoadCart` does not close its file when a cartridge has been loaded (`fmsx.c:2808`).

## What is not modelled

- Data: TMDS, TERC4 and BCH encoding, pixels, line renderers, sprites, Z80 instructions, the sound mixer, layouts.
- Hardware: DMA register programming, PIO, SPI transfers, clocks.
- Third-party code: `pico-sdk`, `pico-extras`, `fatfs`, TinyUSB, `pico-pio-usb`. Their queues, timers and locks
  are taken at their documented meaning; of PicoDVI only the files this repository changed and runs are modelled.
- Dead in this build: BIOS and disk patches, serial ports, the clock; the PSRAM cache (`psram_t.cpp`), which nothing
  instantiates.
- Of the VDP: the latches of the register and VRAM ports, palette, sprites and blink; they raise no interrupt.
- Of the commands: a second command given while one runs, and a change of the screen mode in one.
- Of the card: the SPI transfers below a command, the queries of `disk_ioctl`, and bits spoilt in commands, answers and
  written blocks.
- Of the cycle count: its overflow at 32 bits, after some 1560 full CPDR scans on end.
- A second keyboard, and a keyboard that is pulled out with keys held: `hid_app.c` keeps one previous report for all
  of them (line 554), and no report releases the keys (line 1066). With either, keys stick by design of the code.
- Not yet: everything in the plan.

## The plan

In this order; each module with a type invariant, its hazards' properties and a proof module where a safety
invariant is worth one.

1. `CartridgeLoad`: files, handle table, buffers and flash with the failures between them; composes with
   `MemorySlots`, whose `OwnImage` is its promise.
2. `SoundRegisters`: PSG, SCC, OPLL dirty bits and `Sync`.
3. The port latches of the VDP with the read-ahead of the VRAM address, beside `VdpRaster`.
4. Gamepad report parser, mounting and unmounting, in `UsbKeyboard`; the HSTX back end's DMA and audio buffers.

Proofs to come: with each of these modules its type invariant and its first safety property.
