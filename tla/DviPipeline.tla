---------------------------- MODULE DviPipeline ----------------------------
(***************************************************************************)
(* The video pipeline of core 1: PicoDVI's TMDS encoder thread             *)
(* (dvi_scanbuf_main_8bpp), the DMA interrupt that preempts it once per    *)
(* scanline (dvi_dma_irq_handler) and the scanline callback that           *)
(* display_picodvi.c runs inside that interrupt.                           *)
(*                                                                         *)
(* The four queues carry pointers between the thread and the interrupt.    *)
(* A pointer to a framebuffer line is the number of its row, a TMDS buffer *)
(* the number of its malloc; "pixels" is what the encoder left in it.      *)
(* The interrupt runs on the core of the thread, so it is one atomic step  *)
(* between any two steps of the thread; every queue operation holds a spin *)
(* lock with interrupts off, so each is atomic too.                        *)
(*                                                                         *)
(* The DMA engine is the environment: "scan" holds the two control block   *)
(* lists that matter after an interrupt, the one whose active region is    *)
(* now being read ("now") and the one just loaded ("next"), each with the  *)
(* scanline it is for.                                                     *)
(***************************************************************************)
EXTENDS VideoTiming, Sequences

CONSTANTS
  BufferCount,     \* DVI_N_TMDS_BUFFERS
  QueueCapacity,   \* element_count of the four queues
  EncodeIrqs       \* timing bound: interrupts one row's encoding may span

ASSUME QueueAssumption ==
  /\ BufferCount \in Nat \ {0}
  /\ QueueCapacity \in Nat
  /\ BufferCount <= QueueCapacity
  /\ 2 <= QueueCapacity
ASSUME EncodeAssumption == EncodeIrqs \in Nat \ {0}

VARIABLES
  q_tmds_free,       \* TMDS buffers the encoder may take
  q_tmds_valid,      \* encoded, waiting to be scanned out
  q_colour_valid,    \* rows waiting to be encoded
  q_colour_free,     \* rows the encoder hands back
  tmds_buf_release,  \* the two-interrupt delay before a buffer is free again
  late_scanline_ctr,
  timing_state,      \* [v_state, v_ctr]
  next_line,         \* static counter of the scanline callback
  vsync_flag,
  encoder,           \* the thread: [pc, scanbuf, tmdsbuf]
  busy,              \* interrupts since the thread last returned a row
  pixels,            \* contents of each TMDS buffer: a row, or NoRow
  scan,              \* what the DMA reads: [now, next]
  core1              \* "running", or stuck for good in the interrupt

queues == <<q_tmds_free, q_tmds_valid, q_colour_valid, q_colour_free>>
irqVars == <<tmds_buf_release, late_scanline_ctr, timing_state, next_line,
             vsync_flag, scan>>
threadVars == <<encoder, pixels>>
vars == <<queues, irqVars, threadVars, busy, core1>>

Buffers == 1 .. BufferCount
NoBuf == 0
Slots == Buffers \union {NoBuf}

(***************************************************************************)
(* dvi_init, then display_backend_init, then the launch of core 1.         *)
(***************************************************************************)
\* The two rows display_backend_init queues before it launches core 1.
StartRows_One == <<0>>
StartRows == <<0, 1>>

Init ==
  /\ q_tmds_free = [i \in 1 .. BufferCount |-> i]
  /\ q_tmds_valid = << >>
  /\ q_colour_valid = StartRows
  /\ q_colour_free = << >>
  /\ tmds_buf_release = [i \in 0 .. 1 |-> NoBuf]
  /\ late_scanline_ctr = 0
  /\ timing_state = FirstLine
  /\ next_line = 2
  /\ vsync_flag = FALSE
  /\ encoder = [pc |-> "colour", scanbuf |-> NoRow, tmdsbuf |-> NoBuf]
  /\ busy = 0
  /\ pixels = [b \in Buffers |-> NoRow]
  /\ scan = [now  |-> [buf |-> NoBuf,
                      at  |-> [v_state |-> "active", v_ctr |-> ActiveLines - 1]],
             next |-> [buf |-> NoBuf, at |-> FirstLine]]
  /\ core1 = "running"

(***************************************************************************)
(* The encoder thread.  A blocking queue operation is an action that waits *)
(* for its guard.                                                          *)
(***************************************************************************)
TakeRow ==
  /\ core1 = "running"
  /\ encoder.pc = "colour"
  /\ q_colour_valid # << >>
  /\ encoder' = [encoder EXCEPT !.pc = "tmds", !.scanbuf = Head(q_colour_valid)]
  /\ q_colour_valid' = Tail(q_colour_valid)
  /\ UNCHANGED <<q_tmds_free, q_tmds_valid, q_colour_free, irqVars, pixels,
                 busy, core1>>

\* From here the three channels are being written: the buffer holds no row.
TakeBuffer ==
  /\ core1 = "running"
  /\ encoder.pc = "tmds"
  /\ q_tmds_free # << >>
  /\ encoder' = [encoder EXCEPT !.pc = "encode", !.tmdsbuf = Head(q_tmds_free)]
  /\ q_tmds_free' = Tail(q_tmds_free)
  /\ pixels' = [pixels EXCEPT ![Head(q_tmds_free)] = NoRow]
  /\ UNCHANGED <<q_tmds_valid, q_colour_valid, q_colour_free, irqVars, busy,
                 core1>>

\* The last channel is encoded and the buffer is queued for scan-out.
PublishBuffer ==
  /\ core1 = "running"
  /\ encoder.pc = "encode"
  /\ Len(q_tmds_valid) < QueueCapacity
  /\ pixels' = [pixels EXCEPT ![encoder.tmdsbuf] = encoder.scanbuf]
  /\ q_tmds_valid' = Append(q_tmds_valid, encoder.tmdsbuf)
  /\ encoder' = [encoder EXCEPT !.pc = "return", !.tmdsbuf = NoBuf]
  /\ UNCHANGED <<q_tmds_free, q_colour_valid, q_colour_free, irqVars, busy,
                 core1>>

ReturnRow ==
  /\ core1 = "running"
  /\ encoder.pc = "return"
  /\ Len(q_colour_free) < QueueCapacity
  /\ q_colour_free' = Append(q_colour_free, encoder.scanbuf)
  /\ encoder' = [encoder EXCEPT !.pc = "colour", !.scanbuf = NoRow]
  /\ busy' = 0
  /\ UNCHANGED <<q_tmds_free, q_tmds_valid, q_colour_valid, irqVars, pixels,
                 core1>>

\* The thread has something to do: it is not waiting on a queue.
Runnable ==
  \/ encoder.pc = "colour" /\ q_colour_valid # << >>
  \/ encoder.pc = "tmds"   /\ q_tmds_free # << >>
  \/ encoder.pc = "encode" /\ Len(q_tmds_valid) < QueueCapacity
  \/ encoder.pc = "return" /\ Len(q_colour_free) < QueueCapacity

(***************************************************************************)
(* The interrupt, in the order of the handler.                             *)
(***************************************************************************)

\* 1. The buffer released two interrupts ago goes back to the encoder.
FreeAfterRelease ==
  IF tmds_buf_release[1] = NoBuf THEN q_tmds_free
  ELSE Append(q_tmds_free, tmds_buf_release[1])

ReleasePanics == /\ tmds_buf_release[1] # NoBuf
                 /\ Len(q_tmds_free) = QueueCapacity

\* 2. A row that is ready too late is passed back unseen.
DropCount_None == 0    \* Mutant: a late row is shown when it comes
DropCount == IF late_scanline_ctr < Len(q_tmds_valid) THEN late_scanline_ctr
             ELSE Len(q_tmds_valid)

FreeAfterDrop == FreeAfterRelease \o SubSeq(q_tmds_valid, 1, DropCount)

ValidAfterDrop == SubSeq(q_tmds_valid, DropCount + 1, Len(q_tmds_valid))

\* queue_add_blocking inside the handler waits for a thread that cannot run.
DropBlocks == Len(FreeAfterDrop) > QueueCapacity

\* 3. In the active region the oldest encoded row is chosen for the next
\* scanline; its last repetition takes it off the queue.  The blank_settings
\* are 0 and scanline_is_enabled is never set, so no active line is blanked.
ConsumesRow(t) == t.v_state = "active" /\ IsLastRepeat(t)

RowIsReady == ValidAfterDrop # << >>

Selected(t) == IF t.v_state = "active" /\ RowIsReady THEN Head(ValidAfterDrop)
               ELSE NoBuf

Consumed(t) == IF ConsumesRow(t) /\ RowIsReady THEN Head(ValidAfterDrop)
               ELSE NoBuf

\* Mutant: the buffer is freed one interrupt early.
ReleaseAfter_OneIrq(t) == [i \in 0 .. 1 |-> IF i = 1 THEN Consumed(t) ELSE NoBuf]
ReleaseAfter(t) ==
  [i \in 0 .. 1 |-> IF i = 1 THEN tmds_buf_release[0] ELSE Consumed(t)]

\* Mutant: a missing row is counted on each of its repetitions.
LateAfter_EveryRepeat(t) ==
  late_scanline_ctr - DropCount
    + (IF t.v_state = "active" /\ ~RowIsReady THEN 1 ELSE 0)
LateAfter(t) ==
  late_scanline_ctr - DropCount
    + (IF ConsumesRow(t) /\ ~RowIsReady THEN 1 ELSE 0)

SelectScanline(t) ==
  /\ scan' = [now |-> scan.next, next |-> [buf |-> Selected(t), at |-> t]]
  /\ q_tmds_valid' = IF ConsumesRow(t) /\ RowIsReady THEN Tail(ValidAfterDrop)
                     ELSE ValidAfterDrop
  /\ tmds_buf_release' = ReleaseAfter(t)
  /\ late_scanline_ctr' = LateAfter(t)

\* 4. core1_scanline_callback: drain q_colour_free, queue the next row.
CallsBack_EveryLine(t) == t.v_state = "active"    \* Mutant
CallsBack(t) == t.v_state = "active" /\ IsLastRepeat(t)

CallbackBlocks(t) == CallsBack(t) /\ Len(q_colour_valid) = QueueCapacity

\* Mutant: the row number is compared with the wrong end of the frame.
SignalsVsync_AtEnd(t) == RowOf(t) = FbHeight
SignalsVsync(t) == RowOf(t) = 0

ScanlineCallback(t) ==
  IF CallsBack(t)
  THEN /\ q_colour_free' = << >>
       /\ q_colour_valid' = Append(q_colour_valid, next_line)
       /\ next_line' = (next_line + 1) % FbHeight
       /\ vsync_flag' = IF SignalsVsync(t) THEN ~vsync_flag ELSE vsync_flag
  ELSE UNCHANGED <<q_colour_free, q_colour_valid, next_line, vsync_flag>>

HandleScanline(t) ==
  /\ q_tmds_free' = FreeAfterDrop
  /\ SelectScanline(t)
  /\ ScanlineCallback(t)
  /\ timing_state' = t
  /\ busy' = IF Runnable THEN busy + 1 ELSE busy

\* A panic, or a wait inside the handler, stops core 1 for good: what the
\* handler did before that is not kept.
DmaIrq ==
  LET t == Advanced(timing_state) IN
  /\ core1 = "running"
  /\ Runnable => busy < EncodeIrqs
  /\ core1' = IF ReleasePanics THEN "panic"
              ELSE IF DropBlocks \/ CallbackBlocks(t) THEN "blocked"
              ELSE "running"
  /\ IF core1' = "running" THEN HandleScanline(t)
     ELSE UNCHANGED <<queues, irqVars, busy>>
  /\ UNCHANGED threadVars

Next ==
  \/ TakeRow
  \/ TakeBuffer
  \/ PublishBuffer
  \/ ReturnRow
  \/ DmaIrq

Spec == Init /\ [][Next]_vars

(***************************************************************************)
(* Core 1 never stops running its thread and the DMA never stops raising   *)
(* its interrupt.                                                          *)
(***************************************************************************)
Encoder == TakeRow \/ TakeBuffer \/ PublishBuffer \/ ReturnRow

FairSpec == Spec /\ WF_vars(Encoder) /\ WF_vars(DmaIrq)

-----------------------------------------------------------------------------
EncoderStates ==
  [pc : {"colour"}, scanbuf : {NoRow}, tmdsbuf : {NoBuf}]
    \union [pc : {"tmds", "return"}, scanbuf : Rows, tmdsbuf : {NoBuf}]
    \union [pc : {"encode"}, scanbuf : Rows, tmdsbuf : Buffers]

Scans == [buf : Slots, at : TimingStates]

(* Every queue, counter and pointer has its type; the thread holds a row   *)
(* and a buffer exactly at the places of _dvi_prepare_scanline_8bpp where  *)
(* the code does.                                                          *)
TypeOK ==
  /\ q_tmds_free \in Seq(Buffers)
  /\ q_tmds_valid \in Seq(Buffers)
  /\ q_colour_valid \in Seq(Rows)
  /\ q_colour_free \in Seq(Rows)
  /\ tmds_buf_release \in [0 .. 1 -> Slots]
  /\ late_scanline_ctr \in Nat
  /\ timing_state \in TimingStates
  /\ next_line \in Rows
  /\ vsync_flag \in BOOLEAN
  /\ encoder \in EncoderStates
  /\ busy \in 0 .. EncodeIrqs
  /\ pixels \in [Buffers -> Rows \union {NoRow}]
  /\ scan \in [now : Scans, next : Scans]
  /\ core1 \in {"running", "panic", "blocked"}

-----------------------------------------------------------------------------
Held(b) == IF b = NoBuf THEN 0 ELSE 1

(* Every TMDS buffer dvi_init allocated is still in one of the two queues, *)
(* with the encoder or in the release delay: none leaks in a frame of late *)
(* scanlines.                                                              *)
BufferConservation ==
  Len(q_tmds_free) + Len(q_tmds_valid) + Held(encoder.tmdsbuf)
    + Held(tmds_buf_release[0]) + Held(tmds_buf_release[1]) = BufferCount

Elements(q) == {q[i] : i \in 1 .. Len(q)}

Distinct(q) == \A i, j \in 1 .. Len(q) : q[i] = q[j] => i = j

(* ... and in no more than one of them: nothing is released twice.         *)
UniqueOwner ==
  /\ Distinct(q_tmds_free)
  /\ Distinct(q_tmds_valid)
  /\ Elements(q_tmds_free) \cap Elements(q_tmds_valid) = {}
  /\ \A b \in {encoder.tmdsbuf, tmds_buf_release[0], tmds_buf_release[1]} :
       b \notin Elements(q_tmds_free) \union Elements(q_tmds_valid)
  /\ encoder.tmdsbuf \in {tmds_buf_release[0], tmds_buf_release[1]}
       => encoder.tmdsbuf = NoBuf
  /\ tmds_buf_release[0] = tmds_buf_release[1] => tmds_buf_release[0] = NoBuf

(* A buffer the DMA reads is held back for it: by the release delay, or as *)
(* the head of q_tmds_valid, which is not dropped while no row is late.    *)
Waiting(b) == /\ q_tmds_valid # << >>
              /\ b = Head(q_tmds_valid)
              /\ late_scanline_ctr = 0

ScanOwned ==
  /\ scan.next.buf # NoBuf => \/ scan.next.buf = tmds_buf_release[0]
                              \/ Waiting(scan.next.buf)
  /\ scan.now.buf # NoBuf =>
       \/ scan.now.buf \in {tmds_buf_release[0], tmds_buf_release[1]}
       \/ Waiting(scan.now.buf)

(* The encoder never writes into a buffer the DMA is still sending: what   *)
(* the two interrupts between release and reuse are for.                   *)
NoTearing ==
  encoder.tmdsbuf \in {scan.now.buf, scan.next.buf} => encoder.tmdsbuf = NoBuf

(* Every TMDS buffer is in one place and in one only, none is lost, and    *)
(* the encoder's is not the one being sent or the next, in every frame of  *)
(* late scanlines.                                                         *)
BufferOwners == BufferConservation /\ UniqueOwner /\ ScanOwned /\ NoTearing

(* The handler never panics with "TMDS free queue full in IRQ!".           *)
NoPanic == core1 # "panic"

(* A blocking queue operation inside the interrupt never waits: the thread *)
(* it would wait for cannot run until the handler returns.                 *)
NoHang == core1 # "blocked"

(* ... so the solid-colour fallback survives until the source is nearly a  *)
(* whole queue behind: core 1 hangs only once that many rows are late.     *)
HangOnlyWhenLate == core1 = "blocked" => late_scanline_ctr + 2 >= QueueCapacity

RowsInFlight == Len(q_colour_valid) + (IF encoder.pc \in {"tmds", "encode"}
                                       THEN 1 ELSE 0) + Len(q_tmds_valid)

(* The callback queues a row for each row the scan-out consumes, misses or *)
(* drops, so the pipeline is exactly two rows plus its lateness deep.      *)
LinesAccounted == RowsInFlight = 2 + late_scanline_ctr

(* The picture stays in place: whatever the DMA is reading, or is about to *)
(* read, is a finished buffer that holds the row of that scanline.  It     *)
(* fails if the encoder gets a buffer back before its scan-out ended, or   *)
(* if a late row is shown below its place.                                 *)
ScanOutIntact ==
  \A s \in {scan.now, scan.next} :
    s.buf # NoBuf => pixels[s.buf] = RowOf(s.at)

-----------------------------------------------------------------------------
(* The pipeline implements the raster it feeds: the picture on a scanline  *)
(* is whatever its buffer holds while the DMA reads it.                    *)
Picture == IF scan.now.buf = NoBuf THEN NoRow ELSE pixels[scan.now.buf]

R == INSTANCE Raster WITH at <- scan.now.at, shown <- Picture
Raster == R!Spec
FairRaster == R!FairSpec
=============================================================================
