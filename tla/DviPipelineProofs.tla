------------------------- MODULE DviPipelineProofs -------------------------
(***************************************************************************)
(* What holds of the video pipeline for every number of buffers, every     *)
(* queue length that can hold them, every timing and every speed of the    *)
(* encoder.                                                                *)
(***************************************************************************)
EXTENDS FramePacing, VideoTimingProofs, SequenceTheorems

(***************************************************************************)
(* What the handler makes of the two TMDS queues.                          *)
(***************************************************************************)
LEMMA DropFacts ==
  ASSUME TypeOK
  PROVE  /\ DropCount \in 0 .. Len(q_tmds_valid)
         /\ DropCount <= late_scanline_ctr
         /\ FreeAfterRelease \in Seq(Buffers)
         /\ Len(FreeAfterRelease) = Len(q_tmds_free) + Held(tmds_buf_release[1])
         /\ FreeAfterDrop \in Seq(Buffers)
         /\ Len(FreeAfterDrop) = Len(FreeAfterRelease) + DropCount
         /\ ValidAfterDrop \in Seq(Buffers)
         /\ Len(ValidAfterDrop) = Len(q_tmds_valid) - DropCount
<1>1. /\ q_tmds_valid \in Seq(Buffers)
      /\ q_tmds_free \in Seq(Buffers)
      /\ late_scanline_ctr \in Nat
      /\ tmds_buf_release[1] \in Slots
  BY DEF TypeOK
<1>2. DropCount \in 0 .. Len(q_tmds_valid) /\ DropCount <= late_scanline_ctr
  BY <1>1, LenProperties DEF DropCount
<1>3. /\ FreeAfterRelease \in Seq(Buffers)
      /\ Len(FreeAfterRelease) = Len(q_tmds_free) + Held(tmds_buf_release[1])
  <2>1. CASE tmds_buf_release[1] = NoBuf
    BY <1>1, <2>1, LenProperties DEF FreeAfterRelease, Held
  <2>2. CASE tmds_buf_release[1] # NoBuf
    BY <1>1, <2>2, AppendProperties DEF FreeAfterRelease, Held, Slots
  <2>3. QED
    BY <2>1, <2>2
<1>4. /\ SubSeq(q_tmds_valid, 1, DropCount) \in Seq(Buffers)
      /\ Len(SubSeq(q_tmds_valid, 1, DropCount)) = DropCount
  <2>1. \A i \in 1 .. DropCount : q_tmds_valid[i] \in Buffers
    BY <1>1, <1>2, ElementOfSeq, LenProperties
  <2>2. QED
    BY <1>2, <2>1, SubSeqProperties, LenProperties, <1>1
<1>5. /\ ValidAfterDrop \in Seq(Buffers)
      /\ Len(ValidAfterDrop) = Len(q_tmds_valid) - DropCount
  <2>1. \A i \in DropCount + 1 .. Len(q_tmds_valid) : q_tmds_valid[i] \in Buffers
    BY <1>1, <1>2, ElementOfSeq, LenProperties
  <2>2. Len(q_tmds_valid) \in Int /\ DropCount + 1 \in Int
    BY <1>1, <1>2, LenProperties
  <2>3. QED
    BY <1>2, <2>1, <2>2, SubSeqProperties DEF ValidAfterDrop
<1>6. /\ FreeAfterDrop \in Seq(Buffers)
      /\ Len(FreeAfterDrop) = Len(FreeAfterRelease) + DropCount
  BY <1>3, <1>4, ConcatProperties DEF FreeAfterDrop
<1>7. QED
  BY <1>2, <1>3, <1>5, <1>6

LEMMA ChoiceFacts ==
  ASSUME TypeOK, NEW t
  PROVE  /\ RowIsReady <=> Len(ValidAfterDrop) > 0
         /\ Selected(t) \in Slots
         /\ Consumed(t) \in Slots
         /\ Consumed(t) # NoBuf <=> ConsumesRow(t) /\ RowIsReady
         /\ RowIsReady => /\ Tail(ValidAfterDrop) \in Seq(Buffers)
                          /\ Len(Tail(ValidAfterDrop)) = Len(ValidAfterDrop) - 1
<1>1. ValidAfterDrop \in Seq(Buffers)
  BY DropFacts
<1>2. RowIsReady <=> Len(ValidAfterDrop) > 0
  BY <1>1, EmptySeq DEF RowIsReady
<1>3. RowIsReady => /\ Head(ValidAfterDrop) \in Buffers
                    /\ Tail(ValidAfterDrop) \in Seq(Buffers)
                    /\ Len(Tail(ValidAfterDrop)) = Len(ValidAfterDrop) - 1
  BY <1>1, HeadTailProperties DEF RowIsReady
<1>4. \A b \in Buffers : b # NoBuf
  BY QueueAssumption DEF Buffers, NoBuf
<1>5. QED
  BY <1>2, <1>3, <1>4 DEF Selected, Consumed, Slots

-----------------------------------------------------------------------------
(***************************************************************************)
(* Type correctness.                                                       *)
(***************************************************************************)
LEMMA InitType == Init => TypeOK
<1> SUFFICES ASSUME Init PROVE TypeOK
  OBVIOUS
<1>1. q_tmds_free \in Seq(Buffers)
  BY QueueAssumption, SeqDef DEF Init, Buffers
<1>2. q_colour_valid \in Seq(Rows)
  <2>1. 0 \in Rows /\ 1 \in Rows
    BY TimingAssumption DEF Rows
  <2>2. QED
    BY <2>1 DEF Init, StartRows
<1>3. scan \in [now : Scans, next : Scans]
  <2>1. [v_state |-> "active", v_ctr |-> ActiveLines - 1] \in TimingStates
    BY ActiveLinesPositive DEF TimingStates, VStates, LinesIn
  <2>2. QED
    BY <2>1, FirstLineType DEF Init, Scans, Slots
<1>4. encoder \in EncoderStates
  BY DEF Init, EncoderStates
<1>5. next_line \in Rows
  BY TimingAssumption DEF Init, Rows
<1>6. /\ q_tmds_valid \in Seq(Buffers)
      /\ q_colour_free \in Seq(Rows)
  BY EmptySeq DEF Init
<1>7. /\ tmds_buf_release \in [0 .. 1 -> Slots]
      /\ pixels \in [Buffers -> Rows \union {NoRow}]
      /\ timing_state \in TimingStates
  BY FirstLineType DEF Init, Slots
<1>8. /\ late_scanline_ctr \in Nat
      /\ vsync_flag \in BOOLEAN
      /\ busy \in 0 .. EncodeIrqs
      /\ core1 \in {"running", "panic", "blocked"}
  <2>1. late_scanline_ctr = 0 /\ vsync_flag \in BOOLEAN /\ busy = 0 /\ core1 = "running"
    BY DEF Init
  <2>2. QED
    BY <2>1, EncodeAssumption
<1>9. QED
  BY <1>1, <1>2, <1>3, <1>4, <1>5, <1>6, <1>7, <1>8 DEF TypeOK

\* In each place of the thread: what the encoder record holds.
LEMMA EncoderFacts ==
  ASSUME TypeOK
  PROVE  /\ encoder.pc \in {"colour", "tmds", "encode", "return"}
         /\ encoder = [pc |-> encoder.pc, scanbuf |-> encoder.scanbuf,
                       tmdsbuf |-> encoder.tmdsbuf]
         /\ encoder.scanbuf \in IF encoder.pc = "colour" THEN {NoRow} ELSE Rows
         /\ encoder.tmdsbuf \in IF encoder.pc = "encode" THEN Buffers
                                ELSE {NoBuf}
<1>1. encoder \in EncoderStates
  BY DEF TypeOK
<1>2. QED
  BY <1>1 DEF EncoderStates

\* The variables an encoder step may change keep their types.
LEMMA EncoderType ==
  ASSUME TypeOK, Encoder
  PROVE  TypeOK'
<1> USE DEF TypeOK
<1>1. CASE TakeRow
  <2>1. Head(q_colour_valid) \in Rows /\ Tail(q_colour_valid) \in Seq(Rows)
    BY <1>1, HeadTailProperties DEF TakeRow
  <2>2. encoder' = [pc |-> "tmds", scanbuf |-> Head(q_colour_valid),
                    tmdsbuf |-> NoBuf]
    BY <1>1, EncoderFacts DEF TakeRow
  <2>3. encoder' \in EncoderStates
    BY <2>1, <2>2 DEF EncoderStates
  <2>4. QED
    BY <1>1, <2>1, <2>3 DEF TakeRow, irqVars
<1>2. CASE TakeBuffer
  <2>1. Head(q_tmds_free) \in Buffers /\ Tail(q_tmds_free) \in Seq(Buffers)
    BY <1>2, HeadTailProperties DEF TakeBuffer
  <2>2. /\ encoder.scanbuf \in Rows
        /\ encoder' = [pc |-> "encode", scanbuf |-> encoder.scanbuf,
                       tmdsbuf |-> Head(q_tmds_free)]
    BY <1>2, EncoderFacts DEF TakeBuffer
  <2>3. encoder' \in EncoderStates
    BY <2>1, <2>2 DEF EncoderStates
  <2>4. QED
    BY <1>2, <2>1, <2>3 DEF TakeBuffer, irqVars
<1>3. CASE PublishBuffer
  <2>1. /\ encoder.scanbuf \in Rows
        /\ encoder.tmdsbuf \in Buffers
        /\ encoder' = [pc |-> "return", scanbuf |-> encoder.scanbuf,
                       tmdsbuf |-> NoBuf]
    BY <1>3, EncoderFacts DEF PublishBuffer
  <2>2. encoder' \in EncoderStates
    BY <2>1 DEF EncoderStates
  <2>3. q_tmds_valid' \in Seq(Buffers)
    BY <1>3, <2>1, AppendProperties DEF PublishBuffer
  <2>4. QED
    BY <1>3, <2>1, <2>2, <2>3 DEF PublishBuffer, irqVars
<1>4. CASE ReturnRow
  <2>1. /\ encoder.scanbuf \in Rows
        /\ encoder' = [pc |-> "colour", scanbuf |-> NoRow, tmdsbuf |-> NoBuf]
    BY <1>4, EncoderFacts DEF ReturnRow
  <2>2. encoder' \in EncoderStates
    BY <2>1 DEF EncoderStates
  <2>3. q_colour_free' \in Seq(Rows)
    BY <1>4, <2>1, AppendProperties DEF ReturnRow
  <2>4. QED
    BY <1>4, <2>2, <2>3, EncodeAssumption DEF ReturnRow, irqVars
<1>5. QED
  BY <1>1, <1>2, <1>3, <1>4 DEF Encoder

LEMMA IrqType ==
  ASSUME TypeOK, DmaIrq
  PROVE  TypeOK'
<1> DEFINE t == Advanced(timing_state)
<1>1. t \in TimingStates
  BY AdvanceType DEF TypeOK
<1>2. core1' \in {"running", "panic", "blocked"}
  BY DEF DmaIrq
<1>3. CASE core1' # "running"
  BY <1>2, <1>3 DEF DmaIrq, TypeOK, queues, irqVars, threadVars
<1>4. CASE core1' = "running"
  <2> HIDE DEF t
  <2>1. HandleScanline(t)
    BY <1>4 DEF DmaIrq, t
  <2>2. q_tmds_free' \in Seq(Buffers)
    BY <2>1, DropFacts DEF HandleScanline
  <2>3. /\ q_tmds_valid' \in Seq(Buffers)
        /\ scan' \in [now : Scans, next : Scans]
        /\ tmds_buf_release' \in [0 .. 1 -> Slots]
    BY <1>1, <2>1, DropFacts, ChoiceFacts
    DEF HandleScanline, SelectScanline, ReleaseAfter, TypeOK, Scans
  <2>4. late_scanline_ctr' \in Nat
    <3>1. late_scanline_ctr' = LateAfter(t)
      BY <2>1 DEF HandleScanline, SelectScanline
    <3>2. late_scanline_ctr \in Nat /\ DropCount \in Nat /\ DropCount <= late_scanline_ctr
      BY DropFacts, LenProperties DEF TypeOK
    <3>3. QED
      BY <3>1, <3>2 DEF LateAfter
  <2>5. /\ q_colour_free' \in Seq(Rows)
        /\ q_colour_valid' \in Seq(Rows)
        /\ next_line' \in Rows
        /\ vsync_flag' \in BOOLEAN
    <3>1. (next_line + 1) % FbHeight \in Rows
      BY TimingAssumption DEF TypeOK, Rows
    <3>2. Append(q_colour_valid, next_line) \in Seq(Rows)
      BY AppendProperties DEF TypeOK
    <3>3. QED
      BY <2>1, <3>1, <3>2, EmptySeq DEF HandleScanline, ScanlineCallback, TypeOK
  <2>6. timing_state' \in TimingStates
    BY <1>1, <2>1 DEF HandleScanline, TypeOK
  <2>7. busy' \in 0 .. EncodeIrqs
    BY <2>1, EncodeAssumption DEF DmaIrq, HandleScanline, TypeOK
  <2>8. encoder' \in EncoderStates /\ pixels' \in [Buffers -> Rows \union {NoRow}]
    BY DEF DmaIrq, threadVars, TypeOK
  <2>9. QED
    BY <1>2, <2>2, <2>3, <2>4, <2>5, <2>6, <2>7, <2>8 DEF TypeOK
<1>5. QED
  BY <1>3, <1>4

LEMMA StepType == TypeOK /\ [Next]_vars => TypeOK'
<1> SUFFICES ASSUME TypeOK, [Next]_vars PROVE TypeOK'
  OBVIOUS
<1>1. CASE Encoder
  BY <1>1, EncoderType
<1>2. CASE DmaIrq
  BY <1>2, IrqType
<1>3. CASE UNCHANGED vars
  BY <1>3 DEF vars, queues, irqVars, threadVars, TypeOK
<1>4. QED
  BY <1>1, <1>2, <1>3 DEF Next, Encoder

(* Every queue, counter and pointer of the pipeline has its type in every  *)
(* reachable state.                                                        *)
THEOREM TypeCorrect == Spec => []TypeOK
  BY InitType, StepType, PTL DEF Spec

-----------------------------------------------------------------------------
(***************************************************************************)
(* Buffers are conserved, so the queue the interrupt frees them into has   *)
(* room: it holds them all.                                                *)
(***************************************************************************)
LEMMA HeldFacts == Held(NoBuf) = 0 /\ \A b \in Buffers : b # NoBuf /\ Held(b) = 1
  BY QueueAssumption DEF Held, Buffers, NoBuf

LEMMA InitConserves == Init => BufferConservation
<1> SUFFICES ASSUME Init PROVE BufferConservation
  OBVIOUS
<1>1. Len(q_tmds_free) = BufferCount
  BY QueueAssumption DEF Init
<1>2. Len(q_tmds_valid) = 0
  BY DEF Init
<1>3. /\ Held(encoder.tmdsbuf) = 0
      /\ Held(tmds_buf_release[0]) = 0
      /\ Held(tmds_buf_release[1]) = 0
  BY HeldFacts DEF Init
<1>4. QED
  BY <1>1, <1>2, <1>3, QueueAssumption DEF BufferConservation

LEMMA EncoderConserves ==
  ASSUME TypeOK, BufferConservation, Encoder
  PROVE  BufferConservation'
<1>1. Len(q_tmds_free) \in Nat /\ Len(q_tmds_valid) \in Nat
  BY LenProperties DEF TypeOK
<1>2. UNCHANGED tmds_buf_release
  BY DEF Encoder, TakeRow, TakeBuffer, PublishBuffer, ReturnRow, irqVars
<1>3. \A b : Held(b) \in Nat
  BY DEF Held
<1>4. CASE TakeRow \/ ReturnRow
  <2>1. UNCHANGED <<q_tmds_free, q_tmds_valid>>
    BY <1>4 DEF TakeRow, ReturnRow
  <2>2. encoder'.tmdsbuf = encoder.tmdsbuf
    BY <1>4, EncoderFacts DEF TakeRow, ReturnRow
  <2>3. QED
    BY <1>2, <2>1, <2>2 DEF BufferConservation
<1>5. CASE TakeBuffer
  <2>1. /\ Head(q_tmds_free) \in Buffers
        /\ Len(q_tmds_free') = Len(q_tmds_free) - 1
        /\ UNCHANGED q_tmds_valid
    BY <1>5, HeadTailProperties DEF TakeBuffer, TypeOK
  <2>2. encoder.tmdsbuf = NoBuf /\ encoder'.tmdsbuf = Head(q_tmds_free)
    BY <1>5, EncoderFacts DEF TakeBuffer
  <2>3. QED
    BY <1>1, <1>2, <1>3, <2>1, <2>2, HeldFacts, QueueAssumption
    DEF BufferConservation
<1>6. CASE PublishBuffer
  <2>1. encoder.tmdsbuf \in Buffers /\ encoder'.tmdsbuf = NoBuf
    BY <1>6, EncoderFacts DEF PublishBuffer
  <2>2. /\ Len(q_tmds_valid') = Len(q_tmds_valid) + 1
        /\ UNCHANGED q_tmds_free
    BY <1>6, <2>1, AppendProperties DEF PublishBuffer, TypeOK
  <2>3. QED
    BY <1>1, <1>2, <1>3, <2>1, <2>2, HeldFacts, QueueAssumption
    DEF BufferConservation
<1>7. QED
  BY <1>4, <1>5, <1>6 DEF Encoder

\* A buffer leaves the delay, d late ones are passed back, c is consumed.
LEMMA Rebalance ==
  ASSUME NEW free \in Nat, NEW valid \in Nat, NEW enc \in Nat, NEW r0 \in Nat,
         NEW r1 \in Nat, NEW d \in Nat, NEW c \in Nat
  PROVE  (free + r1 + d) + (valid - d - c) + enc + c + r0
           = free + valid + enc + r0 + r1
  OBVIOUS

LEMMA IrqConserves ==
  ASSUME TypeOK, BufferConservation, DmaIrq
  PROVE  BufferConservation'
<1> DEFINE t == Advanced(timing_state)
<1>1. encoder' = encoder
  BY DEF DmaIrq, threadVars
<1>2. CASE core1' # "running"
  BY <1>1, <1>2 DEF DmaIrq, queues, irqVars, BufferConservation
<1>3. CASE core1' = "running"
  <2> HIDE DEF t
  <2>1. HandleScanline(t)
    BY <1>3 DEF DmaIrq, t
  <2>2. /\ Len(q_tmds_free) \in Nat
        /\ Len(q_tmds_valid) \in Nat
        /\ \A b : Held(b) \in Nat
        /\ DropCount \in Nat
    BY DropFacts, LenProperties DEF TypeOK, Held
  <2>3. /\ tmds_buf_release'[0] = Consumed(t)
        /\ tmds_buf_release'[1] = tmds_buf_release[0]
    BY <2>1 DEF HandleScanline, SelectScanline, ReleaseAfter
  <2>4. Len(q_tmds_free') = Len(q_tmds_free) + Held(tmds_buf_release[1])
                            + DropCount
    BY <2>1, DropFacts DEF HandleScanline
  <2>5. Len(q_tmds_valid') = Len(q_tmds_valid) - DropCount - Held(Consumed(t))
    <3>1. CASE ConsumesRow(t) /\ RowIsReady
      BY <2>1, <2>2, <3>1, DropFacts, ChoiceFacts
      DEF HandleScanline, SelectScanline, Held
    <3>2. CASE ~(ConsumesRow(t) /\ RowIsReady)
      <4>1. Held(Consumed(t)) = 0
        BY <3>2, HeldFacts DEF Consumed
      <4>2. q_tmds_valid' = ValidAfterDrop
        BY <2>1, <3>2 DEF HandleScanline, SelectScanline
      <4>3. QED
        BY <2>2, <4>1, <4>2, DropFacts
    <3>3. QED
      BY <3>1, <3>2
  <2>6. /\ Held(encoder'.tmdsbuf) = Held(encoder.tmdsbuf)
        /\ Held(tmds_buf_release'[0]) = Held(Consumed(t))
        /\ Held(tmds_buf_release'[1]) = Held(tmds_buf_release[0])
    BY <1>1, <2>3
  <2>7. /\ Held(encoder.tmdsbuf) \in Nat
        /\ Held(Consumed(t)) \in Nat
        /\ Held(tmds_buf_release[0]) \in Nat
        /\ Held(tmds_buf_release[1]) \in Nat
    BY <2>2
  <2>8. (Len(q_tmds_free) + Held(tmds_buf_release[1]) + DropCount)
          + (Len(q_tmds_valid) - DropCount - Held(Consumed(t)))
          + Held(encoder.tmdsbuf) + Held(Consumed(t)) + Held(tmds_buf_release[0])
          = BufferCount
    BY <2>2, <2>7, Rebalance DEF BufferConservation
  <2>9. QED
    BY <2>4, <2>5, <2>6, <2>8 DEF BufferConservation
<1>4. QED
  BY <1>2, <1>3

(* No TMDS buffer is lost and none is released twice.                      *)
THEOREM Conservation == Spec => []BufferConservation
<1>1. TypeOK /\ BufferConservation /\ [Next]_vars => BufferConservation'
  <2> SUFFICES ASSUME TypeOK, BufferConservation, [Next]_vars
               PROVE  BufferConservation'
    OBVIOUS
  <2>1. CASE Encoder
    BY <2>1, EncoderConserves
  <2>2. CASE DmaIrq
    BY <2>2, IrqConserves
  <2>3. CASE UNCHANGED vars
    BY <2>3 DEF vars, queues, irqVars, threadVars, BufferConservation
  <2>4. QED
    BY <2>1, <2>2, <2>3 DEF Next, Encoder
<1>2. QED
  BY <1>1, InitConserves, TypeCorrect, PTL DEF Spec

\* With a buffer in the release delay, or in q_tmds_valid, q_tmds_free has
\* a free slot for it.
LEMMA RoomToFree ==
  ASSUME TypeOK, BufferConservation
  PROVE  ~ReleasePanics /\ ~DropBlocks
<1>1. /\ Len(q_tmds_free) \in Nat
      /\ Len(q_tmds_valid) \in Nat
      /\ \A b : Held(b) \in Nat
      /\ DropCount \in 0 .. Len(q_tmds_valid)
  BY DropFacts, LenProperties DEF TypeOK, Held
<1>2. ~ReleasePanics
  BY <1>1, QueueAssumption DEF ReleasePanics, BufferConservation, Held
<1>3. Len(FreeAfterDrop) <= BufferCount
  BY <1>1, DropFacts, QueueAssumption DEF BufferConservation
<1>4. QED
  BY <1>1, <1>2, <1>3, DropFacts, QueueAssumption DEF DropBlocks

(* The handler never reaches its panic.                                    *)
THEOREM NeverPanics == Spec => []NoPanic
<1>1. Init => NoPanic
  BY DEF Init, NoPanic
<1>2. TypeOK /\ BufferConservation /\ NoPanic /\ [Next]_vars => NoPanic'
  <2> SUFFICES ASSUME TypeOK, BufferConservation, NoPanic, [Next]_vars
               PROVE  NoPanic'
    OBVIOUS
  <2>1. CASE Encoder
    BY <2>1 DEF Encoder, TakeRow, TakeBuffer, PublishBuffer, ReturnRow, NoPanic
  <2>2. CASE DmaIrq
    BY <2>2, RoomToFree DEF DmaIrq, NoPanic
  <2>3. CASE UNCHANGED vars
    BY <2>3 DEF vars, NoPanic
  <2>4. QED
    BY <2>1, <2>2, <2>3 DEF Next, Encoder
<1>3. QED
  BY <1>1, <1>2, TypeCorrect, Conservation, PTL DEF Spec

-----------------------------------------------------------------------------
(***************************************************************************)
(* The pipeline is two rows and its lateness deep.                         *)
(***************************************************************************)
LEMMA InitAccounts == Init => LinesAccounted
<1> SUFFICES ASSUME Init PROVE LinesAccounted
  OBVIOUS
<1>1. Len(q_colour_valid) = 2 /\ Len(q_tmds_valid) = 0
  BY DEF Init, StartRows
<1>2. encoder.pc = "colour" /\ late_scanline_ctr = 0
  BY DEF Init
<1>3. QED
  BY <1>1, <1>2 DEF LinesAccounted, RowsInFlight

LEMMA EncoderAccounts ==
  ASSUME TypeOK, LinesAccounted, Encoder
  PROVE  LinesAccounted'
<1>1. Len(q_colour_valid) \in Nat /\ Len(q_tmds_valid) \in Nat
  BY LenProperties DEF TypeOK
<1>2. UNCHANGED late_scanline_ctr
  BY DEF Encoder, TakeRow, TakeBuffer, PublishBuffer, ReturnRow, irqVars
<1>3. CASE TakeRow
  <2>1. /\ Len(q_colour_valid') = Len(q_colour_valid) - 1
        /\ UNCHANGED q_tmds_valid
    BY <1>3, HeadTailProperties DEF TakeRow, TypeOK
  <2>2. encoder.pc = "colour" /\ encoder'.pc = "tmds"
    BY <1>3, EncoderFacts DEF TakeRow
  <2>3. QED
    BY <1>1, <1>2, <2>1, <2>2 DEF LinesAccounted, RowsInFlight
<1>4. CASE TakeBuffer
  <2>1. UNCHANGED <<q_colour_valid, q_tmds_valid>>
    BY <1>4 DEF TakeBuffer
  <2>2. encoder.pc = "tmds" /\ encoder'.pc = "encode"
    BY <1>4, EncoderFacts DEF TakeBuffer
  <2>3. QED
    BY <1>1, <1>2, <2>1, <2>2 DEF LinesAccounted, RowsInFlight
<1>5. CASE PublishBuffer
  <2>1. encoder.pc = "encode" /\ encoder'.pc = "return"
    BY <1>5, EncoderFacts DEF PublishBuffer
  <2>2. /\ Len(q_tmds_valid') = Len(q_tmds_valid) + 1
        /\ UNCHANGED q_colour_valid
    BY <1>5, EncoderFacts, AppendProperties DEF PublishBuffer, TypeOK
  <2>3. QED
    BY <1>1, <1>2, <2>1, <2>2 DEF LinesAccounted, RowsInFlight
<1>6. CASE ReturnRow
  <2>1. encoder.pc = "return" /\ encoder'.pc = "colour"
    BY <1>6, EncoderFacts DEF ReturnRow
  <2>2. UNCHANGED <<q_colour_valid, q_tmds_valid>>
    BY <1>6 DEF ReturnRow
  <2>3. QED
    BY <1>1, <1>2, <2>1, <2>2 DEF LinesAccounted, RowsInFlight
<1>7. QED
  BY <1>3, <1>4, <1>5, <1>6 DEF Encoder

LEMMA IrqAccounts ==
  ASSUME TypeOK, LinesAccounted, DmaIrq
  PROVE  LinesAccounted'
<1> DEFINE t == Advanced(timing_state)
<1>1. encoder' = encoder
  BY DEF DmaIrq, threadVars
<1>2. CASE core1' # "running"
  BY <1>1, <1>2 DEF DmaIrq, queues, irqVars, LinesAccounted, RowsInFlight
<1>3. CASE core1' = "running"
  <2> HIDE DEF t
  <2>1. HandleScanline(t)
    BY <1>3 DEF DmaIrq, t
  <2>2. /\ Len(q_colour_valid) \in Nat
        /\ Len(q_tmds_valid) \in Nat
        /\ DropCount \in Nat
        /\ late_scanline_ctr \in Nat
        /\ Len(ValidAfterDrop) = Len(q_tmds_valid) - DropCount
    BY DropFacts, LenProperties DEF TypeOK
  <2>3. CASE ~ConsumesRow(t)
    <3>1. /\ q_tmds_valid' = ValidAfterDrop
          /\ UNCHANGED q_colour_valid
          /\ late_scanline_ctr' = late_scanline_ctr - DropCount + 0
      BY <2>1, <2>3 DEF HandleScanline, SelectScanline, LateAfter,
                        ScanlineCallback, CallsBack, ConsumesRow
    <3>2. QED
      BY <1>1, <2>2, <3>1 DEF LinesAccounted, RowsInFlight
  <2>4. CASE ConsumesRow(t)
    <3>1. Len(q_colour_valid') = Len(q_colour_valid) + 1
      BY <2>1, <2>4, AppendProperties
      DEF HandleScanline, ScanlineCallback, CallsBack, ConsumesRow, TypeOK
    <3>2. CASE RowIsReady
      <4>1. /\ Len(q_tmds_valid') = Len(ValidAfterDrop) - 1
            /\ late_scanline_ctr' = late_scanline_ctr - DropCount + 0
        BY <2>1, <2>4, <3>2, ChoiceFacts
        DEF HandleScanline, SelectScanline, LateAfter
      <4>2. QED
        BY <1>1, <2>2, <3>1, <4>1 DEF LinesAccounted, RowsInFlight
    <3>3. CASE ~RowIsReady
      <4>1. /\ q_tmds_valid' = ValidAfterDrop
            /\ late_scanline_ctr' = late_scanline_ctr - DropCount + 1
        BY <2>1, <2>4, <3>3 DEF HandleScanline, SelectScanline, LateAfter
      <4>2. QED
        BY <1>1, <2>2, <3>1, <4>1 DEF LinesAccounted, RowsInFlight
    <3>4. QED
      BY <3>2, <3>3
  <2>5. QED
    BY <2>3, <2>4
<1>4. QED
  BY <1>2, <1>3

(* Whatever the encoder's speed, each row that was shown, missed or passed *)
(* back unseen has been replaced by one more row in the pipeline.          *)
THEOREM Accounting == Spec => []LinesAccounted
<1>1. TypeOK /\ LinesAccounted /\ [Next]_vars => LinesAccounted'
  <2> SUFFICES ASSUME TypeOK, LinesAccounted, [Next]_vars
               PROVE  LinesAccounted'
    OBVIOUS
  <2>1. CASE Encoder
    BY <2>1, EncoderAccounts
  <2>2. CASE DmaIrq
    BY <2>2, IrqAccounts
  <2>3. CASE UNCHANGED vars
    BY <2>3 DEF vars, queues, irqVars, threadVars, LinesAccounted, RowsInFlight
  <2>4. QED
    BY <2>1, <2>2, <2>3 DEF Next, Encoder
<1>2. QED
  BY <1>1, InitAccounts, TypeCorrect, PTL DEF Spec

(* Core 1 can hang in the interrupt only with a queue full of late rows.   *)
THEOREM HangsOnlyWhenLate == Spec => []HangOnlyWhenLate
<1>1. Init => HangOnlyWhenLate
  BY DEF Init, HangOnlyWhenLate
<1>2. TypeOK /\ BufferConservation /\ LinesAccounted /\ HangOnlyWhenLate
        /\ [Next]_vars => HangOnlyWhenLate'
  <2> SUFFICES ASSUME TypeOK, BufferConservation, LinesAccounted,
                      HangOnlyWhenLate, [Next]_vars
               PROVE  HangOnlyWhenLate'
    OBVIOUS
  <2>1. CASE Encoder
    BY <2>1 DEF Encoder, TakeRow, TakeBuffer, PublishBuffer, ReturnRow,
                HangOnlyWhenLate
  <2>2. CASE DmaIrq
    <3>1. SUFFICES ASSUME core1' = "blocked" PROVE late_scanline_ctr' + 2 >= QueueCapacity
      BY DEF HangOnlyWhenLate
    <3>2. /\ CallbackBlocks(Advanced(timing_state))
          /\ UNCHANGED late_scanline_ctr
      BY <2>2, <3>1, RoomToFree DEF DmaIrq, irqVars
    <3>3. Len(q_colour_valid) = QueueCapacity
      BY <3>2 DEF CallbackBlocks
    <3>4. Len(q_colour_valid) \in Nat /\ Len(q_tmds_valid) \in Nat
      BY LenProperties DEF TypeOK
    <3>5. QED
      BY <3>2, <3>3, <3>4, QueueAssumption DEF LinesAccounted, RowsInFlight, TypeOK
  <2>3. CASE UNCHANGED vars
    BY <2>3 DEF vars, irqVars, HangOnlyWhenLate
  <2>4. QED
    BY <2>1, <2>2, <2>3 DEF Next, Encoder
<1>3. QED
  BY <1>1, <1>2, TypeCorrect, Conservation, Accounting, PTL DEF Spec

-----------------------------------------------------------------------------
(***************************************************************************)
(* Queues without repetitions.                                             *)
(***************************************************************************)
LEMMA AppendDistinct ==
  ASSUME NEW S, NEW s \in Seq(S), NEW e \in S, Distinct(s), e \notin Elements(s)
  PROVE  /\ Distinct(Append(s, e))
         /\ Elements(Append(s, e)) = Elements(s) \union {e}
<1>1. /\ Len(s) \in Nat
      /\ Len(Append(s, e)) = Len(s) + 1
      /\ \A i \in 1 .. Len(s) : Append(s, e)[i] = s[i]
      /\ Append(s, e)[Len(s) + 1] = e
  BY AppendProperties, LenProperties
<1>2. QED
  BY <1>1 DEF Distinct, Elements

LEMMA HeadTailDistinct ==
  ASSUME NEW S, NEW s \in Seq(S), s # << >>, Distinct(s)
  PROVE  /\ Distinct(Tail(s))
         /\ Elements(s) = Elements(Tail(s)) \union {Head(s)}
         /\ Head(s) \notin Elements(Tail(s))
<1>1. /\ Len(s) \in Nat \ {0}
      /\ Len(Tail(s)) = Len(s) - 1
      /\ \A i \in 1 .. Len(Tail(s)) : Tail(s)[i] = s[i + 1]
      /\ Head(s) = s[1]
  BY HeadTailProperties, EmptySeq
<1>2. Distinct(Tail(s)) /\ Head(s) \notin Elements(Tail(s))
  BY <1>1 DEF Distinct, Elements
<1>3. Elements(s) \subseteq Elements(Tail(s)) \union {Head(s)}
  <2> SUFFICES ASSUME NEW i \in 1 .. Len(s), i # 1
               PROVE  s[i] \in Elements(Tail(s))
    BY <1>1 DEF Elements
  <2>1. i - 1 \in 1 .. Len(Tail(s)) /\ s[i] = Tail(s)[i - 1]
    BY <1>1
  <2>2. QED
    BY <2>1 DEF Elements
<1>4. Elements(Tail(s)) \union {Head(s)} \subseteq Elements(s)
  BY <1>1 DEF Elements
<1>5. QED
  BY <1>2, <1>3, <1>4

LEMMA ConcatDistinct ==
  ASSUME NEW S, NEW s \in Seq(S), NEW u \in Seq(S), Distinct(s), Distinct(u),
         Elements(s) \cap Elements(u) = {}
  PROVE  /\ Distinct(s \o u)
         /\ Elements(s \o u) \subseteq Elements(s) \union Elements(u)
<1>1. /\ Len(s) \in Nat
      /\ Len(u) \in Nat
      /\ Len(s \o u) = Len(s) + Len(u)
      /\ \A i \in 1 .. Len(s) + Len(u) :
           (s \o u)[i] = IF i <= Len(s) THEN s[i] ELSE u[i - Len(s)]
  BY ConcatProperties, LenProperties
<1>2. \A i \in 1 .. Len(s) + Len(u) :
        \/ i \in 1 .. Len(s) /\ (s \o u)[i] = s[i]
        \/ i - Len(s) \in 1 .. Len(u) /\ (s \o u)[i] = u[i - Len(s)]
  BY <1>1
<1>3. Elements(s \o u) \subseteq Elements(s) \union Elements(u)
  BY <1>1, <1>2 DEF Elements
<1>4. Distinct(s \o u)
  <2> SUFFICES ASSUME NEW i \in 1 .. Len(s) + Len(u),
                      NEW j \in 1 .. Len(s) + Len(u),
                      (s \o u)[i] = (s \o u)[j]
               PROVE  i = j
    BY <1>1 DEF Distinct
  <2>1. CASE i \in 1 .. Len(s) /\ j \in 1 .. Len(s)
    BY <1>1, <2>1 DEF Distinct
  <2>2. CASE i - Len(s) \in 1 .. Len(u) /\ j - Len(s) \in 1 .. Len(u)
    BY <1>1, <2>2 DEF Distinct
  <2>3. CASE i \in 1 .. Len(s) /\ j - Len(s) \in 1 .. Len(u)
    <3>1. i \in Int /\ i <= Len(s) /\ j \in Int /\ ~(j <= Len(s))
      BY <1>1, <2>3
    <3>2. s[i] = u[j - Len(s)]
      BY <1>1, <3>1
    <3>3. s[i] \in Elements(s) /\ u[j - Len(s)] \in Elements(u)
      BY <2>3 DEF Elements
    <3>4. QED
      BY <3>2, <3>3
  <2>4. CASE i - Len(s) \in 1 .. Len(u) /\ j \in 1 .. Len(s)
    <3>1. j \in Int /\ j <= Len(s) /\ i \in Int /\ ~(i <= Len(s))
      BY <1>1, <2>4
    <3>2. s[j] = u[i - Len(s)]
      BY <1>1, <3>1
    <3>3. s[j] \in Elements(s) /\ u[i - Len(s)] \in Elements(u)
      BY <2>4 DEF Elements
    <3>4. QED
      BY <3>2, <3>3
  <2>5. QED
    BY <1>2, <2>1, <2>2, <2>3, <2>4
<1>5. QED
  BY <1>3, <1>4

LEMMA SplitDistinct ==
  ASSUME NEW S, NEW s \in Seq(S), NEW n \in 0 .. Len(s), Distinct(s)
  PROVE  /\ SubSeq(s, 1, n) \in Seq(S)
         /\ SubSeq(s, n + 1, Len(s)) \in Seq(S)
         /\ Distinct(SubSeq(s, 1, n))
         /\ Distinct(SubSeq(s, n + 1, Len(s)))
         /\ Elements(SubSeq(s, 1, n)) \subseteq Elements(s)
         /\ Elements(SubSeq(s, n + 1, Len(s))) \subseteq Elements(s)
         /\ Elements(SubSeq(s, 1, n)) \cap Elements(SubSeq(s, n + 1, Len(s))) = {}
<1> DEFINE p == SubSeq(s, 1, n)
           q == SubSeq(s, n + 1, Len(s))
<1>1. Len(s) \in Nat /\ n \in Nat /\ \A i \in 1 .. Len(s) : s[i] \in S
  BY LenProperties, ElementOfSeq
<1>2. /\ p \in Seq(S)
      /\ Len(p) = n
      /\ \A i \in 1 .. n : p[i] = s[i]
  <2>1. \A i \in 1 .. n : s[i] \in S
    BY <1>1
  <2>2. QED
    BY <1>1, <2>1, SubSeqProperties
<1>3. /\ q \in Seq(S)
      /\ Len(q) = Len(s) - n
      /\ \A i \in 1 .. Len(s) - n : q[i] = s[i + n]
  <2>1. \A i \in n + 1 .. Len(s) : s[i] \in S
    BY <1>1
  <2>2. /\ q \in Seq(S)
        /\ Len(q) = IF n + 1 <= Len(s) THEN Len(s) - (n + 1) + 1 ELSE 0
        /\ \A i \in 1 .. Len(s) - (n + 1) + 1 : q[i] = s[n + 1 + i - 1]
    BY <1>1, <2>1, SubSeqProperties
  <2>3. QED
    BY <1>1, <2>2
<1> HIDE DEF p, q
<1>4. Distinct(p) /\ Elements(p) \subseteq Elements(s)
  BY <1>1, <1>2 DEF Distinct, Elements
<1>5. Distinct(q) /\ Elements(q) \subseteq Elements(s)
  <2>1. \A i \in 1 .. Len(q) : i + n \in 1 .. Len(s) /\ q[i] = s[i + n]
    BY <1>1, <1>3
  <2>2. Elements(q) \subseteq Elements(s)
    BY <2>1 DEF Elements
  <2>3. ASSUME NEW i \in 1 .. Len(q), NEW j \in 1 .. Len(q), q[i] = q[j]
        PROVE  i = j
    <3>1. s[i + n] = s[j + n] /\ i + n \in 1 .. Len(s) /\ j + n \in 1 .. Len(s)
      BY <2>1, <2>3
    <3>2. i + n = j + n
      BY <1>1, <3>1 DEF Distinct
    <3>3. QED
      BY <1>1, <3>2
  <2>4. QED
    BY <2>2, <2>3 DEF Distinct
<1>6. Elements(p) \cap Elements(q) = {}
  BY <1>1, <1>2, <1>3 DEF Distinct, Elements
<1>7. QED
  BY <1>2, <1>3, <1>4, <1>5, <1>6 DEF p, q

-----------------------------------------------------------------------------
(***************************************************************************)
(* Each buffer has one owner.                                              *)
(***************************************************************************)
LEMMA InitUnique == Init => UniqueOwner
<1> SUFFICES ASSUME Init PROVE UniqueOwner
  OBVIOUS
<1>1. /\ Len(q_tmds_free) = BufferCount
      /\ \A i \in 1 .. BufferCount : q_tmds_free[i] = i
  BY QueueAssumption DEF Init
<1>2. Distinct(q_tmds_free) /\ NoBuf \notin Elements(q_tmds_free)
  BY <1>1, QueueAssumption DEF Distinct, Elements, NoBuf
<1>3. Distinct(q_tmds_valid) /\ Elements(q_tmds_valid) = {}
  BY DEF Init, Distinct, Elements
<1>4. QED
  BY <1>2, <1>3 DEF Init, UniqueOwner

LEMMA NoBufInQueue ==
  ASSUME NEW q \in Seq(Buffers)
  PROVE  NoBuf \notin Elements(q)
  BY ElementOfSeq, HeldFacts DEF Elements

LEMMA EncoderUnique ==
  ASSUME TypeOK, UniqueOwner, Encoder
  PROVE  UniqueOwner'
<1>1. UNCHANGED tmds_buf_release
  BY DEF Encoder, TakeRow, TakeBuffer, PublishBuffer, ReturnRow, irqVars
<1>2. CASE TakeRow \/ ReturnRow
  <2>1. /\ UNCHANGED <<q_tmds_free, q_tmds_valid>>
        /\ encoder'.tmdsbuf = encoder.tmdsbuf
    BY <1>2, EncoderFacts DEF TakeRow, ReturnRow
  <2>2. /\ Distinct(q_tmds_free)' = Distinct(q_tmds_free)
        /\ Distinct(q_tmds_valid)' = Distinct(q_tmds_valid)
        /\ Elements(q_tmds_free)' = Elements(q_tmds_free)
        /\ Elements(q_tmds_valid)' = Elements(q_tmds_valid)
    BY <2>1 DEF Distinct, Elements
  <2>3. QED
    BY <1>1, <2>1, <2>2 DEF UniqueOwner
<1>3. CASE TakeBuffer
  <2> DEFINE b == Head(q_tmds_free)
  <2>1. /\ q_tmds_free \in Seq(Buffers)
        /\ q_tmds_free # << >>
        /\ q_tmds_free' = Tail(q_tmds_free)
        /\ UNCHANGED q_tmds_valid
    BY <1>3 DEF TakeBuffer, TypeOK
  <2>2. encoder'.tmdsbuf = b
    BY <1>3, EncoderFacts DEF TakeBuffer
  <2>3. /\ Distinct(q_tmds_free)'
        /\ Elements(q_tmds_free) = Elements(q_tmds_free') \union {b}
        /\ b \notin Elements(q_tmds_free')
    BY <2>1, HeadTailDistinct DEF UniqueOwner
  <2>4. Elements(q_tmds_free)' = Elements(q_tmds_free')
    BY DEF Elements
  <2>5. /\ Distinct(q_tmds_valid)' = Distinct(q_tmds_valid)
        /\ Elements(q_tmds_valid)' = Elements(q_tmds_valid)
    BY <2>1 DEF Distinct, Elements
  <2>6. QED
    BY <1>1, <2>2, <2>3, <2>4, <2>5 DEF UniqueOwner
<1>4. CASE PublishBuffer
  <2> DEFINE b == encoder.tmdsbuf
  <2>1. /\ b \in Buffers
        /\ b # NoBuf
        /\ encoder'.tmdsbuf = NoBuf
    BY <1>4, EncoderFacts, HeldFacts DEF PublishBuffer
  <2>2. /\ q_tmds_valid \in Seq(Buffers)
        /\ q_tmds_valid' = Append(q_tmds_valid, b)
        /\ UNCHANGED q_tmds_free
    BY <1>4 DEF PublishBuffer, TypeOK
  <2>3. b \notin Elements(q_tmds_valid) /\ b \notin Elements(q_tmds_free)
    BY DEF UniqueOwner
  <2>4. /\ Distinct(q_tmds_valid')
        /\ Elements(q_tmds_valid') = Elements(q_tmds_valid) \union {b}
    <3>1. Distinct(q_tmds_valid)
      BY DEF UniqueOwner
    <3>2. QED
      BY <2>1, <2>2, <2>3, <3>1, AppendDistinct
  <2>5. NoBuf \notin Elements(q_tmds_free) /\ NoBuf \notin Elements(q_tmds_valid)
    BY NoBufInQueue DEF TypeOK
  <2>6. /\ Distinct(q_tmds_valid)' = Distinct(q_tmds_valid')
        /\ Elements(q_tmds_valid)' = Elements(q_tmds_valid')
        /\ Distinct(q_tmds_free)' = Distinct(q_tmds_free)
        /\ Elements(q_tmds_free)' = Elements(q_tmds_free)
    BY <2>2 DEF Distinct, Elements
  <2>7. QED
    BY <1>1, <2>1, <2>3, <2>4, <2>5, <2>6 DEF UniqueOwner
<1>5. QED
  BY <1>2, <1>3, <1>4 DEF Encoder

\* The two queues, and the buffer chosen, after the handler's second step.
LEMMA DropUnique ==
  ASSUME TypeOK, UniqueOwner
  PROVE  /\ Distinct(FreeAfterDrop)
         /\ Distinct(ValidAfterDrop)
         /\ Elements(FreeAfterDrop) \cap Elements(ValidAfterDrop) = {}
         /\ Elements(FreeAfterDrop) \subseteq
              Elements(q_tmds_free) \union Elements(q_tmds_valid)
                \union ({tmds_buf_release[1]} \ {NoBuf})
         /\ Elements(ValidAfterDrop) \subseteq Elements(q_tmds_valid)
<1> DEFINE dropped == SubSeq(q_tmds_valid, 1, DropCount)
<1>1. /\ q_tmds_valid \in Seq(Buffers)
      /\ q_tmds_free \in Seq(Buffers)
      /\ Distinct(q_tmds_valid)
      /\ Distinct(q_tmds_free)
      /\ DropCount \in 0 .. Len(q_tmds_valid)
      /\ FreeAfterRelease \in Seq(Buffers)
  BY DropFacts DEF TypeOK, UniqueOwner
<1>2. /\ dropped \in Seq(Buffers)
      /\ Distinct(dropped)
      /\ Distinct(ValidAfterDrop)
      /\ Elements(dropped) \subseteq Elements(q_tmds_valid)
      /\ Elements(ValidAfterDrop) \subseteq Elements(q_tmds_valid)
      /\ Elements(dropped) \cap Elements(ValidAfterDrop) = {}
  BY <1>1, SplitDistinct DEF ValidAfterDrop
<1>3. /\ Distinct(FreeAfterRelease)
      /\ Elements(FreeAfterRelease) =
           Elements(q_tmds_free) \union ({tmds_buf_release[1]} \ {NoBuf})
  <2>1. CASE tmds_buf_release[1] = NoBuf
    BY <1>1, <2>1 DEF FreeAfterRelease
  <2>2. CASE tmds_buf_release[1] # NoBuf
    <3>1. /\ tmds_buf_release[1] \in Buffers
          /\ tmds_buf_release[1] \notin Elements(q_tmds_free)
      BY <2>2 DEF UniqueOwner, TypeOK, Slots
    <3>2. QED
      BY <1>1, <2>2, <3>1, AppendDistinct DEF FreeAfterRelease
  <2>3. QED
    BY <2>1, <2>2
<1>4. Elements(FreeAfterRelease) \cap Elements(q_tmds_valid) = {}
  BY <1>3 DEF UniqueOwner
<1> HIDE DEF dropped
<1>5. /\ Distinct(FreeAfterRelease \o dropped)
      /\ Elements(FreeAfterRelease \o dropped) \subseteq
           Elements(FreeAfterRelease) \union Elements(dropped)
  <2>1. Elements(FreeAfterRelease) \cap Elements(dropped) = {}
    BY <1>2, <1>4
  <2>2. QED
    BY <1>1, <1>2, <1>3, <2>1, ConcatDistinct
<1>6. FreeAfterDrop = FreeAfterRelease \o dropped
  BY DEF FreeAfterDrop, dropped
<1>7. QED
  BY <1>2, <1>3, <1>4, <1>5, <1>6

LEMMA IrqUnique ==
  ASSUME TypeOK, UniqueOwner, DmaIrq
  PROVE  UniqueOwner'
<1> DEFINE t == Advanced(timing_state)
<1>1. encoder' = encoder
  BY DEF DmaIrq, threadVars
<1>2. CASE core1' # "running"
  BY <1>1, <1>2 DEF DmaIrq, queues, irqVars, UniqueOwner, Distinct, Elements
<1>3. CASE core1' = "running"
  <2> HIDE DEF t
  <2>1. HandleScanline(t)
    BY <1>3 DEF DmaIrq, t
  <2>2. /\ tmds_buf_release'[0] = Consumed(t)
        /\ tmds_buf_release'[1] = tmds_buf_release[0]
        /\ q_tmds_free' = FreeAfterDrop
    BY <2>1 DEF HandleScanline, SelectScanline, ReleaseAfter
  <2>3. /\ Distinct(q_tmds_valid')
        /\ Elements(q_tmds_valid') \subseteq Elements(ValidAfterDrop)
        /\ Consumed(t) # NoBuf => /\ Consumed(t) \in Elements(ValidAfterDrop)
                                  /\ Consumed(t) \notin Elements(q_tmds_valid')
    <3>1. CASE ConsumesRow(t) /\ RowIsReady
      <4>1. /\ q_tmds_valid' = Tail(ValidAfterDrop)
            /\ Consumed(t) = Head(ValidAfterDrop)
            /\ ValidAfterDrop # << >>
        BY <2>1, <3>1 DEF HandleScanline, SelectScanline, Consumed, RowIsReady
      <4>2. ValidAfterDrop \in Seq(Buffers) /\ Distinct(ValidAfterDrop)
        BY DropFacts, DropUnique
      <4>3. QED
        BY <4>1, <4>2, HeadTailDistinct
    <3>2. CASE ~(ConsumesRow(t) /\ RowIsReady)
      <4>1. q_tmds_valid' = ValidAfterDrop /\ Consumed(t) = NoBuf
        BY <2>1, <3>2 DEF HandleScanline, SelectScanline, Consumed
      <4>2. QED
        BY <4>1, DropUnique
    <3>3. QED
      BY <3>1, <3>2
  <2>4. /\ NoBuf \notin Elements(q_tmds_free')
        /\ NoBuf \notin Elements(q_tmds_valid')
    <3>1. q_tmds_free' \in Seq(Buffers) /\ q_tmds_valid' \in Seq(Buffers)
      BY IrqType DEF TypeOK
    <3>2. QED
      BY <3>1, NoBufInQueue
  <2>5. /\ Distinct(q_tmds_valid)' = Distinct(q_tmds_valid')
        /\ Elements(q_tmds_valid)' = Elements(q_tmds_valid')
        /\ Distinct(q_tmds_free)' = Distinct(q_tmds_free')
        /\ Elements(q_tmds_free)' = Elements(q_tmds_free')
    BY DEF Distinct, Elements
  <2>6. Distinct(q_tmds_free') /\ Elements(q_tmds_free') \cap Elements(q_tmds_valid') = {}
    BY <2>2, <2>3, DropUnique
  <2>7. \A b \in {encoder.tmdsbuf, tmds_buf_release[0]} :
          b \notin Elements(q_tmds_free') \union Elements(q_tmds_valid')
    BY <2>2, <2>3, <2>4, DropUnique DEF UniqueOwner
  <2>8. Consumed(t) \notin Elements(q_tmds_free') \union Elements(q_tmds_valid')
    BY <2>2, <2>3, <2>4, DropUnique
  <2>9. Consumed(t) # NoBuf => Consumed(t) \in Elements(q_tmds_valid)
    BY <2>3, DropUnique
  <2>10. QED
    BY <1>1, <2>2, <2>3, <2>5, <2>6, <2>7, <2>8, <2>9 DEF UniqueOwner
<1>4. QED
  BY <1>2, <1>3

(* No TMDS buffer is in two places at once.                                *)
THEOREM OneOwner == Spec => []UniqueOwner
<1>1. TypeOK /\ UniqueOwner /\ [Next]_vars => UniqueOwner'
  <2> SUFFICES ASSUME TypeOK, UniqueOwner, [Next]_vars PROVE UniqueOwner'
    OBVIOUS
  <2>1. CASE Encoder
    BY <2>1, EncoderUnique
  <2>2. CASE DmaIrq
    BY <2>2, IrqUnique
  <2>3. CASE UNCHANGED vars
    BY <2>3 DEF vars, queues, irqVars, threadVars, UniqueOwner, Distinct, Elements
  <2>4. QED
    BY <2>1, <2>2, <2>3 DEF Next, Encoder
<1>2. QED
  BY <1>1, InitUnique, TypeCorrect, PTL DEF Spec

-----------------------------------------------------------------------------
(***************************************************************************)
(* The buffer being sent is not the one being written.                     *)
(***************************************************************************)
LEMMA EncoderKeepsScan ==
  ASSUME TypeOK, ScanOwned, Encoder
  PROVE  ScanOwned'
<1>1. UNCHANGED <<scan, tmds_buf_release, late_scanline_ctr>>
  BY DEF Encoder, TakeRow, TakeBuffer, PublishBuffer, ReturnRow, irqVars
<1>2. q_tmds_valid # << >> => /\ q_tmds_valid' # << >>
                              /\ Head(q_tmds_valid') = Head(q_tmds_valid)
  <2>1. CASE UNCHANGED q_tmds_valid
    BY <2>1
  <2>2. CASE PublishBuffer
    <3>1. /\ q_tmds_valid' = Append(q_tmds_valid, encoder.tmdsbuf)
          /\ encoder.tmdsbuf \in Buffers
          /\ q_tmds_valid \in Seq(Buffers)
      BY <2>2, EncoderFacts DEF PublishBuffer, TypeOK
    <3>2. QED
      BY <3>1, AppendProperties, EmptySeq
  <2>3. QED
    BY <2>1, <2>2 DEF Encoder, TakeRow, TakeBuffer, ReturnRow
<1>3. QED
  BY <1>1, <1>2 DEF ScanOwned, Waiting

LEMMA IrqKeepsScan ==
  ASSUME TypeOK, ScanOwned, DmaIrq
  PROVE  ScanOwned'
<1> DEFINE t == Advanced(timing_state)
<1>1. CASE core1' # "running"
  BY <1>1 DEF DmaIrq, queues, irqVars, ScanOwned, Waiting
<1>2. CASE core1' = "running"
  <2> HIDE DEF t
  <2>1. HandleScanline(t)
    BY <1>2 DEF DmaIrq, t
  <2>2. /\ scan'.now = scan.next
        /\ scan'.next.buf = Selected(t)
        /\ tmds_buf_release'[0] = Consumed(t)
        /\ tmds_buf_release'[1] = tmds_buf_release[0]
    BY <2>1 DEF HandleScanline, SelectScanline, ReleaseAfter
  <2>3. /\ late_scanline_ctr \in Nat
        /\ DropCount \in Nat
        /\ Len(q_tmds_valid) \in Nat
        /\ q_tmds_valid \in Seq(Buffers)
        /\ Len(ValidAfterDrop) = Len(q_tmds_valid) - DropCount
    BY DropFacts, LenProperties DEF TypeOK
  <2>4. RowIsReady => DropCount = late_scanline_ctr
    <3>1. RowIsReady => Len(ValidAfterDrop) > 0
      BY ChoiceFacts
    <3>2. QED
      BY <2>3, <3>1 DEF DropCount
  <2>5. RowIsReady /\ ~ConsumesRow(t) =>
          /\ q_tmds_valid' = ValidAfterDrop
          /\ q_tmds_valid' # << >>
          /\ late_scanline_ctr' = 0
    BY <2>1, <2>3, <2>4
    DEF HandleScanline, SelectScanline, LateAfter, RowIsReady
  <2>6. RowIsReady /\ ConsumesRow(t) => Consumed(t) = Head(ValidAfterDrop)
    BY DEF Consumed
  <2>7. scan'.next.buf # NoBuf => \/ scan'.next.buf = tmds_buf_release'[0]
                                 \/ /\ q_tmds_valid' # << >>
                                    /\ scan'.next.buf = Head(q_tmds_valid')
                                    /\ late_scanline_ctr' = 0
    <3> SUFFICES ASSUME Selected(t) # NoBuf
                 PROVE  \/ Selected(t) = Consumed(t)
                        \/ /\ q_tmds_valid' # << >>
                           /\ Selected(t) = Head(q_tmds_valid')
                           /\ late_scanline_ctr' = 0
      BY <2>2
    <3>1. RowIsReady /\ Selected(t) = Head(ValidAfterDrop)
      BY DEF Selected
    <3>2. QED
      BY <2>5, <2>6, <3>1
  <2>8. scan.next.buf # NoBuf =>
          \/ scan.next.buf \in {tmds_buf_release'[0], tmds_buf_release'[1]}
          \/ /\ q_tmds_valid' # << >>
             /\ scan.next.buf = Head(q_tmds_valid')
             /\ late_scanline_ctr' = 0
    <3> SUFFICES ASSUME Waiting(scan.next.buf), scan.next.buf # NoBuf
                 PROVE  \/ scan.next.buf = Consumed(t)
                        \/ /\ q_tmds_valid' # << >>
                           /\ scan.next.buf = Head(q_tmds_valid')
                           /\ late_scanline_ctr' = 0
      BY <2>2 DEF ScanOwned
    <3>1. /\ q_tmds_valid # << >>
          /\ scan.next.buf = Head(q_tmds_valid)
          /\ late_scanline_ctr = 0
      BY DEF Waiting
    <3>2. DropCount = 0
      BY <2>3, <3>1 DEF DropCount
    <3>3. ValidAfterDrop = q_tmds_valid
      BY <2>3, <3>2, SubSeqFull DEF ValidAfterDrop
    <3>4. RowIsReady
      BY <3>1, <3>3 DEF RowIsReady
    <3>5. QED
      BY <2>5, <2>6, <3>1, <3>3, <3>4
  <2>9. QED
    BY <2>2, <2>7, <2>8 DEF ScanOwned, Waiting
<1>3. QED
  BY <1>1, <1>2

(* Whatever the DMA is reading, or will read next, is still held for it.   *)
THEOREM ScanIsOwned == Spec => []ScanOwned
<1>1. Init => ScanOwned
  BY DEF Init, ScanOwned
<1>2. TypeOK /\ ScanOwned /\ [Next]_vars => ScanOwned'
  <2> SUFFICES ASSUME TypeOK, ScanOwned, [Next]_vars PROVE ScanOwned'
    OBVIOUS
  <2>1. CASE Encoder
    BY <2>1, EncoderKeepsScan
  <2>2. CASE DmaIrq
    BY <2>2, IrqKeepsScan
  <2>3. CASE UNCHANGED vars
    BY <2>3 DEF vars, queues, irqVars, ScanOwned, Waiting
  <2>4. QED
    BY <2>1, <2>2, <2>3 DEF Next, Encoder
<1>3. QED
  BY <1>1, <1>2, TypeCorrect, PTL DEF Spec

(* The encoder never writes into a buffer that is still being sent.        *)
THEOREM NeverTears == Spec => []NoTearing
<1>1. TypeOK /\ UniqueOwner /\ ScanOwned => NoTearing
  <2> SUFFICES ASSUME TypeOK, UniqueOwner, ScanOwned,
                      NEW b \in {scan.now.buf, scan.next.buf},
                      b = encoder.tmdsbuf, b # NoBuf
               PROVE  FALSE
    BY DEF NoTearing
  <2>1. b \in {tmds_buf_release[0], tmds_buf_release[1]} \/ Waiting(b)
    BY DEF ScanOwned
  <2>2. ~Waiting(b)
    <3> SUFFICES ASSUME q_tmds_valid # << >>, b = Head(q_tmds_valid)
                 PROVE  FALSE
      BY DEF Waiting
    <3>1. Head(q_tmds_valid) \in Elements(q_tmds_valid)
      BY HeadTailDistinct DEF TypeOK, UniqueOwner
    <3>2. QED
      BY <3>1 DEF UniqueOwner
  <2>3. QED
    BY <2>1, <2>2 DEF UniqueOwner
<1>2. QED
  BY <1>1, TypeCorrect, OneOwner, ScanIsOwned, PTL

(* All of it: what the interrupt, the encoder and the DMA hand each other  *)
(* has one owner at any moment.                                            *)
THEOREM Owners == Spec => []BufferOwners
  BY Conservation, OneOwner, ScanIsOwned, NeverTears, PTL DEF BufferOwners

-----------------------------------------------------------------------------
(***************************************************************************)
(* What is on the screen: each scanline shows its own row or the solid     *)
(* colour.  The rows in flight follow one another, from the one that is    *)
(* sent next to the one the callback queued last.                          *)
(***************************************************************************)
RowAfter(r) == (r + 1) % FbHeight

LEMMA RowAfterFacts ==
  /\ \A r \in Rows : RowAfter(r) = IF r = FbHeight - 1 THEN 0 ELSE r + 1
  /\ \A r \in Rows : RowAfter(r) \in Rows
  /\ \A r, s \in Rows : RowAfter(r) = RowAfter(s) => r = s
<1>1. FbHeight \in Nat /\ FbHeight > 2
  BY TimingAssumption
<1>2. \A r \in Rows : RowAfter(r) = IF r = FbHeight - 1 THEN 0 ELSE r + 1
  BY <1>1 DEF RowAfter, Rows
<1>3. QED
  BY <1>1, <1>2 DEF Rows

\* The row of the next active scanline.
NextRow == LET t == Advanced(timing_state) IN
           IF t.v_state = "active" THEN RowOf(t) ELSE 0

LEMMA NextRowFacts ==
  ASSUME NEW t \in TimingStates
  PROVE  LET row(s) == IF s.v_state = "active" THEN RowOf(s) ELSE 0 IN
         /\ row(t) \in Rows
         /\ row(Advanced(t)) = IF ConsumesRow(t) THEN RowAfter(row(t)) ELSE row(t)
<1> DEFINE row(s) == IF s.v_state = "active" THEN RowOf(s) ELSE 0
<1>1. row(t) \in Rows /\ 0 \in Rows
  BY ActiveFacts, TimingAssumption DEF Rows
<1>2. ASSUME t.v_state # "active" PROVE row(Advanced(t)) = 0
  BY <1>2, LineAfterBlank
<1>3. ASSUME t.v_state = "active", ~IsLastRepeat(t) PROVE row(Advanced(t)) = RowOf(t)
  BY <1>3, LineAfterActive
<1>4. ASSUME ConsumesRow(t) PROVE row(Advanced(t)) = RowAfter(RowOf(t))
  <2>1. t.v_state = "active" /\ IsLastRepeat(t)
    BY <1>4 DEF ConsumesRow
  <2>2. CASE Advanced(t).v_state = "active"
    <3>1. RowOf(Advanced(t)) = RowOf(t) + 1 /\ Advanced(t) \in TimingStates
      BY <2>1, <2>2, LineAfterActive, AdvanceType
    <3>2. RowOf(t) \in Rows /\ RowOf(Advanced(t)) \in Rows
      BY <2>1, <2>2, <3>1, ActiveFacts
    <3>3. RowOf(t) # FbHeight - 1
      BY <3>1, <3>2, TimingAssumption DEF Rows
    <3>4. QED
      BY <2>2, <3>1, <3>2, <3>3, RowAfterFacts
  <2>3. CASE Advanced(t).v_state # "active"
    <3>1. t.v_ctr + 1 = ActiveLines
      BY <2>1, <2>3, LineAfterActive
    <3>2. RowOf(t) = FbHeight - 1 /\ RowOf(t) \in Rows
      BY <2>1, <3>1, ActiveFacts
    <3>3. QED
      BY <2>3, <3>2, RowAfterFacts
  <2>4. QED
    BY <2>2, <2>3
<1>5. QED
  BY <1>1, <1>2, <1>3, <1>4 DEF ConsumesRow

(***************************************************************************)
(* The rows in the pipeline, the oldest first: those encoded, the one with *)
(* the encoder, and those queued for it.                                   *)
(***************************************************************************)
Encoding == IF encoder.pc \in {"tmds", "encode"} THEN 1 ELSE 0

Flight(i) ==
  IF i <= Len(q_tmds_valid) THEN pixels[q_tmds_valid[i]]
  ELSE IF i <= Len(q_tmds_valid) + Encoding THEN encoder.scanbuf
  ELSE q_colour_valid[i - Len(q_tmds_valid) - Encoding]

\* They follow each other on the screen, up to the one queued next, which is
\* two after the one the next active scanline shows.
RowsInOrder ==
  /\ next_line = RowAfter(RowAfter(NextRow))
  /\ \A i \in 1 .. RowsInFlight : Flight(i) \in Rows
  /\ \A i \in 1 .. RowsInFlight - 1 : Flight(i + 1) = RowAfter(Flight(i))
  /\ RowAfter(Flight(RowsInFlight)) = next_line

LEMMA FlightLength ==
  ASSUME TypeOK
  PROVE  /\ RowsInFlight = Len(q_tmds_valid) + Encoding + Len(q_colour_valid)
         /\ Len(q_tmds_valid) \in Nat
         /\ Len(q_colour_valid) \in Nat
         /\ RowsInFlight \in Nat
         /\ Encoding \in Nat
         /\ Encoding \in {0, 1}
<1>1. Len(q_tmds_valid) \in Nat /\ Len(q_colour_valid) \in Nat
  BY LenProperties DEF TypeOK
<1>2. QED
  BY <1>1 DEF RowsInFlight, Encoding

LEMMA InitOrder == Init => RowsInOrder
<1> SUFFICES ASSUME Init PROVE RowsInOrder
  OBVIOUS
<1>1. /\ q_tmds_valid = << >>
      /\ q_colour_valid = <<0, 1>>
      /\ encoder.pc = "colour"
      /\ next_line = 2
      /\ timing_state = FirstLine
  BY DEF Init, StartRows
<1>2. RowsInFlight = 2 /\ Flight(1) = 0 /\ Flight(2) = 1
  BY <1>1 DEF RowsInFlight, Flight, Encoding
<1>3. 0 \in Rows /\ 1 \in Rows /\ RowAfter(0) = 1 /\ RowAfter(1) = 2
  BY RowAfterFacts, TimingAssumption DEF Rows
<1>4. NextRow = 0
  <2>1. FirstLine.v_state = "front_porch" /\ Advanced(FirstLine).v_state # "active"
    BY DEF FirstLine, Advanced, StateAfter
  <2>2. QED
    BY <1>1, <2>1 DEF NextRow
<1>5. QED
  BY <1>1, <1>2, <1>3, <1>4 DEF RowsInOrder

\* A step of the encoder moves a row on without changing the line of them.
LEMMA EncoderFlight ==
  ASSUME TypeOK, UniqueOwner, Encoder
  PROVE  /\ RowsInFlight' = RowsInFlight
         /\ \A i \in 1 .. RowsInFlight : Flight(i)' = Flight(i)
<1>1. /\ RowsInFlight = Len(q_tmds_valid) + Encoding + Len(q_colour_valid)
      /\ Len(q_tmds_valid) \in Nat
      /\ Len(q_colour_valid) \in Nat
      /\ Encoding \in {0, 1}
  BY FlightLength
<1>2. RowsInFlight' = Len(q_tmds_valid') + Encoding' + Len(q_colour_valid')
  <2>1. Len(q_tmds_valid') \in Nat /\ Len(q_colour_valid') \in Nat
    BY EncoderType, LenProperties DEF TypeOK
  <2>2. QED
    BY <2>1 DEF RowsInFlight, Encoding
<1>3. /\ q_tmds_valid \in Seq(Buffers)
      /\ q_colour_valid \in Seq(Rows)
      /\ pixels \in [Buffers -> Rows \union {NoRow}]
      /\ \A j \in 1 .. Len(q_tmds_valid) : q_tmds_valid[j] \in Buffers
  BY ElementOfSeq DEF TypeOK
<1>4. CASE TakeRow
  <2>1. /\ UNCHANGED <<q_tmds_valid, pixels>>
        /\ Encoding = 0 /\ Encoding' = 1
        /\ encoder'.scanbuf = q_colour_valid[1]
    BY <1>4, EncoderFacts, HeadTailProperties, <1>3 DEF TakeRow, Encoding
  <2>2. /\ Len(q_colour_valid') = Len(q_colour_valid) - 1
        /\ \A j \in 1 .. Len(q_colour_valid) - 1 : q_colour_valid'[j] = q_colour_valid[j + 1]
    BY <1>4, HeadTailProperties, <1>3 DEF TakeRow
  <2>3. RowsInFlight' = RowsInFlight
    BY <1>1, <1>2, <2>1, <2>2
  <2>4. ASSUME NEW i \in 1 .. RowsInFlight PROVE Flight(i)' = Flight(i)
    <3>1. CASE i <= Len(q_tmds_valid) + 1
      BY <1>1, <2>1, <3>1 DEF Flight
    <3>2. CASE i > Len(q_tmds_valid) + 1
      <4>1. i - Len(q_tmds_valid) - 1 \in 1 .. Len(q_colour_valid) - 1
        BY <1>1, <2>1, <3>2
      <4>2. q_colour_valid'[i - Len(q_tmds_valid) - 1] = q_colour_valid[i - Len(q_tmds_valid)]
        BY <1>1, <2>2, <4>1
      <4>3. QED
        BY <1>1, <2>1, <3>2, <4>2 DEF Flight
    <3>3. QED
      BY <1>1, <3>1, <3>2
  <2>5. QED
    BY <2>3, <2>4
<1>5. CASE TakeBuffer
  <2>1. /\ UNCHANGED <<q_tmds_valid, q_colour_valid>>
        /\ Encoding = 1 /\ Encoding' = 1
        /\ encoder'.scanbuf = encoder.scanbuf
    BY <1>5, EncoderFacts DEF TakeBuffer, Encoding
  <2>2. ASSUME NEW j \in 1 .. Len(q_tmds_valid)
        PROVE  pixels'[q_tmds_valid[j]] = pixels[q_tmds_valid[j]]
    <3>1. Head(q_tmds_free) \in Elements(q_tmds_free)
      BY <1>5, HeadTailDistinct DEF TakeBuffer, TypeOK, UniqueOwner
    <3>2. q_tmds_valid[j] # Head(q_tmds_free)
      BY <3>1 DEF UniqueOwner, Elements
    <3>3. QED
      BY <1>3, <1>5, <3>2 DEF TakeBuffer
  <2>3. QED
    BY <1>1, <1>2, <2>1, <2>2 DEF Flight
<1>6. CASE PublishBuffer
  <2>1. /\ encoder.tmdsbuf \in Buffers
        /\ encoder.tmdsbuf \notin Elements(q_tmds_valid)
        /\ Encoding = 1 /\ Encoding' = 0
        /\ UNCHANGED q_colour_valid
    BY <1>6, EncoderFacts DEF PublishBuffer, UniqueOwner, Encoding
  <2>2. /\ Len(q_tmds_valid') = Len(q_tmds_valid) + 1
        /\ \A j \in 1 .. Len(q_tmds_valid) : q_tmds_valid'[j] = q_tmds_valid[j]
        /\ q_tmds_valid'[Len(q_tmds_valid) + 1] = encoder.tmdsbuf
    BY <1>3, <1>6, <2>1, AppendProperties DEF PublishBuffer
  <2>3. ASSUME NEW j \in 1 .. Len(q_tmds_valid)
        PROVE  pixels'[q_tmds_valid[j]] = pixels[q_tmds_valid[j]]
    BY <1>3, <1>6, <2>1 DEF PublishBuffer, Elements
  <2>4. pixels'[encoder.tmdsbuf] = encoder.scanbuf
    BY <1>3, <1>6, <2>1 DEF PublishBuffer
  <2>5. RowsInFlight' = RowsInFlight
    BY <1>1, <1>2, <2>1, <2>2
  <2>6. ASSUME NEW i \in 1 .. RowsInFlight PROVE Flight(i)' = Flight(i)
    <3>1. CASE i <= Len(q_tmds_valid)
      BY <1>1, <2>1, <2>2, <2>3, <3>1 DEF Flight
    <3>2. CASE i = Len(q_tmds_valid) + 1
      BY <1>1, <2>1, <2>2, <2>4, <3>2 DEF Flight
    <3>3. CASE i > Len(q_tmds_valid) + 1
      BY <1>1, <2>1, <2>2, <3>3 DEF Flight
    <3>4. QED
      BY <1>1, <3>1, <3>2, <3>3
  <2>7. QED
    BY <2>5, <2>6
<1>7. CASE ReturnRow
  BY <1>1, <1>2, <1>7, EncoderFacts DEF ReturnRow, Encoding, Flight
<1>8. QED
  BY <1>4, <1>5, <1>6, <1>7 DEF Encoder

LEMMA EncoderOrder ==
  ASSUME TypeOK, UniqueOwner, LinesAccounted, RowsInOrder, Encoder
  PROVE  RowsInOrder'
<1>1. UNCHANGED <<next_line, timing_state>>
  BY DEF Encoder, TakeRow, TakeBuffer, PublishBuffer, ReturnRow, irqVars
<1>2. RowsInFlight \in Nat /\ RowsInFlight >= 2
  BY DEF LinesAccounted, TypeOK
<1>3. /\ RowsInFlight' = RowsInFlight
      /\ \A i \in 1 .. RowsInFlight : Flight(i)' = Flight(i)
  BY EncoderFlight
<1>4. /\ next_line = RowAfter(RowAfter(NextRow))
      /\ \A i \in 1 .. RowsInFlight : Flight(i) \in Rows
      /\ \A i \in 1 .. RowsInFlight - 1 : Flight(i + 1) = RowAfter(Flight(i))
      /\ RowAfter(Flight(RowsInFlight)) = next_line
  BY DEF RowsInOrder
<1>5. NextRow' = NextRow
  BY <1>1 DEF NextRow
<1>6. RowAfter(Flight(RowsInFlight))' = RowAfter(Flight(RowsInFlight))
  <2>1. Flight(RowsInFlight)' = Flight(RowsInFlight)
    BY <1>2, <1>3 DEF Flight
  <2>2. QED
    BY <2>1 DEF RowAfter
<1>7. \A i \in 1 .. RowsInFlight' - 1 : Flight(i + 1)' = RowAfter(Flight(i)')
  BY <1>2, <1>3, <1>4
<1>8. QED
  BY <1>1, <1>3, <1>4, <1>5, <1>6, <1>7 DEF RowsInOrder, RowAfter

\* The rows an interrupt takes off the front and those it adds at the end.
Taken(t) == DropCount + (IF ConsumesRow(t) /\ RowIsReady THEN 1 ELSE 0)
Queued(t) == IF ConsumesRow(t) THEN 1 ELSE 0

LEMMA IrqFlight ==
  ASSUME TypeOK, DmaIrq, core1' = "running",
         NEW t, t = Advanced(timing_state)
  PROVE  LET gone == Taken(t)
             more == Queued(t) IN
         /\ gone \in 0 .. Len(q_tmds_valid)
         /\ RowsInFlight' = RowsInFlight - gone + more
         /\ \A i \in 1 .. RowsInFlight - gone : Flight(i)' = Flight(i + gone)
         /\ more = 1 => Flight(RowsInFlight)' = next_line
<1> DEFINE gone == Taken(t)
           more == Queued(t)
<1>1. /\ RowsInFlight = Len(q_tmds_valid) + Encoding + Len(q_colour_valid)
      /\ Len(q_tmds_valid) \in Nat
      /\ Len(q_colour_valid) \in Nat
      /\ RowsInFlight \in Nat
      /\ Encoding \in Nat
  BY FlightLength
<1>2. HandleScanline(t) /\ UNCHANGED <<encoder, pixels>>
  BY DEF DmaIrq, threadVars
<1>3. UNCHANGED Encoding
  BY <1>2 DEF Encoding
<1>4. /\ DropCount \in 0 .. Len(q_tmds_valid)
      /\ Len(ValidAfterDrop) = Len(q_tmds_valid) - DropCount
      /\ ValidAfterDrop \in Seq(Buffers)
  BY DropFacts
<1>5. gone \in 0 .. Len(q_tmds_valid)
  BY <1>1, <1>4, ChoiceFacts DEF Taken
<1>0. /\ ConsumesRow(t) /\ RowIsReady => gone = DropCount + 1
      /\ ~(ConsumesRow(t) /\ RowIsReady) => gone = DropCount
      /\ ConsumesRow(t) => more = 1
      /\ ~ConsumesRow(t) => more = 0
  BY <1>4 DEF Taken, Queued
<1> HIDE DEF gone, more
<1>6. \A i \in 1 .. Len(q_tmds_valid) - DropCount :
        ValidAfterDrop[i] = q_tmds_valid[i + DropCount]
  <2>1. q_tmds_valid \in Seq(Buffers)
    BY DEF TypeOK
  <2>2. \A i \in DropCount + 1 .. Len(q_tmds_valid) : q_tmds_valid[i] \in Buffers
    BY <1>1, <1>4, <2>1, ElementOfSeq
  <2>3. \A i \in 1 .. Len(q_tmds_valid) - (DropCount + 1) + 1 :
          ValidAfterDrop[i] = q_tmds_valid[DropCount + 1 + i - 1]
    BY <1>1, <1>4, <2>2, SubSeqProperties DEF ValidAfterDrop
  <2>4. QED
    BY <1>1, <1>4, <2>3
<1>7. /\ Len(q_tmds_valid') = Len(q_tmds_valid) - gone
      /\ \A i \in 1 .. Len(q_tmds_valid) - gone : q_tmds_valid'[i] = q_tmds_valid[i + gone]
  <2>1. CASE ConsumesRow(t) /\ RowIsReady
    <3>1. q_tmds_valid' = Tail(ValidAfterDrop) /\ gone = DropCount + 1
      BY <1>0, <1>2, <2>1 DEF HandleScanline, SelectScanline
    <3>2. ValidAfterDrop # << >>
      BY <2>1 DEF RowIsReady
    <3>3. /\ Len(Tail(ValidAfterDrop)) = Len(ValidAfterDrop) - 1
          /\ \A i \in 1 .. Len(ValidAfterDrop) - 1 :
               Tail(ValidAfterDrop)[i] = ValidAfterDrop[i + 1]
      BY <1>4, <3>2, HeadTailProperties
    <3>4. Len(q_tmds_valid') = Len(q_tmds_valid) - gone
      BY <1>1, <1>4, <3>1, <3>3
    <3>5. ASSUME NEW i \in 1 .. Len(q_tmds_valid) - gone
          PROVE  q_tmds_valid'[i] = q_tmds_valid[i + gone]
      <4>1. i \in 1 .. Len(ValidAfterDrop) - 1
        BY <1>1, <1>4, <3>1
      <4>2. /\ i + 1 \in 1 .. Len(q_tmds_valid) - DropCount
            /\ i + 1 + DropCount = i + gone
        BY <1>1, <1>4, <3>1
      <4>3. QED
        BY <1>6, <3>1, <3>3, <4>1, <4>2
    <3>6. QED
      BY <3>4, <3>5
  <2>2. CASE ~(ConsumesRow(t) /\ RowIsReady)
    <3>1. q_tmds_valid' = ValidAfterDrop /\ gone = DropCount
      BY <1>0, <1>2, <2>2 DEF HandleScanline, SelectScanline
    <3>2. QED
      BY <1>4, <1>6, <3>1
  <2>3. QED
    BY <2>1, <2>2
<1>8. /\ Len(q_colour_valid') = Len(q_colour_valid) + more
      /\ \A i \in 1 .. Len(q_colour_valid) : q_colour_valid'[i] = q_colour_valid[i]
      /\ more = 1 => q_colour_valid'[Len(q_colour_valid) + 1] = next_line
  <2>1. CASE ConsumesRow(t)
    <3>1. q_colour_valid' = Append(q_colour_valid, next_line)
      BY <1>2, <2>1 DEF HandleScanline, ScanlineCallback, CallsBack, ConsumesRow
    <3>2. QED
      BY <1>0, <2>1, <3>1, AppendProperties DEF TypeOK
  <2>2. CASE ~ConsumesRow(t)
    <3>1. q_colour_valid' = q_colour_valid
      BY <1>2, <2>2 DEF HandleScanline, ScanlineCallback, CallsBack, ConsumesRow
    <3>2. QED
      BY <1>0, <1>1, <2>2, <3>1
  <2>3. QED
    BY <2>1, <2>2
<1>9. more \in Nat
  BY <1>0
<1>10. /\ RowsInFlight' = Len(q_tmds_valid) - gone + Encoding + Len(q_colour_valid) + more
       /\ RowsInFlight' = RowsInFlight - gone + more
  <2>1. /\ Len(q_tmds_valid') \in Nat
        /\ Len(q_tmds_valid') = Len(q_tmds_valid) - gone
    BY <1>1, <1>5, <1>7
  <2>2. /\ Len(q_colour_valid') \in Nat
        /\ Len(q_colour_valid') = Len(q_colour_valid) + more
    BY <1>1, <1>8, <1>9
  <2>3. RowsInFlight' = Len(q_colour_valid') + Encoding' + Len(q_tmds_valid')
    BY DEF RowsInFlight, Encoding
  <2>4. QED
    BY <1>1, <1>3, <1>5, <1>9, <2>1, <2>2, <2>3
<1>11. ASSUME NEW i \in 1 .. RowsInFlight - gone PROVE Flight(i)' = Flight(i + gone)
  <2>1. CASE i <= Len(q_tmds_valid) - gone
    BY <1>1, <1>2, <1>5, <1>7, <2>1 DEF Flight
  <2>2. CASE i > Len(q_tmds_valid) - gone /\ i <= Len(q_tmds_valid) - gone + Encoding
    BY <1>1, <1>2, <1>3, <1>5, <1>7, <2>2 DEF Flight
  <2>3. CASE i > Len(q_tmds_valid) - gone + Encoding
    <3>1. i - (Len(q_tmds_valid) - gone) - Encoding \in 1 .. Len(q_colour_valid)
      BY <1>1, <1>5, <2>3
    <3>2. Flight(i)' = q_colour_valid'[i - (Len(q_tmds_valid) - gone) - Encoding]
      BY <1>1, <1>3, <1>5, <1>7, <2>3 DEF Flight
    <3>3. Flight(i + gone) = q_colour_valid[i + gone - Len(q_tmds_valid) - Encoding]
      BY <1>1, <1>5, <2>3 DEF Flight
    <3>4. i + gone - Len(q_tmds_valid) - Encoding = i - (Len(q_tmds_valid) - gone) - Encoding
      BY <1>1, <1>5
    <3>5. QED
      BY <1>8, <3>1, <3>2, <3>3, <3>4
  <2>4. QED
    BY <1>1, <1>5, <2>1, <2>2, <2>3
<1>12. ASSUME more = 1 PROVE Flight(RowsInFlight)' = next_line
  <2>1. RowsInFlight' = Len(q_tmds_valid) - gone + Encoding + (Len(q_colour_valid) + 1)
    BY <1>1, <1>5, <1>10, <1>12
  <2>2. q_colour_valid'[Len(q_colour_valid) + 1] = next_line
    BY <1>8, <1>12
  <2>3. Len(q_tmds_valid') = Len(q_tmds_valid) - gone
    BY <1>7
  <2>4. /\ ~(RowsInFlight' <= Len(q_tmds_valid'))
        /\ ~(RowsInFlight' <= Len(q_tmds_valid') + Encoding')
        /\ RowsInFlight' - Len(q_tmds_valid') - Encoding' = Len(q_colour_valid) + 1
    BY <1>1, <1>3, <1>5, <2>1, <2>3
  <2>5. QED
    BY <2>2, <2>4 DEF Flight
<1>13. QED
  BY <1>5, <1>10, <1>11, <1>12 DEF gone, more

LEMMA IrqOrder ==
  ASSUME TypeOK, LinesAccounted, RowsInOrder, DmaIrq
  PROVE  RowsInOrder'
<1> DEFINE t == Advanced(timing_state)
<1>1. CASE core1' # "running"
  <2>1. UNCHANGED <<queues, irqVars, encoder, pixels>>
    BY <1>1 DEF DmaIrq, threadVars
  <2>2. \A i : Flight(i)' = Flight(i)
    BY <2>1 DEF queues, Flight, Encoding
  <2>3. RowsInFlight' = RowsInFlight /\ NextRow' = NextRow
    BY <2>1 DEF queues, irqVars, RowsInFlight, NextRow
  <2>4. Flight(RowsInFlight)' = Flight(RowsInFlight)
    BY <2>1, <2>3 DEF queues, Flight, Encoding
  <2>5. QED
    BY <2>1, <2>2, <2>3, <2>4 DEF irqVars, RowsInOrder, RowAfter
<1>2. CASE core1' = "running"
  <2> DEFINE gone == Taken(t)
             more == Queued(t)
  <2>1. /\ gone \in 0 .. Len(q_tmds_valid)
        /\ RowsInFlight' = RowsInFlight - gone + more
        /\ \A i \in 1 .. RowsInFlight - gone : Flight(i)' = Flight(i + gone)
        /\ more = 1 => Flight(RowsInFlight)' = next_line
    BY <1>2, IrqFlight
  <2>2. more \in {0, 1} /\ (more = 1 <=> ConsumesRow(t))
    BY DEF Queued
  <2> HIDE DEF gone, more
  <2>3. RowsInFlight \in Nat /\ gone \in Nat
    BY <2>1, FlightLength
  <2>4. RowsInFlight - gone >= 1
    <3>1. LinesAccounted' /\ late_scanline_ctr' \in Nat
      BY IrqAccounts, IrqType DEF TypeOK
    <3>2. RowsInFlight' \in Nat /\ RowsInFlight' >= 2
      <4>1. \A n \in Nat : 2 + n \in Nat /\ 2 + n >= 2
        OBVIOUS
      <4>2. QED
        BY <3>1, <4>1, Zenon DEF LinesAccounted
    <3>3. RowsInFlight' = RowsInFlight - gone + more /\ more \in Nat /\ more <= 1
      BY <2>1, <2>2
    <3>4. QED
      BY <2>3, <3>2, <3>3
  <2>5. /\ next_line = RowAfter(RowAfter(NextRow))
        /\ \A i \in 1 .. RowsInFlight : Flight(i) \in Rows
        /\ \A i \in 1 .. RowsInFlight - 1 : Flight(i + 1) = RowAfter(Flight(i))
        /\ RowAfter(Flight(RowsInFlight)) = next_line
    BY DEF RowsInOrder
  <2>6. next_line \in Rows
    BY DEF TypeOK
  <2>7. /\ timing_state' = t
        /\ next_line' = IF more = 1 THEN RowAfter(next_line) ELSE next_line
    BY <1>2, <2>2 DEF DmaIrq, HandleScanline, ScanlineCallback, CallsBack,
                      ConsumesRow, RowAfter
  <2>8. NextRow' = IF more = 1 THEN RowAfter(NextRow) ELSE NextRow
    <3>1. t \in TimingStates
      BY AdvanceType DEF TypeOK
    <3>2. QED
      BY <2>2, <2>7, <3>1, NextRowFacts DEF NextRow
  <2>9. next_line' = RowAfter(RowAfter(NextRow'))
    BY <2>5, <2>7, <2>8
  <2>10. \A i : i = RowsInFlight' /\ more = 1 => Flight(i)' = next_line
    BY <2>1 DEF Flight
  <2>11. \A i \in 1 .. RowsInFlight' : i \in 1 .. RowsInFlight - gone \/ i = RowsInFlight'
    BY <2>1, <2>2, <2>3
  <2>12. ASSUME NEW i \in 1 .. RowsInFlight - gone
         PROVE  /\ Flight(i)' = Flight(i + gone)
                /\ i + gone \in 1 .. RowsInFlight
    BY <2>1, <2>3
  <2>13. \A i \in 1 .. RowsInFlight' : Flight(i)' \in Rows
    <3> SUFFICES ASSUME NEW i \in 1 .. RowsInFlight' PROVE Flight(i)' \in Rows
      OBVIOUS
    <3>1. CASE i \in 1 .. RowsInFlight - gone
      BY <2>5, <2>12, <3>1
    <3>2. CASE i = RowsInFlight' /\ more = 1
      BY <2>6, <2>10, <3>2
    <3>3. CASE i = RowsInFlight' /\ more = 0
      <4>1. i \in 1 .. RowsInFlight - gone
        BY <2>1, <2>3, <2>4, <3>3
      <4>2. QED
        BY <2>5, <2>12, <4>1
    <3>4. QED
      BY <2>2, <2>11, <3>1, <3>2, <3>3
  <2>14. \A i \in 1 .. RowsInFlight' - 1 : Flight(i + 1)' = RowAfter(Flight(i)')
    <3> SUFFICES ASSUME NEW i \in 1 .. RowsInFlight' - 1
                 PROVE  Flight(i + 1)' = RowAfter(Flight(i)')
      OBVIOUS
    <3>1. /\ i \in 1 .. RowsInFlight - gone
          /\ i + 1 \in 1 .. RowsInFlight - gone \/ (more = 1 /\ i = RowsInFlight - gone)
          /\ i + gone + 1 = i + 1 + gone
      BY <2>1, <2>2, <2>3, <2>4
    <3>2. CASE i + 1 \in 1 .. RowsInFlight - gone
      <4>1. i + gone \in 1 .. RowsInFlight - 1
        BY <2>3, <3>2
      <4>2. Flight(i + 1)' = Flight(i + 1 + gone)
        BY <2>1, <3>2
      <4>3. QED
        BY <2>5, <2>12, <3>1, <4>1, <4>2
    <3>3. CASE more = 1 /\ i = RowsInFlight - gone
      <4>1. i + 1 = RowsInFlight' /\ i + gone = RowsInFlight
        BY <2>1, <2>3, <3>3
      <4>2. Flight(i + 1)' = next_line
        BY <2>10, <3>3, <4>1
      <4>3. QED
        BY <2>5, <2>12, <3>1, <4>1, <4>2
    <3>4. QED
      BY <3>1, <3>2, <3>3
  <2>15. RowAfter(Flight(RowsInFlight))' = next_line'
    <3>1. CASE more = 1
      BY <2>1, <2>7, <3>1 DEF RowAfter
    <3>2. CASE more = 0
      <4>1. RowsInFlight' = RowsInFlight - gone /\ RowsInFlight - gone + gone = RowsInFlight
        BY <2>1, <2>3, <3>2
      <4>2. \A i : i = RowsInFlight' => Flight(i)' = Flight(RowsInFlight)'
        BY DEF Flight
      <4>3. Flight(RowsInFlight)' = Flight(RowsInFlight)
        BY <2>3, <2>4, <2>12, <4>1, <4>2
      <4>4. QED
        BY <2>5, <2>7, <3>2, <4>3 DEF RowAfter
    <3>3. QED
      BY <2>2, <3>1, <3>2
  <2>16. QED
    BY <2>9, <2>13, <2>14, <2>15 DEF RowsInOrder, RowAfter
<1>3. QED
  BY <1>1, <1>2

(* The rows in the pipeline are consecutive rows of the picture, however   *)
(* many were late or dropped: the one the callback queues is always the    *)
(* one that follows the youngest.                                          *)
THEOREM Order == Spec => []RowsInOrder
<1>1. TypeOK /\ UniqueOwner /\ LinesAccounted /\ RowsInOrder /\ [Next]_vars
        => RowsInOrder'
  <2> SUFFICES ASSUME TypeOK, UniqueOwner, LinesAccounted, RowsInOrder, [Next]_vars
               PROVE  RowsInOrder'
    OBVIOUS
  <2>1. CASE Encoder
    BY <2>1, EncoderOrder
  <2>2. CASE DmaIrq
    BY <2>2, IrqOrder
  <2>3. CASE UNCHANGED vars
    <3>1. UNCHANGED <<queues, irqVars, encoder, pixels>>
      BY <2>3 DEF vars, threadVars
    <3>2. QED
      BY <3>1 DEF queues, irqVars, RowsInOrder, Flight, Encoding, RowsInFlight,
                  NextRow, RowAfter
  <2>4. QED
    BY <2>1, <2>2, <2>3 DEF Next, Encoder
<1>2. QED
  BY <1>1, InitOrder, TypeCorrect, OneOwner, Accounting, PTL DEF Spec

-----------------------------------------------------------------------------
(***************************************************************************)
(* The two control block lists follow the raster.                          *)
(***************************************************************************)
\* A row that is begun is still waiting for its other repetitions.
ScanInPlace ==
  /\ scan.next.at = timing_state
  /\ scan.next.at = Advanced(scan.now.at)
  /\ \A s \in {scan.now, scan.next} : s.buf # NoBuf => s.at.v_state = "active"
  /\ scan.next.buf # NoBuf /\ ~IsLastRepeat(scan.next.at) => Waiting(scan.next.buf)
  /\ scan.now.buf # NoBuf /\ scan.next.at.v_state = "active"
       /\ scan.next.at.v_ctr % VerticalRepeat # 0 => scan.next.buf # NoBuf

LEMMA InitInPlace == Init => ScanInPlace
<1> SUFFICES ASSUME Init PROVE ScanInPlace
  OBVIOUS
<1>1. /\ scan.next.at = FirstLine /\ timing_state = FirstLine
      /\ scan.now.at = [v_state |-> "active", v_ctr |-> ActiveLines - 1]
      /\ scan.now.buf = NoBuf /\ scan.next.buf = NoBuf
  BY DEF Init
<1>2. Advanced(scan.now.at) = FirstLine
  BY <1>1, ActiveLinesPositive DEF Advanced, LinesIn, StateAfter, FirstLine
<1>3. QED
  BY <1>1, <1>2 DEF ScanInPlace

\* The head of q_tmds_valid stays there while the encoder runs.
LEMMA EncoderWaiting ==
  ASSUME TypeOK, Encoder, NEW b, Waiting(b)
  PROVE  Waiting(b)'
<1>1. UNCHANGED late_scanline_ctr
  BY DEF Encoder, TakeRow, TakeBuffer, PublishBuffer, ReturnRow, irqVars
<1>2. q_tmds_valid # << >> /\ b = Head(q_tmds_valid) /\ late_scanline_ctr = 0
  BY DEF Waiting
<1>3. q_tmds_valid' # << >> /\ Head(q_tmds_valid') = Head(q_tmds_valid)
  <2>1. CASE UNCHANGED q_tmds_valid
    BY <1>2, <2>1
  <2>2. CASE PublishBuffer
    <3>1. /\ q_tmds_valid' = Append(q_tmds_valid, encoder.tmdsbuf)
          /\ encoder.tmdsbuf \in Buffers
          /\ q_tmds_valid \in Seq(Buffers)
      BY <2>2, EncoderFacts DEF PublishBuffer, TypeOK
    <3>2. QED
      BY <1>2, <3>1, AppendProperties, EmptySeq
  <2>3. QED
    BY <2>1, <2>2 DEF Encoder, TakeRow, TakeBuffer, ReturnRow
<1>4. QED
  BY <1>1, <1>2, <1>3 DEF Waiting

LEMMA EncoderInPlace ==
  ASSUME TypeOK, ScanInPlace, Encoder
  PROVE  ScanInPlace'
<1>1. UNCHANGED <<scan, timing_state>>
  BY DEF Encoder, TakeRow, TakeBuffer, PublishBuffer, ReturnRow, irqVars
<1>2. Waiting(scan.next.buf) => Waiting(scan.next.buf)'
  <2>1. ASSUME NEW b, b = scan.next.buf, Waiting(b) PROVE Waiting(b)'
    BY <2>1, EncoderWaiting
  <2>2. QED
    BY <1>1, <2>1 DEF Waiting
<1>3. QED
  BY <1>1, <1>2 DEF ScanInPlace

\* A row is chosen for the next scanline only when nothing is late any more.
LEMMA ChosenInTime ==
  ASSUME TypeOK, RowIsReady
  PROVE  DropCount = late_scanline_ctr
<1>1. Len(ValidAfterDrop) > 0 /\ Len(ValidAfterDrop) = Len(q_tmds_valid) - DropCount
  BY DropFacts, ChoiceFacts
<1>2. Len(q_tmds_valid) \in Nat /\ late_scanline_ctr \in Nat
  BY LenProperties DEF TypeOK
<1>3. QED
  BY <1>1, <1>2 DEF DropCount

LEMMA WaitingIsReady ==
  ASSUME TypeOK, NEW b, Waiting(b)
  PROVE  RowIsReady /\ Head(ValidAfterDrop) = b /\ DropCount = 0
<1>1. q_tmds_valid # << >> /\ b = Head(q_tmds_valid) /\ late_scanline_ctr = 0
  BY DEF Waiting
<1>2. Len(q_tmds_valid) \in Nat
  BY LenProperties DEF TypeOK
<1>3. DropCount = 0
  BY <1>1, <1>2 DEF DropCount
<1>4. ValidAfterDrop = q_tmds_valid
  BY <1>3, SubSeqFull DEF ValidAfterDrop, TypeOK
<1>5. QED
  BY <1>1, <1>3, <1>4 DEF RowIsReady

LEMMA IrqInPlace ==
  ASSUME TypeOK, ScanInPlace, DmaIrq
  PROVE  ScanInPlace'
<1> DEFINE t == Advanced(timing_state)
<1>1. CASE core1' # "running"
  BY <1>1 DEF DmaIrq, queues, irqVars, ScanInPlace, Waiting
<1>2. CASE core1' = "running"
  <2>1. t \in TimingStates /\ timing_state \in TimingStates
    BY AdvanceType DEF TypeOK
  <2>2. scan.next.at = timing_state /\ t = Advanced(scan.next.at)
    BY DEF ScanInPlace
  <2>3. HandleScanline(t)
    BY <1>2 DEF DmaIrq
  <2> HIDE DEF t
  <2>4. /\ scan' = [now |-> scan.next, next |-> [buf |-> Selected(t), at |-> t]]
        /\ timing_state' = t
        /\ late_scanline_ctr' = LateAfter(t)
        /\ ~ConsumesRow(t) => q_tmds_valid' = ValidAfterDrop
    BY <2>3 DEF HandleScanline, SelectScanline
  <2>5. /\ scan'.now = scan.next
        /\ scan'.next.at = t
        /\ scan'.next.buf = Selected(t)
    BY <2>4
  <2>6. Selected(t) # NoBuf => /\ t.v_state = "active"
                               /\ RowIsReady
                               /\ Selected(t) = Head(ValidAfterDrop)
    BY DEF Selected
  <2>7. ASSUME Selected(t) # NoBuf, ~IsLastRepeat(t) PROVE Waiting(scan.next.buf)'
    <3>1. ~ConsumesRow(t)
      BY <2>7 DEF ConsumesRow
    <3>2. late_scanline_ctr \in Nat
      BY DEF TypeOK
    <3>3. late_scanline_ctr' = 0
      BY <2>4, <2>6, <2>7, <3>1, <3>2, ChosenInTime DEF LateAfter
    <3>4. q_tmds_valid' # << >> /\ Selected(t) = Head(q_tmds_valid')
      BY <2>4, <2>6, <2>7, <3>1 DEF RowIsReady
    <3>5. QED
      BY <2>5, <3>3, <3>4 DEF Waiting
  <2>8. ASSUME scan.next.buf # NoBuf, t.v_state = "active", t.v_ctr % VerticalRepeat # 0
        PROVE  Selected(t) # NoBuf
    <3>1. timing_state.v_state = "active"
      BY <2>2, <2>8 DEF ScanInPlace
    <3>2. ~IsLastRepeat(timing_state)
      BY <2>1, <2>8, <3>1, LineAfterActive DEF t
    <3>3. Waiting(scan.next.buf)
      BY <2>2, <2>8, <3>2 DEF ScanInPlace
    <3>4. QED
      BY <2>8, <3>3, WaitingIsReady DEF Selected
  <2>9. \A s \in {scan'.now, scan'.next} : s.buf # NoBuf => s.at.v_state = "active"
    BY <2>5, <2>6 DEF ScanInPlace
  <2>10. /\ scan'.next.at = timing_state'
         /\ scan'.next.at = Advanced(scan'.now.at)
    BY <2>2, <2>4, <2>5
  <2>11. QED
    BY <2>5, <2>7, <2>8, <2>9, <2>10 DEF ScanInPlace
<1>3. QED
  BY <1>1, <1>2

(* The control blocks follow the raster line by line, a buffer is only     *)
(* sent in the active region, and a row that is begun stays in the queue   *)
(* until its last repetition has been chosen.                              *)
THEOREM InPlace == Spec => []ScanInPlace
<1>1. TypeOK /\ ScanInPlace /\ [Next]_vars => ScanInPlace'
  <2> SUFFICES ASSUME TypeOK, ScanInPlace, [Next]_vars PROVE ScanInPlace'
    OBVIOUS
  <2>1. CASE Encoder
    BY <2>1, EncoderInPlace
  <2>2. CASE DmaIrq
    BY <2>2, IrqInPlace
  <2>3. CASE UNCHANGED vars
    BY <2>3 DEF vars, queues, irqVars, ScanInPlace, Waiting
  <2>4. QED
    BY <2>1, <2>2, <2>3 DEF Next, Encoder
<1>2. QED
  BY <1>1, InitInPlace, TypeCorrect, PTL DEF Spec

-----------------------------------------------------------------------------
(***************************************************************************)
(* The picture stays in place.                                             *)
(***************************************************************************)

\* What is sent cannot be written over by the step the encoder takes.
LEMMA EncoderSpares ==
  ASSUME TypeOK, Encoder, NoTearing, NoTearing',
         NEW b \in {scan.now.buf, scan.next.buf}, b # NoBuf
  PROVE  pixels'[b] = pixels[b]
<1>1. UNCHANGED scan
  BY DEF Encoder, TakeRow, TakeBuffer, PublishBuffer, ReturnRow, irqVars
<1>2. b \in Buffers
  BY DEF TypeOK, Scans, Slots
<1>3. CASE UNCHANGED pixels
  BY <1>3
<1>4. CASE TakeBuffer
  <2>1. encoder'.tmdsbuf = Head(q_tmds_free) /\ Head(q_tmds_free) \in Buffers
    BY <1>4, EncoderFacts, HeadTailProperties DEF TakeBuffer, TypeOK
  <2>2. b # Head(q_tmds_free)
    BY <1>1, <2>1, HeldFacts DEF NoTearing
  <2>3. QED
    BY <1>2, <1>4, <2>2 DEF TakeBuffer, TypeOK
<1>5. CASE PublishBuffer
  <2>1. encoder.tmdsbuf \in Buffers
    BY <1>5, EncoderFacts DEF PublishBuffer
  <2>2. b # encoder.tmdsbuf
    BY <2>1, HeldFacts DEF NoTearing
  <2>3. QED
    BY <1>2, <1>5, <2>2 DEF PublishBuffer, TypeOK
<1>6. QED
  BY <1>3, <1>4, <1>5 DEF Encoder, TakeRow, ReturnRow

\* The oldest encoded row is the one the next scanline has to show: of the
\* rows in flight, those before it are dropped and just two are left.
LEMMA ChosenRow ==
  ASSUME TypeOK, LinesAccounted, RowsInOrder, RowIsReady,
         NEW t, t = Advanced(timing_state), t.v_state = "active"
  PROVE  pixels[Head(ValidAfterDrop)] = RowOf(t)
<1>1. /\ RowsInFlight = 2 + DropCount
      /\ DropCount \in Nat
      /\ DropCount < Len(q_tmds_valid)
      /\ Len(q_tmds_valid) \in Nat
  <2>1. Len(ValidAfterDrop) > 0 /\ Len(ValidAfterDrop) = Len(q_tmds_valid) - DropCount
    BY DropFacts, ChoiceFacts
  <2>2. Len(q_tmds_valid) \in Nat /\ DropCount \in 0 .. Len(q_tmds_valid)
    BY DropFacts, LenProperties DEF TypeOK
  <2>3. QED
    BY <2>1, <2>2, ChosenInTime DEF LinesAccounted
<1>2. Head(ValidAfterDrop) = q_tmds_valid[DropCount + 1]
  <2>1. q_tmds_valid \in Seq(Buffers)
    BY DEF TypeOK
  <2>2. \A i \in DropCount + 1 .. Len(q_tmds_valid) : q_tmds_valid[i] \in Buffers
    BY <1>1, <2>1, ElementOfSeq
  <2>3. ValidAfterDrop[1] = q_tmds_valid[DropCount + 1 + 1 - 1]
    BY <1>1, <2>2, SubSeqProperties DEF ValidAfterDrop
  <2>4. Head(ValidAfterDrop) = ValidAfterDrop[1]
    BY DropFacts, HeadTailProperties DEF RowIsReady
  <2>5. QED
    BY <1>1, <2>3, <2>4
<1>3. Flight(DropCount + 1) = pixels[Head(ValidAfterDrop)]
  BY <1>1, <1>2 DEF Flight
<1>4. /\ Flight(DropCount + 1) \in Rows
      /\ Flight(DropCount + 2) \in Rows
      /\ Flight(DropCount + 2) = RowAfter(Flight(DropCount + 1))
      /\ RowAfter(Flight(DropCount + 2)) = next_line
  <2>1. /\ DropCount + 1 \in 1 .. RowsInFlight
        /\ DropCount + 2 \in 1 .. RowsInFlight
        /\ DropCount + 1 \in 1 .. RowsInFlight - 1
        /\ DropCount + 1 + 1 = DropCount + 2
        /\ DropCount + 2 = RowsInFlight
    BY <1>1
  <2>2. Flight(RowsInFlight) = Flight(DropCount + 2)
    BY <2>1 DEF Flight
  <2>3. QED
    BY <2>1, <2>2 DEF RowsInOrder
<1>5. NextRow = RowOf(t) /\ RowOf(t) \in Rows
  BY AdvanceType, ActiveFacts DEF NextRow, TypeOK
<1>6. RowAfter(RowAfter(RowOf(t))) = RowAfter(RowAfter(Flight(DropCount + 1)))
  BY <1>4, <1>5 DEF RowsInOrder
<1>7. QED
  BY <1>3, <1>4, <1>5, <1>6, RowAfterFacts

LEMMA InitIntact == Init => ScanOutIntact
  BY DEF Init, ScanOutIntact

LEMMA StepIntact ==
  TypeOK /\ LinesAccounted /\ RowsInOrder /\ NoTearing /\ NoTearing'
    /\ ScanOutIntact /\ [Next]_vars => ScanOutIntact'
<1> SUFFICES ASSUME TypeOK, LinesAccounted, RowsInOrder, NoTearing, NoTearing',
                    ScanOutIntact, [Next]_vars
             PROVE  ScanOutIntact'
  OBVIOUS
<1>1. CASE Encoder
  <2>1. UNCHANGED scan
    BY <1>1 DEF Encoder, TakeRow, TakeBuffer, PublishBuffer, ReturnRow, irqVars
  <2>2. ASSUME NEW s \in {scan.now, scan.next}, s.buf # NoBuf
        PROVE  pixels'[s.buf] = RowOf(s.at)
    <3>1. pixels'[s.buf] = pixels[s.buf]
      BY <1>1, <2>2, EncoderSpares
    <3>2. QED
      BY <2>2, <3>1 DEF ScanOutIntact
  <2>3. QED
    BY <2>1, <2>2 DEF ScanOutIntact
<1>2. CASE DmaIrq
  <2> DEFINE t == Advanced(timing_state)
  <2>1. CASE core1' # "running"
    BY <1>2, <2>1 DEF DmaIrq, irqVars, threadVars, ScanOutIntact
  <2>2. CASE core1' = "running"
    <3>1. HandleScanline(t) /\ pixels' = pixels
      BY <1>2, <2>2 DEF DmaIrq, threadVars
    <3> HIDE DEF t
    <3>2. /\ scan'.now = scan.next
          /\ scan'.next.buf = Selected(t)
          /\ scan'.next.at = t
      BY <3>1 DEF HandleScanline, SelectScanline
    <3>3. ASSUME Selected(t) # NoBuf PROVE pixels[Selected(t)] = RowOf(t)
      <4>1. RowIsReady /\ t.v_state = "active" /\ Selected(t) = Head(ValidAfterDrop)
        BY <3>3 DEF Selected
      <4>2. QED
        BY <4>1, ChosenRow DEF t
    <3>4. scan.next.buf # NoBuf => pixels[scan.next.buf] = RowOf(scan.next.at)
      BY DEF ScanOutIntact
    <3>5. QED
      BY <3>1, <3>2, <3>3, <3>4 DEF ScanOutIntact
  <2>3. QED
    BY <2>1, <2>2
<1>3. CASE UNCHANGED vars
  BY <1>3 DEF vars, irqVars, threadVars, ScanOutIntact
<1>4. QED
  BY <1>1, <1>2, <1>3 DEF Next, Encoder

(* Whatever the DMA reads, or is about to read, is a finished buffer that  *)
(* holds the row of its scanline, in every frame of late, missed and       *)
(* dropped rows.                                                           *)
THEOREM ScanOut == Spec => []ScanOutIntact
  BY InitIntact, StepIntact, TypeCorrect, Accounting, Order, NeverTears, PTL DEF Spec

-----------------------------------------------------------------------------
(***************************************************************************)
(* The pipeline implements the raster.                                     *)
(***************************************************************************)
LEMMA SameTiming ==
  /\ R!TimingStates = TimingStates
  /\ \A t : R!Advanced(t) = Advanced(t)
  /\ \A t : R!RowOf(t) = RowOf(t)
  /\ R!NoRow = NoRow
<1>1. \A s : R!LinesIn(s) = LinesIn(s)
  BY DEF R!LinesIn, LinesIn, R!ActiveLines, ActiveLines
<1>2. \A s : R!StateAfter(s) = StateAfter(s)
  BY DEF R!StateAfter, StateAfter
<1>3. R!TimingStates = TimingStates
  BY <1>1 DEF R!TimingStates, TimingStates, R!VStates, VStates
<1>4. \A t : R!Advanced(t) = Advanced(t)
  BY <1>1, <1>2 DEF R!Advanced, Advanced
<1>5. QED
  BY <1>3, <1>4 DEF R!RowOf, RowOf, R!NoRow, NoRow

LEMMA InitRaster == Init => R!Init
<1> SUFFICES ASSUME Init PROVE R!Init
  OBVIOUS
<1>1. scan.now.at \in TimingStates
  BY InitType DEF TypeOK, Scans
<1>2. Picture = NoRow
  BY DEF Init, Picture
<1>3. QED
  BY <1>1, <1>2, SameTiming DEF R!Init

\* An interrupt is the next line; nothing else changes what is sent.
LEMMA StepRaster ==
  TypeOK /\ ScanInPlace /\ ScanOutIntact /\ NoTearing /\ NoTearing' /\ [Next]_vars
    => [R!NextLine]_R!vars
<1> SUFFICES ASSUME TypeOK, ScanInPlace, ScanOutIntact, NoTearing, NoTearing', [Next]_vars
             PROVE  [R!NextLine]_R!vars
  OBVIOUS
<1>1. CASE Encoder
  <2>1. UNCHANGED scan
    BY <1>1 DEF Encoder, TakeRow, TakeBuffer, PublishBuffer, ReturnRow, irqVars
  <2>2. ASSUME scan.now.buf # NoBuf PROVE pixels'[scan.now.buf] = pixels[scan.now.buf]
    BY <1>1, <2>2, EncoderSpares
  <2>3. UNCHANGED <<scan.now.at, Picture>>
    BY <2>1, <2>2 DEF Picture
  <2>4. QED
    BY <2>3 DEF R!vars
<1>2. CASE DmaIrq /\ core1' = "running"
  <2> DEFINE t == scan.next.at
  <2>1. scan'.now = scan.next /\ pixels' = pixels
    BY <1>2 DEF DmaIrq, HandleScanline, SelectScanline, threadVars
  <2>2. t = Advanced(scan.now.at)
    BY DEF ScanInPlace
  <2>3. Picture' = IF scan.next.buf = NoBuf THEN NoRow ELSE RowOf(t)
    BY <2>1 DEF Picture, ScanOutIntact
  <2>4. t.v_state # "active" => Picture' = NoRow
    BY <2>3 DEF ScanInPlace
  <2>5. R!Begun(t) /\ t.v_state = "active" => Picture' = RowOf(t)
    <3> SUFFICES ASSUME Picture # NoRow, t.v_ctr % VerticalRepeat # 0, t.v_state = "active"
                 PROVE  Picture' = RowOf(t)
      BY SameTiming DEF R!Begun
    <3>1. scan.now.buf # NoBuf
      BY DEF Picture
    <3>2. scan.next.buf # NoBuf
      BY <3>1 DEF ScanInPlace
    <3>3. QED
      BY <2>3, <3>2
  <2>6. Picture' \in R!Pictures(t)
    BY <2>3, <2>4, <2>5, SameTiming DEF R!Pictures
  <2>7. R!NextLine
    BY <2>1, <2>2, <2>6, SameTiming DEF R!NextLine
  <2>8. QED
    BY <2>7
<1>3. CASE UNCHANGED <<scan, pixels>>
  BY <1>3 DEF Picture, R!vars
<1>4. QED
  BY <1>1, <1>2, <1>3 DEF Next, Encoder, DmaIrq, irqVars, threadVars, vars

(* The display pipeline implements the raster: the scanlines of a frame in *)
(* order, each with its own row or the solid colour, and a row that has    *)
(* begun is shown to its last repetition.                                  *)
THEOREM ImplementsRaster == Spec => Raster
<1>1. Spec => R!Init /\ [][R!NextLine]_R!vars
  BY InitRaster, StepRaster, TypeCorrect, InPlace, ScanOut, NeverTears, PTL DEF Spec
<1>2. QED
  BY <1>1, PTL DEF Raster, R!Spec

-----------------------------------------------------------------------------
(***************************************************************************)
(* An encoder that is fast enough is never late.  Fast enough means: it    *)
(* spends no more interrupts on a row than the row has scanlines, fewer on *)
(* the first row than there are blank scanlines before it, and it has a    *)
(* buffer besides the one in the release delay and the one being sent.     *)
(***************************************************************************)
Blank == FrontPorch + SyncWidth + BackPorch

InTime == /\ EncodeIrqs <= VerticalRepeat
          /\ EncodeIrqs < Blank
          /\ BufferCount >= 3
          /\ VerticalRepeat >= 2

\* Interrupts up to the next one that takes a row off q_tmds_valid.
ToConsume(t) ==
  CASE t.v_state = "front_porch" -> Blank - 1 - t.v_ctr + VerticalRepeat
    [] t.v_state = "sync"        -> SyncWidth + BackPorch - 1 - t.v_ctr + VerticalRepeat
    [] t.v_state = "back_porch"  -> BackPorch - 1 - t.v_ctr + VerticalRepeat
    [] t.v_state = "active"      ->
         IF ~IsLastRepeat(t) THEN VerticalRepeat - 1 - (t.v_ctr % VerticalRepeat)
         ELSE IF t.v_ctr + 1 = ActiveLines THEN Blank + VerticalRepeat
         ELSE VerticalRepeat

LEMMA ConsumeFacts ==
  ASSUME NEW t \in TimingStates, VerticalRepeat >= 2
  PROVE  LET s == Advanced(t) IN
         /\ ToConsume(t) \in Nat \ {0}
         /\ ~ConsumesRow(s) => ToConsume(s) = ToConsume(t) - 1
         /\ ConsumesRow(s) => ToConsume(t) = 1 /\ ToConsume(s) >= VerticalRepeat
         /\ s.v_state = "active" => ToConsume(t) <= VerticalRepeat
         /\ ConsumesRow(t) => ~ConsumesRow(s)
<1> DEFINE s == Advanced(t)
<1>1. /\ t = [v_state |-> t.v_state, v_ctr |-> t.v_ctr]
      /\ t.v_state \in VStates
      /\ t.v_ctr \in Nat
      /\ t.v_ctr < LinesIn(t.v_state)
  BY DEF TimingStates
<1>2. /\ VerticalRepeat \in Nat
      /\ FrontPorch \in Nat \ {0} /\ SyncWidth \in Nat \ {0} /\ BackPorch \in Nat \ {0}
      /\ Blank \in Nat /\ Blank = FrontPorch + SyncWidth + BackPorch
  BY TimingAssumption DEF Blank
<1>3. CASE t.v_state = "front_porch"
  <2>1. s = IF t.v_ctr + 1 = FrontPorch THEN [v_state |-> "sync", v_ctr |-> 0]
            ELSE [v_state |-> "front_porch", v_ctr |-> t.v_ctr + 1]
    BY <1>1, <1>3 DEF Advanced, LinesIn, StateAfter
  <2>2. t.v_ctr < FrontPorch
    BY <1>1, <1>3 DEF LinesIn
  <2> HIDE DEF s
  <2>3. QED
    BY <1>1, <1>2, <1>3, <2>1, <2>2 DEF ToConsume, ConsumesRow, s
<1>4. CASE t.v_state = "sync"
  <2>1. s = IF t.v_ctr + 1 = SyncWidth THEN [v_state |-> "back_porch", v_ctr |-> 0]
            ELSE [v_state |-> "sync", v_ctr |-> t.v_ctr + 1]
    BY <1>1, <1>4 DEF Advanced, LinesIn, StateAfter
  <2>2. t.v_ctr < SyncWidth
    BY <1>1, <1>4 DEF LinesIn
  <2> HIDE DEF s
  <2>3. QED
    BY <1>1, <1>2, <1>4, <2>1, <2>2 DEF ToConsume, ConsumesRow, s
<1>5. CASE t.v_state = "back_porch"
  <2>1. s = IF t.v_ctr + 1 = BackPorch THEN [v_state |-> "active", v_ctr |-> 0]
            ELSE [v_state |-> "back_porch", v_ctr |-> t.v_ctr + 1]
    BY <1>1, <1>5 DEF Advanced, LinesIn, StateAfter
  <2>2. t.v_ctr < BackPorch
    BY <1>1, <1>5 DEF LinesIn
  <2>3. s.v_state = "active" => s.v_ctr % VerticalRepeat = 0 /\ ~IsLastRepeat(s)
    BY <1>2, <1>5, LineAfterBlank DEF IsLastRepeat
  <2>4. ToConsume(t) = BackPorch - 1 - t.v_ctr + VerticalRepeat
    BY <1>5 DEF ToConsume
  <2> HIDE DEF s
  <2>5. CASE t.v_ctr + 1 = BackPorch
    <3>1. s.v_state = "active"
      BY <2>1, <2>5
    <3>2. ToConsume(s) = VerticalRepeat - 1 - 0
      BY <2>3, <3>1 DEF ToConsume
    <3>3. ~ConsumesRow(s) /\ ~ConsumesRow(t)
      BY <1>5, <2>3, <3>1 DEF ConsumesRow
    <3>4. QED
      BY <1>1, <1>2, <2>4, <2>5, <3>2, <3>3 DEF s
  <2>6. CASE t.v_ctr + 1 # BackPorch
    <3>1. s = [v_state |-> "back_porch", v_ctr |-> t.v_ctr + 1]
      BY <2>1, <2>6
    <3>2. ToConsume(s) = BackPorch - 1 - (t.v_ctr + 1) + VerticalRepeat
      BY <3>1 DEF ToConsume
    <3>3. ~ConsumesRow(s) /\ ~ConsumesRow(t)
      BY <1>5, <3>1 DEF ConsumesRow
    <3>4. QED
      BY <1>1, <1>2, <2>2, <2>4, <2>6, <3>1, <3>2, <3>3 DEF s
  <2>7. QED
    BY <2>5, <2>6
<1>6. CASE t.v_state = "active"
  <2>1. /\ t.v_ctr % VerticalRepeat \in 0 .. VerticalRepeat - 1
        /\ IsLastRepeat(t) <=> t.v_ctr % VerticalRepeat = VerticalRepeat - 1
    BY <1>6, ActiveFacts DEF IsLastRepeat
  <2>2. CASE ~IsLastRepeat(t)
    <3>1. /\ s.v_state = "active"
          /\ s.v_ctr % VerticalRepeat = (t.v_ctr % VerticalRepeat) + 1
      BY <1>6, <2>2, LineAfterActive
    <3>2. IsLastRepeat(s) <=> (t.v_ctr % VerticalRepeat) + 1 = VerticalRepeat - 1
      BY <3>1 DEF IsLastRepeat
    <3>3. ToConsume(t) = VerticalRepeat - 1 - (t.v_ctr % VerticalRepeat)
      BY <1>6, <2>2 DEF ToConsume
    <3>4. IF IsLastRepeat(s) THEN ToConsume(s) \in {VerticalRepeat, Blank + VerticalRepeat}
          ELSE ToConsume(s) = VerticalRepeat - 1 - ((t.v_ctr % VerticalRepeat) + 1)
      BY <3>1 DEF ToConsume
    <3> HIDE DEF s
    <3>5. QED
      BY <1>2, <1>6, <2>1, <2>2, <3>1, <3>2, <3>3, <3>4 DEF ConsumesRow, s
  <2>3. CASE IsLastRepeat(t) /\ t.v_ctr + 1 # ActiveLines
    <3>1. s.v_state = "active"
      BY <1>6, <2>3, LineAfterActive
    <3>2. s.v_ctr % VerticalRepeat = 0 /\ ~IsLastRepeat(s)
      BY <1>2, <1>6, <2>3, <3>1, LineAfterActive DEF IsLastRepeat
    <3>3. ToConsume(t) = VerticalRepeat
      BY <1>6, <2>3 DEF ToConsume
    <3>4. ToConsume(s) = VerticalRepeat - 1 - 0
      BY <3>1, <3>2 DEF ToConsume
    <3> HIDE DEF s
    <3>5. QED
      BY <1>2, <3>2, <3>3, <3>4 DEF ConsumesRow, s
  <2>4. CASE IsLastRepeat(t) /\ t.v_ctr + 1 = ActiveLines
    <3>1. s = [v_state |-> "front_porch", v_ctr |-> 0]
      BY <1>1, <1>6, <2>4 DEF Advanced, LinesIn, StateAfter
    <3>2. ToConsume(t) = Blank + VerticalRepeat /\ ToConsume(s) = Blank - 1 - 0 + VerticalRepeat
      BY <1>6, <2>4, <3>1 DEF ToConsume
    <3> HIDE DEF s
    <3>3. QED
      BY <1>2, <3>1, <3>2 DEF ConsumesRow, s
  <2>5. QED
    BY <2>2, <2>3, <2>4
<1>7. QED
  BY <1>1, <1>3, <1>4, <1>5, <1>6 DEF VStates

Returning == IF encoder.pc = "return" THEN 1 ELSE 0
Working == encoder.pc # "colour" \/ q_colour_valid # << >>

\* The encoder is done with its row when that row's first scanline is chosen.
Timely ==
  Working => EncodeIrqs - busy <= ToConsume(timing_state)
               + (Len(q_tmds_valid) - 1 - Returning) * VerticalRepeat

\* The rows handed back since the last callback are still to be consumed.
Returned == Len(q_colour_free) + Returning <= Len(q_tmds_valid)

\* One buffer at a time is in the release delay.
ReleaseOnce == /\ tmds_buf_release[0] # NoBuf => ConsumesRow(timing_state)
               /\ tmds_buf_release[1] # NoBuf => tmds_buf_release[0] = NoBuf

InTimeInv == NeverLate /\ Timely /\ Returned /\ ReleaseOnce

LEMMA InTimeTypes ==
  ASSUME TypeOK, LinesAccounted, NeverLate
  PROVE  /\ Len(q_tmds_valid) \in Nat /\ Len(q_tmds_valid) <= 2
         /\ Len(q_colour_valid) \in Nat /\ Len(q_colour_valid) <= 2
         /\ Encoding \in Nat
         /\ Len(q_tmds_valid) + Encoding + Len(q_colour_valid) = 2
         /\ Len(q_tmds_valid) < 2 => Working
         /\ Encoding = 1 => Working
         /\ Returning \in {0, 1} /\ (Returning = 1 => Working /\ Encoding = 0)
         /\ Len(q_colour_free) \in Nat
         /\ busy \in 0 .. EncodeIrqs
         /\ timing_state \in TimingStates
         /\ VerticalRepeat \in Nat /\ EncodeIrqs \in Nat
<1>0. RowsInFlight = Len(q_tmds_valid) + Encoding + Len(q_colour_valid)
  BY FlightLength
<1>1. /\ Len(q_tmds_valid) \in Nat /\ Len(q_colour_valid) \in Nat
      /\ Len(q_colour_free) \in Nat
      /\ Encoding \in Nat
  BY FlightLength, LenProperties DEF TypeOK
<1>2. Len(q_tmds_valid) + Encoding + Len(q_colour_valid) = 2
  BY <1>0, <1>1 DEF LinesAccounted, NeverLate
<1>3. Len(q_colour_valid) > 0 => Working
  BY EmptySeq DEF Working
<1>4. Encoding = 1 => Working
  BY DEF Encoding, Working
<1>5. Returning \in {0, 1} /\ (Returning = 1 => Working /\ Encoding = 0)
  BY DEF Returning, Encoding, Working
<1>6. /\ busy \in 0 .. EncodeIrqs
      /\ timing_state \in TimingStates
      /\ VerticalRepeat \in Nat /\ EncodeIrqs \in Nat
  BY TimingAssumption, EncodeAssumption DEF TypeOK
<1>7. Len(q_tmds_valid) <= 2 /\ Len(q_colour_valid) <= 2
  BY <1>1, <1>2
<1>8. Len(q_tmds_valid) < 2 => Working
  <2>0. Encoding = 0 \/ Encoding = 1
    BY DEF Encoding
  <2>1. Encoding = 0 => Len(q_tmds_valid) + Len(q_colour_valid) = 2
    BY <1>1, <1>2
  <2>2. QED
    BY <1>1, <1>3, <1>4, <2>1, <2>0
<1>9. QED
  BY <1>1, <1>2, <1>4, <1>5, <1>6, <1>7, <1>8

\* An encoder that has a row to work on finds what it needs at once.
LEMMA NeverWaits ==
  ASSUME InTime, TypeOK, BufferConservation, LinesAccounted, InTimeInv, Working
  PROVE  Runnable
<1>1. /\ Len(q_tmds_valid) \in Nat /\ Len(q_tmds_valid) <= 2
      /\ Len(q_colour_valid) \in Nat /\ Len(q_colour_valid) <= 2
      /\ Encoding \in Nat
      /\ Len(q_tmds_valid) + Encoding + Len(q_colour_valid) = 2
      /\ Len(q_colour_free) \in Nat
      /\ QueueCapacity \in Nat /\ QueueCapacity >= 3
  BY InTimeTypes, QueueAssumption DEF InTimeInv, InTime
<1>2. CASE encoder.pc = "colour"
  BY <1>2 DEF Working, Runnable
<1>3. CASE encoder.pc = "tmds"
  <2>1. Len(q_tmds_valid) <= 1
    BY <1>1, <1>3 DEF Encoding
  <2>2. Held(encoder.tmdsbuf) = 0
    BY <1>3, EncoderFacts, HeldFacts
  <2>3. /\ Held(tmds_buf_release[0]) + Held(tmds_buf_release[1]) <= 1
        /\ Held(tmds_buf_release[0]) \in Nat /\ Held(tmds_buf_release[1]) \in Nat
    BY DEF InTimeInv, ReleaseOnce, Held
  <2>4. Len(q_tmds_free) \in Nat /\ BufferCount \in Nat /\ BufferCount >= 3
    BY LenProperties, QueueAssumption DEF TypeOK, InTime
  <2>5. Len(q_tmds_free) > 0
    BY <1>1, <2>1, <2>2, <2>3, <2>4 DEF BufferConservation
  <2>6. QED
    BY <1>3, <2>5, EmptySeq DEF Runnable
<1>4. CASE encoder.pc = "encode"
  <2>1. Len(q_tmds_valid) < QueueCapacity
    BY <1>1
  <2>2. QED
    BY <1>4, <2>1 DEF Runnable
<1>5. CASE encoder.pc = "return"
  <2>1. Len(q_colour_free) + 1 <= Len(q_tmds_valid)
    BY <1>5 DEF InTimeInv, Returned, Returning
  <2>2. Len(q_colour_free) < QueueCapacity
    BY <1>1, <2>1
  <2>3. QED
    BY <1>5, <2>2 DEF Runnable
<1>6. QED
  BY <1>2, <1>3, <1>4, <1>5, EncoderFacts

\* So an interrupt that chooses a row for the next scanline finds one, and
\* one that takes it leaves the row that is being handed back.
LEMMA RowInTime ==
  ASSUME InTime, TypeOK, BufferConservation, LinesAccounted, InTimeInv,
         Runnable => busy < EncodeIrqs,
         NEW t, t = Advanced(timing_state), t.v_state = "active"
  PROVE  /\ Len(q_tmds_valid) >= 1
         /\ ConsumesRow(t) => Len(q_tmds_valid) >= 1 + Returning
<1>1. /\ Len(q_tmds_valid) \in Nat /\ Len(q_tmds_valid) <= 2
      /\ Len(q_tmds_valid) < 2 => Working
      /\ Returning \in {0, 1} /\ (Returning = 1 => Working)
      /\ Len(q_colour_free) \in Nat
      /\ busy \in 0 .. EncodeIrqs
      /\ VerticalRepeat \in Nat /\ VerticalRepeat >= 2 /\ EncodeIrqs \in Nat
      /\ timing_state \in TimingStates
  BY InTimeTypes DEF InTimeInv, InTime
<1>2. Working => busy < EncodeIrqs
  BY NeverWaits
<1>3. Len(q_tmds_valid) = 0 => Returning = 0
  BY <1>1 DEF InTimeInv, Returned
<1>4. /\ ToConsume(timing_state) \in Nat
      /\ ToConsume(timing_state) <= VerticalRepeat
      /\ ConsumesRow(t) => ToConsume(timing_state) = 1
  BY <1>1, ConsumeFacts
<1>5. ASSUME Len(q_tmds_valid) = 0 PROVE FALSE
  <2>1. EncodeIrqs - busy <= ToConsume(timing_state) + (0 - 1 - 0) * VerticalRepeat
    BY <1>1, <1>3, <1>5 DEF InTimeInv, Timely
  <2>2. (0 - 1 - 0) * VerticalRepeat = 0 - VerticalRepeat
    BY <1>1
  <2>3. QED
    BY <1>1, <1>2, <1>4, <1>5, <2>1, <2>2
<1>6. ASSUME ConsumesRow(t), Returning = 1, Len(q_tmds_valid) = 1 PROVE FALSE
  <2>1. EncodeIrqs - busy <= 1 + (1 - 1 - 1) * VerticalRepeat
    BY <1>1, <1>4, <1>6 DEF InTimeInv, Timely
  <2>2. (1 - 1 - 1) * VerticalRepeat = 0 - VerticalRepeat
    BY <1>1
  <2>3. QED
    BY <1>1, <1>2, <1>6, <2>1, <2>2
<1>7. Len(q_tmds_valid) >= 1
  BY <1>1, <1>5
<1>8. ASSUME ConsumesRow(t) PROVE Len(q_tmds_valid) >= 1 + Returning
  <2>1. CASE Returning = 0
    BY <1>1, <1>7, <2>1
  <2>2. CASE Returning = 1
    <3>1. Len(q_tmds_valid) # 1
      BY <1>6, <1>8, <2>2
    <3>2. Len(q_tmds_valid) \in Nat
      BY <1>1
    <3>3. \A n \in Nat : n >= 1 /\ n # 1 => n >= 1 + 1
      OBVIOUS
    <3>4. Len(q_tmds_valid) >= 1 + 1
      BY <1>7, <3>1, <3>2, <3>3, Zenon
    <3>5. QED
      BY <2>2, <3>4, Zenon
  <2>3. QED
    BY <1>1, <2>1, <2>2
<1>9. QED
  BY <1>7, <1>8

LEMMA InitInTime == InTime /\ Init => InTimeInv
<1> SUFFICES ASSUME InTime, Init PROVE InTimeInv
  OBVIOUS
<1>1. /\ late_scanline_ctr = 0 /\ busy = 0 /\ timing_state = FirstLine
      /\ scan.next.buf = NoBuf /\ scan.next.at = FirstLine
      /\ encoder.pc = "colour"
      /\ tmds_buf_release[0] = NoBuf /\ tmds_buf_release[1] = NoBuf
  BY DEF Init
<1>2. Len(q_tmds_valid) = 0 /\ Len(q_colour_free) = 0 /\ Returning = 0
  BY <1>1 DEF Init, Returning
<1>3. FirstLine.v_state = "front_porch" /\ FirstLine.v_ctr = 0
  BY DEF FirstLine
<1>4. EncodeIrqs - 0 <= ToConsume(FirstLine) + (0 - 1 - 0) * VerticalRepeat
  <2>1. ToConsume(FirstLine) = Blank - 1 - 0 + VerticalRepeat
    BY <1>3 DEF ToConsume
  <2>2. VerticalRepeat \in Nat /\ EncodeIrqs \in Nat /\ Blank \in Nat /\ EncodeIrqs < Blank
    BY TimingAssumption, EncodeAssumption DEF Blank, InTime
  <2>3. (0 - 1 - 0) * VerticalRepeat = 0 - VerticalRepeat
    BY <2>2
  <2>4. QED
    BY <2>1, <2>2, <2>3
<1>5. QED
  BY <1>1, <1>2, <1>3, <1>4
  DEF InTimeInv, NeverLate, Timely, Returned, ReleaseOnce

LEMMA EncoderInTime ==
  ASSUME InTime, TypeOK, LinesAccounted, InTimeInv, Encoder
  PROVE  InTimeInv'
<1>1. /\ UNCHANGED <<late_scanline_ctr, scan, tmds_buf_release, timing_state>>
      /\ NeverLate /\ Timely /\ Returned /\ ReleaseOnce
  BY DEF Encoder, TakeRow, TakeBuffer, PublishBuffer, ReturnRow, irqVars, InTimeInv
<1>2. NeverLate' /\ ReleaseOnce'
  BY <1>1 DEF NeverLate, ReleaseOnce
<1>3. /\ Len(q_tmds_valid) \in Nat
      /\ Len(q_colour_free) \in Nat
      /\ busy \in 0 .. EncodeIrqs
      /\ VerticalRepeat \in Nat /\ EncodeIrqs \in Nat
      /\ timing_state \in TimingStates
  BY InTimeTypes, <1>1
<1>4. CASE TakeRow
  <2>1. /\ Working /\ Returning = 0 /\ Returning' = 0
        /\ UNCHANGED <<q_tmds_valid, q_colour_free, busy>>
    BY <1>4, EncoderFacts DEF TakeRow, Working, Returning
  <2>2. QED
    BY <1>1, <1>2, <2>1 DEF InTimeInv, Timely, Returned
<1>5. CASE TakeBuffer
  <2>1. /\ Working /\ Returning = 0 /\ Returning' = 0
        /\ UNCHANGED <<q_tmds_valid, q_colour_free, busy>>
    BY <1>5, EncoderFacts DEF TakeBuffer, Working, Returning
  <2>2. QED
    BY <1>1, <1>2, <2>1 DEF InTimeInv, Timely, Returned
<1>6. CASE PublishBuffer
  <2>1. /\ Working /\ Returning = 0 /\ Returning' = 1
        /\ UNCHANGED <<q_colour_free, busy>>
    BY <1>6, EncoderFacts DEF PublishBuffer, Working, Returning
  <2>2. Len(q_tmds_valid') = Len(q_tmds_valid) + 1
    BY <1>6, EncoderFacts, AppendProperties DEF PublishBuffer, TypeOK
  <2>3. Len(q_tmds_valid) + 1 - 1 - 1 = Len(q_tmds_valid) - 1 - 0
    BY <1>3
  <2>4. Timely'
    BY <1>1, <2>1, <2>2, <2>3 DEF Timely
  <2>5. Len(q_colour_free) + 1 <= Len(q_tmds_valid) + 1
    BY <1>1, <1>3, <2>1 DEF Returned
  <2>6. Returned'
    BY <2>1, <2>2, <2>5 DEF Returned
  <2>7. QED
    BY <1>2, <2>4, <2>6 DEF InTimeInv
<1>7. CASE ReturnRow
  <2>1. /\ Working /\ Returning = 1 /\ Returning' = 0
        /\ UNCHANGED q_tmds_valid
        /\ busy' = 0
    BY <1>7, EncoderFacts DEF ReturnRow, Working, Returning
  <2>2. Len(q_colour_free') = Len(q_colour_free) + 1
    BY <1>7, EncoderFacts, AppendProperties DEF ReturnRow, TypeOK
  <2>3. Returned'
    <3>1. Len(q_colour_free) + 1 + 0 <= Len(q_tmds_valid)
      BY <1>1, <1>3, <2>1 DEF Returned
    <3>2. QED
      BY <2>1, <2>2, <3>1 DEF Returned
  <2> DEFINE lv == Len(q_tmds_valid)
             tc == ToConsume(timing_state)
  <2>4. EncodeIrqs - busy <= tc + (lv - 1 - 1) * VerticalRepeat
    BY <1>1, <2>1 DEF Timely
  <2>5. lv \in Nat /\ tc \in Nat /\ EncodeIrqs <= VerticalRepeat
    BY <1>3, ConsumeFacts DEF InTime
  <2> HIDE DEF lv, tc
  <2>6. EncodeIrqs - 0 <= tc + (lv - 1 - 0) * VerticalRepeat
    <3>1. (lv - 1 - 0) * VerticalRepeat = (lv - 1 - 1) * VerticalRepeat + VerticalRepeat
      BY <1>3, <2>5
    <3>2. (lv - 1 - 1) * VerticalRepeat \in Int
      BY <1>3, <2>5
    <3>3. QED
      BY <1>3, <2>4, <2>5, <3>1, <3>2
  <2>7. Timely'
    BY <1>1, <2>1, <2>6 DEF Timely, lv, tc
  <2>8. QED
    BY <1>2, <2>3, <2>7 DEF InTimeInv
<1>8. QED
  BY <1>4, <1>5, <1>6, <1>7 DEF Encoder

\* The interrupt, while no row is late: nothing is dropped.
LEMMA IrqRunsInTime ==
  ASSUME InTime, TypeOK, BufferConservation, LinesAccounted, InTimeInv,
         DmaIrq, core1' = "running", NEW t, t = Advanced(timing_state)
  PROVE  /\ HandleScanline(t)
         /\ t.v_state = "active" => RowIsReady
         /\ late_scanline_ctr' = 0
         /\ Len(q_tmds_valid') = Len(q_tmds_valid) - (IF ConsumesRow(t) THEN 1 ELSE 0)
         /\ ConsumesRow(t) => Len(q_tmds_valid) >= 1 + Returning
<1>1. HandleScanline(t) /\ (Runnable => busy < EncodeIrqs)
  BY DEF DmaIrq
<1>2. late_scanline_ctr = 0 /\ Len(q_tmds_valid) \in Nat
  BY LenProperties DEF InTimeInv, NeverLate, TypeOK
<1>3. DropCount = 0
  BY <1>2 DEF DropCount
<1>4. ValidAfterDrop = q_tmds_valid
  BY <1>3, SubSeqFull DEF ValidAfterDrop, TypeOK
<1>5. t.v_state = "active" => Len(q_tmds_valid) >= 1
  BY <1>1, RowInTime
<1>6. t.v_state = "active" => RowIsReady
  BY <1>4, <1>5, ChoiceFacts
<1>7. ConsumesRow(t) => t.v_state = "active" /\ RowIsReady
  BY <1>6 DEF ConsumesRow
<1>8. late_scanline_ctr' = 0
  <2>1. late_scanline_ctr' = LateAfter(t)
    BY <1>1 DEF HandleScanline, SelectScanline
  <2>2. QED
    BY <1>2, <1>3, <1>7, <2>1 DEF LateAfter
<1>9. Len(q_tmds_valid') = Len(q_tmds_valid) - (IF ConsumesRow(t) THEN 1 ELSE 0)
  <2>1. q_tmds_valid' = IF ConsumesRow(t) THEN Tail(q_tmds_valid) ELSE q_tmds_valid
    BY <1>1, <1>4, <1>7 DEF HandleScanline, SelectScanline
  <2>2. ConsumesRow(t) => Len(Tail(q_tmds_valid)) = Len(q_tmds_valid) - 1
    BY <1>4, <1>7, ChoiceFacts
  <2>3. QED
    BY <1>2, <2>1, <2>2
<1>10. ConsumesRow(t) => Len(q_tmds_valid) >= 1 + Returning
  BY <1>1, <1>7, RowInTime
<1>11. QED
  BY <1>1, <1>6, <1>8, <1>9, <1>10

\* The time one interrupt takes off, and the time the next row brings.
LEMMA IrqTimely ==
  ASSUME InTime, TypeOK, BufferConservation, LinesAccounted, InTimeInv,
         DmaIrq, core1' = "running", NEW t, t = Advanced(timing_state)
  PROVE  Timely'
<1> DEFINE valid == Len(q_tmds_valid)
           left == ToConsume(timing_state)
           more == ToConsume(t)
           spent == busy'
<1>1. /\ valid \in Nat
      /\ valid < 2 => Working
      /\ Returning \in {0, 1} /\ (Returning = 1 => Working)
      /\ busy \in Nat
      /\ VerticalRepeat \in Nat /\ VerticalRepeat >= 2 /\ EncodeIrqs \in Nat
      /\ EncodeIrqs <= VerticalRepeat
      /\ timing_state \in TimingStates
  BY InTimeTypes DEF InTimeInv, InTime
<1>2. /\ left \in Nat /\ more \in Nat
      /\ ~ConsumesRow(t) => more = left - 1
      /\ ConsumesRow(t) => left = 1 /\ more >= VerticalRepeat
  <2>1. t \in TimingStates
    BY <1>1, AdvanceType
  <2>2. QED
    BY <1>1, <2>1, ConsumeFacts
<1>3. /\ HandleScanline(t)
      /\ Len(q_tmds_valid') = valid - (IF ConsumesRow(t) THEN 1 ELSE 0)
  BY IrqRunsInTime
<1>4. /\ timing_state' = t /\ encoder' = encoder /\ Returning' = Returning
      /\ Working => spent = busy + 1
  BY <1>3, NeverWaits DEF HandleScanline, DmaIrq, threadVars, Returning
<1>5. spent \in Nat
  BY IrqType DEF TypeOK
<1>6. Working => EncodeIrqs - busy <= left + (valid - 1 - Returning) * VerticalRepeat
  BY DEF InTimeInv, Timely
<1>7. SUFFICES ASSUME Working'
               PROVE  EncodeIrqs - spent <= more + (Len(q_tmds_valid') - 1 - Returning) * VerticalRepeat
  BY <1>4 DEF Timely
<1>8. CASE ~ConsumesRow(t)
  <2>1. Working
    BY <1>3, <1>4, <1>7, <1>8 DEF HandleScanline, ScanlineCallback, CallsBack, ConsumesRow, Working
  <2>2. Len(q_tmds_valid') = valid
    BY <1>1, <1>3, <1>8
  <2>3. /\ spent = busy + 1 /\ more = left - 1
        /\ EncodeIrqs - busy <= left + (valid - 1 - Returning) * VerticalRepeat
    BY <1>2, <1>4, <1>6, <1>8, <2>1
  <2>4. (valid - 1 - Returning) * VerticalRepeat \in Int
    BY <1>1
  <2> HIDE DEF valid, left, more, spent
  <2>5. EncodeIrqs - spent <= more + (valid - 1 - Returning) * VerticalRepeat
    BY <1>1, <1>2, <2>3, <2>4
  <2>6. QED
    BY <2>2, <2>5
<1>9. CASE ConsumesRow(t)
  <2>1. Len(q_tmds_valid') = valid - 1 /\ more >= VerticalRepeat /\ left = 1
    BY <1>2, <1>3, <1>9
  <2>2. CASE Working
    <3>1. /\ spent = busy + 1
          /\ EncodeIrqs - busy <= left + (valid - 1 - Returning) * VerticalRepeat
      BY <1>4, <1>6, <2>2
    <3>2. /\ (valid - 1 - Returning) * VerticalRepeat \in Int
          /\ (valid - 1 - 1 - Returning) * VerticalRepeat
               = (valid - 1 - Returning) * VerticalRepeat - VerticalRepeat
      BY <1>1
    <3> HIDE DEF valid, left, more, spent
    <3>3. EncodeIrqs - spent <= more + (valid - 1 - 1 - Returning) * VerticalRepeat
      BY <1>1, <1>2, <2>1, <3>1, <3>2
    <3>4. QED
      BY <2>1, <3>3
  <2>3. CASE ~Working
    <3>1. Returning = 0 /\ valid >= 2
      BY <1>1, <2>3
    <3>2. (valid - 1 - 1 - 0) * VerticalRepeat \in Nat
      BY <1>1, <3>1
    <3> HIDE DEF valid, left, more, spent
    <3>3. EncodeIrqs - spent <= more + (valid - 1 - 1 - 0) * VerticalRepeat
      BY <1>1, <1>2, <1>5, <2>1, <3>2
    <3>4. QED
      BY <2>1, <3>1, <3>3
  <2>4. QED
    BY <2>2, <2>3
<1>10. QED
  BY <1>8, <1>9

LEMMA IrqInTime ==
  ASSUME InTime, TypeOK, BufferConservation, LinesAccounted, InTimeInv, DmaIrq
  PROVE  InTimeInv'
<1> DEFINE t == Advanced(timing_state)
<1>1. CASE core1' # "running"
  BY <1>1 DEF DmaIrq, queues, irqVars, threadVars, InTimeInv, NeverLate, Timely,
              Returned, ReleaseOnce, Working, Returning
<1>2. CASE core1' = "running"
  <2>1. Timely'
    BY <1>2, IrqTimely
  <2>2. /\ HandleScanline(t)
        /\ t.v_state = "active" => RowIsReady
        /\ late_scanline_ctr' = 0
        /\ Len(q_tmds_valid') = Len(q_tmds_valid) - (IF ConsumesRow(t) THEN 1 ELSE 0)
        /\ ConsumesRow(t) => Len(q_tmds_valid) >= 1 + Returning
    BY <1>2, IrqRunsInTime
  <2>3. /\ timing_state \in TimingStates
        /\ Returning \in {0, 1}
        /\ Len(q_tmds_valid) \in Nat
        /\ VerticalRepeat >= 2
    BY InTimeTypes DEF InTimeInv, InTime
  <2>4. ConsumesRow(timing_state) => ~ConsumesRow(t)
    BY <2>3, ConsumeFacts
  <2> HIDE DEF t
  <2>5. NeverLate'
    <3>1. scan'.next.at = t /\ scan'.next.buf = Selected(t)
      BY <2>2 DEF HandleScanline, SelectScanline
    <3>2. t.v_state = "active" => Selected(t) # NoBuf
      <4>1. RowIsReady => Head(ValidAfterDrop) \in Buffers
        BY DropFacts, HeadTailProperties DEF RowIsReady
      <4>2. QED
        BY <2>2, <4>1, HeldFacts DEF Selected
    <3>3. QED
      BY <2>2, <3>1, <3>2 DEF NeverLate
  <2>6. Returned'
    <3>1. Returning' = Returning
      BY DEF DmaIrq, threadVars, Returning
    <3>2. CASE ConsumesRow(t)
      <4>1. q_colour_free' = << >>
        BY <2>2, <3>2 DEF HandleScanline, ScanlineCallback, CallsBack, ConsumesRow
      <4>2. 0 + Returning <= Len(q_tmds_valid) - 1
        BY <2>2, <2>3, <3>2
      <4>3. QED
        BY <2>2, <2>3, <3>1, <3>2, <4>1, <4>2 DEF Returned
    <3>3. CASE ~ConsumesRow(t)
      <4>1. q_colour_free' = q_colour_free
        BY <2>2, <3>3 DEF HandleScanline, ScanlineCallback, CallsBack, ConsumesRow
      <4>2. Len(q_tmds_valid') = Len(q_tmds_valid)
        BY <2>2, <2>3, <3>3
      <4>3. QED
        BY <3>1, <4>1, <4>2 DEF Returned, InTimeInv
    <3>4. QED
      BY <3>2, <3>3
  <2>7. ReleaseOnce'
    <3>1. /\ tmds_buf_release'[1] = tmds_buf_release[0]
          /\ tmds_buf_release'[0] = Consumed(t)
          /\ timing_state' = t
      BY <2>2 DEF HandleScanline, SelectScanline, ReleaseAfter
    <3>2. Consumed(t) # NoBuf => ConsumesRow(t)
      BY ChoiceFacts
    <3>4. (ConsumesRow(timing_state))' <=> ConsumesRow(t)
      BY <3>1 DEF ConsumesRow, IsLastRepeat
    <3>5. QED
      BY <2>4, <3>1, <3>2, <3>4 DEF ReleaseOnce, InTimeInv
  <2>8. QED
    BY <2>1, <2>5, <2>6, <2>7 DEF InTimeInv
<1>3. QED
  BY <1>1, <1>2

LEMMA StepInTime ==
  InTime /\ TypeOK /\ BufferConservation /\ LinesAccounted /\ InTimeInv /\ [Next]_vars
    => InTimeInv'
<1>1. CASE UNCHANGED vars
  BY <1>1 DEF vars, queues, irqVars, threadVars, InTimeInv, NeverLate, Timely,
              Returned, ReleaseOnce, Working, Returning
<1>2. QED
  BY <1>1, EncoderInTime, IrqInTime DEF Next, Encoder

(* An encoder that is fast enough is never late: no row is missed, and no  *)
(* scanline of the picture is sent in the solid colour, whatever the order *)
(* of the interrupts and of the encoder's steps.                           *)
THEOREM InTimeNeverLate == ASSUME InTime PROVE Spec => []NeverLate
<1>1. Init => InTimeInv
  BY InitInTime
<1>2. TypeOK /\ BufferConservation /\ LinesAccounted /\ InTimeInv /\ [Next]_vars
        => InTimeInv'
  BY StepInTime
<1>3. InTimeInv => NeverLate
  BY DEF InTimeInv
<1>4. QED
  BY <1>1, <1>2, <1>3, TypeCorrect, Conservation, Accounting, PTL DEF Spec

(* ... and core 1 never waits inside its interrupt for the thread that the *)
(* interrupt holds up.                                                     *)
THEOREM InTimeNoHang == ASSUME InTime PROVE Spec => []NoHang
<1>1. Init => NoHang
  BY DEF Init, NoHang
<1>2. TypeOK /\ BufferConservation /\ LinesAccounted /\ NeverLate /\ NoHang
        /\ [Next]_vars => NoHang'
  <2> SUFFICES ASSUME TypeOK, BufferConservation, LinesAccounted, NeverLate,
                      NoHang, [Next]_vars
               PROVE  NoHang'
    OBVIOUS
  <2>1. Len(q_colour_valid) # QueueCapacity
    <3>1. Len(q_colour_valid) \in Nat /\ Len(q_colour_valid) <= 2
      BY InTimeTypes
    <3>2. QueueCapacity \in Nat /\ QueueCapacity >= 3
      BY QueueAssumption DEF InTime
    <3>3. QED
      BY <3>1, <3>2
  <2>2. CASE DmaIrq
    BY <2>1, <2>2, RoomToFree DEF DmaIrq, CallbackBlocks, NoHang
  <2>3. CASE Encoder \/ UNCHANGED vars
    BY <2>3 DEF Encoder, TakeRow, TakeBuffer, PublishBuffer, ReturnRow, vars, NoHang
  <2>4. QED
    BY <2>2, <2>3 DEF Next, Encoder
<1>3. QED
  BY <1>1, <1>2, InTimeNeverLate, TypeCorrect, Conservation, Accounting, PTL DEF Spec

-----------------------------------------------------------------------------
(***************************************************************************)
(* Core 0's wait for a frame.  All of the above holds with core 0 beside   *)
(* core 1: it changes nothing that core 1 has.                             *)
(***************************************************************************)
THEOREM PacedIsDvi == PacedSpec => Spec
<1>1. PacedInit => Init
  BY DEF PacedInit
<1>2. [PacedNext]_pacedVars => [Next]_vars
  BY DEF PacedNext, BeginWait, Look, Core1, pacedVars
<1>3. QED
  BY <1>1, <1>2, PTL DEF PacedSpec, Spec

(* ... so with an encoder in time the two cores together are never late.   *)
THEOREM PacedNeverLate == ASSUME InTime PROVE PacedSpec => []NeverLate
  BY PacedIsDvi, InTimeNeverLate, PTL

FrameLines == Blank + ActiveLines

\* The callback toggles vsync_flag when it queues after the first row.
Toggles(t) == t.v_state = "active" /\ t.v_ctr = VerticalRepeat - 1

LEMMA TogglesFacts ==
  ASSUME NEW t \in TimingStates
  PROVE  CallsBack(t) /\ SignalsVsync(t) <=> Toggles(t)
<1>1. VerticalRepeat \in Nat \ {0}
  BY TimingAssumption
<1>2. ASSUME t.v_state = "active", IsLastRepeat(t), RowOf(t) = 0
      PROVE  t.v_ctr = VerticalRepeat - 1
  <2>1. t.v_ctr \in Nat
    BY <1>2, ActiveFacts
  <2>2. t.v_ctr % VerticalRepeat = t.v_ctr - VerticalRepeat * (t.v_ctr \div VerticalRepeat)
    BY <1>1, <2>1, Divided
  <2>3. VerticalRepeat * 0 = 0
    BY <1>1
  <2>4. QED
    BY <1>1, <1>2, <2>1, <2>2, <2>3 DEF IsLastRepeat, RowOf
<1>3. ASSUME t.v_ctr = VerticalRepeat - 1 PROVE IsLastRepeat(t) /\ RowOf(t) = 0
  <2>1. /\ VerticalRepeat - 1 \in Nat
        /\ VerticalRepeat - 1 \in 0 .. VerticalRepeat - 1
        /\ VerticalRepeat - 1 = VerticalRepeat * 0 + (VerticalRepeat - 1)
    BY <1>1
  <2>2. QED
    BY <1>1, <1>3, <2>1, Quotient DEF IsLastRepeat, RowOf
<1>4. QED
  BY <1>2, <1>3 DEF CallsBack, SignalsVsync, Toggles

\* Scanlines since the flag was toggled.
Since(t) ==
  CASE t.v_state = "active" ->
         IF t.v_ctr >= VerticalRepeat - 1 THEN t.v_ctr - (VerticalRepeat - 1)
         ELSE FrameLines - (VerticalRepeat - 1) + t.v_ctr
    [] t.v_state = "front_porch" -> ActiveLines - (VerticalRepeat - 1) + t.v_ctr
    [] t.v_state = "sync"        -> ActiveLines - (VerticalRepeat - 1) + FrontPorch + t.v_ctr
    [] t.v_state = "back_porch"  ->
         ActiveLines - (VerticalRepeat - 1) + FrontPorch + SyncWidth + t.v_ctr

LEMMA SinceFacts ==
  ASSUME NEW t \in TimingStates
  PROVE  LET s == Advanced(t) IN
         /\ Since(t) \in Nat
         /\ Toggles(s) => Since(s) = 0 /\ Since(t) = FrameLines - 1
         /\ ~Toggles(s) => Since(s) = Since(t) + 1
         /\ s # t
<1> DEFINE s == Advanced(t)
<1>1. /\ t = [v_state |-> t.v_state, v_ctr |-> t.v_ctr]
      /\ t.v_state \in VStates
      /\ t.v_ctr \in Nat
      /\ t.v_ctr < LinesIn(t.v_state)
  BY DEF TimingStates
<1>2. /\ VerticalRepeat \in Nat /\ VerticalRepeat >= 1
      /\ ActiveLines \in Nat /\ ActiveLines >= VerticalRepeat
      /\ FrontPorch \in Nat /\ SyncWidth \in Nat /\ BackPorch \in Nat
      /\ FrontPorch > 0 /\ SyncWidth > 0 /\ BackPorch > 0
      /\ FrameLines = FrontPorch + SyncWidth + BackPorch + ActiveLines
  <2>1. VerticalRepeat \in Nat \ {0} /\ FbHeight \in Nat \ {0}
    BY TimingAssumption
  <2>2. ActiveLines >= VerticalRepeat
    BY <2>1, Multiple DEF ActiveLines
  <2>3. QED
    BY <2>1, <2>2, ActiveLinesPositive, TimingAssumption DEF FrameLines, Blank
<1>3. s = IF t.v_ctr + 1 = LinesIn(t.v_state)
          THEN [v_state |-> StateAfter(t.v_state), v_ctr |-> 0]
          ELSE [v_state |-> t.v_state, v_ctr |-> t.v_ctr + 1]
  BY <1>1 DEF Advanced
<1> HIDE DEF s
<1>4. CASE t.v_state = "front_porch"
  <2>1. s = IF t.v_ctr + 1 = FrontPorch THEN [v_state |-> "sync", v_ctr |-> 0]
            ELSE [v_state |-> "front_porch", v_ctr |-> t.v_ctr + 1]
    BY <1>3, <1>4 DEF LinesIn, StateAfter
  <2>2. QED
    BY <1>1, <1>2, <1>4, <2>1 DEF Since, Toggles, s
<1>5. CASE t.v_state = "sync"
  <2>1. s = IF t.v_ctr + 1 = SyncWidth THEN [v_state |-> "back_porch", v_ctr |-> 0]
            ELSE [v_state |-> "sync", v_ctr |-> t.v_ctr + 1]
    BY <1>3, <1>5 DEF LinesIn, StateAfter
  <2>2. QED
    BY <1>1, <1>2, <1>5, <2>1 DEF Since, Toggles, s
<1>6. CASE t.v_state = "back_porch"
  <2>1. s = IF t.v_ctr + 1 = BackPorch THEN [v_state |-> "active", v_ctr |-> 0]
            ELSE [v_state |-> "back_porch", v_ctr |-> t.v_ctr + 1]
    BY <1>3, <1>6 DEF LinesIn, StateAfter
  <2>2. QED
    BY <1>1, <1>2, <1>6, <2>1 DEF Since, Toggles, s
<1>7. CASE t.v_state = "active"
  <2>1. s = IF t.v_ctr + 1 = ActiveLines THEN [v_state |-> "front_porch", v_ctr |-> 0]
            ELSE [v_state |-> "active", v_ctr |-> t.v_ctr + 1]
    BY <1>3, <1>7 DEF LinesIn, StateAfter
  <2>2. t.v_ctr < ActiveLines
    BY <1>1, <1>7 DEF LinesIn
  <2>3. QED
    BY <1>1, <1>2, <1>7, <2>1, <2>2 DEF Since, Toggles, s
<1>8. QED
  BY <1>1, <1>4, <1>5, <1>6, <1>7 DEF VStates, s

\* A wait of a frame or less in which core 0 looks at the flag often enough
\* sees each toggle before there is another.
PacedInv ==
  core0 = "wait" =>
    /\ toggles \in {0, 1} /\ unseen \in Nat /\ unseen <= PollLines
    /\ toggles = 0 <=> vsync_flag = vb
    /\ toggles = 1 => Since(timing_state) < unseen

LEMMA StepPaced ==
  ASSUME PollLines <= FrameLines, TypeOK, vb \in BOOLEAN, PacedInv, [PacedNext]_pacedVars
  PROVE  PacedInv'
<1>1. CASE BeginWait
  BY <1>1, PollAssumption DEF BeginWait, PacedInv, vars, irqVars
<1>2. CASE Look
  <2>1. UNCHANGED <<vsync_flag, timing_state, vb, toggles>>
    BY <1>2 DEF Look, vars, irqVars
  <2>2. SUFFICES ASSUME core0' = "wait" PROVE PacedInv'
    BY DEF PacedInv
  <2>3. core0 = "wait" /\ vsync_flag = vb /\ unseen' = 0
    BY <1>2, <2>2 DEF Look
  <2>4. QED
    BY <2>1, <2>3, PollAssumption DEF PacedInv
<1>3. CASE Core1 /\ core0 = "wait"
  <2> DEFINE t == Advanced(timing_state)
  <2>1. /\ toggles \in {0, 1} /\ unseen \in Nat
        /\ toggles = 0 <=> vsync_flag = vb
        /\ toggles = 1 => Since(timing_state) < unseen
        /\ core0' = core0 /\ vb' = vb
        /\ timing_state' # timing_state => unseen < PollLines
        /\ unseen' = IF timing_state' # timing_state THEN unseen + 1 ELSE unseen
        /\ toggles' = IF vsync_flag' # vsync_flag THEN toggles + 1 ELSE toggles
        /\ unseen <= PollLines
    BY <1>3 DEF Core1, PacedInv
  <2>2. CASE UNCHANGED <<timing_state, vsync_flag>>
    BY <2>1, <2>2 DEF PacedInv
  <2>3. CASE DmaIrq /\ core1' = "running"
    <3>1. /\ timing_state' = t
          /\ vsync_flag' = IF CallsBack(t) /\ SignalsVsync(t) THEN ~vsync_flag ELSE vsync_flag
      BY <2>3 DEF DmaIrq, HandleScanline, ScanlineCallback
    <3>2. timing_state \in TimingStates /\ t \in TimingStates /\ vsync_flag \in BOOLEAN
      BY AdvanceType DEF TypeOK
    <3>3. /\ Since(timing_state) \in Nat
          /\ Toggles(t) => Since(t) = 0 /\ Since(timing_state) = FrameLines - 1
          /\ ~Toggles(t) => Since(t) = Since(timing_state) + 1
          /\ t # timing_state
      BY <3>2, SinceFacts
    <3>4. vsync_flag' = IF Toggles(t) THEN ~vsync_flag ELSE vsync_flag
      BY <3>1, <3>2, TogglesFacts
    <3>5. unseen < PollLines /\ unseen' = unseen + 1
      BY <2>1, <3>1, <3>3
    <3>6. PollLines \in Nat /\ FrameLines \in Nat
      BY PollAssumption, ActiveLinesPositive, TimingAssumption DEF FrameLines, Blank
    <3> HIDE DEF t
    <3>7. CASE Toggles(t)
      <4>1. toggles = 0
        BY <2>1, <3>3, <3>5, <3>6, <3>7
      <4>2. vsync_flag' # vsync_flag
        BY <3>2, <3>4, <3>7
      <4>3. toggles' = 1 /\ vsync_flag' # vb'
        BY <2>1, <4>1, <4>2
      <4>4. Since(t) < unseen'
        BY <2>1, <3>3, <3>5, <3>7
      <4>5. unseen' \in Nat /\ unseen' <= PollLines
        BY <2>1, <3>5, <3>6
      <4>6. QED
        BY <3>1, <4>3, <4>4, <4>5 DEF PacedInv
    <3>8. CASE ~Toggles(t)
      <4>1. vsync_flag' = vsync_flag /\ toggles' = toggles
        BY <2>1, <3>4, <3>8
      <4>2. toggles = 1 => Since(t) < unseen'
        BY <2>1, <3>3, <3>5, <3>8
      <4>3. unseen' \in Nat /\ unseen' <= PollLines
        BY <2>1, <3>5, <3>6
      <4>4. QED
        BY <2>1, <3>1, <4>1, <4>2, <4>3 DEF PacedInv
    <3>9. QED
      BY <3>7, <3>8
  <2>4. QED
    BY <1>3, <2>2, <2>3
    DEF Core1, Next, DmaIrq, TakeRow, TakeBuffer, PublishBuffer, ReturnRow, irqVars
<1>4. CASE Core1 /\ core0 # "wait"
  BY <1>4 DEF Core1, PacedInv
<1>5. CASE UNCHANGED pacedVars
  BY <1>5 DEF pacedVars, pacing, vars, irqVars, PacedInv
<1>6. QED
  BY <1>1, <1>2, <1>3, <1>4, <1>5 DEF PacedNext

(* A wait for a frame ends at the first toggle after it begins, for every  *)
(* core 0 that looks at the flag at least once in the scanlines of a frame *)
(* and whatever core 1 does, late or not.                                  *)
THEOREM WaitsOneFrame == ASSUME PollLines <= FrameLines PROVE PacedSpec => FramePaced
<1>1. PacedInit => PacedInv
  BY DEF PacedInit, PacedInv
<1>2. TypeOK /\ vb \in BOOLEAN /\ PacedInv /\ [PacedNext]_pacedVars => PacedInv'
  BY StepPaced
<1>3. PacedInit => vb \in BOOLEAN
  BY DEF PacedInit
<1>4. TypeOK /\ vb \in BOOLEAN /\ [PacedNext]_pacedVars => (vb \in BOOLEAN)'
  BY DEF PacedNext, BeginWait, Look, Core1, pacedVars, pacing, TypeOK
<1>5. PacedInv /\ [PacedNext]_pacedVars
        => [core0 = "wait" /\ core0' = "frame" => toggles = 1]_pacedVars
  <2> SUFFICES ASSUME PacedInv, PacedNext, core0 = "wait", core0' = "frame"
               PROVE  toggles = 1
    OBVIOUS
  <2>1. vsync_flag # vb
    BY DEF PacedNext, BeginWait, Look, Core1
  <2>2. QED
    BY <2>1 DEF PacedInv
<1>6. QED
  BY <1>1, <1>2, <1>3, <1>4, <1>5, PacedIsDvi, TypeCorrect, PTL DEF PacedSpec, FramePaced
=============================================================================
