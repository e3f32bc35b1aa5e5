-------------------------- MODULE AudioPathProofs --------------------------
(***************************************************************************)
(* What holds of the sound path for rings of every size, every chunk size  *)
(* and every sample rate of at most two samples a line.                    *)
(***************************************************************************)
EXTENDS MCAudioPath, VideoTimingProofs, SequenceTheorems

(***************************************************************************)
(* Ring indexes.                                                           *)
(***************************************************************************)
LEMMA SmallMod ==
  ASSUME NEW n \in Nat \ {0}, NEW a \in Int, -n <= a, a < n
  PROVE  a % n = IF a < 0 THEN a + n ELSE a
  OBVIOUS

LEMMA NextIndex ==
  ASSUME NEW n \in Nat \ {0}, NEW a \in 0 .. n - 1
  PROVE  (a + 1) % n = IF a + 1 = n THEN 0 ELSE a + 1
<1>1. CASE a + 1 = n
  BY <1>1
<1>2. CASE a + 1 # n
  BY <1>2
<1>3. QED
  BY <1>1, <1>2

LEMMA Distance ==
  ASSUME NEW n \in Nat \ {0}, NEW a \in 0 .. n - 1, NEW b \in 0 .. n - 1
  PROVE  /\ (a - b) % n = IF a < b THEN a - b + n ELSE a - b
         /\ (a - b) % n \in 0 .. n - 1
<1> DEFINE d == a - b
<1>1. d \in Int /\ -n <= d /\ d < n
  OBVIOUS
<1>2. d % n = IF d < 0 THEN d + n ELSE d
  <2> HIDE DEF d
  <2> QED
    BY <1>1, SmallMod
<1>3. QED
  BY <1>1, <1>2

LEMMA WholeFacts ==
  ASSUME NEW p \in Nat
  PROVE  /\ WholeSamples(p) \in 0 .. 4
         /\ p - WholeSamples(p) * One \in Nat
         /\ \/ p - WholeSamples(p) * One < One
            \/ WholeSamples(p) = 4
<1> DEFINE q == p \div One
<1>1. q \in Nat /\ q * One <= p /\ p < (q + 1) * One
  BY RateAssumption
<1>2. CASE q < 4
  BY <1>1, <1>2, RateAssumption DEF WholeSamples, Least
<1>3. CASE q >= 4
  BY <1>1, <1>3, RateAssumption DEF WholeSamples, Least
<1>4. QED
  BY <1>1, <1>2, <1>3

-----------------------------------------------------------------------------
(***************************************************************************)
(* The inductive invariant: the types, the loop counters of the three      *)
(* actors within their loops, what each still counts on from the snapshot  *)
(* it took of the other's index, and the place of the position in a frame. *)
(***************************************************************************)
AudioLevel == IF audio_ring.write < audio_ring.read
              THEN audio_ring.write - audio_ring.read + DviRingSize
              ELSE audio_ring.write - audio_ring.read

GameInv ==
  /\ game.pc # "frame" => game.i < game.samples
  /\ game.pc \in {"play", "write", "store", "publish"} =>
       game.j = Least(game.samples - game.i, Chunk)
  /\ game.pc \in {"write", "store", "publish"} => game.k < game.n
  /\ game.pc \in {"render", "play", "write"} => game.k = 0

\* There is still room for the rest of the frame.
RoomInv == game.pc # "frame" => game.samples - game.i - game.k <= FreeSlots

TimerInv ==
  timer.pc # "idle" =>
    /\ 1 <= timer.avail
    /\ timer.done <= timer.avail
    /\ timer.pc = "fill" => timer.done < timer.avail
    /\ audio_ring.write + timer.avail <= DviRingSize
    /\ AudioLevel + timer.avail < DviRingSize

PacketInv ==
  packet.pc = "sample" => /\ packet.i < packet.n
                          /\ packet.read_size - packet.i <= AudioLevel

\* The number of a scanline in its frame, from the first info line.
LineNo(t) == CASE t.v_state = "front_porch" -> t.v_ctr
               [] t.v_state = "sync"        -> FrontPorch + t.v_ctr
               [] t.v_state = "back_porch"  -> FrontPorch + SyncWidth + t.v_ctr
               [] t.v_state = "active"      ->
                    FrontPorch + SyncWidth + BackPorch + t.v_ctr

PositionInv ==
  /\ 0 <= audio_sample_pos
  /\ LineNo(timing_state) = 0 => audio_sample_pos < 3 * One
  /\ LineNo(timing_state) = 1 => audio_sample_pos < 5 * One
  /\ LineNo(timing_state) = 2 => audio_sample_pos < 3 * One
  /\ LineNo(timing_state) > 2 => audio_sample_pos < One

Inv == /\ TypeOK
       /\ GameInv
       /\ RoomInv
       /\ TimerInv
       /\ PacketInv
       /\ NothingCutShort
       /\ PositionInv

-----------------------------------------------------------------------------
(***************************************************************************)
(* Levels of the two rings.                                                *)
(***************************************************************************)
LEMMA SndLevelIs ==
  ASSUME TypeOK
  PROVE  /\ SndLevel = IF snd_wr < snd_rd THEN snd_wr - snd_rd + IndexRange
                       ELSE snd_wr - snd_rd
         /\ SndLevel \in SndIndexes
<1>1. /\ snd_wr \in 0 .. IndexRange - 1
      /\ snd_rd \in 0 .. IndexRange - 1
      /\ IndexRange \in Nat \ {0}
  BY RingAssumption DEF TypeOK, SndIndexes
<1>2. QED
  BY <1>1, Distance DEF SndLevel, SndIndexes

LEMMA AudioLevelIs ==
  ASSUME TypeOK
  PROVE  /\ (audio_ring.write - audio_ring.read) % DviRingSize = AudioLevel
         /\ AudioLevel \in DviIndexes
<1>1. /\ audio_ring.write \in 0 .. DviRingSize - 1
      /\ audio_ring.read \in 0 .. DviRingSize - 1
      /\ DviRingSize \in Nat \ {0}
  BY RingAssumption DEF TypeOK, DviIndexes
<1>2. QED
  BY <1>1, Distance DEF AudioLevel, DviIndexes

LEMMA WriteSizeIs ==
  ASSUME TypeOK
  PROVE  LET avail == WriteSize(audio_ring.read, audio_ring.write) IN
         /\ avail \in Nat
         /\ audio_ring.write + avail <= DviRingSize
         /\ AudioLevel + avail < DviRingSize
<1>1. /\ audio_ring.write \in 0 .. DviRingSize - 1
      /\ audio_ring.read \in 0 .. DviRingSize - 1
      /\ DviRingSize \in Nat \ {0}
  BY RingAssumption DEF TypeOK, DviIndexes
<1>2. QED
  BY <1>1 DEF WriteSize, AudioLevel

LEMMA ReadSizeIs ==
  ASSUME TypeOK
  PROVE  ReadSize(audio_ring.read, audio_ring.write) = AudioLevel
<1>1. /\ audio_ring.write \in 0 .. DviRingSize - 1
      /\ audio_ring.read \in 0 .. DviRingSize - 1
      /\ DviRingSize \in Nat \ {0}
  BY RingAssumption DEF TypeOK, DviIndexes
<1>2. QED
  BY <1>1 DEF ReadSize, AudioLevel

-----------------------------------------------------------------------------
(***************************************************************************)
(* The first state.                                                        *)
(***************************************************************************)
LEMMA InitInv == Init => Inv
<1> SUFFICES ASSUME Init PROVE Inv
  OBVIOUS
<1>1. TypeOK
  <2>1. 0 \in SndIndexes /\ 0 \in DviIndexes /\ 0 \in Samples
    BY RingAssumption, RenderAssumption DEF SndIndexes, DviIndexes, Samples
  <2>2. game \in GameStates
    BY RenderAssumption DEF Init, OutOfFrame, GameStates
  <2>3. timer \in TimerStates
    BY RingAssumption DEF Init, IdleTimer, TimerStates
  <2>4. packet \in PacketStates
    BY RingAssumption DEF Init, NoPacket, PacketStates
  <2>5. timing_state \in TimingStates
    BY FirstLineType DEF Init
  <2>6. since \in 0 .. TimerLines
    BY RateAssumption DEF Init
  <2>7. QED
    BY <2>1, <2>2, <2>3, <2>4, <2>5, <2>6 DEF Init, TypeOK
<1>2. GameInv /\ TimerInv /\ PacketInv
  BY DEF Init, GameInv, TimerInv, PacketInv, OutOfFrame, IdleTimer, NoPacket
<1>3. NothingCutShort
  <2>1. SndLevel = 0
    BY <1>1, SndLevelIs DEF Init
  <2>2. QED
    BY <2>1, RingAssumption DEF Init, NothingCutShort, OutOfFrame
<1> RoomInv
  BY DEF Init, RoomInv, OutOfFrame
<1>4. PositionInv
  BY RateAssumption DEF Init, PositionInv, LineNo, FirstLine
<1>5. QED
  BY <1>1, <1>2, <1>3, <1>4 DEF Inv

-----------------------------------------------------------------------------
(***************************************************************************)
(* The game loop.                                                          *)
(***************************************************************************)
LEMMA LevelSteps ==
  ASSUME TypeOK, NothingCutShort
  PROVE  /\ SndLevel \in 0 .. SndRingSize
         /\ FreeSlots \in 0 .. SndRingSize
         /\ SndLevel < SndRingSize
              => (((snd_wr + 1) % IndexRange) - snd_rd) % IndexRange = SndLevel + 1
         /\ snd_rd # snd_wr
              => (snd_wr - ((snd_rd + 1) % IndexRange)) % IndexRange = SndLevel - 1
<1>1. /\ snd_wr \in 0 .. IndexRange - 1
      /\ snd_rd \in 0 .. IndexRange - 1
      /\ IndexRange \in Nat \ {0}
      /\ SndRingSize \in Nat /\ SndRingSize < IndexRange
  BY RingAssumption DEF TypeOK, SndIndexes
<1>2. SndLevel \in 0 .. SndRingSize /\ FreeSlots \in 0 .. SndRingSize
  BY <1>1, SndLevelIs DEF NothingCutShort, FreeSlots, SndIndexes
<1>3. ASSUME SndLevel < SndRingSize
      PROVE  (((snd_wr + 1) % IndexRange) - snd_rd) % IndexRange = SndLevel + 1
  <2> DEFINE w == (snd_wr + 1) % IndexRange
  <2>1. w = IF snd_wr + 1 = IndexRange THEN 0 ELSE snd_wr + 1
    BY <1>1, NextIndex
  <2>2. w \in 0 .. IndexRange - 1
    BY <1>1, <2>1
  <2>3. (w - snd_rd) % IndexRange = IF w < snd_rd THEN w - snd_rd + IndexRange
                                    ELSE w - snd_rd
    <3> HIDE DEF w
    <3> QED
      BY <1>1, <2>2, Distance
  <2>4. QED
    BY <1>1, <1>3, <2>1, <2>2, <2>3, SndLevelIs
<1>4. ASSUME snd_rd # snd_wr
      PROVE  (snd_wr - ((snd_rd + 1) % IndexRange)) % IndexRange = SndLevel - 1
  <2> DEFINE r == (snd_rd + 1) % IndexRange
  <2>1. r = IF snd_rd + 1 = IndexRange THEN 0 ELSE snd_rd + 1
    BY <1>1, NextIndex
  <2>2. r \in 0 .. IndexRange - 1
    BY <1>1, <2>1
  <2>3. (snd_wr - r) % IndexRange = IF snd_wr < r THEN snd_wr - r + IndexRange
                                    ELSE snd_wr - r
    <3> HIDE DEF r
    <3> QED
      BY <1>1, <2>2, Distance
  <2>4. QED
    BY <1>1, <1>4, <2>1, <2>2, <2>3, SndLevelIs
<1>5. QED
  BY <1>2, <1>3, <1>4

\* A step of the game loop that leaves the rings alone.
GameUnchanged == UNCHANGED <<snd_wr, snd_rd, audio_ring, timer, core1Vars, since>>

LEMMA GameLoopRest ==
  ASSUME Inv, GameUnchanged
  PROVE  /\ (TimerInv /\ PacketInv /\ PositionInv)'
         /\ SndLevel' = SndLevel
         /\ FreeSlots' = FreeSlots
  BY DEF Inv, GameUnchanged, core1Vars, TimerInv, PacketInv, PositionInv,
         SndLevel, FreeSlots, AudioLevel

LEMMA StartFrameInv == Inv /\ StartFrame => Inv'
<1> SUFFICES ASSUME Inv, StartFrame PROVE Inv'
  OBVIOUS
<1>1. GameUnchanged /\ UNCHANGED <<snd_ring, rendered>>
  BY DEF StartFrame, soundVars, GameUnchanged
<1>2. /\ FreeSlots \in 0 .. SndRingSize
      /\ FreeSlots > 0
  BY LevelSteps DEF Inv, StartFrame
<1>3. game' = [pc |-> "render", samples |-> Least(FrameSamples, FreeSlots),
               i |-> 0, j |-> 0, n |-> 0, k |-> 0]
  BY DEF StartFrame, OutOfFrame
<1> /\ Least(FrameSamples, FreeSlots) \in 1 .. FrameSamples
    /\ Least(FrameSamples, FreeSlots) <= FreeSlots
  BY <1>2, RenderAssumption, RingAssumption DEF Least
<1>4. TypeOK'
  <2>1. game' \in GameStates
    BY <1>3, RenderAssumption DEF GameStates
  <2>2. QED
    BY <1>1, <2>1 DEF Inv, TypeOK, GameUnchanged, core1Vars
<1>5. GameInv' /\ NothingCutShort' /\ RoomInv'
  BY <1>1, <1>2, <1>3, GameLoopRest DEF Inv, GameInv, NothingCutShort, RoomInv
<1>6. QED
  BY <1>1, <1>4, <1>5, GameLoopRest DEF Inv

LEMMA RenderChunkInv == Inv /\ RenderChunk => Inv'
<1> SUFFICES ASSUME Inv, RenderChunk PROVE Inv'
  OBVIOUS
<1> DEFINE j == Least(game.samples - game.i, Chunk)
<1>1. GameUnchanged /\ UNCHANGED snd_ring
  BY DEF RenderChunk, soundVars, GameUnchanged
<1>2. /\ game \in GameStates
      /\ game.pc = "render"
      /\ game.i < game.samples
      /\ FreeSlots \in 0 .. SndRingSize
  BY LevelSteps DEF Inv, TypeOK, GameInv, RenderChunk, InGameLoop
<1>3. j \in 1 .. Chunk
  BY <1>2, RenderAssumption DEF GameStates, Least
<1>4. game' = [game EXCEPT !.pc = "play", !.j = j]
  BY DEF RenderChunk
<1> /\ game'.pc = "play" /\ game'.j = j /\ game'.samples = game.samples
    /\ game'.i = game.i /\ game'.n = game.n /\ game'.k = 0
  BY <1>2, <1>4 DEF GameStates, Inv, GameInv
<1>5. TypeOK'
  <2>1. game' \in GameStates
    <3>1. j \in 0 .. Chunk
      BY <1>3, RenderAssumption
    <3> HIDE DEF j
    <3>2. QED
      BY <1>2, <1>4, <3>1 DEF GameStates
  <2>2. rendered' \in Samples
    BY <1>3, RenderAssumption DEF RenderChunk, Inv, TypeOK, Samples
  <2>3. QED
    BY <1>1, <2>1, <2>2 DEF Inv, TypeOK, GameUnchanged, core1Vars
<1>6. GameInv'
  BY <1>2 DEF GameInv
<1>7. RoomInv' /\ NothingCutShort'
  <2>1. j <= game.samples - game.i
    BY <1>2, RenderAssumption DEF GameStates, Least
  <2>2. game.samples - game.i <= FreeSlots
    BY <1>2 DEF Inv, GameInv, RoomInv, GameStates
  <2>3. /\ game.samples \in Int /\ game.i \in Int
    BY <1>2 DEF GameStates
  <2>4. j \in Int /\ FreeSlots \in Int
    BY <1>2, <1>3
  <2>5. j <= FreeSlots
    <3> HIDE DEF j
    <3> QED
      BY <2>1, <2>2, <2>3, <2>4
  <2>6. QED
    BY <1>1, <2>2, <2>3, <2>5, GameLoopRest DEF Inv, RoomInv, NothingCutShort
<1>8. QED
  BY <1>1, <1>5, <1>6, <1>7, GameLoopRest DEF Inv

\* What is known inside PlayAudio.
LEMMA InChunk ==
  ASSUME Inv, game.pc \in {"play", "write", "store", "publish"}
  PROVE  /\ game \in GameStates
         /\ game.j \in 1 .. Chunk
         /\ game.i + game.j <= game.samples
         /\ FreeSlots \in 0 .. SndRingSize
         /\ game.j - game.k <= FreeSlots
         /\ game.k < game.j
<1>1. /\ game \in GameStates
      /\ game.i < game.samples
      /\ game.j = Least(game.samples - game.i, Chunk)
      /\ FreeSlots \in 0 .. SndRingSize
      /\ game.samples - game.i - game.k <= FreeSlots
  BY LevelSteps DEF Inv, TypeOK, GameInv, RoomInv
<1>2. game.j \in 1 .. Chunk /\ game.i + game.j <= game.samples
  BY <1>1, RenderAssumption DEF GameStates, Least
<1>3. game.k < game.j
  BY <1>1, <1>2 DEF Inv, GameInv, NothingCutShort, GameStates
<1>4. QED
  BY <1>1, <1>2, <1>3, RingAssumption DEF GameStates

LEMMA OutOfFrameType == OutOfFrame \in GameStates
  BY RenderAssumption DEF OutOfFrame, GameStates

LEMMA PlayChunkInv == Inv /\ PlayChunk => Inv'
<1> SUFFICES ASSUME Inv, PlayChunk PROVE Inv'
  OBVIOUS
<1>1. GameUnchanged /\ UNCHANGED <<snd_ring, rendered>>
  BY DEF PlayChunk, soundVars, GameUnchanged
<1>2. game.pc = "play" /\ game.k = 0
  BY DEF PlayChunk, InGameLoop, Inv, GameInv
<1>3. /\ game \in GameStates
      /\ game.j \in 1 .. Chunk
      /\ FreeSlots \in 0 .. SndRingSize
      /\ game.j <= FreeSlots
  BY <1>2, InChunk
<1>4. game' = [game EXCEPT !.pc = "write", !.n = game.j]
  <2>1. FreeSlots # 0 /\ Least(game.j, FreeSlots) = game.j
    BY <1>3, RingAssumption, RenderAssumption DEF Least
  <2>2. QED
    BY <2>1 DEF PlayChunk
<1>5. game' \in GameStates
  <2>1. game.j \in 0 .. Chunk
    BY <1>3 DEF GameStates
  <2>2. QED
    BY <1>3, <1>4, <2>1 DEF GameStates
<1>6. /\ game'.pc = "write" /\ game'.n = game.j /\ game'.j = game.j
      /\ game'.samples = game.samples /\ game'.i = game.i /\ game'.k = game.k
  BY <1>3, <1>4 DEF GameStates
<1>7. TypeOK'
  BY <1>1, <1>5 DEF Inv, TypeOK, GameUnchanged, core1Vars
<1>8. GameInv' /\ RoomInv' /\ NothingCutShort'
  BY <1>1, <1>2, <1>3, <1>6, GameLoopRest, RenderAssumption
     DEF Inv, GameInv, RoomInv, NothingCutShort
<1>9. QED
  BY <1>1, <1>7, <1>8, GameLoopRest DEF Inv

LEMMA WriteChunkInv == Inv /\ WriteChunk => Inv'
<1> SUFFICES ASSUME Inv, WriteChunk PROVE Inv'
  OBVIOUS
<1>1. GameUnchanged /\ UNCHANGED <<snd_ring, rendered>>
  BY DEF WriteChunk, soundVars, GameUnchanged
<1>2. game.pc = "write" /\ game.k = 0 /\ game.n = game.j
  BY DEF WriteChunk, InGameLoop, Inv, GameInv, NothingCutShort
<1>3. /\ game \in GameStates
      /\ game.j \in 1 .. Chunk
      /\ FreeSlots \in 0 .. SndRingSize
      /\ game.j <= FreeSlots
  BY <1>2, InChunk
<1>4. game' = [game EXCEPT !.pc = "store", !.n = game.n, !.k = 0]
  <2>1. FreeSlots # 0 /\ Least(game.n, FreeSlots) = game.n
    BY <1>2, <1>3, RingAssumption, RenderAssumption DEF Least
  <2>2. QED
    BY <2>1 DEF WriteChunk
<1>5. game' \in GameStates
  <2>1. game.n \in 0 .. Chunk /\ 0 \in 0 .. Chunk
    BY <1>3, RenderAssumption DEF GameStates
  <2>2. QED
    BY <1>3, <1>4, <2>1 DEF GameStates
<1>6. /\ game'.pc = "store" /\ game'.n = game.n /\ game'.j = game.j
      /\ game'.samples = game.samples /\ game'.i = game.i /\ game'.k = 0
  BY <1>3, <1>4 DEF GameStates
<1>7. TypeOK'
  BY <1>1, <1>5 DEF Inv, TypeOK, GameUnchanged, core1Vars
<1>8. GameInv' /\ RoomInv' /\ NothingCutShort'
  BY <1>1, <1>2, <1>3, <1>6, GameLoopRest, RenderAssumption
     DEF Inv, GameInv, RoomInv, NothingCutShort
<1>9. QED
  BY <1>1, <1>7, <1>8, GameLoopRest DEF Inv

LEMMA StoreSampleInv == Inv /\ StoreSample => Inv'
<1> SUFFICES ASSUME Inv, StoreSample PROVE Inv'
  OBVIOUS
<1>1. GameUnchanged /\ UNCHANGED rendered
  BY DEF StoreSample, GameUnchanged
<1>2. game.pc = "store" /\ game \in GameStates
  BY DEF StoreSample, InGameLoop, Inv, TypeOK
<1>3. game' = [game EXCEPT !.pc = "publish"]
  BY DEF StoreSample
<1>4. game' \in GameStates
  BY <1>2, <1>3 DEF GameStates
<1>5. /\ game'.pc = "publish" /\ game'.n = game.n /\ game'.j = game.j
      /\ game'.samples = game.samples /\ game'.i = game.i /\ game'.k = game.k
  BY <1>2, <1>3 DEF GameStates
<1>6. snd_ring' \in [0 .. SndRingSize - 1 -> Samples \union {Silence}]
  <2>1. Buf(game.k) \in Samples
    BY <1>2, RenderAssumption DEF Inv, TypeOK, Buf, Samples, GameStates
  <2>2. QED
    BY <2>1 DEF StoreSample, Inv, TypeOK
<1>7. TypeOK'
  BY <1>1, <1>4, <1>6 DEF Inv, TypeOK, GameUnchanged, core1Vars
<1>8. GameInv' /\ RoomInv' /\ NothingCutShort'
  BY <1>1, <1>2, <1>5, GameLoopRest DEF Inv, GameInv, RoomInv, NothingCutShort
<1>9. QED
  BY <1>1, <1>7, <1>8, GameLoopRest DEF Inv

LEMMA PublishSampleInv == Inv /\ PublishSample => Inv'
<1> SUFFICES ASSUME Inv, PublishSample PROVE Inv'
  OBVIOUS
<1>1. /\ UNCHANGED <<snd_ring, snd_rd, rendered, audio_ring, timer, since>>
      /\ UNCHANGED core1Vars
      /\ snd_wr' = (snd_wr + 1) % IndexRange
      /\ game' = AfterSample
  BY DEF PublishSample
<1>2. /\ game.pc = "publish" /\ game.n = game.j
      /\ game \in GameStates
      /\ game.j \in 1 .. Chunk
      /\ game.i + game.j <= game.samples
      /\ FreeSlots \in 0 .. SndRingSize
      /\ game.j - game.k <= FreeSlots
      /\ game.k < game.j
      /\ game.j = Least(game.samples - game.i, Chunk)
      /\ game.samples - game.i - game.k <= FreeSlots
  BY InChunk DEF PublishSample, InGameLoop, Inv, NothingCutShort, GameInv, RoomInv
<1>3. /\ SndLevel' = SndLevel + 1
      /\ FreeSlots' = FreeSlots - 1
      /\ SndLevel' <= SndRingSize
  <2>1. FreeSlots >= 1 /\ SndLevel \in 0 .. SndRingSize /\ SndLevel < SndRingSize
    BY <1>2, LevelSteps, RingAssumption DEF Inv, FreeSlots, GameStates
  <2>2. SndLevel' = SndLevel + 1
    BY <1>1, <2>1, LevelSteps DEF Inv, SndLevel
  <2>3. QED
    BY <2>1, <2>2, RingAssumption DEF FreeSlots
<1>4. /\ game' \in GameStates
      /\ (GameInv /\ RoomInv /\ NothingCutShort)'
  <2>1. CASE game.k + 1 < game.n
    <3>1. game' = [game EXCEPT !.pc = "store", !.k = game.k + 1]
      BY <1>1, <2>1 DEF AfterSample
    <3>2. game.k + 1 \in 0 .. Chunk
      BY <1>2, <2>1, RenderAssumption DEF GameStates
    <3>3. game' \in GameStates
      BY <1>2, <3>1, <3>2 DEF GameStates
    <3>4. /\ game'.pc = "store" /\ game'.n = game.n /\ game'.j = game.j
          /\ game'.samples = game.samples /\ game'.i = game.i
          /\ game'.k = game.k + 1
      BY <1>2, <3>1 DEF GameStates
    <3>5. GameInv'
      BY <1>2, <2>1, <3>4 DEF GameInv, Inv
    <3>6. (RoomInv /\ NothingCutShort)'
      BY <1>2, <1>3, <2>1, <3>4 DEF RoomInv, NothingCutShort, GameStates
    <3>7. QED
      BY <3>3, <3>5, <3>6
  <2>2. CASE ~(game.k + 1 < game.n) /\ game.i + game.j < game.samples
    <3>1. game' = [pc |-> "render", samples |-> game.samples,
                   i |-> game.i + game.j, j |-> 0, n |-> 0, k |-> 0]
      BY <1>1, <1>2, <2>2 DEF AfterSample, OutOfFrame
    <3>2. game.i + game.j \in 0 .. FrameSamples
      BY <1>2, RenderAssumption DEF GameStates
    <3>3. game' \in GameStates
      BY <1>2, <3>1, <3>2, RenderAssumption DEF GameStates
    <3>4. GameInv'
      BY <2>2, <3>1 DEF GameInv
    <3>5. (RoomInv /\ NothingCutShort)'
      BY <1>2, <1>3, <2>2, <3>1 DEF RoomInv, NothingCutShort, GameStates
    <3>6. QED
      BY <3>3, <3>4, <3>5
  <2>3. CASE ~(game.k + 1 < game.n) /\ ~(game.i + game.j < game.samples)
    <3>1. game' = OutOfFrame
      BY <1>1, <2>3 DEF AfterSample
    <3>2. QED
      BY <1>3, <3>1, OutOfFrameType
         DEF OutOfFrame, GameInv, RoomInv, NothingCutShort
  <2>4. QED
    BY <2>1, <2>2, <2>3
<1>5. TypeOK'
  <2>1. snd_wr' \in SndIndexes
    BY <1>1, RingAssumption DEF Inv, TypeOK, SndIndexes
  <2>2. QED
    BY <1>1, <1>4, <2>1 DEF Inv, TypeOK, core1Vars
<1>6. (TimerInv /\ PacketInv /\ PositionInv)'
  BY <1>1 DEF Inv, core1Vars, TimerInv, PacketInv, PositionInv, AudioLevel
<1>7. QED
  BY <1>4, <1>5, <1>6 DEF Inv

-----------------------------------------------------------------------------
(***************************************************************************)
(* The timer interrupt.                                                    *)
(***************************************************************************)
LEMMA TimerFiresInv == Inv /\ TimerFires => Inv'
<1> SUFFICES ASSUME Inv, TimerFires PROVE Inv'
  OBVIOUS
<1> DEFINE avail == WriteSize(audio_ring.read, audio_ring.write)
<1>1. UNCHANGED <<snd_ring, snd_wr, snd_rd, rendered, game, audio_ring, core1Vars>>
  BY DEF TimerFires, soundVars
<1>2. /\ avail \in 0 .. DviRingSize
      /\ audio_ring.write + avail <= DviRingSize
      /\ AudioLevel + avail < DviRingSize
  BY WriteSizeIs, RingAssumption DEF Inv, TypeOK, DviIndexes
<1>3. timer' \in TimerStates /\ since' \in 0 .. TimerLines
  <2>1. CASE avail = 0
    BY <2>1, RateAssumption DEF TimerFires, Inv, TypeOK
  <2>2. CASE avail # 0
    <3>1. timer' = [pc |-> "fill", avail |-> avail, done |-> 0] /\ since' = since
      BY <2>2 DEF TimerFires
    <3> HIDE DEF avail
    <3>2. QED
      BY <1>2, <3>1, RingAssumption DEF Inv, TypeOK, TimerStates
  <2>3. QED
    BY <2>1, <2>2
<1>4. TypeOK'
  BY <1>1, <1>3 DEF Inv, TypeOK, core1Vars
<1>5. TimerInv'
  <2>1. CASE avail = 0
    BY <1>1, <2>1 DEF TimerFires, Inv, TimerInv, AudioLevel
  <2>2. CASE avail # 0
    <3>1. timer' = [pc |-> "fill", avail |-> avail, done |-> 0]
      BY <2>2 DEF TimerFires
    <3> HIDE DEF avail
    <3>2. QED
      BY <1>1, <1>2, <2>2, <3>1 DEF TimerInv, AudioLevel
  <2>3. QED
    BY <2>1, <2>2
<1>6. (GameInv /\ RoomInv /\ PacketInv /\ NothingCutShort /\ PositionInv)'
  BY <1>1 DEF Inv, core1Vars, GameInv, RoomInv, PacketInv, NothingCutShort,
              PositionInv, AudioLevel, SndLevel, FreeSlots
<1>7. QED
  BY <1>4, <1>5, <1>6 DEF Inv

LEMMA TimerFillsInv == Inv /\ TimerFills => Inv'
<1> SUFFICES ASSUME Inv, TimerFills PROVE Inv'
  OBVIOUS
<1>1. /\ UNCHANGED <<snd_ring, snd_wr, rendered, game, core1Vars, since>>
      /\ timer.pc = "fill"
      /\ snd_rd' = SndRdAfter
  BY DEF TimerFills
<1>2. /\ timer \in TimerStates
      /\ 1 <= timer.avail
      /\ timer.done < timer.avail
      /\ audio_ring.write + timer.avail <= DviRingSize
      /\ AudioLevel + timer.avail < DviRingSize
  BY <1>1 DEF Inv, TypeOK, TimerInv
<1>3. audio_ring \in [buffer : [DviIndexes -> Samples \union {Silence}],
                      read : DviIndexes, write : DviIndexes]
  BY DEF Inv, TypeOK
<1>4. /\ timer' \in TimerStates
      /\ timer'.avail = timer.avail
      /\ timer'.done = timer.done + 1
      /\ timer'.pc \in {"fill", "publish"}
      /\ timer'.pc = "fill" => timer'.done < timer'.avail
  <2>1. CASE timer.done + 1 = timer.avail
    <3>1. timer' = [timer EXCEPT !.done = timer.done + 1, !.pc = "publish"]
      BY <2>1 DEF TimerFills
    <3>2. QED
      BY <1>2, <2>1, <3>1 DEF TimerStates
  <2>2. CASE timer.done + 1 # timer.avail
    <3>1. timer' = [timer EXCEPT !.done = timer.done + 1, !.pc = "fill"]
      BY <2>2 DEF TimerFills
    <3>2. timer.done + 1 < timer.avail /\ timer.done + 1 \in 0 .. DviRingSize
      BY <1>2, <2>2, RingAssumption DEF TimerStates
    <3>3. QED
      BY <1>2, <3>1, <3>2 DEF TimerStates
  <2>3. QED
    BY <2>1, <2>2
<1>5. /\ audio_ring' \in [buffer : [DviIndexes -> Samples \union {Silence}],
                          read : DviIndexes, write : DviIndexes]
      /\ audio_ring'.read = audio_ring.read
      /\ audio_ring'.write = audio_ring.write
  <2>1. snd_ring[snd_rd % SndRingSize] \in Samples \union {Silence}
    BY RingAssumption DEF Inv, TypeOK, SndIndexes
  <2>2. QED
    BY <1>3, <2>1 DEF TimerFills
<1>6. AudioLevel' = AudioLevel
  BY <1>5 DEF AudioLevel
<1>7. /\ snd_rd' \in SndIndexes
      /\ SndLevel' <= SndLevel
      /\ SndLevel' \in Nat
  <2>1. CASE snd_rd = snd_wr
    <3>1. snd_rd' = snd_rd
      BY <1>1, <2>1 DEF SndRdAfter
    <3>2. QED
      BY <1>1, <3>1, LevelSteps, RingAssumption DEF Inv, TypeOK, SndLevel
  <2>2. CASE snd_rd # snd_wr
    <3>1. snd_rd' = (snd_rd + 1) % IndexRange
      BY <1>1, <2>2 DEF SndRdAfter
    <3>2. snd_rd' \in SndIndexes
      BY <3>1, RingAssumption DEF Inv, TypeOK, SndIndexes
    <3>3. SndLevel' = SndLevel - 1
      <4>1. SndLevel' = (snd_wr - ((snd_rd + 1) % IndexRange)) % IndexRange
        BY <1>1, <3>1 DEF SndLevel
      <4>2. QED
        BY <2>2, <4>1, LevelSteps DEF Inv
    <3>4. SndLevel \in Nat /\ SndLevel # 0
      BY <2>2, SndLevelIs, RingAssumption DEF Inv, TypeOK, SndIndexes
    <3>5. QED
      BY <3>2, <3>3, <3>4
  <2>3. QED
    BY <2>1, <2>2
<1>8. TypeOK'
  BY <1>1, <1>4, <1>5, <1>7 DEF Inv, TypeOK, core1Vars
<1>9. TimerInv'
  BY <1>2, <1>4, <1>5, <1>6 DEF TimerInv, TimerStates
<1>10. (PacketInv /\ PositionInv /\ GameInv)'
  BY <1>1, <1>6 DEF Inv, PacketInv, PositionInv, GameInv, core1Vars
<1>11. (RoomInv /\ NothingCutShort)'
  <2>1. SndLevel \in Nat /\ SndLevel <= SndRingSize /\ game \in GameStates
    BY LevelSteps, RingAssumption DEF Inv, TypeOK
  <2>2. FreeSlots \in Int /\ FreeSlots' \in Int /\ FreeSlots <= FreeSlots'
    <3>1. FreeSlots = SndRingSize - SndLevel /\ FreeSlots' = SndRingSize - SndLevel'
      BY DEF FreeSlots
    <3>2. SndRingSize \in Int /\ SndLevel \in Int /\ SndLevel' \in Int
      BY <1>7, <2>1, RingAssumption
    <3>3. \A a, b, c \in Int : b <= a => c - a <= c - b /\ c - a \in Int /\ c - b \in Int
      OBVIOUS
    <3>4. QED
      BY <1>7, <3>2, <3>3 DEF FreeSlots
  <2>3. /\ game' = game
        /\ game.samples - game.i - game.k \in Int
        /\ game.n - game.k \in Int
        /\ game.j \in Int
    BY <1>1, <2>1 DEF GameStates
  <2>4. QED
    BY <1>7, <2>1, <2>2, <2>3, RingAssumption DEF Inv, RoomInv, NothingCutShort
<1>12. QED
  BY <1>8, <1>9, <1>10, <1>11 DEF Inv

LEMMA PublishedLevel ==
  ASSUME Inv, TimerPublishes
  PROVE  /\ audio_ring' \in [buffer : [DviIndexes -> Samples \union {Silence}],
                             read : DviIndexes, write : DviIndexes]
         /\ audio_ring'.buffer = audio_ring.buffer
         /\ audio_ring'.read = audio_ring.read
         /\ timer.avail \in 1 .. DviRingSize
         /\ AudioLevel' = AudioLevel + timer.avail
<1>1. timer.pc = "publish"
  BY DEF TimerPublishes
<1>2. /\ timer.avail \in 1 .. DviRingSize
      /\ audio_ring.write + timer.avail <= DviRingSize
      /\ AudioLevel + timer.avail < DviRingSize
  BY <1>1, RingAssumption DEF Inv, TypeOK, TimerInv, TimerStates
<1>3. audio_ring \in [buffer : [DviIndexes -> Samples \union {Silence}],
                      read : DviIndexes, write : DviIndexes]
  BY DEF Inv, TypeOK
<1> DEFINE w == (audio_ring.write + timer.avail) % DviRingSize
<1>4. w = IF audio_ring.write + timer.avail = DviRingSize THEN 0
          ELSE audio_ring.write + timer.avail
  <2>1. CASE audio_ring.write + timer.avail = DviRingSize
    BY <2>1, RingAssumption
  <2>2. CASE audio_ring.write + timer.avail # DviRingSize
    <3> DEFINE u == audio_ring.write + timer.avail
    <3>1. u \in Nat /\ u < DviRingSize /\ DviRingSize \in Nat \ {0}
      BY <1>2, <1>3, <2>2, RingAssumption DEF DviIndexes
    <3>2. u % DviRingSize = u
      <4> HIDE DEF u
      <4> QED
        BY <3>1, SmallMod
    <3>3. QED
      BY <2>2, <3>2
  <2>3. QED
    BY <2>1, <2>2
<1>5. w \in DviIndexes
  BY <1>2, <1>3, <1>4, RingAssumption DEF DviIndexes
<1>6. audio_ring' = [audio_ring EXCEPT !.write = w]
  BY DEF TimerPublishes
<1>7. /\ audio_ring' \in [buffer : [DviIndexes -> Samples \union {Silence}],
                          read : DviIndexes, write : DviIndexes]
      /\ audio_ring'.buffer = audio_ring.buffer
      /\ audio_ring'.read = audio_ring.read
      /\ audio_ring'.write = w
  <2> HIDE DEF w
  <2>1. QED
    BY <1>3, <1>5, <1>6
<1>8. AudioLevel' = AudioLevel + timer.avail
  <2> HIDE DEF w
  <2>1. QED
    BY <1>2, <1>3, <1>4, <1>7, RingAssumption DEF AudioLevel, DviIndexes
<1>9. QED
  BY <1>2, <1>7, <1>8

LEMMA TimerPublishesInv == Inv /\ TimerPublishes => Inv'
<1> SUFFICES ASSUME Inv, TimerPublishes PROVE Inv'
  OBVIOUS
<1>1. /\ UNCHANGED <<snd_ring, snd_wr, snd_rd, rendered, game, core1Vars>>
      /\ timer.pc = "publish"
      /\ timer' = IdleTimer
      /\ since' = 0
  BY DEF TimerPublishes, soundVars
<1>2. /\ audio_ring' \in [buffer : [DviIndexes -> Samples \union {Silence}],
                          read : DviIndexes, write : DviIndexes]
      /\ timer.avail \in 1 .. DviRingSize
      /\ AudioLevel' = AudioLevel + timer.avail
  BY PublishedLevel
<1>3. TypeOK'
  <2>1. timer' \in TimerStates
    BY <1>1, RingAssumption DEF IdleTimer, TimerStates
  <2>2. since' \in 0 .. TimerLines
    BY <1>1, RateAssumption
  <2>3. QED
    BY <1>1, <1>2, <2>1, <2>2 DEF Inv, TypeOK, core1Vars
<1>4. TimerInv'
  BY <1>1 DEF IdleTimer, TimerInv
<1>5. PacketInv'
  <2>1. packet' = packet /\ AudioLevel \in Nat /\ packet \in PacketStates
    BY <1>1, AudioLevelIs, RingAssumption DEF core1Vars, DviIndexes, Inv, TypeOK
  <2>2. QED
    BY <1>2, <2>1, RingAssumption DEF Inv, PacketInv, PacketStates
<1>6. (GameInv /\ RoomInv /\ NothingCutShort /\ PositionInv)'
  BY <1>1 DEF Inv, core1Vars, GameInv, RoomInv, NothingCutShort, PositionInv,
              SndLevel, FreeSlots
<1>7. QED
  BY <1>3, <1>4, <1>5, <1>6 DEF Inv

-----------------------------------------------------------------------------
(***************************************************************************)
(* Core 1.                                                                 *)
(***************************************************************************)
LEMMA NextLineNo ==
  ASSUME NEW t \in TimingStates
  PROVE  LET u == Advanced(t) IN
         /\ LineNo(t) \in Nat
         /\ (LineNo(u) = 0 /\ LineNo(t) > 2) \/ LineNo(u) = LineNo(t) + 1
         /\ CarriesInfo(u) => LineNo(u) \in {0, 1}
         /\ LineNo(u) = 0 => CarriesInfo(u)
<1>1. /\ t \in [v_state : VStates, v_ctr : Nat]
      /\ t.v_ctr < LinesIn(t.v_state)
  BY DEF TimingStates
<1>2. /\ FrontPorch \in Nat \ {0} /\ SyncWidth \in Nat \ {0}
      /\ BackPorch \in Nat \ {0} /\ ActiveLines \in Nat \ {0}
  BY TimingAssumption, ActiveLinesPositive
<1>3. CASE t.v_ctr + 1 = LinesIn(t.v_state)
  <2>1. Advanced(t) = [v_state |-> StateAfter(t.v_state), v_ctr |-> 0]
    BY <1>3 DEF Advanced
  <2>2. QED
    BY <1>1, <1>2, <1>3, <2>1
       DEF LineNo, StateAfter, LinesIn, VStates, CarriesInfo
<1>4. CASE t.v_ctr + 1 # LinesIn(t.v_state)
  <2>1. Advanced(t) = [v_state |-> t.v_state, v_ctr |-> t.v_ctr + 1]
    BY <1>1, <1>4 DEF Advanced
  <2>2. QED
    BY <1>1, <1>2, <2>1 DEF LineNo, VStates, CarriesInfo
<1>5. QED
  BY <1>3, <1>4

LEMMA ScanlineIrqInv == Inv /\ ScanlineIrq => Inv'
<1> SUFFICES ASSUME Inv, ScanlineIrq PROVE Inv'
  OBVIOUS
<1> DEFINE t == Advanced(timing_state)
           pos == audio_sample_pos + SamplesPerLine
           n == PacketSamples(t, pos)
<1>1. UNCHANGED <<snd_ring, snd_wr, snd_rd, rendered, game, audio_ring, timer, heard>>
  BY DEF ScanlineIrq, soundVars
<1>2. /\ since < TimerLines
      /\ since' = since + 1
      /\ timing_state' = t
      /\ audio_sample_pos' = pos - n * One
      /\ packet' = IF n = 0 THEN NoPacket
                   ELSE [pc |-> "sample", n |-> n, i |-> 0, read_size |->
                           ReadSize(audio_ring.read, audio_ring.write)]
  BY DEF ScanlineIrq
<1>3. pos \in Nat /\ audio_sample_pos \in Nat
  BY RateAssumption DEF Inv, TypeOK, PositionInv
<1>4. n \in 0 .. 4
  <2>1. WholeSamples(pos) \in 0 .. 4
    BY <1>3, WholeFacts
  <2>2. QED
    BY <2>1 DEF PacketSamples
<1>5. packet' \in PacketStates /\ PacketInv'
  <2>1. CASE n = 0
    BY <1>2, <2>1, RingAssumption DEF NoPacket, PacketStates, PacketInv
  <2>2. CASE n # 0
    <3>1. packet' = [pc |-> "sample", n |-> n, i |-> 0, read_size |-> AudioLevel]
      BY <1>2, <2>2, ReadSizeIs DEF Inv
    <3>2. AudioLevel \in 0 .. DviRingSize /\ AudioLevel' = AudioLevel
      BY <1>1, AudioLevelIs, RingAssumption DEF Inv, DviIndexes, AudioLevel
    <3> HIDE DEF n
    <3>3. QED
      BY <1>4, <2>2, <3>1, <3>2 DEF PacketStates, PacketInv
  <2>3. QED
    BY <2>1, <2>2
<1>6. TypeOK'
  <2>1. timing_state' \in TimingStates
    BY <1>2, AdvanceType DEF Inv, TypeOK
  <2>2. since' \in 0 .. TimerLines
    BY <1>2, RateAssumption DEF Inv, TypeOK
  <2>3. audio_sample_pos' \in Int
    BY <1>2, <1>3, <1>4, RateAssumption
  <2>4. QED
    BY <1>1, <1>5, <2>1, <2>2, <2>3 DEF Inv, TypeOK
<1>7. PositionInv'
  <2>1. /\ LineNo(timing_state) \in Nat
        /\ \/ LineNo(t) = 0 /\ LineNo(timing_state) > 2
           \/ LineNo(t) = LineNo(timing_state) + 1
        /\ CarriesInfo(t) => LineNo(t) \in {0, 1}
        /\ LineNo(t) = 0 => CarriesInfo(t)
    BY NextLineNo DEF Inv, TypeOK
  <2>2. /\ 0 <= audio_sample_pos
        /\ LineNo(timing_state) = 0 => audio_sample_pos < 3 * One
        /\ LineNo(timing_state) = 1 => audio_sample_pos < 5 * One
        /\ LineNo(timing_state) = 2 => audio_sample_pos < 3 * One
        /\ LineNo(timing_state) > 2 => audio_sample_pos < One
    BY DEF Inv, PositionInv
  <2>3. One \in Nat \ {0} /\ SamplesPerLine \in Nat /\ SamplesPerLine <= 2 * One
    BY RateAssumption
  <2>4. CASE CarriesInfo(t)
    <3>1. audio_sample_pos' = pos
      BY <1>2, <1>3, <2>3, <2>4 DEF PacketSamples
    <3>2. QED
      BY <1>2, <1>3, <2>1, <2>2, <2>3, <2>4, <3>1 DEF PositionInv
  <2>5. CASE ~CarriesInfo(t)
    <3>1. n = WholeSamples(pos)
      BY <2>5 DEF PacketSamples
    <3>2. /\ audio_sample_pos' \in Nat
          /\ \/ audio_sample_pos' < One
             \/ audio_sample_pos' = pos - 4 * One
      BY <1>2, <1>3, <3>1, WholeFacts
    <3>3. QED
      BY <1>2, <1>3, <2>1, <2>2, <2>3, <2>5, <3>2 DEF PositionInv
  <2>6. QED
    BY <2>4, <2>5
<1>8. (GameInv /\ RoomInv /\ TimerInv /\ NothingCutShort)'
  BY <1>1 DEF Inv, GameInv, RoomInv, TimerInv, NothingCutShort, SndLevel,
              FreeSlots, AudioLevel
<1>9. QED
  BY <1>5, <1>6, <1>7, <1>8 DEF Inv

LEMMA PutSampleRing ==
  ASSUME Inv, PutSample
  PROVE  /\ audio_ring' \in [buffer : [DviIndexes -> Samples \union {Silence}],
                             read : DviIndexes, write : DviIndexes]
         /\ audio_ring'.buffer = audio_ring.buffer
         /\ audio_ring'.write = audio_ring.write
         /\ heard' \in Samples \union {Silence}
         /\ \/ /\ packet.i < packet.read_size
               /\ AudioLevel > 0 /\ AudioLevel' = AudioLevel - 1
               /\ audio_ring'.read = (audio_ring.read + 1) % DviRingSize
               /\ heard' = audio_ring.buffer[audio_ring.read]
            \/ /\ ~(packet.i < packet.read_size)
               /\ AudioLevel' = AudioLevel
               /\ audio_ring' = audio_ring
               /\ heard' = Silence
<1>1. packet.pc = "sample"
  BY DEF PutSample
<1>2. /\ packet \in PacketStates
      /\ packet.i < packet.n
      /\ packet.read_size - packet.i <= AudioLevel
  BY <1>1 DEF Inv, TypeOK, PacketInv
<1>3. audio_ring \in [buffer : [DviIndexes -> Samples \union {Silence}],
                      read : DviIndexes, write : DviIndexes]
  BY DEF Inv, TypeOK
<1>4. CASE packet.i < packet.read_size
  <2> DEFINE r == (audio_ring.read + 1) % DviRingSize
  <2>1. r = IF audio_ring.read + 1 = DviRingSize THEN 0 ELSE audio_ring.read + 1
    BY <1>3, NextIndex, RingAssumption DEF DviIndexes
  <2>2. r \in DviIndexes
    BY <1>3, <2>1, RingAssumption DEF DviIndexes
  <2>3. /\ audio_ring' = [audio_ring EXCEPT !.read = r]
        /\ heard' = audio_ring.buffer[audio_ring.read]
    BY <1>4 DEF PutSample
  <2>4. AudioLevel > 0 /\ AudioLevel \in Nat
    BY <1>2, <1>4, AudioLevelIs, RingAssumption
       DEF Inv, PacketStates, DviIndexes
  <2> HIDE DEF r
  <2>5. /\ audio_ring' \in [buffer : [DviIndexes -> Samples \union {Silence}],
                            read : DviIndexes, write : DviIndexes]
        /\ audio_ring'.buffer = audio_ring.buffer
        /\ audio_ring'.write = audio_ring.write
        /\ audio_ring'.read = r
        /\ heard' \in Samples \union {Silence}
    BY <1>3, <2>2, <2>3
  <2>6. AudioLevel' = AudioLevel - 1
    <3>1. AudioLevel' = IF audio_ring.write < r
                        THEN audio_ring.write - r + DviRingSize
                        ELSE audio_ring.write - r
      BY <2>5 DEF AudioLevel
    <3>2. /\ audio_ring.write \in 0 .. DviRingSize - 1
          /\ audio_ring.read \in 0 .. DviRingSize - 1
          /\ DviRingSize \in Nat \ {0}
      BY <1>3, RingAssumption DEF DviIndexes
    <3>3. audio_ring.write # audio_ring.read
      BY <2>4, <3>2 DEF AudioLevel
    <3>4. CASE audio_ring.read + 1 = DviRingSize
      BY <2>1, <3>1, <3>2, <3>3, <3>4 DEF AudioLevel
    <3>5. CASE audio_ring.read + 1 # DviRingSize
      BY <2>1, <3>1, <3>2, <3>3, <3>5 DEF AudioLevel
    <3>6. QED
      BY <3>4, <3>5
  <2>7. QED
    BY <1>4, <2>3, <2>4, <2>5, <2>6 DEF r
<1>5. CASE ~(packet.i < packet.read_size)
  BY <1>3, <1>5 DEF PutSample, AudioLevel
<1>6. QED
  BY <1>4, <1>5

LEMMA PutSampleInv == Inv /\ PutSample => Inv'
<1> SUFFICES ASSUME Inv, PutSample PROVE Inv'
  OBVIOUS
<1>1. /\ UNCHANGED <<snd_ring, snd_wr, snd_rd, rendered, game, timer,
                     timing_state, audio_sample_pos, since>>
      /\ packet.pc = "sample"
  BY DEF PutSample, soundVars
<1>2. /\ packet \in PacketStates
      /\ packet.i < packet.n
      /\ packet.read_size - packet.i <= AudioLevel
  BY <1>1 DEF Inv, TypeOK, PacketInv
<1>3. audio_ring \in [buffer : [DviIndexes -> Samples \union {Silence}],
                      read : DviIndexes, write : DviIndexes]
  BY DEF Inv, TypeOK
<1>4. /\ audio_ring' \in [buffer : [DviIndexes -> Samples \union {Silence}],
                          read : DviIndexes, write : DviIndexes]
      /\ audio_ring'.write = audio_ring.write
      /\ heard' \in Samples \union {Silence}
      /\ \/ AudioLevel' = AudioLevel - 1 /\ packet.i < packet.read_size
         \/ AudioLevel' = AudioLevel /\ ~(packet.i < packet.read_size)
  BY PutSampleRing
<1>5. packet' \in PacketStates /\ PacketInv'
  <2>1. CASE packet.i + 1 = packet.n
    BY <2>1, RingAssumption DEF PutSample, NoPacket, PacketStates, PacketInv
  <2>2. CASE packet.i + 1 # packet.n
    <3>1. packet' = [packet EXCEPT !.i = packet.i + 1]
      BY <2>2 DEF PutSample
    <3>2. /\ packet' \in PacketStates
          /\ packet'.i = packet.i + 1
          /\ packet'.n = packet.n
          /\ packet'.read_size = packet.read_size
      BY <1>2, <2>2, <3>1 DEF PacketStates
    <3>3. AudioLevel \in Nat
      BY AudioLevelIs DEF Inv, DviIndexes
    <3>4. QED
      BY <1>2, <1>4, <2>2, <3>2, <3>3 DEF PacketStates, PacketInv
  <2>3. QED
    BY <2>1, <2>2
<1>6. TypeOK'
  BY <1>1, <1>4, <1>5 DEF Inv, TypeOK
<1>7. TimerInv'
  <2>1. AudioLevel \in Nat /\ AudioLevel' <= AudioLevel /\ AudioLevel' \in Int
    BY <1>4, AudioLevelIs DEF Inv, DviIndexes
  <2>2. timer \in TimerStates /\ DviRingSize \in Nat
    BY RingAssumption DEF Inv, TypeOK
  <2>3. QED
    BY <1>1, <1>4, <2>1, <2>2 DEF Inv, TimerInv, TimerStates
<1>8. (GameInv /\ RoomInv /\ NothingCutShort /\ PositionInv)'
  BY <1>1 DEF Inv, GameInv, RoomInv, NothingCutShort, PositionInv, SndLevel,
              FreeSlots
<1>9. QED
  BY <1>5, <1>6, <1>7, <1>8 DEF Inv

-----------------------------------------------------------------------------
(***************************************************************************)
(* The theorems.                                                           *)
(***************************************************************************)
LEMMA NextInv == Inv /\ [Next]_vars => Inv'
<1> SUFFICES ASSUME Inv, [Next]_vars PROVE Inv'
  OBVIOUS
<1>1. CASE Next
  BY <1>1, StartFrameInv, RenderChunkInv, PlayChunkInv, WriteChunkInv,
     StoreSampleInv, PublishSampleInv, TimerFiresInv, TimerFillsInv,
     TimerPublishesInv, ScanlineIrqInv, PutSampleInv DEF Next
<1>2. CASE UNCHANGED vars
  BY <1>2 DEF vars, soundVars, core1Vars, Inv, TypeOK, GameInv, RoomInv,
              TimerInv, PacketInv, NothingCutShort, PositionInv, SndLevel,
              FreeSlots, AudioLevel
<1>3. QED
  BY <1>1, <1>2

(* The indexes of the two rings, the locals of their users and the sample  *)
(* position always fit together: what the theorems below rest on.          *)
THEOREM AudioInvariant == Spec => []Inv
  BY InitInv, NextInv, PTL DEF Spec

(* Every index and counter of the sound path stays in its range.           *)
THEOREM TypeCorrect == Spec => []TypeOK
<1>1. Inv => TypeOK
  BY DEF Inv
<1>2. QED
  BY <1>1, AudioInvariant, PTL

(* RenderAndPlayAudio, PlayAudio and display_backend_write_audio look at   *)
(* the room in snd_ring one after the other, with the timer interrupt in   *)
(* between: whatever was rendered is stored.                               *)
THEOREM NothingIsCutShort == Spec => []NothingCutShort
<1>1. Inv => NothingCutShort
  BY DEF Inv
<1>2. QED
  BY <1>1, AudioInvariant, PTL

(* audio_sample_pos of dvi_update_data_packet_ stays below five samples,   *)
(* however the info frames fall.                                           *)
THEOREM PositionIsBounded == Spec => []PositionBounded
<1>1. Inv => PositionBounded
  <2> SUFFICES ASSUME Inv PROVE PositionBounded
    OBVIOUS
  <2>1. audio_sample_pos \in Nat /\ LineNo(timing_state) \in Nat
    BY NextLineNo DEF Inv, TypeOK, PositionInv
  <2>2. QED
    BY <2>1, RateAssumption DEF Inv, PositionInv, PositionBounded
<1>2. QED
  BY <1>1, AudioInvariant, PTL

LEMMA UnreadIs ==
  ASSUME TypeOK, NEW d \in Nat, audio_ring.write + d < DviRingSize,
         AudioLevel + d < DviRingSize
  PROVE  audio_ring.write + d \notin Unread
<1>1. /\ audio_ring.write \in 0 .. DviRingSize - 1
      /\ audio_ring.read \in 0 .. DviRingSize - 1
      /\ DviRingSize \in Nat \ {0}
  BY RingAssumption DEF TypeOK, DviIndexes
<1> DEFINE x == audio_ring.write + d
<1>2. x \in 0 .. DviRingSize - 1
  BY <1>1
<1>3. (x - audio_ring.read) % DviRingSize =
        IF x < audio_ring.read THEN x - audio_ring.read + DviRingSize
        ELSE x - audio_ring.read
  <2> HIDE DEF x
  <2> QED
    BY <1>1, <1>2, Distance
<1>4. ~((x - audio_ring.read) % DviRingSize < AudioLevel)
  BY <1>1, <1>2, <1>3 DEF AudioLevel
<1>5. QED
  BY <1>4, AudioLevelIs DEF Unread

(* audio_timer_cb stays inside audio_buf and never overwrites a sample     *)
(* that core 1 has yet to send.                                            *)
THEOREM FillsOnlyFreeSlots == Spec => []FillsFreeSlots
<1>1. Inv => FillsFreeSlots
  <2> SUFFICES ASSUME Inv, timer.pc = "fill"
               PROVE  /\ audio_ring.write + timer.done \in DviIndexes
                      /\ audio_ring.write + timer.done \notin Unread
    BY DEF FillsFreeSlots
  <2>1. /\ timer.done \in Nat /\ timer.avail \in Nat
        /\ timer.done < timer.avail
        /\ audio_ring.write + timer.avail <= DviRingSize
        /\ AudioLevel + timer.avail < DviRingSize
        /\ audio_ring.write \in DviIndexes
        /\ AudioLevel \in DviIndexes
    BY AudioLevelIs, RingAssumption DEF Inv, TypeOK, TimerInv, TimerStates
  <2>2. /\ audio_ring.write + timer.done < DviRingSize
        /\ AudioLevel + timer.done < DviRingSize
    BY <2>1, RingAssumption DEF DviIndexes
  <2>3. QED
    BY <2>1, <2>2, UnreadIs, RingAssumption DEF Inv, DviIndexes
<1>2. QED
  BY <1>1, AudioInvariant, PTL

(* Core 1 reads only samples the timer interrupt has published.            *)
THEOREM ReadsOnlyPublished == Spec => []ReadsPublished
<1>1. Inv => ReadsPublished
  <2> SUFFICES ASSUME Inv, packet.pc = "sample", packet.i < packet.read_size
               PROVE  audio_ring.read \in Unread
    BY DEF ReadsPublished
  <2>1. /\ audio_ring.read \in 0 .. DviRingSize - 1
        /\ DviRingSize \in Nat \ {0}
        /\ packet \in PacketStates
        /\ packet.read_size - packet.i <= AudioLevel
        /\ AudioLevel \in Nat
    BY AudioLevelIs, RingAssumption
       DEF Inv, TypeOK, PacketInv, DviIndexes
  <2>2. AudioLevel > 0
    BY <2>1 DEF PacketStates
  <2>3. (audio_ring.read - audio_ring.read) % DviRingSize = 0
    BY <2>1, Distance
  <2>4. QED
    BY <2>1, <2>2, <2>3, AudioLevelIs DEF Unread, Inv, DviIndexes
<1>2. QED
  BY <1>1, AudioInvariant, PTL

-----------------------------------------------------------------------------
(***************************************************************************)
(* Residues: every index of a ring is one.                                 *)
(***************************************************************************)
LEMMA Residue ==
  \A a \in Int, n \in Nat \ {0} :
    a % n = a - n * (a \div n) /\ a % n \in 0 .. n - 1 /\ a \div n \in Int
<1>1. \A a \in Int, n \in Nat : n # 0 => a % n = a - n * (a \div n)
  BY Z3
<1>2. \A a \in Int, n \in Nat \ {0} : a % n \in 0 .. n - 1
  OBVIOUS
<1>3. \A a \in Int, n \in Nat \ {0} : a \div n \in Int
  OBVIOUS
<1>4. QED
  BY <1>1, <1>2, <1>3

LEMMA ResidueRange == \A n \in Nat \ {0}, a \in Int : a % n \in 0 .. n - 1
  BY Residue

LEMMA ResidueIs ==
  \A n \in Nat \ {0}, q \in Int, r \in Int :
    0 <= r /\ r < n => (n * q + r) % n = r
<1> SUFFICES ASSUME NEW n \in Nat \ {0}, NEW q \in Int, NEW r \in Int,
                    0 <= r, r < n
             PROVE  (n * q + r) % n = r
  OBVIOUS
<1> DEFINE a == n * q + r
           p == a \div n
           s == a % n
<1>1. a \in Int /\ a = n * q + r
  OBVIOUS
<1>2. s = a - n * p /\ s \in 0 .. n - 1 /\ p \in Int
  <2> HIDE DEF a
  <2> QED
    BY <1>1, Residue
<1> HIDE DEF a, p, s
<1>3. n * (p - q) = r - s /\ n * (q - p) = s - r
  BY <1>1, <1>2
<1>4. ASSUME p < q PROVE FALSE
  <2>1. q - p \in Nat \ {0}
    BY <1>2, <1>4
  <2>2. n * (q - p) >= n
    BY <2>1, Multiple
  <2>3. QED
    BY <1>2, <1>3, <2>2
<1>5. ASSUME q < p PROVE FALSE
  <2>1. p - q \in Nat \ {0}
    BY <1>2, <1>5
  <2>2. n * (p - q) >= n
    BY <2>1, Multiple
  <2>3. QED
    BY <1>2, <1>3, <2>2
<1>6. p = q
  BY <1>2, <1>4, <1>5
<1>7. s = r
  BY <1>1, <1>2, <1>6
<1>8. QED
  BY <1>7 DEF a, s

LEMMA ResiduePlus ==
  \A n \in Nat \ {0}, a \in Int, d \in Int : ((a % n) + d) % n = (a + d) % n
<1> SUFFICES ASSUME NEW n \in Nat \ {0}, NEW a \in Int, NEW d \in Int
             PROVE  ((a % n) + d) % n = (a + d) % n
  OBVIOUS
<1> DEFINE q == a \div n
           r == a % n
           e == r + d
           p == e \div n
           s == e % n
<1>1. r = a - n * q /\ r \in 0 .. n - 1 /\ q \in Int
  BY Residue
<1> HIDE DEF q, r
<1>2. e \in Int
  BY <1>1
<1>3. s = e - n * p /\ s \in 0 .. n - 1 /\ p \in Int
  <2> HIDE DEF e
  <2> QED
    BY <1>2, Residue
<1> HIDE DEF p, s
<1>4. a + d = n * (q + p) + s /\ q + p \in Int
  BY <1>1, <1>3
<1>5. (n * (q + p) + s) % n = s
  <2>1. s \in Int /\ 0 <= s /\ s < n
    BY <1>3
  <2>2. QED
    BY <1>4, <2>1, ResidueIs, Zenon
<1>6. QED
  BY <1>4, <1>5 DEF r, s

LEMMA ResidueApart ==
  \A n \in Nat \ {0}, a \in Int, b \in Int :
    a < b /\ b - a < n => a % n # b % n
<1> SUFFICES ASSUME NEW n \in Nat \ {0}, NEW a \in Int, NEW b \in Int,
                    a < b, b - a < n, a % n = b % n
             PROVE  FALSE
  OBVIOUS
<1> DEFINE q == a \div n
           p == b \div n
           r == a % n
<1>1. r = a - n * q /\ q \in Int /\ r = b - n * p /\ p \in Int /\ r \in 0 .. n - 1
  BY Residue
<1> HIDE DEF q, p, r
<1>2. b - a = n * (p - q)
  BY <1>1
<1>3. CASE p - q \in Nat \ {0}
  BY <1>2, <1>3, Multiple
<1>4. CASE q - p \in Nat
  <2>1. n * (q - p) \in Nat /\ n * (q - p) = a - b
    BY <1>1, <1>4
  <2>2. QED
    BY <2>1
<1>5. QED
  BY <1>1, <1>3, <1>4

\* Counting modulo a multiple of n first makes no difference.
LEMMA ResidueOfResidue ==
  \A n \in Nat \ {0}, m \in Nat \ {0}, a \in Int :
    m % n = 0 => (a % m) % n = a % n
<1> SUFFICES ASSUME NEW n \in Nat \ {0}, NEW m \in Nat \ {0}, NEW a \in Int,
                    m % n = 0
             PROVE  (a % m) % n = a % n
  OBVIOUS
<1> DEFINE k == m \div n
           q == a \div m
           b == a % m
           p == b \div n
           r == b % n
<1>1. m = n * k /\ k \in Int
  BY Residue
<1>2. b = a - m * q /\ q \in Int /\ b \in Int
  BY Residue
<1> HIDE DEF k, q, b
<1>3. r = b - n * p /\ p \in Int /\ r \in 0 .. n - 1
  BY <1>2, Residue
<1> HIDE DEF p, r
<1>4. k * q + p \in Int /\ a = n * (k * q + p) + r
  <2>1. m * q = n * (k * q)
    BY <1>1, <1>2
  <2>2. k * q \in Int
    BY <1>1, <1>2
  <2> DEFINE x == k * q
  <2> HIDE DEF x
  <2>3. m * q = n * x /\ x \in Int
    BY <2>1, <2>2 DEF x
  <2>4. x + p \in Int /\ a = n * (x + p) + r
    BY <1>2, <1>3, <2>3
  <2>5. QED
    BY <2>4 DEF x
<1>5. (n * (k * q + p) + r) % n = r
  <2>1. r \in Int /\ 0 <= r /\ r < n
    BY <1>3
  <2>2. QED
    BY <1>4, <2>1, ResidueIs, Zenon
<1>6. QED
  BY <1>4, <1>5 DEF b, r

-----------------------------------------------------------------------------
(***************************************************************************)
(* The contents of a ring as a sequence: what a step at either end does.   *)
(***************************************************************************)
LEMMA RingAt ==
  ASSUME NEW ring, NEW n, NEW from, NEW count
  PROVE  \A x \in 1 .. count :
           RingContents(ring, n, from, count)[x] = ring[(from + x - 1) % n]
  BY DEF RingContents

LEMMA RingLen ==
  ASSUME NEW ring, NEW n, NEW from, NEW count \in Nat
  PROVE  Len(RingContents(ring, n, from, count)) = count
<1> DEFINE c == RingContents(ring, n, from, count)
           R == {ring[(from + x - 1) % n] : x \in 1 .. count}
<1>1. c \in [1 .. count -> R]
  BY DEF RingContents
<1>2. c \in Seq(R)
  BY <1>1, SeqDef
<1> HIDE DEF R, c
<1>3. Len(c) = count
  BY <1>1, <1>2, LenProperties
<1>4. QED
  BY <1>3 DEF c

LEMMA RingSeq ==
  ASSUME NEW S, NEW n \in Nat \ {0}, NEW ring \in [0 .. n - 1 -> S],
         NEW from \in Int, NEW count \in Nat
  PROVE  RingContents(ring, n, from, count) \in Seq(S)
<1> DEFINE c == RingContents(ring, n, from, count)
<1>1. ASSUME NEW x \in 1 .. count PROVE ring[(from + x - 1) % n] \in S
  <2>1. from + x - 1 \in Int
    OBVIOUS
  <2>2. (from + x - 1) % n \in 0 .. n - 1
    BY <2>1, ResidueRange, Zenon
  <2>3. QED
    BY <2>2
<1>2. c \in [1 .. count -> S]
  BY <1>1 DEF RingContents
<1>3. QED
  BY <1>2, SeqDef

LEMMA RingTail ==
  ASSUME NEW S, NEW n \in Nat \ {0}, NEW ring \in [0 .. n - 1 -> S],
         NEW from \in 0 .. n - 1, NEW next \in Int, next = (from + 1) % n,
         NEW count \in Nat
  PROVE  RingContents(ring, n, from, count + 1)
           = <<ring[from]>> \o RingContents(ring, n, next, count)
<1> DEFINE more == count + 1
           c == RingContents(ring, n, from, more)
           t == RingContents(ring, n, next, count)
<1>1. more \in Nat /\ from \in Int /\ ring[from] \in S
  OBVIOUS
<1> HIDE DEF more
<1>2. /\ c \in Seq(S) /\ Len(c) = more
      /\ \A x \in 1 .. more : c[x] = ring[(from + x - 1) % n]
  <2>1. c \in Seq(S)
    BY <1>1, RingSeq
  <2>2. Len(c) = more
    BY <1>1, RingLen
  <2>3. QED
    BY <2>1, <2>2, RingAt
<1>3. /\ t \in Seq(S) /\ Len(t) = count
      /\ \A x \in 1 .. count : t[x] = ring[(next + x - 1) % n]
  <2>1. t \in Seq(S)
    BY RingSeq
  <2>2. Len(t) = count
    BY RingLen
  <2>3. \A x \in 1 .. count : t[x] = ring[(next + x - 1) % n]
    BY Zenon DEF RingContents
  <2>4. QED
    BY <2>1, <2>2, <2>3
<1> HIDE DEF c, t
<1> DEFINE h == <<ring[from]>>
<1>4. /\ h \in Seq(S) /\ Len(h) = 1 /\ h[1] = ring[from]
  BY <1>1
<1> HIDE DEF h
<1>5. /\ h \o t \in Seq(S) /\ Len(h \o t) = more
      /\ (h \o t)[1] = ring[from]
      /\ \A x \in 2 .. more : (h \o t)[x] = t[x - 1]
  <2>1. /\ h \o t \in Seq(S) /\ Len(h \o t) = Len(h) + Len(t)
        /\ \A x \in 1 .. Len(h) + Len(t) :
             (h \o t)[x] = IF x <= Len(h) THEN h[x] ELSE t[x - Len(h)]
    BY <1>3, <1>4, ConcatProperties
  <2>2. Len(h) + Len(t) = more
    BY <1>3, <1>4 DEF more
  <2>3. 1 \in 1 .. more /\ \A x \in 2 .. more : x \in 1 .. more /\ ~(x <= 1)
    BY DEF more
  <2>4. QED
    BY <1>3, <1>4, <2>1, <2>2, <2>3
<1>6. c[1] = ring[from]
  <2>1. from + 1 - 1 = from /\ from % n = from
    BY SmallMod
  <2>2. QED
    BY <1>2, <2>1 DEF more
<1>7. ASSUME NEW x \in 2 .. more PROVE c[x] = t[x - 1]
  <2>1. x - 1 \in 1 .. count /\ x \in 1 .. more /\ x \in Int
    BY DEF more
  <2>2. c[x] = ring[(from + x - 1) % n] /\ t[x - 1] = ring[(next + (x - 1) - 1) % n]
    BY <1>2, <1>3, <2>1, Zenon
  <2>3. (next + (x - 2)) % n = (from + 1 + (x - 2)) % n
    <3>1. from + 1 \in Int /\ x - 2 \in Int
      OBVIOUS
    <3>2. QED
      BY <3>1, ResiduePlus, Zenon
  <2>4. next + (x - 2) = next + (x - 1) - 1 /\ from + 1 + (x - 2) = from + x - 1
    BY <2>1
  <2>5. QED
    BY <2>2, <2>3, <2>4
<1>8. ASSUME NEW x \in 1 .. more PROVE c[x] = (h \o t)[x]
  <2>1. CASE x = 1
    BY <1>5, <1>6, <2>1
  <2>2. CASE x # 1
    <3>1. x \in 2 .. more
      BY <1>1, <2>2
    <3>2. QED
      BY <1>5, <1>7, <3>1
  <2>3. QED
    BY <2>1, <2>2
<1>9. c = h \o t
  BY <1>2, <1>5, <1>8, SeqEqual
<1>10. QED
  BY <1>9 DEF c, h, t, more

LEMMA RingAppend ==
  ASSUME NEW S, NEW n \in Nat \ {0}, NEW ring \in [0 .. n - 1 -> S],
         NEW from \in Int, NEW count \in Nat
  PROVE  /\ RingContents(ring, n, from, count + 1)
              = Append(RingContents(ring, n, from, count), ring[(from + count) % n])
         /\ ring[(from + count) % n] \in S
<1> DEFINE more == count + 1
           c == RingContents(ring, n, from, count)
           d == RingContents(ring, n, from, more)
           e == ring[(from + count) % n]
<1>1. more \in Nat /\ from + count \in Int /\ from + more - 1 = from + count
  OBVIOUS
<1>2. /\ c \in Seq(S) /\ Len(c) = count
      /\ \A x \in 1 .. count : c[x] = ring[(from + x - 1) % n]
  <2>1. c \in Seq(S)
    BY RingSeq
  <2>2. Len(c) = count
    BY RingLen
  <2>3. QED
    BY <2>1, <2>2, RingAt
<1>3. e \in S
  <2>1. (from + count) % n \in 0 .. n - 1
    BY <1>1, ResidueRange, Zenon
  <2>2. QED
    BY <2>1
<1> HIDE DEF more
<1>4. /\ d \in Seq(S) /\ Len(d) = more
      /\ \A x \in 1 .. more : d[x] = ring[(from + x - 1) % n]
  <2>1. d \in Seq(S)
    BY <1>1, RingSeq
  <2>2. Len(d) = more
    BY <1>1, RingLen
  <2>3. QED
    BY <2>1, <2>2, RingAt
<1> HIDE DEF c, d
<1>5. d[more] = e
  <2>1. more \in 1 .. more
    BY DEF more
  <2>2. d[more] = ring[(from + more - 1) % n]
    BY <1>4, <2>1, Zenon
  <2>3. QED
    BY <1>1, <2>2
<1> HIDE DEF e
<1>6. /\ Append(c, e) \in Seq(S) /\ Len(Append(c, e)) = more
      /\ \A x \in 1 .. count : Append(c, e)[x] = c[x]
      /\ Append(c, e)[more] = e
  BY <1>2, <1>3, AppendProperties DEF more
<1>7. ASSUME NEW x \in 1 .. more PROVE d[x] = Append(c, e)[x]
  <2>1. CASE x = more
    BY <1>5, <1>6, <2>1
  <2>2. CASE x # more
    <3>1. x \in 1 .. count
      BY <2>2 DEF more
    <3>2. QED
      BY <1>2, <1>4, <1>6, <3>1
  <2>3. QED
    BY <2>1, <2>2
<1>8. d = Append(c, e)
  BY <1>4, <1>6, <1>7, SeqEqual
<1>9. QED
  BY <1>3, <1>8 DEF c, d, e, more

\* A ring that differs only in the slot behind its contents has the same.
LEMMA RingKept ==
  ASSUME NEW n \in Nat \ {0}, NEW ring, NEW other,
         NEW from \in Int, NEW count \in 0 .. n - 1,
         \A y \in 0 .. n - 1 : y # (from + count) % n => other[y] = ring[y]
  PROVE  RingContents(other, n, from, count) = RingContents(ring, n, from, count)
<1>1. ASSUME NEW x \in 1 .. count
      PROVE  other[(from + x - 1) % n] = ring[(from + x - 1) % n]
  <2>1. /\ from + x - 1 \in Int /\ from + count \in Int
        /\ from + x - 1 < from + count
        /\ (from + count) - (from + x - 1) < n
    OBVIOUS
  <2>2. (from + x - 1) % n # (from + count) % n
    BY <2>1, ResidueApart, Zenon
  <2>3. (from + x - 1) % n \in 0 .. n - 1
    BY <2>1, ResidueRange, Zenon
  <2>4. QED
    BY <2>2, <2>3
<1>2. QED
  BY <1>1, Zenon DEF RingContents

LEMMA EmptyRing ==
  ASSUME NEW ring, NEW n, NEW from
  PROVE  RingContents(ring, n, from, 0) = << >>
  BY DEF RingContents

-----------------------------------------------------------------------------
(***************************************************************************)
(* The two rings, the interrupt between them and the chunk in Buf make one *)
(* queue.  In transit between two of them: the sample that was stored and  *)
(* is yet to be published, and the samples that the interrupt has copied   *)
(* and is yet to publish.                                                  *)
(***************************************************************************)
InTransit ==
  /\ game.pc = "publish" => snd_ring[snd_wr % SndRingSize] = Buf(game.k)
  /\ timer.pc = "idle" => timer.done = 0
  /\ timer.pc = "publish" => timer.done = timer.avail

LEMMA InitInTransit == Init => InTransit
  BY DEF Init, InTransit, OutOfFrame, IdleTimer

LEMMA StoredSample == ASSUME Inv, StoreSample
  PROVE  /\ snd_ring' = [snd_ring EXCEPT ![snd_wr % SndRingSize] = Buf(game.k)]
         /\ snd_ring'[snd_wr % SndRingSize] = Buf(game.k)
         /\ game' \in GameStates
         /\ game'.j = game.j /\ game'.k = game.k /\ game'.pc = "publish"
         /\ UNCHANGED <<snd_wr, snd_rd, rendered, audio_ring, timer, heard>>
<1>1. snd_ring' = [snd_ring EXCEPT ![snd_wr % SndRingSize] = Buf(game.k)]
  BY DEF StoreSample
<1>2. snd_ring'[snd_wr % SndRingSize] = Buf(game.k)
  <2>1. snd_wr % SndRingSize \in 0 .. SndRingSize - 1
    BY RingAssumption DEF Inv, TypeOK, SndIndexes
  <2>2. snd_ring \in [0 .. SndRingSize - 1 -> Samples \union {Silence}]
    BY DEF Inv, TypeOK
  <2>3. QED
    BY <1>1, <2>1, <2>2, Zenon
<1>3. game' \in GameStates /\ game'.j = game.j /\ game'.k = game.k /\ game'.pc = "publish"
  BY DEF StoreSample, Inv, TypeOK, GameStates
<1>4. UNCHANGED <<snd_wr, snd_rd, rendered, audio_ring, timer, heard>>
  BY DEF StoreSample, core1Vars
<1>5. QED
  BY <1>1, <1>2, <1>3, <1>4

LEMMA NextInTransit == Inv /\ InTransit /\ [Next]_vars => InTransit'
<1> SUFFICES ASSUME Inv, InTransit, [Next]_vars PROVE InTransit'
  OBVIOUS
<1>1. timer \in TimerStates /\ game \in GameStates
  BY DEF Inv, TypeOK
<1>2. CASE StartFrame \/ RenderChunk \/ PlayChunk \/ WriteChunk
  <2>1. game'.pc # "publish"
    <3>1. CASE StartFrame
      BY <3>1 DEF StartFrame, OutOfFrame
    <3>2. CASE RenderChunk
      BY <1>1, <3>2 DEF RenderChunk, GameStates
    <3>3. CASE PlayChunk
      BY <1>1, <3>3 DEF PlayChunk, OutOfFrame, GameStates
    <3>4. CASE WriteChunk
      BY <1>1, <3>4 DEF WriteChunk, OutOfFrame, GameStates
    <3>5. QED
      BY <1>2, <3>1, <3>2, <3>3, <3>4
  <2>2. timer' = timer
    BY <1>2 DEF StartFrame, RenderChunk, PlayChunk, WriteChunk
  <2>3. QED
    BY <2>1, <2>2 DEF InTransit
<1>3. CASE StoreSample
  BY <1>3, StoredSample DEF InTransit, Buf
<1>4. CASE PublishSample
  <2>1. game'.pc # "publish" /\ timer' = timer
    BY <1>1, <1>4 DEF PublishSample, AfterSample, OutOfFrame, GameStates
  <2>2. QED
    BY <2>1 DEF InTransit
<1>5. CASE TimerFires
  <2>1. UNCHANGED <<snd_ring, snd_wr, rendered, game>>
    BY <1>5 DEF TimerFires, soundVars
  <2>2. (timer.pc = "idle" /\ timer' = timer) \/ timer'.pc = "fill"
    BY <1>5 DEF TimerFires
  <2>3. QED
    BY <2>1, <2>2 DEF InTransit, Buf
<1>6. CASE TimerFills
  <2>1. UNCHANGED <<snd_ring, snd_wr, rendered, game>>
    BY <1>6 DEF TimerFills
  <2>2. \/ timer'.pc = "publish" /\ timer'.done = timer'.avail
        \/ timer'.pc = "fill"
    BY <1>1, <1>6 DEF TimerFills, TimerStates
  <2>3. QED
    BY <2>1, <2>2 DEF InTransit, Buf
<1>7. CASE TimerPublishes
  BY <1>7 DEF TimerPublishes, soundVars, IdleTimer, InTransit, Buf
<1>8. CASE ScanlineIrq
  BY <1>8 DEF ScanlineIrq, soundVars, InTransit, Buf
<1>9. CASE PutSample
  BY <1>9 DEF PutSample, soundVars, InTransit, Buf
<1>10. CASE UNCHANGED vars
  BY <1>10 DEF vars, soundVars, InTransit, Buf
<1>11. QED
  BY <1>2, <1>3, <1>4, <1>5, <1>6, <1>7, <1>8, <1>9, <1>10 DEF Next

-----------------------------------------------------------------------------
(***************************************************************************)
(* The three parts of the queue.                                           *)
(***************************************************************************)
AnySample == Samples \union {Silence}
Queue == InAudioRing \o InSndRing
Unqueued == (rendered - InBuf) % Names

LEMMA AudioPart ==
  ASSUME TypeOK
  PROVE  /\ InAudioRing = RingContents(audio_ring.buffer, DviRingSize,
                            audio_ring.read, AudioLevel + timer.done)
         /\ InAudioRing \in Seq(AnySample)
<1>1. InAudioRing = RingContents(audio_ring.buffer, DviRingSize,
                                 audio_ring.read, AudioLevel + timer.done)
  BY AudioLevelIs DEF InAudioRing
<1>2. /\ audio_ring.buffer \in [0 .. DviRingSize - 1 -> AnySample]
      /\ DviRingSize \in Nat \ {0}
      /\ audio_ring.read \in Int
  BY RingAssumption DEF TypeOK, DviIndexes, AnySample
<1>3. AudioLevel + timer.done \in Nat
  BY AudioLevelIs, RingAssumption DEF TypeOK, TimerStates, DviIndexes
<1>4. RingContents(audio_ring.buffer, DviRingSize, audio_ring.read,
                   AudioLevel + timer.done) \in Seq(AnySample)
  BY <1>2, <1>3, RingSeq
<1>5. QED
  BY <1>1, <1>4

LEMMA SndPart ==
  ASSUME Inv
  PROVE  /\ InSndRing \in Seq(AnySample)
         /\ SndRingSize \in Nat \ {0}
         /\ snd_ring \in [0 .. SndRingSize - 1 -> AnySample]
         /\ snd_rd % SndRingSize \in 0 .. SndRingSize - 1
         /\ snd_wr % SndRingSize \in 0 .. SndRingSize - 1
         /\ ((snd_rd % SndRingSize) + SndLevel) % SndRingSize = snd_wr % SndRingSize
<1>1. /\ SndRingSize \in Nat \ {0} /\ IndexRange \in Nat \ {0}
      /\ IndexRange % SndRingSize = 0
      /\ snd_rd \in Int /\ snd_wr \in Int /\ SndLevel \in Nat
      /\ snd_ring \in [0 .. SndRingSize - 1 -> AnySample]
  BY LevelSteps, RingAssumption DEF Inv, TypeOK, SndIndexes, AnySample
<1>2. /\ snd_rd % SndRingSize \in 0 .. SndRingSize - 1
      /\ snd_wr % SndRingSize \in 0 .. SndRingSize - 1
  BY <1>1, ResidueRange
<1>3. ((snd_rd % SndRingSize) + SndLevel) % SndRingSize = snd_wr % SndRingSize
  <2> DEFINE d == snd_wr - snd_rd
  <2>1. d \in Int /\ SndLevel \in Int /\ d + snd_rd = snd_wr /\ SndLevel + snd_rd = snd_rd + SndLevel
    BY <1>1
  <2>2. SndLevel = d % IndexRange
    BY DEF SndLevel
  <2> HIDE DEF d
  <2>3. SndLevel % SndRingSize = d % SndRingSize
    BY <1>1, <2>1, <2>2, ResidueOfResidue, Zenon
  <2>4. (SndLevel + snd_rd) % SndRingSize = ((SndLevel % SndRingSize) + snd_rd) % SndRingSize
    BY <1>1, <2>1, ResiduePlus, Zenon
  <2>5. (d + snd_rd) % SndRingSize = ((d % SndRingSize) + snd_rd) % SndRingSize
    BY <1>1, <2>1, ResiduePlus, Zenon
  <2>6. ((snd_rd % SndRingSize) + SndLevel) % SndRingSize = (snd_rd + SndLevel) % SndRingSize
    BY <1>1, <2>1, ResiduePlus, Zenon
  <2>7. QED
    BY <2>1, <2>3, <2>4, <2>5, <2>6
<1>4. InSndRing \in Seq(AnySample)
  <2>1. snd_rd % SndRingSize \in Int
    BY <1>2
  <2>2. RingContents(snd_ring, SndRingSize, snd_rd % SndRingSize, SndLevel) \in Seq(AnySample)
    <3> DEFINE r == snd_rd % SndRingSize
    <3>1. r \in Int
      BY <2>1
    <3> HIDE DEF r
    <3>2. RingContents(snd_ring, SndRingSize, r, SndLevel) \in Seq(AnySample)
      BY <1>1, <3>1, RingSeq
    <3>3. QED
      BY <3>2 DEF r
  <2>3. QED
    BY <2>2 DEF InSndRing
<1>5. QED
  BY <1>1, <1>2, <1>3, <1>4

-----------------------------------------------------------------------------
(***************************************************************************)
(* What each step does to the queue.                                       *)
(***************************************************************************)
LEMMA Unfinished ==
  ASSUME Inv
  PROVE  /\ rendered \in Int /\ Names \in Nat \ {0}
         /\ InBuf \in Int
         /\ Unqueued \in Samples
<1>1. rendered \in Int /\ Names \in Nat \ {0} /\ game \in GameStates
  BY RenderAssumption DEF Inv, TypeOK, Samples
<1>2. InBuf \in Int
  BY <1>1 DEF InBuf, GameStates
<1>3. rendered - InBuf \in Int
  BY <1>1, <1>2
<1>4. Unqueued \in Samples
  BY <1>1, <1>3, ResidueRange DEF Unqueued, Samples
<1>5. QED
  BY <1>1, <1>2, <1>4

LEMMA QueueKept ==
  ASSUME UNCHANGED <<snd_ring, snd_wr, snd_rd, audio_ring, timer>>
  PROVE  Queue' = Queue
  BY DEF Queue, InAudioRing, InSndRing, SndLevel

LEMMA UnqueuedKept ==
  ASSUME UNCHANGED <<rendered, game>>
  PROVE  Unqueued' = Unqueued
  BY DEF Unqueued, InBuf

LEMMA StartFrameQueue ==
  ASSUME Inv, StartFrame
  PROVE  Unqueued' = Unqueued /\ Queue' = Queue /\ heard' = heard
<1>1. UNCHANGED <<snd_ring, snd_wr, snd_rd, audio_ring, timer, rendered, heard>>
  BY DEF StartFrame, soundVars, core1Vars
<1>2. InBuf = 0 /\ InBuf' = 0
  BY DEF StartFrame, InGameLoop, OutOfFrame, InBuf
<1>3. QED
  BY <1>1, <1>2, QueueKept DEF Unqueued

LEMMA RenderChunkQueue ==
  ASSUME Inv, RenderChunk
  PROVE  Unqueued' = Unqueued /\ Queue' = Queue /\ heard' = heard
<1> DEFINE j == Least(game.samples - game.i, Chunk)
<1>1. UNCHANGED <<snd_ring, snd_wr, snd_rd, audio_ring, timer, heard>>
  BY DEF RenderChunk, soundVars, core1Vars
<1>2. /\ game \in GameStates
      /\ game.pc = "render" /\ game.k = 0
      /\ rendered' = (rendered + j) % Names
      /\ game' = [game EXCEPT !.pc = "play", !.j = j]
  BY DEF Inv, TypeOK, GameInv, RenderChunk, InGameLoop
<1>3. j \in Int
  BY <1>2, RenderAssumption DEF GameStates, Least
<1> HIDE DEF j
<1>4. InBuf = 0
  BY <1>2 DEF InBuf
<1>5. InBuf' = j
  BY <1>2, <1>3 DEF InBuf, GameStates
<1>6. rendered \in Int /\ Names \in Nat \ {0}
  BY Unfinished
<1>7. (((rendered + j) % Names) + (-j)) % Names = (rendered + j + (-j)) % Names
  <2>1. rendered + j \in Int /\ -j \in Int
    BY <1>3, <1>6
  <2>2. QED
    BY <1>6, <2>1, ResiduePlus, Zenon
<1>8. Unqueued' = Unqueued
  <2>1. rendered + j + (-j) = rendered - 0
    BY <1>3, <1>6
  <2>2. (rendered + j) % Names \in Int
    BY <1>3, <1>6
  <2>3. ((rendered + j) % Names) + (-j) = ((rendered + j) % Names) - j
    BY <1>3, <2>2
  <2>4. QED
    BY <1>2, <1>4, <1>5, <1>7, <2>1, <2>3 DEF Unqueued
<1>9. QED
  BY <1>1, <1>8, QueueKept

LEMMA ClipQueue ==
  ASSUME Inv, PlayChunk \/ WriteChunk
  PROVE  Unqueued' = Unqueued /\ Queue' = Queue /\ heard' = heard
<1>1. UNCHANGED <<snd_ring, snd_wr, snd_rd, audio_ring, timer, heard, rendered>>
  BY DEF PlayChunk, WriteChunk, soundVars, core1Vars
<1>2. /\ game \in GameStates
      /\ game.pc \in {"play", "write"} /\ game.k = 0
      /\ FreeSlots # 0
  BY InChunk DEF PlayChunk, WriteChunk, InGameLoop, Inv, GameInv
<1>3. InBuf' = InBuf
  <2>1. CASE PlayChunk
    BY <1>2, <2>1 DEF PlayChunk, InBuf, GameStates
  <2>2. CASE WriteChunk
    BY <1>2, <2>2 DEF WriteChunk, InBuf, GameStates
  <2>3. QED
    BY <2>1, <2>2
<1>4. QED
  BY <1>1, <1>3, QueueKept DEF Unqueued

LEMMA StoreSampleQueue ==
  ASSUME Inv, StoreSample
  PROVE  Unqueued' = Unqueued /\ Queue' = Queue /\ heard' = heard
<1>1. game.pc = "store"
  BY DEF StoreSample, InGameLoop
<1>2. UNCHANGED <<snd_wr, snd_rd, audio_ring, timer, heard, rendered>>
  BY StoredSample
<1>3. InBuf' = InBuf
  BY <1>1, StoredSample DEF InBuf
<1>4. SndLevel \in 0 .. SndRingSize - 1
  <2>1. /\ game \in GameStates /\ game.j - game.k <= FreeSlots /\ game.k < game.j
        /\ SndLevel \in 0 .. SndRingSize
    BY <1>1, InChunk, LevelSteps DEF Inv
  <2>2. QED
    BY <2>1, RingAssumption DEF FreeSlots, GameStates
<1> DEFINE from == snd_rd % SndRingSize
<1>5. /\ SndRingSize \in Nat \ {0}
      /\ from \in Int
      /\ (from + SndLevel) % SndRingSize = snd_wr % SndRingSize
      /\ snd_ring \in [0 .. SndRingSize - 1 -> AnySample]
  BY SndPart
<1>6. \A y \in 0 .. SndRingSize - 1 :
        y # (from + SndLevel) % SndRingSize => snd_ring'[y] = snd_ring[y]
  BY <1>5, StoredSample
<1> HIDE DEF from
<1>7. RingContents(snd_ring', SndRingSize, from, SndLevel)
        = RingContents(snd_ring, SndRingSize, from, SndLevel)
  BY <1>4, <1>5, <1>6, RingKept
<1>8. InSndRing' = InSndRing
  BY <1>2, <1>7 DEF InSndRing, SndLevel, from
<1>9. InAudioRing' = InAudioRing
  BY <1>2 DEF InAudioRing
<1>10. QED
  BY <1>2, <1>3, <1>8, <1>9 DEF Unqueued, Queue

LEMMA AppendBehind ==
  ASSUME NEW S, NEW s \in Seq(S), NEW t \in Seq(S), NEW e \in S
  PROVE  s \o Append(t, e) = Append(s \o t, e)
<1>1. <<e>> \in Seq(S) /\ s \o t \in Seq(S)
  BY ConcatProperties
<1>2. Append(t, e) = t \o <<e>> /\ Append(s \o t, e) = (s \o t) \o <<e>>
  BY <1>1, AppendIsConcat
<1>3. (s \o t) \o <<e>> = s \o (t \o <<e>>)
  BY <1>1, ConcatAssociative
<1>4. QED
  BY <1>2, <1>3

LEMMA MoveHead ==
  ASSUME NEW S, NEW s \in Seq(S), NEW t \in Seq(S), NEW e \in S
  PROVE  Append(s, e) \o t = s \o (<<e>> \o t)
<1>1. <<e>> \in Seq(S)
  OBVIOUS
<1>2. Append(s, e) = s \o <<e>>
  BY AppendIsConcat
<1>3. (s \o <<e>>) \o t = s \o (<<e>> \o t)
  BY <1>1, ConcatAssociative
<1>4. QED
  BY <1>2, <1>3

LEMMA TakeHead ==
  ASSUME NEW S, NEW s \in Seq(S), NEW t \in Seq(S), NEW e \in S
  PROVE  LET c == (<<e>> \o s) \o t IN
         c # << >> /\ Head(c) = e /\ Tail(c) = s \o t
<1> DEFINE h == <<e>>
           r == s \o t
           c == h \o r
<1>1. h \in Seq(S) /\ Len(h) = 1 /\ h[1] = e
  OBVIOUS
<1>2. r \in Seq(S)
  BY ConcatProperties
<1>3. (h \o s) \o t = c
  BY <1>1, ConcatAssociative
<1> HIDE DEF h, r
<1>4. /\ c \in Seq(S) /\ Len(c) = 1 + Len(r) /\ Len(r) \in Nat
      /\ \A x \in 1 .. 1 + Len(r) : c[x] = IF x <= 1 THEN h[x] ELSE r[x - 1]
  <2>1. /\ c \in Seq(S) /\ Len(c) = Len(h) + Len(r)
        /\ \A x \in 1 .. Len(h) + Len(r) :
             c[x] = IF x <= Len(h) THEN h[x] ELSE r[x - Len(h)]
    BY <1>1, <1>2, ConcatProperties
  <2>2. Len(r) \in Nat
    BY <1>2, LenProperties
  <2>3. QED
    BY <1>1, <2>1, <2>2
<1> HIDE DEF c
<1>5. c # << >>
  BY <1>4, EmptySeq
<1>6. /\ Head(c) = c[1] /\ Tail(c) \in Seq(S) /\ Len(Tail(c)) = Len(r)
      /\ \A x \in 1 .. Len(r) : Tail(c)[x] = c[x + 1]
  BY <1>4, <1>5, HeadTailProperties
<1>7. ASSUME NEW x \in 1 .. Len(r) PROVE Tail(c)[x] = r[x]
  <2>1. x + 1 \in 1 .. 1 + Len(r) /\ ~(x + 1 <= 1) /\ x + 1 - 1 = x
    BY <1>4
  <2>2. c[x + 1] = r[x]
    BY <1>4, <2>1
  <2>3. QED
    BY <1>6, <2>2
<1>8. Tail(c) = r
  BY <1>2, <1>6, <1>7, SeqEqual
<1>9. Head(c) = e
  BY <1>1, <1>4, <1>6
<1>10. QED
  BY <1>3, <1>5, <1>8, <1>9 DEF h, r

LEMMA PublishSampleQueue ==
  ASSUME Inv, InTransit, PublishSample
  PROVE  /\ Queue' = Append(Queue, Unqueued)
         /\ Unqueued' = (Unqueued + 1) % Names
         /\ heard' = heard
<1>1. /\ UNCHANGED <<snd_ring, snd_rd, rendered, audio_ring, timer, heard>>
      /\ snd_wr' = (snd_wr + 1) % IndexRange
      /\ game' = AfterSample
      /\ game.pc = "publish"
  BY DEF PublishSample, InGameLoop, core1Vars
<1>2. /\ game \in GameStates
      /\ game.n = game.j
      /\ game.k < game.j
      /\ FreeSlots >= 1
  <2>1. /\ game \in GameStates /\ game.k < game.j /\ game.j - game.k <= FreeSlots
        /\ FreeSlots \in 0 .. SndRingSize
    BY <1>1, InChunk
  <2>2. QED
    BY <1>1, <2>1, RingAssumption DEF Inv, NothingCutShort, GameStates
<1>3. InBuf = game.j - game.k /\ InBuf' = InBuf - 1
  <2>1. InBuf = game.j - game.k
    BY <1>1 DEF InBuf
  <2>2. CASE game.k + 1 < game.n
    <3>1. game' = [game EXCEPT !.pc = "store", !.k = game.k + 1]
      BY <1>1, <2>2 DEF AfterSample
    <3>2. game'.pc = "store" /\ game'.k = game.k + 1 /\ game'.j = game.j
      BY <1>2, <3>1 DEF GameStates
    <3>3. QED
      BY <1>2, <2>1, <3>2 DEF InBuf, GameStates
  <2>3. CASE ~(game.k + 1 < game.n)
    <3>1. game'.pc \in {"render", "frame"}
      BY <1>1, <2>3 DEF AfterSample, OutOfFrame
    <3>2. game.j = game.k + 1
      BY <1>2, <2>3 DEF GameStates
    <3>3. QED
      BY <1>2, <2>1, <3>1, <3>2 DEF InBuf, GameStates
  <2>4. QED
    BY <2>2, <2>3, <2>1
<1>4. Unqueued' = (Unqueued + 1) % Names
  <2>1. rendered \in Int /\ Names \in Nat \ {0} /\ InBuf \in Int
    BY Unfinished
  <2>2. rendered - InBuf \in Int /\ (rendered - InBuf) + 1 = rendered - (InBuf - 1)
    BY <2>1
  <2>3. (((rendered - InBuf) % Names) + 1) % Names = ((rendered - InBuf) + 1) % Names
    <3> DEFINE z == rendered - InBuf
    <3>1. z \in Int /\ 1 \in Int
      BY <2>2
    <3> HIDE DEF z
    <3>2. ((z % Names) + 1) % Names = (z + 1) % Names
      BY <2>1, <3>1, ResiduePlus, Zenon
    <3>3. QED
      BY <3>2 DEF z
  <2>4. QED
    BY <1>1, <1>3, <2>2, <2>3 DEF Unqueued
<1>5. snd_ring[snd_wr % SndRingSize] = Unqueued
  <2>1. rendered \in Int /\ game.j \in Int /\ game.k \in Int
    BY <1>2, Unfinished DEF GameStates
  <2>2. rendered - game.j + game.k = rendered - (game.j - game.k)
    BY <2>1
  <2>3. QED
    BY <1>1, <1>3, <2>2 DEF InTransit, Buf, Unqueued
<1>6. SndLevel \in Nat /\ SndLevel' = SndLevel + 1
  <2>1. SndLevel \in 0 .. SndRingSize /\ SndLevel < SndRingSize
    BY <1>2, LevelSteps, RingAssumption DEF Inv, FreeSlots
  <2>2. (((snd_wr + 1) % IndexRange) - snd_rd) % IndexRange = SndLevel + 1
    BY <2>1, LevelSteps DEF Inv
  <2>3. QED
    BY <1>1, <2>1, <2>2 DEF SndLevel
<1> DEFINE from == snd_rd % SndRingSize
<1>7. /\ SndRingSize \in Nat \ {0} /\ from \in Int
      /\ snd_ring \in [0 .. SndRingSize - 1 -> AnySample]
      /\ (from + SndLevel) % SndRingSize = snd_wr % SndRingSize
      /\ InSndRing \in Seq(AnySample)
  BY SndPart
<1> HIDE DEF from
<1>8. /\ RingContents(snd_ring, SndRingSize, from, SndLevel + 1)
           = Append(RingContents(snd_ring, SndRingSize, from, SndLevel),
                    snd_ring[(from + SndLevel) % SndRingSize])
      /\ snd_ring[(from + SndLevel) % SndRingSize] \in AnySample
  BY <1>6, <1>7, RingAppend
<1>9. InSndRing' = Append(InSndRing, Unqueued)
  BY <1>1, <1>5, <1>6, <1>7, <1>8 DEF InSndRing, from
<1>10. InAudioRing' = InAudioRing /\ InAudioRing \in Seq(AnySample)
  BY <1>1, AudioPart DEF InAudioRing, Inv
<1>11. Unqueued \in AnySample
  BY Unfinished DEF AnySample
<1>12. Queue' = Append(Queue, Unqueued)
  BY <1>7, <1>9, <1>10, <1>11, AppendBehind DEF Queue
<1>13. QED
  BY <1>1, <1>4, <1>12

LEMMA TimerFiresQueue ==
  ASSUME Inv, InTransit, TimerFires
  PROVE  Unqueued' = Unqueued /\ Queue' = Queue /\ heard' = heard
<1>1. UNCHANGED <<snd_ring, snd_wr, snd_rd, rendered, game, audio_ring, heard>>
  BY DEF TimerFires, soundVars, core1Vars
<1>2. timer'.done = timer.done
  BY DEF TimerFires, InTransit
<1>3. QED
  BY <1>1, <1>2 DEF Queue, InAudioRing, InSndRing, SndLevel, Unqueued, InBuf

\* audio_timer_cb copies a sample: it is now behind the last one in audio_buf.
LEMMA CopiedSample ==
  ASSUME Inv, TimerFills
  PROVE  LET e == IF snd_rd = snd_wr THEN Silence
                  ELSE snd_ring[snd_rd % SndRingSize]
         IN  /\ e \in AnySample
             /\ InAudioRing' = Append(InAudioRing, e)
<1> DEFINE e == IF snd_rd = snd_wr THEN Silence
                ELSE snd_ring[snd_rd % SndRingSize]
           at == audio_ring.write + timer.done
           count == AudioLevel + timer.done
           old == audio_ring.buffer
           new == audio_ring'.buffer
           n == DviRingSize
           from == audio_ring.read
<1>1. e \in AnySample
  BY SndPart DEF AnySample
<1> HIDE DEF e
<1>2. /\ audio_ring \in [buffer : [DviIndexes -> AnySample],
                         read : DviIndexes, write : DviIndexes]
      /\ timer \in TimerStates
      /\ timer.done < timer.avail
      /\ audio_ring.write + timer.avail <= n
      /\ AudioLevel + timer.avail < n
      /\ AudioLevel \in Nat
      /\ n \in Nat \ {0}
  BY AudioLevelIs, RingAssumption
     DEF TimerFills, Inv, TypeOK, TimerInv, AnySample, DviIndexes
<1>3. /\ at \in 0 .. n - 1
      /\ count \in 0 .. n - 1
      /\ from \in 0 .. n - 1 /\ audio_ring.write \in 0 .. n - 1
  BY <1>2 DEF DviIndexes, TimerStates
<1>4. /\ audio_ring' = [audio_ring EXCEPT !.buffer[at] = e]
      /\ timer'.done = timer.done + 1
      /\ timer.done \in Nat
  BY <1>2 DEF TimerFills, e, TimerStates
<1> HIDE DEF at
<1>5. /\ audio_ring'.read = from /\ audio_ring'.write = audio_ring.write
      /\ new = [old EXCEPT ![at] = e]
      /\ old \in [0 .. n - 1 -> AnySample]
  BY <1>2, <1>4 DEF DviIndexes
<1>6. new \in [0 .. n - 1 -> AnySample] /\ new[at] = e
  BY <1>1, <1>3, <1>5
<1>7. (from + count) % n = at
  <2>1. (audio_ring.write - from) % n = AudioLevel
    BY AudioLevelIs DEF Inv
  <2>2. audio_ring.write - from \in Int /\ count = AudioLevel + timer.done
    BY <1>3
  <2>3. AudioLevel = IF audio_ring.write < from THEN audio_ring.write - from + n
                     ELSE audio_ring.write - from
    BY DEF AudioLevel
  <2>4. from + count = at \/ from + count = n * 1 + at
    BY <1>2, <1>3, <1>4, <2>3 DEF at
  <2>5. (n * 1 + at) % n = at /\ (n * 0 + at) % n = at /\ n * 0 + at = at
    BY <1>2, <1>3, ResidueIs
  <2>6. QED
    BY <2>4, <2>5
<1>8. /\ AudioLevel' = AudioLevel
      /\ AudioLevel' + timer'.done = count + 1
  <2>1. AudioLevel' = AudioLevel
    BY <1>5 DEF AudioLevel
  <2>2. QED
    BY <1>2, <1>4, <2>1
<1> HIDE DEF count, from, old, new
<1>9. RingContents(new, n, from, count) = RingContents(old, n, from, count)
  <2>1. \A y \in 0 .. n - 1 : y # (from + count) % n => new[y] = old[y]
    BY <1>5, <1>7
  <2>2. QED
    BY <1>2, <1>3, <2>1, RingKept
<1>10. /\ RingContents(new, n, from, count + 1)
            = Append(RingContents(new, n, from, count), new[(from + count) % n])
       /\ new[(from + count) % n] \in AnySample
  <2>1. from \in Int /\ count \in Nat
    BY <1>3
  <2>2. QED
    BY <1>2, <1>6, <2>1, RingAppend
<1>11. InAudioRing = RingContents(old, n, from, count)
  BY AudioPart DEF old, n, from, count, Inv
<1>12. InAudioRing' = RingContents(new, n, from, count + 1)
  <2>1. InAudioRing' = RingContents(audio_ring'.buffer, DviRingSize,
                          audio_ring'.read, AudioLevel' + timer'.done)
    <3>1. ((audio_ring.write - audio_ring.read) % DviRingSize)' = AudioLevel'
      <4>1. UNCHANGED <<audio_ring.write, audio_ring.read>>
        BY <1>5 DEF from
      <4>2. (audio_ring.write - audio_ring.read) % DviRingSize = AudioLevel
        BY AudioLevelIs DEF Inv
      <4>3. QED
        BY <1>8, <4>1, <4>2
    <3>2. QED
      BY <3>1 DEF InAudioRing
  <2>2. QED
    BY <1>5, <1>8, <2>1 DEF new
<1>13. QED
  BY <1>1, <1>6, <1>7, <1>9, <1>10, <1>11, <1>12 DEF e

LEMMA TimerFillsQueue ==
  ASSUME Inv, TimerFills
  PROVE  /\ Unqueued' = Unqueued /\ heard' = heard
         /\ Queue' = Queue \/ Queue' = Append(Queue, Silence)
<1> DEFINE e == IF snd_rd = snd_wr THEN Silence
                ELSE snd_ring[snd_rd % SndRingSize]
<1>1. /\ UNCHANGED <<snd_ring, snd_wr, rendered, game, heard>>
      /\ snd_rd' = SndRdAfter
  BY DEF TimerFills, core1Vars
<1>2. Unqueued' = Unqueued
  BY <1>1, UnqueuedKept
<1>3. /\ e \in AnySample
      /\ InAudioRing' = Append(InAudioRing, e)
      /\ InAudioRing \in Seq(AnySample)
      /\ InSndRing \in Seq(AnySample)
  BY CopiedSample, AudioPart, SndPart DEF Inv
<1>4. CASE snd_rd = snd_wr
  <2>1. SndLevel = 0
    BY <1>4, SndLevelIs, RingAssumption DEF Inv, TypeOK, SndIndexes
  <2>2. InSndRing = << >>
    BY <2>1, EmptyRing DEF InSndRing
  <2>3. InSndRing' = InSndRing
    BY <1>1, <1>4 DEF SndRdAfter, InSndRing, SndLevel
  <2>4. e = Silence
    BY <1>4
  <2>5. Append(InAudioRing, e) \in Seq(AnySample)
    BY <1>3, AppendProperties
  <2>6. Queue = InAudioRing /\ Queue' = Append(InAudioRing, e)
    BY <1>3, <2>2, <2>3, <2>5, ConcatEmptySeq DEF Queue
  <2>7. QED
    BY <1>1, <1>2, <2>4, <2>6
<1>5. CASE snd_rd # snd_wr
  <2>1. snd_rd' = (snd_rd + 1) % IndexRange
    BY <1>1, <1>5 DEF SndRdAfter
  <2>2. SndLevel \in Nat \ {0} /\ SndLevel' = SndLevel - 1
    <3>1. SndLevel \in Nat /\ SndLevel # 0
      BY <1>5, SndLevelIs, RingAssumption DEF Inv, TypeOK, SndIndexes
    <3>2. SndLevel' = (snd_wr - ((snd_rd + 1) % IndexRange)) % IndexRange
      BY <1>1, <2>1 DEF SndLevel
    <3>3. QED
      BY <1>5, <3>1, <3>2, LevelSteps DEF Inv
  <2> DEFINE n == SndRingSize
             from == snd_rd % n
             next == snd_rd' % n
             less == SndLevel - 1
  <2>3. /\ n \in Nat \ {0} /\ from \in 0 .. n - 1
        /\ snd_ring \in [0 .. n - 1 -> AnySample]
    BY SndPart
  <2>4. next = (from + 1) % n /\ next \in Int
    <3>1. /\ snd_rd \in Int /\ snd_rd + 1 \in Int /\ 1 \in Int
          /\ IndexRange \in Nat \ {0} /\ IndexRange % n = 0
      BY RingAssumption DEF Inv, TypeOK, SndIndexes
    <3>2. ((snd_rd + 1) % IndexRange) % n = (snd_rd + 1) % n
      BY <2>3, <3>1, ResidueOfResidue, Zenon
    <3>3. ((snd_rd % n) + 1) % n = (snd_rd + 1) % n
      BY <2>3, <3>1, ResiduePlus, Zenon
    <3>4. (snd_rd + 1) % n \in Int
      BY <2>3, <3>1
    <3>5. QED
      BY <2>1, <3>2, <3>3, <3>4
  <2>5. less \in Nat /\ SndLevel = less + 1
    BY <2>2
  <2>6. e = snd_ring[from]
    BY <1>5
  <2>7. InSndRing = RingContents(snd_ring, n, from, less + 1)
    BY <2>5 DEF InSndRing
  <2>8. InSndRing' = RingContents(snd_ring, n, next, less)
    BY <1>1, <2>2 DEF InSndRing
  <2> HIDE DEF n, from, next, less, e
  <2>9. RingContents(snd_ring, n, from, less + 1)
          = <<snd_ring[from]>> \o RingContents(snd_ring, n, next, less)
    BY <2>3, <2>4, <2>5, RingTail
  <2>10. InSndRing' \in Seq(AnySample)
    BY <2>3, <2>4, <2>5, <2>8, RingSeq
  <2>11. InSndRing = <<e>> \o InSndRing'
    BY <2>6, <2>7, <2>8, <2>9
  <2>12. Append(InAudioRing, e) \o InSndRing' = InAudioRing \o (<<e>> \o InSndRing')
    BY <1>3, <2>10, MoveHead
  <2>13. Queue' = Queue
    BY <1>3, <2>11, <2>12 DEF Queue
  <2>14. QED
    BY <1>1, <1>2, <2>13
<1>6. QED
  BY <1>4, <1>5

LEMMA TimerPublishesQueue ==
  ASSUME Inv, InTransit, TimerPublishes
  PROVE  Unqueued' = Unqueued /\ Queue' = Queue /\ heard' = heard
<1>1. /\ UNCHANGED <<snd_ring, snd_wr, snd_rd, rendered, game, heard>>
      /\ timer' = IdleTimer /\ timer.pc = "publish"
  BY DEF TimerPublishes, soundVars, core1Vars
<1>2. timer.done = timer.avail /\ timer'.done = 0
  BY <1>1 DEF InTransit, IdleTimer
<1>3. /\ audio_ring'.buffer = audio_ring.buffer
      /\ audio_ring'.read = audio_ring.read
      /\ AudioLevel' = AudioLevel + timer.avail
      /\ AudioLevel \in Nat /\ timer.avail \in Nat
  BY PublishedLevel, AudioLevelIs, RingAssumption DEF Inv, DviIndexes
<1>4. (audio_ring'.write - audio_ring'.read) % DviRingSize = AudioLevel'
  <2>1. /\ audio_ring'.write \in 0 .. DviRingSize - 1
        /\ audio_ring'.read \in 0 .. DviRingSize - 1
        /\ DviRingSize \in Nat \ {0}
    BY PublishedLevel, RingAssumption DEF DviIndexes
  <2>2. QED
    BY <2>1, Distance DEF AudioLevel
<1>5. InAudioRing' = InAudioRing
  BY <1>2, <1>3, <1>4, AudioPart DEF InAudioRing, Inv
<1>6. QED
  BY <1>1, <1>5 DEF Queue, InSndRing, SndLevel, Unqueued, InBuf

LEMMA ScanlineIrqQueue ==
  ASSUME ScanlineIrq
  PROVE  Unqueued' = Unqueued /\ Queue' = Queue /\ heard' = heard
<1>1. UNCHANGED <<snd_ring, snd_wr, snd_rd, rendered, game, audio_ring, timer, heard>>
  BY DEF ScanlineIrq, soundVars
<1>2. QED
  BY <1>1, QueueKept, UnqueuedKept

LEMMA PutSampleQueue ==
  ASSUME Inv, PutSample
  PROVE  /\ Unqueued' = Unqueued
         /\ \/ heard' = Silence /\ Queue' = Queue
            \/ Queue # << >> /\ heard' = Head(Queue) /\ Queue' = Tail(Queue)
<1>1. UNCHANGED <<snd_ring, snd_wr, snd_rd, rendered, game, timer>>
  BY DEF PutSample, soundVars
<1>2. Unqueued' = Unqueued
  BY <1>1, UnqueuedKept
<1>3. CASE ~(packet.i < packet.read_size)
  <2>1. heard' = Silence /\ audio_ring' = audio_ring
    BY <1>3, PutSampleRing
  <2>2. QED
    BY <1>1, <1>2, <2>1, QueueKept
<1>4. CASE packet.i < packet.read_size
  <2> DEFINE ring == audio_ring.buffer
             n == DviRingSize
             from == audio_ring.read
             next == audio_ring'.read
             less == AudioLevel - 1 + timer.done
             e == ring[from]
  <2>1. /\ audio_ring' \in [buffer : [DviIndexes -> AnySample],
                            read : DviIndexes, write : DviIndexes]
        /\ audio_ring'.buffer = ring
        /\ AudioLevel > 0 /\ AudioLevel' = AudioLevel - 1
        /\ next = (from + 1) % n
        /\ heard' = e
    BY <1>4, PutSampleRing DEF AnySample
  <2>2. /\ n \in Nat \ {0}
        /\ AudioLevel \in Nat
        /\ timer.done \in Nat
        /\ from \in 0 .. n - 1
        /\ ring \in [0 .. n - 1 -> AnySample]
    BY AudioLevelIs, RingAssumption
       DEF Inv, TypeOK, TimerStates, DviIndexes, AnySample
  <2>3. next \in 0 .. n - 1 /\ audio_ring'.write \in 0 .. n - 1
    BY <2>1 DEF DviIndexes
  <2>4. less \in Nat /\ AudioLevel + timer.done = less + 1
    <3>1. \A a, d \in Nat : a > 0 => a - 1 + d \in Nat /\ a + d = a - 1 + d + 1
      OBVIOUS
    <3>2. AudioLevel \in Nat /\ timer.done \in Nat /\ AudioLevel > 0
      BY <2>1, <2>2
    <3>3. QED
      BY <3>1, <3>2, Zenon
  <2>5. InAudioRing = RingContents(ring, n, from, less + 1)
    BY <2>4, AudioPart DEF Inv
  <2>6. InAudioRing' = RingContents(ring, n, next, less)
    <3>1. (audio_ring'.write - audio_ring'.read) % DviRingSize = AudioLevel'
      BY <2>2, <2>3, Distance DEF AudioLevel
    <3>2. AudioLevel' + timer'.done = less
      BY <1>1, <2>1
    <3>3. QED
      BY <2>1, <3>1, <3>2 DEF InAudioRing
  <2>7. e \in AnySample
    BY <2>2
  <2> HIDE DEF ring, n, from, next, less
  <2>8. RingContents(ring, n, from, less + 1)
          = <<ring[from]>> \o RingContents(ring, n, next, less)
    <3>1. /\ n \in Nat \ {0} /\ ring \in [0 .. n - 1 -> AnySample]
          /\ from \in 0 .. n - 1 /\ next \in Int /\ next = (from + 1) % n
      BY <2>1, <2>2, <2>3
    <3>2. QED
      BY <2>4, <3>1, RingTail
  <2>9. InAudioRing' \in Seq(AnySample) /\ InSndRing \in Seq(AnySample)
    <3>1. n \in Nat \ {0} /\ ring \in [0 .. n - 1 -> AnySample] /\ next \in Int
      BY <2>2, <2>3
    <3>2. RingContents(ring, n, next, less) \in Seq(AnySample)
      BY <2>4, <3>1, RingSeq
    <3>3. QED
      BY <2>6, <3>2, SndPart
  <2>10. InSndRing' = InSndRing
    BY <1>1 DEF InSndRing, SndLevel
  <2>11. Queue = (<<e>> \o InAudioRing') \o InSndRing
    BY <2>5, <2>6, <2>8 DEF Queue
  <2>12. Queue' = InAudioRing' \o InSndRing
    BY <2>10 DEF Queue
  <2> HIDE DEF e
  <2>13. Queue # << >> /\ Head(Queue) = e /\ Tail(Queue) = Queue'
    BY <2>7, <2>9, <2>11, <2>12, TakeHead
  <2>14. QED
    BY <1>2, <2>1, <2>13
<1>5. QED
  BY <1>3, <1>4

LEMMA StreamInit == Init => Stream!Init
<1> SUFFICES ASSUME Init PROVE Stream!Init
  OBVIOUS
<1>1. Unqueued = 0
  BY RenderAssumption DEF Init, Unqueued, InBuf, OutOfFrame
<1>2. SndLevel = 0 /\ (audio_ring.write - audio_ring.read) % DviRingSize = 0
  BY RingAssumption DEF Init, SndLevel
<1>3. Queue = << >>
  <2>1. timer.done = 0
    BY DEF Init, IdleTimer
  <2>2. InAudioRing = << >> /\ InSndRing = << >>
    BY <1>2, <2>1, EmptyRing DEF InAudioRing, InSndRing
  <2>3. QED
    BY <2>2, EmptySeq, ConcatEmptySeq DEF Queue
<1>4. heard = Silence
  BY DEF Init
<1>5. QED
  BY <1>1, <1>3, <1>4 DEF Stream!Init, Unqueued, Queue

LEMMA StreamNext ==
  Inv /\ InTransit /\ [Next]_vars => [Stream!Next]_Stream!vars
<1> SUFFICES ASSUME Inv, InTransit, [Next]_vars
             PROVE  [Stream!Next]_Stream!vars
  OBVIOUS
<1>1. ASSUME Unqueued' = Unqueued, Queue' = Queue, heard' = heard
      PROVE  UNCHANGED Stream!vars
  BY <1>1 DEF Stream!vars, Unqueued, Queue
<1>2. CASE StartFrame \/ RenderChunk \/ PlayChunk \/ WriteChunk \/ StoreSample
  BY <1>1, <1>2, StartFrameQueue, RenderChunkQueue, ClipQueue, StoreSampleQueue
<1>3. CASE PublishSample
  <2>1. Stream!Accept
    BY <1>3, PublishSampleQueue DEF Stream!Accept, Unqueued, Queue
  <2>2. QED
    BY <2>1 DEF Stream!Next
<1>4. CASE TimerFires
  BY <1>1, <1>4, TimerFiresQueue
<1>5. CASE TimerFills
  <2>1. CASE Queue' = Queue
    BY <1>1, <1>5, <2>1, TimerFillsQueue
  <2>2. CASE Queue' = Append(Queue, Silence)
    <3>1. Stream!Fill
      BY <1>5, <2>2, TimerFillsQueue DEF Stream!Fill, Unqueued, Queue
    <3>2. QED
      BY <3>1 DEF Stream!Next
  <2>3. QED
    BY <1>5, <2>1, <2>2, TimerFillsQueue
<1>6. CASE TimerPublishes
  BY <1>1, <1>6, TimerPublishesQueue
<1>7. CASE ScanlineIrq
  BY <1>1, <1>7, ScanlineIrqQueue
<1>8. CASE PutSample
  <2>1. CASE heard' = Silence /\ Queue' = Queue
    <3>1. Stream!Pad
      BY <1>8, <2>1, PutSampleQueue DEF Stream!Pad, Unqueued, Queue
    <3>2. QED
      BY <3>1 DEF Stream!Next
  <2>2. CASE Queue # << >> /\ heard' = Head(Queue) /\ Queue' = Tail(Queue)
    <3>1. Stream!Deliver
      BY <1>8, <2>2, PutSampleQueue DEF Stream!Deliver, Unqueued, Queue
    <3>2. QED
      BY <3>1 DEF Stream!Next
  <2>3. QED
    BY <1>8, <2>1, <2>2, PutSampleQueue
<1>9. CASE UNCHANGED vars
  <2>1. UNCHANGED <<snd_ring, snd_wr, snd_rd, rendered, game, audio_ring, timer, heard>>
    BY <1>9 DEF vars, soundVars, core1Vars
  <2>2. QED
    BY <1>1, <2>1, QueueKept, UnqueuedKept
<1>10. QED
  BY <1>2, <1>3, <1>4, <1>5, <1>6, <1>7, <1>8, <1>9 DEF Next

(* Whatever the emulator renders reaches the HDMI link once and in order,  *)
(* through two rings, an interrupt that copies from one to the other, and  *)
(* two cores: the sound path implements SampleStream, for rings of every   *)
(* size.  That the samples do move on is liveness, and stays with the run. *)
THEOREM ImplementsStream == Spec => Fifo
<1>1. Spec => []Inv
  BY AudioInvariant
<1>2. Init => InTransit
  BY InitInTransit
<1>3. Inv /\ InTransit /\ [Next]_vars => InTransit'
  BY NextInTransit
<1>4. Init => Stream!Init
  BY StreamInit
<1>5. Inv /\ InTransit /\ [Next]_vars => [Stream!Next]_Stream!vars
  BY StreamNext
<1>6. QED
  BY <1>1, <1>2, <1>3, <1>4, <1>5, PTL DEF Spec, Fifo, Stream!Spec

-----------------------------------------------------------------------------
(***************************************************************************)
(* Why core 1 never finds audio_ring empty: the inductive invariant.  The  *)
(* ring always holds what the packet in the making still takes and what    *)
(* the lines to the next refill can ask for.                               *)
(***************************************************************************)
Period == TimerLines * SamplesPerLine

\* The ring covers three refill periods, less what rounding can hold back.
Ample == 3 * Period <= (DviRingSize - 10) * One

\* What the position and the lines to come can ask for, in parts of a sample.
Owed == audio_sample_pos + (TimerLines - since) * SamplesPerLine

\* Samples of the ring that the packet in the making still takes.
Taking == IF packet.pc = "sample" /\ packet.i < packet.read_size
          THEN packet.n - packet.i ELSE 0

\* What audio_ring holds beyond them and beyond what is owed.
Slack == (AudioLevel - Taking) * One - Owed

\* The slack a refill leaves that the end of the buffer did not cut short.
FullSlack == (DviRingSize - 10) * One - 2 * Period

Filled == primed \/ audio_ring.read # audio_ring.write

BeforeFilled ==
  /\ ~Filled => audio_ring.read = 0 /\ audio_ring.write = 0
  /\ packet.read_size # 0 => primed

PacketServed ==
  /\ packet.pc = "wait" => packet.n = 0 /\ packet.read_size = 0
  /\ packet.read_size = 0 \/ packet.n <= packet.read_size

\* A refill that was cut short leaves write at 0, so that the next is not.
SlackInv == Filled => /\ Slack >= 0
                      /\ audio_ring.write = 0 \/ Slack >= FullSlack

RefillInv ==
  timer.pc # "idle" =>
    \/ /\ Filled /\ Slack >= FullSlack
       /\ audio_ring.write + timer.avail = DviRingSize
    \/ Slack + timer.avail * One >= FullSlack + Period

DryInv == BeforeFilled /\ PacketServed /\ SlackInv /\ RefillInv /\ NeverDry

-----------------------------------------------------------------------------
LEMMA DryTypes ==
  ASSUME Inv
  PROVE  /\ One \in Nat \ {0} /\ SamplesPerLine \in Nat /\ TimerLines \in Nat
         /\ Period \in Nat /\ FullSlack \in Int /\ DviRingSize \in Nat
         /\ since \in Nat /\ since <= TimerLines
         /\ audio_sample_pos \in Nat /\ audio_sample_pos <= 5 * One
         /\ AudioLevel \in Nat /\ AudioLevel < DviRingSize
         /\ packet.n \in Nat /\ packet.n <= 4 /\ packet.i \in Nat
         /\ packet.read_size \in Nat
         /\ Taking \in Nat /\ Taking <= 4
         /\ Owed \in Nat /\ Slack \in Int
<1>1. /\ One \in Nat \ {0} /\ SamplesPerLine \in Nat /\ TimerLines \in Nat
      /\ DviRingSize \in Nat
  BY RateAssumption, RingAssumption
<1>2. /\ since \in Nat /\ since <= TimerLines
      /\ packet.n \in Nat /\ packet.n <= 4 /\ packet.i \in Nat
      /\ packet.read_size \in Nat
  BY <1>1 DEF Inv, TypeOK, PacketStates
<1>3. audio_sample_pos \in Nat /\ audio_sample_pos <= 5 * One
  <2>1. LineNo(timing_state) \in Nat
    BY NextLineNo DEF Inv, TypeOK
  <2>2. audio_sample_pos \in Int
    BY DEF Inv, TypeOK
  <2>3. QED
    BY <1>1, <2>1, <2>2 DEF Inv, PositionInv
<1>4. AudioLevel \in Nat /\ AudioLevel < DviRingSize
  BY <1>1, AudioLevelIs DEF Inv, DviIndexes
<1>5. Taking \in Nat /\ Taking <= 4
  BY <1>2 DEF Taking, Inv, PacketInv
<1>6. \A a, b \in Nat : a * b \in Nat
  OBVIOUS
<1>7. Period \in Nat /\ (TimerLines - since) * SamplesPerLine \in Nat
  <2>1. TimerLines - since \in Nat
    BY <1>1, <1>2
  <2>2. QED
    BY <1>1, <1>6, <2>1 DEF Period
<1>8. Owed \in Nat
  BY <1>3, <1>7 DEF Owed
<1>9. Slack \in Int /\ FullSlack \in Int
  BY <1>1, <1>4, <1>5, <1>7, <1>8 DEF Slack, FullSlack
<1>10. QED
  BY <1>1, <1>2, <1>3, <1>4, <1>5, <1>7, <1>8, <1>9

(* A step that takes nothing from the ring and adds nothing to it.         *)
LEMMA RingStays ==
  ASSUME DryInv,
         primed' <=> primed \/ (packet.pc = "wait" /\ audio_ring.read # audio_ring.write),
         UNCHANGED audio_ring.read, UNCHANGED audio_ring.write, UNCHANGED packet
  PROVE  /\ Filled' <=> Filled
         /\ AudioLevel' = AudioLevel /\ Taking' = Taking
         /\ (BeforeFilled /\ PacketServed /\ NeverDry)'
<1>1. AudioLevel' = AudioLevel /\ Taking' = Taking
  BY DEF AudioLevel, Taking
<1>2. Filled' <=> Filled
  BY Zenon DEF Filled
<1>3. BeforeFilled' /\ PacketServed'
  BY <1>2, Zenon DEF DryInv, BeforeFilled, PacketServed
<1>4. NeverDry'
  <2>1. CASE primed
    BY <2>1 DEF DryInv, NeverDry
  <2>2. CASE packet.pc = "wait"
    BY <2>2 DEF DryInv, NeverDry, PacketServed
  <2>3. QED
    BY <2>1, <2>2 DEF NeverDry
<1>5. QED
  BY <1>1, <1>2, <1>3, <1>4

(* ... and asks for nothing either.                                        *)
LEMMA NothingTaken ==
  ASSUME DryInv,
         primed' <=> primed \/ (packet.pc = "wait" /\ audio_ring.read # audio_ring.write),
         UNCHANGED audio_ring.read, UNCHANGED audio_ring.write, UNCHANGED packet,
         UNCHANGED audio_sample_pos, UNCHANGED since
  PROVE  /\ (Filled' <=> Filled) /\ Slack' = Slack
         /\ (BeforeFilled /\ PacketServed /\ SlackInv /\ NeverDry)'
<1>1. /\ Filled' <=> Filled
      /\ (BeforeFilled /\ PacketServed /\ NeverDry)'
      /\ AudioLevel' = AudioLevel /\ Taking' = Taking
  BY RingStays
<1>2. Slack' = Slack
  BY <1>1 DEF Slack, Owed
<1>3. SlackInv'
  BY <1>1, <1>2 DEF DryInv, SlackInv, FullSlack, Period
<1>4. QED
  BY <1>1, <1>2, <1>3

LEMMA DryInit == MCInit => DryInv
  BY DEF MCInit, Init, DryInv, BeforeFilled, PacketServed, SlackInv, RefillInv,
         NeverDry, Filled, NoPacket, IdleTimer

LEMMA TimerFillsDry == Inv /\ DryInv /\ TimerFills /\ MCNext => DryInv'
<1> SUFFICES ASSUME Inv, DryInv, TimerFills, MCNext PROVE DryInv'
  OBVIOUS
<1>1. /\ UNCHANGED <<packet, audio_sample_pos, since>>
      /\ audio_ring' = [audio_ring EXCEPT !.buffer[audio_ring.write + timer.done] =
                          IF snd_rd = snd_wr THEN Silence
                          ELSE snd_ring[snd_rd % SndRingSize]]
      /\ timer' = [timer EXCEPT !.done = @ + 1,
                            !.pc = IF timer.done + 1 = timer.avail
                                   THEN "publish" ELSE "fill"]
      /\ timer.pc = "fill"
  BY DEF TimerFills, core1Vars
<1>2. UNCHANGED <<audio_ring.read, audio_ring.write>>
  BY <1>1 DEF Inv, TypeOK
<1>3. UNCHANGED timer.avail
  BY <1>1 DEF Inv, TypeOK, TimerStates
<1>4. /\ (Filled' <=> Filled) /\ Slack' = Slack
      /\ (BeforeFilled /\ PacketServed /\ SlackInv /\ NeverDry)'
  BY <1>1, <1>2, NothingTaken DEF MCNext
<1>5. RefillInv'
  BY <1>1, <1>2, <1>3, <1>4 DEF DryInv, RefillInv, FullSlack, Period
<1>6. QED
  BY <1>4, <1>5 DEF DryInv

LEMMA RestDry ==
  ASSUME DryInv, UNCHANGED <<audio_ring, timer, core1Vars, since>>,
         MCNext \/ UNCHANGED primed
  PROVE  DryInv'
<1>1. UNCHANGED <<packet, audio_sample_pos>>
  BY DEF core1Vars
<1>2. CASE UNCHANGED primed
  BY <1>1, <1>2 DEF DryInv, BeforeFilled, PacketServed, SlackInv, RefillInv, NeverDry,
       Filled, Slack, Owed, Taking, AudioLevel, FullSlack, Period
<1>3. CASE MCNext
  <2>1. /\ (Filled' <=> Filled) /\ Slack' = Slack
        /\ (BeforeFilled /\ PacketServed /\ SlackInv /\ NeverDry)'
    BY <1>1, <1>3, NothingTaken DEF MCNext
  <2>2. RefillInv'
    BY <2>1 DEF DryInv, RefillInv, FullSlack, Period
  <2>3. QED
    BY <2>1, <2>2 DEF DryInv
<1>4. QED
  BY <1>2, <1>3

(* The interrupt comes: what it may write either fills the ring, or reaches *)
(* the end of the buffer, and then the refill before it did not.            *)
LEMMA RefillSize ==
  ASSUME Inv
  PROVE  LET avail == WriteSize(audio_ring.read, audio_ring.write) IN
         \/ AudioLevel + avail = DviRingSize - 1
         \/ /\ audio_ring.read # 0 /\ audio_ring.write # 0
            /\ audio_ring.write + avail = DviRingSize
<1>1. /\ audio_ring.write \in 0 .. DviRingSize - 1
      /\ audio_ring.read \in 0 .. DviRingSize - 1
      /\ DviRingSize \in Nat \ {0}
  BY RingAssumption DEF Inv, TypeOK, DviIndexes
<1>2. QED
  BY <1>1 DEF WriteSize, AudioLevel

LEMMA SlackOfFull ==
  ASSUME Inv, NEW avail \in Nat, AudioLevel + avail = DviRingSize - 1
  PROVE  /\ Slack + avail * One >= FullSlack + Period
         /\ Slack + avail * One - since * SamplesPerLine >= FullSlack + Period
<1> DEFINE o == One
           spl == SamplesPerLine
           tl == TimerLines
<1>1. /\ o \in Nat \ {0} /\ spl \in Nat /\ tl \in Nat
      /\ since \in Nat /\ since <= tl
      /\ audio_sample_pos \in Nat /\ audio_sample_pos <= 5 * o
      /\ AudioLevel \in Nat /\ Taking \in Nat /\ Taking <= 4
      /\ DviRingSize \in Nat
  BY DryTypes
<1>2. \A l, a, k, s, q, d \in Nat :
        l + a = d - 1 /\ k <= 4 /\ s <= tl /\ q <= 5 * o
        => ((l - k) * o - (q + (tl - s) * spl)) + a * o - s * spl
             >= (d - 10) * o - 2 * (tl * spl) + tl * spl
  <2> HIDE DEF o, spl, tl
  <2> SUFFICES ASSUME NEW l \in Nat, NEW a \in Nat, NEW k \in Nat, NEW s \in Nat,
                      NEW q \in Nat, NEW d \in Nat,
                      l + a = d - 1, k <= 4, s <= tl, q <= 5 * o
               PROVE  ((l - k) * o - (q + (tl - s) * spl)) + a * o - s * spl
                        >= (d - 10) * o - 2 * (tl * spl) + tl * spl
    OBVIOUS
  <2>1. k * o <= 4 * o
    BY <1>1
  <2>2. ((l - k) * o - (q + (tl - s) * spl)) + a * o - s * spl
          = (l + a) * o - k * o - q - tl * spl
    BY <1>1
  <2>3. (l + a) * o = d * o - o
    BY <1>1
  <2>4. (d - 10) * o - 2 * (tl * spl) + tl * spl = d * o - 10 * o - tl * spl
    BY <1>1
  <2>5. d * o \in Int /\ tl * spl \in Int /\ k * o \in Int
    BY <1>1
  <2>6. QED
    BY <1>1, <2>1, <2>2, <2>3, <2>4, <2>5
<1>3. Slack + avail * One - since * SamplesPerLine >= FullSlack + Period
  <2> HIDE DEF o, spl, tl
  <2>1. ((AudioLevel - Taking) * o - (audio_sample_pos + (tl - since) * spl))
          + avail * o - since * spl
             >= (DviRingSize - 10) * o - 2 * (tl * spl) + tl * spl
    BY <1>1, <1>2, Zenon
  <2>2. QED
    BY <2>1 DEF o, spl, tl, Slack, Owed, FullSlack, Period
<1>4. since * SamplesPerLine \in Nat /\ avail * One \in Nat
  <2>1. \A a, b \in Nat : a * b \in Nat
    OBVIOUS
  <2>2. QED
    BY <1>1, <2>1
<1>5. Slack \in Int /\ FullSlack \in Int /\ Period \in Nat
  BY DryTypes
<1>6. QED
  BY <1>3, <1>4, <1>5

LEMMA TimerFiresDry == Inv /\ Ample /\ DryInv /\ TimerFires /\ MCNext => DryInv'
<1> SUFFICES ASSUME Inv, Ample, DryInv, TimerFires, MCNext PROVE DryInv'
  OBVIOUS
<1> DEFINE avail == WriteSize(audio_ring.read, audio_ring.write)
<1>1. UNCHANGED audio_ring /\ UNCHANGED packet /\ UNCHANGED audio_sample_pos
  BY DEF TimerFires, core1Vars
<1>2. /\ Filled' <=> Filled
      /\ AudioLevel' = AudioLevel /\ Taking' = Taking
      /\ (BeforeFilled /\ PacketServed /\ NeverDry)'
  BY <1>1, RingStays, Zenon DEF MCNext
<1>3. avail \in Nat
  BY WriteSizeIs DEF Inv
<1>4. CASE avail = 0
  <2>1. timer.pc = "idle" /\ UNCHANGED timer /\ since' = 0
    BY <1>4 DEF TimerFires
  <2>2. CASE AudioLevel + avail = DviRingSize - 1
    <3>1. Slack - since * SamplesPerLine >= FullSlack + Period
      <4>1. Slack + 0 * One - since * SamplesPerLine >= FullSlack + Period
        BY <1>4, <2>2, SlackOfFull
      <4>2. since * SamplesPerLine \in Nat /\ 0 * One = 0 /\ Slack \in Int
        BY DryTypes
      <4>3. QED
        BY <4>1, <4>2
    <3>2. Slack' = Slack - since * SamplesPerLine
      BY <1>1, <1>2, <2>1, DryTypes DEF Slack, Owed
    <3>3. Slack' >= FullSlack /\ Slack' >= 0
      <4>1. /\ Period \in Nat /\ FullSlack \in Int /\ Slack \in Int
            /\ since * SamplesPerLine \in Int
        BY DryTypes
      <4>2. FullSlack >= Period
        BY DryTypes DEF Ample, FullSlack
      <4>3. QED
        BY <3>1, <3>2, <4>1, <4>2
    <3>4. SlackInv' /\ RefillInv'
      BY <2>1, <3>3 DEF SlackInv, RefillInv, FullSlack, Period
    <3>5. QED
      BY <1>2, <3>4 DEF DryInv
  <2>3. CASE audio_ring.write + avail = DviRingSize
    <3>1. audio_ring.write \in 0 .. DviRingSize - 1
      BY RingAssumption DEF Inv, TypeOK, DviIndexes
    <3>2. QED
      BY <1>4, <2>3, <3>1, DryTypes
  <2>4. QED
    BY <2>2, <2>3, RefillSize
<1>5. CASE avail # 0
  <2>1. timer' = [pc |-> "fill", avail |-> avail, done |-> 0] /\ UNCHANGED since
    BY <1>5 DEF TimerFires
  <2>2. Slack' = Slack /\ SlackInv'
    BY <1>1, <2>1, NothingTaken, Zenon DEF MCNext
  <2>3. RefillInv'
    <3>1. CASE AudioLevel + avail = DviRingSize - 1
      <4>1. Slack' + timer'.avail * One >= FullSlack' + Period'
        BY <1>3, <2>1, <2>2, <3>1, SlackOfFull DEF FullSlack, Period
      <4>2. QED
        BY <4>1 DEF RefillInv
    <3>2. CASE /\ audio_ring.read # 0 /\ audio_ring.write # 0
               /\ audio_ring.write + avail = DviRingSize
      <4>1. Filled /\ Slack >= FullSlack
        BY <3>2 DEF DryInv, BeforeFilled, SlackInv
      <4>2. QED
        BY <1>1, <1>2, <2>1, <2>2, <3>2, <4>1 DEF RefillInv, FullSlack, Period
    <3>3. QED
      BY <3>1, <3>2, RefillSize
  <2>4. QED
    BY <1>2, <2>2, <2>3 DEF DryInv
<1>6. QED
  BY <1>4, <1>5

LEMMA TimerPublishesDry ==
  Inv /\ Ample /\ DryInv /\ TimerPublishes /\ MCNext => DryInv'
<1> SUFFICES ASSUME Inv, Ample, DryInv, TimerPublishes, MCNext PROVE DryInv'
  OBVIOUS
<1>1. /\ timer.pc = "publish" /\ timer'.pc = "idle" /\ since' = 0
      /\ UNCHANGED packet /\ UNCHANGED audio_sample_pos
      /\ audio_ring' = [audio_ring EXCEPT
                          !.write = (@ + timer.avail) % DviRingSize]
  BY DEF TimerPublishes, IdleTimer, core1Vars
<1>2. /\ audio_ring'.read = audio_ring.read
      /\ timer.avail \in Nat /\ timer.avail >= 1
      /\ AudioLevel' = AudioLevel + timer.avail
  BY PublishedLevel, RingAssumption
<1>3. Filled'
  <2>1. AudioLevel' >= 1
    BY <1>2, DryTypes
  <2>2. audio_ring'.read # audio_ring'.write
    <3>1. audio_ring'.write \in Int
      BY PublishedLevel, RingAssumption DEF DviIndexes
    <3>2. QED
      BY <2>1, <3>1 DEF AudioLevel
  <2>3. QED
    BY <2>2 DEF Filled
<1>4. primed' <=> primed \/ (packet.pc = "wait" /\ audio_ring.read # audio_ring.write)
  BY Zenon DEF MCNext
<1>5. BeforeFilled' /\ PacketServed'
  BY <1>1, <1>3, <1>4, Zenon DEF DryInv, BeforeFilled, PacketServed
<1>6. NeverDry'
  <2>1. CASE primed
    BY <1>1, <2>1 DEF DryInv, NeverDry
  <2>2. CASE packet.pc = "wait"
    BY <1>1, <2>2 DEF DryInv, NeverDry, PacketServed
  <2>3. QED
    BY <1>4, <2>1, <2>2 DEF NeverDry
<1>7. Slack' = Slack + timer.avail * One - since * SamplesPerLine
  <2>1. Taking' = Taking
    BY <1>1 DEF Taking
  <2>2. QED
    BY <1>1, <1>2, <2>1, DryTypes DEF Slack, Owed
<1>8. /\ timer.avail * One >= One
      /\ since * SamplesPerLine \in Nat /\ since * SamplesPerLine <= Period
  BY <1>2, DryTypes DEF Period
<1>9. timer.avail * One \in Nat
  BY <1>2, DryTypes
<1>10. /\ Slack \in Int /\ FullSlack \in Int /\ Period \in Nat
       /\ FullSlack >= Period /\ One \in Nat
  BY DryTypes DEF Ample, FullSlack
<1>11. SlackInv'
  <2>1. CASE /\ Slack >= FullSlack
             /\ audio_ring.write + timer.avail = DviRingSize
    <3>1. audio_ring'.write = 0
      <4>1. audio_ring'.write = (audio_ring.write + timer.avail) % DviRingSize
        BY <1>1 DEF Inv, TypeOK
      <4>2. DviRingSize \in Nat \ {0}
        BY RingAssumption
      <4>3. QED
        BY <2>1, <4>1, <4>2
    <3>2. Slack' >= 0
      BY <1>7, <1>8, <1>9, <1>10, <2>1
    <3>3. QED
      BY <3>1, <3>2 DEF SlackInv
  <2>2. CASE Slack + timer.avail * One >= FullSlack + Period
    <3>1. Slack' >= FullSlack /\ Slack' >= 0
      BY <1>7, <1>8, <1>9, <1>10, <2>2
    <3>2. FullSlack' = FullSlack
      BY DEF FullSlack, Period
    <3>3. QED
      BY <3>1, <3>2 DEF SlackInv
  <2>3. QED
    BY <1>1, <2>1, <2>2 DEF DryInv, RefillInv
<1>12. RefillInv'
  BY <1>1 DEF RefillInv
<1>13. QED
  BY <1>5, <1>6, <1>11, <1>12 DEF DryInv

(* One turn of the loop of set_audio_sample takes the sample it was to take. *)
LEMMA PutSampleDry == Inv /\ DryInv /\ PutSample /\ MCNext => DryInv'
<1> SUFFICES ASSUME Inv, DryInv, PutSample, MCNext PROVE DryInv'
  OBVIOUS
<1>1. /\ packet.pc = "sample"
      /\ packet' = IF packet.i + 1 = packet.n THEN NoPacket
                   ELSE [packet EXCEPT !.i = @ + 1]
      /\ UNCHANGED timer /\ UNCHANGED audio_sample_pos /\ UNCHANGED since
  BY DEF PutSample
<1>2. packet \in PacketStates /\ packet.i < packet.n
  BY <1>1 DEF Inv, TypeOK, PacketInv
<1>3. \/ packet' = NoPacket /\ packet.i + 1 = packet.n
      \/ /\ packet'.pc = "sample" /\ packet'.n = packet.n
         /\ packet'.read_size = packet.read_size
         /\ packet'.i = packet.i + 1 /\ packet.i + 1 # packet.n
  BY <1>1, <1>2 DEF PacketStates
<1>4. primed' <=> primed
  BY <1>1, Zenon DEF MCNext
<1>5. PacketServed'
  BY <1>3 DEF DryInv, PacketServed, NoPacket
<1>6. NeverDry'
  BY <1>3, <1>4 DEF DryInv, NeverDry, NoPacket
<1>7. /\ audio_ring'.write = audio_ring.write
      /\ \/ /\ packet.i < packet.read_size
            /\ AudioLevel' = AudioLevel - 1
         \/ /\ ~(packet.i < packet.read_size)
            /\ AudioLevel' = AudioLevel
            /\ audio_ring' = audio_ring
  BY PutSampleRing
<1>8. AudioLevel' - Taking' = AudioLevel - Taking
  <2>1. /\ packet.i \in Nat /\ packet.n \in Nat /\ packet.read_size \in Nat
        /\ AudioLevel \in Nat
    BY DryTypes
  <2>2. CASE packet.i < packet.read_size
    <3>1. packet.n <= packet.read_size /\ Taking = packet.n - packet.i
      BY <1>1, <2>1, <2>2 DEF DryInv, PacketServed, Taking
    <3>2. Taking' = Taking - 1
      BY <1>2, <1>3, <2>1, <3>1 DEF Taking, NoPacket
    <3>3. QED
      BY <1>7, <2>1, <2>2, <3>1, <3>2
  <2>3. CASE ~(packet.i < packet.read_size)
    <3>1. Taking = 0 /\ Taking' = 0
      BY <1>3, <2>1, <2>3 DEF Taking, NoPacket
    <3>2. QED
      BY <1>7, <2>1, <2>3, <3>1
  <2>4. QED
    BY <2>2, <2>3
<1>9. Slack' = Slack
  BY <1>1, <1>8 DEF Slack, Owed
<1>10. /\ BeforeFilled'
       /\ Filled' <=> Filled
  <2>1. CASE packet.read_size = 0
    <3>1. audio_ring' = audio_ring
      BY <1>2, <1>7, <2>1 DEF PacketStates
    <3>2. packet'.read_size = 0
      BY <1>3, <2>1 DEF NoPacket
    <3>3. QED
      BY <1>4, <3>1, <3>2, Zenon DEF DryInv, BeforeFilled, Filled
  <2>2. CASE packet.read_size # 0
    <3>1. primed
      BY <2>2 DEF DryInv, BeforeFilled
    <3>2. QED
      BY <1>4, <3>1, Zenon DEF BeforeFilled, Filled
  <2>3. QED
    BY <2>1, <2>2
<1>11. SlackInv'
  BY <1>7, <1>9, <1>10 DEF DryInv, SlackInv, FullSlack, Period
<1>12. RefillInv'
  BY <1>1, <1>7, <1>9, <1>10 DEF DryInv, RefillInv, FullSlack, Period
<1>13. QED
  BY <1>5, <1>6, <1>10, <1>11, <1>12 DEF DryInv

\* Core 1 asks for no more than is owed, so for no more than there is.
LEMMA EnoughForPacket ==
  ASSUME Inv, Slack >= 0, Taking = 0, since < TimerLines, NEW n \in Nat,
         n * One <= audio_sample_pos + SamplesPerLine
  PROVE  n <= AudioLevel
<1> DEFINE o == One
           spl == SamplesPerLine
           left == TimerLines - since
<1>1. /\ o \in Nat \ {0} /\ spl \in Nat /\ left \in Nat /\ left >= 1
      /\ audio_sample_pos \in Nat /\ AudioLevel \in Nat
  BY DryTypes
<1>2. AudioLevel * o - (audio_sample_pos + left * spl) >= 0
  BY <1>1 DEF Slack, Owed
<1> HIDE DEF o, spl, left
<1>3. left * spl >= spl
  BY <1>1
<1>4. n * o <= audio_sample_pos + spl
  BY DEF o, spl
<1>5. AudioLevel * o \in Nat /\ n * o \in Nat /\ left * spl \in Nat
  BY <1>1
<1>6. n * o <= AudioLevel * o
  BY <1>1, <1>2, <1>3, <1>4, <1>5
<1>7. SUFFICES ASSUME n >= AudioLevel + 1 PROVE FALSE
  BY <1>1
<1>8. n * o >= (AudioLevel + 1) * o
  BY <1>1, <1>7
<1>9. (AudioLevel + 1) * o = AudioLevel * o + o
  BY <1>1
<1>10. QED
  BY <1>1, <1>5, <1>6, <1>8, <1>9

LEMMA ScanlineIrqDry == Inv /\ DryInv /\ ScanlineIrq /\ MCNext => DryInv'
<1> SUFFICES ASSUME Inv, DryInv, ScanlineIrq, MCNext PROVE DryInv'
  OBVIOUS
<1> DEFINE pos == audio_sample_pos + SamplesPerLine
           n == PacketSamples(Advanced(timing_state), pos)
<1>1. /\ UNCHANGED audio_ring /\ UNCHANGED timer
      /\ packet.pc = "wait" /\ since < TimerLines
      /\ since' = since + 1
      /\ audio_sample_pos' = pos - n * One
  BY DEF ScanlineIrq
<1>2. packet' = IF n = 0 THEN NoPacket
                ELSE [pc |-> "sample", n |-> n, i |-> 0, read_size |-> AudioLevel]
  BY ReadSizeIs DEF ScanlineIrq, Inv
<1>3. n \in Nat /\ n * One <= audio_sample_pos + SamplesPerLine
  <2>1. pos \in Nat
    BY DryTypes
  <2>2. WholeSamples(pos) \in Nat /\ pos - WholeSamples(pos) * One \in Nat
    BY <2>1, WholeFacts
  <2>3. \A w \in Nat : w * One \in Nat
    BY DryTypes
  <2>4. WholeSamples(pos) * One <= pos
    <3> DEFINE w == WholeSamples(pos) * One
    <3>1. w \in Nat /\ pos - w \in Nat
      BY <2>2, <2>3
    <3> HIDE DEF w, pos
    <3>2. w <= pos
      BY <2>1, <3>1
    <3>3. QED
      BY <3>2 DEF w
  <2>5. CASE n = 0
    <3>1. 0 * One = 0
      BY DryTypes
    <3>2. QED
      BY <2>1, <2>5, <3>1
  <2>6. CASE n = WholeSamples(pos)
    BY <2>2, <2>4, <2>6
  <2>7. QED
    BY <2>5, <2>6 DEF PacketSamples
<1>4. AudioLevel' = AudioLevel /\ Taking = 0
  BY <1>1 DEF AudioLevel, Taking
<1>5. AudioLevel \in Nat
  BY DryTypes
<1> HIDE DEF n
<1>6. primed' <=> Filled
  BY <1>1, Zenon DEF MCNext, Filled
<1>7. Filled' <=> Filled
  BY <1>1, <1>6, Zenon DEF Filled
<1>8. Filled => n <= AudioLevel
  BY <1>1, <1>3, <1>4, EnoughForPacket DEF DryInv, SlackInv
<1>9. ~Filled => AudioLevel = 0
  BY DEF DryInv, BeforeFilled, AudioLevel
<1>10. BeforeFilled'
  <2>1. CASE Filled
    BY <1>6, <1>7, <2>1, Zenon DEF BeforeFilled
  <2>2. CASE ~Filled
    <3>1. packet'.read_size = 0
      BY <1>2, <1>9, <2>2 DEF NoPacket
    <3>2. audio_ring'.read = 0 /\ audio_ring'.write = 0
      BY <1>1, <2>2 DEF DryInv, BeforeFilled
    <3>3. QED
      BY <3>1, <3>2, Zenon DEF BeforeFilled
  <2>3. QED
    BY <2>1, <2>2
<1>11. PacketServed'
  BY <1>2, <1>8, <1>9 DEF PacketServed, NoPacket
<1>12. NeverDry'
  <2>1. primed' => n <= AudioLevel
    BY <1>6, <1>8
  <2>2. QED
    BY <1>2, <2>1 DEF NeverDry, NoPacket
<1>13. Owed' = Owed - n * One
  BY <1>1, <1>3, DryTypes DEF Owed
<1>14. Taking' = IF Filled THEN n ELSE 0
  <2>1. CASE n = 0
    BY <1>2, <2>1 DEF Taking, NoPacket
  <2>2. CASE n # 0
    <3>1. Taking' = IF 0 < AudioLevel THEN n - 0 ELSE 0
      BY <1>2, <2>2 DEF Taking
    <3>2. QED
      BY <1>3, <1>5, <1>8, <1>9, <2>2, <3>1
  <2>3. QED
    BY <2>1, <2>2
<1>15. /\ Filled => Slack' = Slack
       /\ Slack' >= Slack
       /\ Slack' \in Int
  <2>1. Slack' = (AudioLevel - Taking') * One - (Owed - n * One)
    BY <1>4, <1>13 DEF Slack
  <2>2. Slack = AudioLevel * One - Owed
    BY <1>4, <1>5 DEF Slack
  <2>3. One \in Nat /\ Owed \in Nat /\ n * One \in Nat /\ AudioLevel * One \in Nat
    <3>1. \A a, b \in Nat : a * b \in Nat
      OBVIOUS
    <3>2. QED
      BY <1>3, <1>5, <3>1, DryTypes
  <2>4. CASE Filled
    <3>1. Slack' = (AudioLevel - n) * One - (Owed - n * One)
      BY <1>14, <2>1, <2>4
    <3>2. (AudioLevel - n) * One = AudioLevel * One - n * One
      BY <1>3, <1>5, <2>3
    <3>3. QED
      BY <2>2, <2>3, <3>1, <3>2
  <2>5. CASE ~Filled
    <3>1. Slack' = (AudioLevel - 0) * One - (Owed - n * One)
      BY <1>14, <2>1, <2>5
    <3>2. QED
      BY <1>5, <2>2, <2>3, <2>5, <3>1
  <2>6. QED
    BY <2>4, <2>5
<1>16. SlackInv'
  BY <1>1, <1>7, <1>15 DEF DryInv, SlackInv, FullSlack, Period
<1>17. RefillInv'
  <2>1. CASE timer.pc = "idle"
    BY <1>1, <2>1 DEF RefillInv
  <2>2. CASE /\ Filled /\ Slack >= FullSlack
             /\ audio_ring.write + timer.avail = DviRingSize
    BY <1>1, <1>7, <1>15, <2>2 DEF RefillInv, FullSlack, Period
  <2>3. CASE Slack + timer.avail * One >= FullSlack + Period
    <3>1. Slack \in Int /\ FullSlack + Period \in Int
      BY DryTypes
    <3>2. timer.avail * One \in Int
      BY DryTypes DEF Inv, TypeOK, TimerStates
    <3>3. Slack' + timer.avail * One >= FullSlack + Period
      BY <1>15, <2>3, <3>1, <3>2
    <3>4. QED
      BY <1>1, <3>3 DEF RefillInv, FullSlack, Period
  <2>4. QED
    BY <2>1, <2>2, <2>3 DEF DryInv, RefillInv
<1>18. QED
  BY <1>10, <1>11, <1>12, <1>16, <1>17 DEF DryInv

LEMMA DryNext ==
  Inv /\ Ample /\ DryInv /\ [MCNext]_<<vars, primed>> => DryInv'
<1> SUFFICES ASSUME Inv, Ample, DryInv, [MCNext]_<<vars, primed>> PROVE DryInv'
  OBVIOUS
<1>1. CASE UNCHANGED <<vars, primed>>
  BY <1>1, RestDry DEF vars
<1>2. CASE MCNext
  <2>1. CASE StartFrame \/ RenderChunk \/ PlayChunk \/ WriteChunk \/ StoreSample
             \/ PublishSample
    <3>1. UNCHANGED <<audio_ring, timer, core1Vars, since>>
      BY <2>1 DEF StartFrame, RenderChunk, PlayChunk, WriteChunk, StoreSample,
                  PublishSample
    <3>2. QED
      BY <1>2, <3>1, RestDry
  <2>2. CASE TimerFires \/ TimerFills \/ TimerPublishes
    BY <1>2, <2>2, TimerFiresDry, TimerFillsDry, TimerPublishesDry
  <2>3. CASE ScanlineIrq \/ PutSample
    BY <1>2, <2>3, ScanlineIrqDry, PutSampleDry
  <2>4. QED
    BY <1>2, <2>1, <2>2, <2>3 DEF MCNext, Next
<1>3. QED
  BY <1>1, <1>2

(* Once filled, audio_ring is never found empty by core 1: a refill of each *)
(* period, although the end of the buffer may cut it short, is enough when  *)
(* the ring covers three periods.                                           *)
THEOREM NeverRunsDry == ASSUME Ample PROVE MCSpec => []NeverDry
<1>1. MCSpec => Spec
  <2>1. MCInit => Init
    BY DEF MCInit
  <2>2. [MCNext]_<<vars, primed>> => [Next]_vars
    BY DEF MCNext
  <2>3. QED
    BY <2>1, <2>2, PTL DEF MCSpec, Spec
<1>2. Inv /\ DryInv /\ [MCNext]_<<vars, primed>> => DryInv'
  BY DryNext
<1>3. DryInv => NeverDry
  BY DEF DryInv
<1>4. QED
  BY <1>1, <1>2, <1>3, DryInit, AudioInvariant, PTL DEF MCSpec
=============================================================================
