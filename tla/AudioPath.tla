----------------------------- MODULE AudioPath -----------------------------
(***************************************************************************)
(* The way of a sound sample from the emulator to the HDMI link, over two  *)
(* single-producer single-consumer rings:                                  *)
(*                                                                         *)
(*   game loop, core 0        RenderAndPlayAudio  --> snd_ring             *)
(*   timer interrupt, core 0  audio_timer_cb      snd_ring --> audio_ring  *)
(*   DMA interrupt, core 1    dvi_update_data_packet_   audio_ring --> HDMI *)
(*                                                                         *)
(* The timer interrupt preempts the game loop and runs to its end before   *)
(* the game loop goes on, but core 1 runs in parallel with both: an action *)
(* of core 0 or of core 1 is at most one access to what they share.        *)
(* The only client of the path registers no fill callback (emu_sndInit     *)
(* passes NULL), so that part of audio_timer_cb is never entered.          *)
(***************************************************************************)
EXTENDS VideoTiming, Sequences

CONSTANTS
  SndRingSize,   \* SND_RING_SIZE
  IndexRange,    \* 2^32: snd_wr and snd_rd are free-running uint32_t
  DviRingSize,   \* AUDIO_BUFFER_SIZE
  FrameSamples,  \* samples rendered for each emulated frame, 772 in LoopZ80
  Chunk,         \* samples rendered at a time, 256
  SamplesPerLine,\* samples_per_line24
  One,           \* 2^24: one whole sample of audio_sample_pos
  TimerLines,    \* timing bound: scanlines from one refill to the next
  Names,         \* a sample is named by its place in the stream, modulo Names
  Silence        \* the sample of value 0 that nobody rendered

ASSUME RingAssumption ==
  /\ SndRingSize \in Nat \ {0}
  /\ IndexRange \in Nat /\ IndexRange % SndRingSize = 0
  /\ SndRingSize < IndexRange
  /\ DviRingSize \in Nat /\ 1 < DviRingSize
ASSUME RenderAssumption ==
  /\ FrameSamples \in Nat \ {0}
  /\ Chunk \in Nat \ {0}
  /\ Names \in Nat \ {0}
ASSUME RateAssumption ==
  /\ One \in Nat \ {0}
  /\ SamplesPerLine \in Nat /\ SamplesPerLine <= 2 * One
  /\ TimerLines \in Nat \ {0}

VARIABLES
  snd_ring, snd_wr, snd_rd,
  rendered,          \* the name of the next sample RenderAudio makes
  game,              \* locals of RenderAndPlayAudio and what it calls
  audio_ring,        \* [buffer, read, write]
  timer,             \* locals of audio_timer_cb
  timing_state, audio_sample_pos,
  packet,            \* locals of dvi_update_data_packet_
  heard,             \* the last sample put into a packet
  since              \* scanlines since the last refill, bounded by TimerLines

soundVars == <<snd_ring, snd_wr, snd_rd>>
core1Vars == <<timing_state, audio_sample_pos, packet, heard>>
vars == <<soundVars, rendered, game, audio_ring, timer, core1Vars, since>>

Least(a, b) == IF a < b THEN a ELSE b

SndIndexes == 0 .. IndexRange - 1
DviIndexes == 0 .. DviRingSize - 1
Samples == 0 .. Names - 1

OutOfFrame == [pc |-> "frame", samples |-> 0, i |-> 0, j |-> 0, n |-> 0, k |-> 0]
IdleTimer == [pc |-> "idle", avail |-> 0, done |-> 0]
NoPacket == [pc |-> "wait", n |-> 0, read_size |-> 0, i |-> 0]

Init ==
  /\ snd_ring = [x \in 0 .. SndRingSize - 1 |-> Silence]
  /\ snd_wr = 0
  /\ snd_rd = 0
  /\ rendered = 0
  /\ game = OutOfFrame
  /\ audio_ring = [buffer |-> [x \in DviIndexes |-> Silence],
                   read |-> 0, write |-> 0]
  /\ timer = IdleTimer
  /\ timing_state = FirstLine
  /\ audio_sample_pos = 0
  /\ packet = NoPacket
  /\ heard = Silence
  /\ since = 0

(***************************************************************************)
(* The game loop.  It runs only while the timer interrupt does not.        *)
(***************************************************************************)
InGameLoop(pc) == timer.pc = "idle" /\ game.pc = pc

SndLevel == (snd_wr - snd_rd) % IndexRange

\* display_backend_get_free_audio.  Mutant: it forgets what is queued.
FreeSlots_All == SndRingSize
FreeSlots == SndRingSize - SndLevel

\* RenderAndPlayAudio clips the frame to what there is room for ...
StartFrame ==
  /\ InGameLoop("frame")
  /\ FreeSlots > 0
  /\ game' = [OutOfFrame EXCEPT !.pc = "render",
                                !.samples = Least(FrameSamples, FreeSlots)]
  /\ UNCHANGED <<soundVars, rendered, audio_ring, timer, core1Vars, since>>

\* ... and renders it a chunk at a time: Buf[k] is sample rendered - j + k.
RenderChunk ==
  /\ InGameLoop("render")
  /\ LET j == Least(game.samples - game.i, Chunk) IN
       /\ game' = [game EXCEPT !.pc = "play", !.j = j]
       /\ rendered' = (rendered + j) % Names
  /\ UNCHANGED <<soundVars, audio_ring, timer, core1Vars, since>>

Buf(k) == (rendered - game.j + k) % Names

\* PlayAudio and, within it, display_backend_write_audio clip it again.
PlayChunk ==
  /\ InGameLoop("play")
  /\ game' = IF FreeSlots = 0 THEN OutOfFrame
             ELSE [game EXCEPT !.pc = "write", !.n = Least(game.j, FreeSlots)]
  /\ UNCHANGED <<soundVars, rendered, audio_ring, timer, core1Vars, since>>

WriteChunk ==
  /\ InGameLoop("write")
  /\ game' = IF FreeSlots = 0 THEN OutOfFrame
             ELSE [game EXCEPT !.pc = "store", !.n = Least(game.n, FreeSlots),
                               !.k = 0]
  /\ UNCHANGED <<soundVars, rendered, audio_ring, timer, core1Vars, since>>

StoreSample ==
  /\ InGameLoop("store")
  /\ snd_ring' = [snd_ring EXCEPT ![snd_wr % SndRingSize] = Buf(game.k)]
  /\ game' = [game EXCEPT !.pc = "publish"]
  /\ UNCHANGED <<snd_wr, snd_rd, rendered, audio_ring, timer, core1Vars, since>>

\* A chunk that was cut short ends the frame (the break of the loop).
AfterSample ==
  IF game.k + 1 < game.n THEN [game EXCEPT !.pc = "store", !.k = @ + 1]
  ELSE IF game.n = game.j /\ game.i + game.j < game.samples
  THEN [OutOfFrame EXCEPT !.pc = "render", !.samples = game.samples,
                          !.i = game.i + game.j]
  ELSE OutOfFrame

PublishSample ==
  /\ InGameLoop("publish")
  /\ snd_wr' = (snd_wr + 1) % IndexRange
  /\ game' = AfterSample
  /\ UNCHANGED <<snd_ring, snd_rd, rendered, audio_ring, timer, core1Vars, since>>

(***************************************************************************)
(* The timer interrupt tops audio_ring up, with silence if need be.        *)
(***************************************************************************)
\* get_write_size(ring, full = false): up to the end of the buffer only.
\* Mutants: it takes an empty ring for a full one; it goes on to the start.
WriteSize_Equal(rp, wp) == IF wp <= rp THEN rp - wp - 1
                           ELSE DviRingSize - wp - (IF rp = 0 THEN 1 ELSE 0)
WriteSize_Wraps(rp, wp) == IF wp < rp THEN rp - wp - 1
                           ELSE DviRingSize - wp + rp - 1
WriteSize(rp, wp) == IF wp < rp THEN rp - wp - 1
                     ELSE DviRingSize - wp - (IF rp = 0 THEN 1 ELSE 0)

TimerFires ==
  /\ timer.pc = "idle"
  /\ LET avail == WriteSize(audio_ring.read, audio_ring.write) IN
       IF avail = 0
       THEN since' = 0 /\ UNCHANGED timer
       ELSE /\ timer' = [pc |-> "fill", avail |-> avail, done |-> 0]
            /\ UNCHANGED since
  /\ UNCHANGED <<soundVars, rendered, game, audio_ring, core1Vars>>

\* Mutant: the sample is copied but not taken.
SndRdAfter_Kept == snd_rd
SndRdAfter == IF snd_rd = snd_wr THEN snd_rd ELSE (snd_rd + 1) % IndexRange

TimerFills ==
  /\ timer.pc = "fill"
  /\ audio_ring' = [audio_ring EXCEPT !.buffer[audio_ring.write + timer.done] =
                      IF snd_rd = snd_wr THEN Silence
                      ELSE snd_ring[snd_rd % SndRingSize]]
  /\ snd_rd' = SndRdAfter
  /\ timer' = [timer EXCEPT !.done = @ + 1,
                            !.pc = IF timer.done + 1 = timer.avail
                                   THEN "publish" ELSE "fill"]
  /\ UNCHANGED <<snd_ring, snd_wr, rendered, game, core1Vars, since>>

TimerPublishes ==
  /\ timer.pc = "publish"
  /\ audio_ring' = [audio_ring EXCEPT
                      !.write = (@ + timer.avail) % DviRingSize]
  /\ timer' = IdleTimer
  /\ since' = 0
  /\ UNCHANGED <<soundVars, rendered, game, core1Vars>>

(***************************************************************************)
(* Core 1, at the end of each scanline's interrupt.                        *)
(***************************************************************************)
\* get_read_size(ring, full = true).  Mutants: it takes an empty ring for a
\* full one; full = false.
ReadSize_Equal(rp, wp) == IF wp <= rp THEN DviRingSize - rp + wp ELSE wp - rp
ReadSize_ToEnd(rp, wp) == IF wp < rp THEN DviRingSize - rp ELSE wp - rp
ReadSize(rp, wp) == IF wp < rp THEN DviRingSize - rp + wp ELSE wp - rp

\* The first two lines of the front porch carry info frames instead.
\* Mutant: every line of it does.
CarriesInfo_All(t) == t.v_state = "front_porch"
CarriesInfo(t) == t.v_state = "front_porch" /\ t.v_ctr < 2

WholeSamples(pos) == Least(4, pos \div One)

PacketSamples(t, pos) == IF CarriesInfo(t) THEN 0 ELSE WholeSamples(pos)

ScanlineIrq ==
  LET t == Advanced(timing_state)
      pos == audio_sample_pos + SamplesPerLine
      n == PacketSamples(t, pos)
  IN
  /\ packet.pc = "wait"
  /\ since < TimerLines
  /\ since' = since + 1
  /\ timing_state' = t
  /\ audio_sample_pos' = pos - n * One
  /\ packet' = IF n = 0 THEN NoPacket
               ELSE [pc |-> "sample", n |-> n, i |-> 0, read_size |->
                       ReadSize(audio_ring.read, audio_ring.write)]
  /\ UNCHANGED <<soundVars, rendered, game, audio_ring, timer, heard>>

\* One turn of the loop of set_audio_sample.
PutSample ==
  /\ packet.pc = "sample"
  /\ IF packet.i < packet.read_size
     THEN /\ heard' = audio_ring.buffer[audio_ring.read]
          /\ audio_ring' = [audio_ring EXCEPT !.read = (@ + 1) % DviRingSize]
     ELSE /\ heard' = Silence
          /\ UNCHANGED audio_ring
  /\ packet' = IF packet.i + 1 = packet.n THEN NoPacket
               ELSE [packet EXCEPT !.i = @ + 1]
  /\ UNCHANGED <<soundVars, rendered, game, timer, timing_state,
                 audio_sample_pos, since>>

GameLoop == \/ StartFrame \/ RenderChunk \/ PlayChunk \/ WriteChunk
            \/ StoreSample \/ PublishSample
Timer == TimerFires \/ TimerFills \/ TimerPublishes
Core1 == ScanlineIrq \/ PutSample

Next ==
  \/ StartFrame \/ RenderChunk \/ PlayChunk \/ WriteChunk
  \/ StoreSample \/ PublishSample
  \/ TimerFires \/ TimerFills \/ TimerPublishes
  \/ ScanlineIrq \/ PutSample

Spec == Init /\ [][Next]_vars

(***************************************************************************)
(* The repeating timer and the scanline interrupt never stop.  The game    *)
(* loop may: the menu suspends it.                                         *)
(***************************************************************************)
FairSpec == Spec /\ WF_vars(Timer) /\ WF_vars(Core1)

-----------------------------------------------------------------------------
GameStates == [pc : {"frame", "render", "play", "write", "store", "publish"},
               samples : 0 .. FrameSamples, i : 0 .. FrameSamples,
               j : 0 .. Chunk, n : 0 .. Chunk, k : 0 .. Chunk]
TimerStates == [pc : {"idle", "fill", "publish"},
                avail : 0 .. DviRingSize, done : 0 .. DviRingSize]
PacketStates == [pc : {"wait", "sample"}, n : 0 .. 4,
                 read_size : 0 .. DviRingSize, i : 0 .. 3]

(* Every index is in its range, and every ring slot holds a sample.        *)
TypeOK ==
  /\ snd_ring \in [0 .. SndRingSize - 1 -> Samples \union {Silence}]
  /\ snd_wr \in SndIndexes
  /\ snd_rd \in SndIndexes
  /\ rendered \in Samples
  /\ game \in GameStates
  /\ audio_ring \in [buffer : [DviIndexes -> Samples \union {Silence}],
                     read : DviIndexes, write : DviIndexes]
  /\ timer \in TimerStates
  /\ timing_state \in TimingStates
  /\ audio_sample_pos \in Int
  /\ packet \in PacketStates
  /\ heard \in Samples \union {Silence}
  /\ since \in 0 .. TimerLines

(* The slots between read and write that core 1 has yet to send.           *)
Unread == {x \in DviIndexes :
             (x - audio_ring.read) % DviRingSize
               < (audio_ring.write - audio_ring.read) % DviRingSize}

(* audio_timer_cb walks a plain pointer through the buffer: it never       *)
(* leaves the buffer, and never overwrites a sample core 1 has not sent,   *)
(* however far core 1 has come since get_write_size looked at its index.   *)
FillsFreeSlots ==
  timer.pc = "fill" => /\ audio_ring.write + timer.done \in DviIndexes
                       /\ audio_ring.write + timer.done \notin Unread

(* set_audio_sample reads no more samples than have been published.        *)
ReadsPublished ==
  packet.pc = "sample" /\ packet.i < packet.read_size
    => audio_ring.read \in Unread

(* RenderAndPlayAudio never renders a sample it then throws away: the room *)
(* it saw can only have grown when PlayAudio and the ring look again.      *)
NothingCutShort ==
  /\ SndLevel <= SndRingSize
  /\ game.pc = "play" => game.j <= FreeSlots
  /\ game.pc \in {"write", "store", "publish"} => game.n = game.j
  /\ game.pc \in {"write", "store", "publish"} => game.n - game.k <= FreeSlots

(* The fractional position neither overflows its int nor runs away: what   *)
(* the info frames hold back is sent within the next lines.                *)
PositionBounded == audio_sample_pos \in 0 .. 5 * One

-----------------------------------------------------------------------------
(* The two rings, the interrupt between them and the chunk still in Buf    *)
(* implement a queue.                                                      *)
RingContents(ring, size, from, count) ==
  [x \in 1 .. count |-> ring[(from + x - 1) % size]]

InAudioRing ==
  RingContents(audio_ring.buffer, DviRingSize, audio_ring.read,
    ((audio_ring.write - audio_ring.read) % DviRingSize) + timer.done)

InSndRing == RingContents(snd_ring, SndRingSize, snd_rd % SndRingSize, SndLevel)

InBuf == IF game.pc \in {"play", "write", "store", "publish"}
         THEN game.j - game.k ELSE 0

Stream == INSTANCE SampleStream WITH
  rendered <- (rendered - InBuf) % Names,
  pending <- InAudioRing \o InSndRing

Fifo == Stream!Spec
FairFifo == Stream!FairSpec
=============================================================================
