---------------------------- MODULE SampleStream ----------------------------
(***************************************************************************)
(* What the sound path is promised to be: the samples the emulator renders *)
(* come out of the HDMI link in the order they were rendered, each exactly *)
(* once, with silence in between wherever the source is behind.  A sample  *)
(* is named by its place in the stream, modulo Names.                      *)
(***************************************************************************)
EXTENDS Integers, Sequences

CONSTANTS
  Names,    \* how many names of samples there are
  Silence   \* a sample nobody rendered

VARIABLES
  rendered,  \* the name of the next sample
  pending,   \* samples on their way
  heard      \* the last sample that was sent

vars == <<rendered, pending, heard>>

Init == /\ rendered = 0
        /\ pending = << >>
        /\ heard = Silence

Accept == /\ pending' = Append(pending, rendered)
          /\ rendered' = (rendered + 1) % Names
          /\ UNCHANGED heard

\* The source is behind: silence takes a place in the stream.
Fill == /\ pending' = Append(pending, Silence)
        /\ UNCHANGED <<rendered, heard>>

Deliver == /\ pending # << >>
           /\ heard' = Head(pending)
           /\ pending' = Tail(pending)
           /\ UNCHANGED rendered

\* ... or is sent without one.
Pad == /\ heard' = Silence
       /\ UNCHANGED <<rendered, pending>>

Next == Accept \/ Fill \/ Deliver \/ Pad

Spec == Init /\ [][Next]_vars

FairSpec == Spec /\ WF_vars(Deliver)
=============================================================================
