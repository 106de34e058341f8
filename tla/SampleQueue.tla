----------------------------- MODULE SampleQueue -----------------------------
(***************************************************************************)
(* What the playback buffer promises: a bounded queue of sound.  What is   *)
(* put in is a prefix of what the server sent next, what comes out comes   *)
(* out in the order it was put in, and a restart empties the queue.        *)
(***************************************************************************)
EXTENDS Naturals, Sequences

CONSTANTS
  Capacity,  \* bytes the queue holds
  Chunks,    \* sizes of the pieces of sound the server sends
  Silence,   \* the value of a byte of silence
  Serials    \* bytes of sound are numbered modulo Serials

VARIABLES
  queue,     \* the bytes waiting to be played
  played,    \* the bytes the last callback played
  serial     \* number of the next byte the server sends

Sound(k) == [i \in 1 .. k |-> (serial + i - 1) % Serials]
Quiet(k) == [i \in 1 .. k |-> Silence]

Init == queue = <<>> /\ played = <<>> /\ serial = 0

\* The server sends n bytes, of which the first k find their way in.
Put ==
  \E n \in Chunks : \E k \in 0 .. n :
    /\ Len(queue) + k <= Capacity
    /\ queue' = queue \o Sound(k)
    /\ serial' = (serial + n) % Serials
    /\ UNCHANGED played

Play ==
  \E k \in 1 .. Len(queue) :
    /\ played' = SubSeq(queue, 1, k)
    /\ queue' = SubSeq(queue, k + 1, Len(queue))
    /\ UNCHANGED serial

Restart ==
  \E k \in 0 .. Capacity :
    /\ queue' = Quiet(k)
    /\ UNCHANGED <<played, serial>>

Next == Put \/ Play \/ Restart

vars == <<queue, played, serial>>

Spec == Init /\ [][Next]_vars
===============================================================================
