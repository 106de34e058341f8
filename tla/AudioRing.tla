------------------------------ MODULE AudioRing ------------------------------
(***************************************************************************)
(* The playback ring of libvncclient/audio.c and the audio part of         *)
(* HandleRFBServerMessage() that fills it, each function taken as one      *)
(* step.  A byte of sound is its serial number modulo Serials.             *)
(***************************************************************************)
EXTENDS Integers, Sequences

CONSTANTS
  Total,          \* size of the ring in bytes, as audioInit() computes it
  SampleSize,     \* GetSampleSize: bytes of a sample of all channels
  Periods,        \* bytes the device asks for in a callback
  MAX_AUDIO_BYTES,
  Messages,       \* lengths of audio data messages
  Formats,        \* formats of the audio profiles: "pcm", "opus"
  Decoded,        \* sizes an Opus packet decodes to, 0 for an undecodable one
  DelayPeriods,   \* periods of delay from which chunks are trimmed, 5 in the code
  Prelude,        \* bytes of silence a stream starts with (20 ms)
  Serials         \* bound: bytes are numbered modulo Serials

Chunks == 0 .. MAX_AUDIO_BYTES

ASSUME RingAssumption ==
  /\ Total \in Nat \ {0} /\ \E k \in 0 .. Total : Total = 2 ^ k
  /\ SampleSize \in 1 .. Total /\ Total % SampleSize = 0
  /\ Periods \subseteq 1 .. Total
  /\ MAX_AUDIO_BYTES \in Nat \ {0}
  /\ Messages \subseteq Nat
  /\ Formats \subseteq {"pcm", "opus"}
  /\ Decoded \subseteq Nat
  /\ DelayPeriods \in Nat \ {0}
  /\ Prelude \in Nat
  /\ Serials \in Nat \ {0}

VARIABLES
  fmt,                \* format of the audio profile, chosen when the program starts
  audioEngineState,   \* the device is running
  configured,         \* audioInit() has set format, channels and frequency
  bufPtr,             \* the ring
  bufTotalSize,
  bufFreeSize,
  bufUnsubmittedSize,
  bufSubmittedHead,   \* where the callback reads
  bufUnsubmittedHead, \* where the network thread writes
  fbytes,             \* size of the last callback that found sound, 0 before
  dataLength,         \* rest of the data message being read
  serial,             \* number of the next byte the server sends
  played              \* what the last callback played

sizes == <<bufTotalSize, bufFreeSize, bufUnsubmittedSize, bufSubmittedHead,
           bufUnsubmittedHead>>
vars == <<fmt, audioEngineState, configured, bufPtr, sizes, fbytes, dataLength,
          serial, played>>

Silence == Serials
Bytes == 0 .. Serials
Offsets == 0 .. Total - 1

\* The data is Opus packets once audioInit() has said so, PCM otherwise.
opusEnabled == configured /\ fmt = "opus"

\* x & (bufTotalSize - 1), bufTotalSize being a power of two.
Wrap(x) == x % Total

\* How far offset o lies behind head, around the ring.
Behind(o, head) == IF o >= head THEN o - head ELSE o + Total - head

Init ==
  /\ fmt \in Formats
  /\ audioEngineState = FALSE /\ configured = FALSE
  /\ bufPtr = [o \in Offsets |-> Silence]
  /\ bufTotalSize = 0 /\ bufFreeSize = 0 /\ bufUnsubmittedSize = 0
  /\ bufSubmittedHead = 0 /\ bufUnsubmittedHead = 0
  /\ fbytes = 0 /\ dataLength = 0
  /\ serial = 0 /\ played = <<>>

\* Mutant: the callback's head is not set back.
EmptyRingKeepsHead(total) ==
  /\ bufTotalSize' = total /\ bufFreeSize' = total
  /\ bufUnsubmittedSize' = 0
  /\ bufUnsubmittedHead' = 0
  /\ UNCHANGED bufSubmittedHead

\* The ring is empty and total bytes long.
EmptyRing(total) ==
  /\ bufTotalSize' = total /\ bufFreeSize' = total
  /\ bufUnsubmittedSize' = 0
  /\ bufSubmittedHead' = 0 /\ bufUnsubmittedHead' = 0

\* audioInit(), for the audio pseudo-rectangle: it allocates the ring and
\* starts the device, each of which may fail.
audioInit ==
  /\ dataLength = 0
  /\ configured' = TRUE
  /\ \/ /\ ~audioEngineState
        /\ audioEngineState' \in BOOLEAN
        /\ bufPtr' = [o \in Offsets |-> Silence]
        /\ EmptyRing(Total)
     \/ UNCHANGED <<audioEngineState, bufPtr, sizes>>
  /\ UNCHANGED <<fmt, fbytes, dataLength, serial, played>>

\* notifyStreamingStartStop(): the ring is emptied, and a stream that starts
\* is preceded by silence (addSilentSamples()).
notifyStreamingStartStop(isStart) ==
  /\ dataLength = 0
  /\ LET total == IF configured THEN Total ELSE 0
         k == IF Prelude < total THEN Prelude ELSE total
     IN IF isStart /\ audioEngineState
        THEN /\ bufPtr' = [o \in Offsets |-> IF o < k THEN Silence ELSE bufPtr[o]]
             /\ bufTotalSize' = total
             /\ bufFreeSize' = total - k
             /\ bufUnsubmittedSize' = k
             /\ bufSubmittedHead' = 0
             /\ bufUnsubmittedHead' = Wrap(k)
        ELSE EmptyRing(total) /\ UNCHANGED bufPtr
  /\ UNCHANGED <<fmt, audioEngineState, configured, fbytes, dataLength, serial, played>>

\* rfbQemuAudioData: a message of n bytes begins.
AudioData(n) ==
  /\ dataLength = 0
  /\ dataLength' = n
  /\ UNCHANGED <<fmt, audioEngineState, configured, bufPtr, sizes, fbytes, serial, played>>

\* Mutant: the comparison is the wrong way round.
TrimmedEarly(size) ==
  IF bufUnsubmittedSize < fbytes * DelayPeriods THEN size \div 2 ELSE size

\* Mutant: a quarter of the chunk is kept.
TrimmedToQuarter(size) ==
  IF bufUnsubmittedSize > fbytes * DelayPeriods THEN size \div 4 ELSE size

\* The first half of a chunk is kept when too much is waiting.
Trimmed(size) ==
  IF bufUnsubmittedSize > fbytes * DelayPeriods THEN size \div 2 ELSE size

\* What of size bytes there is room for.
Fitting(size) == IF size > bufFreeSize THEN bufFreeSize ELSE size

\* addSamples() for size bytes of sound: they go in behind the last ones, once
\* around the end of the ring, as far as there is room.
addSamples(size) ==
  /\ IF ~audioEngineState \/ size = 0
     THEN UNCHANGED <<bufPtr, sizes>>
     ELSE LET k == Fitting(Trimmed(size))
          IN /\ bufPtr' = [o \in Offsets |->
                             IF Behind(o, bufUnsubmittedHead) < k
                             THEN (serial + Behind(o, bufUnsubmittedHead)) % Serials
                             ELSE bufPtr[o]]
             /\ bufUnsubmittedHead' = Wrap(bufUnsubmittedHead + k)
             /\ bufFreeSize' = bufFreeSize - k
             /\ bufUnsubmittedSize' = bufUnsubmittedSize + k
             /\ UNCHANGED <<bufTotalSize, bufSubmittedHead>>
  /\ serial' = (serial + size) % Serials

\* One turn of the loop that reads a data message in chunks.
ReadChunk ==
  /\ dataLength > 0
  /\ LET chunk == IF dataLength > MAX_AUDIO_BYTES THEN MAX_AUDIO_BYTES ELSE dataLength
     IN /\ dataLength' = dataLength - chunk
        /\ \E size \in IF opusEnabled THEN Decoded ELSE {chunk} : addSamples(size)
  /\ UNCHANGED <<fmt, audioEngineState, configured, fbytes, played>>

\* Mutant: the callback copies up to the end of the ring and stops there.
audioOutCallbackOnce(period) ==
  /\ audioEngineState
  /\ bufUnsubmittedSize > 0
  /\ fbytes' = period
  /\ LET k == IF bufUnsubmittedSize > period THEN period ELSE bufUnsubmittedSize
         first == IF k + bufSubmittedHead > Total THEN Total - bufSubmittedHead ELSE k
     IN /\ played' = [i \in 1 .. first |-> bufPtr[bufSubmittedHead + i - 1]]
        /\ bufSubmittedHead' = Wrap(bufSubmittedHead + first)
        /\ bufUnsubmittedSize' = bufUnsubmittedSize - k
        /\ bufFreeSize' = bufFreeSize + k
  /\ UNCHANGED <<fmt, audioEngineState, configured, bufPtr, bufTotalSize,
                 bufUnsubmittedHead, dataLength, serial>>

\* audioOutCallback(): the device takes up to period bytes.
audioOutCallback(period) ==
  /\ audioEngineState
  /\ bufUnsubmittedSize > 0
  /\ fbytes' = period
  /\ LET k == IF bufUnsubmittedSize > period THEN period ELSE bufUnsubmittedSize
     IN /\ played' = [i \in 1 .. k |-> bufPtr[Wrap(bufSubmittedHead + i - 1)]]
        /\ bufSubmittedHead' = Wrap(bufSubmittedHead + k)
        /\ bufUnsubmittedSize' = bufUnsubmittedSize - k
        /\ bufFreeSize' = bufFreeSize + k
  /\ UNCHANGED <<fmt, audioEngineState, configured, bufPtr, bufTotalSize,
                 bufUnsubmittedHead, dataLength, serial>>

Next ==
  \/ audioInit
  \/ \E isStart \in BOOLEAN : notifyStreamingStartStop(isStart)
  \/ \E n \in Messages : AudioData(n)
  \/ ReadChunk
  \/ \E period \in Periods : audioOutCallback(period)

Spec == Init /\ [][Next]_vars

-------------------------------------------------------------------------------
(* Properties. *)

TypeOK ==
  /\ fmt \in Formats
  /\ audioEngineState \in BOOLEAN /\ configured \in BOOLEAN
  /\ bufPtr \in [Offsets -> Bytes]
  /\ bufTotalSize \in {0, Total}
  /\ bufFreeSize \in 0 .. Total /\ bufUnsubmittedSize \in 0 .. Total
  /\ bufSubmittedHead \in Offsets /\ bufUnsubmittedHead \in Offsets
  /\ fbytes \in Periods \cup {0}
  /\ dataLength \in Nat
  /\ serial \in 0 .. Serials - 1
  /\ played \in Seq(Bytes)

\* The two sizes and the two heads, which network thread and callback move
\* independently, describe the same ring.
Accounting ==
  /\ bufFreeSize + bufUnsubmittedSize = bufTotalSize
  /\ bufUnsubmittedHead = Wrap(bufSubmittedHead + bufUnsubmittedSize)
  /\ audioEngineState => configured /\ bufTotalSize = Total

\* Sound stays on sample boundaries, so that the channels are never swapped,
\* when every data message is an even number of samples: otherwise halving a
\* chunk may split one.
Aligned ==
  (/\ \A n \in Messages \cup Decoded \cup {MAX_AUDIO_BYTES} : n % (2 * SampleSize) = 0
   /\ \A p \in Periods \cup {Prelude} : p % SampleSize = 0)
  => /\ bufSubmittedHead % SampleSize = 0
     /\ bufUnsubmittedHead % SampleSize = 0

\* The sound still to be played, oldest byte first.
Waiting ==
  [i \in 1 .. bufUnsubmittedSize |-> bufPtr[Wrap(bufSubmittedHead + i - 1)]]

Queue == INSTANCE SampleQueue
  WITH Capacity <- Total,
       Chunks <- Chunks \cup Decoded,
       queue <- Waiting

\* The ring is a bounded queue: whatever the order of callbacks, chunks and
\* restarts, the callback plays the bytes the server sent in their order, none
\* twice, none overwritten while it waits.
ImplementsSampleQueue == Queue!Spec

\* The step reads a chunk of c bytes that the ring has room for, with no more
\* than DelayPeriods of the shortest callback waiting.
ChunkIsDue(c) ==
  /\ c > 0
  /\ audioEngineState
  /\ c <= bufFreeSize
  /\ \A p \in Periods : bufUnsubmittedSize <= DelayPeriods * p

\* Once a callback has run, sound is skipped in case of delay only.
SkipsOnlyWhenDelayed ==
  [][fbytes > 0 /\ ~opusEnabled /\ ChunkIsDue(dataLength - dataLength') =>
       bufUnsubmittedSize' = bufUnsubmittedSize + (dataLength - dataLength')]_vars
===============================================================================
