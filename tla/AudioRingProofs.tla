--------------------------- MODULE AudioRingProofs ---------------------------
(***************************************************************************)
(* The two sizes and two heads of the playback ring agree, for a ring of   *)
(* any size and whatever the lengths of messages, chunks and callbacks;    *)
(* sound is skipped for delay only; no half of a sample is ever played;    *)
(* and the ring is the queue that SampleQueue describes.                   *)
(***************************************************************************)
EXTENDS AudioRing, SequenceTheorems, TLAPS

\* The ring is not empty, and its assumptions in the form the proofs use.
LEMMA RingTypes ==
  /\ Total \in Nat \ {0}
  /\ Periods \subseteq Nat \ {0}
  /\ MAX_AUDIO_BYTES \in Nat \ {0}
  /\ Messages \subseteq Nat
  /\ Decoded \subseteq Nat
  /\ Prelude \in Nat
  /\ Serials \in Nat \ {0}
BY RingAssumption

\* What masking does to the offsets that occur, less than twice round the ring.
LEMMA WrapValue ==
  \A x \in 0 .. 2 * Total - 1 : Wrap(x) = IF x < Total THEN x ELSE x - Total
<1> TAKE x \in 0 .. 2 * Total - 1
<1> USE RingTypes
<1>1. CASE x < Total
  BY <1>1, SMT DEF Wrap
<1>2. CASE x >= Total
  BY <1>2, SMT DEF Wrap
<1> QED BY <1>1, <1>2

\* A turn round the ring taken before a step is one taken after it.
LEMMA WrapOnce ==
  ASSUME NEW x \in Nat, NEW k \in Nat, x + k < 2 * Total,
         NEW y, y = IF x < Total THEN x ELSE x - Total
  PROVE  Wrap(y + k) = Wrap(x + k)
<1> USE RingTypes
<1>1. x + k \in 0 .. 2 * Total - 1 /\ y + k \in 0 .. 2 * Total - 1
  OBVIOUS
<1>2. Wrap(x + k) = IF x + k < Total THEN x + k ELSE x + k - Total
  BY <1>1, WrapValue
<1>3. Wrap(y + k) = IF y + k < Total THEN y + k ELSE y + k - Total
  BY <1>1, WrapValue
<1>4. y + k = IF x < Total THEN x + k ELSE x + k - Total
  OBVIOUS
<1>5. x >= Total => y + k < Total
  BY <1>4
<1> QED BY <1>1, <1>2, <1>3, <1>4, <1>5

\* addSamples() never stores more than it was given or than there is room for.
LEMMA FittingTrimmed ==
  ASSUME TypeOK, NEW size \in Nat
  PROVE  /\ Fitting(Trimmed(size)) \in 0 .. bufFreeSize
         /\ Fitting(Trimmed(size)) <= size
<1>1. Trimmed(size) \in Nat /\ Trimmed(size) <= size
  <2>1. size \div 2 \in Nat /\ size \div 2 <= size
    BY SMT
  <2> QED BY <2>1 DEF Trimmed
<1>2. bufFreeSize \in Nat
  BY RingTypes DEF TypeOK
<1> QED BY <1>1, <1>2 DEF Fitting

\* A byte of sound is a byte.
LEMMA SoundIsByte ==
  \A x \in Nat : x % Serials \in 0 .. Serials - 1 /\ x % Serials \in Bytes
BY RingTypes, SMT DEF Bytes

Invariant == TypeOK /\ Accounting

\* The program starts with an empty ring of no bytes.
LEMMA InitInvariant == Init => Invariant
<1> SUFFICES ASSUME Init PROVE Invariant
  OBVIOUS
<1> USE RingTypes DEF Init
<1>1. TypeOK
  <2>1. bufPtr \in [Offsets -> Bytes]
    BY DEF Bytes, Silence
  <2>2. played \in Seq(Bytes)
    OBVIOUS
  <2>3. /\ bufTotalSize \in {0, Total}
        /\ bufFreeSize \in 0 .. Total /\ bufUnsubmittedSize \in 0 .. Total
        /\ bufSubmittedHead \in Offsets /\ bufUnsubmittedHead \in Offsets
        /\ dataLength \in Nat /\ serial \in 0 .. Serials - 1
    BY SMT DEF Offsets
  <2>4. fmt \in Formats /\ audioEngineState \in BOOLEAN /\ configured \in BOOLEAN
    BY Zenon
  <2>5. fbytes \in Periods \cup {0}
    BY Zenon
  <2> QED BY ONLY <2>1, <2>2, <2>3, <2>4, <2>5 DEF TypeOK
<1>2. Accounting
  BY WrapValue DEF Accounting
<1> QED BY <1>1, <1>2 DEF Invariant

\* audioInit() leaves a ring whose sizes and heads agree, or the one it found.
LEMMA InitRingStep == Invariant /\ audioInit => Invariant'
<1> SUFFICES ASSUME Invariant, audioInit PROVE Invariant'
  OBVIOUS
<1> USE RingTypes DEF Invariant, TypeOK, Accounting
<1>1. CASE UNCHANGED <<audioEngineState, bufPtr, sizes>>
  BY <1>1 DEF audioInit, sizes, Wrap
<1>2. CASE /\ audioEngineState' \in BOOLEAN
           /\ bufPtr' = [o \in Offsets |-> Silence]
           /\ EmptyRing(Total)
  <2>1. TypeOK'
    BY <1>2 DEF audioInit, EmptyRing, Offsets, Bytes, Silence
  <2>2. Accounting'
    BY <1>2, WrapValue DEF audioInit, EmptyRing
  <2> QED BY <2>1, <2>2
<1> QED BY <1>1, <1>2 DEF audioInit

\* A stream that starts or stops leaves a ring whose sizes and heads agree.
LEMMA NotifyStep ==
  ASSUME NEW isStart \in BOOLEAN, Invariant, notifyStreamingStartStop(isStart)
  PROVE  Invariant'
<1> USE RingTypes DEF Invariant, TypeOK, Accounting
<1> DEFINE total == IF configured THEN Total ELSE 0
           k == IF Prelude < total THEN Prelude ELSE total
<1>0. total \in {0, Total} /\ k \in 0 .. total
  OBVIOUS
<1>1. CASE isStart /\ audioEngineState
  <2>1. total = Total
    BY <1>1
  <2>2. TypeOK'
    BY <1>0, <1>1, <2>1, WrapValue
    DEF notifyStreamingStartStop, Offsets, Bytes, Silence
  <2>3. Accounting'
    BY <1>0, <1>1, <2>1 DEF notifyStreamingStartStop
  <2> QED BY <2>2, <2>3
<1>2. CASE ~(isStart /\ audioEngineState)
  <2>1. EmptyRing(total) /\ UNCHANGED <<fmt, bufPtr, audioEngineState, configured, fbytes,
                                         dataLength, serial, played>>
    BY <1>2 DEF notifyStreamingStartStop
  <2>2. TypeOK'
    BY <1>0, <2>1 DEF EmptyRing, Offsets
  <2>3. Accounting'
    BY <1>0, <2>1, WrapValue DEF EmptyRing
  <2> QED BY <2>2, <2>3
<1> QED BY <1>1, <1>2

\* The network thread: what goes in leaves the two sizes and heads in step.
LEMMA AddStep ==
  ASSUME NEW size \in Nat, Invariant, addSamples(size),
         dataLength' \in Nat,
         UNCHANGED <<fmt, audioEngineState, configured, fbytes, played>>
  PROVE  Invariant'
<1> USE RingTypes DEF Invariant, TypeOK, Accounting
<1>0. serial' \in 0 .. Serials - 1
  <2>1. serial + size \in Nat /\ serial' = (serial + size) % Serials
    BY DEF addSamples
  <2> QED BY ONLY <2>1, SoundIsByte
<1>1. CASE ~audioEngineState \/ size = 0
  BY <1>0, <1>1 DEF addSamples, sizes, Wrap
<1>2. CASE audioEngineState /\ size # 0
  <2> DEFINE k == Fitting(Trimmed(size))
  <2>1. k \in 0 .. bufFreeSize
    BY FittingTrimmed
  <2>2. bufTotalSize = Total /\ bufSubmittedHead \in 0 .. Total - 1
    BY <1>2 DEF Offsets
  <2>3. /\ bufUnsubmittedHead' = Wrap(bufUnsubmittedHead + k)
        /\ bufFreeSize' = bufFreeSize - k
        /\ bufUnsubmittedSize' = bufUnsubmittedSize + k
        /\ UNCHANGED <<bufTotalSize, bufSubmittedHead>>
    BY <1>2 DEF addSamples
  <2>4. bufPtr' \in [Offsets -> Bytes]
    <3>1. \A o \in Offsets : Behind(o, bufUnsubmittedHead) \in Nat
      BY DEF Behind, Offsets
    <3>2. \A o \in Offsets : serial + Behind(o, bufUnsubmittedHead) \in Nat
      BY <3>1
    <3>3. \A o \in Offsets : (serial + Behind(o, bufUnsubmittedHead)) % Serials \in Bytes
      BY ONLY <3>2, SoundIsByte
    <3> QED BY <1>2, <3>3 DEF addSamples
  <2>5. TypeOK'
    <3>1. bufUnsubmittedHead + k \in 0 .. 2 * Total - 1
      BY <2>1, <2>2 DEF Offsets
    <3>2. Wrap(bufUnsubmittedHead + k) \in Offsets
      <4>1. \A x \in 0 .. 2 * Total - 1 : Wrap(x) \in Offsets
        BY WrapValue DEF Offsets
      <4> QED BY ONLY <3>1, <4>1
    <3>3. /\ bufFreeSize' \in 0 .. Total /\ bufUnsubmittedSize' \in 0 .. Total
          /\ bufTotalSize' \in {0, Total}
          /\ bufSubmittedHead' \in Offsets /\ bufUnsubmittedHead' \in Offsets
      BY <2>1, <2>2, <2>3, <3>2
    <3>4. fmt' \in Formats /\ audioEngineState' \in BOOLEAN /\ configured' \in BOOLEAN
          /\ fbytes' \in Periods \cup {0} /\ played' \in Seq(Bytes)
      OBVIOUS
    <3> QED BY ONLY <1>0, <2>4, <3>3, <3>4, dataLength' \in Nat DEF TypeOK
  <2>6. bufUnsubmittedHead' = (bufSubmittedHead' + bufUnsubmittedSize') % Total
    <3> DEFINE x == bufSubmittedHead + bufUnsubmittedSize
    <3>1. x \in 0 .. 2 * Total - 1 /\ x + k \in 0 .. 2 * Total - 1
      BY <2>1, <2>2
    <3>2. bufUnsubmittedHead = IF x < Total THEN x ELSE x - Total
      <4>1. Wrap(x) = IF x < Total THEN x ELSE x - Total
        BY ONLY <3>1, WrapValue
      <4> QED BY ONLY <4>1, Accounting DEF Accounting
    <3>3. bufUnsubmittedHead + k \in 0 .. 2 * Total - 1
      BY <2>1, <2>2, <3>1, <3>2
    <3>4. Wrap(bufUnsubmittedHead + k) = Wrap(x + k)
      <4>1. x \in Nat /\ k \in Nat /\ x + k < 2 * Total
        BY <2>1, <3>1
      <4> HIDE DEF x
      <4> QED BY ONLY <3>2, <4>1, WrapOnce
    <3>5. bufSubmittedHead' + bufUnsubmittedSize' = x + k
      BY <2>1, <2>2, <2>3
    <3>6. bufUnsubmittedHead' = (x + k) % Total
      BY <2>3, <3>4 DEF Wrap
    <3> QED BY ONLY <3>5, <3>6, Zenon
  <2>7. /\ bufFreeSize' + bufUnsubmittedSize' = bufTotalSize'
        /\ audioEngineState' => configured' /\ bufTotalSize' = Total
    BY <2>1, <2>3
  <2>8. Accounting'
    BY ONLY <2>6, <2>7 DEF Accounting, Wrap
  <2> QED BY <2>5, <2>8
<1> QED BY <1>1, <1>2

\* The device's thread: what comes out leaves the two sizes and heads in step.
LEMMA CallbackStep ==
  ASSUME NEW period \in Periods, Invariant, audioOutCallback(period)
  PROVE  Invariant'
<1> USE RingTypes DEF Invariant, TypeOK, Accounting
<1> DEFINE k == IF bufUnsubmittedSize > period THEN period ELSE bufUnsubmittedSize
           next == bufSubmittedHead + bufUnsubmittedSize
<1>1. k \in 1 .. bufUnsubmittedSize
  BY DEF audioOutCallback
<1>2. bufTotalSize = Total /\ bufSubmittedHead \in 0 .. Total - 1
  BY DEF audioOutCallback, Offsets
<1>3. /\ bufSubmittedHead' = Wrap(bufSubmittedHead + k)
      /\ bufUnsubmittedSize' = bufUnsubmittedSize - k
      /\ bufFreeSize' = bufFreeSize + k
      /\ fbytes' = period
      /\ played' = [i \in 1 .. k |-> bufPtr[Wrap(bufSubmittedHead + i - 1)]]
      /\ UNCHANGED <<fmt, audioEngineState, configured, bufPtr, bufTotalSize,
                     bufUnsubmittedHead, dataLength, serial>>
  BY DEF audioOutCallback
<1>4. bufSubmittedHead + k \in 0 .. 2 * Total - 1
  BY <1>1, <1>2
<1>5. played' \in Seq(Bytes)
  <2>1. \A i \in 1 .. k : bufSubmittedHead + i - 1 \in 0 .. 2 * Total - 1
    BY <1>1, <1>2
  <2>2. \A i \in 1 .. k : Wrap(bufSubmittedHead + i - 1) \in Offsets
    BY <2>1, WrapValue DEF Offsets
  <2>3. \A i \in 1 .. k : bufPtr[Wrap(bufSubmittedHead + i - 1)] \in Bytes
    BY <2>2
  <2> QED BY <1>1, <1>3, <2>3
<1>6. TypeOK'
  <2>1. bufSubmittedHead' \in Offsets
    BY <1>3, <1>4, WrapValue DEF Offsets
  <2> QED BY <1>1, <1>2, <1>3, <1>5, <2>1
<1>7. Accounting'
  <2>1. bufSubmittedHead' = IF bufSubmittedHead + k < Total
                            THEN bufSubmittedHead + k
                            ELSE bufSubmittedHead + k - Total
    <3> HIDE DEF k
    <3>1. bufSubmittedHead \in Int /\ k \in Int /\ Total \in Int
      BY <1>1, <1>2
    <3>2. Wrap(bufSubmittedHead + k) = IF bufSubmittedHead + k < Total
                                       THEN bufSubmittedHead + k
                                       ELSE bufSubmittedHead + k - Total
      BY ONLY <1>4, <3>1, WrapValue
    <3> QED BY ONLY <1>3, <3>2
  <2>2. bufSubmittedHead' + bufUnsubmittedSize' \in {next, next - Total}
    BY <1>1, <1>2, <1>3, <2>1
  <2>3. bufSubmittedHead' + bufUnsubmittedSize' \in Nat
    BY <1>1, <1>2, <1>3, <2>1
  <2>4. next \in 0 .. 2 * Total - 1
    BY <1>2
  <2>5. (bufSubmittedHead' + bufUnsubmittedSize') % Total = next % Total
    BY ONLY <2>2, <2>3, <2>4, RingTypes, WrapValue, SMT DEF Wrap
  <2>6. bufUnsubmittedHead' = next % Total
    BY <1>3 DEF Wrap
  <2>7. bufUnsubmittedHead' = (bufSubmittedHead' + bufUnsubmittedSize') % Total
    BY ONLY <2>5, <2>6, Zenon
  <2>8. /\ bufFreeSize' + bufUnsubmittedSize' = bufTotalSize'
        /\ audioEngineState' => configured' /\ bufTotalSize' = Total
    BY <1>1, <1>2, <1>3
  <2> QED BY ONLY <2>7, <2>8 DEF Accounting, Wrap
<1> QED BY <1>6, <1>7

\* Every step, of either thread, keeps the invariant.
LEMMA StepInvariant == Invariant /\ [Next]_vars => Invariant'
<1> SUFFICES ASSUME Invariant, [Next]_vars PROVE Invariant'
  OBVIOUS
<1>1. CASE audioInit
  BY <1>1, InitRingStep
<1>2. ASSUME NEW isStart \in BOOLEAN, notifyStreamingStartStop(isStart)
      PROVE  Invariant'
  BY <1>2, NotifyStep
<1>3. ASSUME NEW n \in Messages, AudioData(n)
      PROVE  Invariant'
  BY <1>3, RingTypes DEF AudioData, sizes, Invariant, TypeOK, Accounting, Wrap
<1>4. CASE ReadChunk
  <2> DEFINE chunk == IF dataLength > MAX_AUDIO_BYTES THEN MAX_AUDIO_BYTES ELSE dataLength
  <2>1. chunk \in Nat /\ dataLength - chunk \in Nat
    BY RingTypes DEF Invariant, TypeOK
  <2>2. PICK size \in IF opusEnabled THEN Decoded ELSE {chunk} : addSamples(size)
    BY <1>4 DEF ReadChunk
  <2>3. size \in Nat
    BY <2>1, RingTypes
  <2> QED BY <1>4, <2>1, <2>2, <2>3, AddStep DEF ReadChunk
<1>5. ASSUME NEW period \in Periods, audioOutCallback(period)
      PROVE  Invariant'
  BY <1>5, CallbackStep
<1>6. CASE UNCHANGED vars
  BY <1>6 DEF vars, sizes, Invariant, TypeOK, Accounting, Wrap
<1> QED BY <1>1, <1>2, <1>3, <1>4, <1>5, <1>6 DEF Next

\* The sizes and heads that the two threads of audio.c move independently
\* always describe the same ring, and the ring is never overfull.
THEOREM RingAccounting == Spec => [](TypeOK /\ Accounting)
<1>1. Spec => []Invariant
  BY InitInvariant, StepInvariant, PTL DEF Spec
<1>2. Invariant => TypeOK /\ Accounting
  BY DEF Invariant
<1> QED BY <1>1, <1>2, PTL

(***************************************************************************)
(* Delay                                                                   *)
(***************************************************************************)
\* Once a callback has run, a chunk of PCM sound that fits is stored whole unless more
\* than DelayPeriods of the shortest callback are waiting.
THEOREM SoundSkippedForDelayOnly == Spec => SkipsOnlyWhenDelayed
<1> DEFINE Whole(c) == fbytes > 0 /\ ~opusEnabled /\ ChunkIsDue(c) =>
                         bufUnsubmittedSize' = bufUnsubmittedSize + c
<1>1. ASSUME Invariant, [Next]_vars PROVE Whole(dataLength - dataLength')
  <2> SUFFICES ASSUME NEW c, c = dataLength - dataLength', fbytes > 0, ~opusEnabled, ChunkIsDue(c)
               PROVE  bufUnsubmittedSize' = bufUnsubmittedSize + c
    OBVIOUS
  <2>1. /\ bufFreeSize \in Nat /\ bufUnsubmittedSize \in Nat /\ dataLength \in Nat
        /\ fbytes \in Periods \cup {0} /\ DelayPeriods \in Nat /\ Periods \subseteq Nat \ {0}
        /\ audioEngineState /\ c > 0 /\ c <= bufFreeSize
        /\ \A p \in Periods : bufUnsubmittedSize <= DelayPeriods * p
    BY <1>1, RingAssumption, RingTypes DEF Invariant, TypeOK, ChunkIsDue
  <2>2. CASE ReadChunk
    <3>1. PICK chunk \in Nat : /\ dataLength' = dataLength - chunk
                               /\ addSamples(chunk)
      BY <2>1, <2>2, RingTypes DEF ReadChunk
    <3>2. c = chunk
      BY <2>1, <3>1
    <3>3. Trimmed(c) = c
      <4>1. fbytes \in Periods /\ fbytes \in Nat
        BY <2>1
      <4>2. bufUnsubmittedSize <= DelayPeriods * fbytes
        BY <2>1, <4>1
      <4>3. bufUnsubmittedSize <= fbytes * DelayPeriods
        BY <2>1, <4>1, <4>2
      <4>4. ~(bufUnsubmittedSize > fbytes * DelayPeriods)
        BY <2>1, <4>1, <4>3
      <4> QED BY <4>4 DEF Trimmed
    <3>4. Fitting(c) = c
      BY <2>1, <3>2 DEF Fitting
    <3> QED BY <2>1, <3>1, <3>2, <3>3, <3>4 DEF addSamples
  <2>3. CASE ~ReadChunk
    <3>1. ASSUME audioInit PROVE dataLength' = dataLength
      BY <3>1, Zenon DEF audioInit
    <3>2. ASSUME NEW isStart \in BOOLEAN, notifyStreamingStartStop(isStart)
          PROVE  dataLength' = dataLength
      BY <3>2, Zenon DEF notifyStreamingStartStop
    <3>3. ASSUME NEW n \in Messages, AudioData(n)
          PROVE  dataLength = 0 /\ dataLength' \in Nat
      BY <3>3, RingTypes DEF AudioData
    <3>4. ASSUME NEW period \in Periods, audioOutCallback(period)
          PROVE  dataLength' = dataLength
      BY <3>4, Zenon DEF audioOutCallback
    <3>5. ASSUME UNCHANGED vars PROVE dataLength' = dataLength
      BY <3>5, Zenon DEF vars
    <3>6. dataLength' = dataLength \/ (dataLength = 0 /\ dataLength' \in Nat)
      BY <1>1, <2>3, <3>1, <3>2, <3>3, <3>4, <3>5, Zenon DEF Next
    <3> QED BY <2>1, <3>6
  <2> QED BY <2>2, <2>3
<1>2. Spec => []Invariant
  BY InitInvariant, StepInvariant, PTL DEF Spec
<1>3. ASSUME Invariant, [Next]_vars
      PROVE  [Whole(dataLength - dataLength')]_vars
  BY <1>1, <1>3
<1> QED BY <1>2, <1>3, PTL DEF Spec, SkipsOnlyWhenDelayed

(***************************************************************************)
(* Sample boundaries                                                       *)
(***************************************************************************)
\* Whole numbers of a unit of m bytes.
LEMMA MultipleOf ==
  ASSUME NEW m \in Nat \ {0}, NEW x \in Nat
  PROVE  x % m = 0 <=> \E q \in Nat : x = q * m
<1>1. x \div m \in Nat /\ x % m \in 0 .. m - 1
  OBVIOUS
<1>2. x = (x \div m) * m + (x % m)
  BY Z3
<1>3. ASSUME NEW q \in Nat, x = q * m PROVE x % m = 0
  <2>1. PICK d \in Nat, r \in 0 .. m - 1 : d = x \div m /\ r = x % m
    BY <1>1
  <2>2. q * m = d * m + r
    BY <1>2, <1>3, <2>1
  <2>3. r = 0
    <3> SUFFICES ASSUME r > 0 PROVE FALSE
      BY <2>1
    <3>1. CASE q <= d
      <4>1. PICK e \in Nat : d = q + e
        <5>1. d - q \in Nat /\ d = q + (d - q)
          BY <2>1, <3>1
        <5> QED BY <5>1
      <4>2. d * m = q * m + e * m /\ e * m \in Nat /\ q * m \in Nat
        BY <4>1
      <4> QED BY <2>1, <2>2, <4>2
    <3>2. CASE q > d
      <4>1. PICK e \in Nat : q = d + 1 + e
        <5>1. q - d - 1 \in Nat /\ q = d + 1 + (q - d - 1)
          BY <2>1, <3>2
        <5> QED BY <5>1
      <4>2. q * m = d * m + m + e * m /\ e * m \in Nat /\ d * m \in Nat
        BY <4>1
      <4> QED BY <2>1, <2>2, <4>2
    <3> QED BY <2>1, <3>1, <3>2
  <2> QED BY <2>1, <2>3
<1>4. ASSUME x % m = 0 PROVE \E q \in Nat : x = q * m
  <2>1. PICK d \in Nat : d = x \div m
    BY <1>1
  <2>2. x = d * m + 0
    BY <1>2, <1>4, <2>1, Zenon
  <2>3. x = d * m
    BY <2>2
  <2> QED BY <2>3
<1> QED BY <1>3, <1>4

\* Sums and differences of multiples.
LEMMA MultiplesAdd ==
  ASSUME NEW m \in Nat \ {0}, NEW x \in Nat, NEW y \in Nat, x % m = 0, y % m = 0
  PROVE  (x + y) % m = 0 /\ (x >= y => (x - y) % m = 0)
<1>1. PICK p \in Nat, q \in Nat : x = p * m /\ y = q * m
  BY MultipleOf
<1>2. (x + y) % m = 0
  <2>1. PICK z \in Nat : z = x + y
    OBVIOUS
  <2>2. z = (p + q) * m /\ p + q \in Nat
    BY <1>1, <2>1
  <2>3. z % m = 0
    BY <2>2, MultipleOf
  <2> QED BY <2>1, <2>3
<1>3. ASSUME x >= y PROVE (x - y) % m = 0
  <2>1. PICK z \in Nat : z = x - y
    BY <1>3
  <2>2. CASE q <= p
    <3>1. PICK e \in Nat : p = q + e
      <4>1. p - q \in Nat /\ p = q + (p - q)
        BY <2>2
      <4> QED BY <4>1
    <3>2. p * m = q * m + e * m /\ q * m \in Nat /\ e * m \in Nat
      BY <3>1
    <3>3. z = e * m
      BY <1>1, <2>1, <3>2
    <3>4. z % m = 0
      BY <3>3, MultipleOf
    <3> QED BY <2>1, <3>4
  <2>3. CASE q > p
    <3>1. PICK e \in Nat : q = p + 1 + e
      <4>1. q - p - 1 \in Nat /\ q = p + 1 + (q - p - 1)
        BY <2>3
      <4> QED BY <4>1
    <3>2. q * m = p * m + m + e * m /\ p * m \in Nat /\ e * m \in Nat
      BY <3>1
    <3> QED BY <1>1, <1>3, <3>2
  <2> QED BY <2>2, <2>3
<1> QED BY <1>2, <1>3

\* An even number of samples is a number of samples, and so is its half.
LEMMA EvenMultiple ==
  ASSUME NEW m \in Nat \ {0}, NEW x \in Nat, x % (2 * m) = 0
  PROVE  x % m = 0 /\ (x \div 2) % m = 0
<1>1. 2 * m \in Nat \ {0}
  OBVIOUS
<1>2. PICK q \in Nat : x = q * (2 * m)
  BY <1>1, MultipleOf
<1>3. x = (2 * q) * m /\ 2 * q \in Nat
  BY <1>2
<1>4. PICK h \in Nat : h = q * m
  OBVIOUS
<1>5. x = 2 * h
  BY <1>2, <1>4
<1>6. x \div 2 = h
  BY <1>5
<1> QED BY <1>3, <1>4, <1>6, MultipleOf

\* Messages, packets and callbacks are whole numbers of samples: of two for what may be
\* halved.
WholeSamples ==
  /\ \A n \in Messages \cup Decoded \cup {MAX_AUDIO_BYTES} : n % (2 * SampleSize) = 0
  /\ \A p \in Periods \cup {Prelude} : p % SampleSize = 0

SampleAligned(x) == x % SampleSize = 0

\* The sizes have to be aligned as well, since both threads move their head by what is
\* waiting or free when that is less than what they want.
AlignInv ==
  WholeSamples =>
    /\ SampleAligned(bufSubmittedHead) /\ SampleAligned(bufUnsubmittedHead)
    /\ SampleAligned(bufFreeSize) /\ SampleAligned(bufUnsubmittedSize)
    /\ dataLength % (2 * SampleSize) = 0

LEMMA AlignedAdd ==
  ASSUME NEW x \in Nat, NEW y \in Nat, SampleAligned(x), SampleAligned(y)
  PROVE  /\ SampleAligned(x + y)
         /\ x >= y => SampleAligned(x - y)
<1>1. SampleSize \in Nat \ {0}
  BY RingAssumption
<1> QED BY <1>1, MultiplesAdd DEF SampleAligned

\* Going round the ring keeps to sample boundaries.
LEMMA AlignedWrap ==
  ASSUME NEW x \in 0 .. 2 * Total - 1, SampleAligned(x)
  PROVE  SampleAligned(Wrap(x))
<1>1. Total \in Nat /\ SampleAligned(Total) /\ x \in Nat
  BY RingAssumption, RingTypes DEF SampleAligned
<1>2. x >= Total => SampleAligned(x - Total)
  BY <1>1, AlignedAdd
<1> QED BY <1>1, <1>2, WrapValue

LEMMA AlignedZero == SampleAligned(0)
BY RingAssumption DEF SampleAligned

LEMMA AlignInit == Init => AlignInv
<1> SUFFICES ASSUME Init PROVE AlignInv
  OBVIOUS
<1>1. 0 % (2 * SampleSize) = 0
  <2>1. 2 * SampleSize \in Nat \ {0}
    BY RingAssumption
  <2> QED BY <2>1
<1> QED BY <1>1, AlignedZero DEF Init, AlignInv

\* addSamples() of an even number of samples.
LEMMA AlignAdd ==
  ASSUME NEW size \in Nat, Invariant, AlignInv, WholeSamples, addSamples(size),
         size % (2 * SampleSize) = 0
  PROVE  /\ SampleAligned(bufSubmittedHead') /\ SampleAligned(bufUnsubmittedHead')
         /\ SampleAligned(bufFreeSize') /\ SampleAligned(bufUnsubmittedSize')
<1>1. CASE ~audioEngineState \/ size = 0
  BY <1>1 DEF addSamples, sizes, AlignInv
<1>2. CASE audioEngineState /\ size # 0
  <2>1. /\ bufFreeSize \in 0 .. Total /\ bufUnsubmittedSize \in 0 .. Total
        /\ bufUnsubmittedHead \in 0 .. Total - 1 /\ Total \in Nat \ {0}
        /\ SampleSize \in Nat \ {0}
    BY RingAssumption, RingTypes DEF Invariant, TypeOK, Offsets
  <2>2. SampleAligned(size) /\ SampleAligned(size \div 2)
    BY <2>1, EvenMultiple DEF SampleAligned
  <2>3. SampleAligned(Trimmed(size))
    BY <2>2 DEF Trimmed
  <2>4. PICK k \in 0 .. bufFreeSize : k = Fitting(Trimmed(size))
    BY FittingTrimmed DEF Invariant
  <2>5. SampleAligned(k)
    BY <1>2, <2>3, <2>4 DEF Fitting, AlignInv
  <2>6. /\ bufUnsubmittedHead' = Wrap(bufUnsubmittedHead + k)
        /\ bufFreeSize' = bufFreeSize - k
        /\ bufUnsubmittedSize' = bufUnsubmittedSize + k
        /\ bufSubmittedHead' = bufSubmittedHead
    BY <1>2, <2>4 DEF addSamples
  <2>7. /\ SampleAligned(bufUnsubmittedHead + k) /\ SampleAligned(bufUnsubmittedSize + k)
        /\ SampleAligned(bufFreeSize - k)
    <3>1. /\ bufUnsubmittedHead \in Nat /\ bufUnsubmittedSize \in Nat /\ bufFreeSize \in Nat
          /\ k \in Nat /\ bufFreeSize >= k
      BY <2>1, <2>4
    <3>2. /\ SampleAligned(bufUnsubmittedHead) /\ SampleAligned(bufUnsubmittedSize)
          /\ SampleAligned(bufFreeSize)
      BY DEF AlignInv
    <3> QED BY ONLY <3>1, <3>2, <2>5, AlignedAdd
  <2>8. bufUnsubmittedHead + k \in 0 .. 2 * Total - 1
    BY <2>1, <2>4
  <2>9. SampleAligned(Wrap(bufUnsubmittedHead + k))
    BY <2>7, <2>8, AlignedWrap
  <2> QED BY <2>6, <2>7, <2>9 DEF AlignInv
<1> QED BY <1>1, <1>2

\* audioOutCallback() of a whole number of samples.
LEMMA AlignCallback ==
  ASSUME NEW period \in Periods, Invariant, AlignInv, WholeSamples, audioOutCallback(period)
  PROVE  /\ SampleAligned(bufSubmittedHead') /\ SampleAligned(bufUnsubmittedHead')
         /\ SampleAligned(bufFreeSize') /\ SampleAligned(bufUnsubmittedSize')
         /\ dataLength' = dataLength
<1>1. /\ bufFreeSize \in 0 .. Total /\ bufUnsubmittedSize \in 0 .. Total
      /\ bufSubmittedHead \in 0 .. Total - 1 /\ Total \in Nat \ {0} /\ period \in Nat
  BY RingTypes DEF Invariant, TypeOK, Offsets
<1>2. PICK k \in 0 .. bufUnsubmittedSize :
        k = IF bufUnsubmittedSize > period THEN period ELSE bufUnsubmittedSize
  BY <1>1
<1>3. SampleAligned(k)
  BY <1>2 DEF AlignInv, WholeSamples, SampleAligned
<1>4. /\ bufSubmittedHead' = Wrap(bufSubmittedHead + k)
      /\ bufUnsubmittedSize' = bufUnsubmittedSize - k
      /\ bufFreeSize' = bufFreeSize + k
      /\ bufUnsubmittedHead' = bufUnsubmittedHead /\ dataLength' = dataLength
  BY <1>2 DEF audioOutCallback
<1>5. /\ SampleAligned(bufSubmittedHead + k) /\ SampleAligned(bufFreeSize + k)
      /\ SampleAligned(bufUnsubmittedSize - k)
  <2>1. /\ bufSubmittedHead \in Nat /\ bufUnsubmittedSize \in Nat /\ bufFreeSize \in Nat
        /\ k \in Nat /\ bufUnsubmittedSize >= k
    BY <1>1, <1>2
  <2>2. /\ SampleAligned(bufSubmittedHead) /\ SampleAligned(bufUnsubmittedSize)
        /\ SampleAligned(bufFreeSize)
    BY DEF AlignInv
  <2> QED BY ONLY <2>1, <2>2, <1>3, AlignedAdd
<1>6. bufSubmittedHead + k \in 0 .. 2 * Total - 1
  BY <1>1, <1>2
<1>7. SampleAligned(Wrap(bufSubmittedHead + k))
  BY <1>5, <1>6, AlignedWrap
<1> QED BY <1>4, <1>5, <1>7 DEF AlignInv

\* Every step keeps to sample boundaries.
LEMMA AlignStep == ASSUME Invariant, AlignInv, [Next]_vars PROVE AlignInv'
<1> SUFFICES ASSUME WholeSamples
             PROVE  /\ SampleAligned(bufSubmittedHead') /\ SampleAligned(bufUnsubmittedHead')
                    /\ SampleAligned(bufFreeSize') /\ SampleAligned(bufUnsubmittedSize')
                    /\ dataLength' % (2 * SampleSize) = 0
  BY DEF AlignInv, SampleAligned
<1>1. /\ SampleAligned(bufSubmittedHead) /\ SampleAligned(bufUnsubmittedHead)
      /\ SampleAligned(bufFreeSize) /\ SampleAligned(bufUnsubmittedSize)
      /\ dataLength % (2 * SampleSize) = 0
  BY DEF AlignInv
<1>2. SampleAligned(0) /\ SampleAligned(Total) /\ SampleAligned(Prelude) /\ Prelude \in Nat
      /\ Total \in Nat \ {0}
  BY RingAssumption, RingTypes, AlignedZero DEF SampleAligned, WholeSamples
<1>3. ASSUME NEW total \in {0, Total}, EmptyRing(total), dataLength' = dataLength PROVE
        /\ SampleAligned(bufSubmittedHead') /\ SampleAligned(bufUnsubmittedHead')
        /\ SampleAligned(bufFreeSize') /\ SampleAligned(bufUnsubmittedSize')
        /\ dataLength' % (2 * SampleSize) = 0
  BY <1>1, <1>2, <1>3 DEF EmptyRing
<1>4. CASE UNCHANGED sizes /\ dataLength' = dataLength
  BY <1>1, <1>4 DEF sizes
<1>5. CASE audioInit
  BY <1>3, <1>4, <1>5 DEF audioInit
<1>6. ASSUME NEW isStart \in BOOLEAN, notifyStreamingStartStop(isStart)
      PROVE  /\ SampleAligned(bufSubmittedHead') /\ SampleAligned(bufUnsubmittedHead')
             /\ SampleAligned(bufFreeSize') /\ SampleAligned(bufUnsubmittedSize')
             /\ dataLength' % (2 * SampleSize) = 0
  <2>1. PICK total \in {0, Total} : total = IF configured THEN Total ELSE 0
    BY <1>2
  <2>2. PICK k \in 0 .. total : k = IF Prelude < total THEN Prelude ELSE total
    BY <1>2, <2>1
  <2>3. CASE isStart /\ audioEngineState
    <3>1. /\ bufFreeSize' = total - k /\ bufUnsubmittedSize' = k
          /\ bufSubmittedHead' = 0 /\ bufUnsubmittedHead' = Wrap(k)
          /\ dataLength' = dataLength
      BY <1>6, <2>1, <2>2, <2>3 DEF notifyStreamingStartStop
    <3>2. SampleAligned(k) /\ SampleAligned(total)
      BY <1>2, <2>1, <2>2
    <3>3. SampleAligned(total - k)
      <4>1. total \in Nat /\ k \in Nat /\ total >= k
        BY <1>2, <2>1, <2>2
      <4> QED BY ONLY <4>1, <3>2, AlignedAdd
    <3>4. SampleAligned(Wrap(k))
      BY <1>2, <2>1, <2>2, <3>2, AlignedWrap
    <3> QED BY <1>1, <1>2, <3>1, <3>2, <3>3, <3>4
  <2>4. CASE ~(isStart /\ audioEngineState)
    BY <1>3, <1>6, <2>1, <2>4 DEF notifyStreamingStartStop
  <2> QED BY <2>3, <2>4
<1>7. ASSUME NEW n \in Messages, AudioData(n)
      PROVE  /\ SampleAligned(bufSubmittedHead') /\ SampleAligned(bufUnsubmittedHead')
             /\ SampleAligned(bufFreeSize') /\ SampleAligned(bufUnsubmittedSize')
             /\ dataLength' % (2 * SampleSize) = 0
  BY <1>1, <1>7 DEF AudioData, sizes, WholeSamples
<1>8. CASE ReadChunk
  <2>1. /\ dataLength \in Nat /\ MAX_AUDIO_BYTES \in Nat /\ Decoded \subseteq Nat
        /\ 2 * SampleSize \in Nat \ {0} /\ MAX_AUDIO_BYTES % (2 * SampleSize) = 0
    BY RingAssumption, RingTypes DEF Invariant, TypeOK, WholeSamples
  <2>2. PICK chunk \in 0 .. dataLength :
          chunk = IF dataLength > MAX_AUDIO_BYTES THEN MAX_AUDIO_BYTES ELSE dataLength
    BY <2>1
  <2>3. dataLength' = dataLength - chunk
    BY <1>8, <2>2 DEF ReadChunk
  <2>4. PICK size \in IF opusEnabled THEN Decoded ELSE {chunk} : addSamples(size)
    BY <1>8, <2>2 DEF ReadChunk
  <2>5. chunk % (2 * SampleSize) = 0
    BY <1>1, <2>1, <2>2
  <2>6. size \in Nat /\ size % (2 * SampleSize) = 0
    BY <2>1, <2>4, <2>5 DEF WholeSamples
  <2>7. (dataLength - chunk) % (2 * SampleSize) = 0
    BY <1>1, <2>1, <2>2, <2>5, MultiplesAdd
  <2> QED BY <2>3, <2>4, <2>6, <2>7, AlignAdd
<1>9. ASSUME NEW period \in Periods, audioOutCallback(period)
      PROVE  /\ SampleAligned(bufSubmittedHead') /\ SampleAligned(bufUnsubmittedHead')
             /\ SampleAligned(bufFreeSize') /\ SampleAligned(bufUnsubmittedSize')
             /\ dataLength' % (2 * SampleSize) = 0
  BY <1>1, <1>9, AlignCallback
<1>10. CASE UNCHANGED vars
  BY <1>4, <1>10 DEF vars
<1> QED BY <1>5, <1>6, <1>7, <1>8, <1>9, <1>10 DEF Next

\* The channels are never swapped: both heads stay on sample boundaries whatever is
\* trimmed or left out, when messages and packets are even numbers of samples.
THEOREM ChannelsNeverSwapped == Spec => []Aligned
<1>1. AlignInv => Aligned
  BY DEF AlignInv, Aligned, WholeSamples, SampleAligned
<1>2. Spec => []Invariant
  BY InitInvariant, StepInvariant, PTL DEF Spec
<1> QED BY <1>1, <1>2, AlignInit, AlignStep, PTL DEF Spec

(***************************************************************************)
(* The ring is a bounded queue of sound                                    *)
(***************************************************************************)
LEMMA WaitingTypes ==
  ASSUME Invariant
  PROVE  /\ Waiting \in Seq(Bytes) /\ Len(Waiting) = bufUnsubmittedSize
         /\ bufUnsubmittedSize \in 0 .. Total
         /\ \A i \in 1 .. bufUnsubmittedSize :
              Waiting[i] = bufPtr[Wrap(bufSubmittedHead + i - 1)]
<1>1. /\ bufUnsubmittedSize \in 0 .. Total /\ bufSubmittedHead \in 0 .. Total - 1
      /\ bufPtr \in [0 .. Total - 1 -> Bytes] /\ Total \in Nat \ {0}
  BY RingTypes DEF Invariant, TypeOK, Offsets
<1>2. \A i \in 1 .. bufUnsubmittedSize : bufPtr[Wrap(bufSubmittedHead + i - 1)] \in Bytes
  <2> TAKE i \in 1 .. bufUnsubmittedSize
  <2>1. PICK x \in 0 .. 2 * Total - 1 : x = bufSubmittedHead + i - 1
    BY <1>1
  <2>2. Wrap(x) \in 0 .. Total - 1
    BY <1>1, <2>1, WrapValue
  <2> QED BY <1>1, <2>1, <2>2
<1> QED BY <1>1, <1>2 DEF Waiting

\* A ring that has just been emptied, or filled with silence, holds nothing else.
LEMMA QueueRestart ==
  ASSUME NEW k \in 0 .. Total, bufUnsubmittedSize' = k, bufSubmittedHead' = 0,
         \A o \in 0 .. k - 1 : bufPtr'[o] = Silence, UNCHANGED <<played, serial>>
  PROVE  Queue!Restart
<1>1. Waiting' = [i \in 1 .. k |-> bufPtr'[Wrap(0 + i - 1)]]
  BY DEF Waiting
<1>2. \A i \in 1 .. k : bufPtr'[Wrap(0 + i - 1)] = Silence
  <2> TAKE i \in 1 .. k
  <2>1. 0 + i - 1 \in 0 .. 2 * Total - 1 /\ 0 + i - 1 < Total /\ 0 + i - 1 \in 0 .. k - 1
    BY RingTypes
  <2> QED BY <2>1, WrapValue
<1>3. Waiting' = [i \in 1 .. k |-> Silence]
  BY <1>1, <1>2
<1> QED BY <1>3 DEF Queue!Restart, Queue!Quiet

\* Nothing that the queue is about has changed.
LEMMA QueueStutter ==
  ASSUME UNCHANGED <<bufPtr, sizes, played, serial>>
  PROVE  UNCHANGED Queue!vars
BY DEF Queue!vars, Waiting, sizes

\* What is behind the waiting sound in the ring is what addSamples() writes.
LEMMA BehindWaiting ==
  ASSUME Invariant, NEW i \in 1 .. Total
  PROVE  /\ Wrap(bufSubmittedHead + i - 1) \in Offsets
         /\ Behind(Wrap(bufSubmittedHead + i - 1), bufUnsubmittedHead) =
              IF i <= bufUnsubmittedSize THEN Total + i - 1 - bufUnsubmittedSize
                                         ELSE i - 1 - bufUnsubmittedSize
<1>1. /\ bufUnsubmittedSize \in 0 .. Total /\ bufSubmittedHead \in 0 .. Total - 1
      /\ bufUnsubmittedHead \in 0 .. Total - 1 /\ Total \in Nat \ {0}
      /\ bufUnsubmittedHead = Wrap(bufSubmittedHead + bufUnsubmittedSize)
  BY RingTypes DEF Invariant, TypeOK, Offsets, Accounting
<1>2. PICK x \in 0 .. 2 * Total - 1, y \in 0 .. 2 * Total - 1 :
        x = bufSubmittedHead + i - 1 /\ y = bufSubmittedHead + bufUnsubmittedSize
  BY <1>1
<1>3. /\ Wrap(x) = IF x < Total THEN x ELSE x - Total
      /\ bufUnsubmittedHead = IF y < Total THEN y ELSE y - Total
  BY <1>1, <1>2, WrapValue
<1>4. PICK o \in 0 .. Total - 1 : o = Wrap(x)
  BY <1>1, <1>2, <1>3
<1> QED BY <1>1, <1>2, <1>3, <1>4 DEF Behind, Offsets

\* addSamples() puts the first part of what the server sent behind what waits.
LEMMA QueuePut ==
  ASSUME NEW size \in Chunks \cup Decoded, Invariant, addSamples(size), played' = played
  PROVE  Queue!Put
<1>1. /\ bufFreeSize \in 0 .. Total /\ bufUnsubmittedSize \in 0 .. Total
      /\ bufSubmittedHead \in 0 .. Total - 1 /\ bufPtr \in [Offsets -> Bytes]
      /\ bufUnsubmittedHead \in 0 .. Total - 1 /\ serial \in 0 .. Serials - 1
      /\ Total \in Nat \ {0} /\ Serials \in Nat \ {0} /\ size \in Nat
  BY RingTypes DEF Invariant, TypeOK, Offsets, Chunks
<1>2. /\ Waiting \in Seq(Bytes) /\ Len(Waiting) = bufUnsubmittedSize
      /\ \A i \in 1 .. bufUnsubmittedSize :
           Waiting[i] = bufPtr[Wrap(bufSubmittedHead + i - 1)]
  BY WaitingTypes
<1>3. serial' = (serial + size) % Serials
  BY DEF addSamples
<1>4. SUFFICES ASSUME TRUE
               PROVE \E k \in 0 .. size : /\ Len(Waiting) + k <= Total
                                          /\ Waiting' = Waiting \o Queue!Sound(k)
  BY <1>3 DEF Queue!Put
<1>5. CASE ~audioEngineState \/ size = 0
  <2>1. Waiting' = Waiting
    BY <1>5 DEF addSamples, sizes, Waiting
  <2>2. Queue!Sound(0) = <<>>
    BY DEF Queue!Sound
  <2>3. Waiting \o Queue!Sound(0) = Waiting
    BY <1>2, <2>2, ConcatEmptySeq
  <2>4. 0 \in 0 .. size /\ Len(Waiting) + 0 <= Total
    BY <1>1, <1>2
  <2> QED BY <2>1, <2>3, <2>4
<1>6. CASE audioEngineState /\ size # 0
  <2>1. PICK k \in 0 .. bufFreeSize : k = Fitting(Trimmed(size)) /\ k <= size
    BY <1>1, FittingTrimmed DEF Invariant
  <2>2. /\ bufPtr' = [o \in Offsets |-> IF Behind(o, bufUnsubmittedHead) < k
                                        THEN (serial + Behind(o, bufUnsubmittedHead)) % Serials
                                        ELSE bufPtr[o]]
        /\ bufUnsubmittedSize' = bufUnsubmittedSize + k
        /\ bufSubmittedHead' = bufSubmittedHead
    BY <1>6, <2>1 DEF addSamples
  <2>3. bufTotalSize = Total /\ bufFreeSize + bufUnsubmittedSize = Total
    BY <1>6 DEF Invariant, Accounting
  <2>4. bufUnsubmittedSize + k \in 0 .. Total /\ k \in 0 .. size
    BY <1>1, <2>1, <2>3
  <2> DEFINE new == [i \in 1 .. bufUnsubmittedSize + k |-> bufPtr'[Wrap(bufSubmittedHead + i - 1)]]
  <2>5. Waiting' = new
    BY <2>2 DEF Waiting
  <2>6. ASSUME NEW i \in 1 .. bufUnsubmittedSize
        PROVE  bufPtr'[Wrap(bufSubmittedHead + i - 1)] = Waiting[i]
    <3>1. i \in 1 .. Total
      BY <1>1
    <3>2. PICK o \in Offsets :
            /\ o = Wrap(bufSubmittedHead + i - 1)
            /\ Behind(o, bufUnsubmittedHead) = Total + i - 1 - bufUnsubmittedSize
      BY <3>1, BehindWaiting
    <3>3. ~(Total + i - 1 - bufUnsubmittedSize < k)
      BY <1>1, <2>1, <2>3
    <3>4. bufPtr'[o] = bufPtr[o]
      BY <2>2, <3>2, <3>3
    <3> QED BY <1>2, <3>2, <3>4
  <2>7. ASSUME NEW j \in 1 .. k
        PROVE  bufPtr'[Wrap(bufSubmittedHead + (bufUnsubmittedSize + j) - 1)] = (serial + j - 1) % Serials
    <3>1. PICK i \in 1 .. Total : i = bufUnsubmittedSize + j
      BY <1>1, <2>1, <2>3
    <3>2. PICK o \in Offsets :
            /\ o = Wrap(bufSubmittedHead + i - 1)
            /\ Behind(o, bufUnsubmittedHead) = i - 1 - bufUnsubmittedSize
      <4>1. i \in 1 .. Total /\ ~(i <= bufUnsubmittedSize)
        BY <1>1, <3>1
      <4> QED BY <4>1, BehindWaiting
    <3>3. i - 1 - bufUnsubmittedSize = j - 1 /\ j - 1 < k
      BY <1>1, <2>1, <3>1
    <3>4. bufPtr'[o] = (serial + (j - 1)) % Serials
      BY <2>2, <3>2, <3>3
    <3>5. serial + (j - 1) = serial + j - 1
      BY <1>1
    <3> QED BY <3>1, <3>2, <3>4, <3>5
  <2>8. PICK sound : sound = Queue!Sound(k)
    OBVIOUS
  <2>9. /\ sound \in Seq(Int) /\ Len(sound) = k
        /\ \A j \in 1 .. k : sound[j] = (serial + j - 1) % Serials
    <3>1. \A j \in 1 .. k : (serial + j - 1) % Serials \in Int
      BY <1>1, <2>1
    <3> QED BY <2>1, <2>8, <3>1 DEF Queue!Sound
  <2>10. Waiting \in Seq(Int)
    BY <1>1, <1>2 DEF Bytes
  <2>11. /\ Waiting \o sound \in Seq(Int) /\ Len(Waiting \o sound) = bufUnsubmittedSize + k
         /\ \A i \in 1 .. bufUnsubmittedSize + k :
              (Waiting \o sound)[i] = IF i <= bufUnsubmittedSize THEN Waiting[i]
                                      ELSE sound[i - bufUnsubmittedSize]
    BY <1>2, <2>9, <2>10, ConcatProperties
  <2>12. ASSUME NEW i \in 1 .. bufUnsubmittedSize + k PROVE new[i] = (Waiting \o sound)[i]
    <3>1. CASE i <= bufUnsubmittedSize
      <4>1. i \in 1 .. bufUnsubmittedSize
        BY <1>1, <2>1, <3>1
      <4>2. new[i] = bufPtr'[Wrap(bufSubmittedHead + i - 1)]
        OBVIOUS
      <4>3. bufPtr'[Wrap(bufSubmittedHead + i - 1)] = Waiting[i]
        BY <2>6, <4>1, Zenon
      <4>4. (Waiting \o sound)[i] = Waiting[i]
        BY <2>11, <3>1, Zenon
      <4> QED BY <4>2, <4>3, <4>4, Zenon
    <3>2. CASE i > bufUnsubmittedSize
      <4>1. PICK j \in 1 .. k : j = i - bufUnsubmittedSize
        BY <1>1, <2>1, <3>2
      <4>2. bufUnsubmittedSize + j = i
        BY <1>1, <4>1
      <4>3. new[i] = (serial + j - 1) % Serials
        BY <2>7, <4>2
      <4>4. (Waiting \o sound)[i] = sound[j]
        BY <1>1, <2>11, <3>2, <4>1
      <4> QED BY <2>9, <4>3, <4>4
    <3>3. i <= bufUnsubmittedSize \/ i > bufUnsubmittedSize
      BY <1>1, <2>1
    <3> QED BY <3>1, <3>2, <3>3, Zenon
  <2>13. new \in Seq(Int) /\ Len(new) = bufUnsubmittedSize + k
    <3>1. \A i \in 1 .. bufUnsubmittedSize + k : new[i] \in Int
      <4> TAKE i \in 1 .. bufUnsubmittedSize + k
      <4>1. (Waiting \o sound)[i] \in Int
        BY <2>11, ElementOfSeq
      <4> QED BY <2>12, <4>1
    <3> QED BY <2>4, <3>1
  <2>14. new = Waiting \o sound
    <3> HIDE DEF new
    <3> QED BY <2>11, <2>12, <2>13, SeqEqual
  <2>15. Len(Waiting) + k <= Total
    BY <1>2, <2>4
  <2> QED BY <2>4, <2>5, <2>8, <2>14, <2>15
<1> QED BY <1>5, <1>6

\* audioOutCallback() plays what has waited longest.
LEMMA QueuePlay ==
  ASSUME NEW period \in Periods, Invariant, audioOutCallback(period)
  PROVE  Queue!Play
<1>1. /\ bufUnsubmittedSize \in 1 .. Total /\ bufSubmittedHead \in 0 .. Total - 1
      /\ Total \in Nat \ {0} /\ period \in Nat \ {0}
  BY RingTypes DEF Invariant, TypeOK, Offsets, audioOutCallback
<1>2. /\ Waiting \in Seq(Bytes) /\ Len(Waiting) = bufUnsubmittedSize
      /\ \A i \in 1 .. bufUnsubmittedSize :
           Waiting[i] = bufPtr[Wrap(bufSubmittedHead + i - 1)]
  BY WaitingTypes
<1>3. PICK k \in 1 .. bufUnsubmittedSize :
        k = IF bufUnsubmittedSize > period THEN period ELSE bufUnsubmittedSize
  BY <1>1
<1>4. /\ played' = [i \in 1 .. k |-> bufPtr[Wrap(bufSubmittedHead + i - 1)]]
      /\ bufSubmittedHead' = Wrap(bufSubmittedHead + k)
      /\ bufUnsubmittedSize' = bufUnsubmittedSize - k
      /\ bufPtr' = bufPtr /\ serial' = serial
  BY <1>3 DEF audioOutCallback
<1>5. PICK n \in Nat : n = bufUnsubmittedSize - k
  <2>1. bufUnsubmittedSize - k \in Nat
    BY <1>1
  <2> QED BY <2>1
<1>6. /\ SubSeq(Waiting, 1, k) \in Seq(Bytes) /\ Len(SubSeq(Waiting, 1, k)) = k
      /\ \A i \in 1 .. k : SubSeq(Waiting, 1, k)[i] = Waiting[i]
  <2>1. 1 \in 1 .. Len(Waiting) + 1 /\ k \in 1 - 1 .. Len(Waiting)
    BY <1>1, <1>2
  <2> QED BY <1>2, <2>1, SubSeqProperties
<1>7. played' = SubSeq(Waiting, 1, k)
  BY <1>1, <1>2, <1>4, <1>6
<1>8. /\ SubSeq(Waiting, k + 1, bufUnsubmittedSize) \in Seq(Bytes)
      /\ Len(SubSeq(Waiting, k + 1, bufUnsubmittedSize)) = n
      /\ \A i \in 1 .. n : SubSeq(Waiting, k + 1, bufUnsubmittedSize)[i] = Waiting[k + i]
  BY <1>1, <1>2, <1>5
<1>9. Waiting' = [i \in 1 .. n |-> bufPtr[Wrap(Wrap(bufSubmittedHead + k) + i - 1)]]
  BY <1>4, <1>5 DEF Waiting
<1>10. ASSUME NEW i \in 1 .. n
       PROVE  bufPtr[Wrap(Wrap(bufSubmittedHead + k) + i - 1)] = Waiting[k + i]
  <2>1. PICK x \in 0 .. 2 * Total - 1, y \in 0 .. 2 * Total - 1 :
          x = bufSubmittedHead + k /\ y = bufSubmittedHead + (k + i) - 1
    BY <1>1, <1>5
  <2>2. /\ Wrap(x) = IF x < Total THEN x ELSE x - Total
        /\ Wrap(y) = IF y < Total THEN y ELSE y - Total
    BY WrapValue
  <2>3. PICK z \in 0 .. 2 * Total - 1 : z = Wrap(x) + i - 1
    BY <1>1, <1>5, <2>1, <2>2
  <2>4. Wrap(z) = IF z < Total THEN z ELSE z - Total
    BY WrapValue
  <2>5. Wrap(z) = Wrap(y)
    BY <1>1, <1>5, <2>1, <2>2, <2>3, <2>4
  <2>6. k + i \in 1 .. bufUnsubmittedSize
    BY <1>1, <1>5
  <2>7. Waiting[k + i] = bufPtr[Wrap(y)]
    BY <1>2, <2>1, <2>6
  <2> QED BY <2>1, <2>3, <2>5, <2>7
<1>11. Waiting' = SubSeq(Waiting, k + 1, bufUnsubmittedSize)
  <2>1. Waiting' = [i \in 1 .. n |-> Waiting[k + i]]
    BY <1>9, <1>10
  <2>2. PICK w : w = SubSeq(Waiting, k + 1, bufUnsubmittedSize)
    OBVIOUS
  <2>3. w \in Seq(Bytes) /\ Len(w) = n /\ \A i \in 1 .. n : w[i] = Waiting[k + i]
    BY <1>8, <2>2
  <2>4. w = [i \in 1 .. n |-> Waiting[k + i]]
    BY <2>3
  <2> QED BY <2>1, <2>2, <2>4
<1> QED BY <1>2, <1>3, <1>4, <1>7, <1>11 DEF Queue!Play

\* Every step of the ring is a step of the queue, or nothing to it.
LEMMA QueueStep == ASSUME Invariant, [Next]_vars PROVE [Queue!Next]_(Queue!vars)
<1>1. Total \in Nat \ {0} /\ Prelude \in Nat
  BY RingTypes
<1>2. ASSUME NEW total, EmptyRing(total), UNCHANGED <<played, serial>>
      PROVE  Queue!Restart
  <2>1. 0 \in 0 .. Total /\ \A o \in 0 .. 0 - 1 : bufPtr'[o] = Silence
    BY <1>1
  <2>2. bufUnsubmittedSize' = 0 /\ bufSubmittedHead' = 0
    BY <1>2 DEF EmptyRing
  <2> QED BY <1>2, <2>1, <2>2, QueueRestart
<1>3. CASE audioInit
  <2>1. CASE EmptyRing(Total)
    <3>1. UNCHANGED <<played, serial>>
      BY <1>3 DEF audioInit
    <3> QED BY <1>2, <2>1, <3>1 DEF Queue!Next
  <2>2. CASE UNCHANGED <<audioEngineState, bufPtr, sizes>>
    <3>1. UNCHANGED <<bufPtr, sizes, played, serial>>
      BY <1>3, <2>2 DEF audioInit
    <3> QED BY <3>1, QueueStutter
  <2> QED BY <1>3, <2>1, <2>2 DEF audioInit
<1>4. ASSUME NEW isStart \in BOOLEAN, notifyStreamingStartStop(isStart)
      PROVE  Queue!Restart
  <2>1. PICK total \in {0, Total} : total = IF configured THEN Total ELSE 0
    BY <1>1
  <2>2. PICK k \in 0 .. Total : k = IF Prelude < total THEN Prelude ELSE total
    BY <1>1, <2>1
  <2>3. CASE isStart /\ audioEngineState
    <3>1. /\ bufPtr' = [o \in Offsets |-> IF o < k THEN Silence ELSE bufPtr[o]]
          /\ bufUnsubmittedSize' = k /\ bufSubmittedHead' = 0
          /\ UNCHANGED <<played, serial>>
      BY <1>4, <2>1, <2>2, <2>3 DEF notifyStreamingStartStop
    <3>2. \A o \in 0 .. k - 1 : bufPtr'[o] = Silence
      BY <1>1, <3>1 DEF Offsets
    <3> QED BY <3>1, <3>2, QueueRestart
  <2>4. CASE ~(isStart /\ audioEngineState)
    <3>1. EmptyRing(total) /\ UNCHANGED <<played, serial>>
      BY <1>4, <2>1, <2>4 DEF notifyStreamingStartStop
    <3> QED BY <1>2, <3>1
  <2> QED BY <2>3, <2>4
<1>5. ASSUME NEW n \in Messages, AudioData(n)
      PROVE  UNCHANGED Queue!vars
  <2>1. UNCHANGED <<bufPtr, sizes, played, serial>>
    BY <1>5 DEF AudioData
  <2> QED BY <2>1, QueueStutter
<1>6. CASE ReadChunk
  <2>1. PICK chunk \in Chunks :
          chunk = IF dataLength > MAX_AUDIO_BYTES THEN MAX_AUDIO_BYTES ELSE dataLength
    BY RingTypes DEF Invariant, TypeOK, Chunks
  <2>2. PICK size \in IF opusEnabled THEN Decoded ELSE {chunk} : addSamples(size)
    BY <1>6, <2>1 DEF ReadChunk
  <2>3. size \in Chunks \cup Decoded /\ played' = played
    BY <1>6, <2>1, <2>2 DEF ReadChunk
  <2>4. Queue!Put
    BY <2>2, <2>3, QueuePut
  <2> QED BY <2>4 DEF Queue!Next
<1>7. ASSUME NEW period \in Periods, audioOutCallback(period)
      PROVE  Queue!Play
  BY <1>7, QueuePlay
<1>8. CASE UNCHANGED vars
  <2>1. UNCHANGED <<bufPtr, sizes, played, serial>>
    BY <1>8 DEF vars
  <2> QED BY <2>1, QueueStutter
<1> QED BY <1>3, <1>4, <1>5, <1>6, <1>7, <1>8 DEF Next, Queue!Next

\* The ring implements the queue: the callback plays the bytes the server sent in their
\* order, none twice and none overwritten while it waits.
THEOREM RingIsQueue == Spec => ImplementsSampleQueue
<1>1. Init => Queue!Init
  <2> SUFFICES ASSUME Init PROVE Queue!Init
    OBVIOUS
  <2>1. Waiting = [i \in 1 .. 0 |-> bufPtr[Wrap(bufSubmittedHead + i - 1)]]
    BY DEF Init, Waiting
  <2>2. Waiting = <<>>
    BY <2>1
  <2> QED BY <2>2 DEF Init, Queue!Init
<1>2. Spec => []Invariant
  BY InitInvariant, StepInvariant, PTL DEF Spec
<1> QED BY <1>1, <1>2, QueueStep, PTL DEF Spec, ImplementsSampleQueue, Queue!Spec
=============================================================================
