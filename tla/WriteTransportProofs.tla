------------------------- MODULE WriteTransportProofs -------------------------
(***************************************************************************)
(* WriteToRFBServer() hands over the bytes of all calls in order and whole *)
(* for every size of the socket buffers, of the messages and of the        *)
(* session.  The induction is on WriteInv: on a live connection the socket *)
(* has taken what the calls so far have offered it, up to byte i of the    *)
(* latest.                                                                 *)
(***************************************************************************)
EXTENDS WriteTransport, TLAPS

\* The bytes a write() appends are those of the stream that follow.
LEMMA TakesNext ==
  ASSUME TypeOK, NEW j \in Nat, NEW first \in Nat, Takes(j, first)
  PROVE  /\ length' = length + j
         /\ stream' \in [0 .. length' - 1 -> Nat]
         /\ \A p \in 0 .. length' - 1 :
              stream'[p] = IF p < length THEN stream[p] ELSE first + (p - length)
BY DEF TypeOK, Takes

\* The induction starts: nothing has been written.
LEMMA InitInv == ASSUME WriteInit PROVE WriteInv
<1>1. 0 .. length - 1 = {}
  BY DEF WriteInit
<1>2. stream \in [0 .. length - 1 -> Nat]
  BY <1>1 DEF WriteInit
<1>3. InOrder
  BY <1>1 DEF InOrder
<1>4. result \in BOOLEAN /\ interrupted \in BOOLEAN
  BY DEF WriteInit
<1>5. TypeOK
  BY <1>2, <1>4 DEF WriteInit, TypeOK
<1> QED
  BY <1>3, <1>5 DEF WriteInit, WriteInv, Progress

\* A call begins only when the one before has offered all its bytes, and leaves no
\* loop behind when it has none.
LEMMA BeginWriteInv ==
  ASSUME WriteInv, NEW n \in WriteSizes, BeginWrite(n)
  PROVE  WriteInv'
<1>1. n \in Nat
  BY WriteAssumption
<1>2. TypeOK'
  <2>1. result' \in BOOLEAN /\ interrupted' \in BOOLEAN
    BY Zenon DEF WriteInv, TypeOK, BeginWrite
  <2> QED
    BY <1>1, <2>1 DEF WriteInv, TypeOK, BeginWrite, sent, server
<1>3. InOrder'
  BY DEF WriteInv, InOrder, BeginWrite, sent
<1>4. Progress'
  BY <1>1 DEF WriteInv, TypeOK, Progress, BeginWrite, sent
<1> QED
  BY <1>2, <1>3, <1>4 DEF WriteInv

\* A write() continues where the stream ends.
LEMMA WriteSomeInv ==
  ASSUME WriteInv, WriteSome
  PROVE  WriteInv'
<1>1. PICK j \in 1 .. want - i :
        /\ j <= Room
        /\ Takes(j, start + i)
        /\ i' = i + j
        /\ IF i + j = want THEN at' = "idle" /\ result' = TRUE ELSE UNCHANGED <<at, result>>
  BY DEF WriteSome
<1>2. /\ j \in Nat /\ start + i \in Nat /\ i' \in 0 .. want
      /\ at' \in {"idle", "write"} /\ result' \in BOOLEAN
  <2>1. i' = i + j
    BY <1>1, Zenon
  <2>2. i \in 0 .. want /\ want \in Nat /\ start \in Nat
    BY DEF WriteInv, TypeOK
  <2>3. j \in Nat /\ start + i \in Nat /\ i' \in 0 .. want
    BY <2>1, <2>2
  <2>4. at' \in {"idle", "write"} /\ result' \in BOOLEAN
    BY <1>1, Zenon DEF WriteInv, TypeOK
  <2> QED
    BY <2>3, <2>4
<1>3. /\ length' = length + j
      /\ stream' \in [0 .. length' - 1 -> Nat]
      /\ \A p \in 0 .. length' - 1 :
           stream'[p] = IF p < length THEN stream[p] ELSE start + i + (p - length)
  <2>1. TypeOK
    BY DEF WriteInv
  <2>2. Takes(j, start + i)
    BY <1>1, Zenon
  <2> QED
    BY <1>2, <2>1, <2>2, TakesNext
<1>4. UNCHANGED <<mode, peer, want, start, calls, interrupted, server>> /\ at = "write" /\ peer = "open"
  BY DEF WriteSome
<1>5. TypeOK'
  BY <1>2, <1>3, <1>4 DEF WriteInv, TypeOK, server
<1>6. InOrder'
  <2> SUFFICES ASSUME ~interrupted, NEW p \in 0 .. length' - 1
               PROVE  stream'[p] = p
    BY <1>4 DEF InOrder
  <2>1. mode # "playing" /\ length = start + i
    BY <1>4 DEF WriteInv, Progress
  <2>2. CASE p < length
    BY <1>2, <1>3, <2>2 DEF WriteInv, TypeOK, InOrder
  <2>3. CASE p >= length
    BY <1>2, <1>3, <2>1, <2>3 DEF WriteInv, TypeOK
  <2> QED
    BY <1>2, <1>3, <2>2, <2>3 DEF WriteInv, TypeOK
<1>7. Progress'
  <2>1. i' = i + j /\ (i + j # want => at' = at)
    BY <1>1, Zenon
  <2>2. length' = start' + i' \/ interrupted \/ mode = "playing"
    BY <1>3, <1>4, <2>1 DEF WriteInv, TypeOK, Progress
  <2>3. mode # "playing"
    BY <1>4 DEF WriteInv, Progress
  <2> QED
    BY <1>4, <2>1, <2>2, <2>3 DEF Progress, server
<1> QED
  BY <1>5, <1>6, <1>7 DEF WriteInv

\* Every other step leaves the stream and the position in it alone.
LEMMA OtherStepInv ==
  ASSUME WriteInv,
         \/ SelectInterrupted \/ WriteFails \/ ClientReads
         \/ ServerReads \/ ServerBegins \/ ServerWrites \/ ServerCloses
  PROVE  WriteInv'
<1> USE DEF WriteInv, TypeOK, InOrder, Progress, call, sent, server
<1>1. CASE SelectInterrupted
  BY <1>1 DEF SelectInterrupted
<1>2. CASE WriteFails
  BY <1>2 DEF WriteFails
<1>3. CASE ClientReads
  BY <1>3 DEF ClientReads
<1>4. CASE ServerReads
  BY <1>4 DEF ServerReads
<1>5. CASE ServerBegins
  BY <1>5, WriteAssumption DEF ServerBegins
<1>6. CASE ServerWrites
  BY <1>6 DEF ServerWrites
<1>7. CASE ServerCloses
  BY <1>7 DEF ServerCloses
<1> QED
  BY <1>1, <1>2, <1>3, <1>4, <1>5, <1>6, <1>7

\* WriteInv is inductive.
THEOREM WriteInvHolds == WriteSafetySpec => []WriteInv
<1>1. WriteInit => WriteInv
  BY InitInv
<1>2. WriteInv /\ [WriteNext]_writeVars => WriteInv'
  <2> SUFFICES ASSUME WriteInv, [WriteNext]_writeVars PROVE WriteInv'
    OBVIOUS
  <2>1. CASE UNCHANGED writeVars
    BY <2>1 DEF writeVars, WriteInv, TypeOK, InOrder, Progress, call, sent, server
  <2>2. CASE WriteNext
    BY <2>2, BeginWriteInv, WriteSomeInv, OtherStepInv DEF WriteNext, WriteStep
  <2> QED
    BY <2>1, <2>2
<1> QED
  BY <1>1, <1>2, PTL DEF WriteSafetySpec

\* The server gets the bytes of all messages in order and without gaps, whatever
\* the sizes, until a signal interrupts a wait.
THEOREM BytesInOrder == WriteSafetySpec => []InOrder
<1>1. WriteInv => InOrder
  BY DEF WriteInv
<1> QED
  BY <1>1, WriteInvHolds, PTL

\* TRUE means that every byte asked for so far has been handed over.
THEOREM WholeOnReturn == WriteSafetySpec => []CompleteOnReturn
<1>1. WriteInv => CompleteOnReturn
  BY DEF WriteInv, TypeOK, Progress, CompleteOnReturn
<1> QED
  BY <1>1, WriteInvHolds, PTL

\* FALSE has a cause: a dead connection, a signal, or nothing to write in TLS.
THEOREM FailuresHaveCause == WriteSafetySpec => []FailsOnlyOnError
<1>1. WriteInit => FailsOnlyOnError
  BY DEF WriteInit, FailsOnlyOnError
<1>2. FailsOnlyOnError /\ [WriteNext]_writeVars => FailsOnlyOnError'
  <2> SUFFICES ASSUME FailsOnlyOnError, [WriteNext]_writeVars PROVE FailsOnlyOnError'
    OBVIOUS
  <2> USE DEF FailsOnlyOnError, call, sent, server
  <2>1. CASE UNCHANGED writeVars
    BY <2>1 DEF writeVars
  <2>2. ASSUME NEW n \in WriteSizes, BeginWrite(n) PROVE FailsOnlyOnError'
    BY <2>2, WriteAssumption DEF BeginWrite
  <2>3. CASE WriteSome
    BY <2>3 DEF WriteSome
  <2>4. CASE WriteFails
    BY <2>4 DEF WriteFails
  <2>5. CASE SelectInterrupted
    BY <2>5 DEF SelectInterrupted
  <2>6. CASE ClientReads
    BY <2>6 DEF ClientReads
  <2>7. CASE ServerReads \/ ServerBegins \/ ServerWrites \/ ServerCloses
    BY <2>7 DEF ServerReads, ServerBegins, ServerWrites, ServerCloses
  <2> QED
    BY <2>1, <2>2, <2>3, <2>4, <2>5, <2>6, <2>7 DEF WriteNext, WriteStep
<1> QED
  BY <1>1, <1>2, PTL DEF WriteSafetySpec
===============================================================================
