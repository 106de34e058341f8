-------------------------- MODULE RfbTransportProofs --------------------------
(***************************************************************************)
(* ReadFromRFBServer is correct for every buffer size, request size and    *)
(* retry limit: the inductive invariant of RfbTransport, the safety        *)
(* properties it carries, and the refinement of ByteStream.                *)
(***************************************************************************)
EXTENDS RfbTransport, TLAPS

\* A fresh connection has an empty buffer and nothing asked for.
LEMMA InitInvariant == Init => IInv
BY TransportAssumption, SMT
   DEF Init, IInv, TypeOK, Safety, InOrder, NoByteLost, WithinBounds,
       CompleteOnReturn, BufferHoldsNext, CallConsistent, Offsets

\* Every step of the read path preserves the invariant.
LEMMA StepInvariant == IInv /\ [Next]_vars => IInv'
<1> SUFFICES ASSUME IInv, [Next]_vars PROVE IInv'
    OBVIOUS
<1> USE TransportAssumption
<1> USE DEF IInv, TypeOK, Safety, InOrder, NoByteLost, WithinBounds,
            CompleteOnReturn, BufferHoldsNext, CallConsistent,
            connection, buffer, call
<1>1. CASE ServerSend
      BY <1>1, SMT DEF ServerSend
<1>2. CASE ServerClose
      BY <1>2, SMT DEF ServerClose
<1>3. ASSUME NEW k \in ReadSizes, ServeFromBuffer(k) PROVE IInv'
  <2>1. /\ k \in Nat /\ pc = "idle" /\ k <= buffered
        /\ filled' = k /\ start' = start + filled
        /\ bufoutptr' = bufoutptr + k /\ buffered' = buffered - k
        /\ UNCHANGED <<retryLimit, sent, peer, taken, buf, pc>>
        /\ want' = k /\ n' = 0 /\ retries' = 0
        BY <1>3, SMT DEF ServeFromBuffer
  <2>2. out' = [i \in 0 .. k - 1 |-> start + filled + i]
    <3>1. \A i \in 0 .. k - 1 : buf[bufoutptr + i] = start + filled + i
          BY <2>1, SMT
    <3>2. QED BY <1>3, <2>1, <3>1, SMT DEF ServeFromBuffer, Extend, Buffered
  <2>3. out' \in [0 .. filled' - 1 -> Nat] /\ InOrder'
        BY <2>1, <2>2, SMT
  <2>4. BufferHoldsNext'
        BY <2>1, SMT
  <2>5. QED
        BY <2>1, <2>3, <2>4, SMT
<1>4. ASSUME NEW k \in ReadSizes, BeginRead(k) PROVE IInv'
  <2>1. /\ k \in Nat /\ pc = "idle" /\ k > buffered
        /\ filled' = buffered /\ start' = start + filled
        /\ bufoutptr' = 0 /\ buffered' = 0
        /\ UNCHANGED <<retryLimit, sent, peer, taken, buf>>
        /\ want' = k /\ n' = k - buffered /\ retries' = 0
        /\ pc' = IF k - buffered <= RFB_BUF_SIZE THEN "fill" ELSE "direct"
        BY <1>4, SMT DEF BeginRead
  <2>2. out' = [i \in 0 .. buffered - 1 |-> start + filled + i]
        BY <1>4, <2>1, SMT DEF BeginRead, Extend, Buffered
  <2>3. out' \in [0 .. filled' - 1 -> Nat] /\ InOrder'
        BY <2>1, <2>2, SMT
  <2>4. QED
        BY <2>1, <2>3, SMT
<1>5. CASE ReadIntoBuffer
      BY <1>5, SMT DEF ReadIntoBuffer, FromSocket, Available, Offsets
<1>6. CASE FinishFill
  <2>1. /\ pc = "fill" /\ pc' = "idle"
        /\ n <= buffered /\ n' = 0 /\ filled' = filled + n
        /\ bufoutptr = 0 /\ bufoutptr' = n /\ buffered' = buffered - n
        /\ UNCHANGED <<retryLimit, sent, peer, taken, buf, want, retries, start>>
        BY <1>6, SMT DEF FinishFill
  <2>2. out' = [i \in 0 .. filled + n - 1 |-> start + i]
    <3>1. \A i \in filled .. filled + n - 1 :
             i - filled \in 0 .. buffered - 1 /\ buf[i - filled] = start + i
          BY <2>1, SMT
    <3>2. QED BY <1>6, <2>1, <3>1, SMT DEF FinishFill, Extend, Buffered
  <2>3. out' \in [0 .. filled' - 1 -> Nat] /\ InOrder'
        BY <2>1, <2>2, SMT
  <2>4. BufferHoldsNext'
        BY <2>1, SMT
  <2>5. QED
        BY <2>1, <2>3, <2>4, SMT
<1>7. CASE ReadDirect
      BY <1>7, SMT DEF ReadDirect, Extend, FromSocket, Available, Offsets
<1>8. CASE WouldBlock
      BY <1>8, SMT DEF WouldBlock, NeedsSocket
<1>9. CASE ReadFails
      BY <1>9, SMT DEF ReadFails, NeedsSocket
<1>10. CASE UNCHANGED vars
      BY <1>10, SMT DEF vars
<1>11. QED
      BY <1>1, <1>2, <1>3, <1>4, <1>5, <1>6, <1>7, <1>8, <1>9, <1>10
         DEF Next, ReadStep

-------------------------------------------------------------------------------
\* The inductive invariant holds of every behaviour of ReadFromRFBServer,
\* whatever the sizes of the buffer and of the requests.
THEOREM Invariance == Spec => []IInv
BY InitInvariant, StepInvariant, PTL DEF Spec

\* Callers get the bytes of the stream in order, none lost, none repeated, and
\* no copy leaves client->buf or the caller's memory.
THEOREM TransportSafe == Spec => []Safety
<1>1. IInv => Safety
      BY DEF IInv
<1>2. QED BY <1>1, Invariance, PTL

-------------------------------------------------------------------------------
(* Refinement: each step of the read path is a step of the byte stream. *)

\* A fresh connection is a fresh byte stream.
LEMMA RefinesInit == Init => Stream!Init
BY SMT DEF Init, Stream!Init, Stream!Empty

\* What a caller holds after a completed read is the slice it asked for, and
\* the server has sent that slice.
ReplyOK == pc = "idle" => /\ out = Stream!Slice(start, want)
                          /\ start + want <= sent

\* A call that has returned holds exactly the bytes the byte stream would reply.
LEMMA InvariantReply == IInv => ReplyOK
<1> SUFFICES ASSUME IInv, pc = "idle"
             PROVE  out = Stream!Slice(start, want) /\ start + want <= sent
    BY DEF ReplyOK
<1>1. out = [i \in 0 .. filled - 1 |-> start + i]
      BY SMT DEF IInv, TypeOK, Safety, InOrder
<1>2. filled = want
      BY DEF IInv, Safety, CompleteOnReturn
<1>3. start + want <= sent
      BY <1>2, SMT DEF IInv, TypeOK, Safety, NoByteLost
<1>4. QED
      BY <1>1, <1>2, <1>3 DEF Stream!Slice

\* Every step of a call is a step of the byte stream or is not seen by the caller.
LEMMA RefinesStep == IInv /\ IInv' /\ [Next]_vars => [Stream!Next]_Stream!vars
<1> SUFFICES ASSUME IInv, IInv', [Next]_vars
             PROVE  [Stream!Next]_Stream!vars
    OBVIOUS
<1> USE TransportAssumption
<1>0. ReplyOK'
      BY InvariantReply, PTL
<1>1. CASE ServerSend
      BY <1>1, SMT DEF ServerSend, Stream!Arrive, Stream!Next, call
<1>2. CASE ServerClose
      BY <1>2, SMT DEF ServerClose, Stream!vars, call
<1>3. ASSUME NEW k \in ReadSizes, ServeFromBuffer(k)
      PROVE  Stream!ReadNow(k)
  <2>1. /\ pc = "idle" /\ pc' = "idle" /\ sent' = sent
        /\ start' = start + want /\ want' = k /\ k \in Nat
        BY <1>3, SMT DEF ServeFromBuffer, connection
  <2>2. QED BY <1>0, <2>1, SMT DEF ReplyOK, Stream!ReadNow
<1>4. ASSUME NEW k \in ReadSizes, BeginRead(k)
      PROVE  Stream!BeginRead(k)
      BY <1>4, SMT DEF BeginRead, Stream!BeginRead, Stream!Empty, connection
<1>5. CASE ReadIntoBuffer
      BY <1>5, SMT DEF ReadIntoBuffer, Stream!vars, connection, call
<1>6. ASSUME FinishFill \/ ReadDirect PROVE [Stream!Next]_Stream!vars
  <2>1. /\ pc \in {"fill", "direct"} /\ pc' \in {"idle", pc}
        /\ sent' = sent /\ start' = start /\ want' = want
        BY <1>6, SMT DEF FinishFill, ReadDirect, connection
  <2>2. CASE pc' = "idle"
        BY <1>0, <2>1, <2>2, SMT DEF ReplyOK, Stream!EndRead, Stream!Next
  <2>3. CASE pc' = pc
        BY <2>1, <2>3, SMT DEF Stream!vars
  <2>4. QED BY <2>1, <2>2, <2>3
<1>7. ASSUME WouldBlock \/ ReadFails PROVE [Stream!Next]_Stream!vars
  <2>1. /\ pc \in {"fill", "direct"} /\ pc' \in {pc, "failed"}
        /\ sent' = sent /\ start' = start /\ want' = want
        BY <1>7, SMT DEF WouldBlock, ReadFails, NeedsSocket, connection
  <2>2. CASE pc' = "failed"
        BY <2>1, <2>2, SMT DEF Stream!Fail, Stream!Next
  <2>3. CASE pc' = pc
        BY <2>1, <2>3, SMT DEF Stream!vars
  <2>4. QED BY <2>1, <2>2, <2>3
<1>8. CASE UNCHANGED vars
      BY <1>8, SMT DEF vars, Stream!vars
<1>9. QED
      BY <1>1, <1>2, <1>3, <1>4, <1>5, <1>6, <1>7, <1>8
         DEF Next, ReadStep, Stream!Next

\* ReadFromRFBServer implements the byte stream its callers rely on.
THEOREM Refinement == Spec => ImplementsByteStream
BY RefinesInit, RefinesStep, Invariance, PTL
   DEF Spec, ImplementsByteStream, Stream!Spec
===============================================================================
