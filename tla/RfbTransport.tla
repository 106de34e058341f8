----------------------------- MODULE RfbTransport -----------------------------
(***************************************************************************)
(* ReadFromRFBServer() of libvncclient/sockets.c on a plain TCP socket.    *)
(*                                                                         *)
(* Every message, rectangle and sample reaches the client through this     *)
(* function.  A read is served from client->buf when it can be; otherwise  *)
(* what is buffered is copied out and the rest comes from the socket:      *)
(* through the buffer, reading ahead as far as the buffer goes, when it    *)
(* fits the buffer, and straight into the caller's memory when it does     *)
(* not.  The socket is non-blocking: a read() that would block counts a    *)
(* retry against readTimeout, waits in select() and is tried again.        *)
(*                                                                         *)
(* Bytes are named by their position in the stream, so that buf and out    *)
(* hold positions and order, loss and duplication can be told apart.       *)
(***************************************************************************)
EXTENDS Naturals

CONSTANTS
  RFB_BUF_SIZE,  \* size of client->buf
  ReadSizes,     \* values of n that callers pass
  RetryLimits,   \* read timeouts in retries of 100 ms; 0 disables the timeout
  MaxStream      \* bound: bytes the server sends in one behaviour

ASSUME TransportAssumption ==
  /\ RFB_BUF_SIZE \in Nat \ {0}
  /\ ReadSizes \subseteq Nat
  /\ RetryLimits \subseteq Nat
  /\ MaxStream \in Nat

VARIABLES
  retryLimit, \* client->readTimeout, in retries
  sent,       \* bytes that have arrived at the socket since it was opened
  peer,       \* "open", "closed" (end of file follows) or "reset" (read fails)
  taken,      \* bytes read() has removed from the socket
  buf,        \* client->buf
  bufoutptr,  \* client->bufoutptr, as an offset into buf
  buffered,   \* client->buffered
  pc,         \* where the call is: "idle", "fill", "direct" or "failed"
  want,       \* the n of the latest call
  n,          \* bytes that call still has to get from the socket
  out,        \* the caller's memory, from the start of the request
  filled,     \* bytes stored through out so far
  retries,    \* the local retry counter of the latest call
  start       \* stream position at which the latest call began

connection == <<retryLimit, sent, peer>>
buffer == <<buf, bufoutptr, buffered>>
call == <<pc, want, n, out, filled, retries, start>>
vars == <<retryLimit, sent, peer, taken, buf, bufoutptr, buffered,
          pc, want, n, out, filled, retries, start>>

Offsets == 0 .. RFB_BUF_SIZE - 1
Available == sent - taken

\* The memory at m, cut to its first k bytes and followed by j bytes of which
\* byte i is Byte(i): a memcpy() or a read() of j bytes to m + k.
Extend(m, k, j, Byte(_)) ==
  [i \in 0 .. k + j - 1 |-> IF i < k THEN m[i] ELSE Byte(i - k)]

\* j bytes at bufoutptr, and the next bytes of the socket.
Buffered(i) == buf[bufoutptr + i]
FromSocket(i) == taken + i

Init ==
  /\ retryLimit \in RetryLimits
  /\ sent = 0
  /\ peer = "open"
  /\ taken = 0
  /\ buf = [i \in Offsets |-> 0]
  /\ bufoutptr = 0
  /\ buffered = 0
  /\ pc = "idle"
  /\ want = 0
  /\ n = 0
  /\ out = [i \in {} |-> 0]
  /\ filled = 0
  /\ retries = 0
  /\ start = 0

-------------------------------------------------------------------------------
(* The server and the network. *)

ServerSend ==
  /\ peer = "open"
  /\ sent' \in sent + 1 .. MaxStream
  /\ UNCHANGED <<retryLimit, peer, taken, buffer, call>>

ServerClose ==
  /\ peer = "open"
  /\ peer' \in {"closed", "reset"}
  /\ UNCHANGED <<retryLimit, sent, taken, buffer, call>>

-------------------------------------------------------------------------------
(* A call, up to its first read(). *)

\* n <= client->buffered: the request is served from the buffer.
ServeFromBuffer(k) ==
  /\ pc = "idle"
  /\ k <= buffered
  /\ start' = start + want
  /\ want' = k
  /\ n' = 0
  /\ retries' = 0
  /\ out' = Extend(out, 0, k, Buffered)
  /\ filled' = k
  /\ bufoutptr' = bufoutptr + k
  /\ buffered' = buffered - k
  /\ UNCHANGED <<connection, taken, buf, pc>>

\* Otherwise the buffer is emptied into out and the socket has to be read.
BeginRead(k) ==
  /\ pc = "idle"
  /\ k > buffered
  /\ start' = start + want
  /\ want' = k
  /\ n' = k - buffered
  /\ retries' = 0
  /\ out' = Extend(out, 0, buffered, Buffered)
  /\ filled' = buffered
  /\ bufoutptr' = 0
  /\ buffered' = 0
  /\ pc' = IF k - buffered <= RFB_BUF_SIZE THEN "fill" ELSE "direct"
  /\ UNCHANGED <<connection, taken, buf>>

-------------------------------------------------------------------------------
(* The read() loops. *)

NeedsSocket == pc = "direct" \/ (pc = "fill" /\ buffered < n)

\* Mutant: every read() goes to the start of the buffer.
ReadOverBuffered ==
  /\ pc = "fill"
  /\ buffered < n
  /\ peer # "reset"
  /\ \E i \in 1 .. Available :
       /\ i <= RFB_BUF_SIZE - buffered
       /\ buf' = [o \in Offsets |-> IF o < i THEN FromSocket(o) ELSE buf[o]]
       /\ buffered' = buffered + i
       /\ taken' = taken + i
  /\ UNCHANGED <<connection, bufoutptr, call>>

\* read() into the free end of the buffer: it may bring more than was asked.
ReadIntoBuffer ==
  /\ pc = "fill"
  /\ buffered < n
  /\ peer # "reset"
  /\ \E i \in 1 .. Available :
       /\ i <= RFB_BUF_SIZE - buffered
       /\ buf' = [o \in Offsets |->
                    IF o \in buffered .. buffered + i - 1
                    THEN FromSocket(o - buffered) ELSE buf[o]]
       /\ buffered' = buffered + i
       /\ taken' = taken + i
  /\ UNCHANGED <<connection, bufoutptr, call>>

\* Mutant: bufoutptr does not move past the bytes handed out.
FinishFillKeepsPointer ==
  /\ pc = "fill"
  /\ buffered >= n
  /\ out' = Extend(out, filled, n, Buffered)
  /\ filled' = filled + n
  /\ buffered' = buffered - n
  /\ n' = 0
  /\ pc' = "idle"
  /\ UNCHANGED <<connection, taken, buf, bufoutptr, want, retries, start>>

\* The loop ends: the rest of the request is copied out of the buffer.
FinishFill ==
  /\ pc = "fill"
  /\ buffered >= n
  /\ out' = Extend(out, filled, n, Buffered)
  /\ filled' = filled + n
  /\ bufoutptr' = bufoutptr + n
  /\ buffered' = buffered - n
  /\ n' = 0
  /\ pc' = "idle"
  /\ UNCHANGED <<connection, taken, buf, want, retries, start>>

\* read() straight into the caller's memory.
ReadDirect ==
  /\ pc = "direct"
  /\ peer # "reset"
  /\ \E i \in 1 .. Available :
       /\ i <= n
       /\ out' = Extend(out, filled, i, FromSocket)
       /\ filled' = filled + i
       /\ n' = n - i
       /\ taken' = taken + i
       /\ pc' = IF i = n THEN "idle" ELSE "direct"
  /\ UNCHANGED <<connection, buffer, want, retries, start>>

\* EAGAIN with a timeout configured: give up past the limit, else wait and retry.
\* (Without one the loop only waits and retries, and no state changes.)
WouldBlock ==
  /\ NeedsSocket
  /\ Available = 0
  /\ peer = "open"
  /\ retryLimit > 0
  /\ retries' = retries + 1
  /\ pc' = IF retries + 1 > retryLimit THEN "failed" ELSE pc
  /\ UNCHANGED <<connection, taken, buffer, want, n, out, filled, start>>

\* Mutant: a read() of 0 bytes is retried like one that would block.
ReadFailsOnErrorOnly ==
  /\ NeedsSocket
  /\ peer = "reset"
  /\ pc' = "failed"
  /\ UNCHANGED <<connection, taken, buffer, want, n, out, filled, retries, start>>

\* read() returns 0 at the end of the stream, or an error.
ReadFails ==
  /\ NeedsSocket
  /\ \/ peer = "closed" /\ Available = 0
     \/ peer = "reset"
  /\ pc' = "failed"
  /\ UNCHANGED <<connection, taken, buffer, want, n, out, filled, retries, start>>

ReadStep == ReadIntoBuffer \/ FinishFill \/ ReadDirect \/ WouldBlock \/ ReadFails

Next ==
  \/ ServerSend
  \/ ServerClose
  \/ \E k \in ReadSizes : ServeFromBuffer(k) \/ BeginRead(k)
  \/ ReadStep

Spec == Init /\ [][Next]_vars

\* The client thread keeps running once it is inside a call; nothing is
\* assumed of callers, of the server or of the network.
FairSpec == Spec /\ WF_vars(ReadStep)

-------------------------------------------------------------------------------
(* Properties. *)

TypeOK ==
  /\ retryLimit \in RetryLimits
  /\ sent \in Nat
  /\ peer \in {"open", "closed", "reset"}
  /\ taken \in 0 .. sent
  /\ buf \in [Offsets -> Nat]
  /\ bufoutptr \in 0 .. RFB_BUF_SIZE
  /\ buffered \in 0 .. RFB_BUF_SIZE
  /\ pc \in {"idle", "fill", "direct", "failed"}
  /\ want \in Nat
  /\ n \in Nat
  /\ filled \in Nat
  /\ out \in [0 .. filled - 1 -> Nat]
  /\ retries \in Nat
  /\ start \in Nat

\* A caller gets the bytes of the stream in order, with no byte skipped,
\* repeated or left over from an earlier read, whichever of the three paths
\* of ReadFromRFBServer (buffer, fill, direct) its bytes came along.
InOrder == \A i \in 0 .. filled - 1 : out[i] = start + i

\* No byte is dropped between the socket and the callers: what read() took is
\* what was handed out plus what is still in client->buf.  A failed read keeps
\* the account too.
NoByteLost == taken = start + filled + buffered

\* The buffered bytes lie inside client->buf, and a call never stores past the
\* n bytes its caller provided.
WithinBounds ==
  /\ bufoutptr + buffered <= RFB_BUF_SIZE
  /\ filled <= want

\* A call returns TRUE only with all n bytes stored.
CompleteOnReturn == pc = "idle" => filled = want

Safety == InOrder /\ NoByteLost /\ WithinBounds /\ CompleteOnReturn

\* The strengthening that makes Safety inductive: the buffer holds the bytes
\* that follow those handed out, n counts what is missing, a fill fits the
\* buffer, and a direct read leaves nothing behind in the buffer.
BufferHoldsNext ==
  \A o \in bufoutptr .. bufoutptr + buffered - 1 :
     buf[o] = start + filled + (o - bufoutptr)

CallConsistent ==
  /\ pc # "idle" => filled + n = want
  /\ pc \in {"fill", "direct"} => n > 0
  /\ pc = "fill" => n <= RFB_BUF_SIZE /\ bufoutptr = 0
  /\ pc = "direct" => buffered = 0

IInv == TypeOK /\ Safety /\ BufferHoldsNext /\ CallConsistent

\* With a timeout configured a call always returns, however little the server
\* sends; without one it returns once the bytes it needs are on the socket or
\* the connection has ended.
CallReturns ==
  (/\ pc \in {"fill", "direct"}
   /\ \/ retryLimit > 0
      \/ sent >= start + want
      \/ peer # "open") ~> (pc \in {"idle", "failed"})

-------------------------------------------------------------------------------
(* Refinement. *)

Stream == INSTANCE ByteStream WITH
  arrived  <- sent,
  consumed <- IF pc = "idle" THEN start + want ELSE start,
  state    <- IF pc \in {"idle", "failed"} THEN pc ELSE "busy",
  pending  <- IF pc = "idle" THEN 0 ELSE want,
  reply    <- IF pc = "idle" THEN out ELSE [i \in {} |-> 0]

\* ReadFromRFBServer implements the byte stream its callers rely on.
ImplementsByteStream == Stream!Spec
===============================================================================
