---------------------------- MODULE WriteTransport ----------------------------
(***************************************************************************)
(* WriteToRFBServer() of sockets.c and WriteToTLS(): every message of the  *)
(* client leaves through these loops, which "don't return until you've     *)
(* sent them".  The socket is non-blocking and takes what its send buffer  *)
(* has room for.  While the client is in here it reads nothing, and a      *)
(* server that is in its own write reads nothing either.                   *)
(*                                                                         *)
(* Bytes are named by their position in all that callers have asked to     *)
(* write, so that a byte skipped, repeated or out of order can be told.    *)
(***************************************************************************)
EXTENDS Naturals

CONSTANTS
  SendBuffer,    \* bytes on the way to the server
  ReceiveBuffer, \* bytes on the way to the client
  WriteSizes,    \* values of n that callers pass
  MaxCalls,      \* bound: calls of one behaviour
  MaxDue         \* bound: bytes of one message of the server

ASSUME WriteAssumption ==
  /\ SendBuffer \in Nat \ {0} /\ ReceiveBuffer \in Nat
  /\ WriteSizes \subseteq Nat
  /\ MaxCalls \in Nat /\ MaxDue \in Nat

VARIABLES
  mode,        \* "plain", "tls" or "playing" (a vncrec file, serverPort = -1)
  peer,        \* "open", or "reset": the server has closed
  at,          \* "idle" or "write": where the call is
  want,        \* the n of the latest call
  i,           \* bytes of it the socket has taken
  result,      \* what the latest call returned
  start,       \* position of its first byte
  calls,
  stream,      \* the bytes the socket has taken, from the first one on
  length,      \* how many they are
  taken,       \* how many of them the server has read
  interrupted, \* history: a signal has ended a select()
  serverAt,    \* "read" or "write"
  due,         \* bytes the server still has to write
  inbound      \* bytes it has written and the client has not read

call == <<at, want, i, result, start, calls>>
sent == <<stream, length>>
server == <<taken, serverAt, due, inbound>>
writeVars == <<mode, peer, call, sent, interrupted, server>>

Room == SendBuffer - (length - taken)

WriteInit ==
  /\ mode \in {"plain", "tls", "playing"} /\ peer = "open"
  /\ at = "idle" /\ want = 0 /\ i = 0 /\ result = TRUE /\ start = 0 /\ calls = 0
  /\ stream = [p \in {} |-> 0] /\ length = 0 /\ taken = 0 /\ interrupted = FALSE
  /\ serverAt = "read" /\ due = 0 /\ inbound = 0

-------------------------------------------------------------------------------
(* The client *)

\* A call up to its loop.  Without bytes to write the plain loop is over at once;
\* WriteToTLS() returns 0, which its caller takes for a failure.
BeginWrite(n) ==
  /\ at = "idle" /\ calls < MaxCalls
  /\ start' = start + want /\ want' = n /\ i' = 0 /\ calls' = calls + 1
  /\ IF n = 0 \/ mode = "playing"
     THEN at' = "idle" /\ result' = (mode = "tls" => n > 0)
     ELSE at' = "write" /\ UNCHANGED result
  /\ UNCHANGED <<mode, peer, sent, interrupted, server>>

\* The socket takes j bytes of the message, from byte first on.
Takes(j, first) ==
  /\ stream' = [p \in 0 .. length + j - 1 |->
                  IF p < length THEN stream[p] ELSE first + (p - length)]
  /\ length' = length + j

\* Mutant: every write() starts at the first byte again.
WriteSomeFromStart ==
  /\ at = "write" /\ peer = "open"
  /\ \E j \in 1 .. want - i :
       /\ j <= Room
       /\ Takes(j, start)
       /\ i' = i + j
       /\ IF i + j = want THEN at' = "idle" /\ result' = TRUE ELSE UNCHANGED <<at, result>>
  /\ UNCHANGED <<mode, peer, want, start, calls, interrupted, server>>

\* Mutant: a write() that takes part of the bytes counts as done.
WriteOnce ==
  /\ at = "write" /\ peer = "open"
  /\ \E j \in 1 .. want - i :
       /\ j <= Room
       /\ Takes(j, start + i)
       /\ i' = i + j /\ at' = "idle" /\ result' = TRUE
  /\ UNCHANGED <<mode, peer, want, start, calls, interrupted, server>>

\* A write() of the loop, or a record of TLS: the socket takes some of the bytes.
\* When it has no room select() waits, and WriteToTLS() tries again.
WriteSome ==
  /\ at = "write" /\ peer = "open"
  /\ \E j \in 1 .. want - i :
       /\ j <= Room
       /\ Takes(j, start + i)
       /\ i' = i + j
       /\ IF i + j = want THEN at' = "idle" /\ result' = TRUE ELSE UNCHANGED <<at, result>>
  /\ UNCHANGED <<mode, peer, want, start, calls, interrupted, server>>

\* A signal, SDL catches SIGTERM, ends the wait: the call fails though the connection
\* is alive.
SelectInterrupted ==
  /\ at = "write" /\ mode = "plain" /\ peer = "open" /\ Room = 0
  /\ at' = "idle" /\ result' = FALSE /\ interrupted' = TRUE
  /\ UNCHANGED <<mode, peer, want, i, start, calls, sent, server>>

\* Mutant: EAGAIN is an error like the others.
WriteFailsWhenFull ==
  /\ at = "write" /\ (peer = "reset" \/ Room = 0)
  /\ at' = "idle" /\ result' = FALSE
  /\ UNCHANGED <<mode, peer, want, i, start, calls, sent, interrupted, server>>

\* Mutant: an error in the middle of a message is tried again.
WriteFailsAtFirstOnly ==
  /\ at = "write" /\ peer = "reset" /\ i = 0
  /\ at' = "idle" /\ result' = FALSE
  /\ UNCHANGED <<mode, peer, want, i, start, calls, sent, interrupted, server>>

WriteFails ==
  /\ at = "write" /\ peer = "reset"
  /\ at' = "idle" /\ result' = FALSE
  /\ UNCHANGED <<mode, peer, want, i, start, calls, sent, interrupted, server>>

\* The main loop reads between its writes.
ClientReads ==
  /\ at = "idle"
  /\ inbound' \in 0 .. inbound - 1
  /\ UNCHANGED <<mode, peer, call, sent, interrupted, taken, serverAt, due>>

-------------------------------------------------------------------------------
(* The server, external *)

ServerReads ==
  /\ peer = "open" /\ serverAt = "read"
  /\ taken' \in taken + 1 .. length
  /\ UNCHANGED <<mode, peer, call, sent, interrupted, serverAt, due, inbound>>

ServerBegins ==
  /\ peer = "open" /\ mode # "playing" /\ serverAt = "read"
  /\ serverAt' = "write" /\ due' \in 1 .. MaxDue
  /\ UNCHANGED <<mode, peer, call, sent, interrupted, taken, inbound>>

ServerWrites ==
  /\ peer = "open" /\ serverAt = "write" /\ inbound < ReceiveBuffer
  /\ inbound' = inbound + 1 /\ due' = due - 1
  /\ serverAt' = IF due = 1 THEN "read" ELSE "write"
  /\ UNCHANGED <<mode, peer, call, sent, interrupted, taken>>

ServerCloses ==
  /\ peer = "open" /\ peer' = "reset"
  /\ UNCHANGED <<mode, call, sent, interrupted, server>>

WriteStep == WriteSome \/ WriteFails

WriteNext ==
  \/ \E n \in WriteSizes : BeginWrite(n)
  \/ WriteStep \/ SelectInterrupted \/ ClientReads
  \/ ServerReads \/ ServerBegins \/ ServerWrites \/ ServerCloses

WriteSafetySpec == WriteInit /\ [][WriteNext]_writeVars

\* The client's thread runs, and the server goes on with what it can go on with.
WriteSpec ==
  /\ WriteSafetySpec
  /\ WF_writeVars(WriteStep) /\ WF_writeVars(ServerReads) /\ WF_writeVars(ServerWrites)

-------------------------------------------------------------------------------
TypeOK ==
  /\ mode \in {"plain", "tls", "playing"} /\ peer \in {"open", "reset"}
  /\ at \in {"idle", "write"} /\ want \in Nat /\ i \in 0 .. want /\ start \in Nat
  /\ calls \in Nat /\ result \in BOOLEAN /\ interrupted \in BOOLEAN
  /\ length \in Nat /\ taken \in 0 .. length /\ stream \in [0 .. length - 1 -> Nat]
  /\ serverAt \in {"read", "write"} /\ due \in Nat /\ inbound \in Nat
  /\ (serverAt = "write" => due > 0)

\* The socket gets the bytes of all messages in order, none skipped and none twice,
\* however write() cuts them up and whichever calls fail, until a signal ends a
\* select(): callers that ignore the failure then write into a broken stream.
InOrder == ~interrupted => \A p \in 0 .. length - 1 : stream[p] = p

\* A call that returns TRUE has handed over every byte asked for so far: messages
\* written in two calls, a header and its text, are whole when the second returns.
CompleteOnReturn ==
  at = "idle" /\ result /\ ~interrupted /\ peer = "open" /\ mode # "playing" =>
    length = start + want

\* A call fails only on a connection that is gone or a signal; and in TLS when it
\* has nothing to write, unlike on a plain socket.
FailsOnlyOnError ==
  at = "idle" /\ ~result => peer = "reset" \/ interrupted \/ (mode = "tls" /\ want = 0)

\* Client and server both wait in a write for the other to read.
BothWriting ==
  /\ at = "write" /\ Room = 0 /\ peer = "open"
  /\ serverAt = "write" /\ inbound = ReceiveBuffer

\* A call returns unless the server is waiting in a write of its own for the client
\* to read: the select() has no timeout, and nothing else can hold it.
WriteReturns == at = "write" ~> (at = "idle" \/ BothWriting)

-------------------------------------------------------------------------------
\* The strengthening that makes InOrder and CompleteOnReturn inductive: on a live
\* connection the socket has taken all the bytes of the earlier calls and the first
\* i of this one; after a failure no more.
Progress ==
  /\ mode = "playing" => length = 0 /\ at = "idle"
  /\ ~interrupted /\ peer = "open" /\ mode # "playing" => length = start + i
  /\ at = "idle" /\ peer = "open" /\ ~interrupted /\ mode # "playing" => i = want

WriteInv == TypeOK /\ InOrder /\ Progress
===============================================================================
