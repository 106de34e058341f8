------------------------------ MODULE ByteStream ------------------------------
(***************************************************************************)
(* What a caller of ReadFromRFBServer() relies on: a reliable byte stream. *)
(* A read of k bytes either returns, at once or after a wait, exactly the  *)
(* next k bytes of the stream, in order, or it fails and the stream is     *)
(* over.  Bytes are named by their position in the stream.                 *)
(***************************************************************************)
EXTENDS Naturals

CONSTANTS
  ReadSizes,  \* the sizes callers ask for
  MaxStream   \* bound: bytes the server sends in one behaviour

VARIABLES
  arrived,    \* bytes the server has put on the connection
  consumed,   \* bytes handed to callers by reads that returned TRUE
  state,      \* "idle", "busy" (inside a read) or "failed"
  pending,    \* size of the read in progress, 0 when there is none
  reply       \* what the last completed read returned

vars == <<arrived, consumed, state, pending, reply>>

Empty == [i \in {} |-> 0]

\* The k bytes of the stream that follow position p.
Slice(p, k) == [i \in 0 .. k - 1 |-> p + i]

Init ==
  /\ arrived = 0
  /\ consumed = 0
  /\ state = "idle"
  /\ pending = 0
  /\ reply = Empty

Arrive ==
  /\ arrived' \in arrived + 1 .. MaxStream
  /\ UNCHANGED <<consumed, state, pending, reply>>

\* A read that does not have to wait.
ReadNow(k) ==
  /\ state = "idle"
  /\ consumed + k <= arrived
  /\ reply' = Slice(consumed, k)
  /\ consumed' = consumed + k
  /\ UNCHANGED <<arrived, state, pending>>

BeginRead(k) ==
  /\ state = "idle"
  /\ state' = "busy"
  /\ pending' = k
  /\ reply' = Empty
  /\ UNCHANGED <<arrived, consumed>>

EndRead ==
  /\ state = "busy"
  /\ consumed + pending <= arrived
  /\ reply' = Slice(consumed, pending)
  /\ consumed' = consumed + pending
  /\ state' = "idle"
  /\ pending' = 0
  /\ UNCHANGED arrived

Fail ==
  /\ state = "busy"
  /\ state' = "failed"
  /\ UNCHANGED <<arrived, consumed, pending, reply>>

Next ==
  \/ Arrive
  \/ \E k \in ReadSizes : ReadNow(k) \/ BeginRead(k)
  \/ EndRead
  \/ Fail

Spec == Init /\ [][Next]_vars
===============================================================================
