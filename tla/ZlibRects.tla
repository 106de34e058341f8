------------------------------- MODULE ZlibRects -------------------------------
(***************************************************************************)
(* The rectangles that travel compressed: HandleTight() of tight.c with    *)
(* its four zlib streams and the loop that turns inflated bytes into rows, *)
(* HandleZlib() and HandleZRLE() with the one client->decompStream they    *)
(* share.                                                                  *)
(*                                                                         *)
(* A compressor goes on from rectangle to rectangle: what it sends can     *)
(* only be inflated by a stream that has inflated everything it has sent   *)
(* since it was reset.  A chunk is therefore known by the number of chunks *)
(* the server's stream has produced before it, and the state of an inflate *)
(* stream is the number it has taken in.  inflate() is external: with its  *)
(* input it gains the right to put out some number of bytes and puts out   *)
(* as many as there is room for.                                           *)
(***************************************************************************)
EXTENDS Naturals, FiniteSetsExt

CONSTANTS
  Streams,      \* the zlib streams of Tight
  BufferSize,   \* bytes of client->buffer that take inflated data
  PortionSize,  \* ZLIB_BUFFER_SIZE
  RowSizes,     \* bytes of a row
  MaxRows,      \* bound: rows of a rectangle
  MaxLength,    \* bound: compressed bytes of a rectangle
  MaxRects      \* bound: rectangles of a session

ASSUME ZlibAssumption ==
  /\ BufferSize \in Nat \ {0} /\ PortionSize \in Nat \ {0}
  /\ RowSizes \subseteq 1 .. BufferSize
  /\ MaxRows \in Nat /\ MaxLength \in Nat /\ MaxRects \in Nat
  /\ {"zlib", "zrle", "none", "decompStream"} \cap Streams = {}

VARIABLES
  \* the server
  sent,          \* chunks each of its compressors has produced since its reset
  rects,         \* rectangles sent
  \* the client's streams
  active,        \* zlibStreamActive[] and decompStreamInited
  inflated,      \* chunks each stream has inflated since inflateInit()
  \* HandleTight()
  at,            \* "idle", "portion" (the outer loop), "inflate" (the inner), "failed"
  stream,        \* stream_id
  rowSize, rh, compressedLen, rowsProcessed, extraBytes,
  ready,         \* bytes inflate() can still put out from the input it has
  fresh,         \* inflate() has not been called on this portion yet
  gained         \* history: bytes of the rectangle inflate() could put out so far

server == <<sent, rects>>
client == <<active, inflated>>
loop == <<stream, rowSize, rh, compressedLen, rowsProcessed, extraBytes, ready, fresh, gained>>
zlibVars == <<server, client, at, loop>>

Compressors == Streams \cup {"zlib", "zrle"}

\* The stream of the client that inflates what a compressor sends.
Inflater(c) == IF c \in Streams THEN c ELSE "decompStream"
Inflaters == {Inflater(c) : c \in Compressors}

ZlibInit ==
  /\ sent = [c \in Compressors |-> 0] /\ rects = 0
  /\ active = [s \in Inflaters |-> FALSE] /\ inflated = [s \in Inflaters |-> 0]
  /\ at = "idle" /\ stream = "none" /\ rowSize = 1 /\ rh = 0 /\ compressedLen = 0
  /\ rowsProcessed = 0 /\ extraBytes = 0 /\ ready = 0 /\ fresh = FALSE /\ gained = 0

(***************************************************************************)
(* A rectangle arrives.  The server may have reset some of its Tight       *)
(* compressors and says so in the first byte.                              *)
(***************************************************************************)
\* Mutant: solid and JPEG rectangles are handled before the reset bits.
FlushedUnlessSolid(resets, solid) ==
  [s \in Inflaters |-> active[s] /\ (s \in resets => solid)]

\* "Flush zlib streams if we are told by the server to do so."
Flushed(resets, solid) == [s \in Inflaters |-> active[s] /\ s \notin resets]

Compressed(resets, c) ==
  sent' = [b \in Compressors |->
             (IF b \in resets THEN 0 ELSE sent[b]) + (IF b = c THEN 1 ELSE 0)]

Sends == at = "idle" /\ rects < MaxRects /\ rects' = rects + 1

\* Fill and JPEG, and data too short to compress or sent with NoZlib: handled
\* without a stream.  NoZlib data larger than RFB_BUFFER_SIZE, which ends the
\* session, is left out.
HandlePlain(resets, solid) ==
  /\ Sends /\ Compressed(resets, "none")
  /\ active' = Flushed(resets, solid)
  /\ UNCHANGED <<inflated, at, loop>>

\* inflateInit() when the stream is not active.
Inited(act, s) == [inflated EXCEPT ![s] = IF act[s] THEN @ ELSE 0]

\* The basic type up to its loop, for rows of the size r.
HandleTight(c, resets, r, rows, length) ==
  /\ Sends /\ Compressed(resets, c)
  /\ LET act == Flushed(resets, FALSE)
     IN  active' = [act EXCEPT ![c] = TRUE] /\ inflated' = Inited(act, c)
  /\ at' = "portion" /\ stream' = c /\ rowSize' = r /\ rh' = rows /\ compressedLen' = length
  /\ rowsProcessed' = 0 /\ extraBytes' = 0 /\ ready' = 0 /\ fresh' = FALSE /\ gained' = 0

\* A whole rectangle is inflated into raw_buffer with client->decompStream.
Decompress(c) ==
  /\ Sends /\ Compressed({}, c)
  /\ active' = [active EXCEPT !["decompStream"] = TRUE]
  /\ LET taken == Inited(active, "decompStream")
     IN  IF taken["decompStream"] = sent[c]
         THEN inflated' = [taken EXCEPT !["decompStream"] = @ + 1] /\ at' = "idle"
         ELSE inflated' = taken /\ at' = "failed"
  /\ UNCHANGED loop

HandleZlib == Decompress("zlib")
HandleZRLE == Decompress("zrle")

HandleRect ==
  \/ \E resets \in SUBSET Streams, solid \in BOOLEAN : HandlePlain(resets, solid)
  \/ \E c \in Streams, resets \in SUBSET Streams, r \in RowSizes,
        rows \in 1 .. MaxRows, length \in 1 .. MaxLength :
       HandleTight(c, resets, r, rows, length)
  \/ HandleZlib \/ HandleZRLE

(***************************************************************************)
(* The loops of HandleTight()                                              *)
(***************************************************************************)
InTheWay == inflated[stream] + 1 # sent[stream]

\* ReadFromRFBServer() of one portion; the last brings all that is missing.
ReadPortion ==
  /\ at = "portion" /\ compressedLen > 0
  /\ LET portionLen == Min({compressedLen, PortionSize})
     IN  /\ compressedLen' = compressedLen - portionLen
         /\ \E g \in 0 .. rh * rowSize - gained :
              /\ compressedLen' = 0 => gained + g = rh * rowSize
              /\ ready' = g /\ gained' = gained + g
  /\ fresh' = TRUE /\ at' = "inflate"
  /\ UNCHANGED <<server, client, stream, rowSize, rh, rowsProcessed, extraBytes>>

\* Mutant: the part of a row at the end of the buffer is not moved to its start.
InflateDropsPartOfRow ==
  /\ at = "inflate" /\ ~InTheWay
  /\ LET out == Min({ready, BufferSize - extraBytes})
         filled == extraBytes + out
     IN  IF out = 0 /\ ~fresh
         THEN at' = "portion" /\ UNCHANGED <<rowsProcessed, extraBytes, ready, fresh>>
         ELSE /\ rowsProcessed' = rowsProcessed + filled \div rowSize
              /\ extraBytes' = 0
              /\ ready' = ready - out /\ fresh' = FALSE
              /\ at' = IF filled = BufferSize THEN "inflate" ELSE "portion"
  /\ UNCHANGED <<server, client, stream, rowSize, rh, compressedLen, gained>>

\* Mutant: Z_BUF_ERROR does not end the inner loop.
InflateAgain ==
  /\ at = "inflate" /\ ~InTheWay
  /\ LET out == Min({ready, BufferSize - extraBytes})
         filled == extraBytes + out
     IN  /\ rowsProcessed' = rowsProcessed + filled \div rowSize
         /\ extraBytes' = filled % rowSize
         /\ ready' = ready - out /\ fresh' = FALSE
         /\ at' = IF (out = 0 /\ ~fresh) \/ filled = BufferSize THEN "inflate" ELSE "portion"
  /\ UNCHANGED <<server, client, stream, rowSize, rh, compressedLen, gained>>

\* One turn of the inner loop: inflate() behind what is left of a row, the filter
\* on the full rows, and the rest moved to the front.  Z_BUF_ERROR, no progress
\* possible, and room left in the buffer end the loop.
Inflate ==
  /\ at = "inflate" /\ ~InTheWay
  /\ LET out == Min({ready, BufferSize - extraBytes})
         filled == extraBytes + out
     IN  IF out = 0 /\ ~fresh
         THEN at' = "portion" /\ UNCHANGED <<rowsProcessed, extraBytes, ready, fresh>>
         ELSE /\ rowsProcessed' = rowsProcessed + filled \div rowSize
              /\ extraBytes' = filled % rowSize
              /\ ready' = ready - out /\ fresh' = FALSE
              /\ at' = IF filled = BufferSize THEN "inflate" ELSE "portion"
  /\ UNCHANGED <<server, client, stream, rowSize, rh, compressedLen, gained>>

\* A stream that has missed a reset or a chunk makes nothing of the input.
InflateFails ==
  /\ at = "inflate" /\ InTheWay /\ at' = "failed"
  /\ UNCHANGED <<server, client, loop>>

\* The count of the rows decides.
EndOfRect ==
  /\ at = "portion" /\ compressedLen = 0
  /\ at' = IF rowsProcessed = rh THEN "idle" ELSE "failed"
  /\ inflated' = [inflated EXCEPT ![stream] = @ + 1]
  /\ UNCHANGED <<server, active, loop>>

TightLoop == ReadPortion \/ Inflate \/ InflateFails \/ EndOfRect

ZlibNext == HandleRect \/ TightLoop

ZlibSpec == ZlibInit /\ [][ZlibNext]_zlibVars /\ WF_zlibVars(TightLoop)

-------------------------------------------------------------------------------
\* A rectangle of a server that keeps to the protocol is refused only when the
\* server has used both Zlib and ZRLE in the session.
RefusedOnlyIfMixed == at = "failed" => sent["zlib"] > 0 /\ sent["zrle"] > 0

\* Between two rectangles every inflate stream of Tight stands where the server's
\* compressor does, or will be started from nothing when the compressor is used
\* next, whatever kinds of rectangle the resets came with; so that what it sends
\* can be inflated, but for the stream that Zlib and ZRLE share.
StreamsInStep ==
  /\ at = "idle" =>
       \A s \in Streams : IF active[s] THEN inflated[s] = sent[s] ELSE sent[s] = 0
  /\ RefusedOnlyIfMixed

\* In the loop of HandleTight() every byte that has been inflated is in a row
\* that has been drawn, in the part of a row kept in the buffer, or still to come
\* out of inflate(): none is drawn twice, and no row beyond the last.
RowsAccountedFor ==
  at \in {"portion", "inflate"} =>
    /\ rowsProcessed * rowSize + extraBytes + ready = gained
    /\ extraBytes < rowSize /\ rowsProcessed <= rh
    /\ at = "portion" => ready = 0

\* The loops of HandleTight() end, whatever the sizes of portions and buffer, as
\* long as the bytes of the rectangle arrive.
RectEnds == at \in {"portion", "inflate"} ~> at \in {"idle", "failed"}
===============================================================================
