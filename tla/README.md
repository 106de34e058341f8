# A verification of bwVNC

TLA+ modules, TLC runs and TLAPS proofs for bwVNC, an SDL2 viewer (`bwvnc/`) on a client
library derived from LibVNCClient (`libvncclient/`, `common/`, `rfb/`).  Every definition is
translated from the source; the file names and lines in this document are those of the repository.

## 1. The system

One thread does nearly everything: it polls SDL for events, waits for the server's socket, and
handles one server message at a time, from its first byte to its last, drawing as it goes.  The
second thread is the audio device's, which takes sound out of a ring that the first one fills.
The other party is the server, reached over one TCP connection (plain, TLS or SASL).

| Part | State | Operations | Interacts with |
|---|---|---|---|
| Transport, reading (`sockets.c`) | `buf`, `bufoutptr`, `buffered` | `ReadFromRFBServer`, `WaitForMessage` | socket; called by every handler |
| Transport, writing and connecting (`sockets.c`) | socket flags | `WriteToRFBServer`, `ConnectClientTo...` | socket; called by every sender |
| TLS and SASL (`tls_*.c`, `sasl.c`) | session, record buffers | `ReadFromTLS`, `ReadFromSASL`, ... | between transport and socket |
| Handshake (`rfbclient.c`, `vncviewer.c`) | versions, security type, formats | `InitialiseRFBConnection`, `SetFormatAndEncodings` | transport, credentials callback |
| Main loop (`bwvnc.c`) and dispatch (`rfbclient.c`) | position in the loop, SDL queue | `main`, `handleSDLEvent`, `HandleRFBServerMessage` | everything |
| Desktop size and update requests (`rfbclient.c`, `bwvnc.c`) | `width`, `screen`, `requestedResize`, framebuffer | `SendFramebufferUpdateRequest`, `SendExtDesktopSize`, `ResizeClientBuffer`, `resize` | server, window events, H264 |
| Audio (`audio.c`, `rfbclient.c`) | the ring, its two sizes and heads, `fbytes`, `audioEngineState` | `audioInit`, `addSamples`, `notifyStreamingStartStop`, `audioOutCallback` | device thread, server |
| H264 (`h264.c`) | decoder and its size | `HandleH264` | FFmpeg, `client->screen` |
| Rectangle decoders (`tight.c`, `zrle.c`, ...) | zlib streams, row buffers | one handler per encoding | transport, framebuffer |
| Input events (`bwvnc.c`) | buttons, Alt keys, pointer, menu shown | `handleSDLEvent`, `r_ui_event` | server, menu |
| Session lifecycle (`bwvnc.c`, `vncviewer.c`, `listen.c`) | client structure, globals that outlive it | `rfbGetClient`, `rfbInitClient`, `cleanup`, listen loop | everything |
| Clipboard, cursor, menu, log window, vncrec playback | small buffers | handlers and callbacks | server, SDL |

What is hard in it:

* **Ordering.**  Update requests, resize requests, size announcements and pixels travel in two
  queues and cross each other, and a flag (`requestedResize`) suppresses some of them.
* **Liveness.**  A server sends updates only on request, and the client requests only at the end
  of an update, unless that ends with an H264 rectangle, or when the window is exposed or resized;
  and a request is skipped while a resize is in progress.  A lost request stops the picture.
* **Staleness.**  `select()` looks at the socket, but the next message may be in the read-ahead
  buffer; `client->screen` holds what was asked for or what was announced.
* **Concurrency.**  The audio callback shares sizes and heads with the network thread, without a
  lock but for a flag that one of the two looks at once.
* **Implicit protocol state.**  In the handshake and in the compressed encodings no message says
  what it is or how long it is: both sides must have drawn the same conclusions from what went
  before (versions, lists, zlib streams, palettes).
* **State that outlives its owner.**  In the listen loop the static variables of `bwvnc.c` and
  `audio.c` pass from one session to the next; the menu takes key releases away from the server.
* **Failure.**  Would-block results, timeouts, end of file and errors inside a message.

What makes each part correct:

| Part | Correct when |
|---|---|
| Transport, reading | callers get the server's bytes in order, none lost or twice, inside the memory they pass; every call returns |
| Transport, writing | what is written arrives whole and in order; a write ends when the connection does |
| TLS and SASL | records of any size give the same byte stream as a plain socket |
| Handshake | both sides agree on version, security type and format before the first update; a failure ends the session |
| Main loop and dispatch | messages are read whole, one after the other; unless the server sends unasked (H264), a request is always under way or being answered; what the server shows is shown |
| Desktop size | no rectangle passes the framebuffer; requests skipped during a resize are made up for; sizes agree in the end and the window is painted |
| Audio | the ring plays what came, in order and in whole samples, and drops only what is late |
| H264 | a new picture size restarts the decoder and leaves the desktop's size alone |
| Rectangle decoders | each produces the pixels of its reference definition and reads all of its rectangle |
| Input events | the server sees no key or button down that the user has released |
| Session lifecycle | every client structure is freed once, and nothing of an ended session is used in the next |

## 2. The modules

| Module | Models | State and actions against the code |
|---|---|---|
| `RfbTransport` | `ReadFromRFBServer()` (`sockets.c:62-242`) | `buf`, `bufoutptr`, `buffered` are the fields of `rfbClient`; one call is `ServeFromBuffer` or `BeginRead` followed by one action per `read()` result (`ReadIntoBuffer`, `ReadDirect`, `WouldBlock`, `ReadFails`) and the final copy (`FinishFill`). Bytes are stream positions, so that loss, duplication and order show. |
| `ByteStream` | what callers rely on | the abstract specification of the transport |
| `WriteTransport` | `WriteToRFBServer()`, `WriteToTLS()` (`sockets.c:249-341`) | one action per `write()` or TLS record of the loop, for a signal in `select()` and for an error; the server reads, or is in a write of its own; bytes are positions in all that callers have asked for |
| `ClientLoop` | `main()`'s loop, `WaitForMessage()`, read-ahead, the TLS and SASL layer under it, the request of the next update, which an H264 rectangle leaves out (`rfbclient.c:2578`) and `requestedResize` skips (`rfbclient.c:1512`) | messages are the fragments one read asks for; of an update it matters which screen it shows and what its last rectangle is; `pc` is the place in the loop; `Read` is the buffer of `RfbTransport` in whole fragments; `decoded` is what `ReadFromSASL()` (`sasl.c:513-570`) or the TLS library keeps of a record |
| `MCClientLoop` | `ClientLoop` for TLC | the four connections the run looks at |
| `DesktopSize` | sizes and requests (`rfbclient.c:1492-1528, 1690-1749, 2143-2184, 2242-2254, 2578`, `h264.c:190-209`, `bwvnc.c:140-190, 410-416`) | a size is one number; each message of the two FIFO channels is handled by one action with all the sends its handler makes; `window` is the size of the window, which the user sets and so does `resize()` (`bwvnc.c:188`) |
| `MCWindowSize` | `DesktopSize` with an obliging server and a history of the user's resizes | a history variable: the size the user gave the window last, which the desktop has to follow |
| `AudioRing` | `audio.c`, and the loop over a data message (`rfbclient.c:2605-2640`) | each function one step; a byte of sound is its serial number |
| `SampleQueue` | what the ring promises | the abstract specification of `AudioRing` |
| `AudioThreads` | sizes, heads and `cbLock` of `audio.c` under two threads | one step per load or store of a shared variable: `Load` and `Store` for `-=`, `+=` and the masked heads, a named action for every other place where a shared variable is read or set; `th[t]` holds a thread's locals and registers; `lost` counts stores that undo one of the other thread |
| `Viewer` | `main()`'s sessions, `handleSDLEvent()`, the menu (`bwvnc.c`, `renderer.c`), `rfbInitClient()` and `rfbClientCleanup()` as they see them | `pc` is the place in `main()`, `clients` what became of every structure; one action per event; `held` is what the user presses, `down` what the server believes pressed, `missed` what the server cannot have heard of; a letter has the keysym of its own or of its capital, or none, by Ctrl, Shift and the game mode (`bwvnc.c:287-299`) |
| `MCViewer` | `Viewer` for TLC | a behaviour exercises input or sound, besides the sessions and the menu they share |
| `Handshake` | `InitialiseRFBConnection()` with `ReadSupportedSecurityType()`, `HandleVeNCryptAuth()` and the challenges (`rfbclient.c`, `tls_gnutls.c`) | `at` is the message the client reads next, `serverAt` the server's; one action per message read with all the replies that follow it; a message carries its kind and the layer it was written in |
| `CopyRect` | `CopyRectangleFromRectangle()` (`vncviewer.c`) | one step per pixel, over a framebuffer that is a function on coordinates |
| `ZlibRects` | `HandleTight()`'s streams and its row loop, `HandleZlib()`, `HandleZRLE()` | a chunk is its number in the compressor's output; an inflate stream is the number it has taken |
| `TileRects` | `HandleTRLE()` with its pixel loops, `HandleHextile()` | one step per tile, and per row or run of a packed one; a palette is its size and origin |
| `MCDecoders` | the three decoder modules together | a session uses one family of encodings |
| `RfbTransportProofs`, `WriteTransportProofs`, `ClientLoopProofs`, `DesktopSizeProofs`, `AudioRingProofs`, `AudioThreadsProofs`, `SessionProofs`, `DecoderProofs` | - | the theorems, see section 5 |

`ClientLoop` abstracts what `RfbTransport` does with bytes to whole fragments, and a record of TLS or
SASL to what has arrived together: the waits for the rest of a partial record are the would-block
results of `RfbTransport`.  Of `DesktopSize` it has the flag `requestedResize` with the
`SetDesktopSize` and the answer that move it, and no sizes: a resize of the window is one to another
size than the server's.  `DesktopSize` leaves out the loop of `ClientLoop` (a message in `toClient`
is handled at some point) and adds the sizes.  `Viewer` has one step per event and no messages: its
sessions are what comes between `Handshake` and the end of `ClientLoop`.  `AudioRing` and
`AudioThreads` look at the same code with two grains: the first has the sound and takes a function as
a step, which tells what the ring computes; the second has the sizes only and tells what is left of
that when the two threads interleave inside the functions.  Since a data race has no defined outcome,
the second follows what the build (`-O3`, `CMakeLists.txt:54-55`) makes of the code: one load where a
value is read twice with no call in between, updates in any order that keeps the one the source and
gcc's code agree on, and values that may stay in a register until the next turn of a loop.

The server is modelled from what the client sends it and expects of it: it merges update requests, a
full one outranking an incremental one; answers an incremental one when something has changed;
answers every `SetDesktopSize`, with or without carrying it out; sends H264 unasked, if it
sends H264, since the client does not ask for what follows it; announces a size before it sends
pixels for it; keeps to the protocol version the client has answered with; goes on with its
compressors and refers back to palettes only where there is one.

Most modules state their type invariant as a conjunct of a larger property: `TypeOK` is part of
`InStep` (`ClientLoop`; `HandshakeTypeOK` in `Handshake`), `NeverTooLarge` (`DesktopSize`), `ClientsAccountedFor`
(`Viewer`) and `SizesInRange` (`AudioThreads`); for all of these, and for `RfbTransport`, `AudioRing`
and `WriteTransport`, it is proved.

## 3. Runs

| Run | Question and answer | Bounds |
|---|---|---|
| `transport` | Is `ReadFromRFBServer()` a reliable byte stream along all its paths, and does every call return, with a timeout on its own and without one once its bytes or the end have come? Yes. | buffer of 3 bytes; reads of 0, 1, 2 (fit), 4, 5 (do not fit); 8 bytes; no timeout, or 2 retries |
| `write` | Do the bytes of all messages leave in order and whole, is a failure always one of three causes, and does a call return unless client and server both wait in a write? Yes. | send and receive buffers of 2 bytes; 3 calls of 0, 1 or 3 bytes; a server with up to 2 bytes of its own to write; plain and TLS |
| `loop` | Do messages stay apart, and does the chain of requests hold with servers that do not send H264 unasked, through exposes, resizes and refusals? Is every change shown, with H264 too, while the server keeps sending, and can an update get stuck otherwise than by what was read ahead when it does not? Yes, yes, yes, no. | buffer of 2 fragments, socket of 3, 2 versions of the screen, 2 events (any mix of exposes, resizes, quits and others), 1 other message, or any number of them; 4 connections: plain and with records, H264 and not, quiet and not |
| `size_safety` | Can a rectangle be too large, a request get lost, the skipping of requests go uncovered? No, but for rectangles from servers that echo the uninitialised screen id. | 3 sizes; 3 events in any mix: resizes by either side, refusals, exposes, new pictures; four kinds of server |
| `size_live` | Do resizes end, sizes agree, pictures get shown and exposed windows painted? Yes. | 2 sizes, 3 events; `NewFBSize`, ExtendedDesktopSize and H264 servers |
| `size_window` | Does the desktop end up with the size the user gave the window last, as `README.md:105` and `rfbclient.h:494` have it? **No.** | 2 sizes, 4 resizes of the window; a server that carries out all of them and has none of its own |
| `audio` | Is the ring a bounded queue of whole samples, and is sound skipped only when late once a callback has run? Yes. | ring of 8 bytes, samples of 2; callbacks of 2 and 4; messages of 0, 4 and 8 bytes in chunks of at most 4; PCM, and Opus packets that decode to 0, 4 or 8 bytes |
| `audio_threads` | Until a stream is started, does no size wrap, and are lost updates the only reason for sizes out of step and for more bytes pending than the ring holds? Does every call return, whatever happens? Yes. | ring of 2 bytes; callbacks of 1 and 2; chunks of 3, halved or not; 2 calls by the network thread, 1 of them a start or stop; sizes modulo 16; no new calls after 2 lost updates or a wrapped size |
| `viewer` | Is every client structure freed exactly once but after a quit in the menu; does the server hold for pressed only what the user holds, let go of unheard, or a letter that has lost its keysym; do the Alt flags and `buttonMask` cover what the server holds; does no session stream sound against the checkbox, and the first stream it when ticked and the engine runs? Yes. | 2 sessions, 1 letter and its capital, 1 Alt, Ctrl, Shift, 2 buttons, with and without `-listen` and `-viewonly`; a behaviour exercises input or sound |
| `viewer_sessions` | Does a later session of the listen loop begin like the first, as the usage text and `cleanup()`'s comment have it? **No.** | 2 sessions |
| `handshake` | Do the two sides always agree on what comes next, on version, types and layer; does TLS start with an empty buffer; is an encrypted sub type taken where one is offered; does a failure have a reason; does it end? Yes. | 11 versions, among them the non-standard ones and one that is not RFB; lists of 1 or 2 of 8 types, and of 7 VeNCrypt sub types; VeNCrypt 0.2 and 1.1 |
| `decoders` | Is every CopyRect a simultaneous copy; do inflate streams stay with the compressors; are rows neither lost nor repeated, and does the loop end; is every tile drawn with what it refers back to, inside its buffer? Yes. | framebuffer of 3x3 and every rectangle of 0..3; 2 Tight streams, buffer of 4 bytes, portions of 2, rows of 1, 3, 4 bytes, 3 rectangles; tiles of up to 5 pixels a side, palettes of 2, 3 and 5 colours |

**Why the bounds are enough.**  The transport compares sizes with the buffer's: reads below, at
and above it, and a stream that is longer than the longest read plus a buffer, make every path
hand over to every other one.  A write of 3 bytes over a buffer of 2 is cut up in every way, and the
third call meets what two have left.  In the loop, a buffer of two fragments holds the end of one
message and the head of the next, and two events let a resize overtake another one's answer, or a
request be skipped meanwhile; each of the values layer, encoder and chatter meets each of the other
two's on one of the four connections.  Three events let every pair of announcement,
request and pixels cross, with a third in between; three sizes let a window shrink and grow
without coming back; four resizes between two sizes are the fewest with which the user's last
one gets lost.  The ring of eight bytes wraps in the middle of a chunk and of a callback and
runs full and empty; serial numbers modulo 3 tell a byte from its neighbours and from the byte one
turn of the ring later.  Between the threads, two calls are one that overlaps a callback and one
that meets what the first has left behind; a chunk larger than the ring, a shorter one, and
callbacks of half a ring and of a whole one make every branch of the two loops happen, with a
second turn in either.  The modulus that stands for the width of
`size_t` is larger than four rings, so that only a size below zero reaches its upper half.  Two
sessions are one that leaves something behind and one that finds it; a letter is a key whose keysym
depends on the mode, Alt one that is remembered, Ctrl and Shift are those that change the keysym of
others, and the second button is one that shares its bit with the wheel.  In a list of two types there is a first, a
better or worse second one, and an unread rest.  In the decoders, buffer, portion and row sizes divide
each other, or do not, and leave rests of every length; a rectangle that is moved by one pixel in any
direction overlaps itself in every way; a side of five ends in the middle of a byte of packed
indices for palettes of one, two and four bits.  The proofs take the bounds away where it matters
most.

**Fairness.**  Assumed: the client's thread goes on (it waits for nothing but `select()` and
`read()` and `write()` on a non-blocking socket), the network delivers, and the server takes and
answers requests.  In `loop` a variable, `chatter`, chosen at the start, says whether the server
goes on sending for ever, as it does while it streams audio: only with `chatter` is it fair to
expect a next message, and `UpToDate` is stated for that case, `StuckOnlyByReadAhead` for the other.
It need not answer a `SetDesktopSize` before it has a request to answer.
In `write` the server goes on with what it can go on with: it need not read while it is in a write of
its own, which `WriteReturns` names as the one way to hang.  In `handshake` the user answers the
questions for credentials, and the server goes on or closes the connection.  In `decoders` the bytes
of a rectangle arrive.  In `audio_threads` a thread inside a function goes on; neither is made to call
another one.  Not assumed: anything of the user, of changes of the picture, of resizes, or of the end
of a connection.

Deadlock is not checked where the system may stop: a finished session or handshake, a user and a
server with nothing left to do, or threads that have used up their calls.

## 4. Where the code and its documentation disagree

Two runs show a disagreement:

1. **`client->screen`** (`size_window`).  It is documented to hold the intended dimensions, and the
   desktop to follow the window; the handler of an announcement overwrites it.  The user resizes the
   window from 1 to 2, to 1 and to 2 again, before the server has answered.  It carries out the
   first two and announces 1.  That is the size `client->width` still has, so that `resize()` is not
   called and the window stays 2, but `client->screen` becomes 1.  The user's next resize, to 1, is
   taken for done: `SendExtDesktopSize()` sends nothing.  The answer to the third, 2, then resizes the
   framebuffer and, through `resize()`, the window, and both stay so.
2. **Later sessions of `-listen`** (`viewer_sessions`).  The first `rfbInitClient()` purges the
   library's options from `argv`, so later structures have the defaults; `cleanup()` restarts SDL's video
   and leaves `sdlWindow` pointing to the closed window, with which `resize()` goes on;
   `audioEngineState` stays TRUE, and audio is never switched on again.

Others are not runs of their own: a property that holds says exactly what the code does instead.

* **`readTimeout`** (`rfbclient.h:475`) is documented as a timeout for half-open connections; retries are
  counted over a call as a whole (`sockets.c:157`), so a long read on a slow connection fails too.
* **`WaitForMessage()`** (`rfbclient.h:823`) is documented to wait until a message is received; it looks at
  the socket only.  With a message in `client->buf`, or the rest of a record in the TLS or SASL
  library, the main loop polls on and handles it when the server sends something more.
  `StuckOnlyByReadAhead` shows that this is the only way to get stuck, with H264 and through
  resizes too, and `UpToDate` that any further
  traffic gets it out.
* **`screen.id`** (`rfbclient.c:1718`) is sent uninitialised.  With a server that takes ids over, an id of
  0 comes back and the client ignores the desktop size from then on: a rectangle can be too large and
  end the session.  `size_safety` has such servers, and
  `NeverTooLarge` excepts them; `size_live`, with `RealSize`, is run without them.
* **Skipping sound** (`audio.c:210`): the comment speaks of a delay; before the first callback `fbytes` is 0
  and any sound waiting counts as one.  `SkipsOnlyWhenDelayed` starts with the first callback.
* **Bytes pending** (`rfbclient.h:245`): `addSamples()` looks at `cbLock` once, before it starts; a callback
  that begins later can lose one of its updates of `bufFreeSize`, or have its own lost, and more counts as
  pending than the ring has.  `InStepUnlessLost` and `SizesInRange` show that nothing else does it.
  `notifyStreamingStartStop()` pays no attention to `cbLock`, and a reset between the two halves of a
  callback's update makes `bufUnsubmittedSize` wrap below zero; `SizesInRange` leaves the time after a start out.
* **Halved chunks** (`audio.c:212`): half a chunk need not be whole samples.  `Aligned` is about chunks for
  which it is.
* **Sound before the offer** (`bwvnc.c:45`): the checkbox sends its message before the server has offered
  audio too, and the offer then switches the sound on; `SoundAsChosen` leaves this case out.  When
  `audioInit()` fails (`audio.c:121`, `138`, `141`) the checkbox stays ticked and the session silent, until
  the encodings are sent again.
* **Keys and buttons that stay pressed**: what is let go of in the menu or between two sessions
  (`bwvnc.c:730`), and a letter whose keysym has changed since it went down (`bwvnc.c:287-299`: Ctrl let go of,
  game mode switched, Shift pressed or let go of in game mode), is never released on the server.
  `HeldUnlessMissed` collects these in `missed` and shows that there are no others.  `buttonMask` outlives
  a session, and the next server's first pointer event presses what is left in it; `InputTracked` says that
  the mask covers what the server holds, not that it holds no more.
* **Handshake**: ARD inside TLS is answered, and then refused by the switch over the sub types
  (`rfbclient.c:1125`); X509 sub types are taken though the viewer has no certificate to check against;
  the check of VeNCrypt's version joins with `&&` two conditions that should be alternatives.
  `FailsOnlyForReason` lists the reasons there are.
* **Writing**: "don't return until you've sent them" (`sockets.c:246`) is true but for failures; `select()` has
  no timeout, a signal ends the call with part of the message written and most callers go on with the next
  message (`InOrder` holds until then), and `WriteToTLS()` returns 0
  for an empty message, which counts as a failure.

## 5. Proofs

For every value of the constants, under the named assumptions of the modules
(`TransportAssumption`, `WriteAssumption`, `LoopAssumption`, `SizeAssumption`, `RingAssumption`,
`ThreadsAssumption`, `ViewerAssumption`, `ZlibAssumption`, `TileAssumption`), which TLC evaluates on
every run:

`RfbTransportProofs`

* `Invariance`: `Spec => []IInv`.  `Safety` (bytes in order, none lost, no store out of bounds, a
  successful call complete) is not inductive: a step that copies from the buffer needs to know
  what the buffer holds (`BufferHoldsNext`: the bytes that follow those handed out), and how the
  local variables of the call agree with it (`CallConsistent`: what is stored plus what is missing
  is what was asked for; a fill fits the buffer and starts at its beginning; a direct read leaves
  nothing behind).  `StepInvariant` has one step per action.
* `TransportSafe`: `Spec => []Safety`, its consequence.
* `Refinement`: `Spec => ImplementsByteStream`.  The initial state maps to the initial state; a
  read served from the buffer maps to `ReadNow`, one that goes to the socket to `BeginRead`, the
  last copy to `EndRead`, a failure to `Fail`, and everything in between to a stutter, since what
  has been stored so far is not yet visible to the caller.  The equality of the bytes returned with
  the next bytes of the stream comes from the invariant.

`WriteTransportProofs`

* `WriteInvHolds`: `WriteInv` is `TypeOK`, `InOrder` and `Progress`, which says how far a call has got: on
  a live connection the socket has all the bytes of earlier calls and the first `i` of this one, and
  after a failure no more.  Without it a write in the middle of a message would not be known to go on
  where the last one stopped.
* `BytesInOrder`, `WholeOnReturn`, `FailuresHaveCause`: the three safety properties of the run.

`DesktopSizeProofs`

* `SizeInvHolds`: `SizeInv` follows the messages in flight.  `InForce(i, d)` says that the framebuffer
  has size `d` when the `i`-th update is handled: the last announcement in front of it has that size, or
  there is none and the framebuffer has it.  `SizesFollow`: the size in force at every rectangle of
  pixels is its own, and at the end of the queue, once nothing is owed, the server's.  An append
  (`InForceBefore`, `InForceAtEnd`) and the handling of the first message (`InForceAfter`) preserve it.
  `Covered` strengthens `SkippingIsCovered`: behind a `SetDesktopSize` there is a request, and it is
  not answered before the size is; `NoResize` rules resizes out for servers without the extension.
* `RectsFit` (`NeverTooLarge`): if pixels are first in the queue, the size in force is the framebuffer's,
  so that the branch "Rect too large" is never taken, for any number of resizes under way, with
  servers that keep their screen's id.
* `SkippingCovered` and `ChainOfRequests`: the resize flag never silences the session, since a skipped
  request is made up for by the message that lowers the flag.

`ClientLoopProofs`, for a read-ahead buffer of any size, records cut anywhere, and any number of
events, screens and messages:

* `ReadAheadKeepsStep` (`InStep`): what the client decodes next is what the loop stands at.  The whole
  path is one sequence, `Stream`: what is in `client->buf`, what the record layer holds decoded, what is
  in the socket, and what is on its way.  `LoopInv` says that `Stream` is made of whole messages, but for
  the one whose head has been read (`Begins`), and that a message never lies in it without its other
  half (`Paired`).  A read takes the head of `Stream` (`ReadStream`): one that fills the buffer moves the
  borders between the parts and not their order, `ReadTakesFirst` shows over lemmas on sequences cut in
  two, and this is where the code could lose or swap something.
* `UpdatesNeverDryUp` (`RequestChain`): unless the client has stopped, or the server sends H264 unasked,
  a request is on its way, being answered, or answered by an update that is somewhere in `Stream` or in its
  handler.  The inductive `ExchangeInv` has to say why a request is not skipped for ever: a `SetDesktopSize`
  is never the last thing on its way to the server (`RequestBehind`), and while `requestedResize` is set
  its answer is still to come (`AnswerComes`), whose handler lowers the flag and asks again.

`AudioRingProofs`, for a ring of any size and any lengths of messages, chunks and callbacks:

* `RingAccounting`: `Spec => [](TypeOK /\ Accounting)`.  Free and waiting bytes add up to the ring,
  and the network thread's head is the callback's head plus what waits, round the ring.  The lemmas
  `WrapValue` (what masking does to the offsets that occur) and `FittingTrimmed` (no more is stored
  than there is room for) carry the arithmetic.
* `SoundSkippedForDelayOnly`: the action property `SkipsOnlyWhenDelayed`, from the same invariant.
* `ChannelsNeverSwapped` (`Aligned`): `AlignInv` adds to the heads that the sizes are whole samples, and what
  is left of the message is an even number of them; without the sizes a turn of a loop that ends
  with what is free, or with what waits, could split a sample.
* `RingIsQueue`: `Spec => ImplementsSampleQueue`.  Every function of the ring maps to a step of the bounded
  queue: what comes to `Put` (`QueuePut`), a callback to `Play` (`QueuePlay`), a start, a stop and
  `audioInit()` to `Restart`.  The refinement mapping reads the waiting bytes out of the ring from the
  callback's head on, so `QueuePut` has to show that what is stored lies behind them (`BehindWaiting`) and overwrites none.

`AudioThreadsProofs`, for a ring of any size, `size_t` of any width that is larger than four rings,
and calls of less than half of what it holds:

* `ThreadsInvHolds`: `ThreadsInv` follows the two threads load by load.  What waits is only taken from
  by the callback and only added to by the network thread, so that what the callback has loaded of it
  is never more than there is, what the network thread has loaded never less, and there is always as
  much as the callback still takes (`WaitingInv`); for what is free it is the other way round, and what a
  register has kept for another turn of the loop is never more than there is (`FreeInv`).  Lost updates
  leave these inequalities alone.  Without a lost update equations hold too: the sizes differ from the
  ring, and the heads from each other, by what the turns under way have done to one of them only
  (`SizesInv`, `HeadsInv`, modulo the ring).
* `SizesStayInRange` (`SizesInRange`): neither thread takes more from a size than it has found there, so
  that none wraps, as long as no stream is started or stopped meanwhile; and what `addSamples()` notes
  as pending fits the ring unless an update is lost.  The last needs the one order that source and
  object code agree on: what is played is taken from what waits before it is given back.
* `ThreadsAgreeUnlessLost` (`InStepUnlessLost`): with both threads out of the ring the sizes and heads agree.

`SessionProofs`, for any keyboard and any number of sessions of `Viewer`:

* `ViewerInvHolds`, with `ClientsFreedOnce`, `NothingStaysPressed`, `FlagsCover` and `FirstSessionSounds`.
  `ViewerInv` adds to the four properties of the run: a letter that has lost the keysym it went down with
  is missed from that moment on (`LettersMissed`), since its release will not be sent; `buttonMask` never
  holds a button that is neither held nor missed (`MaskAccountedFor`), since the next pointer event would
  press it again; sound comes after an offer, and nothing is asked for against the checkbox
  (`SoundAsked`); and the audio engine is as `main()` finds it until the first session is offered sound
  (`EngineUnused`).

and for any versions of server and of VeNCrypt, any types, and lists of any length in `Handshake`,
assuming only that those that are not one byte are not in a list of bytes:

* `HandshakeInvHolds`: `HandshakeInv` has two parts that need each other.  `Script` says what is on the
  way to the client at each point of `InitialiseRFBConnection()`: what it reads next, the rest of a list
  it is in (`Rest`), and at most the first message of what follows a choice (`Opens`).  `Turns` says for
  each point of the server what it has heard of the client: what it reads next is the only thing on
  its way, or the client will say it when it has read what is on its way to it.  `Settling` adds what the
  client has settled by then.  `InStep` alone is not inductive: after the message read next, the
  one after it has to be right too.  The steps that matter are those of a list: a type is answered in
  the middle of it, and the server's reply follows the types that are still unread (`TypePassedStep`,
  `TypeChosenStep`, `GetsChoiceStep`).
* `NeverOutOfStep` (`InStep`) and `NothingReadAhead` (`TLSFromCleanBuffer`) follow from it.
* `MemoryHolds`: `Memory` says what the loops over the types have kept of those already read: the last of
  Ultra and Tight in `messages` (`Heard`; `OneMoreNamed` is one turn of the loop), and what has not been
  chosen in what could have been (`Passing`).  `BothAgree` (`Agreed`) and `EncryptedIfPossible`
  (`EncryptedWhenOffered`) follow.
* `WhyHolds`: `Why` gives the client's reason when it has given up in terms that the server's last steps
  cannot change, above all that nothing it waits for is on its way.  `OnlyForReason`
  (`FailsOnlyForReason`) follows.

`DecoderProofs`, for framebuffers, rectangles, buffers, rows and tiles of any size:

* `CopyIsSimultaneous` (`CopiedAtOnce`): at the end every pixel of the destination has the value its source
  had at the beginning, and no other pixel has changed.  The invariant names the pixels done so far; the
  directions of the two loops make sure that no pixel is overwritten before it has been read.
* `StreamsStayInStep` (`StreamsInStep`): outside the loop of a Tight rectangle every active inflate stream has
  taken what its compressor has put out, and inside it the one in use is a chunk behind
  (`TightInStep`); the stream that Zlib and ZRLE share is right for as long as only one of them is used
  (`SharedInStep`).
* `EveryRowOnce` (`RowsAccountedFor`): the bytes gained are the rows drawn, the part of a row kept, and what
  `inflate()` still holds, and all of the rectangle has been gained when the last portion is read
  (`RowCounts`).  The lemmas `RowsBelow`, `RowsExact` and `RowsAndRest` are the division it takes.
* `TilesDrawnAsMeant` (`DrawnAsMeant`): what the server may refer back to is what the client has kept, in
  `last_type`, `palette`, `bpp` and `color` of TRLE (`TRLEKept`) and in `bg` and `fg` of Hextile.
* `TilesInBuffer` (`PixelsInBuffer`): `PackedInv` gives the place of the pointer and of the bits within its
  byte at every column of every row (`NextIndex`: what one index more does to both), `RunsInv` bounds the
  bytes of the runs by their pixels, which are at most the tile's.
* `DecodersSafe`: a session of any of the encodings has all of these.

TLC checks every inductive invariant as an invariant of its run's configuration, but for `HeadsInv`, which
it checks as the equality of two remainders.

Model-checked only: all liveness, which is out of the prover's reach.  `size_window` and `viewer_sessions` state what does not hold.

## 6. What is not modelled, and the plan

Not modelled:

* the refusal of NoZlib data larger than `RFB_BUFFER_SIZE` (`tight.c:227-231`), which ends the session:
  the servers known stay below it;
* the filters of Tight, the tiles of ZRLE, and Raw, Ultra, RRE, CoRRE and ZYWRLE: loops over pixels
  that keep nothing from one rectangle or tile to the next;
* connecting, certificates and SASL's negotiation: sequences of calls into libraries;
* cursor, clipboard, text chat, log window and the drawing of the menu: one handler each over a
  buffer that is replaced; vncrec playback, which reads a file;
* Opus packets that are split over chunks, device underruns and resampling;
* the vendored libraries and tables, which are most of the lines of the repository (`miniaudio.h`
  alone is 91000 of them, `minilzo.c`, `turbojpeg.c`, `keysym.h`, `keysym2ucs.c` and the protocol
  headers most of the rest).  The share of all lines the models stand for is small for this reason.

A profile's frequency is data: profile 4 is documented as 32000 Hz and defined with 22050
(`bwvnc.h:84`).

Next, in this order:

1. The capabilities of the extended clipboard in `ClientLoop`, with the messages that wait for them.
2. SASL's negotiation in `Handshake`.
