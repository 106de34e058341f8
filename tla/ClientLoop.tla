------------------------------ MODULE ClientLoop ------------------------------
(***************************************************************************)
(* The viewer's main loop (bwvnc/bwvnc.c) with what it calls on the        *)
(* network side: WaitForMessage(), HandleRFBServerMessage() and the        *)
(* read-ahead of ReadFromRFBServer(), against a server that answers        *)
(* FramebufferUpdateRequests.                                              *)
(*                                                                         *)
(* Server messages travel as fragments, the pieces that one read of the    *)
(* handler asks for: an update is a "head" and a "body" with its           *)
(* rectangles; "other" stands for the messages that are handled without an *)
(* answer (bell, cut text, audio data).  Of an update's rectangles it      *)
(* matters which version of the screen they show, and the last one: behind *)
(* an H264 rectangle no other update is asked for, and the answer to a     *)
(* SetDesktopSize lets requests pass again (the sizes themselves are the   *)
(* subject of DesktopSize).  A server that sends H264 sends its updates    *)
(* unasked, which is what the client leaves the request out for.  A        *)
(* fragment moves from the wire to the socket, from there with whatever    *)
(* follows it into client->buf, and from the buffer to the handler.  With  *)
(* TLS or SASL the library takes records off the socket, and keeps what a  *)
(* read leaves of one.                                                     *)
(***************************************************************************)
EXTENDS Naturals, Sequences

CONSTANTS
  BufFragments,  \* fragments that fit client->buf
  SockFragments, \* fragments that fit the socket's receive queue
  MaxScreen,     \* bound: versions of the screen
  MaxEvents,     \* bound: SDL events in one behaviour
  Connections    \* the values layer, encoder, chatter and others may start with

ASSUME LoopAssumption ==
  /\ BufFragments \in Nat \ {0} /\ SockFragments \in Nat \ {0}
  /\ MaxScreen \in Nat \ {0}
  /\ MaxEvents \in Nat
  /\ Connections \subseteq [layer : {"plain", "records"}, encoder : {"h264", "other"},
                            chatter : BOOLEAN, others : Nat]

VARIABLES
  layer,     \* "plain", or "records" with a tlsSession or a saslconn
  encoder,   \* what the server sends its updates in: "h264", or "other"
  chatter,   \* whenever all it sent has been read, the server sends one more
             \* message (streamed audio)
  screen,    \* version of the server's screen
  offered,   \* version the last update sent shows
  asked,     \* the request the server still has to answer
  owed,      \* it has a SetDesktopSize to answer
  others,    \* messages it will still send of its own accord
  requests,  \* FramebufferUpdateRequests and SetDesktopSizes ("resize") on their way
  wire,      \* fragments in the network
  sock,      \* fragments in the socket's receive queue
  decoded,   \* what the library has decrypted and not handed out: saslDecoded, or
             \* the rest of a record in gnutls
  closed,    \* the server has closed the connection
  buf,       \* client->buf, from bufoutptr on
  pc,        \* where the loop is: "poll", "wait", "handle", "body" or "stopped"
  queued,    \* SDL events waiting
  raised,    \* SDL events raised so far
  requestedResize, \* client->requestedResize
  shown      \* version of the screen in the client's framebuffer, 0 if it is blank

server == <<layer, encoder, chatter, screen, offered, asked, owed, others>>
user == <<queued, raised>>
client == <<requestedResize, shown>>
vars == <<server, requests, wire, sock, decoded, closed, buf, pc, user, client>>

\* What is known of an update: the version it shows and its last rectangle.  "size"
\* and "refusal" are ExtendedDesktopSize rectangles, with a new size and without.
Update == [version : 0 .. MaxScreen, last : {"h264", "other", "size", "refusal"}]
Fragment == [kind : {"head", "body", "other"}, update : Update]

Answer(result) == [version |-> 0, last |-> result]
HeadOf(u) == [kind |-> "head", update |-> u]
BodyOf(u) == [kind |-> "body", update |-> u]
Other == [kind |-> "other", update |-> Answer("refusal")]

\* SendFramebufferUpdateRequest() as rfbInitConnection() has sent it.
Init ==
  /\ \E c \in Connections :
       layer = c.layer /\ encoder = c.encoder /\ chatter = c.chatter /\ others = c.others
  /\ screen = 1 /\ offered = 0 /\ asked = "none" /\ owed = FALSE
  /\ requests = <<"full">>
  /\ wire = <<>> /\ sock = <<>> /\ decoded = <<>> /\ closed = FALSE
  /\ buf = <<>>
  /\ pc = "poll"
  /\ queued = 0 /\ raised = 0
  /\ requestedResize = FALSE /\ shown = 0

-------------------------------------------------------------------------------
(* The server, the network and the user: external to the program. *)

ScreenChanges ==
  /\ screen < MaxScreen
  /\ screen' = screen + 1
  /\ UNCHANGED <<layer, encoder, chatter, offered, asked, owed, others, requests, wire, sock,
                 decoded, closed, buf, pc, user, client>>

\* Requests are merged, a full one outranks an incremental one; so are SetDesktopSizes.
ServerReceives ==
  /\ requests # <<>>
  /\ \/ /\ Head(requests) = "resize"
        /\ owed' = TRUE
        /\ UNCHANGED asked
     \/ /\ Head(requests) # "resize"
        /\ asked' = IF asked = "full" THEN "full" ELSE Head(requests)
        /\ UNCHANGED owed
  /\ requests' = Tail(requests)
  /\ UNCHANGED <<layer, encoder, chatter, screen, offered, others, wire, sock, decoded, closed,
                 buf, pc, user, client>>

\* A message is sent when there is room in the network for an update behind at most one
\* fragment.
MaySend == ~closed /\ Len(wire) <= 1

Send(update) == wire' = wire \o <<HeadOf(update), BodyOf(update)>>

\* The answer to a SetDesktopSize, carried out or refused, goes before any other update.
ServerAnswersResize ==
  /\ MaySend
  /\ owed
  /\ \E result \in {"size", "refusal"} : Send(Answer(result))
  /\ owed' = FALSE
  /\ UNCHANGED <<layer, encoder, chatter, screen, offered, asked, others, requests, sock,
                 decoded, closed, buf, pc, user, client>>

\* An incremental request waits for a change, a full one does not; H264 is sent unasked.
ServerUpdates ==
  /\ MaySend
  /\ ~owed
  /\ \/ asked = "full"
     \/ (asked = "incremental" \/ encoder = "h264") /\ screen > offered
  /\ Send([version |-> screen, last |-> encoder])
  /\ offered' = screen
  /\ asked' = "none"
  /\ UNCHANGED <<layer, encoder, chatter, screen, owed, others, requests, sock, decoded, closed,
                 buf, pc, user, client>>

ServerSendsOther ==
  /\ MaySend
  /\ \/ others > 0 /\ others' = others - 1
     \/ chatter /\ wire = <<>> /\ sock = <<>> /\ UNCHANGED others
  /\ wire' = Append(wire, Other)
  /\ UNCHANGED <<layer, encoder, chatter, screen, offered, asked, owed, requests, sock, decoded,
                 closed, buf, pc, user, client>>

\* A connection is closed by the server once all it sent has arrived.
ServerCloses ==
  /\ ~closed
  /\ wire = <<>>
  /\ closed' = TRUE
  /\ UNCHANGED <<server, requests, wire, sock, decoded, buf, pc, user, client>>

Arrive ==
  /\ wire # <<>>
  /\ Len(sock) < SockFragments
  /\ sock' = Append(sock, Head(wire))
  /\ wire' = Tail(wire)
  /\ UNCHANGED <<server, requests, decoded, closed, buf, pc, user, client>>

UserActs ==
  /\ raised < MaxEvents
  /\ raised' = raised + 1
  /\ queued' = queued + 1
  /\ UNCHANGED <<server, requests, wire, sock, decoded, closed, buf, pc, client>>

-------------------------------------------------------------------------------
(* The main loop. *)

\* SendFramebufferUpdateRequest(): nothing is sent while a resize is in progress.
WithRequest(kind, resizing) == IF resizing THEN requests ELSE Append(requests, kind)

\* An exposed window asks for the whole screen.
WindowExposed ==
  /\ requests' = WithRequest("full", requestedResize)
  /\ UNCHANGED requestedResize

\* Mutant: SendExtDesktopSize() leaves requestedResize set while it asks for the screen.
WindowResizedAskingLate ==
  /\ requests' = Append(requests, "resize")
  /\ requestedResize' = TRUE

\* SendExtDesktopSize() to a server that has announced its screen, of another size:
\* SetDesktopSize, and with requestedResize put aside a request for the whole screen.
WindowResized ==
  /\ requests' = requests \o <<"resize", "full">>
  /\ requestedResize' = TRUE

\* SDL_PollEvent() returned an event and handleSDLEvent() runs: SDL_QUIT leaves the
\* loop; an event that is none of these sends input or nothing at all.
HandleEvent ==
  /\ pc = "poll"
  /\ queued > 0
  /\ queued' = queued - 1
  /\ \/ (WindowExposed \/ WindowResized) /\ pc' = "poll"
     \/ UNCHANGED <<requests, requestedResize>> /\ pc' \in {"poll", "stopped"}
  /\ UNCHANGED <<server, wire, sock, decoded, closed, buf, raised, shown>>

\* SDL_PollEvent() returned none: the loop turns to the network.
NoEvent ==
  /\ pc = "poll"
  /\ queued = 0
  /\ pc' = "wait"
  /\ UNCHANGED <<server, requests, wire, sock, decoded, closed, buf, user, client>>

\* The socket is readable: it holds data, or the end of the stream.
Readable == sock # <<>> \/ closed

\* WaitForMessage(): select() on the socket.
MessageWaiting ==
  /\ pc = "wait"
  /\ Readable
  /\ pc' = "handle"
  /\ UNCHANGED <<server, requests, wire, sock, decoded, closed, buf, user, client>>

\* select() times out: HandleRFBServerMessage() is not called.
NothingWaiting ==
  /\ pc = "wait"
  /\ ~Readable
  /\ pc' = "poll"
  /\ UNCHANGED <<server, requests, wire, sock, decoded, closed, buf, user, client>>

\* select() fails: cleanup() and out of the loop.
WaitFails ==
  /\ pc = "wait"
  /\ pc' = "stopped"
  /\ UNCHANGED <<server, requests, wire, sock, decoded, closed, buf, user, client>>

\* What follows f comes along with it, as much as fits the buffer.
Fill(f, stream) ==
  /\ stream # <<>>
  /\ f = Head(stream)
  /\ buf' = SubSeq(stream, 2, IF Len(stream) <= BufFragments THEN Len(stream) ELSE BufFragments)

\* read(): any part of what the socket holds, from its start.
ReadSocket(f) ==
  \E k \in 1 .. BufFragments :
    /\ k <= Len(sock)
    /\ Fill(f, SubSeq(sock, 1, k))
    /\ sock' = SubSeq(sock, k + 1, Len(sock))
    /\ UNCHANGED decoded

\* ReadFromTLS() and ReadFromSASL(): what is left of a record, or a record off the
\* socket, any part of what has arrived; what does not fit stays in the library.
ReadRecord(f) ==
  \E k \in 0 .. Len(sock) :
    /\ k = 0 <=> decoded # <<>>
    /\ LET record == decoded \o SubSeq(sock, 1, k)
       IN  /\ Fill(f, record)
           /\ decoded' = SubSeq(record, BufFragments + 1, Len(record))
    /\ sock' = SubSeq(sock, k + 1, Len(sock))

ReadMore(f) == IF layer = "plain" THEN ReadSocket(f) ELSE ReadRecord(f)

\* Mutant: client->buf is filled again although it holds bytes.
ReadDroppingBuffer(f) == ReadMore(f)

\* ReadFromRFBServer(): f comes out of client->buf, or what is read into it.
Read(f) ==
  \/ /\ buf # <<>>
     /\ f = Head(buf)
     /\ buf' = Tail(buf)
     /\ UNCHANGED <<sock, decoded>>
  \/ buf = <<>> /\ ReadMore(f)

\* HandleRFBServerMessage() reads the message type: a message without a body
\* is handled at once, a framebuffer update goes on to its rectangles.
ReadMessage ==
  /\ pc = "handle"
  /\ \E f \in Fragment :
       /\ Read(f)
       /\ pc' = IF f.kind = "head" THEN "body" ELSE "poll"
  /\ UNCHANGED <<server, requests, wire, closed, user, client>>

\* What update u leaves in the framebuffer: its pixels, or nothing in a new one.
Drawn(u) == IF u.last = "refusal" THEN shown ELSE u.version

\* Mutant: the next update is asked for only when something was drawn.
ReadUpdateAsksOnChange ==
  /\ pc = "body"
  /\ \E f \in Fragment :
       /\ Read(f)
       /\ shown' = Drawn(f.update)
       /\ requestedResize' = (requestedResize /\ f.update.last \notin {"size", "refusal"})
       /\ requests' = IF f.update.last = "h264" \/ shown' = shown
                      THEN requests ELSE WithRequest("incremental", requestedResize')
  /\ pc' = "poll"
  /\ UNCHANGED <<server, wire, closed, user>>

\* The rectangles have arrived: they are drawn, or the screen's size is taken over, and
\* unless the last one was H264 the next update is asked for.
ReadUpdate ==
  /\ pc = "body"
  /\ \E f \in Fragment :
       /\ Read(f)
       /\ shown' = Drawn(f.update)
       /\ requestedResize' = (requestedResize /\ f.update.last \notin {"size", "refusal"})
       /\ requests' = IF f.update.last = "h264" THEN requests
                      ELSE WithRequest("incremental", requestedResize')
  /\ pc' = "poll"
  /\ UNCHANGED <<server, wire, closed, user>>

\* read() returns 0: the message fails, cleanup() and out of the loop.
EndOfStream ==
  /\ pc \in {"handle", "body"}
  /\ buf = <<>> /\ decoded = <<>> /\ sock = <<>> /\ closed
  /\ pc' = "stopped"
  /\ UNCHANGED <<server, requests, wire, sock, decoded, closed, buf, user, client>>

Client ==
  \/ HandleEvent \/ NoEvent
  \/ MessageWaiting \/ NothingWaiting \/ WaitFails
  \/ ReadMessage \/ ReadUpdate \/ EndOfStream

Next ==
  \/ ScreenChanges \/ ServerReceives
  \/ ServerAnswersResize \/ ServerUpdates \/ ServerSendsOther
  \/ ServerCloses \/ Arrive \/ UserActs
  \/ Client

Spec == Init /\ [][Next]_vars

\* The viewer's thread runs, the network delivers, the server answers requests
\* and, when it chatters, goes on doing so.  It need not answer a SetDesktopSize
\* before it has a request to answer.  The user, the screen and the end of the
\* connection are nobody's duty.
Fairness ==
  /\ WF_vars(Client)
  /\ WF_vars(Arrive)
  /\ WF_vars(ServerReceives)
  /\ WF_vars(asked # "none" /\ ServerAnswersResize)
  /\ WF_vars(ServerUpdates)
  /\ WF_vars(chatter /\ ServerSendsOther)

FairSpec == Spec /\ Fairness

-------------------------------------------------------------------------------
(* Properties. *)

TypeOK ==
  /\ chatter \in BOOLEAN /\ layer \in {"plain", "records"} /\ encoder \in {"h264", "other"}
  /\ screen \in 1 .. MaxScreen /\ offered \in 0 .. MaxScreen
  /\ asked \in {"none", "incremental", "full"} /\ owed \in BOOLEAN
  /\ others \in Nat
  /\ requests \in Seq({"incremental", "full", "resize"})
  /\ wire \in Seq(Fragment) /\ sock \in Seq(Fragment)
  /\ decoded \in Seq(Fragment) /\ (layer = "plain" => decoded = <<>>)
  /\ buf \in Seq(Fragment)
  /\ closed \in BOOLEAN
  /\ pc \in {"poll", "wait", "handle", "body", "stopped"}
  /\ queued \in 0 .. MaxEvents /\ raised \in 0 .. MaxEvents
  /\ requestedResize \in BOOLEAN /\ shown \in 0 .. MaxScreen

Stopped == pc = "stopped" \/ closed

\* What the client has received and not handled, and all that is on its way to the
\* handler.
Received == buf \o decoded \o sock
Stream == Received \o wire

\* The client never runs out of updates: while it runs, and unless the server sends H264
\* unasked, there is always a request on its way to the server, a request the server
\* holds, or an update on its way back or in the handler, although requests are left out
\* while a resize is in progress.  Nothing else would start the exchange again.
RequestChain ==
  pc # "stopped" /\ encoder # "h264" =>
    \/ \E i \in 1 .. Len(requests) : requests[i] # "resize"
    \/ asked # "none"
    \/ \E i \in 1 .. Len(Stream) : Stream[i].kind = "head"
    \/ pc = "body"

\* Read-ahead never mixes up messages: a message starts at a fragment that
\* starts one, and an update's head is followed by its own body.  TypeOK comes with
\* it, as one conjunct.
InStep ==
  /\ TypeOK
  /\ pc = "body" /\ Stream # <<>> => Stream[1].kind = "body"
  /\ pc # "body" /\ Stream # <<>> => Stream[1].kind # "body"
  /\ \A i \in 1 .. Len(Stream) - 1 :
       Stream[i].kind = "head" => Stream[i + 1] = BodyOf(Stream[i].update)

\* While the server keeps sending something, every change of the screen is
\* shown in the end, and so is the screen after a resize.
UpToDate == (chatter /\ shown # screen) ~> (shown = screen \/ Stopped)

\* The one way for an update to get stuck is that read-ahead has moved it out
\* of the socket, which WaitForMessage() looks at, into the buffer or the library
\* of the record layer, which it does not.
StuckOnlyByReadAhead ==
  (shown # screen) ~>
    \/ shown = screen
    \/ Stopped
    \/ pc = "wait" /\ (buf # <<>> \/ decoded # <<>>) /\ sock = <<>>
===============================================================================
