------------------------------ MODULE DesktopSize ------------------------------
(***************************************************************************)
(* The size of the desktop, as the window, the client and the server see   *)
(* it, and the update requests that ride on it: SendExtDesktopSize(),      *)
(* SendFramebufferUpdateRequest() with its requestedResize guard,          *)
(* ResizeClientBuffer() and the ExtendedDesktopSize, NewFBSize and pixel   *)
(* rectangles of HandleRFBServerMessage() in libvncclient/rfbclient.c,     *)
(* driven by the window events of handleSDLEvent() in bwvnc/bwvnc.c, over  *)
(* two FIFO channels to a server.                                          *)
(*                                                                         *)
(* A size is one number: a rectangle of the server's whole desktop fits    *)
(* the client's framebuffer when its size does not exceed it.  Frames are  *)
(* numbered; frame 0 is the blank surface a reallocation leaves.           *)
(***************************************************************************)
EXTENDS Naturals, Sequences

CONSTANTS
  Sizes,             \* desktop sizes
  Servers,           \* kinds of server, see serverKind
  MaxEvents          \* bound: things the user and the server do of their own
                     \* accord: resizes, refusals, exposes, new pictures

ASSUME SizeAssumption ==
  /\ Sizes \subseteq Nat \ {0} /\ Sizes # {}
  /\ Servers \subseteq {"basic", "extended", "h264", "echo"}
  /\ MaxEvents \in Nat

VARIABLES
  serverKind,       \* what the server is like:
                    \*   "basic"     it announces its size by NewFBSize,
                    \*   "extended"  by ExtendedDesktopSize,
                    \*   "h264"      and it pushes its pixels as H264 frames,
                    \*   "echo"      or it adopts the screen id of a SetDesktopSize
  desktop,          \* the server's size, and the id of its screen
  owed,             \* the server has a rectangle with its size to send
  asked,            \* the update request the server still has to answer
  frame,            \* the picture on the server
  offered,          \* the latest picture it has sent
  whole,            \* the next pixels it sends cover the whole desktop
  toServer,         \* client-to-server messages in flight
  toClient,         \* framebuffer updates in flight
  width,            \* client->width (and height)
  window,           \* size of the client's window
  screen,           \* client->screen; net: its fields are in network order
  requestedResize,  \* client->requestedResize
  codec,            \* size the H264 decoder is initialised for, 0 when it is not
  shown,            \* picture in the client's framebuffer
  painted,          \* the window shows the framebuffer
  alive,            \* the session goes on
  left              \* how much the user and the server may still do

serverVars == <<serverKind, desktop, owed, asked, frame, offered, whole>>
clientVars == <<width, window, screen, requestedResize, codec, shown, painted, alive>>
vars == <<serverVars, toServer, toClient, clientVars, left>>

Extended == serverKind # "basic"
H264 == serverKind = "h264"
EchoIds == serverKind = "echo"

Ids == {0, 1}
NoScreen == [size |-> 0, net |-> TRUE]

Request(full) == [op |-> "FramebufferUpdateRequest", full |-> full]
SetDesktopSize(d, i) == [op |-> "SetDesktopSize", size |-> d, id |-> i]
ExtDesktopSize(d, i) == [op |-> "ExtDesktopSize", size |-> d, id |-> i]
NewFBSize(d) == [op |-> "NewFBSize", size |-> d]
Pixels(d, f, w) == [op |-> "Pixels", size |-> d, frame |-> f, whole |-> w]

ServerBound ==
  [op : {"FramebufferUpdateRequest"}, full : BOOLEAN] \cup
  [op : {"SetDesktopSize"}, size : Sizes, id : Ids]

ClientBound ==
  [op : {"ExtDesktopSize"}, size : Sizes, id : Ids] \cup
  [op : {"NewFBSize"}, size : Sizes] \cup
  [op : {"Pixels"}, size : Sizes, frame : Nat, whole : BOOLEAN]

InFlight(channel, op) == \E i \in 1 .. Len(channel) : channel[i].op = op

\* The handshake is over: the client has allocated its framebuffer and sent
\* its encodings, which the server answers with its screen layout, and a full
\* update request.
Init ==
  \E d \in Sizes :
    /\ serverKind \in Servers
    /\ desktop = [size |-> d, id |-> 1] /\ owed = Extended
    /\ asked = "none" /\ frame = 1 /\ offered = 0 /\ whole = TRUE
    /\ toServer = <<Request(TRUE)>> /\ toClient = <<>>
    /\ width = d /\ window = d /\ screen = NoScreen /\ requestedResize = FALSE
    /\ codec = 0 /\ shown = 0 /\ painted = FALSE /\ alive = TRUE
    /\ left = MaxEvents

-------------------------------------------------------------------------------
(* The server: external, as the client uses it. *)

PictureChanges ==
  /\ left > 0
  /\ left' = left - 1
  /\ frame' = frame + 1
  /\ UNCHANGED <<serverKind, desktop, owed, asked, offered, whole, toServer,
                 toClient, clientVars>>

\* A desktop of another size has to be drawn again as a whole.
Adopt(d, i) ==
  /\ desktop' = [size |-> d, id |-> i]
  /\ owed' = TRUE
  /\ IF d = desktop.size THEN UNCHANGED <<frame, whole>>
     ELSE frame' = frame + 1 /\ whole' = TRUE

ServerResizes ==
  /\ left > 0
  /\ left' = left - 1
  /\ \E d \in Sizes \ {desktop.size} : Adopt(d, desktop.id)
  /\ UNCHANGED <<serverKind, asked, offered, toServer, toClient, clientVars>>

\* Update requests are merged, a full one outranks an incremental one.
ServerTakesRequest ==
  /\ toServer # <<>>
  /\ Head(toServer).op = "FramebufferUpdateRequest"
  /\ asked' = IF asked = "full" \/ Head(toServer).full THEN "full" ELSE "incremental"
  /\ toServer' = Tail(toServer)
  /\ UNCHANGED <<serverKind, desktop, owed, frame, offered, whole, toClient,
                 clientVars, left>>

\* A SetDesktopSize is carried out or refused, and answered either way.
ServerTakesResize ==
  /\ toServer # <<>>
  /\ Head(toServer).op = "SetDesktopSize"
  /\ \/ /\ Adopt(Head(toServer).size, IF EchoIds THEN Head(toServer).id ELSE desktop.id)
        /\ UNCHANGED left
     \/ /\ left > 0
        /\ left' = left - 1
        /\ owed' = TRUE
        /\ UNCHANGED <<desktop, frame, whole>>
  /\ toServer' = Tail(toServer)
  /\ UNCHANGED <<serverKind, asked, offered, toClient, clientVars>>

ServerSendsSize ==
  /\ owed
  /\ owed' = FALSE
  /\ toClient' = Append(toClient, IF Extended THEN ExtDesktopSize(desktop.size, desktop.id)
                                  ELSE NewFBSize(desktop.size))
  /\ UNCHANGED <<serverKind, desktop, asked, frame, offered, whole, toServer,
                 clientVars, left>>

\* Pixels follow the size they are for.
ServerSendsPixels ==
  /\ ~owed
  /\ \/ asked = "full"
     \/ (asked = "incremental" \/ H264) /\ frame > offered
  /\ toClient' = Append(toClient, Pixels(desktop.size, frame,
                                         whole \/ H264 \/ asked = "full"))
  /\ offered' = frame
  /\ whole' = FALSE
  /\ asked' = "none"
  /\ UNCHANGED <<serverKind, desktop, owed, frame, toServer, clientVars, left>>

Server ==
  ServerTakesRequest \/ ServerTakesResize \/ ServerSendsSize \/ ServerSendsPixels

-------------------------------------------------------------------------------
(* The client. *)

\* SendFramebufferUpdateRequest(): what c becomes, skipped during a resize.
WithRequest(c, full, resizing) ==
  IF resizing THEN c ELSE Append(c, Request(full))

\* Mutant: the flag is raised before the request, which is then skipped.
RequestResizeFlagFirst(d) ==
  \E i \in Ids : toServer' = WithRequest(Append(toServer, SetDesktopSize(d, i)), TRUE, TRUE)

\* The messages of a resize: the SetDesktopSize and, the flag being lowered
\* for it, the request for the whole desktop.  screen.id is uninitialised.
RequestResize(d) ==
  \E i \in Ids : toServer' = WithRequest(Append(toServer, SetDesktopSize(d, i)), TRUE, FALSE)

\* SendExtDesktopSize(): nothing until the server has announced its screen,
\* and nothing when the size is the intended one already.
SendExtDesktopSize(d) ==
  IF screen.size = 0 \/ (screen.net /\ screen.size = d)
  THEN UNCHANGED <<toServer, screen, requestedResize>>
  ELSE RequestResize(d) /\ screen' = [size |-> d, net |-> TRUE] /\ requestedResize' = TRUE

\* SDL_WINDOWEVENT_RESIZED with -resize-method desktop: SDL raises it for a size given
\* to the window from outside the program that it does not have already.
UserResizes(d) ==
  /\ alive
  /\ left > 0
  /\ left' = left - 1
  /\ d # window
  /\ window' = d
  /\ SendExtDesktopSize(d)
  /\ UNCHANGED <<serverVars, toClient, width, codec, shown, painted, alive>>

\* SDL_WINDOWEVENT_EXPOSED: the whole desktop is asked for.
WindowExposed ==
  /\ alive
  /\ left > 0
  /\ left' = left - 1
  /\ painted' = FALSE
  /\ toServer' = WithRequest(toServer, TRUE, requestedResize)
  /\ UNCHANGED <<serverVars, toClient, width, window, screen, requestedResize, codec,
                 shown, alive>>

\* resize(): a blank surface of the new size, and the window along with it.
resize(d) == shown' = 0 /\ window' = d

ResizeClientBuffer(d) == width' = d /\ resize(d)

\* The screens of an ExtendedDesktopSize rectangle are valid.
Valid(m) == m.id # 0

\* Mutant: only the answers to own resizes are followed.
FollowsOwnResizeOnly(m) == requestedResize /\ Valid(m) /\ width # m.size

\* The framebuffer follows an ExtendedDesktopSize rectangle of another size.
Follows(m) == Valid(m) /\ width # m.size

\* Mutant: the flag is lowered only if the framebuffer was resized.
ResizeOverIfFollowed ==
  requestedResize' = (requestedResize /\ ~Follows(Head(toClient)))

\* Whatever came of it, the resize in progress is over.
ResizeOver == requestedResize' = FALSE

\* An update with an ExtendedDesktopSize rectangle.
HandleExtDesktopSize ==
  /\ alive
  /\ toClient # <<>>
  /\ Head(toClient).op = "ExtDesktopSize"
  /\ LET m == Head(toClient)
     IN /\ screen' = IF Valid(m) THEN [size |-> m.size, net |-> TRUE] ELSE screen
        /\ IF Follows(m) THEN ResizeClientBuffer(m.size)
           ELSE UNCHANGED <<width, shown, window>>
  /\ ResizeOver
  /\ toServer' = WithRequest(toServer, FALSE, FALSE)
  /\ toClient' = Tail(toClient)
  /\ UNCHANGED <<serverVars, codec, painted, alive, left>>

\* An update with a NewFBSize rectangle, which is answered with two requests.
HandleNewFBSize ==
  /\ alive
  /\ toClient # <<>>
  /\ Head(toClient).op = "NewFBSize"
  /\ ResizeClientBuffer(Head(toClient).size)
  /\ toServer' = WithRequest(WithRequest(toServer, TRUE, requestedResize),
                            FALSE, requestedResize)
  /\ toClient' = Tail(toClient)
  /\ UNCHANGED <<serverVars, screen, requestedResize, codec, painted, alive, left>>

\* Mutant: no request when nothing has changed.
NextRequestOnChange ==
  toServer' = IF Head(toClient).frame = shown THEN toServer
              ELSE WithRequest(toServer, FALSE, H264 \/ requestedResize)

\* The end of an update: the next one is asked for, unless the last rectangle
\* was an H264 frame.
NextRequest == toServer' = WithRequest(toServer, FALSE, H264 \/ requestedResize)

\* An update with a rectangle of pixels, which is decoded and painted.  An
\* H264 frame of a new size restarts the decoder, which notes the size in
\* client->screen in host order.
HandlePixels ==
  /\ alive
  /\ toClient # <<>>
  /\ Head(toClient).op = "Pixels"
  /\ LET m == Head(toClient)
     IN /\ m.size <= width
        /\ shown' = IF m.whole \/ shown # 0 THEN m.frame ELSE 0
        /\ painted' = TRUE
        /\ IF H264 /\ codec # m.size
           THEN codec' = m.size /\ screen' = [size |-> m.size, net |-> FALSE]
           ELSE UNCHANGED <<codec, screen>>
  /\ NextRequest
  /\ toClient' = Tail(toClient)
  /\ UNCHANGED <<serverVars, width, window, requestedResize, alive, left>>

\* "Rect too large": the message fails and the session is over.
RectTooLarge ==
  /\ alive
  /\ toClient # <<>>
  /\ Head(toClient).op = "Pixels"
  /\ Head(toClient).size > width
  /\ alive' = FALSE
  /\ UNCHANGED <<serverVars, toServer, toClient, width, window, screen, requestedResize,
                 codec, shown, painted, left>>

HandleUpdate ==
  HandleExtDesktopSize \/ HandleNewFBSize \/ HandlePixels \/ RectTooLarge

Next ==
  \/ PictureChanges \/ ServerResizes \/ Server
  \/ \E d \in Sizes : UserResizes(d)
  \/ WindowExposed \/ HandleUpdate

Spec == Init /\ [][Next]_vars

\* Messages are delivered and both sides handle them; neither the user nor the
\* picture owes anything.
FairSpec ==
  /\ Spec
  /\ WF_vars(HandleUpdate)
  /\ WF_vars(ServerTakesRequest \/ ServerTakesResize)
  /\ WF_vars(ServerSendsSize)
  /\ WF_vars(ServerSendsPixels)

-------------------------------------------------------------------------------
(* Properties. *)

TypeOK ==
  /\ serverKind \in Servers
  /\ desktop \in [size : Sizes, id : Ids]
  /\ owed \in BOOLEAN /\ whole \in BOOLEAN
  /\ asked \in {"none", "incremental", "full"}
  /\ frame \in Nat /\ offered \in Nat
  /\ toServer \in Seq(ServerBound) /\ toClient \in Seq(ClientBound)
  /\ width \in Sizes /\ window \in Sizes
  /\ screen \in [size : Sizes \cup {0}, net : BOOLEAN]
  /\ requestedResize \in BOOLEAN
  /\ codec \in Sizes \cup {0}
  /\ shown \in Nat
  /\ painted \in BOOLEAN /\ alive \in BOOLEAN
  /\ left \in 0 .. MaxEvents

\* However resizes of the user and of the server cross each other and the
\* updates in flight, no rectangle reaches the client before its framebuffer
\* has the size for it: the session never dies of "Rect too large", unless the
\* server hands back the uninitialised screen id it has been sent.  TypeOK comes
\* with it, as one conjunct.
NeverTooLarge == TypeOK /\ (~EchoIds => alive)

\* With a decoder other than H264 there is always a request on its way, a
\* request the server holds or an update on its way back, although the
\* requests of a resize in progress are skipped.
RequestChain ==
  ~H264 /\ alive =>
    \/ InFlight(toServer, "FramebufferUpdateRequest")
    \/ asked # "none"
    \/ toClient # <<>>

\* While updates are skipped for a resize in progress, the request for the
\* whole picture or the server's answer to the resize is still to come.
SkippingIsCovered ==
  requestedResize =>
    \/ InFlight(toServer, "SetDesktopSize")
    \/ owed
    \/ InFlight(toClient, "ExtDesktopSize")

\* A resize in progress comes to an end.
ResizeEnds == requestedResize ~> (~requestedResize \/ ~alive)

\* width is the real size of the framebuffer, as rfbclient.h says: it ends up
\* equal to the server's.
RealSize == (width # desktop.size) ~> (width = desktop.size)

\* The client ends up showing the server's picture, after a reallocation too.
UpToDate == (shown # frame) ~> (shown = frame \/ ~alive)

\* An exposed window is painted again, even when its request is skipped.
Repainted == ~painted ~> (painted \/ ~alive)

\* Together: the window ends up painted, and with the server's picture, although
\* expose events and the requests of updates are skipped during a resize.
PictureShown == UpToDate /\ Repainted
===============================================================================
