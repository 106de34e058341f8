--------------------------- MODULE DesktopSizeProofs ---------------------------
(***************************************************************************)
(* For any sizes and however long the session: no rectangle is too large   *)
(* for the framebuffer, what is skipped during a resize is covered, and a  *)
(* request for an update is always under way.  The induction is on SizeInv.*)
(***************************************************************************)
EXTENDS DesktopSize, TLAPS

\* The j-th update in flight is the last before the i-th that announces a size.
Announces(j) == toClient[j].op # "Pixels"
LastBefore(j, i) ==
  /\ j \in 1 .. i - 1 /\ Announces(j)
  /\ \A k \in j + 1 .. i - 1 : ~Announces(k)

\* When the i-th update in flight is handled, the framebuffer has size d.
InForce(i, d) ==
  /\ \A j \in 1 .. i - 1 : LastBefore(j, i) => toClient[j].size = d
  /\ (\A j \in 1 .. i - 1 : ~Announces(j)) => width = d

\* Pixels come behind the size they are for, and so will the next ones.
SizesFollow ==
  ~EchoIds =>
    /\ \A i \in 1 .. Len(toClient) :
         toClient[i].op = "Pixels" => InForce(i, toClient[i].size)
    /\ ~owed => InForce(Len(toClient) + 1, desktop.size)
    /\ desktop.id # 0
    /\ \A i \in 1 .. Len(toClient) : toClient[i].op = "ExtDesktopSize" => toClient[i].id # 0

\* Without ExtendedDesktopSize the client asks for no resize.
NoResize ==
  ~Extended => /\ screen.size = 0 /\ ~requestedResize
               /\ ~InFlight(toClient, "ExtDesktopSize")

\* What a resize in progress is waiting for brings an update, too: a request
\* follows the SetDesktopSize, and stays unanswered until the size is announced.
RequestBehindResize(channel) ==
  \E i \in 1 .. Len(channel) : \E j \in i + 1 .. Len(channel) :
    /\ channel[i].op = "SetDesktopSize"
    /\ channel[j].op = "FramebufferUpdateRequest"

Covered ==
  requestedResize =>
    \/ RequestBehindResize(toServer)
    \/ owed /\ (InFlight(toServer, "FramebufferUpdateRequest") \/ asked # "none")
    \/ InFlight(toClient, "ExtDesktopSize")

SizeInv ==
  /\ NeverTooLarge /\ SizesFollow
  /\ NoResize /\ Covered /\ RequestChain

-------------------------------------------------------------------------------
(* Channels. *)

\* What is left of a channel when its first message has been taken.
LEMMA TakeFirst ==
  ASSUME NEW S, NEW c \in Seq(S), c # <<>>
  PROVE  /\ Len(c) \in Nat \ {0} /\ Head(c) = c[1] /\ Head(c) \in S
         /\ Tail(c) \in Seq(S) /\ Len(Tail(c)) = Len(c) - 1
         /\ \A i \in 1 .. Len(c) - 1 : Tail(c)[i] = c[i + 1]
  OBVIOUS

\* A channel with one message more.
LEMMA AddLast ==
  ASSUME NEW S, NEW c \in Seq(S), NEW m \in S
  PROVE  /\ Len(c) \in Nat
         /\ Append(c, m) \in Seq(S) /\ Len(Append(c, m)) = Len(c) + 1
         /\ \A i \in 1 .. Len(c) : Append(c, m)[i] = c[i]
         /\ Append(c, m)[Len(c) + 1] = m
  OBVIOUS

\* A message of another kind may be taken, and any message added.
LEMMA StillInFlight ==
  ASSUME NEW S, NEW c \in Seq(S), NEW op
  PROVE  /\ \A m \in S : InFlight(c, op) \/ m.op = op <=> InFlight(Append(c, m), op)
         /\ c # <<>> /\ Head(c).op # op => (InFlight(c, op) <=> InFlight(Tail(c), op))
<1>1. ASSUME NEW m \in S PROVE InFlight(c, op) \/ m.op = op <=> InFlight(Append(c, m), op)
  BY AddLast DEF InFlight
<1>2. ASSUME c # <<>>, Head(c).op # op PROVE InFlight(Tail(c), op) <=> InFlight(c, op)
  <2>1. ASSUME InFlight(c, op) PROVE InFlight(Tail(c), op)
    <3>1. PICK i \in 1 .. Len(c) : c[i].op = op
      BY <2>1 DEF InFlight
    <3>2. i - 1 \in 1 .. Len(c) - 1
      BY <1>2, <3>1, TakeFirst
    <3> QED
      BY <1>2, <3>1, <3>2, TakeFirst DEF InFlight
  <2>2. ASSUME InFlight(Tail(c), op) PROVE InFlight(c, op)
    BY <1>2, <2>2, TakeFirst DEF InFlight
  <2> QED
    BY <2>1, <2>2
<1> QED
  BY <1>1, <1>2

\* The messages of both sides are well formed.
LEMMA Messages ==
  /\ \A full \in BOOLEAN : Request(full) \in ServerBound
  /\ \A d \in Sizes, i \in Ids : SetDesktopSize(d, i) \in ServerBound
  /\ \A d \in Sizes, i \in Ids : ExtDesktopSize(d, i) \in ClientBound
  /\ \A d \in Sizes : NewFBSize(d) \in ClientBound
  /\ \A d \in Sizes, f \in Nat, w \in BOOLEAN : Pixels(d, f, w) \in ClientBound
<1>1. \A full \in BOOLEAN : Request(full) \in ServerBound
  BY DEF Request, ServerBound
<1>2. \A d \in Sizes, i \in Ids : SetDesktopSize(d, i) \in ServerBound
  BY DEF SetDesktopSize, ServerBound
<1>3. \A d \in Sizes, i \in Ids : ExtDesktopSize(d, i) \in ClientBound
  BY DEF ExtDesktopSize, ClientBound
<1>4. \A d \in Sizes : NewFBSize(d) \in ClientBound
  BY DEF NewFBSize, ClientBound
<1>5. \A d \in Sizes, f \in Nat, w \in BOOLEAN : Pixels(d, f, w) \in ClientBound
  BY DEF Pixels, ClientBound
<1> QED
  BY <1>1, <1>2, <1>3, <1>4, <1>5

\* SendFramebufferUpdateRequest() adds a request or nothing.
LEMMA Requests ==
  ASSUME NEW c \in Seq(ServerBound), NEW full \in BOOLEAN, NEW resizing \in BOOLEAN
  PROVE  WithRequest(c, full, resizing) \in Seq(ServerBound)
<1>1. Append(c, Request(full)) \in Seq(ServerBound)
  BY Messages, AddLast
<1> QED
  BY <1>1 DEF WithRequest

\* What a message carries, by its kind.
LEMMA MessageFields ==
  /\ \A m \in ServerBound :
       /\ m.op \in {"FramebufferUpdateRequest", "SetDesktopSize"}
       /\ m.op = "FramebufferUpdateRequest" => m.full \in BOOLEAN
       /\ m.op = "SetDesktopSize" => m.size \in Sizes /\ m.id \in Ids
  /\ \A m \in ClientBound :
       /\ m.op \in {"ExtDesktopSize", "NewFBSize", "Pixels"} /\ m.size \in Sizes
       /\ m.op = "ExtDesktopSize" => m.id \in Ids
       /\ m.op = "Pixels" => m.frame \in Nat /\ m.whole \in BOOLEAN
<1>1. ASSUME NEW m \in ServerBound
      PROVE  /\ m.op \in {"FramebufferUpdateRequest", "SetDesktopSize"}
             /\ m.op = "FramebufferUpdateRequest" => m.full \in BOOLEAN
             /\ m.op = "SetDesktopSize" => m.size \in Sizes /\ m.id \in Ids
  BY DEF ServerBound
<1>2. ASSUME NEW m \in ClientBound
      PROVE  /\ m.op \in {"ExtDesktopSize", "NewFBSize", "Pixels"} /\ m.size \in Sizes
             /\ m.op = "ExtDesktopSize" => m.id \in Ids
             /\ m.op = "Pixels" => m.frame \in Nat /\ m.whole \in BOOLEAN
  BY DEF ClientBound
<1> QED
  BY <1>1, <1>2

-------------------------------------------------------------------------------
(* Types. *)

LEMMA TypeInit == ASSUME Init PROVE TypeOK
<1>1. PICK d \in Sizes :
        /\ serverKind \in Servers
        /\ desktop = [size |-> d, id |-> 1] /\ owed = Extended
        /\ asked = "none" /\ frame = 1 /\ offered = 0 /\ whole = TRUE
        /\ toServer = <<Request(TRUE)>> /\ toClient = <<>>
        /\ width = d /\ window = d /\ screen = NoScreen /\ requestedResize = FALSE
        /\ codec = 0 /\ shown = 0 /\ painted = FALSE /\ alive = TRUE
        /\ left = MaxEvents
  BY DEF Init
<1>2. toServer \in Seq(ServerBound) /\ toClient \in Seq(ClientBound)
  <2>1. Request(TRUE) \in ServerBound
    BY Messages
  <2>2. /\ <<Request(TRUE)>> = Append(<<>>, Request(TRUE))
        /\ <<>> \in Seq(ServerBound) /\ <<>> \in Seq(ClientBound)
    OBVIOUS
  <2>3. <<Request(TRUE)>> \in Seq(ServerBound)
    BY <2>1, <2>2, AddLast
  <2> QED
    BY <1>1, <2>2, <2>3, Zenon
<1>3. desktop \in [size : Sizes, id : Ids] /\ screen \in [size : Sizes \cup {0}, net : BOOLEAN]
  BY <1>1 DEF Ids, NoScreen
<1>4. owed \in BOOLEAN
  BY <1>1 DEF Extended
<1>5. /\ frame \in Nat /\ offered \in Nat /\ shown \in Nat /\ left \in 0 .. MaxEvents
      /\ asked \in {"none", "incremental", "full"} /\ codec \in Sizes \cup {0}
  BY <1>1, SizeAssumption
<1>6. whole \in BOOLEAN /\ requestedResize \in BOOLEAN /\ painted \in BOOLEAN /\ alive \in BOOLEAN
  BY <1>1
<1> QED
  BY <1>1, <1>2, <1>3, <1>4, <1>5, <1>6 DEF TypeOK

LEMMA TypeStep == ASSUME TypeOK, [Next]_vars PROVE TypeOK'
<1> USE SizeAssumption DEF TypeOK, serverVars, clientVars
<1>1. CASE PictureChanges
  BY <1>1 DEF PictureChanges
<1>2. CASE ServerResizes
  BY <1>2 DEF ServerResizes, Adopt
<1>3. CASE ServerTakesRequest
  BY <1>3, TakeFirst DEF ServerTakesRequest
<1>4. CASE ServerTakesResize
  <2>1. Head(toServer).size \in Sizes /\ Head(toServer).id \in Ids /\ toServer' \in Seq(ServerBound)
    BY <1>4, TakeFirst, MessageFields DEF ServerTakesResize
  <2>2. desktop' \in [size : Sizes, id : Ids] /\ frame' \in Nat /\ left' \in 0 .. MaxEvents
    BY <1>4, <2>1 DEF ServerTakesResize, Adopt
  <2>3. owed' \in BOOLEAN /\ whole' \in BOOLEAN
    BY <1>4 DEF ServerTakesResize, Adopt
  <2> QED
    BY <1>4, <2>1, <2>2, <2>3 DEF ServerTakesResize
<1>5. CASE ServerSendsSize
  BY <1>5, Messages, AddLast DEF ServerSendsSize
<1>6. CASE ServerSendsPixels
  BY <1>6, Messages, AddLast DEF ServerSendsPixels, H264
<1>7. ASSUME NEW d \in Sizes, UserResizes(d) PROVE TypeOK'
  <2>1. CASE UNCHANGED <<toServer, screen, requestedResize>>
    BY <1>7, <2>1 DEF UserResizes
  <2>2. CASE RequestResize(d) /\ screen' = [size |-> d, net |-> TRUE] /\ requestedResize' = TRUE
    <3>1. toServer' \in Seq(ServerBound)
      <4>1. PICK i \in Ids : toServer' = WithRequest(Append(toServer, SetDesktopSize(d, i)), TRUE, FALSE)
        BY <2>2 DEF RequestResize
      <4>2. Append(toServer, SetDesktopSize(d, i)) \in Seq(ServerBound)
        BY <1>7, Messages, AddLast
      <4> QED
        BY <4>1, <4>2, Requests
    <3> QED
      BY <1>7, <2>2, <3>1 DEF UserResizes
  <2> QED
    BY <1>7, <2>1, <2>2 DEF UserResizes, SendExtDesktopSize
<1>8. CASE WindowExposed
  <2>1. toServer' \in Seq(ServerBound)
    BY <1>8, Requests DEF WindowExposed
  <2>2. /\ left > 0 /\ left' = left - 1 /\ painted' = FALSE
        /\ UNCHANGED <<serverVars, toClient, width, window, screen, requestedResize, codec,
                        shown, alive>>
    BY <1>8 DEF WindowExposed
  <2>3. left' \in 0 .. MaxEvents
    BY <2>2
  <2>4. painted' \in BOOLEAN
    BY <2>2
  <2> QED
    BY <2>1, <2>2, <2>3, <2>4
<1>9. CASE HandleExtDesktopSize
  <2>1. /\ Head(toClient).size \in Sizes /\ toClient' \in Seq(ClientBound)
    BY <1>9, TakeFirst, MessageFields DEF HandleExtDesktopSize
  <2>2. toServer' \in Seq(ServerBound)
    BY <1>9, Requests DEF HandleExtDesktopSize
  <2>3. screen' \in [size : Sizes \cup {0}, net : BOOLEAN]
    BY <1>9, <2>1 DEF HandleExtDesktopSize, Valid
  <2>4. width' \in Sizes /\ window' \in Sizes /\ shown' \in Nat
    BY <1>9, <2>1 DEF HandleExtDesktopSize, Follows, Valid, ResizeClientBuffer, resize
  <2> QED
    BY <1>9, <2>1, <2>2, <2>3, <2>4 DEF HandleExtDesktopSize, ResizeOver
<1>10. CASE HandleNewFBSize
  <2>1. /\ Head(toClient).size \in Sizes /\ toClient' \in Seq(ClientBound)
    BY <1>10, TakeFirst, MessageFields DEF HandleNewFBSize
  <2>2. toServer' \in Seq(ServerBound)
    BY <1>10, Requests DEF HandleNewFBSize
  <2> QED
    BY <1>10, <2>1, <2>2 DEF HandleNewFBSize, ResizeClientBuffer, resize
<1>11. CASE HandlePixels
  <2>1. Head(toClient) \in ClientBound /\ Head(toClient).op = "Pixels"
    BY <1>11, TakeFirst DEF HandlePixels
  <2>2. Head(toClient).size \in Sizes /\ Head(toClient).frame \in Nat
    BY <2>1, MessageFields
  <2>3. codec' \in Sizes \cup {0} /\ screen' \in [size : Sizes \cup {0}, net : BOOLEAN]
    <3>1. \/ codec' = Head(toClient).size /\ screen' = [size |-> Head(toClient).size, net |-> FALSE]
          \/ codec' = codec /\ screen' = screen
      BY <1>11, Zenon DEF HandlePixels
    <3>2. [size |-> Head(toClient).size, net |-> FALSE] \in [size : Sizes \cup {0}, net : BOOLEAN]
      BY <2>2
    <3> QED
      BY <2>2, <3>1, <3>2, Zenon
  <2>4. toServer' \in Seq(ServerBound)
    BY <1>11, Requests DEF HandlePixels, NextRequest, H264
  <2>5. toClient' \in Seq(ClientBound)
    BY <1>11, TakeFirst DEF HandlePixels
  <2>6. shown' \in Nat
    BY <1>11, <2>2 DEF HandlePixels
  <2> QED
    BY <1>11, <2>3, <2>4, <2>5, <2>6 DEF HandlePixels
<1>12. CASE RectTooLarge
  BY <1>12 DEF RectTooLarge
<1>13. CASE UNCHANGED vars
  BY <1>13 DEF vars
<1> QED
  BY <1>1, <1>2, <1>3, <1>4, <1>5, <1>6, <1>7, <1>8, <1>9, <1>10, <1>11, <1>12, <1>13
     DEF Next, Server, HandleUpdate

-------------------------------------------------------------------------------
(* Servers without ExtendedDesktopSize. *)

LEMMA NoResizeStep == ASSUME TypeOK, NoResize, [Next]_vars PROVE NoResize'
<1> USE DEF NoResize, Extended, H264, serverVars, clientVars
<1>1. serverKind' = serverKind
  BY DEF Next, vars, PictureChanges, ServerResizes, Server, ServerTakesRequest, ServerTakesResize,
         ServerSendsSize, ServerSendsPixels, UserResizes, WindowExposed, HandleUpdate,
         HandleExtDesktopSize, HandleNewFBSize, HandlePixels, RectTooLarge
<1> SUFFICES ASSUME ~Extended
             PROVE  /\ screen'.size = 0 /\ ~requestedResize'
                    /\ ~InFlight(toClient', "ExtDesktopSize")
  BY <1>1 DEF InFlight
<1>2. screen.size = 0 /\ ~requestedResize /\ ~InFlight(toClient, "ExtDesktopSize")
  OBVIOUS
<1>3. toClient \in Seq(ClientBound)
  BY DEF TypeOK
<1>4. ASSUME UNCHANGED <<screen, requestedResize>>,
             toClient # <<>>, Head(toClient).op # "ExtDesktopSize", toClient' = Tail(toClient)
      PROVE  /\ screen'.size = 0 /\ ~requestedResize'
             /\ ~InFlight(toClient', "ExtDesktopSize")
  BY <1>2, <1>3, <1>4, StillInFlight
<1>5. ASSUME NEW m \in ClientBound, m.op # "ExtDesktopSize",
             UNCHANGED <<screen, requestedResize>>, toClient' = Append(toClient, m)
      PROVE  /\ screen'.size = 0 /\ ~requestedResize'
             /\ ~InFlight(toClient', "ExtDesktopSize")
  BY <1>2, <1>3, <1>5, StillInFlight
<1>6. ASSUME UNCHANGED <<screen, requestedResize, toClient>>
      PROVE  /\ screen'.size = 0 /\ ~requestedResize'
             /\ ~InFlight(toClient', "ExtDesktopSize")
  BY <1>2, <1>6 DEF InFlight
<1>7. CASE ServerSendsSize
  <2>1. NewFBSize(desktop.size) \in ClientBound /\ NewFBSize(desktop.size).op # "ExtDesktopSize"
    BY Messages DEF TypeOK, NewFBSize
  <2>2. UNCHANGED <<screen, requestedResize>> /\ toClient' = Append(toClient, NewFBSize(desktop.size))
    BY <1>7 DEF ServerSendsSize
  <2> QED
    BY <1>5, <2>1, <2>2
<1>8. CASE ServerSendsPixels
  <2>1. PICK w \in BOOLEAN : toClient' = Append(toClient, Pixels(desktop.size, frame, w))
    BY <1>8 DEF ServerSendsPixels, TypeOK
  <2>2. /\ Pixels(desktop.size, frame, w) \in ClientBound
        /\ Pixels(desktop.size, frame, w).op # "ExtDesktopSize"
    BY Messages DEF TypeOK, Pixels
  <2>3. UNCHANGED <<screen, requestedResize>>
    BY <1>8 DEF ServerSendsPixels
  <2> QED
    BY <1>5, <2>1, <2>2, <2>3
<1>9. ASSUME NEW d \in Sizes, UserResizes(d) PROVE UNCHANGED <<screen, requestedResize, toClient>>
  BY <1>2, <1>9 DEF UserResizes, SendExtDesktopSize
<1>10. CASE HandleExtDesktopSize
  BY <1>2, <1>3, <1>10, TakeFirst DEF HandleExtDesktopSize, InFlight
<1>11. CASE HandleNewFBSize
  BY <1>4, <1>11 DEF HandleNewFBSize
<1>12. CASE HandlePixels
  <2>1. UNCHANGED <<screen, requestedResize>>
    BY <1>12 DEF HandlePixels
  <2> QED
    BY <1>4, <1>12, <2>1 DEF HandlePixels
<1>13. CASE PictureChanges \/ ServerResizes \/ ServerTakesRequest \/ ServerTakesResize \/ RectTooLarge
            \/ WindowExposed \/ UNCHANGED vars
  BY <1>6, <1>13
     DEF PictureChanges, ServerResizes, ServerTakesRequest, ServerTakesResize, RectTooLarge, WindowExposed, vars
<1> QED
  BY <1>6, <1>7, <1>8, <1>9, <1>10, <1>11, <1>12, <1>13 DEF Next, Server, HandleUpdate

-------------------------------------------------------------------------------
(* What a resize is waiting for, and the chain of requests. *)

\* A request behind a SetDesktopSize stays behind it until that is taken.
LEMMA BehindResize ==
  ASSUME NEW S, NEW c \in Seq(S)
  PROVE  /\ \A m \in S : RequestBehindResize(c) => RequestBehindResize(Append(c, m))
         /\ \A m \in S, n \in S :
              m.op = "SetDesktopSize" /\ n.op = "FramebufferUpdateRequest" =>
                RequestBehindResize(Append(Append(c, m), n))
         /\ RequestBehindResize(c) =>
              /\ c # <<>> /\ Head(c).op # "SetDesktopSize" => RequestBehindResize(Tail(c))
              /\ c # <<>> => InFlight(Tail(c), "FramebufferUpdateRequest")
<1>1. ASSUME NEW m \in S, RequestBehindResize(c) PROVE RequestBehindResize(Append(c, m))
  <2>1. PICK i \in 1 .. Len(c), j \in 1 .. Len(c) :
          i < j /\ c[i].op = "SetDesktopSize" /\ c[j].op = "FramebufferUpdateRequest"
    BY <1>1 DEF RequestBehindResize
  <2> QED
    BY <2>1, AddLast DEF RequestBehindResize
<1>2. ASSUME NEW m \in S, NEW n \in S,
             m.op = "SetDesktopSize", n.op = "FramebufferUpdateRequest"
      PROVE  RequestBehindResize(Append(Append(c, m), n))
  <2> DEFINE d == Append(c, m)
  <2>1. d \in Seq(S) /\ Len(d) = Len(c) + 1 /\ d[Len(c) + 1] = m /\ Len(c) \in Nat
    BY AddLast
  <2> HIDE DEF d
  <2>2. /\ Len(Append(d, n)) = Len(c) + 2 /\ Append(d, n)[Len(c) + 1] = m
        /\ Append(d, n)[Len(c) + 2] = n
    BY <2>1, AddLast
  <2>3. RequestBehindResize(Append(d, n))
    BY <1>2, <2>1, <2>2 DEF RequestBehindResize
  <2> QED
    BY <2>3 DEF d
<1>3. ASSUME RequestBehindResize(c), c # <<>>
      PROVE  /\ Head(c).op # "SetDesktopSize" => RequestBehindResize(Tail(c))
             /\ InFlight(Tail(c), "FramebufferUpdateRequest")
  <2>1. PICK i \in 1 .. Len(c), j \in 1 .. Len(c) :
          i < j /\ c[i].op = "SetDesktopSize" /\ c[j].op = "FramebufferUpdateRequest"
    BY <1>3 DEF RequestBehindResize
  <2>2. /\ Len(c) \in Nat /\ Head(c) = c[1] /\ Len(Tail(c)) = Len(c) - 1
        /\ \A k \in 1 .. Len(c) - 1 : Tail(c)[k] = c[k + 1]
    BY <1>3, TakeFirst
  <2>3. j - 1 \in 1 .. Len(c) - 1 /\ Tail(c)[j - 1] = c[j]
    BY <2>1, <2>2
  <2>4. InFlight(Tail(c), "FramebufferUpdateRequest")
    BY <2>1, <2>2, <2>3 DEF InFlight
  <2>5. ASSUME Head(c).op # "SetDesktopSize" PROVE RequestBehindResize(Tail(c))
    <3>1. i - 1 \in 1 .. Len(c) - 1 /\ Tail(c)[i - 1] = c[i] /\ j - 1 \in (i - 1) + 1 .. Len(c) - 1
      BY <2>1, <2>2, <2>5
    <3> QED
      BY <2>1, <2>2, <2>3, <3>1 DEF RequestBehindResize
  <2> QED
    BY <2>4, <2>5
<1> QED
  BY <1>1, <1>2, <1>3

LEMMA CoveredStep == ASSUME TypeOK, NoResize, Covered, [Next]_vars PROVE Covered'
<1>1. toServer \in Seq(ServerBound) /\ toClient \in Seq(ClientBound)
  BY DEF TypeOK
<1>2. requestedResize' = requestedResize /\ UNCHANGED <<owed, asked, toServer, toClient>> => Covered'
  BY DEF Covered, RequestBehindResize, InFlight
<1>3. CASE ServerResizes
  BY <1>3 DEF ServerResizes, Adopt, Covered, RequestBehindResize, InFlight, clientVars
<1>4. CASE ServerTakesRequest
  <2>1. /\ toServer # <<>> /\ Head(toServer).op # "SetDesktopSize" /\ toServer' = Tail(toServer)
        /\ asked' # "none"
        /\ UNCHANGED <<owed, toClient, requestedResize>>
    BY <1>4 DEF ServerTakesRequest, serverVars, clientVars
  <2>2. RequestBehindResize(toServer) => RequestBehindResize(toServer')
    BY <1>1, <2>1, BehindResize
  <2> QED
    BY <2>1, <2>2 DEF Covered, InFlight
<1>5. CASE ServerTakesResize
  <2>1. /\ toServer # <<>> /\ Head(toServer).op = "SetDesktopSize" /\ toServer' = Tail(toServer)
        /\ owed' = TRUE
        /\ UNCHANGED <<asked, toClient, requestedResize>>
    BY <1>5 DEF ServerTakesResize, Adopt, clientVars
  <2>2. RequestBehindResize(toServer) => InFlight(toServer', "FramebufferUpdateRequest")
    BY <1>1, <2>1, BehindResize
  <2>3. InFlight(toServer, "FramebufferUpdateRequest") => InFlight(toServer', "FramebufferUpdateRequest")
    BY <1>1, <2>1, StillInFlight
  <2> QED
    BY <2>1, <2>2, <2>3 DEF Covered, InFlight
<1>6. CASE ServerSendsSize
  <2>1. UNCHANGED <<toServer, requestedResize>>
    BY <1>6 DEF ServerSendsSize, clientVars
  <2>2. ASSUME requestedResize PROVE InFlight(toClient', "ExtDesktopSize")
    <3>1. Extended
      BY <2>2 DEF NoResize
    <3>2. PICK m \in ClientBound : m.op = "ExtDesktopSize" /\ toClient' = Append(toClient, m)
      <4>1. toClient' = Append(toClient, ExtDesktopSize(desktop.size, desktop.id))
        BY <1>6, <3>1 DEF ServerSendsSize
      <4>2. /\ ExtDesktopSize(desktop.size, desktop.id) \in ClientBound
            /\ ExtDesktopSize(desktop.size, desktop.id).op = "ExtDesktopSize"
        BY Messages DEF TypeOK, ExtDesktopSize
      <4> QED
        BY <4>1, <4>2
    <3>3. InFlight(Append(toClient, m), "ExtDesktopSize")
      BY <1>1, <3>2, StillInFlight
    <3> QED
      BY <3>2, <3>3
  <2> QED
    BY <2>1, <2>2 DEF Covered, InFlight
<1>7. CASE ServerSendsPixels
  <2>1. ~owed /\ UNCHANGED <<owed, toServer, requestedResize>>
    BY <1>7 DEF ServerSendsPixels, clientVars
  <2>2. PICK w \in BOOLEAN : toClient' = Append(toClient, Pixels(desktop.size, frame, w))
    BY <1>7 DEF ServerSendsPixels, TypeOK, H264
  <2>3. Pixels(desktop.size, frame, w) \in ClientBound
    BY Messages DEF TypeOK
  <2>4. InFlight(toClient, "ExtDesktopSize") => InFlight(toClient', "ExtDesktopSize")
    BY <1>1, <2>2, <2>3, StillInFlight
  <2> QED
    BY <2>1, <2>4 DEF Covered, RequestBehindResize, InFlight
<1>8. ASSUME NEW d \in Sizes, UserResizes(d) PROVE Covered'
  <2>1. CASE UNCHANGED <<toServer, screen, requestedResize>>
    BY <1>2, <1>8, <2>1 DEF UserResizes, serverVars
  <2>2. CASE RequestResize(d)
    <3>1. PICK i \in Ids : toServer' = Append(Append(toServer, SetDesktopSize(d, i)), Request(TRUE))
      BY <2>2 DEF RequestResize, WithRequest
    <3>2. /\ SetDesktopSize(d, i) \in ServerBound /\ SetDesktopSize(d, i).op = "SetDesktopSize"
          /\ Request(TRUE) \in ServerBound /\ Request(TRUE).op = "FramebufferUpdateRequest"
      BY <1>8, Messages DEF SetDesktopSize, Request
    <3>3. RequestBehindResize(toServer')
      BY <1>1, <3>1, <3>2, BehindResize
    <3> QED
      BY <3>3 DEF Covered
  <2> QED
    BY <1>8, <2>1, <2>2 DEF UserResizes, SendExtDesktopSize
<1>9. CASE WindowExposed
  <2>1. requestedResize' = requestedResize /\ (requestedResize => toServer' = toServer)
        /\ UNCHANGED <<owed, asked, toClient>>
    BY <1>9 DEF WindowExposed, WithRequest, serverVars
  <2> QED
    BY <2>1 DEF Covered, RequestBehindResize, InFlight
<1>10. CASE HandleExtDesktopSize
  BY <1>10 DEF HandleExtDesktopSize, ResizeOver, Covered
<1>11. CASE HandleNewFBSize \/ HandlePixels
  <2>1. /\ requestedResize' = requestedResize /\ (requestedResize => toServer' = toServer)
        /\ UNCHANGED <<owed, asked>>
        /\ toClient # <<>> /\ Head(toClient).op # "ExtDesktopSize" /\ toClient' = Tail(toClient)
    BY <1>11 DEF HandleNewFBSize, HandlePixels, NextRequest, WithRequest, serverVars
  <2>2. InFlight(toClient, "ExtDesktopSize") => InFlight(toClient', "ExtDesktopSize")
    BY <1>1, <2>1, StillInFlight
  <2> QED
    BY <2>1, <2>2 DEF Covered, RequestBehindResize, InFlight
<1>12. CASE PictureChanges \/ RectTooLarge \/ UNCHANGED vars
  BY <1>2, <1>12 DEF PictureChanges, RectTooLarge, vars, serverVars, clientVars
<1> QED
  BY <1>3, <1>4, <1>5, <1>6, <1>7, <1>8, <1>9, <1>10, <1>11, <1>12 DEF Next, Server, HandleUpdate

LEMMA RequestChainStep ==
  ASSUME TypeOK, RequestChain, Covered', [Next]_vars PROVE RequestChain'
<1>1. toServer \in Seq(ServerBound) /\ toClient \in Seq(ClientBound)
  BY DEF TypeOK
<1>2. serverKind' = serverKind
  BY DEF Next, vars, PictureChanges, ServerResizes, Server, ServerTakesRequest, ServerTakesResize,
         ServerSendsSize, ServerSendsPixels, UserResizes, WindowExposed, HandleUpdate,
         HandleExtDesktopSize, HandleNewFBSize, HandlePixels, RectTooLarge, serverVars
<1>3. \A full \in BOOLEAN : Request(full) \in ServerBound /\ Request(full).op = "FramebufferUpdateRequest"
  BY Messages DEF Request
<1>4. \A c \in Seq(ServerBound), full \in BOOLEAN, resizing \in BOOLEAN :
        InFlight(c, "FramebufferUpdateRequest") \/ ~resizing
          => InFlight(WithRequest(c, full, resizing), "FramebufferUpdateRequest")
  <2>1. ASSUME NEW c \in Seq(ServerBound), NEW full \in BOOLEAN
        PROVE  InFlight(Append(c, Request(full)), "FramebufferUpdateRequest")
    BY <1>3, StillInFlight
  <2> QED
    BY <2>1 DEF WithRequest
<1>5. RequestBehindResize(toServer') => InFlight(toServer', "FramebufferUpdateRequest")
  <2>1. toServer' \in Seq(ServerBound)
    BY TypeStep DEF TypeOK
  <2>2. ASSUME NEW c \in Seq(ServerBound), RequestBehindResize(c)
        PROVE  InFlight(c, "FramebufferUpdateRequest")
    BY <2>2 DEF RequestBehindResize, InFlight
  <2> QED
    BY <2>1, <2>2
<1>6. requestedResize' => RequestChain'
  <2>1. InFlight(toClient', "ExtDesktopSize") => toClient' # <<>>
    BY DEF InFlight
  <2> QED
    BY <1>5, <2>1 DEF Covered, RequestChain, InFlight
<1>7. CASE ServerTakesRequest
  BY <1>7 DEF ServerTakesRequest, RequestChain
<1>8. CASE ServerTakesResize
  <2>1. /\ toServer # <<>> /\ Head(toServer).op = "SetDesktopSize" /\ toServer' = Tail(toServer)
        /\ UNCHANGED <<asked, toClient, alive>>
    BY <1>8 DEF ServerTakesResize, clientVars
  <2>2. InFlight(toServer, "FramebufferUpdateRequest") => InFlight(toServer', "FramebufferUpdateRequest")
    BY <1>1, <2>1, StillInFlight
  <2> QED
    BY <1>2, <2>1, <2>2 DEF RequestChain, H264, InFlight
<1>9. CASE ServerSendsSize \/ ServerSendsPixels
  <2>1. \E m : toClient' = Append(toClient, m) /\ m \in ClientBound
    BY <1>9, Messages DEF ServerSendsSize, ServerSendsPixels, TypeOK, H264
  <2>2. toClient' # <<>>
    BY <1>1, <2>1
  <2> QED
    BY <2>2 DEF RequestChain
<1>10. CASE HandleExtDesktopSize
  BY <1>1, <1>4, <1>10 DEF HandleExtDesktopSize, RequestChain
<1>11. CASE HandleNewFBSize
  BY <1>1, <1>4, <1>6, <1>11, Requests DEF HandleNewFBSize, RequestChain, TypeOK
<1>12. CASE HandlePixels
  BY <1>1, <1>2, <1>4, <1>6, <1>12 DEF HandlePixels, NextRequest, RequestChain, H264, TypeOK
<1>13. ASSUME NEW d \in Sizes, UserResizes(d) PROVE RequestChain'
  BY <1>2, <1>6, <1>13 DEF UserResizes, SendExtDesktopSize, RequestChain, H264, InFlight, serverVars, TypeOK
<1>14. CASE WindowExposed
  <2>1. InFlight(toServer, "FramebufferUpdateRequest") => InFlight(toServer', "FramebufferUpdateRequest")
    BY <1>1, <1>4, <1>14 DEF WindowExposed, TypeOK
  <2> QED
    BY <1>2, <1>14, <2>1 DEF WindowExposed, RequestChain, H264, InFlight, serverVars
<1>15. CASE PictureChanges \/ ServerResizes \/ RectTooLarge \/ UNCHANGED vars
  BY <1>15 DEF PictureChanges, ServerResizes, RectTooLarge, vars, RequestChain, H264, InFlight,
               serverVars, clientVars
<1> QED
  BY <1>7, <1>8, <1>9, <1>10, <1>11, <1>12, <1>13, <1>14, <1>15 DEF Next, Server, HandleUpdate

-------------------------------------------------------------------------------
(* The size in force. *)

\* A message more changes nothing for those before it.
LEMMA InForceBefore ==
  ASSUME TypeOK, NEW m \in ClientBound, toClient' = Append(toClient, m), width' = width,
         NEW i \in 1 .. Len(toClient) + 1, NEW d, InForce(i, d)
  PROVE  InForce(i, d)'
<1>1. \A j \in 1 .. i - 1 : toClient'[j] = toClient[j]
  BY AddLast DEF TypeOK
<1>2. \A j \in 1 .. i - 1 : Announces(j)' <=> Announces(j)
  BY <1>1 DEF Announces
<1>3. ASSUME NEW j \in 1 .. i - 1, LastBefore(j, i)' PROVE toClient'[j].size = d
  <2>1. \A k \in j + 1 .. i - 1 : k \in 1 .. i - 1
    OBVIOUS
  <2>2. LastBefore(j, i)
    BY <1>2, <1>3, <2>1, Zenon DEF LastBefore
  <2> QED
    BY <1>1, <2>2 DEF InForce
<1>4. (\A j \in 1 .. i - 1 : ~Announces(j)') => width' = d
  BY <1>2, Zenon DEF InForce
<1> QED
  BY <1>3, <1>4 DEF InForce

\* Behind a size that has been announced, that size is in force; behind pixels,
\* the one that was.
LEMMA InForceAtEnd ==
  ASSUME TypeOK, NEW m \in ClientBound, toClient' = Append(toClient, m), width' = width,
         NEW end, end = Len(toClient) + 1, NEW d,
         IF m.op # "Pixels" THEN m.size = d ELSE InForce(end, d)
  PROVE  InForce(end + 1, d)'
<1>1. /\ Len(toClient) \in Nat /\ Len(toClient') = Len(toClient) + 1
      /\ \A j \in 1 .. Len(toClient) : toClient'[j] = toClient[j]
      /\ toClient'[end] = m
  BY AddLast DEF TypeOK
<1>2. /\ \A j \in 1 .. Len(toClient) : Announces(j)' <=> Announces(j)
      /\ Announces(end)' <=> m.op # "Pixels"
  BY <1>1 DEF Announces
<1>3. CASE m.op # "Pixels"
  <2>1. ASSUME NEW j \in 1 .. end, LastBefore(j, end + 1)' PROVE toClient'[j].size = d
    <3>1. CASE j = end
      BY <1>1, <1>3, <3>1
    <3>2. CASE j # end
      <4>1. end \in j + 1 .. (end + 1) - 1
        BY <1>1, <3>2
      <4> QED
        BY <1>2, <1>3, <2>1, <4>1 DEF LastBefore
    <3> QED
      BY <3>1, <3>2
  <2>2. end \in 1 .. (end + 1) - 1 /\ Announces(end)'
    BY <1>1, <1>2, <1>3
  <2> QED
    BY <1>1, <2>1, <2>2 DEF InForce
<1>4. CASE m.op = "Pixels"
  <2>1. ASSUME NEW j \in 1 .. end, LastBefore(j, end + 1)' PROVE toClient'[j].size = d
    <3>1. j \in 1 .. end - 1 /\ Announces(j)
      BY <1>1, <1>2, <1>4, <2>1 DEF LastBefore
    <3>2. \A k \in j + 1 .. end - 1 : k \in j + 1 .. (end + 1) - 1 /\ k \in 1 .. Len(toClient)
      BY <1>1
    <3>3. LastBefore(j, end)
      BY <1>2, <2>1, <3>1, <3>2 DEF LastBefore
    <3> QED
      BY <1>1, <1>4, <3>1, <3>3 DEF InForce
  <2>2. ASSUME \A j \in 1 .. (end + 1) - 1 : ~Announces(j)' PROVE width' = d
    <3>1. \A j \in 1 .. end - 1 : j \in 1 .. (end + 1) - 1 /\ j \in 1 .. Len(toClient)
      BY <1>1
    <3> QED
      BY <1>2, <1>4, <2>2, <3>1 DEF InForce
  <2> QED
    BY <1>1, <2>1, <2>2 DEF InForce
<1> QED
  BY <1>3, <1>4

\* Handling the first message leaves the size in force for the others.
LEMMA InForceAfter ==
  ASSUME TypeOK, toClient # <<>>, toClient' = Tail(toClient),
         width' = IF Head(toClient).op = "Pixels" THEN width ELSE Head(toClient).size,
         NEW i \in 1 .. Len(toClient), NEW d, InForce(i + 1, d)
  PROVE  InForce(i, d)'
<1>1. /\ Len(toClient) \in Nat \ {0} /\ Head(toClient) = toClient[1]
      /\ \A j \in 1 .. Len(toClient) - 1 : toClient'[j] = toClient[j + 1]
  BY TakeFirst DEF TypeOK
<1>2. \A j \in 1 .. i - 1 : Announces(j)' <=> Announces(j + 1)
  BY <1>1 DEF Announces
<1>3. ASSUME NEW j \in 1 .. i - 1, LastBefore(j, i)' PROVE toClient'[j].size = d
  <2>1. ASSUME NEW k \in (j + 1) + 1 .. (i + 1) - 1 PROVE ~Announces(k)
    <3>1. k - 1 \in 1 .. i - 1 /\ k - 1 \in j + 1 .. i - 1 /\ (k - 1) + 1 = k
      BY <1>1
    <3>2. ~Announces(k - 1)'
      BY <1>3, <3>1 DEF LastBefore
    <3>3. ~Announces((k - 1) + 1)
      BY <1>2, <3>1, <3>2
    <3> QED
      BY <3>1, <3>3
  <2>2. j + 1 \in 1 .. (i + 1) - 1 /\ Announces(j + 1)
    BY <1>1, <1>2, <1>3 DEF LastBefore
  <2>3. LastBefore(j + 1, i + 1)
    BY <2>1, <2>2 DEF LastBefore
  <2>4. toClient[j + 1].size = d
    BY <2>2, <2>3 DEF InForce
  <2> QED
    BY <1>1, <2>4
<1>4. ASSUME \A j \in 1 .. i - 1 : ~Announces(j)' PROVE width' = d
  <2>1. ASSUME NEW k \in 2 .. i PROVE ~Announces(k)
    <3>1. k - 1 \in 1 .. i - 1 /\ (k - 1) + 1 = k
      BY <1>1
    <3>2. ~Announces((k - 1) + 1)
      BY <1>2, <1>4, <3>1
    <3> QED
      BY <3>1, <3>2
  <2>2. CASE Announces(1)
    <3>1. LastBefore(1, i + 1)
      BY <2>1, <2>2 DEF LastBefore
    <3> QED
      BY <1>1, <2>2, <3>1 DEF InForce, Announces
  <2>3. CASE ~Announces(1)
    <3>1. \A j \in 1 .. (i + 1) - 1 : ~Announces(j)
      BY <2>1, <2>3
    <3>2. width = d
      BY <3>1 DEF InForce
    <3> QED
      BY <1>1, <2>3, <3>2 DEF Announces
  <2> QED
    BY <2>2, <2>3
<1> QED
  BY <1>3, <1>4 DEF InForce

LEMMA SizesFollowStep == ASSUME TypeOK, SizesFollow, [Next]_vars PROVE SizesFollow'
<1>1. serverKind' = serverKind
  BY DEF Next, vars, PictureChanges, ServerResizes, Server, ServerTakesRequest, ServerTakesResize,
         ServerSendsSize, ServerSendsPixels, UserResizes, WindowExposed, HandleUpdate,
         HandleExtDesktopSize, HandleNewFBSize, HandlePixels, RectTooLarge, serverVars
<1> SUFFICES ASSUME ~EchoIds PROVE SizesFollow'
  BY <1>1 DEF SizesFollow, EchoIds
<1>2. /\ \A i \in 1 .. Len(toClient) :
           toClient[i].op = "Pixels" => InForce(i, toClient[i].size)
      /\ ~owed => InForce(Len(toClient) + 1, desktop.size)
      /\ desktop.id # 0
      /\ \A i \in 1 .. Len(toClient) : toClient[i].op = "ExtDesktopSize" => toClient[i].id # 0
      /\ toClient \in Seq(ClientBound)
  BY DEF SizesFollow, TypeOK
<1>3. ASSUME UNCHANGED <<toClient, width>>, desktop'.id = desktop.id,
             owed' \/ UNCHANGED <<owed, desktop>>
      PROVE  SizesFollow'
  <2>1. \A i, d : InForce(i, d) <=> InForce(i, d)'
    BY <1>3 DEF InForce, LastBefore, Announces
  <2> QED
    BY <1>2, <1>3, <2>1 DEF SizesFollow
<1>4. ASSUME NEW m \in ClientBound, toClient' = Append(toClient, m), width' = width,
             desktop' = desktop, ~owed \/ m.op # "Pixels",
             m.size = desktop.size, m.op = "ExtDesktopSize" => m.id # 0
      PROVE  SizesFollow'
  <2>1. /\ Len(toClient) \in Nat /\ Len(toClient') = Len(toClient) + 1
        /\ \A j \in 1 .. Len(toClient) : toClient'[j] = toClient[j]
        /\ toClient'[Len(toClient) + 1] = m
    BY <1>2, <1>4, AddLast
  <2>2. PICK end : end = Len(toClient) + 1
    OBVIOUS
  <2>3. PICK d : d = desktop.size
    OBVIOUS
  <2>4. InForce(end + 1, d)'
    BY <1>2, <1>4, <2>2, <2>3, InForceAtEnd
  <2>5. ~owed => InForce(end, d)'
    BY <1>2, <1>4, <2>1, <2>2, <2>3, InForceBefore
  <2>6. ASSUME NEW i \in 1 .. Len(toClient'), toClient'[i].op = "Pixels"
        PROVE  InForce(i, toClient[i].size)'
    <3>1. CASE i = end
      BY <1>4, <2>1, <2>2, <2>3, <2>5, <2>6, <3>1
    <3>2. CASE i # end
      <4>1. i \in 1 .. Len(toClient) /\ i \in 1 .. Len(toClient) + 1
        BY <2>1, <2>2, <3>2
      <4>2. PICK e : e = toClient[i].size
        OBVIOUS
      <4>3. InForce(i, e)'
        BY <1>2, <1>4, <2>1, <2>6, <4>1, <4>2, InForceBefore
      <4> QED
        BY <2>1, <4>1, <4>2, <4>3
    <3> QED
      BY <3>1, <3>2
  <2>7. ASSUME NEW i \in 1 .. Len(toClient'), toClient'[i].op = "ExtDesktopSize"
        PROVE  toClient'[i].id # 0
    BY <1>2, <1>4, <2>1, <2>7
  <2> QED
    BY <1>2, <1>4, <2>1, <2>2, <2>3, <2>4, <2>6, <2>7 DEF SizesFollow
<1>5. ASSUME toClient # <<>>, toClient' = Tail(toClient), UNCHANGED <<owed, desktop>>,
             width' = IF Head(toClient).op = "Pixels" THEN width ELSE Head(toClient).size
      PROVE  SizesFollow'
  <2>1. /\ Len(toClient) \in Nat \ {0} /\ Len(toClient') = Len(toClient) - 1
        /\ \A j \in 1 .. Len(toClient) - 1 : toClient'[j] = toClient[j + 1]
    BY <1>2, <1>5, TakeFirst
  <2>2. ASSUME NEW i \in 1 .. Len(toClient'), toClient'[i].op = "Pixels"
        PROVE  InForce(i, toClient[i].size)'
    <3>1. i \in 1 .. Len(toClient) /\ i + 1 \in 1 .. Len(toClient) /\ toClient'[i] = toClient[i + 1]
      BY <2>1
    <3>2. PICK e : e = toClient[i + 1].size
      OBVIOUS
    <3>3. InForce(i, e)'
      BY <1>2, <1>5, <2>2, <3>1, <3>2, InForceAfter
    <3> QED
      BY <3>1, <3>2, <3>3
  <2>3. ASSUME ~owed PROVE InForce(Len(toClient) + 1, desktop.size)'
    <3>1. PICK last : last = Len(toClient)
      OBVIOUS
    <3>2. PICK d : d = desktop.size
      OBVIOUS
    <3>3. last \in 1 .. Len(toClient) /\ Len(toClient') + 1 = last
      BY <2>1, <3>1
    <3>4. InForce(last, d)'
      BY <1>2, <1>5, <2>3, <3>1, <3>2, <3>3, InForceAfter
    <3> QED
      BY <1>5, <3>2, <3>3, <3>4
  <2>4. ASSUME NEW i \in 1 .. Len(toClient'), toClient'[i].op = "ExtDesktopSize"
        PROVE  toClient'[i].id # 0
    <3>1. i + 1 \in 1 .. Len(toClient) /\ toClient'[i] = toClient[i + 1]
      BY <2>1
    <3> QED
      BY <1>2, <2>4, <3>1
  <2> QED
    BY <1>2, <1>5, <2>2, <2>3, <2>4 DEF SizesFollow
<1>6. CASE PictureChanges \/ RectTooLarge \/ WindowExposed \/ UNCHANGED vars
  BY <1>3, <1>6 DEF PictureChanges, RectTooLarge, WindowExposed, vars, serverVars, clientVars
<1>7. ASSUME NEW d \in Sizes, UserResizes(d) PROVE SizesFollow'
  BY <1>3, <1>7 DEF UserResizes, serverVars
<1>8. CASE ServerTakesRequest
  BY <1>3, <1>8 DEF ServerTakesRequest, clientVars
<1>9. CASE ServerResizes
  <2>1. desktop'.id = desktop.id /\ owed' = TRUE /\ UNCHANGED <<toClient, width>>
    BY <1>9 DEF ServerResizes, Adopt, clientVars
  <2> QED
    BY <1>3, <2>1
<1>10. CASE ServerTakesResize
  <2>1. desktop'.id = desktop.id /\ owed' = TRUE /\ UNCHANGED <<toClient, width>>
    BY <1>10 DEF ServerTakesResize, Adopt, clientVars
  <2> QED
    BY <1>3, <2>1
<1>11. CASE ServerSendsSize
  <2>1. width' = width /\ desktop' = desktop /\ owed
    BY <1>11 DEF ServerSendsSize, clientVars
  <2>2. CASE Extended
    <3>1. PICK m : m = ExtDesktopSize(desktop.size, desktop.id)
      OBVIOUS
    <3>2. m \in ClientBound /\ m.op # "Pixels" /\ m.size = desktop.size /\ m.id # 0
      BY <1>2, <3>1, Messages DEF TypeOK, ExtDesktopSize
    <3>3. toClient' = Append(toClient, m)
      BY <1>11, <2>2, <3>1 DEF ServerSendsSize
    <3> QED
      BY <1>4, <2>1, <3>2, <3>3
  <2>3. CASE ~Extended
    <3>1. PICK m : m = NewFBSize(desktop.size)
      OBVIOUS
    <3>2. m \in ClientBound /\ m.op = "NewFBSize" /\ m.size = desktop.size
      BY <3>1, Messages DEF TypeOK, NewFBSize
    <3>3. toClient' = Append(toClient, m)
      BY <1>11, <2>3, <3>1 DEF ServerSendsSize
    <3> QED
      BY <1>4, <2>1, <3>2, <3>3
  <2> QED
    BY <2>2, <2>3
<1>12. CASE ServerSendsPixels
  <2>1. width' = width /\ desktop' = desktop /\ ~owed
    BY <1>12 DEF ServerSendsPixels, clientVars
  <2>2. PICK w \in BOOLEAN : toClient' = Append(toClient, Pixels(desktop.size, frame, w))
    BY <1>12 DEF ServerSendsPixels, TypeOK, H264
  <2>3. PICK m : m = Pixels(desktop.size, frame, w)
    OBVIOUS
  <2>4. m \in ClientBound /\ m.op = "Pixels" /\ m.size = desktop.size
    BY <2>3, Messages DEF TypeOK, Pixels
  <2> QED
    BY <1>4, <2>1, <2>2, <2>3, <2>4
<1>13. CASE HandleExtDesktopSize
  <2>1. /\ toClient # <<>> /\ toClient' = Tail(toClient) /\ UNCHANGED <<owed, desktop>>
        /\ Head(toClient).op = "ExtDesktopSize"
    BY <1>13 DEF HandleExtDesktopSize, serverVars
  <2>2. Head(toClient).id # 0
    BY <1>2, <2>1, TakeFirst
  <2>3. width' = Head(toClient).size
    BY <1>13, <2>2 DEF HandleExtDesktopSize, Follows, Valid, ResizeClientBuffer, resize
  <2> QED
    BY <1>5, <2>1, <2>3
<1>14. CASE HandleNewFBSize
  BY <1>5, <1>14 DEF HandleNewFBSize, ResizeClientBuffer, resize, serverVars
<1>15. CASE HandlePixels
  BY <1>5, <1>15 DEF HandlePixels, serverVars
<1> QED
  BY <1>6, <1>7, <1>8, <1>9, <1>10, <1>11, <1>12, <1>13, <1>14, <1>15
     DEF Next, Server, HandleUpdate

\* The pixels the client takes next are for the size its framebuffer has.
LEMMA AliveStep ==
  ASSUME TypeOK, SizesFollow, ~EchoIds, alive, [Next]_vars PROVE alive'
<1>1. ~RectTooLarge
  <2>1. SUFFICES ASSUME toClient # <<>>, Head(toClient).op = "Pixels"
                 PROVE  Head(toClient).size = width
    BY SizeAssumption DEF RectTooLarge, TypeOK
  <2>2. toClient \in Seq(ClientBound) /\ 1 \in 1 .. Len(toClient) /\ Head(toClient) = toClient[1]
    BY <2>1, TakeFirst DEF TypeOK
  <2>3. InForce(1, toClient[1].size)
    BY <2>1, <2>2 DEF SizesFollow
  <2> QED
    BY <2>2, <2>3 DEF InForce
<1> QED
  BY <1>1
     DEF Next, vars, PictureChanges, ServerResizes, Server, ServerTakesRequest, ServerTakesResize,
         ServerSendsSize, ServerSendsPixels, UserResizes, WindowExposed, HandleUpdate,
         HandleExtDesktopSize, HandleNewFBSize, HandlePixels, clientVars

-------------------------------------------------------------------------------
(* The theorems. *)

LEMMA SizeInvInit == ASSUME Init PROVE SizeInv
<1>1. PICK d \in Sizes :
        /\ serverKind \in Servers
        /\ desktop = [size |-> d, id |-> 1] /\ owed = Extended
        /\ toServer = <<Request(TRUE)>> /\ toClient = <<>>
        /\ width = d /\ screen = NoScreen /\ requestedResize = FALSE /\ alive = TRUE
  BY DEF Init
<1>2. NeverTooLarge
  BY <1>1, TypeInit DEF NeverTooLarge
<1>3. SizesFollow
  BY <1>1 DEF SizesFollow, InForce, LastBefore
<1>4. NoResize /\ Covered
  BY <1>1 DEF NoResize, NoScreen, InFlight, Covered
<1>5. RequestChain
  BY <1>1 DEF RequestChain, InFlight, Request
<1> QED
  BY <1>2, <1>3, <1>4, <1>5 DEF SizeInv

LEMMA SizeInvStep == ASSUME SizeInv, [Next]_vars PROVE SizeInv'
<1> USE DEF SizeInv, NeverTooLarge
<1>1. TypeOK' /\ SizesFollow' /\ NoResize' /\ Covered'
  BY TypeStep, SizesFollowStep, NoResizeStep, CoveredStep
<1>2. RequestChain'
  BY <1>1, RequestChainStep
<1>3. ~EchoIds' => alive'
  <2>1. serverKind' = serverKind
    BY DEF Next, vars, PictureChanges, ServerResizes, Server, ServerTakesRequest,
           ServerTakesResize, ServerSendsSize, ServerSendsPixels, UserResizes, WindowExposed,
           HandleUpdate, HandleExtDesktopSize, HandleNewFBSize, HandlePixels, RectTooLarge,
           serverVars
  <2> QED
    BY <2>1, AliveStep DEF EchoIds
<1> QED
  BY <1>1, <1>2, <1>3

\* The induction: what SizeInv says of the channels, the framebuffer and the
\* resize in progress holds after every handler.
THEOREM SizeInvHolds == Spec => []SizeInv
<1>1. Init => SizeInv
  BY SizeInvInit
<1>2. SizeInv /\ [Next]_vars => SizeInv'
  BY SizeInvStep
<1> QED
  BY <1>1, <1>2, PTL DEF Spec

\* No session ends with "Rect too large", for any sizes and any number of
\* resizes under way, unless the server hands the screen id back.
THEOREM RectsFit == Spec => []NeverTooLarge
<1>1. SizeInv => NeverTooLarge
  BY DEF SizeInv
<1> QED
  BY <1>1, SizeInvHolds, PTL

\* Whenever SendFramebufferUpdateRequest() skips a request for a resize in
\* progress, what ends the resize is still to come.
THEOREM SkippingCovered == Spec => []SkippingIsCovered
<1>1. SizeInv => SkippingIsCovered
  BY DEF SizeInv, Covered, SkippingIsCovered, RequestBehindResize, InFlight
<1> QED
  BY <1>1, SizeInvHolds, PTL

\* Without H264, a request or an update is always under way, whatever has been
\* skipped.
THEOREM ChainOfRequests == Spec => []RequestChain
<1>1. SizeInv => RequestChain
  BY DEF SizeInv
<1> QED
  BY <1>1, SizeInvHolds, PTL

===============================================================================
