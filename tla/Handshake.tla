------------------------------- MODULE Handshake -------------------------------
(***************************************************************************)
(* InitialiseRFBConnection() of rfbclient.c and the negotiations it calls, *)
(* ReadSupportedSecurityType(), HandleVeNCryptAuth() and the challenges,   *)
(* talking over two FIFO channels to a server that keeps to the version    *)
(* the client answers with.  The server is external: what it sends is what *)
(* this code and rfbproto.h say a server of each version sends.            *)
(*                                                                         *)
(* No message says what it is or how long it is: the two sides only agree  *)
(* on what comes next because they have drawn the same conclusions from    *)
(* what came before.  A message here carries its kind and the layer, plain *)
(* or TLS, it was written in; "at" is the kind the client reads next.      *)
(*                                                                         *)
(* A version is major * 1000 + minor.  "ARD" stands for Ultra MS Logon II  *)
(* too: both are selected, answered and refused at the same places.        *)
(***************************************************************************)
EXTENDS Naturals, Sequences

CONSTANTS
  ServerVersions,  \* versions servers announce; 0 for one that is not RFB
  SecurityTypes,   \* security types servers offer
  VeNCryptTypes,   \* sub types servers of VeNCrypt offer
  VeNCryptVersions,\* major * 100 + minor
  MaxTypes         \* bound: types in a list

\* Types of a list are bytes, and these are none.
ASSUME HandshakeAssumption ==
  /\ ServerVersions \subseteq Nat /\ VeNCryptVersions \subseteq Nat /\ MaxTypes \in Nat
  /\ SecurityTypes \cap {"MSLogon", "TLSVNC", "X509VNC"} = {}

VARIABLES
  at,            \* what the client reads next, "ask" (the user), "connected", "failed"
  layer,         \* "plain", or "tls" once client->tlsSession is established
  version,       \* client->major and minor
  authScheme, subAuthScheme,
  left,          \* types of a list still to be read
  messages,      \* supportedMessages: "default", "ultra" or "tight"
  answer,        \* history: what the user answered to the last question
  toClient, toServer,
  serverVersion, \* what the server announced
  serverAt,      \* what the server reads next, "done" or "closed"
  serverLayer,
  spoken,        \* the version it goes by
  offered, subOffered,  \* history: the lists it sent
  settled, subSettled   \* the types it goes by

client == <<at, layer, version, authScheme, subAuthScheme, left, messages, answer>>
offers == <<offered, subOffered>>
server == <<serverVersion, serverAt, serverLayer, spoken, offers, settled, subSettled>>
handshakeVars == <<client, toClient, toServer, server>>

Lists(types) == UNION {[1 .. k -> types] : k \in 1 .. MaxTypes}

\* What an authentication needs once it has been chosen.
Free == {"None", "TLSNone", "X509None"}
Challenged == {"VncAuth", "TLSVNC", "X509VNC", "ARD", "MSLogon"}
Plain == {"Plain", "TLSPlain", "X509Plain"}
Unencrypted == {"None", "VncAuth", "Plain"}
WithCertificate == {"X509None", "X509VNC", "X509Plain"}
SubTypes == (Free \cup Plain \cup Challenged) \ {"ARD", "MSLogon"}

Message(kind, value, l) == <<[kind |-> kind, value |-> value, layer |-> l]>>
Bare(kind, l) == Message(kind, kind, l)

HandshakeInit ==
  /\ at = "version" /\ layer = "plain" /\ version = 0
  /\ authScheme = "unset" /\ subAuthScheme = "unset"
  /\ left = 0 /\ messages = "default" /\ answer = "unasked"
  /\ serverVersion \in ServerVersions
  /\ toClient = Message("version", serverVersion, "plain") /\ toServer = <<>>
  /\ serverAt = "version" /\ serverLayer = "plain" /\ spoken = 0
  /\ offered = <<>> /\ subOffered = <<>>
  /\ settled = "unset" /\ subSettled = "unset"

(***************************************************************************)
(* The client                                                              *)
(***************************************************************************)
\* ReadFromRFBServer() of the next thing the client expects.
Reads(kind) ==
  /\ at = kind /\ toClient # <<>>
  /\ Head(toClient).kind = kind /\ Head(toClient).layer = layer
  /\ toClient' = Tail(toClient)

Received == Head(toClient).value

\* Where a decision leaves the client: what it says, and what it reads next.
Goes(step, said) == at' = step.at /\ toServer' = toServer \o said \o step.says
Waits(kind) == [at |-> kind, says |-> <<>>]
Fails == Waits("failed")
ClientInit == [at |-> "serverInit", says |-> Bare("clientInit", layer)]

\* Mutant: the version is capped at 3.8 before the legacy versions are told apart.
ReplyToCapped(v) == IF v > 3008 THEN 3008 ELSE v

\* Mutant: versions above 3.8 are answered with themselves.
ReplyToAny(v) == IF v \in {3014, 3016} THEN v - 10 ELSE v

\* 3.14 and 3.16 are UltraVNC Single Click, which speaks 3.4 and 3.6.
ReplyTo(v) ==
  IF v \in {3014, 3016} THEN v - 10 ELSE IF v > 3008 THEN 3008 ELSE v

\* DefaultSupportedMessages() and its UltraVNC and TightVNC variants.
Detected(v) ==
  IF v \in {3004, 3006, 3014, 3016} THEN "ultra"
  ELSE IF v = 3005 THEN "tight" ELSE "default"

ReadVersion ==
  /\ Reads("version")
  /\ IF Received = 0
     THEN Goes(Fails, <<>>) /\ UNCHANGED <<version, messages>>
     ELSE LET reply == ReplyTo(Received)
          IN  /\ version' = reply /\ messages' = Detected(Received)
              /\ Goes(Waits(IF reply > 3006 THEN "count" ELSE "scheme"),
                      Message("version", reply, layer))
  /\ UNCHANGED <<layer, authScheme, subAuthScheme, left, answer, server>>

\* Mutant: a security result is read after every authentication.
StartWithResult(t) ==
  CASE t = "None"     -> Waits("result")
    [] t \in Challenged /\ (layer = "tls" => t = "VncAuth") -> Waits("challenge")
    [] t = "TLS" /\ layer = "plain"      -> [at |-> "tls", says |-> Bare("tls", layer)]
    [] t = "VeNCrypt" /\ layer = "plain" -> Waits("veVersion")
    [] OTHER -> Fails

\* The switch on authScheme, and the one on subAuthScheme inside rfbTLS, which
\* knows fewer cases.  3.8 sends a result for NoAuth too.
Start(t) ==
  CASE t = "None"     -> IF version > 3007 THEN Waits("result") ELSE ClientInit
    [] t \in Challenged /\ (layer = "tls" => t = "VncAuth") -> Waits("challenge")
    [] t = "TLS" /\ layer = "plain"      -> [at |-> "tls", says |-> Bare("tls", layer)]
    [] t = "VeNCrypt" /\ layer = "plain" -> Waits("veVersion")
    [] OTHER -> Fails

ReadScheme ==
  /\ Reads("scheme")
  /\ authScheme' = Received
  /\ Goes(IF Received = "ConnFailed" THEN Waits("reason") ELSE Start(Received), <<>>)
  /\ UNCHANGED <<layer, version, subAuthScheme, left, messages, answer, server>>

ReadCount ==
  /\ Reads("count")
  /\ left' = Received
  /\ Goes(Waits(IF Received = 0 THEN "reason" ELSE "type"), <<>>)
  /\ UNCHANGED <<layer, version, authScheme, subAuthScheme, messages, answer, server>>

\* subAuth is TRUE for the list inside a TLS session.
Chosen == IF layer = "tls" THEN subAuthScheme ELSE authScheme
Supported(t) ==
  \/ t \in {"None", "VncAuth", "ARD"}
  \/ layer = "plain" /\ t \in {"TLS", "VeNCrypt"}

\* Mutant: the loop gives up at a type that is not supported.
SelectFirstOnly(t) ==
  IF Chosen = "unset" THEN IF Supported(t) THEN t ELSE "none" ELSE Chosen

Select(t) == IF Chosen = "unset" /\ Supported(t) THEN t ELSE Chosen

MessagesAfter(t) ==
  CASE t = "Ultra" -> "ultra" [] t = "Tight" -> "tight" [] OTHER -> messages

\* One turn of the loop of ReadSupportedSecurityType().  The first supported type
\* is answered at once; the rest of the list is still read.
ReadType ==
  /\ Reads("type")
  /\ LET t == Received
         chosen == Select(t)
         said == IF chosen # Chosen /\ chosen = t THEN Message("choice", t, layer) ELSE <<>>
     IN  /\ IF layer = "tls"
            THEN subAuthScheme' = chosen /\ UNCHANGED authScheme
            ELSE authScheme' = chosen /\ UNCHANGED subAuthScheme
         /\ messages' = MessagesAfter(t)
         /\ left' = left - 1
         /\ Goes(IF left > 1 THEN Waits("type") ELSE Start(chosen), said)
  /\ UNCHANGED <<layer, version, answer, server>>

\* GetPassword and GetCredential are called when their turn comes; nobody sends
\* anything meanwhile.
ReadChallenge ==
  /\ Reads("challenge") /\ Goes(Waits("ask"), <<>>)
  /\ UNCHANGED <<layer, version, authScheme, subAuthScheme, left, messages, answer, server>>

UserAnswers ==
  /\ at = "ask"
  /\ \E a \in {"right", "wrong", "none"} :
       /\ answer' = a
       /\ IF a = "none" THEN Goes(Fails, <<>>)
          ELSE Goes(Waits("result"), Message("response", a, layer))
  /\ UNCHANGED <<layer, version, authScheme, subAuthScheme, left, messages, toClient, server>>

\* rfbHandleAuthResult(): 3.8 gives a reason.
ReadResult ==
  /\ Reads("result")
  /\ Goes(CASE Received = "ok" -> ClientInit
            [] Received = "failed" /\ version = 3008 -> Waits("reason")
            [] OTHER -> Fails, <<>>)
  /\ UNCHANGED <<layer, version, authScheme, subAuthScheme, left, messages, answer, server>>

ReadReason ==
  /\ Reads("reason") /\ Goes(Fails, <<>>)
  /\ UNCHANGED <<layer, version, authScheme, subAuthScheme, left, messages, answer, server>>

ReadServerInit ==
  /\ Reads("serverInit")
  /\ Goes(IF Received = "nameTooLong" THEN Fails ELSE Waits("connected"), <<>>)
  /\ UNCHANGED <<layer, version, authScheme, subAuthScheme, left, messages, answer, server>>

\* HandleVeNCryptAuth(): the version is refused when both of its numbers are wrong.
ReadVeNCryptVersion ==
  /\ Reads("veVersion")
  /\ Goes(IF Received \div 100 # 0 /\ Received % 100 # 2 THEN Fails ELSE Waits("veStatus"),
          IF Received \div 100 # 0 /\ Received % 100 # 2 THEN <<>>
          ELSE Message("veVersion", Received, layer))
  /\ UNCHANGED <<layer, version, authScheme, subAuthScheme, left, messages, answer, server>>

ReadVeNCryptStatus ==
  /\ Reads("veStatus")
  /\ Goes(IF Received = "ok" THEN Waits("veCount") ELSE Fails, <<>>)
  /\ UNCHANGED <<layer, version, authScheme, subAuthScheme, left, messages, answer, server>>

ReadVeNCryptCount ==
  /\ Reads("veCount")
  /\ left' = Received
  /\ Goes(IF Received = 0 THEN Fails ELSE Waits("veType"), <<>>)
  /\ UNCHANGED <<layer, version, authScheme, subAuthScheme, messages, answer, server>>

\* Mutant: every supported type takes the place of the one before.
PreferLast(old, t) == IF t \in SubTypes THEN t ELSE old

\* "for security reasons, the encrypted type has a higher priority"
Prefer(old, t) ==
  IF t \in SubTypes /\ old \in Unencrypted \cup {"unset"} THEN t ELSE old

\* The switch on subAuthScheme inside rfbVeNCrypt: a result always follows.
StartSub(t) ==
  Waits(CASE t \in Free -> "result" [] t \in Challenged -> "challenge" [] OTHER -> "ask")

\* Mutant: TLS is started without waiting for the acknowledgement.
AfterChoiceUnacknowledged(t) ==
  IF t \in Unencrypted THEN StartSub(t)
  ELSE [at |-> "tls", says |-> Bare("tls", layer)]

\* Unencrypted sub types go straight on, the others are acknowledged.
AfterChoice(t) == IF t \in Unencrypted THEN StartSub(t) ELSE Waits("veAck")

\* One turn of the loop of ReadVeNCryptSecurityType(), answered at its end.
ReadVeNCryptType ==
  /\ Reads("veType")
  /\ LET chosen == Prefer(subAuthScheme, Received)
     IN  /\ subAuthScheme' = chosen
         /\ left' = left - 1
         /\ IF left > 1 THEN Goes(Waits("veType"), <<>>)
            ELSE IF chosen = "unset" THEN Goes(Fails, <<>>)
            ELSE Goes(AfterChoice(chosen), Message("veChoice", chosen, layer))
  /\ UNCHANGED <<layer, version, authScheme, messages, answer, server>>

\* The viewer's get_credential() has no X509 credentials to give.
ReadVeNCryptAck ==
  /\ Reads("veAck")
  /\ Goes(IF Received # "ok" \/ subAuthScheme \in WithCertificate THEN Fails
          ELSE [at |-> "tls", says |-> Bare("tls", layer)], <<>>)
  /\ UNCHANGED <<layer, version, authScheme, subAuthScheme, left, messages, answer, server>>

\* HandshakeTLS(): from here on both sides use the session.
HandshakeTLS ==
  /\ Reads("tls")
  /\ layer' = "tls"
  /\ Goes(IF authScheme = "TLS" THEN Waits("count") ELSE StartSub(subAuthScheme), <<>>)
  /\ UNCHANGED <<version, authScheme, subAuthScheme, left, messages, answer, server>>

Ended == at \in {"connected", "failed"}

\* End of file or an error on the socket, in a read or in a write.
ConnectionLost ==
  /\ serverAt = "closed" /\ ~Ended /\ at' = "failed"
  /\ UNCHANGED <<layer, version, authScheme, subAuthScheme, left, messages, answer,
                 toClient, toServer, server>>

Client ==
  \/ ReadVersion \/ ReadScheme \/ ReadCount \/ ReadType \/ ReadChallenge \/ UserAnswers
  \/ ReadResult \/ ReadReason \/ ReadServerInit
  \/ ReadVeNCryptVersion \/ ReadVeNCryptStatus \/ ReadVeNCryptCount \/ ReadVeNCryptType
  \/ ReadVeNCryptAck \/ HandshakeTLS \/ ConnectionLost

(***************************************************************************)
(* The server, external                                                    *)
(***************************************************************************)
Gets(kind) ==
  /\ serverAt = kind /\ toServer # <<>>
  /\ Head(toServer).kind = kind /\ Head(toServer).layer = serverLayer
  /\ toServer' = Tail(toServer)
  /\ UNCHANGED <<client, serverVersion>>

Got == Head(toServer).value

Sends(said, next) == toClient' = toClient \o said /\ serverAt' = next

Refusal(l) == IF spoken = 3008 THEN Message("result", "failed", l) \o Bare("reason", l)
              ELSE Message("result", "failed", l)

\* The version it goes by: its own unless the client asks for a lower one.
Own == IF serverVersion \in {3014, 3016} THEN serverVersion - 10
       ELSE IF serverVersion > 3008 THEN 3008 ELSE serverVersion
Lower(reply) == IF reply < Own THEN reply ELSE Own

TypeMessages(list, kind, l) ==
  [i \in 1 .. Len(list) |-> [kind |-> kind, value |-> list[i], layer |-> l]]

\* A type has been settled: the server starts it.
ServerStarts(t, said) ==
  CASE t = "None" -> Sends(IF spoken > 3007 THEN said \o Message("result", "ok", serverLayer)
                           ELSE said, "clientInit")
    [] t \in Challenged -> Sends(said \o Bare("challenge", serverLayer), "response")
    [] t = "TLS" -> Sends(said, "tls")
    [] t = "VeNCrypt" ->
         \E v \in VeNCryptVersions :
           Sends(said \o Message("veVersion", v, serverLayer), "veVersion")
    [] OTHER -> Sends(said, "closed")

SubStarts(t, said, l) ==
  CASE t \in Free -> Sends(said \o Message("result", "ok", l), "clientInit")
    [] t \in Challenged -> Sends(said \o Bare("challenge", l), "response")
    [] OTHER -> Sends(said, "response")

ServerVersionAgreed ==
  /\ Gets("version")
  /\ spoken' = Lower(Got)
  /\ IF Lower(Got) > 3006
     THEN /\ UNCHANGED settled
          /\ \/ /\ Sends(Message("count", 0, "plain") \o Bare("reason", "plain"), "closed")
                /\ UNCHANGED offered
             \/ \E list \in Lists(SecurityTypes) :
                  /\ Sends(Message("count", Len(list), "plain")
                             \o TypeMessages(list, "type", "plain"), "choice")
                  /\ offered' = list
     ELSE \/ /\ Sends(Message("scheme", "ConnFailed", "plain") \o Bare("reason", "plain"), "closed")
             /\ UNCHANGED <<settled, offered>>
          \/ \E t \in SecurityTypes \cup {"MSLogon"} :
               /\ ServerStarts(t, Message("scheme", t, "plain"))
               /\ settled' = t /\ offered' = <<t>>
  /\ UNCHANGED <<serverLayer, subOffered, subSettled>>

ServerGetsChoice ==
  /\ Gets("choice")
  /\ ServerStarts(Got, <<>>)
  /\ IF settled = "unset" THEN settled' = Got /\ UNCHANGED subSettled
     ELSE subSettled' = Got /\ UNCHANGED settled
  /\ UNCHANGED <<serverLayer, spoken, offers>>

ServerHandshakesTLS ==
  /\ Gets("tls")
  /\ serverLayer' = "tls"
  /\ LET hello == Bare("tls", "plain")
     IN  IF settled = "TLS"
         THEN \E list \in Lists(SecurityTypes) :
                /\ Sends(hello \o Message("count", Len(list), "tls")
                           \o TypeMessages(list, "type", "tls"), "choice")
                /\ subOffered' = list
         ELSE SubStarts(subSettled, hello, "tls") /\ UNCHANGED subOffered
  /\ UNCHANGED <<spoken, offered, settled, subSettled>>

ServerJudges ==
  /\ Gets("response")
  /\ \/ Got = "right" /\ Sends(Message("result", "ok", serverLayer), "clientInit")
     \/ Got = "wrong" /\ Sends(Refusal(serverLayer), "closed")
     \/ Got = "wrong" /\ Sends(Message("result", "tooMany", serverLayer), "closed")
  /\ UNCHANGED <<serverLayer, spoken, offers, settled, subSettled>>

ServerInit ==
  /\ Gets("clientInit")
  /\ \E name \in {"name", "nameTooLong"} :
       Sends(Message("serverInit", name, serverLayer), "done")
  /\ UNCHANGED <<serverLayer, spoken, offers, settled, subSettled>>

ServerOffersVeNCrypt ==
  /\ Gets("veVersion")
  /\ \/ Sends(Message("veStatus", "refused", "plain"), "closed") /\ UNCHANGED subOffered
     \/ \E list \in Lists(VeNCryptTypes) :
          /\ Sends(Message("veStatus", "ok", "plain") \o Message("veCount", Len(list), "plain")
                     \o TypeMessages(list, "veType", "plain"), "veChoice")
          /\ subOffered' = list
  /\ UNCHANGED <<serverLayer, spoken, offered, settled, subSettled>>

ServerGetsVeNCryptChoice ==
  /\ Gets("veChoice")
  /\ subSettled' = Got
  /\ IF Got \in Unencrypted THEN SubStarts(Got, <<>>, "plain")
     ELSE \/ Sends(Message("veAck", "ok", "plain"), "tls")
          \/ Sends(Message("veAck", "refused", "plain"), "closed")
  /\ UNCHANGED <<serverLayer, spoken, offers, settled>>

Server ==
  \/ ServerVersionAgreed \/ ServerGetsChoice \/ ServerHandshakesTLS \/ ServerJudges
  \/ ServerInit \/ ServerOffersVeNCrypt \/ ServerGetsVeNCryptChoice

ServerCloses ==
  /\ serverAt \notin {"closed", "done"} /\ serverAt' = "closed"
  /\ UNCHANGED <<client, toClient, toServer, serverVersion, serverLayer, spoken, offers,
                 settled, subSettled>>

HandshakeNext == Client \/ Server \/ ServerCloses

\* The client thread runs, the user answers when asked, and the server goes on or
\* closes: without readTimeout the client would wait for a silent one for ever.
HandshakeSpec ==
  /\ HandshakeInit /\ [][HandshakeNext]_handshakeVars
  /\ WF_handshakeVars(Client) /\ WF_handshakeVars(Server)

-------------------------------------------------------------------------------
HandshakeTypeOK ==
  /\ at \in {"version", "scheme", "count", "type", "challenge", "ask", "result", "reason",
             "serverInit", "veVersion", "veStatus", "veCount", "veType", "veAck", "tls",
             "connected", "failed"}
  /\ layer \in {"plain", "tls"} /\ serverLayer \in {"plain", "tls"}
  /\ left \in 0 .. MaxTypes /\ (at \in {"type", "veType"} => left > 0)
  /\ messages \in {"default", "ultra", "tight"}
  /\ \A i \in 1 .. Len(toClient) : toClient[i].layer \in {"plain", "tls"}

\* Neither side ever takes one message for another, or reads TLS records as plain
\* bytes: whatever is next on the channel is what its reader reads next, in every
\* version and for every list of types, the ones after the chosen one included.  HandshakeTypeOK
\* comes with it, as one conjunct.
InStep ==
  /\ HandshakeTypeOK
  /\ ~Ended /\ at # "ask" /\ toClient # <<>> =>
       Head(toClient).kind = at /\ Head(toClient).layer = layer
  /\ ~Ended /\ serverAt # "closed" /\ toServer # <<>> =>
       Head(toServer).kind = serverAt /\ Head(toServer).layer = serverLayer

\* What the last Ultra or Tight among the first k types of a list stands for.
NamedIn(list, k, default) ==
  LET named == {i \in 1 .. k : list[i] \in {"Ultra", "Tight"}}
      last == CHOOSE i \in named : \A j \in named : j <= i
  IN  IF named = {} THEN default ELSE IF list[last] = "Ultra" THEN "ultra" ELSE "tight"

\* The messages the server supports are those of the last Ultra or Tight type it has named
\* as a security type, before or after the chosen one, else that of its version.
MessagesOfServer ==
  LET first == NamedIn(offered, Len(offered), Detected(serverVersion))
  IN  IF settled = "TLS" THEN NamedIn(subOffered, Len(subOffered), first) ELSE first

\* When InitialiseRFBConnection() returns TRUE both sides go by the same version,
\* the same types and the same layer, nothing is left unread on the way, and
\* supportedMessages has what the server's version and types stand for.
Agreed ==
  at = "connected" =>
    /\ serverAt = "done" /\ toClient = <<>> /\ toServer = <<>>
    /\ version = spoken /\ authScheme = settled /\ subAuthScheme = subSettled
    /\ layer = serverLayer
    /\ messages = MessagesOfServer

\* The first bytes of TLS find nothing in front of them: what ReadFromRFBServer()
\* has read ahead into client->buf would be lost to the TLS library.
TLSFromCleanBuffer ==
  at = "tls" =>
    \A i \in 1 .. Len(toClient) : toClient[i].kind = "tls" \/ toClient[i].layer = "tls"

\* With VeNCrypt an encrypted sub type is chosen whenever one is offered, wherever
\* it stands in the list.
EncryptedWhenOffered ==
  /\ authScheme = "VeNCrypt"
  /\ at \in {"veAck", "tls", "challenge", "ask", "result", "serverInit", "connected"}
  /\ \E i \in 1 .. Len(subOffered) :
       subOffered[i] \in SubTypes \ Unencrypted
  => subAuthScheme \notin Unencrypted

Offers(list, types) == \E i \in 1 .. Len(list) : list[i] \in types

\* The client only gives up for a reason: the server has refused or closed, is not
\* RFB, or offers nothing the client can do; the user gives no password; or one of
\* two choices it cannot carry through, credentials inside TLS and certificates.
FailsOnlyForReason ==
  at = "failed" =>
    \/ serverAt = "closed" \/ serverVersion = 0 \/ answer = "none"
    \/ serverAt = "done"      \* the name was too long
    \/ ~Offers(offered, Challenged \cup {"None", "TLS", "VeNCrypt"})
    \/ settled = "TLS" /\ (~Offers(subOffered, {"None", "VncAuth"}) \/ subAuthScheme = "ARD")
    \/ settled = "VeNCrypt" /\ \/ serverAt = "veVersion"
                               \/ ~Offers(subOffered, SubTypes)
                               \/ subAuthScheme \in WithCertificate

\* The handshake ends, with or without a connection: the two sides never wait for
\* each other.
HandshakeEnds == <>Ended
===============================================================================
