---------------------------- MODULE SessionProofs ----------------------------
(***************************************************************************)
(* For any keyboard and any number of sessions: client structures are      *)
(* freed once, what the server holds for pressed is accounted for, and the *)
(* sound is the one chosen.  The induction is on ViewerInv.                *)
(*                                                                         *)
(* For any versions, and lists of types of any length: the two sides of a  *)
(* handshake never take one message for another and agree when it is over, *)
(* and the client only gives up for a reason.  The induction is on         *)
(* HandshakeInv, which says of every state what is on its way in each      *)
(* direction; Memory and Why are then inductive beside it.                 *)
(***************************************************************************)
EXTENDS Viewer, Handshake, TLAPS

\* A letter that has lost the keysym it went down with is not released when its key
\* comes up: it is missed from the moment it loses it.
LettersMissed == Untold(held, game_relmode) \subseteq missed

\* What the next pointer event will press is held, or missed already.
MaskAccountedFor == buttonMask \subseteq held \cup missed

\* The audio engine is as main() finds it until the first session is offered audio.
EngineUnused ==
  /\ pc # "get" => clients[1] # "unused"
  /\ clients[1] = "unused" \/ (pc = "init" /\ cl = 1) => ~audioEngineState
  /\ pc = "loop" /\ cl = 1 /\ ~Offered /\ ~early => ~audioEngineState

\* Sound comes after an offer, and nothing is asked for against the checkbox.
SoundAsked ==
  pc = "loop" /\ ~early =>
    /\ sound => Offered
    /\ audio \in {"asked", "askedAgain"} => isAudioEnabled

\* TypeOK, by groups of variables.
SessionTypes ==
  /\ listenLoop \in BOOLEAN /\ viewOnly \in BOOLEAN /\ args \in {"given", "purged"}
  /\ pc \in {"get", "init", "loop", "exit"} /\ cl \in {0} \cup Clients
  /\ clients \in [Clients -> {"unused", "live", "freed", "freedTwice"}]
  /\ options \in {"default", "given"} /\ window \in {"none", "open", "closed"}
  /\ abandoned \subseteq Clients
MenuTypes ==
  ui_show \in BOOLEAN /\ game_relmode \in BOOLEAN /\ (viewOnly => ~ui_show)
InputTypes ==
  /\ buttonMask \subseteq Buttons \ Wheel /\ altKeyDown \subseteq Alts
  /\ held \subseteq Keys \cup Buttons /\ down \subseteq KeySyms \cup Buttons
  /\ missed \subseteq KeySyms \cup Buttons
AudioTypes ==
  /\ isAudioEnabled \in BOOLEAN /\ audioEngineState \in BOOLEAN
  /\ audio \in {"none", "asked", "offered", "askedAgain"} /\ sound \in BOOLEAN /\ early \in BOOLEAN

InputInv == HeldUnlessMissed /\ LettersMissed /\ MaskAccountedFor /\ InputTracked

ViewerInv == ClientsAccountedFor /\ InputInv /\ SoundAsChosen /\ SoundAsked /\ EngineUnused

-------------------------------------------------------------------------------
(* Types and client structures. *)

\* Keys, buttons, capitals and the letter of a lost keysym are told apart.
LEMMA Distinct ==
  /\ Keys \cap Buttons = {} /\ Letters \cap Alts = {}
  /\ {"ctrl", "shift"} \cap (Letters \cup Alts \cup Buttons) = {}
  /\ Capitals \cap (Keys \cup Buttons) = {}
  /\ NoSymbol \notin KeySyms \cup Buttons
  /\ 1 \in Clients /\ 0 \notin Clients
<1>1. 1 \in Clients /\ 0 \notin Clients
  BY ViewerAssumption DEF Clients
<1>2. Keys \cap Buttons = {} /\ {"ctrl", "shift"} \cap Buttons = {}
  BY ViewerAssumption DEF Keys, Buttons
<1>3. Letters \cap Alts = {} /\ {"ctrl", "shift"} \cap (Letters \cup Alts) = {}
  BY ViewerAssumption
<1>4. Capitals \cap (Keys \cup Buttons) = {}
  BY ViewerAssumption DEF Keys, Buttons
<1>5. NoSymbol \notin KeySyms \cup Buttons
  BY ViewerAssumption DEF Keys, KeySyms, Buttons, NoSymbol
<1> QED
  BY <1>1, <1>2, <1>3, <1>4, <1>5

\* ucsToUpper() maps letters to capitals.
LEMMA Uppers == ASSUME NEW k \in Letters PROVE Upper[k] \in Capitals
<1>1. \E f \in [Letters -> Capitals] : \A a, b \in Letters : f[a] = f[b] => a = b
  BY ViewerAssumption
<1>2. Upper \in [Letters -> Capitals]
  BY <1>1, Zenon DEF Upper
<1> QED
  BY <1>2

\* Keys and buttons stand for themselves on the server, letters for capitals, too.
LEMMA SymbolSets ==
  /\ \A k \in Letters : k \in Symbols(k) /\ Symbols(k) \subseteq {k} \cup Capitals
  /\ \A k \in Keys \cup Buttons : k \notin Letters => Symbols(k) = {k}
<1>1. ASSUME NEW k \in Letters PROVE k \in Symbols(k) /\ Symbols(k) \subseteq {k} \cup Capitals
  BY Uppers DEF Symbols
<1>2. ASSUME NEW k, k \notin Letters PROVE Symbols(k) = {k}
  BY <1>2 DEF Symbols
<1> QED
  BY <1>1, <1>2

\* The keysym of a key is one of its symbols or none, and no other of them is any
\* key's at the moment.
LEMMA KeySymbol ==
  ASSUME NEW k \in Keys, NEW keys
  PROVE  /\ KeySym(k, keys) \in Symbols(k) \cup {NoSymbol}
         /\ KeySym(k, keys) \notin Silent(keys, game_relmode)
         /\ Symbols(k) \subseteq {KeySym(k, keys)} \cup Silent(keys, game_relmode)
         /\ k \notin Letters => KeySym(k, keys) = k
<1>1. CASE k \notin Letters
  <2>1. KeySym(k, keys) = k /\ Symbols(k) = {k}
    BY <1>1, SymbolSets DEF KeySym
  <2>2. k \notin Letters \cup Capitals
    BY <1>1, Distinct
  <2> QED
    BY <1>1, <2>1, <2>2 DEF Silent
<1>2. CASE k \in Letters
  <2>1. k \notin Capitals /\ NoSymbol \notin Letters \cup Capitals
    BY <1>2, Distinct DEF Keys, KeySyms
  <2>2. Upper[k] \in Capitals /\ Symbols(k) = {k, Upper[k]}
    BY <1>2, Uppers DEF Symbols
  <2>3. Upper[k] \notin Letters
    BY <2>2, Distinct DEF Keys
  <2>4. CASE AsTyped(keys, game_relmode)
    <3>1. ~Raised(keys, game_relmode)
      BY <2>4 DEF AsTyped, Raised
    <3>2. KeySym(k, keys) = k /\ Silent(keys, game_relmode) = Capitals
      BY <2>4, <3>1 DEF KeySym, Silent
    <3> QED
      BY <1>2, <2>1, <2>2, <3>2
  <2>5. CASE ~AsTyped(keys, game_relmode) /\ Raised(keys, game_relmode)
    <3>1. KeySym(k, keys) = Upper[k] /\ Silent(keys, game_relmode) = Letters
      BY <1>2, <2>5 DEF KeySym, Silent
    <3> QED
      BY <1>2, <2>2, <2>3, <3>1
  <2>6. CASE ~AsTyped(keys, game_relmode) /\ ~Raised(keys, game_relmode)
    <3>1. KeySym(k, keys) = NoSymbol /\ Silent(keys, game_relmode) = Letters \cup Capitals
      BY <1>2, <2>6 DEF KeySym, Silent
    <3> QED
      BY <1>2, <2>1, <2>2, <3>1
  <2> QED
    BY <2>4, <2>5, <2>6
<1> QED
  BY <1>1, <1>2

\* rfbClientCleanup() on the structure in use frees it, and no other.
LEMMA Cleanup ==
  ASSUME ClientsAccountedFor, pc \in {"init", "loop"}
  PROVE  /\ cl \in Clients /\ cl \notin abandoned /\ clients[cl] = "live"
         /\ Freed(cl) = [clients EXCEPT ![cl] = "freed"]
<1>1. cl \in {c \in Clients : clients[c] = "live"}
  BY DEF ClientsAccountedFor
<1> QED
  BY <1>1 DEF ClientsAccountedFor, TypeOK, Freed

\* The groups make up TypeOK.
LEMMA TypeGroups == TypeOK <=> SessionTypes /\ MenuTypes /\ InputTypes /\ AudioTypes
  BY DEF TypeOK, SessionTypes, MenuTypes, InputTypes, AudioTypes

\* A session leaves its structure freed, or abandoned by a quit in the menu.
LEMMA SessionsStep ==
  ASSUME ClientsAccountedFor, Sessions PROVE ClientsAccountedFor'
<1> USE DEF commandLine, session, input, audioState
<1>1. SessionTypes /\ MenuTypes /\ InputTypes /\ AudioTypes
  BY TypeGroups DEF ClientsAccountedFor
<1>2. ASSUME SessionTypes', UNCHANGED <<viewOnly, input, audioState>> PROVE TypeOK'
  <2>1. MenuTypes' /\ InputTypes' /\ AudioTypes'
    BY <1>1, <1>2 DEF MenuTypes, InputTypes, AudioTypes
  <2> QED
    BY <1>2, <2>1 DEF TypeOK, SessionTypes, MenuTypes, InputTypes, AudioTypes
<1>3. CASE GetClient
  <2>1. PICK c \in Clients : clients[c] = "unused" /\ cl' = c /\ clients' = [clients EXCEPT ![c] = "live"]
    BY <1>3 DEF GetClient
  <2>2. SessionTypes'
    BY <1>1, <1>3, <2>1 DEF GetClient, SessionTypes
  <2>3. TypeOK'
    BY <1>2, <1>3, <2>2 DEF GetClient
  <2>4. /\ pc = "get" /\ pc' = "init" /\ abandoned' = abandoned
    BY <1>3 DEF GetClient
  <2>5. clients \in [Clients -> {"unused", "live", "freed", "freedTwice"}]
    BY <1>1 DEF SessionTypes
  <2>6. {d \in Clients : clients'[d] = "live"} = {d \in Clients : clients[d] = "live"} \cup {c}
    BY <2>1, <2>5
  <2>7. {d \in Clients : clients[d] = "live"} = abandoned
    BY <2>4 DEF ClientsAccountedFor
  <2>8. c \notin abandoned /\ clients'[c] = "live" /\ \A d \in Clients : clients'[d] # "freedTwice"
    BY <2>1, <2>5, <2>7 DEF ClientsAccountedFor
  <2> QED
    BY <2>1, <2>3, <2>4, <2>6, <2>7, <2>8 DEF ClientsAccountedFor
<1>4. CASE Connected
  <2>1. /\ pc = "init" /\ pc' = "loop" /\ UNCHANGED <<commandLine, cl, clients, options, abandoned>>
        /\ window' \in {window, "open"}
    BY <1>4 DEF Connected
  <2>2. SessionTypes'
    BY <1>1, <2>1 DEF SessionTypes
  <2>3. MenuTypes' /\ InputTypes' /\ AudioTypes'
    BY <1>1, <1>4 DEF Connected, MenuTypes, InputTypes, AudioTypes
  <2>4. TypeOK'
    BY <2>2, <2>3 DEF TypeOK, SessionTypes, MenuTypes, InputTypes, AudioTypes
  <2> QED
    BY <2>1, <2>4 DEF ClientsAccountedFor
<1>5. CASE InitFails \/ \E quit \in BOOLEAN : EndSession(quit)
  <2>1. /\ pc \in {"init", "loop"} /\ pc' \in {"get", "exit"}
        /\ clients' = Freed(cl) /\ abandoned' = abandoned
        /\ cl' = 0 \/ cl' = cl
        /\ window' = window \/ window' = WindowClosed
        /\ UNCHANGED <<commandLine, options, input, audioState>>
    BY <1>5 DEF InitFails, EndSession, After
  <2>2. cl \in Clients /\ cl \notin abandoned /\ clients' = [clients EXCEPT ![cl] = "freed"]
    BY <2>1, Cleanup
  <2>3. SessionTypes'
    BY <1>1, <2>1, <2>2 DEF WindowClosed, SessionTypes
  <2>4. TypeOK'
    BY <1>2, <2>1, <2>3
  <2>5. clients \in [Clients -> {"unused", "live", "freed", "freedTwice"}]
    BY <1>1 DEF SessionTypes
  <2>6. {c \in Clients : clients'[c] = "live"} = {c \in Clients : clients[c] = "live"} \ {cl}
    BY <2>2, <2>5
  <2>7. {c \in Clients : clients[c] = "live"} = abandoned \cup {cl}
    BY <2>1 DEF ClientsAccountedFor
  <2>8. \A c \in Clients : clients'[c] # "freedTwice"
    BY <2>2, <2>5 DEF ClientsAccountedFor
  <2> QED
    BY <2>1, <2>2, <2>4, <2>6, <2>7, <2>8 DEF ClientsAccountedFor
<1>6. CASE QuitInMenu
  <2>1. cl \in Clients
    BY <1>6, Cleanup DEF QuitInMenu
  <2>2. SessionTypes'
    BY <1>1, <1>6, <2>1 DEF QuitInMenu, After, SessionTypes
  <2>3. TypeOK'
    BY <1>2, <1>6, <2>2 DEF QuitInMenu
  <2> QED
    BY <1>6, <2>3 DEF QuitInMenu, After, ClientsAccountedFor
<1> QED
  BY <1>3, <1>4, <1>5, <1>6 DEF Sessions

\* Events and sound leave the structures alone.
LEMMA EventsStep ==
  ASSUME ClientsAccountedFor, Events \/ Sound \/ UNCHANGED vars
  PROVE  ClientsAccountedFor'
<1> USE DEF commandLine, session, input, audioState
<1>1. SessionTypes /\ MenuTypes /\ InputTypes /\ AudioTypes
  BY TypeGroups DEF ClientsAccountedFor
<1>2. UNCHANGED <<listenLoop, viewOnly, args, session>>
  BY Zenon DEF Events, Sound, vars, KeyDown, KeyUp, TextInput, ButtonDown, ButtonUp, PointerEvent, Motion,
         MouseWheel, PressUnseen, ReleaseUnseen, FocusLost, Menu, ToggleGameMode, AudioOffer,
         SetFormatAndEncodings, ToggleAudio, Unmoved, AudioUnmoved
<1>3. SessionTypes'
  BY <1>1, <1>2 DEF SessionTypes
<1>4. ASSUME Events PROVE TypeOK'
  <2>1. MenuTypes'
    <3>1. CASE Menu
      BY <1>1, <3>1 DEF Menu, InSession, InMenu, MenuTypes
    <3>2. CASE ToggleGameMode
      BY <1>1, <3>2 DEF ToggleGameMode, MenuTypes
    <3>3. CASE UNCHANGED <<ui_show, game_relmode, viewOnly>>
      BY <1>1, <3>3 DEF MenuTypes
    <3> QED
      BY <1>4, <3>1, <3>2, <3>3, Zenon
         DEF Events, KeyDown, KeyUp, TextInput, ButtonDown, ButtonUp, PointerEvent, Motion,
             MouseWheel, PressUnseen, ReleaseUnseen, FocusLost, Unmoved
  <2>2. AudioTypes'
    <3>1. UNCHANGED audioState
      BY <1>4, Zenon
         DEF Events, KeyDown, KeyUp, TextInput, ButtonDown, ButtonUp, PointerEvent, Motion,
             MouseWheel, PressUnseen, ReleaseUnseen, FocusLost, Unmoved, Menu, ToggleGameMode
    <3> QED
      BY <1>1, <3>1 DEF AudioTypes
  <2>3. InputTypes'
    <3> USE <1>1 DEF InputTypes
    <3>1. ASSUME NEW k \in Keys, KeyDown(k) \/ KeyUp(k) PROVE InputTypes'
      <4>1. Symbols(k) \subseteq KeySyms
        BY SymbolSets, Distinct DEF KeySyms, Keys
      <4>2. /\ down' \subseteq down \cup ({KeySym(k, held')} \ {NoSymbol})
            /\ missed' \subseteq missed \cup down
        BY <3>1 DEF KeyDown, KeyUp, Untold
      <4>3. held' \subseteq held \cup {k} /\ buttonMask' = buttonMask
        BY <3>1 DEF KeyDown, KeyUp
      <4>4. altKeyDown' \subseteq altKeyDown \cup ({k} \cap Alts)
        BY <3>1 DEF KeyDown, KeyUp
      <4>5. down' \subseteq down \cup Symbols(k)
        BY <4>2, KeySymbol
      <4> QED
        BY <4>1, <4>2, <4>3, <4>4, <4>5
    <3>2. ASSUME NEW c \in Letters \cup Capitals, TextInput(c) PROVE InputTypes'
      BY <3>2 DEF TextInput
    <3>3. ASSUME NEW mask \in SUBSET Buttons, PointerEvent(mask), held' \subseteq held \cup Buttons
          PROVE  InputTypes'
      BY <3>3 DEF PointerEvent, WithButtons
    <3>4. ASSUME NEW b \in Buttons, ButtonDown(b) \/ ButtonUp(b) PROVE InputTypes'
      <4>1. buttonMask \cup {b} \in SUBSET Buttons /\ buttonMask \ {b} \in SUBSET Buttons
        OBVIOUS
      <4> QED
        BY <3>3, <3>4, <4>1 DEF ButtonDown, ButtonUp
    <3>5. CASE Motion
      BY <3>3, <3>5 DEF Motion
    <3>6. CASE MouseWheel
      BY <3>6 DEF MouseWheel, WithButtons
    <3>7. ASSUME NEW k \in Keys \cup Buttons, PressUnseen(k) \/ ReleaseUnseen(k) PROVE InputTypes'
      <4>1. held' \subseteq held \cup {k} /\ missed' \subseteq missed \cup down \cup buttonMask
        BY <3>7 DEF PressUnseen, ReleaseUnseen, Untold
      <4>2. UNCHANGED <<down, buttonMask, altKeyDown>>
        BY <3>7 DEF PressUnseen, ReleaseUnseen
      <4> QED
        BY <4>1, <4>2
    <3>8. CASE FocusLost
      BY <3>8 DEF FocusLost
    <3>9. CASE Menu
      BY <3>9 DEF Menu
    <3>10. CASE ToggleGameMode
      BY <3>10 DEF ToggleGameMode, Untold
    <3> QED
      BY <1>4, <3>1, <3>2, <3>4, <3>5, <3>6, <3>7, <3>8, <3>9, <3>10 DEF Events
  <2> QED
    BY <1>3, <2>1, <2>2, <2>3 DEF TypeOK, SessionTypes, MenuTypes, InputTypes, AudioTypes
<1>5. ASSUME Sound \/ UNCHANGED vars PROVE TypeOK'
  <2>1. UNCHANGED <<viewOnly, input>>
    BY <1>5, Zenon DEF Sound, vars, AudioOffer, SetFormatAndEncodings, ToggleAudio, AudioUnmoved
  <2>2. MenuTypes' /\ InputTypes'
    BY <1>1, <2>1 DEF MenuTypes, InputTypes
  <2>3. AudioTypes'
    BY <1>1, <1>5 DEF Sound, vars, AudioOffer, SetFormatAndEncodings, ToggleAudio, AudioUnmoved, AudioTypes
  <2> QED
    BY <1>3, <2>2, <2>3 DEF TypeOK, SessionTypes, MenuTypes, InputTypes, AudioTypes
<1>6. TypeOK'
  BY <1>4, <1>5
<1> QED
  BY <1>2, <1>6 DEF ClientsAccountedFor

-------------------------------------------------------------------------------
(* Keys and buttons. *)

\* A key that comes up is released on the server or missed there already.
LEMMA KeyStep ==
  ASSUME InputTypes, InputInv,
         \/ \E k \in Keys : KeyDown(k) \/ KeyUp(k)
         \/ \E c \in Letters \cup Capitals : TextInput(c)
  PROVE  InputInv'
<1> USE DEF InputInv, MaskAccountedFor, InputTracked, AltTracked, ButtonsTracked
<1>1. /\ \A x \in down : x \in missed \/ \E k \in held : x \in Symbols(k)
      /\ buttonMask \subseteq Buttons /\ held \subseteq Keys \cup Buttons
  BY DEF InputTypes, HeldUnlessMissed
<1>2. ASSUME NEW k \in Keys, KeyDown(k) PROVE InputInv'
  <2> DEFINE sym == KeySym(k, held')
  <2>1. /\ held' = held \cup {k} /\ buttonMask' = buttonMask /\ game_relmode' = game_relmode
        /\ altKeyDown' = altKeyDown \cup ({k} \cap Alts)
        /\ down' = down \cup ({sym} \ {NoSymbol})
        /\ missed' = (missed \ {sym}) \cup Untold(held', game_relmode)
    BY <1>2 DEF KeyDown, Unmoved
  <2>2. sym \in Symbols(k) \cup {NoSymbol} /\ sym \notin Silent(held', game_relmode)
    BY KeySymbol
  <2>3. Symbols(k) \subseteq {k} \cup Capitals
    BY SymbolSets
  <2> HIDE DEF sym
  <2>4. HeldUnlessMissed'
    <3>1. ASSUME NEW x \in down' PROVE x \in missed' \/ \E h \in held' : x \in Symbols(h)
      <4>1. CASE x = sym
        <5>1. x \in Symbols(k) /\ k \in held'
          BY <2>1, <2>2, <3>1, <4>1, <1>1, SymbolSets, Distinct DEF InputTypes
        <5> QED
          BY <5>1
      <4>2. CASE x # sym
        BY <1>1, <2>1, <4>2
      <4> QED
        BY <4>1, <4>2
    <3> QED
      BY <3>1 DEF HeldUnlessMissed
  <2>5. LettersMissed'
    BY <2>1, <2>2 DEF LettersMissed, Untold, Silent, AsTyped, Raised
  <2>6. MaskAccountedFor'
    BY <1>1, <2>1, <2>2, <2>3, Distinct DEF KeySyms
  <2>7. AltTracked' /\ ButtonsTracked'
    <3>1. down' \subseteq down \cup ({k} \cup Capitals)
      BY <2>1, <2>2, <2>3
    <3>2. Capitals \cap Alts = {} /\ Capitals \cap Buttons = {} /\ k \notin Buttons
      BY Distinct DEF Keys
    <3> QED
      BY <2>1, <3>1, <3>2
  <2> QED
    BY <2>4, <2>5, <2>6, <2>7
<1>3. ASSUME NEW k \in Keys, KeyUp(k) PROVE InputInv'
  <2> DEFINE sym == KeySym(k, held')
  <2>1. /\ held' = held \ {k} /\ buttonMask' = buttonMask /\ game_relmode' = game_relmode
        /\ altKeyDown' = altKeyDown \ {k}
        /\ down' = down \ {sym}
        /\ missed' = (missed \ {sym}) \cup Untold(held', game_relmode)
    BY <1>3 DEF KeyUp, Unmoved
  <2>2. /\ sym \in Symbols(k) \cup {NoSymbol}
        /\ Symbols(k) \subseteq {sym} \cup Silent(held', game_relmode)
        /\ k \notin Letters => sym = k
    BY KeySymbol
  <2>3. Symbols(k) \subseteq {k} \cup Capitals
    BY SymbolSets
  <2> HIDE DEF sym
  <2>4. HeldUnlessMissed'
    <3>1. ASSUME NEW x \in down' PROVE x \in missed' \/ \E h \in held' : x \in Symbols(h)
      <4>1. x \in down /\ x # sym
        BY <2>1
      <4>2. CASE x \in Symbols(k)
        BY <2>1, <2>2, <4>1, <4>2 DEF Untold
      <4>3. CASE x \notin Symbols(k)
        BY <1>1, <2>1, <4>1, <4>3
      <4> QED
        BY <4>2, <4>3
    <3> QED
      BY <3>1 DEF HeldUnlessMissed
  <2>5. LettersMissed'
    BY <2>1 DEF LettersMissed, Untold, Silent, AsTyped, Raised
  <2>6. MaskAccountedFor'
    BY <1>1, <2>1, <2>2, <2>3, Distinct DEF KeySyms
  <2>7. AltTracked'
    <3>1. k \in Alts => k \notin down'
      BY <2>1, <2>2, Distinct
    <3> QED
      BY <2>1, <3>1
  <2>8. ButtonsTracked'
    BY <2>1
  <2> QED
    BY <2>4, <2>5, <2>6, <2>7, <2>8
<1>4. ASSUME NEW c \in Letters \cup Capitals, TextInput(c) PROVE InputInv'
  <2>1. /\ down' = down \ {c} /\ missed' = missed \ {c}
        /\ UNCHANGED <<held, buttonMask, altKeyDown, game_relmode>>
    BY <1>4 DEF TextInput, Unmoved
  <2>2. c \notin Buttons
    BY Distinct DEF Keys
  <2>3. HeldUnlessMissed'
    BY <2>1 DEF HeldUnlessMissed
  <2>4. LettersMissed'
    BY <2>1 DEF LettersMissed, Untold, Silent, AsTyped, Raised
  <2>5. MaskAccountedFor' /\ InputTracked'
    BY <1>1, <2>1, <2>2
  <2> QED
    BY <2>3, <2>4, <2>5
<1> QED
  BY <1>2, <1>3, <1>4

\* A pointer event leaves no button pressed that is neither held nor missed.
LEMMA PointerStep ==
  ASSUME InputTypes, InputInv, Motion \/ MouseWheel \/ \E b \in Buttons : ButtonDown(b) \/ ButtonUp(b)
  PROVE  InputInv'
<1> USE DEF InputInv, MaskAccountedFor, InputTracked, AltTracked, ButtonsTracked
<1>1. /\ Letters \cap Buttons = {} /\ Alts \cap Buttons = {} /\ Capitals \cap Buttons = {}
      /\ "ctrl" \notin Buttons /\ "shift" \notin Buttons
  BY Distinct DEF Keys
<1>2. /\ \A x \in down : x \in missed \/ \E k \in held : x \in Symbols(k)
      /\ buttonMask \subseteq Buttons
      /\ \A b \in Buttons : Symbols(b) = {b}
  BY <1>1, SymbolSets DEF InputTypes, HeldUnlessMissed
<1>3. ASSUME NEW mask \in SUBSET Buttons, down' = (down \ Buttons) \cup mask,
             missed \ (Buttons \ mask) \subseteq missed', mask \subseteq held' \cup missed',
             held \ Buttons = held' \ Buttons, game_relmode' = game_relmode
      PROVE  HeldUnlessMissed' /\ LettersMissed'
  <2>1. HeldUnlessMissed'
    <3>1. ASSUME NEW x \in down' PROVE x \in missed' \/ \E h \in held' : x \in Symbols(h)
      <4>1. CASE x \in mask
        BY <1>2, <1>3, <4>1
      <4>2. CASE x \notin mask
        <5>1. x \in down /\ x \notin Buttons
          BY <1>3, <4>2
        <5>2. CASE x \in missed
          BY <1>3, <5>1, <5>2
        <5>3. ASSUME NEW k \in held, x \in Symbols(k) PROVE \E h \in held' : x \in Symbols(h)
          <6>1. k \notin Buttons
            BY <1>2, <5>1, <5>3
          <6> QED
            BY <1>3, <5>3, <6>1
        <5> QED
          BY <1>2, <5>1, <5>2, <5>3
      <4> QED
        BY <4>1, <4>2
    <3> QED
      BY <3>1 DEF HeldUnlessMissed
  <2>2. LettersMissed'
    <3>1. ("ctrl" \in held' <=> "ctrl" \in held) /\ ("shift" \in held' <=> "shift" \in held)
      BY <1>1, <1>3
    <3>2. Silent(held', game_relmode') = Silent(held, game_relmode)
      BY <1>3, <3>1 DEF Silent, AsTyped, Raised
    <3>3. Silent(held, game_relmode) \cap Buttons = {}
      BY <1>1 DEF Silent
    <3>4. down \cap Silent(held, game_relmode) \subseteq missed
      BY DEF LettersMissed, Untold
    <3>5. down' \cap Silent(held', game_relmode') \subseteq missed'
      BY <1>3, <3>2, <3>3, <3>4
    <3>6. LettersMissed' <=> down' \cap Silent(held', game_relmode') \subseteq missed'
      BY DEF LettersMissed, Untold, Silent, AsTyped, Raised
    <3> QED
      BY <3>5, <3>6
  <2> QED
    BY <2>1, <2>2
<1>4. ASSUME NEW mask \in SUBSET Buttons, PointerEvent(mask), mask \subseteq held' \cup missed,
             held \ Buttons = held' \ Buttons
      PROVE  InputInv'
  <2>1. /\ down' = (down \ Buttons) \cup mask /\ buttonMask' = mask \ Wheel
        /\ missed' = missed \ (Buttons \ mask)
        /\ UNCHANGED <<game_relmode, altKeyDown>>
    BY <1>4 DEF PointerEvent, WithButtons, Unmoved
  <2>2. HeldUnlessMissed' /\ LettersMissed'
    BY <1>3, <1>4, <2>1
  <2>3. MaskAccountedFor'
    BY <1>4, <2>1
  <2>4. AltTracked' /\ ButtonsTracked'
    BY <1>1, <1>4, <2>1
  <2> QED
    BY <2>2, <2>3, <2>4
<1>5. ASSUME NEW b \in Buttons, ButtonDown(b) PROVE InputInv'
  <2>1. buttonMask \cup {b} \in SUBSET Buttons
    BY <1>2
  <2> QED
    BY <1>4, <1>5, <2>1 DEF ButtonDown
<1>6. ASSUME NEW b \in Buttons, ButtonUp(b) PROVE InputInv'
  <2>1. buttonMask \ {b} \in SUBSET Buttons
    BY <1>2
  <2> QED
    BY <1>4, <1>6, <2>1 DEF ButtonUp
<1>7. CASE Motion
  BY <1>2, <1>4, <1>7 DEF Motion
<1>8. CASE MouseWheel
  <2>1. /\ down' = (down \ Buttons) \cup {} /\ missed' = missed \ (Buttons \ buttonMask)
        /\ UNCHANGED <<held, buttonMask, altKeyDown, game_relmode>>
    BY <1>8 DEF MouseWheel, WithButtons, Unmoved
  <2>2. missed \ (Buttons \ {}) \subseteq missed' /\ {} \in SUBSET Buttons
    BY <2>1
  <2>3. HeldUnlessMissed' /\ LettersMissed'
    BY <1>3, <2>1, <2>2
  <2>4. MaskAccountedFor' /\ InputTracked'
    BY <1>1, <2>1
  <2> QED
    BY <2>3, <2>4
<1> QED
  BY <1>5, <1>6, <1>7, <1>8

\* What the menu and the pauses between sessions take away is missed; what the
\* focus loses is released.
LEMMA OtherInputStep ==
  ASSUME InputTypes, InputInv,
         \/ FocusLost \/ Menu \/ ToggleGameMode \/ Sessions \/ Sound \/ UNCHANGED vars
         \/ \E k \in Keys \cup Buttons : PressUnseen(k) \/ ReleaseUnseen(k)
  PROVE  InputInv'
<1> USE DEF InputInv, MaskAccountedFor, InputTracked, AltTracked, ButtonsTracked
<1>1. /\ \A x \in down : x \in missed \/ \E k \in held : x \in Symbols(k)
      /\ buttonMask \subseteq Buttons /\ held \subseteq Keys \cup Buttons
  BY DEF InputTypes, HeldUnlessMissed
<1>2. ASSUME NEW k \in Keys \cup Buttons, PressUnseen(k) PROVE InputInv'
  <2>1. /\ held' = held \cup {k} /\ UNCHANGED <<down, buttonMask, altKeyDown, game_relmode>>
        /\ missed' = missed \cup Untold(held', game_relmode)
    BY <1>2 DEF PressUnseen, Unmoved
  <2>2. HeldUnlessMissed'
    BY <1>1, <2>1 DEF HeldUnlessMissed
  <2>3. LettersMissed'
    BY <2>1 DEF LettersMissed, Untold, Silent, AsTyped, Raised
  <2> QED
    BY <2>1, <2>2, <2>3
<1>3. ASSUME NEW k \in Keys \cup Buttons, ReleaseUnseen(k) PROVE InputInv'
  <2>1. /\ held' = held \ {k} /\ UNCHANGED <<down, buttonMask, altKeyDown, game_relmode>>
        /\ missed' = missed \cup (Symbols(k) \cap (down \cup buttonMask)) \cup Untold(held', game_relmode)
    BY <1>3 DEF ReleaseUnseen, Unmoved
  <2>2. missed \subseteq missed' /\ Symbols(k) \cap (down \cup buttonMask) \subseteq missed'
    BY <2>1
  <2>3. HeldUnlessMissed'
    <3>1. ASSUME NEW x \in down' PROVE x \in missed' \/ \E h \in held' : x \in Symbols(h)
      BY <1>1, <2>1, <2>2
    <3> QED
      BY <3>1 DEF HeldUnlessMissed
  <2>4. LettersMissed'
    BY <2>1 DEF LettersMissed, Untold, Silent, AsTyped, Raised
  <2>5. MaskAccountedFor' /\ InputTracked'
    <3>1. k \in Symbols(k)
      BY SymbolSets
    <3> QED
      BY <2>1, <2>2, <3>1
  <2> QED
    BY <2>3, <2>4, <2>5
<1>4. CASE FocusLost
  <2>1. /\ held \cap Keys \subseteq Alts
        /\ down' = down \ altKeyDown /\ altKeyDown' = {}
        /\ held' = held \ Keys /\ missed' = missed \ altKeyDown
        /\ UNCHANGED <<buttonMask, game_relmode>>
    BY <1>4 DEF FocusLost, Unmoved
  <2>2. /\ "ctrl" \in Keys /\ "shift" \in Keys /\ Letters \subseteq Keys /\ Alts \subseteq Keys
        /\ "ctrl" \notin Alts /\ "shift" \notin Alts
    BY Distinct DEF Keys
  <2>3. "ctrl" \notin held /\ "shift" \notin held
    BY <2>1, <2>2
  <2>4. HeldUnlessMissed'
    <3>1. ASSUME NEW x \in down' PROVE x \in missed' \/ \E h \in held' : x \in Symbols(h)
      <4>1. x \in down /\ x \notin altKeyDown
        BY <2>1
      <4>2. ASSUME NEW k \in held, x \in Symbols(k) PROVE k \notin Keys
        <5>1. SUFFICES ASSUME k \in Alts PROVE FALSE
          BY <2>1
        <5>2. x = k
          BY <4>2, <5>1, <2>2, SymbolSets, Distinct
        <5> QED
          BY <4>1, <5>1, <5>2
      <4> QED
        BY <1>1, <2>1, <4>1, <4>2
    <3> QED
      BY <3>1 DEF HeldUnlessMissed
  <2>5. LettersMissed'
    <3>1. "ctrl" \notin held' /\ "shift" \notin held'
      BY <2>1, <2>3
    <3> QED
      BY <2>1, <2>3, <3>1 DEF LettersMissed, Untold, Silent, AsTyped, Raised
  <2>6. MaskAccountedFor' /\ InputTracked'
    BY <1>1, <2>1, Distinct DEF InputTypes, Keys
  <2> QED
    BY <2>4, <2>5, <2>6
<1>5. CASE ToggleGameMode
  <2>1. /\ missed' = missed \cup Untold(held, game_relmode')
        /\ UNCHANGED <<buttonMask, altKeyDown, held, down>>
    BY <1>5 DEF ToggleGameMode
  <2>2. HeldUnlessMissed'
    BY <2>1 DEF HeldUnlessMissed
  <2>3. LettersMissed'
    BY <2>1 DEF LettersMissed, Untold, Silent, AsTyped, Raised
  <2> QED
    BY <2>1, <2>2, <2>3
<1>6. CASE Connected
  <2>1. /\ down' = {} /\ missed' = missed \cap buttonMask
        /\ UNCHANGED <<held, buttonMask, altKeyDown, game_relmode>>
    BY <1>6 DEF Connected
  <2>2. HeldUnlessMissed' /\ LettersMissed'
    BY <2>1 DEF HeldUnlessMissed, LettersMissed, Untold
  <2> QED
    BY <2>1, <2>2
<1>7. CASE Menu \/ Sound \/ UNCHANGED vars \/ GetClient \/ InitFails \/ QuitInMenu
           \/ \E quit \in BOOLEAN : EndSession(quit)
  <2>1. UNCHANGED <<game_relmode, buttonMask, altKeyDown, held, down, missed>>
    BY <1>7, Zenon DEF Menu, Sound, vars, AudioOffer, SetFormatAndEncodings, ToggleAudio, AudioUnmoved,
                GetClient, InitFails, QuitInMenu, EndSession, input
  <2>2. HeldUnlessMissed' /\ LettersMissed'
    BY <2>1 DEF HeldUnlessMissed, LettersMissed, Untold, Silent, AsTyped, Raised
  <2> QED
    BY <2>1, <2>2
<1> QED
  BY <1>2, <1>3, <1>4, <1>5, <1>6, <1>7 DEF Sessions

-------------------------------------------------------------------------------
(* Sound. *)

\* The first session finds the engine unused, and no later one is the first.
LEMMA SoundStep ==
  ASSUME ClientsAccountedFor, SoundAsChosen, SoundAsked, EngineUnused, [Next]_vars
  PROVE  SoundAsChosen' /\ SoundAsked' /\ EngineUnused'
<1> USE Distinct DEF SoundAsChosen, SoundAsked, EngineUnused, Offered, session, commandLine, audioState
<1>1. /\ clients \in [Clients -> {"unused", "live", "freed", "freedTwice"}]
      /\ isAudioEnabled \in BOOLEAN /\ audioEngineState \in BOOLEAN /\ sound \in BOOLEAN
      /\ early \in BOOLEAN
  BY DEF ClientsAccountedFor, TypeOK
<1>2. CASE GetClient
  <2>1. PICK c \in Clients :
          /\ clients[c] = "unused" /\ \A b \in Clients : b < c => clients[b] # "unused"
          /\ cl' = c /\ clients' = [clients EXCEPT ![c] = "live"]
    BY <1>2 DEF GetClient
  <2>2. pc' = "init" /\ UNCHANGED audioState
    BY <1>2 DEF GetClient
  <2>3. clients'[1] # "unused"
    <3>1. 1 \in Clients /\ (c # 1 => 1 < c)
      BY DEF Clients
    <3>2. \A b \in Clients : b < c => clients[b] # "unused"
      BY <2>1
    <3>3. c = 1 \/ clients[1] # "unused"
      BY <3>1, <3>2
    <3> QED
      BY <1>1, <2>1, <3>1, <3>3
  <2>4. cl' = 1 => ~audioEngineState
    BY <2>1
  <2> QED
    BY <2>2, <2>3, <2>4
<1>3. CASE Connected
  BY <1>1, <1>3 DEF Connected
<1>4. CASE InitFails \/ QuitInMenu \/ \E quit \in BOOLEAN : EndSession(quit)
  <2>1. pc \in {"init", "loop"} /\ pc' \in {"get", "exit"} /\ clients' \in {clients, Freed(cl)}
        /\ UNCHANGED audioState
    BY <1>4 DEF InitFails, QuitInMenu, EndSession, After
  <2>2. clients'[1] # "unused"
    BY <1>1, <2>1, Cleanup
  <2> QED
    BY <2>1, <2>2
<1>5. CASE AudioOffer
  <2>1. /\ pc = "loop" /\ audio \in {"asked", "askedAgain"} /\ audio' = "offered"
        /\ UNCHANGED <<pc, cl, clients, isAudioEnabled, early>>
    BY <1>5 DEF AudioOffer, AudioUnmoved
  <2>2. CASE ~audioEngineState /\ audioEngineState' = TRUE /\ sound' = TRUE
    BY <2>1, <2>2
  <2>3. CASE UNCHANGED <<audioEngineState, sound>>
    <3>1. SoundAsked' /\ EngineUnused'
      BY <2>1, <2>3
    <3>2. ASSUME pc = "loop", ~early, cl = 1, audio = "asked" PROVE ~audioEngineState
      BY <3>2
    <3>3. CASE audio = "asked"
      BY <1>1, <2>1, <2>3, <3>2, <3>3
    <3>4. CASE audio = "askedAgain"
      BY <1>1, <2>1, <2>3, <3>4
    <3> QED
      BY <2>1, <3>1, <3>3, <3>4
  <2> QED
    BY <1>5, <2>2, <2>3 DEF AudioOffer
<1>6. CASE SetFormatAndEncodings
  BY <1>6 DEF SetFormatAndEncodings, AudioUnmoved, InMenu
<1>7. CASE ToggleAudio
  BY <1>1, <1>7 DEF ToggleAudio, InMenu
<1>8. CASE Events \/ UNCHANGED vars
  <2>1. UNCHANGED <<session, audioState>>
    BY <1>8, Zenon
       DEF Events, vars, KeyDown, KeyUp, TextInput, ButtonDown, ButtonUp, PointerEvent, Motion,
           MouseWheel, PressUnseen, ReleaseUnseen, FocusLost, Menu, ToggleGameMode, Unmoved
  <2> QED
    BY <2>1
<1> QED
  BY <1>2, <1>3, <1>4, <1>5, <1>6, <1>7, <1>8 DEF Next, Sessions, Sound

-------------------------------------------------------------------------------
(* The theorems. *)

LEMMA ViewerInit == Init => ViewerInv
<1> SUFFICES ASSUME Init PROVE ViewerInv
  OBVIOUS
<1>1. SessionTypes /\ MenuTypes
  BY DEF Init, SessionTypes, MenuTypes
<1>2. InputTypes /\ AudioTypes
  BY DEF Init, InputTypes, AudioTypes
<1>3. TypeOK
  BY <1>1, <1>2, TypeGroups
<1>4. ClientsAccountedFor
  BY <1>3 DEF Init, ClientsAccountedFor
<1>5. InputInv
  BY DEF Init, InputInv, HeldUnlessMissed, LettersMissed, MaskAccountedFor, InputTracked,
         AltTracked, ButtonsTracked, Untold
<1>6. SoundAsChosen /\ SoundAsked /\ EngineUnused
  BY DEF Init, SoundAsChosen, SoundAsked, EngineUnused
<1> QED
  BY <1>4, <1>5, <1>6 DEF ViewerInv

\* The induction over the steps of main(), of the events and of the sound.
THEOREM ViewerInvHolds == Spec => []ViewerInv
<1>1. ViewerInv /\ [Next]_vars => ViewerInv'
  <2> SUFFICES ASSUME ViewerInv, [Next]_vars PROVE ViewerInv'
    OBVIOUS
  <2> USE DEF ViewerInv
  <2>1. ClientsAccountedFor'
    BY SessionsStep, EventsStep DEF Next
  <2>2. InputTypes
    BY TypeGroups DEF ClientsAccountedFor
  <2>3. InputInv'
    BY <2>2, KeyStep, PointerStep, OtherInputStep DEF Next, Events
  <2>4. SoundAsChosen' /\ SoundAsked' /\ EngineUnused'
    BY SoundStep
  <2> QED
    BY <2>1, <2>3, <2>4
<1> QED
  BY <1>1, ViewerInit, PTL DEF Spec

\* For any number of sessions and every way they begin and end, rfbClientCleanup()
\* is called once for every structure but those a quit in the menu leaves behind.
THEOREM ClientsFreedOnce == Spec => []ClientsAccountedFor
<1>1. ViewerInv => ClientsAccountedFor
  BY DEF ViewerInv
<1> QED
  BY <1>1, ViewerInvHolds, PTL

\* For any keyboard, the server holds nothing for pressed that the user has let go
\* of within the hearing of handleSDLEvent(), but letters whose keysym has changed
\* since they went down, with Shift, Ctrl or game mode.
THEOREM NothingStaysPressed == Spec => []HeldUnlessMissed
<1>1. ViewerInv => HeldUnlessMissed
  BY DEF ViewerInv, InputInv
<1> QED
  BY <1>1, ViewerInvHolds, PTL

\* The flags of the Alt keys and buttonMask cover what the server holds for
\* pressed, in every session.
THEOREM FlagsCover == Spec => []InputTracked
<1>1. ViewerInv => InputTracked
  BY DEF ViewerInv, InputInv
<1> QED
  BY <1>1, ViewerInvHolds, PTL

\* The server never streams sound against the checkbox of the menu, and does when it
\* is ticked and the engine was started for this session, the first; a checkbox
\* clicked while an offer was still to come is excepted.
THEOREM FirstSessionSounds == Spec => []SoundAsChosen
<1>1. ViewerInv => SoundAsChosen
  BY DEF ViewerInv
<1> QED
  BY <1>1, ViewerInvHolds, PTL

-------------------------------------------------------------------------------
(***************************************************************************)
(* The handshake                                                           *)
(***************************************************************************)
Encrypted == {"TLSNone", "TLSVNC", "TLSPlain", "X509None", "X509VNC", "X509Plain"}
Anonymous == Encrypted \ WithCertificate

Kinds == {"version", "scheme", "count", "type", "challenge", "result", "reason", "serverInit",
          "veVersion", "veStatus", "veCount", "veType", "veAck", "tls",
          "choice", "response", "clientInit", "veChoice"}
Values ==
  Nat \cup SecurityTypes \cup VeNCryptTypes \cup Kinds \cup Encrypted \cup Unencrypted
    \cup Challenged \cup {"TLS", "VeNCrypt", "ConnFailed", "ok", "failed", "tooMany", "refused",
                          "right", "wrong", "name", "nameTooLong"}
Messages == [kind : Kinds, value : Values, layer : {"plain", "tls"}]

\* What is at place i of a channel.
Is(c, i, kind, l) == c[i].kind = kind /\ c[i].layer = l

\* From place p on there is at most the first message of what follows a choice.
Opens(p, step, l) ==
  \/ Len(toClient) = p - 1
  \/ /\ Len(toClient) = p
     /\ \/ step = "failed"
        \/ /\ step \in {"challenge", "result", "veVersion"} /\ Is(toClient, p, step, l)
           /\ step = "result" => toClient[p].value = "ok"

\* From place p on there is a list with its length.
Counted(p, count, kind, list, l) ==
  /\ toClient[p] = [kind |-> count, value |-> Len(list), layer |-> l]
  /\ Len(list) \in 1 .. MaxTypes /\ Len(toClient) = p + Len(list)
  /\ \A i \in 1 .. Len(list) : toClient[p + i] = [kind |-> kind, value |-> list[i], layer |-> l]

\* The client is in a list: what is left of it comes first.
Rest(kind, list) ==
  /\ left \in 1 .. Len(list) /\ Len(list) <= MaxTypes /\ left <= Len(toClient)
  /\ \A i \in 1 .. left :
       toClient[i] = [kind |-> kind, value |-> list[Len(list) - left + i], layer |-> layer]

List == IF layer = "tls" THEN subOffered ELSE offered

ChannelTypes ==
  /\ toClient \in Seq(Messages) /\ toServer \in Seq(Messages)
  /\ offered \in Seq(SecurityTypes \cup {"MSLogon"})
  /\ subOffered \in Seq(SecurityTypes \cup VeNCryptTypes)
  /\ serverVersion \in Nat /\ version \in Nat

\* What is on its way to the client, whether the server still lives or not: what the
\* client reads next, and after it what it will read after that.
Script ==
  /\ at = "version" =>
       /\ Len(toClient) = 1
       /\ toClient[1] = [kind |-> "version", value |-> serverVersion, layer |-> "plain"]
  /\ at = "scheme" /\ Len(toClient) > 0 =>
       /\ Is(toClient, 1, "scheme", "plain")
       /\ IF toClient[1].value = "ConnFailed"
          THEN Len(toClient) <= 2 /\ (Len(toClient) = 2 => Is(toClient, 2, "reason", "plain"))
          ELSE Opens(2, Start(toClient[1].value).at, "plain") /\ offered = <<toClient[1].value>>
  /\ at = "count" /\ Len(toClient) > 0 =>
       \/ Counted(1, "count", "type", List, layer)
       \/ /\ layer = "plain" /\ toClient[1].value = 0 /\ Is(toClient, 1, "count", "plain")
          /\ Len(toClient) = 2 /\ Is(toClient, 2, "reason", "plain")
  /\ at = "type" =>
       /\ Rest("type", List)
       /\ IF Chosen = "unset" THEN Len(toClient) = left
          ELSE Opens(left + 1, Start(Chosen).at, layer)
  /\ at = "ask" => Len(toClient) = 0
  /\ at \in {"challenge", "reason", "serverInit", "veVersion", "veAck"} =>
       Len(toClient) <= 1 /\ (Len(toClient) = 1 => Is(toClient, 1, at, layer))
  /\ at = "result" /\ Len(toClient) > 0 =>
       /\ Is(toClient, 1, "result", layer)
       /\ IF toClient[1].value = "failed" /\ version = 3008
          THEN Len(toClient) = 2 /\ Is(toClient, 2, "reason", layer)
          ELSE Len(toClient) = 1
  /\ at = "veStatus" /\ Len(toClient) > 0 =>
       /\ Is(toClient, 1, "veStatus", "plain")
       /\ IF toClient[1].value = "ok"
          THEN Counted(2, "veCount", "veType", subOffered, "plain")
          ELSE Len(toClient) = 1
  /\ at = "veCount" => Counted(1, "veCount", "veType", subOffered, "plain")
  /\ at = "veType" => Rest("veType", subOffered) /\ Len(toClient) = left
  /\ at = "tls" /\ Len(toClient) > 0 =>
       /\ Is(toClient, 1, "tls", "plain")
       /\ IF authScheme = "TLS" THEN Counted(2, "count", "type", subOffered, "tls")
          ELSE Opens(2, StartSub(subAuthScheme).at, "tls")

\* What the client has settled by the time it reads something.
Settling ==
  /\ at \notin {"version", "failed"} => version = ReplyTo(serverVersion)
  /\ at = "scheme" => version <= 3006
  /\ at \in {"version", "scheme"} =>
       layer = "plain" /\ authScheme = "unset" /\ subAuthScheme = "unset"
  /\ at = "count" =>
       /\ IF layer = "plain" THEN version > 3006 /\ authScheme = "unset" ELSE authScheme = "TLS"
       /\ subAuthScheme = "unset"
  /\ at = "type" =>
       IF layer = "plain"
       THEN /\ authScheme \in {"unset", "None", "VncAuth", "ARD", "TLS", "VeNCrypt"}
            /\ subAuthScheme = "unset"
       ELSE authScheme = "TLS" /\ subAuthScheme \in {"unset", "None", "VncAuth", "ARD"}
  /\ at \in {"veVersion", "veStatus", "veCount", "veType", "veAck"} =>
       layer = "plain" /\ authScheme = "VeNCrypt"
  /\ at \in {"veVersion", "veStatus", "veCount"} => subAuthScheme = "unset"
  /\ at = "veType" => subAuthScheme \in Encrypted \cup Unencrypted \cup {"unset"}
  /\ at = "veAck" => subAuthScheme \in Encrypted
  /\ at = "tls" =>
       /\ layer = "plain"
       /\ \/ authScheme = "TLS" /\ subAuthScheme = "unset"
          \/ authScheme = "VeNCrypt" /\ subAuthScheme \in Anonymous
  /\ at \in {"challenge", "ask", "result", "serverInit", "connected"} =>
       \/ layer = "plain" /\ authScheme \in Challenged \cup {"None"} /\ subAuthScheme = "unset"
       \/ layer = "plain" /\ authScheme = "VeNCrypt" /\ subAuthScheme \in Unencrypted
       \/ layer = "tls" /\ authScheme = "VeNCrypt" /\ subAuthScheme \in Anonymous
       \/ layer = "tls" /\ authScheme = "TLS" /\ subAuthScheme \in {"None", "VncAuth"}

SameTypes == settled = authScheme /\ subSettled = subAuthScheme
SameLayer == serverLayer = layer
Plainly == serverLayer = "plain" /\ layer = "plain"
Idle == Len(toServer) = 0
Reading(kind, n) == Idle /\ at = kind /\ Len(toClient) = n

BeforeVersion ==
  /\ Plainly /\ settled = "unset" /\ subSettled = "unset"
  /\ offered = <<>> /\ subOffered = <<>> /\ spoken = 0
  /\ \/ Reading("version", 1)
     \/ /\ at = IF version > 3006 THEN "count" ELSE "scheme"
        /\ Len(toClient) = 0 /\ Len(toServer) = 1
        /\ toServer[1] = [kind |-> "version", value |-> version, layer |-> "plain"]

BeforeChoice ==
  /\ IF serverLayer = "plain"
     THEN settled = "unset" /\ subAuthScheme = "unset" /\ subOffered = <<>>
     ELSE settled = "TLS" /\ authScheme = "TLS"
  /\ subSettled = "unset"
  /\ \/ /\ Idle
        /\ \/ at = "tls" /\ serverLayer = "tls" /\ authScheme = "TLS" /\ Len(toClient) > 1
           \/ at = "count" /\ SameLayer /\ Len(toClient) > 0 /\ toClient[1].value # 0
           \/ at = "type" /\ SameLayer /\ Chosen = "unset"
     \/ /\ SameLayer /\ Supported(Chosen)
        /\ toServer[1] = [kind |-> "choice", value |-> Chosen, layer |-> layer]
        /\ \/ at = "type" /\ Len(toClient) = left /\ Len(toServer) = 1
           \/ /\ at = Start(Chosen).at /\ Len(toClient) = 0
              /\ IF at \in {"serverInit", "tls"}
                 THEN Len(toServer) = 2 /\ toServer[2] = Start(Chosen).says[1]
                 ELSE Len(toServer) = 1

BeforeTLS ==
  /\ Plainly /\ settled \in {"TLS", "VeNCrypt"}
  /\ settled = "TLS" => subSettled = "unset" /\ subOffered = <<>>
  /\ settled = "VeNCrypt" => subSettled = subAuthScheme /\ subSettled \in Encrypted
  /\ \/ Reading("scheme", 1) /\ settled = "TLS" /\ toClient[1].value = "TLS"
     \/ Reading("type", left) /\ settled = "TLS" /\ authScheme = "TLS"
     \/ Reading("veAck", 1) /\ settled = "VeNCrypt" /\ toClient[1].value = "ok"
     \/ /\ at = "tls" /\ SameTypes /\ Len(toClient) = 0
        /\ Len(toServer) = 1 /\ Is(toServer, 1, "tls", "plain")

BeforeVeNCryptVersion ==
  /\ Plainly /\ settled = "VeNCrypt" /\ subSettled = "unset"
  /\ subAuthScheme = "unset" /\ subOffered = <<>>
  /\ \/ Reading("scheme", 2) /\ toClient[1].value = "VeNCrypt"
     \/ Reading("type", left + 1) /\ authScheme = "VeNCrypt"
     \/ Reading("veVersion", 1)
     \/ /\ at = "veStatus" /\ Len(toClient) = 0
        /\ Len(toServer) = 1 /\ Is(toServer, 1, "veVersion", "plain")

BeforeVeNCryptChoice ==
  /\ Plainly /\ settled = "VeNCrypt" /\ subSettled = "unset" /\ authScheme = "VeNCrypt"
  /\ \/ Idle /\ at = "veStatus" /\ Len(toClient) > 1
     \/ Idle /\ at \in {"veCount", "veType"}
     \/ /\ Len(toClient) = 0 /\ subAuthScheme \in Encrypted \cup Unencrypted
        /\ toServer[1] = [kind |-> "veChoice", value |-> subAuthScheme, layer |-> "plain"]
        /\ \/ at = AfterChoice(subAuthScheme).at /\ Len(toServer) = 1
           \/ /\ subAuthScheme = "Plain" /\ at = "result"
              /\ Len(toServer) = 2 /\ Is(toServer, 2, "response", "plain")
              /\ toServer[2].value \in {"right", "wrong"}

BeforeResponse ==
  \/ /\ Plainly /\ Reading("scheme", 2) /\ settled \in Challenged
     /\ settled = toClient[1].value /\ subSettled = "unset"
  \/ SameLayer /\ SameTypes /\ Reading("type", left + 1) /\ Chosen \in Challenged
  \/ /\ serverLayer = "tls" /\ SameTypes /\ authScheme = "VeNCrypt"
     /\ \/ Reading("tls", 2) /\ subAuthScheme \in Challenged
        \/ Reading("tls", 1) /\ subAuthScheme \in Plain
  \/ SameLayer /\ SameTypes /\ (Reading("challenge", 1) \/ Reading("ask", 0))
  \/ /\ SameLayer /\ SameTypes /\ at = "result" /\ Len(toClient) = 0
     /\ Len(toServer) = 1 /\ Is(toServer, 1, "response", layer)
     /\ toServer[1].value \in {"right", "wrong"}

BeforeClientInit ==
  \/ /\ Plainly /\ Reading("scheme", 1) /\ settled = "None"
     /\ settled = toClient[1].value /\ subSettled = "unset"
  \/ /\ SameLayer /\ SameTypes /\ Chosen = "None"
     /\ Reading("type", IF version > 3007 THEN left + 1 ELSE left)
  \/ /\ serverLayer = "tls" /\ SameTypes /\ authScheme = "VeNCrypt"
     /\ Reading("tls", 2) /\ subAuthScheme \in Free
  \/ SameLayer /\ SameTypes /\ Reading("result", 1) /\ toClient[1].value = "ok"
  \/ /\ SameLayer /\ SameTypes /\ at = "serverInit" /\ Len(toClient) = 0
     /\ Len(toServer) = 1 /\ Is(toServer, 1, "clientInit", layer)

AfterServerInit ==
  SameLayer /\ SameTypes /\ (Reading("serverInit", 1) \/ Reading("connected", 0))

\* Whose turn it is, as long as both take part: what the server reads next is on its
\* way, or the client will say it when it has read what is on its way to it.
Turns ==
  /\ at # "failed" =>
       /\ serverAt = "version"    => BeforeVersion
       /\ serverAt = "choice"     => BeforeChoice
       /\ serverAt = "tls"        => BeforeTLS
       /\ serverAt = "veVersion"  => BeforeVeNCryptVersion
       /\ serverAt = "veChoice"   => BeforeVeNCryptChoice
       /\ serverAt = "response"   => BeforeResponse
       /\ serverAt = "clientInit" => BeforeClientInit
       /\ serverAt = "done"       => AfterServerInit
       /\ serverAt \notin {"version", "closed"} => spoken = version
       /\ at = "version" => serverAt \in {"version", "closed"}
       /\ at = "connected" => serverAt = "done"
       /\ at = "serverInit" /\ Len(toClient) > 0 => serverAt = "done"
       /\ at = "reason" => serverAt = "closed"
  /\ serverAt \in {"version", "choice", "tls", "veVersion", "veChoice", "response",
                   "clientInit", "done", "closed"}

HandshakeInv == ChannelTypes /\ HandshakeTypeOK /\ Script /\ Settling /\ Turns

First == NamedIn(offered, Len(offered), Detected(serverVersion))

\* What the types read so far stand for.
Known ==
  IF layer = "plain"
  THEN IF at \in {"scheme", "count"} THEN Detected(serverVersion)
       ELSE IF at = "type" THEN NamedIn(offered, Len(offered) - left, Detected(serverVersion))
       ELSE First
  ELSE IF authScheme # "TLS" \/ at = "count" THEN First
       ELSE NamedIn(subOffered, IF at = "type" THEN Len(subOffered) - left ELSE Len(subOffered), First)

Heard == at \notin {"version", "reason", "failed"} => messages = Known

\* What the types read so far have left unchosen.
Passing ==
  /\ at = "type" /\ Chosen = "unset" => \A i \in 1 .. Len(List) - left : ~Supported(List[i])
  /\ at = "veType" =>
       \A i \in 1 .. Len(subOffered) - left :
         /\ subOffered[i] \in SubTypes => subAuthScheme # "unset"
         /\ subOffered[i] \in SubTypes \ Unencrypted => subAuthScheme \notin Unencrypted

Memory == Heard /\ Passing /\ EncryptedWhenOffered

\* A list of types is only sent to versions that have one, and holds bytes.
Listed ==
  /\ spoken > 3006 \/ serverAt = "version" => offered \in Seq(SecurityTypes)
  /\ at = "type" /\ layer = "plain" => version > 3006

\* Why the client has given up, in terms that the server's last steps leave true.
NothingOffered == ~Offers(offered, Challenged \cup {"None", "TLS", "VeNCrypt"})
StuckInTLS ==
  /\ settled = "TLS"
  /\ \/ subAuthScheme = "ARD"
     \/ Idle /\ serverAt = "choice" /\ ~Offers(subOffered, {"None", "VncAuth"})
StuckInVeNCrypt ==
  /\ settled = "VeNCrypt"
  /\ \/ Idle /\ serverAt = "veVersion"
     \/ Idle /\ serverAt = "veChoice" /\ ~Offers(subOffered, SubTypes)
     \/ subAuthScheme \in WithCertificate
Reason ==
  \/ serverAt \in {"closed", "done"} \/ serverVersion = 0 \/ answer = "none"
  \/ serverAt # "version" /\ (NothingOffered \/ StuckInTLS \/ StuckInVeNCrypt)
Why == Listed /\ (at = "failed" => Reason)

-------------------------------------------------------------------------------
LEMMA TakeFirst ==
  ASSUME NEW c \in Seq(Messages), c # <<>>
  PROVE  /\ Len(c) \in Nat \ {0} /\ Head(c) = c[1] /\ Head(c) \in Messages
         /\ Tail(c) \in Seq(Messages) /\ Len(Tail(c)) = Len(c) - 1
         /\ \A i \in 1 .. Len(c) - 1 : Tail(c)[i] = c[i + 1]
  OBVIOUS

LEMMA Joined ==
  ASSUME NEW c \in Seq(Messages), NEW d \in Seq(Messages)
  PROVE  /\ c \o d \in Seq(Messages) /\ Len(c \o d) = Len(c) + Len(d)
         /\ Len(c) \in Nat /\ Len(d) \in Nat
         /\ \A i \in 1 .. Len(c) : (c \o d)[i] = c[i]
         /\ \A i \in 1 .. Len(d) : (c \o d)[Len(c) + i] = d[i]
         /\ c = <<>> => c \o d = d
         /\ d = <<>> => c \o d = c
<1>1. c \o d \in Seq(Messages) /\ Len(c \o d) = Len(c) + Len(d) /\ Len(c) \in Nat /\ Len(d) \in Nat
  OBVIOUS
<1>2. \A i \in 1 .. Len(c) : (c \o d)[i] = c[i]
  OBVIOUS
<1>3. \A i \in 1 .. Len(d) : (c \o d)[Len(c) + i] = d[i]
  OBVIOUS
<1>4. c = <<>> => c \o d = d
  OBVIOUS
<1>5. d = <<>> => c \o d = c
  OBVIOUS
<1> QED BY <1>1, <1>2, <1>3, <1>4, <1>5

LEMMA JoinedOne ==
  ASSUME NEW c \in Seq(Messages), NEW d \in Seq(Messages), Len(d) = 1
  PROVE  /\ c \o d \in Seq(Messages) /\ Len(c \o d) = Len(c) + 1 /\ Len(c) \in Nat
         /\ \A i \in 1 .. Len(c) : (c \o d)[i] = c[i]
         /\ (c \o d)[Len(c) + 1] = d[1]
BY Joined

LEMMA OneMessage ==
  ASSUME NEW kind \in Kinds, NEW value \in Values, NEW l \in {"plain", "tls"}
  PROVE  /\ Message(kind, value, l) \in Seq(Messages) /\ Len(Message(kind, value, l)) = 1
         /\ Message(kind, value, l)[1] = [kind |-> kind, value |-> value, layer |-> l]
  BY DEF Message, Messages

LEMMA OneBare ==
  ASSUME NEW kind \in Kinds, NEW l \in {"plain", "tls"}
  PROVE  /\ Bare(kind, l) \in Seq(Messages) /\ Len(Bare(kind, l)) = 1
         /\ Bare(kind, l)[1] = [kind |-> kind, value |-> kind, layer |-> l]
  BY OneMessage DEF Bare, Values

LEMMA ManyTypes ==
  ASSUME NEW S, S \subseteq Values, NEW list \in Seq(S), NEW kind \in Kinds, NEW l \in {"plain", "tls"}
  PROVE  /\ TypeMessages(list, kind, l) \in Seq(Messages)
         /\ Len(TypeMessages(list, kind, l)) = Len(list)
         /\ \A i \in 1 .. Len(list) :
              TypeMessages(list, kind, l)[i] = [kind |-> kind, value |-> list[i], layer |-> l]
<1>1. \A i \in 1 .. Len(list) : [kind |-> kind, value |-> list[i], layer |-> l] \in Messages
  <2> TAKE i \in 1 .. Len(list)
  <2>1. list[i] \in S
    OBVIOUS
  <2>2. list[i] \in Values
    BY <2>1
  <2> QED BY <2>2 DEF Messages
<1>2. Len(list) \in Nat
  OBVIOUS
<1> DEFINE m == [i \in 1 .. Len(list) |-> [kind |-> kind, value |-> list[i], layer |-> l]]
<1>3. m \in Seq(Messages) /\ Len(m) = Len(list)
  BY <1>1, <1>2
<1>4. m = TypeMessages(list, kind, l)
  BY DEF TypeMessages
<1> QED BY <1>3, <1>4

\* A list has at most MaxTypes types.
LEMMA ListTypes ==
  ASSUME NEW S, NEW list \in Lists(S)
  PROVE  list \in Seq(S) /\ Len(list) \in 1 .. MaxTypes
<1>1. PICK k \in 1 .. MaxTypes : list \in [1 .. k -> S]
  BY DEF Lists
<1>2. k \in 1 .. MaxTypes /\ k \in Nat /\ list \in Seq(S) /\ Len(list) = k
  BY <1>1, HandshakeAssumption
<1> QED BY <1>2

\* A decision without a choice in it.
LEMMA GoesWaits ==
  ASSUME ChannelTypes, NEW kind, NEW said \in Seq(Messages), Goes(Waits(kind), said)
  PROVE  at' = kind /\ toServer' = toServer \o said /\ toServer' \in Seq(Messages)
<1>1. at' = kind /\ toServer' = toServer \o said \o <<>>
  BY DEF Goes, Waits
<1>2. toServer \o said \in Seq(Messages)
  BY DEF ChannelTypes
<1>3. \A c \in Seq(Messages) : c \o <<>> = c
  OBVIOUS
<1> QED BY <1>1, <1>2, <1>3, Zenon

\* The rest of the channel when the client has read a message.
LEMMA ReadOne ==
  ASSUME ChannelTypes, NEW kind, Reads(kind)
  PROVE  /\ at = kind /\ Len(toClient) \in Nat \ {0} /\ Received = toClient[1].value
         /\ Is(toClient, 1, kind, layer) /\ toClient[1].value \in Values
         /\ toClient' \in Seq(Messages) /\ Len(toClient') = Len(toClient) - 1
         /\ \A i \in 1 .. Len(toClient) - 1 : toClient'[i] = toClient[i + 1]
<1>1. toClient \in Seq(Messages) /\ toClient # <<>> /\ toClient' = Tail(toClient)
  BY DEF ChannelTypes, Reads
<1>2. Head(toClient) = toClient[1] /\ toClient[1] \in Messages
  BY <1>1, TakeFirst
<1>3. at = kind /\ Received = toClient[1].value /\ Is(toClient, 1, kind, layer)
  BY <1>2 DEF Reads, Received, Is
<1> QED BY <1>1, <1>2, <1>3, TakeFirst DEF Messages

USE DEF SameTypes, SameLayer, Plainly, Idle, Reading

Phases == {"version", "scheme", "count", "type", "challenge", "ask", "result", "reason",
           "serverInit", "veVersion", "veStatus", "veCount", "veType", "veAck", "tls",
           "connected", "failed"}

\* Where a settled type leaves the client, and what it says.
LEMMA StartAt ==
  ASSUME NEW t
  PROVE  /\ Start(t).at = IF t = "None" THEN IF version > 3007 THEN "result" ELSE "serverInit"
                          ELSE IF t \in Challenged /\ (layer = "tls" => t = "VncAuth") THEN "challenge"
                          ELSE IF t = "TLS" /\ layer = "plain" THEN "tls"
                          ELSE IF t = "VeNCrypt" /\ layer = "plain" THEN "veVersion" ELSE "failed"
         /\ Start(t).says = IF Start(t).at \in {"serverInit", "tls"}
                            THEN Bare(IF Start(t).at = "tls" THEN "tls" ELSE "clientInit", layer)
                            ELSE <<>>
<1>1. CASE t = "None"
  BY <1>1 DEF Start, Waits, ClientInit, Challenged
<1>2. CASE t \in Challenged /\ (layer = "tls" => t = "VncAuth")
  BY <1>2 DEF Start, Waits, Challenged
<1>3. CASE t = "TLS" /\ layer = "plain"
  BY <1>3 DEF Start, Challenged
<1>4. CASE t = "VeNCrypt" /\ layer = "plain"
  BY <1>4 DEF Start, Waits, Challenged
<1>5. CASE /\ t # "None" /\ ~(t \in Challenged /\ (layer = "tls" => t = "VncAuth"))
           /\ ~(t = "TLS" /\ layer = "plain") /\ ~(t = "VeNCrypt" /\ layer = "plain")
  BY <1>5 DEF Start, Waits, Fails
<1> QED BY <1>1, <1>2, <1>3, <1>4, <1>5

\* The sub types that ask the user for more than a challenge.
LEMMA PlainTypes ==
  ASSUME NEW t \in Encrypted \cup Unencrypted
  PROVE  t \in Free \/ t \in Challenged \/ t \in Plain
BY DEF Encrypted, Unencrypted, Free, Challenged, Plain

LEMMA AfterChoiceAt ==
  ASSUME NEW t
  PROVE  /\ StartSub(t) = Waits(StartSub(t).at) /\ AfterChoice(t) = Waits(AfterChoice(t).at)
         /\ StartSub(t).at = IF t \in Free THEN "result"
                             ELSE IF t \in Challenged THEN "challenge" ELSE "ask"
         /\ AfterChoice(t).at = IF t \in Unencrypted THEN StartSub(t).at ELSE "veAck"
BY DEF StartSub, AfterChoice, Waits, Free, Challenged

\* Who the client waits for when there is something for it to read.
LEMMA ServerWaits ==
  ASSUME Turns, Len(toClient) \in Nat
  PROVE  /\ at = "version" => serverAt \in {"version", "closed"}
         /\ at = "scheme" /\ Len(toClient) > 0 =>
              serverAt \in {"tls", "veVersion", "response", "clientInit", "closed"}
         /\ at = "count" /\ Len(toClient) > 0 => serverAt \in {"choice", "closed"}
         /\ at = "type" =>
              serverAt \in {"choice", "tls", "veVersion", "response", "clientInit", "closed"}
         /\ at = "challenge" /\ Len(toClient) > 0 => serverAt \in {"response", "closed"}
         /\ at = "ask" => serverAt \in {"veChoice", "response", "closed"}
         /\ at = "result" /\ Len(toClient) > 0 => serverAt \in {"clientInit", "closed"}
         /\ at = "reason" => serverAt = "closed"
         /\ at = "serverInit" /\ Len(toClient) > 0 => serverAt = "done"
         /\ at = "veVersion" /\ Len(toClient) > 0 => serverAt \in {"veVersion", "closed"}
         /\ at = "veStatus" /\ Len(toClient) > 0 => serverAt \in {"veChoice", "closed"}
         /\ at \in {"veCount", "veType"} /\ Len(toClient) > 0 => serverAt \in {"veChoice", "closed"}
         /\ at = "veAck" /\ Len(toClient) > 0 => serverAt \in {"tls", "closed"}
         /\ at = "tls" /\ Len(toClient) > 0 =>
              serverAt \in {"choice", "response", "clientInit", "closed"}
<1>1. CASE serverAt = "version"
  BY <1>1 DEF Turns, BeforeVersion
<1>2. CASE serverAt = "choice"
  BY <1>2, StartAt DEF Turns, BeforeChoice
<1>3. CASE serverAt = "tls"
  BY <1>3 DEF Turns, BeforeTLS
<1>4. CASE serverAt = "veVersion"
  BY <1>4 DEF Turns, BeforeVeNCryptVersion
<1>5. CASE serverAt = "veChoice"
  BY <1>5, AfterChoiceAt DEF Turns, BeforeVeNCryptChoice
<1>6. CASE serverAt = "response"
  BY <1>6 DEF Turns, BeforeResponse
<1>7. CASE serverAt = "clientInit"
  BY <1>7 DEF Turns, BeforeClientInit
<1>8. CASE serverAt = "done"
  BY <1>8 DEF Turns, AfterServerInit
<1>9. CASE serverAt = "closed"
  BY <1>9 DEF Turns
<1> QED BY <1>1, <1>2, <1>3, <1>4, <1>5, <1>6, <1>7, <1>8, <1>9 DEF Turns

\* A step of the client: the server's variables stay as they are.
LEMMA ClientStep ==
  ASSUME HandshakeInv, UNCHANGED server,
         toClient' \in Seq(Messages), toServer' \in Seq(Messages),
         at' \in Phases, layer' \in {"plain", "tls"}, version' \in Nat,
         left' \in 0 .. MaxTypes, at' \in {"type", "veType"} => left' > 0,
         messages' \in {"default", "ultra", "tight"},
         Script', Settling', Turns'
  PROVE  HandshakeInv'
<1>1. ChannelTypes'
  BY DEF HandshakeInv, ChannelTypes, server, offers
<1>2. \A i \in 1 .. Len(toClient') : toClient'[i].layer \in {"plain", "tls"}
  <2> TAKE i \in 1 .. Len(toClient')
  <2>1. toClient'[i] \in Messages
    OBVIOUS
  <2> QED BY <2>1 DEF Messages
<1>3. HandshakeTypeOK'
  BY <1>2 DEF HandshakeInv, HandshakeTypeOK, server, Phases
<1> QED BY <1>1, <1>3 DEF HandshakeInv

\* A client that has given up.
LEMMA FailedStep ==
  ASSUME Turns, at' = "failed", serverAt' = serverAt
  PROVE  Script' /\ Settling' /\ Turns'
<1>1. Script'
  BY DEF Script
<1>2. Settling'
  BY DEF Settling
<1>3. Turns'
  BY DEF Turns
<1> QED BY <1>1, <1>2, <1>3

LEMMA SameTypesKept ==
  ASSUME HandshakeInv
  PROVE  /\ layer \in {"plain", "tls"} /\ serverLayer \in {"plain", "tls"}
         /\ version \in Nat /\ left \in 0 .. MaxTypes
         /\ at \in Phases /\ messages \in {"default", "ultra", "tight"}
         /\ toServer \in Seq(Messages) /\ toClient \in Seq(Messages)
         /\ Len(toServer) \in Nat /\ Len(toClient) \in Nat
         /\ toServer \o <<>> = toServer /\ <<>> \in Seq(Messages)
         /\ ChannelTypes /\ Turns
BY DEF HandshakeInv, HandshakeTypeOK, ChannelTypes, Phases

\* What the client says with a decision.
LEMMA GoesSaying ==
  ASSUME ChannelTypes, NEW kind, NEW b \in Kinds, NEW l \in {"plain", "tls"},
         NEW said \in Seq(Messages), Goes([at |-> kind, says |-> Bare(b, l)], said)
  PROVE  /\ at' = kind /\ toServer' \in Seq(Messages)
         /\ toServer' = (toServer \o said) \o Bare(b, l)
         /\ Len(toServer') = Len(toServer) + Len(said) + 1
         /\ \A i \in 1 .. Len(toServer) : toServer'[i] = toServer[i]
         /\ \A i \in 1 .. Len(said) : toServer'[Len(toServer) + i] = said[i]
         /\ toServer'[Len(toServer) + Len(said) + 1] = [kind |-> b, value |-> b, layer |-> l]
<1> DEFINE d == toServer \o said
<1>1. at' = kind /\ toServer' = d \o Bare(b, l)
  BY DEF Goes
<1>2. /\ d \in Seq(Messages) /\ Len(d) = Len(toServer) + Len(said)
      /\ Len(toServer) \in Nat /\ Len(said) \in Nat
      /\ \A i \in 1 .. Len(toServer) : d[i] = toServer[i]
      /\ \A i \in 1 .. Len(said) : d[Len(toServer) + i] = said[i]
  BY Joined DEF ChannelTypes
<1>3. /\ Bare(b, l) \in Seq(Messages) /\ Len(Bare(b, l)) = 1
      /\ Bare(b, l)[1] = [kind |-> b, value |-> b, layer |-> l]
  BY OneBare
<1> HIDE DEF d
<1>4. /\ toServer' \in Seq(Messages) /\ Len(toServer') = Len(d) + 1
      /\ \A i \in 1 .. Len(d) : toServer'[i] = d[i]
      /\ toServer'[Len(d) + 1] = Bare(b, l)[1]
  BY <1>1, <1>2, <1>3, JoinedOne
<1>5. toServer' = (toServer \o said) \o Bare(b, l)
  BY <1>1 DEF d
<1> QED BY <1>1, <1>2, <1>3, <1>4, <1>5

LEMMA GoesSayingOnly ==
  ASSUME ChannelTypes, NEW kind, NEW b \in Kinds, NEW l \in {"plain", "tls"},
         Goes([at |-> kind, says |-> Bare(b, l)], <<>>)
  PROVE  /\ at' = kind /\ toServer' \in Seq(Messages) /\ Len(toServer') = Len(toServer) + 1
         /\ \A i \in 1 .. Len(toServer) : toServer'[i] = toServer[i]
         /\ toServer'[Len(toServer) + 1] = [kind |-> b, value |-> b, layer |-> l]
<1>1. PICK said : said = <<>>
  OBVIOUS
<1>2. said \in Seq(Messages) /\ Len(said) = 0
  BY <1>1
<1>3. Goes([at |-> kind, says |-> Bare(b, l)], said)
  BY <1>1
<1>4. /\ at' = kind /\ toServer' \in Seq(Messages)
      /\ Len(toServer') = Len(toServer) + Len(said) + 1
      /\ \A i \in 1 .. Len(toServer) : toServer'[i] = toServer[i]
      /\ toServer'[Len(toServer) + Len(said) + 1] = [kind |-> b, value |-> b, layer |-> l]
  BY <1>2, <1>3, GoesSaying
<1>5. Len(toServer) + Len(said) + 1 = Len(toServer) + 1
  BY <1>2 DEF ChannelTypes
<1> QED BY <1>4, <1>5

\* The client starts what has been settled.
Extra == IF at \in {"serverInit", "tls"} THEN 1 ELSE 0
LEMMA GoesStart ==
  ASSUME ChannelTypes, layer \in {"plain", "tls"}, NEW t, NEW said \in Seq(Messages), Goes(Start(t), said)
  PROVE  /\ at' = Start(t).at /\ toServer' \in Seq(Messages)
         /\ Len(toServer') = Len(toServer) + Len(said) + Extra'
         /\ \A i \in 1 .. Len(toServer) : toServer'[i] = toServer[i]
         /\ \A i \in 1 .. Len(said) : toServer'[Len(toServer) + i] = said[i]
         /\ Extra' = 1 =>
              /\ toServer'[Len(toServer) + Len(said) + 1] = Start(t).says[1]
              /\ Start(t).says[1] = [kind |-> IF at' = "tls" THEN "tls" ELSE "clientInit",
                                     value |-> IF at' = "tls" THEN "tls" ELSE "clientInit",
                                     layer |-> layer]
<1> DEFINE d == toServer \o said
<1>1. at' = Start(t).at /\ toServer' = d \o Start(t).says
  BY DEF Goes
<1>2. /\ d \in Seq(Messages) /\ Len(d) = Len(toServer) + Len(said)
      /\ Len(toServer) \in Nat /\ Len(said) \in Nat
      /\ \A i \in 1 .. Len(toServer) : d[i] = toServer[i]
      /\ \A i \in 1 .. Len(said) : d[Len(toServer) + i] = said[i]
  BY Joined DEF ChannelTypes
<1> HIDE DEF d
<1>3. CASE at' \in {"serverInit", "tls"}
  <2>1. PICK b \in Kinds : b = IF at' = "tls" THEN "tls" ELSE "clientInit"
    BY DEF Kinds
  <2>2. Start(t).says = Bare(b, layer)
    BY <1>1, <1>3, <2>1, StartAt
  <2>3. /\ Bare(b, layer) \in Seq(Messages) /\ Len(Bare(b, layer)) = 1
        /\ Bare(b, layer)[1] = [kind |-> b, value |-> b, layer |-> layer]
    BY OneBare
  <2>4. /\ toServer' \in Seq(Messages) /\ Len(toServer') = Len(d) + 1
        /\ \A i \in 1 .. Len(d) : toServer'[i] = d[i]
        /\ toServer'[Len(d) + 1] = Bare(b, layer)[1]
    <3>1. toServer' = d \o Bare(b, layer)
      BY <1>1, <2>2
    <3> QED BY <1>2, <2>3, <3>1, JoinedOne
  <2>5. Extra' = 1
    BY <1>3 DEF Extra
  <2> QED BY <1>1, <1>2, <2>1, <2>2, <2>3, <2>4, <2>5
<1>4. CASE at' \notin {"serverInit", "tls"}
  <2>1. Start(t).says = <<>>
    BY <1>1, <1>4, StartAt
  <2>2. toServer' = d
    BY <1>1, <1>2, <2>1
  <2>3. Extra' = 0 /\ Extra' # 1
    BY <1>4 DEF Extra
  <2>4. Len(toServer') = Len(toServer) + Len(said) + Extra'
    BY <1>2, <2>2, <2>3
  <2> QED BY <1>1, <1>2, <2>2, <2>3, <2>4
<1> QED BY <1>3, <1>4

LEMMA GoesStartOnly ==
  ASSUME ChannelTypes, layer \in {"plain", "tls"}, NEW t, Goes(Start(t), <<>>)
  PROVE  /\ at' = Start(t).at /\ toServer' \in Seq(Messages)
         /\ Len(toServer') = Len(toServer) + Extra'
         /\ \A i \in 1 .. Len(toServer) : toServer'[i] = toServer[i]
         /\ Extra' = 1 =>
              /\ toServer'[Len(toServer) + 1] = Start(t).says[1]
              /\ Start(t).says[1] = [kind |-> IF at' = "tls" THEN "tls" ELSE "clientInit",
                                     value |-> IF at' = "tls" THEN "tls" ELSE "clientInit",
                                     layer |-> layer]
<1>1. PICK said : said = <<>>
  OBVIOUS
<1>2. said \in Seq(Messages) /\ Len(said) = 0 /\ Goes(Start(t), said)
  BY <1>1
<1>3. /\ at' = Start(t).at /\ toServer' \in Seq(Messages)
      /\ Len(toServer') = Len(toServer) + Len(said) + Extra'
      /\ \A i \in 1 .. Len(toServer) : toServer'[i] = toServer[i]
      /\ Extra' = 1 =>
           /\ toServer'[Len(toServer) + Len(said) + 1] = Start(t).says[1]
           /\ Start(t).says[1] = [kind |-> IF at' = "tls" THEN "tls" ELSE "clientInit",
                                  value |-> IF at' = "tls" THEN "tls" ELSE "clientInit",
                                  layer |-> layer]
  BY <1>2, GoesStart
<1>4. /\ Len(toServer) + Len(said) + Extra' = Len(toServer) + Extra'
      /\ Len(toServer) + Len(said) + 1 = Len(toServer) + 1
  BY <1>2 DEF ChannelTypes, Extra
<1> QED BY <1>3, <1>4

\* The client gives up on what it has read.
LEMMA GivesUp ==
  ASSUME HandshakeInv, NEW kind, Reads(kind), at' = "failed", UNCHANGED server,
         toServer' \in Seq(Messages), layer' \in {"plain", "tls"}, version' \in Nat,
         left' \in 0 .. MaxTypes, messages' \in {"default", "ultra", "tight"}
  PROVE  HandshakeInv'
<1>1. toClient' \in Seq(Messages)
  BY SameTypesKept, ReadOne
<1>2. Script' /\ Settling' /\ Turns'
  BY SameTypesKept, FailedStep DEF server
<1> QED BY <1>1, <1>2, ClientStep DEF Phases

\* A list with its length, one message further on.
LEMMA CountedNext ==
  ASSUME NEW count, NEW kind, NEW l, subOffered \in Seq(SecurityTypes \cup VeNCryptTypes),
         Counted(2, count, kind, subOffered, l), UNCHANGED subOffered,
         Len(toClient) \in Nat \ {0}, Len(toClient') = Len(toClient) - 1,
         \A i \in 1 .. Len(toClient) - 1 : toClient'[i] = toClient[i + 1]
  PROVE  Counted(1, count, kind, subOffered, l)'
<1>1. Len(subOffered) \in 1 .. MaxTypes /\ Len(toClient) = 2 + Len(subOffered) /\ Len(subOffered) \in Nat
  BY DEF Counted
<1>2. toClient'[1] = toClient[2]
  BY <1>1
<1>3. \A i \in 1 .. Len(subOffered) : toClient'[1 + i] = toClient[2 + i]
  BY <1>1
<1> QED BY <1>1, <1>2, <1>3 DEF Counted

\* A list when its length has been read, and when one of its types has.
LEMMA ListBegins ==
  ASSUME NEW count, NEW kind, NEW list, NEW l, Counted(1, count, kind, list, l),
         left' = Len(list), layer' = l,
         Len(toClient) \in Nat \ {0}, Len(toClient') = Len(toClient) - 1,
         \A i \in 1 .. Len(toClient) - 1 : toClient'[i] = toClient[i + 1]
  PROVE  /\ left' \in 1 .. Len(list) /\ Len(list) <= MaxTypes /\ Len(toClient') = left'
         /\ \A i \in 1 .. left' :
              toClient'[i] = [kind |-> kind, value |-> list[Len(list) - left' + i], layer |-> l]
<1>1. Len(list) \in 1 .. MaxTypes /\ Len(toClient) = 1 + Len(list) /\ Len(list) \in Nat
  BY HandshakeAssumption DEF Counted
<1>2. \A i \in 1 .. Len(list) : toClient'[i] = toClient[1 + i] /\ Len(list) - left' + i = i
  BY <1>1
<1> QED BY <1>1, <1>2, HandshakeAssumption DEF Counted

LEMMA ListGoesOn ==
  ASSUME NEW kind, NEW list, Rest(kind, list), left > 1, left' = left - 1, layer' = layer,
         Len(list) \in Nat,
         Len(toClient) \in Nat \ {0}, Len(toClient') = Len(toClient) - 1,
         \A i \in 1 .. Len(toClient) - 1 : toClient'[i] = toClient[i + 1]
  PROVE  /\ left' \in 1 .. Len(list) /\ Len(list) <= MaxTypes /\ left' <= Len(toClient')
         /\ \A i \in 1 .. left' :
              toClient'[i] = [kind |-> kind, value |-> list[Len(list) - left' + i], layer |-> layer']
<1>1. left \in 1 .. Len(list) /\ left <= Len(toClient) /\ left \in Nat
  BY DEF Rest
<1>2. \A i \in 1 .. left' : /\ i + 1 \in 1 .. left /\ toClient'[i] = toClient[i + 1]
                            /\ Len(list) - left' + i = Len(list) - left + (i + 1)
  BY <1>1
<1> QED BY <1>1, <1>2 DEF Rest

LEMMA ChallengeStep == ASSUME HandshakeInv, ReadChallenge PROVE HandshakeInv'
<1>1. Reads("challenge") /\ Goes(Waits("ask"), <<>>)
      /\ UNCHANGED <<layer, version, authScheme, subAuthScheme, left, messages, answer, server>>
  BY DEF ReadChallenge
<1>2. /\ at = "challenge" /\ toClient' \in Seq(Messages)
      /\ Len(toClient) \in Nat \ {0} /\ Len(toClient') = Len(toClient) - 1
  BY <1>1, SameTypesKept, ReadOne
<1>3. Len(toClient) = 1
  BY <1>2 DEF HandshakeInv, Script
<1>4. at' = "ask" /\ toServer' = toServer
  BY <1>1, SameTypesKept, GoesWaits
<1>5. Script'
  BY <1>2, <1>3, <1>4 DEF Script
<1>6. Settling'
  BY <1>1, <1>2, <1>4 DEF HandshakeInv, Settling, server
<1>7. serverAt \in {"response", "closed"}
  BY <1>2, SameTypesKept, ServerWaits
<1>8. Turns'
  BY <1>1, <1>2, <1>3, <1>4, <1>7 DEF HandshakeInv, Turns, server, BeforeResponse
<1> QED BY <1>1, <1>2, <1>4, <1>5, <1>6, <1>8, SameTypesKept, ClientStep DEF Phases

LEMMA ReasonStep == ASSUME HandshakeInv, ReadReason PROVE HandshakeInv'
<1>1. Reads("reason") /\ Goes(Fails, <<>>)
      /\ UNCHANGED <<layer, version, authScheme, subAuthScheme, left, messages, answer, server>>
  BY DEF ReadReason
<1>2. toClient' \in Seq(Messages)
  BY <1>1, SameTypesKept, ReadOne
<1>3. at' = "failed" /\ toServer' = toServer
  BY <1>1, SameTypesKept, GoesWaits DEF Fails
<1>4. Script' /\ Settling' /\ Turns'
  BY <1>1, <1>3, SameTypesKept, FailedStep DEF server
<1> QED BY <1>1, <1>2, <1>3, <1>4, SameTypesKept, ClientStep DEF Phases

LEMMA LostStep == ASSUME HandshakeInv, ConnectionLost PROVE HandshakeInv'
<1>1. at' = "failed"
      /\ UNCHANGED <<layer, version, authScheme, subAuthScheme, left, messages, answer,
                     toClient, toServer, server>>
  BY DEF ConnectionLost
<1>2. Script' /\ Settling' /\ Turns'
  BY <1>1, SameTypesKept, FailedStep DEF server
<1> QED BY <1>1, <1>2, SameTypesKept, ClientStep DEF Phases

LEMMA ServerInitStep == ASSUME HandshakeInv, ReadServerInit PROVE HandshakeInv'
<1>1. Reads("serverInit")
      /\ Goes(IF Received = "nameTooLong" THEN Fails ELSE Waits("connected"), <<>>)
      /\ UNCHANGED <<layer, version, authScheme, subAuthScheme, left, messages, answer, server>>
  BY DEF ReadServerInit
<1>2. /\ at = "serverInit" /\ toClient' \in Seq(Messages)
      /\ Len(toClient) \in Nat \ {0} /\ Len(toClient') = Len(toClient) - 1
  BY <1>1, SameTypesKept, ReadOne
<1>3. at' \in {"failed", "connected"} /\ toServer' = toServer
  BY <1>1, SameTypesKept, GoesWaits DEF Fails
<1>4. CASE at' = "failed"
  <2>1. Script' /\ Settling' /\ Turns'
    BY <1>1, <1>4, SameTypesKept, FailedStep DEF server
  <2> QED BY <1>1, <1>2, <1>3, <2>1, SameTypesKept, ClientStep DEF Phases
<1>5. CASE at' = "connected"
  <2>1. serverAt = "done"
    BY <1>2, SameTypesKept, ServerWaits
  <2>2. Script'
    BY <1>5 DEF Script
  <2>3. Settling'
    BY <1>1, <1>2, <1>5 DEF HandshakeInv, Settling, server
  <2>4. Turns'
    BY <1>1, <1>2, <1>3, <1>5, <2>1 DEF HandshakeInv, Turns, server, AfterServerInit
  <2> QED BY <1>1, <1>2, <1>3, <2>2, <2>3, <2>4, SameTypesKept, ClientStep DEF Phases
<1> QED BY <1>3, <1>4, <1>5

LEMMA AnswerStep == ASSUME HandshakeInv, UserAnswers PROVE HandshakeInv'
<1>1. PICK a \in {"right", "wrong", "none"} :
        /\ answer' = a
        /\ IF a = "none" THEN Goes(Fails, <<>>)
           ELSE Goes(Waits("result"), Message("response", a, layer))
  BY DEF UserAnswers
<1>2. /\ at = "ask" /\ UNCHANGED <<layer, version, authScheme, subAuthScheme, left, messages, toClient, server>>
  BY DEF UserAnswers
<1>3. CASE a = "none"
  <2>1. at' = "failed" /\ toServer' = toServer
    BY <1>1, <1>3, SameTypesKept, GoesWaits DEF Fails
  <2>2. Script' /\ Settling' /\ Turns'
    BY <1>2, <2>1, SameTypesKept, FailedStep DEF server
  <2> QED BY <1>2, <2>1, <2>2, SameTypesKept, ClientStep DEF Phases
<1>4. CASE a \in {"right", "wrong"}
  <2> DEFINE m == Message("response", a, layer)
  <2>1. m \in Seq(Messages) /\ Len(m) = 1 /\ m[1] = [kind |-> "response", value |-> a, layer |-> layer]
    <3>1. a \in Values /\ "response" \in Kinds
      BY <1>4 DEF Values, Kinds
    <3> QED BY <3>1, SameTypesKept, OneMessage
  <2> HIDE DEF m
  <2>2. at' = "result" /\ toServer' = toServer \o m
    BY <1>1, <1>4, <2>1, SameTypesKept, GoesWaits DEF m
  <2>3. /\ toServer' \in Seq(Messages) /\ Len(toServer') = Len(toServer) + 1
        /\ \A i \in 1 .. Len(toServer) : toServer'[i] = toServer[i]
        /\ toServer'[Len(toServer) + 1] = m[1]
    BY <2>1, <2>2, SameTypesKept, JoinedOne
  <2>4. Len(toClient) = 0
    BY <1>2 DEF HandshakeInv, Script
  <2>5. Script'
    BY <1>2, <2>2, <2>4 DEF Script
  <2>6. Settling'
    BY <1>2, <2>2 DEF HandshakeInv, Settling, server
  <2>7. serverAt \in {"veChoice", "response", "closed"}
    BY <1>2, SameTypesKept, ServerWaits
  <2>8. Turns'
    <3>1. CASE serverAt = "veChoice"
      <4>1. BeforeVeNCryptChoice /\ spoken = version
        BY <1>2, <3>1 DEF HandshakeInv, Turns
      <4>2. /\ Len(toServer) = 1 /\ subAuthScheme \in Encrypted \cup Unencrypted
            /\ AfterChoice(subAuthScheme).at = "ask"
            /\ toServer[1] = [kind |-> "veChoice", value |-> subAuthScheme, layer |-> "plain"]
        BY <1>2, <4>1 DEF BeforeVeNCryptChoice
      <4>3. subAuthScheme = "Plain"
        BY <4>2, AfterChoiceAt, PlainTypes DEF Unencrypted, Free, Challenged
      <4>4. BeforeVeNCryptChoice'
        BY <1>2, <1>4, <2>1, <2>2, <2>3, <2>4, <4>1, <4>2, <4>3
           DEF server, BeforeVeNCryptChoice, Is, Unencrypted
      <4> QED BY <1>2, <2>2, <3>1, <4>1, <4>4 DEF Turns, server
    <3>2. CASE serverAt = "response"
      BY <1>1, <1>2, <1>4, <2>1, <2>2, <2>3, <2>4, <3>2 DEF HandshakeInv, Turns, server, BeforeResponse, Is
    <3>3. CASE serverAt = "closed"
      BY <1>2, <2>2, <3>3 DEF HandshakeInv, Turns, server
    <3> QED BY <2>7, <3>1, <3>2, <3>3
  <2> QED BY <1>2, <2>2, <2>3, <2>5, <2>6, <2>8, SameTypesKept, ClientStep DEF Phases
<1> QED BY <1>3, <1>4

LEMMA ResultStep == ASSUME HandshakeInv, ReadResult PROVE HandshakeInv'
<1>1. Reads("result")
      /\ UNCHANGED <<layer, version, authScheme, subAuthScheme, left, messages, answer, server>>
  BY DEF ReadResult
<1>2. /\ at = "result" /\ toClient' \in Seq(Messages) /\ Received = toClient[1].value
      /\ Len(toClient) \in Nat \ {0} /\ Len(toClient') = Len(toClient) - 1
      /\ \A i \in 1 .. Len(toClient) - 1 : toClient'[i] = toClient[i + 1]
  BY <1>1, SameTypesKept, ReadOne
<1>3. serverAt \in {"clientInit", "closed"}
  BY <1>2, SameTypesKept, ServerWaits
<1>4. CASE Received = "ok"
  <2>1. Goes([at |-> "serverInit", says |-> Bare("clientInit", layer)], <<>>)
    BY <1>4 DEF ReadResult, ClientInit
  <2>2. /\ at' = "serverInit" /\ toServer' \in Seq(Messages) /\ Len(toServer') = Len(toServer) + 1
        /\ toServer'[Len(toServer) + 1] = [kind |-> "clientInit", value |-> "clientInit", layer |-> layer]
    <3>1. "clientInit" \in Kinds
      BY DEF Kinds
    <3> QED BY <2>1, <3>1, SameTypesKept, GoesSayingOnly
  <2>3. Len(toClient) = 1
    BY <1>2, <1>4 DEF HandshakeInv, Script
  <2>4. Script'
    BY <1>2, <2>2, <2>3 DEF Script
  <2>5. Settling'
    BY <1>1, <1>2, <2>2 DEF HandshakeInv, Settling, server
  <2>6. Turns'
    BY <1>1, <1>2, <1>3, <2>2, <2>3 DEF HandshakeInv, Turns, server, BeforeClientInit, Is
  <2> QED BY <1>1, <1>2, <2>2, <2>4, <2>5, <2>6, SameTypesKept, ClientStep DEF Phases
<1>5. CASE Received = "failed" /\ version = 3008
  <2>1. Goes(Waits("reason"), <<>>)
    BY <1>5 DEF ReadResult
  <2>2. at' = "reason" /\ toServer' = toServer
    BY <2>1, SameTypesKept, GoesWaits
  <2>3. Len(toClient) = 2 /\ Is(toClient, 2, "reason", layer)
    BY <1>2, <1>5 DEF HandshakeInv, Script
  <2>4. toClient'[1] = toClient[2]
    BY <1>2, <2>3
  <2>5. Script'
    BY <1>1, <1>2, <2>2, <2>3, <2>4 DEF Script, Is
  <2>6. Settling'
    BY <1>1, <1>2, <2>2 DEF HandshakeInv, Settling, server
  <2>7. serverAt = "closed"
    BY <1>2, <1>3, <2>3 DEF HandshakeInv, Turns, BeforeClientInit
  <2>8. Turns'
    BY <1>1, <2>2, <2>7 DEF HandshakeInv, Turns, server
  <2> QED BY <1>1, <1>2, <2>2, <2>5, <2>6, <2>8, SameTypesKept, ClientStep DEF Phases
<1>6. CASE Received # "ok" /\ ~(Received = "failed" /\ version = 3008)
  <2>1. Goes(Waits("failed"), <<>>)
    BY <1>6 DEF ReadResult, Fails
  <2> QED BY <1>1, <2>1, SameTypesKept, GoesWaits, GivesUp
<1> QED BY <1>4, <1>5, <1>6

LEMMA VeNCryptVersionStep == ASSUME HandshakeInv, ReadVeNCryptVersion PROVE HandshakeInv'
<1>1. Reads("veVersion")
      /\ UNCHANGED <<layer, version, authScheme, subAuthScheme, left, messages, answer, server>>
  BY DEF ReadVeNCryptVersion
<1>2. /\ at = "veVersion" /\ toClient' \in Seq(Messages) /\ Received = toClient[1].value
      /\ Received \in Values
      /\ Len(toClient) \in Nat \ {0} /\ Len(toClient') = Len(toClient) - 1
  BY <1>1, SameTypesKept, ReadOne
<1>3. CASE Received \div 100 # 0 /\ Received % 100 # 2
  <2>1. Goes(Waits("failed"), <<>>)
    BY <1>3 DEF ReadVeNCryptVersion, Fails
  <2> QED BY <1>1, <2>1, SameTypesKept, GoesWaits, GivesUp
<1>4. CASE ~(Received \div 100 # 0 /\ Received % 100 # 2)
  <2> DEFINE m == Message("veVersion", Received, layer)
  <2>1. /\ m \in Seq(Messages) /\ Len(m) = 1
        /\ m[1] = [kind |-> "veVersion", value |-> Received, layer |-> layer]
    <3>1. "veVersion" \in Kinds
      BY DEF Kinds
    <3> QED BY <1>2, <3>1, SameTypesKept, OneMessage
  <2>2. Goes(Waits("veStatus"), m)
    BY <1>4 DEF ReadVeNCryptVersion
  <2> HIDE DEF m
  <2>3. at' = "veStatus" /\ toServer' = toServer \o m /\ toServer' \in Seq(Messages)
    BY <2>1, <2>2, SameTypesKept, GoesWaits
  <2>4. Len(toServer') = Len(toServer) + 1 /\ toServer'[Len(toServer) + 1] = m[1]
    BY <2>1, <2>3, SameTypesKept, JoinedOne
  <2>5. Len(toClient) = 1 /\ layer = "plain"
    BY <1>2 DEF HandshakeInv, Script, Settling
  <2>6. Script'
    BY <1>2, <2>3, <2>5 DEF Script
  <2>7. Settling'
    BY <1>1, <1>2, <2>3 DEF HandshakeInv, Settling, server
  <2>8. serverAt \in {"veVersion", "closed"}
    BY <1>2, SameTypesKept, ServerWaits
  <2>9. Turns'
    BY <1>1, <1>2, <2>1, <2>3, <2>4, <2>5, <2>8 DEF HandshakeInv, Turns, server, offers, BeforeVeNCryptVersion, Is
  <2> QED BY <1>1, <1>2, <2>3, <2>6, <2>7, <2>9, SameTypesKept, ClientStep DEF Phases
<1> QED BY <1>3, <1>4

LEMMA VeNCryptStatusStep == ASSUME HandshakeInv, ReadVeNCryptStatus PROVE HandshakeInv'
<1>1. Reads("veStatus")
      /\ UNCHANGED <<layer, version, authScheme, subAuthScheme, left, messages, answer, server>>
  BY DEF ReadVeNCryptStatus
<1>2. /\ at = "veStatus" /\ toClient' \in Seq(Messages) /\ Received = toClient[1].value
      /\ Len(toClient) \in Nat \ {0} /\ Len(toClient') = Len(toClient) - 1
      /\ \A i \in 1 .. Len(toClient) - 1 : toClient'[i] = toClient[i + 1]
  BY <1>1, SameTypesKept, ReadOne
<1>3. CASE Received # "ok"
  <2>1. Goes(Waits("failed"), <<>>)
    BY <1>3 DEF ReadVeNCryptStatus, Fails
  <2> QED BY <1>1, <2>1, SameTypesKept, GoesWaits, GivesUp
<1>4. CASE Received = "ok"
  <2>1. Goes(Waits("veCount"), <<>>)
    BY <1>4 DEF ReadVeNCryptStatus
  <2>2. at' = "veCount" /\ toServer' = toServer
    BY <2>1, SameTypesKept, GoesWaits
  <2>3. Counted(2, "veCount", "veType", subOffered, "plain")
    BY <1>2, <1>4 DEF HandshakeInv, Script
  <2>4. Counted(1, "veCount", "veType", subOffered, "plain")'
    <3>1. subOffered \in Seq(SecurityTypes \cup VeNCryptTypes) /\ UNCHANGED subOffered
      BY <1>1, SameTypesKept DEF ChannelTypes, server, offers
    <3> QED BY <1>2, <2>3, <3>1, CountedNext
  <2>5. Script'
    BY <2>2, <2>4 DEF Script
  <2>6. Settling'
    BY <1>1, <1>2, <2>2 DEF HandshakeInv, Settling, server
  <2>7. serverAt \in {"veChoice", "closed"}
    BY <1>2, SameTypesKept, ServerWaits
  <2>8. Idle \/ serverAt = "closed"
    BY <1>2, <2>7 DEF HandshakeInv, Turns, BeforeVeNCryptChoice
  <2>9. Turns'
    BY <1>1, <1>2, <2>2, <2>7, <2>8 DEF HandshakeInv, Turns, server, BeforeVeNCryptChoice
  <2> QED BY <1>1, <1>2, <2>2, <2>5, <2>6, <2>9, SameTypesKept, ClientStep DEF Phases
<1> QED BY <1>3, <1>4

LEMMA VeNCryptCountStep == ASSUME HandshakeInv, ReadVeNCryptCount PROVE HandshakeInv'
<1>1. /\ Reads("veCount") /\ left' = Received
      /\ UNCHANGED <<layer, version, authScheme, subAuthScheme, messages, answer, server>>
  BY DEF ReadVeNCryptCount
<1>2. /\ at = "veCount" /\ toClient' \in Seq(Messages) /\ Received = toClient[1].value
      /\ Len(toClient) \in Nat \ {0} /\ Len(toClient') = Len(toClient) - 1
      /\ \A i \in 1 .. Len(toClient) - 1 : toClient'[i] = toClient[i + 1]
  BY <1>1, SameTypesKept, ReadOne
<1>3. Counted(1, "veCount", "veType", subOffered, "plain") /\ layer = "plain"
  BY <1>2 DEF HandshakeInv, Script, Settling
<1>4. left' = Len(subOffered) /\ left' \in 1 .. MaxTypes
  BY <1>1, <1>2, <1>3 DEF Counted
<1>5. Rest("veType", subOffered)' /\ Len(toClient') = left'
  <2>1. UNCHANGED <<subOffered, layer>>
    BY <1>1 DEF server, offers
  <2> QED BY <1>2, <1>3, <1>4, <2>1, ListBegins DEF Rest
<1>6. at' = "veType" /\ toServer' = toServer
  <2>1. Received # 0
    BY <1>1, <1>4, HandshakeAssumption
  <2>2. Goes(Waits("veType"), <<>>)
    BY <2>1 DEF ReadVeNCryptCount
  <2> QED BY <2>2, SameTypesKept, GoesWaits
<1>7. Script'
  BY <1>5, <1>6 DEF Script
<1>8. Settling'
  BY <1>1, <1>2, <1>6 DEF HandshakeInv, Settling, server
<1>9. serverAt \in {"veChoice", "closed"}
  BY <1>2, SameTypesKept, ServerWaits
<1>10. Idle \/ serverAt = "closed"
  BY <1>2, <1>9 DEF HandshakeInv, Turns, BeforeVeNCryptChoice
<1>11. Turns'
  BY <1>1, <1>2, <1>6, <1>9, <1>10 DEF HandshakeInv, Turns, server, BeforeVeNCryptChoice
<1>12. left' \in 0 .. MaxTypes /\ left' > 0
  BY <1>1, <1>4, HandshakeAssumption
<1>13. /\ at' \in Phases /\ toServer' \in Seq(Messages) /\ layer' \in {"plain", "tls"} /\ version' \in Nat
       /\ messages' \in {"default", "ultra", "tight"}
  BY <1>1, <1>6, SameTypesKept DEF Phases
<1> QED BY <1>1, <1>2, <1>7, <1>8, <1>11, <1>12, <1>13, ClientStep

LEMMA PreferAt ==
  ASSUME NEW old \in Encrypted \cup Unencrypted \cup {"unset"}, NEW t
  PROVE  Prefer(old, t) \in Encrypted \cup Unencrypted \cup {"unset"}
BY DEF Prefer, SubTypes, Encrypted, Unencrypted, Free, Plain, Challenged

LEMMA VeNCryptTypeStep == ASSUME HandshakeInv, ReadVeNCryptType PROVE HandshakeInv'
<1>1. /\ Reads("veType") /\ left' = left - 1
      /\ UNCHANGED <<layer, version, authScheme, messages, answer, server>>
  BY DEF ReadVeNCryptType
<1>2. /\ at = "veType" /\ toClient' \in Seq(Messages) /\ Received = toClient[1].value
      /\ Len(toClient) \in Nat \ {0} /\ Len(toClient') = Len(toClient) - 1
      /\ \A i \in 1 .. Len(toClient) - 1 : toClient'[i] = toClient[i + 1]
  BY <1>1, SameTypesKept, ReadOne
<1>3. PICK chosen : /\ chosen = Prefer(subAuthScheme, Received) /\ subAuthScheme' = chosen
                    /\ IF left > 1 THEN Goes(Waits("veType"), <<>>)
                       ELSE IF chosen = "unset" THEN Goes(Fails, <<>>)
                       ELSE Goes(AfterChoice(chosen), Message("veChoice", chosen, layer))
  BY DEF ReadVeNCryptType
<1>4. /\ Rest("veType", subOffered) /\ Len(toClient) = left /\ layer = "plain"
      /\ authScheme = "VeNCrypt" /\ subAuthScheme \in Encrypted \cup Unencrypted \cup {"unset"}
  BY <1>2 DEF HandshakeInv, Script, Settling
<1>5. chosen \in Encrypted \cup Unencrypted \cup {"unset"}
  BY <1>3, <1>4, PreferAt
<1>6. Idle \/ serverAt = "closed"
  BY <1>2, SameTypesKept, ServerWaits DEF HandshakeInv, Turns, BeforeVeNCryptChoice
<1>7. serverAt \in {"veChoice", "closed"}
  BY <1>2, SameTypesKept, ServerWaits
<1>8. UNCHANGED <<subOffered, layer>> /\ Len(subOffered) \in Nat
  BY <1>1, SameTypesKept DEF server, offers, ChannelTypes
<1>9. left' \in 0 .. MaxTypes /\ left \in Nat /\ left >= 1
  BY <1>1, <1>4, <1>8, HandshakeAssumption DEF Rest
<1>10. CASE left > 1
  <2>1. at' = "veType" /\ toServer' = toServer
    BY <1>3, <1>10, SameTypesKept, GoesWaits
  <2>2. Rest("veType", subOffered)' /\ Len(toClient') = left'
    BY <1>1, <1>2, <1>4, <1>8, <1>10, ListGoesOn DEF Rest
  <2>3. Script'
    BY <2>1, <2>2 DEF Script
  <2>4. Settling'
    BY <1>1, <1>2, <1>3, <1>4, <1>5, <2>1 DEF HandshakeInv, Settling, server
  <2>5. Turns'
    BY <1>1, <1>2, <1>6, <1>7, <2>1 DEF HandshakeInv, Turns, server, BeforeVeNCryptChoice
  <2> QED BY <1>1, <1>2, <1>9, <1>10, <2>1, <2>3, <2>4, <2>5, SameTypesKept, ClientStep DEF Phases
<1>11. CASE left = 1 /\ chosen = "unset"
  <2>0. Goes(Waits("failed"), <<>>)
    BY <1>3, <1>11 DEF Fails
  <2>1. at' = "failed" /\ toServer' = toServer
    BY <2>0, SameTypesKept, GoesWaits
  <2> QED BY <1>1, <1>9, <2>1, SameTypesKept, GivesUp
<1>12. CASE left = 1 /\ chosen # "unset"
  <2> DEFINE m == Message("veChoice", chosen, layer)
  <2>1. /\ m \in Seq(Messages) /\ Len(m) = 1
        /\ m[1] = [kind |-> "veChoice", value |-> chosen, layer |-> "plain"]
    <3>1. chosen \in Values
      BY <1>5, <1>12 DEF Values
    <3>2. "veChoice" \in Kinds
      BY DEF Kinds
    <3> QED BY <1>4, <3>1, <3>2, OneMessage
  <2>2. Goes(Waits(AfterChoice(chosen).at), m)
    BY <1>3, <1>12, AfterChoiceAt
  <2> HIDE DEF m
  <2>3. at' = AfterChoice(chosen).at /\ toServer' = toServer \o m /\ toServer' \in Seq(Messages)
    BY <2>1, <2>2, SameTypesKept, GoesWaits
  <2>4. Len(toServer') = Len(toServer) + 1 /\ toServer'[Len(toServer) + 1] = m[1]
    BY <2>1, <2>3, SameTypesKept, JoinedOne
  <2>5. /\ chosen \in Encrypted \cup Unencrypted
        /\ at' \in {"result", "challenge", "ask", "veAck"}
        /\ at' = "veAck" => chosen \in Encrypted
        /\ at' # "veAck" => chosen \in Unencrypted
    BY <1>5, <1>12, <2>3, AfterChoiceAt DEF Encrypted, Unencrypted
  <2>6. Len(toClient') = 0
    BY <1>2, <1>4, <1>12
  <2>7. Script'
    BY <2>5, <2>6 DEF Script
  <2>8. Settling'
    BY <1>1, <1>2, <1>3, <1>4, <2>5 DEF HandshakeInv, Settling, server
  <2>9. Turns'
    BY <1>1, <1>2, <1>3, <1>6, <1>7, <2>1, <2>3, <2>4, <2>5, <2>6 DEF HandshakeInv, Turns, server, BeforeVeNCryptChoice
  <2> QED BY <1>1, <1>2, <1>9, <2>3, <2>5, <2>7, <2>8, <2>9, SameTypesKept, ClientStep DEF Phases
<1> QED BY <1>9, <1>10, <1>11, <1>12

LEMMA VeNCryptAckStep == ASSUME HandshakeInv, ReadVeNCryptAck PROVE HandshakeInv'
<1>1. Reads("veAck")
      /\ UNCHANGED <<layer, version, authScheme, subAuthScheme, left, messages, answer, server>>
  BY DEF ReadVeNCryptAck
<1>2. /\ at = "veAck" /\ toClient' \in Seq(Messages) /\ Received = toClient[1].value
      /\ Len(toClient) \in Nat \ {0} /\ Len(toClient') = Len(toClient) - 1
  BY <1>1, SameTypesKept, ReadOne
<1>3. CASE Received # "ok" \/ subAuthScheme \in WithCertificate
  <2>1. Goes(Waits("failed"), <<>>)
    BY <1>3 DEF ReadVeNCryptAck, Fails
  <2> QED BY <1>1, <2>1, SameTypesKept, GoesWaits, GivesUp
<1>4. CASE Received = "ok" /\ subAuthScheme \notin WithCertificate
  <2>1. Goes([at |-> "tls", says |-> Bare("tls", layer)], <<>>)
    BY <1>4 DEF ReadVeNCryptAck
  <2>2. /\ at' = "tls" /\ toServer' \in Seq(Messages) /\ Len(toServer') = Len(toServer) + 1
        /\ toServer'[Len(toServer) + 1] = [kind |-> "tls", value |-> "tls", layer |-> layer]
    <3>1. "tls" \in Kinds
      BY DEF Kinds
    <3> QED BY <2>1, <3>1, SameTypesKept, GoesSayingOnly
  <2>3. /\ Len(toClient) = 1 /\ layer = "plain" /\ authScheme = "VeNCrypt"
        /\ subAuthScheme \in Encrypted
    BY <1>2 DEF HandshakeInv, Script, Settling
  <2>4. Script'
    BY <1>2, <2>2, <2>3 DEF Script
  <2>5. Settling'
    BY <1>1, <1>2, <1>4, <2>2, <2>3 DEF HandshakeInv, Settling, server, Anonymous
  <2>6. serverAt \in {"tls", "closed"}
    BY <1>2, SameTypesKept, ServerWaits
  <2>7. Turns'
    BY <1>1, <1>2, <2>2, <2>3, <2>6 DEF HandshakeInv, Turns, server, offers, BeforeTLS, Is
  <2> QED BY <1>1, <1>2, <2>2, <2>4, <2>5, <2>7, SameTypesKept, ClientStep DEF Phases
<1> QED BY <1>3, <1>4

LEMMA TLSStep == ASSUME HandshakeInv, HandshakeTLS PROVE HandshakeInv'
<1>1. /\ Reads("tls") /\ layer' = "tls"
      /\ Goes(IF authScheme = "TLS" THEN Waits("count") ELSE StartSub(subAuthScheme), <<>>)
      /\ UNCHANGED <<version, authScheme, subAuthScheme, left, messages, answer, server>>
  BY DEF HandshakeTLS
<1>2. /\ at = "tls" /\ toClient' \in Seq(Messages)
      /\ Len(toClient) \in Nat \ {0} /\ Len(toClient') = Len(toClient) - 1
      /\ \A i \in 1 .. Len(toClient) - 1 : toClient'[i] = toClient[i + 1]
  BY <1>1, SameTypesKept, ReadOne
<1>3. \/ authScheme = "TLS" /\ subAuthScheme = "unset"
      \/ authScheme = "VeNCrypt" /\ subAuthScheme \in Anonymous
  BY <1>2 DEF HandshakeInv, Settling
<1>4. serverAt \in {"choice", "response", "clientInit", "closed"}
  BY <1>2, SameTypesKept, ServerWaits
<1>5. CASE authScheme = "TLS"
  <2>1. Goes(Waits("count"), <<>>)
    BY <1>1, <1>5
  <2>2. at' = "count" /\ toServer' = toServer
    BY <2>1, SameTypesKept, GoesWaits
  <2>3. Counted(2, "count", "type", subOffered, "tls")
    BY <1>2, <1>5 DEF HandshakeInv, Script
  <2>4. Counted(1, "count", "type", subOffered, "tls")' /\ List' = subOffered'
    <3>1. subOffered \in Seq(SecurityTypes \cup VeNCryptTypes) /\ UNCHANGED subOffered
      BY <1>1, SameTypesKept DEF ChannelTypes, server, offers
    <3> QED BY <1>1, <1>2, <2>3, <3>1, CountedNext DEF List
  <2>5. Script'
    BY <1>1, <2>2, <2>4 DEF Script
  <2>6. Settling'
    BY <1>1, <1>2, <1>3, <1>5, <2>2 DEF HandshakeInv, Settling, server
  <2>7. toClient'[1].value # 0 /\ Len(toClient') > 0
    BY <2>4, HandshakeAssumption DEF Counted
  <2>8. serverAt \in {"choice", "closed"}
    BY <1>2, <1>4, <1>5 DEF HandshakeInv, Turns, BeforeResponse, BeforeClientInit
  <2>9. Turns'
    BY <1>1, <1>2, <1>5, <2>2, <2>7, <2>8 DEF HandshakeInv, Turns, server, offers, BeforeChoice
  <2> QED BY <1>1, <1>2, <2>2, <2>5, <2>6, <2>9, SameTypesKept, ClientStep DEF Phases
<1>6. CASE authScheme = "VeNCrypt" /\ subAuthScheme \in Anonymous
  <2>1. Goes(Waits(StartSub(subAuthScheme).at), <<>>)
    BY <1>1, <1>6, AfterChoiceAt
  <2>2. at' = StartSub(subAuthScheme).at /\ toServer' = toServer
    BY <2>1, SameTypesKept, GoesWaits
  <2>3. Opens(2, StartSub(subAuthScheme).at, "tls")
    BY <1>2, <1>6 DEF HandshakeInv, Script
  <2>4. /\ at' \in {"result", "challenge", "ask"}
        /\ at' = "result" => subAuthScheme \in Free
        /\ at' = "challenge" => subAuthScheme \in Challenged
        /\ subAuthScheme \in Challenged => at' = "challenge"
        /\ subAuthScheme \in Free => at' = "result"
        /\ subAuthScheme \in Plain => at' = "ask"
    BY <2>2, AfterChoiceAt DEF Free, Challenged, Plain
  <2>5. /\ Len(toClient') \in {0, 1}
        /\ Len(toClient') = 1 => /\ at' \in {"result", "challenge"} /\ Is(toClient', 1, at', "tls")
                                 /\ at' = "result" => toClient'[1].value = "ok"
    BY <1>2, <2>2, <2>3, <2>4 DEF Opens, Is
  <2>6. Script'
    <3>1. CASE at' = "result"
      BY <1>1, <2>5, <3>1 DEF Script, Is
    <3>2. CASE at' = "challenge"
      <4>1. Len(toClient') <= 1 /\ (Len(toClient') = 1 => Is(toClient, 1, at, layer)')
        <5>1. layer' = "tls" /\ Len(toClient') <= 1
          BY <1>1, <2>5
        <5>2. Len(toClient') = 1 => toClient'[1].kind = "challenge" /\ toClient'[1].layer = "tls"
          BY <2>5, <3>2 DEF Is
        <5> QED BY <3>2, <5>1, <5>2 DEF Is
      <4> QED BY <3>2, <4>1 DEF Script
    <3>3. CASE at' = "ask"
      BY <1>1, <2>5, <3>3 DEF Script
    <3> QED BY <2>4, <3>1, <3>2, <3>3
  <2>7. Settling'
    BY <1>1, <1>2, <1>6, <2>4 DEF HandshakeInv, Settling, server
  <2>8. serverAt \in {"response", "clientInit", "closed"}
    BY <1>2, <1>4, <1>6 DEF HandshakeInv, Turns, BeforeChoice
  <2>9. Turns'
    <3>1. CASE serverAt = "response"
      BY <1>1, <1>2, <1>6, <2>2, <2>4, <2>5, <3>1 DEF HandshakeInv, Turns, server, offers, BeforeResponse
    <3>2. CASE serverAt = "clientInit"
      BY <1>1, <1>2, <1>6, <2>2, <2>4, <2>5, <3>2 DEF HandshakeInv, Turns, server, offers, BeforeClientInit
    <3>3. CASE serverAt = "closed"
      BY <1>1, <2>4, <3>3 DEF HandshakeInv, Turns, server
    <3> QED BY <2>8, <3>1, <3>2, <3>3
  <2> QED BY <1>1, <1>2, <2>2, <2>4, <2>6, <2>7, <2>9, SameTypesKept, ClientStep DEF Phases
<1> QED BY <1>3, <1>5, <1>6

\* What the client answers a version with is what the server takes it for.
LEMMA ReplyAt ==
  ASSUME serverVersion \in Nat
  PROVE  /\ ReplyTo(serverVersion) \in Nat /\ Own = ReplyTo(serverVersion)
         /\ Lower(ReplyTo(serverVersion)) = ReplyTo(serverVersion)
<1>1. ReplyTo(serverVersion) \in Nat /\ Own = ReplyTo(serverVersion)
  BY DEF ReplyTo, Own
<1> QED BY <1>1 DEF Lower

LEMMA VersionStep == ASSUME HandshakeInv, ReadVersion PROVE HandshakeInv'
<1>1. Reads("version") /\ UNCHANGED <<layer, authScheme, subAuthScheme, left, answer, server>>
  BY DEF ReadVersion
<1>2. /\ at = "version" /\ toClient' \in Seq(Messages) /\ Received = toClient[1].value
      /\ Len(toClient) \in Nat \ {0} /\ Len(toClient') = Len(toClient) - 1
  BY <1>1, SameTypesKept, ReadOne
<1>3. /\ Len(toClient) = 1 /\ Received = serverVersion /\ serverVersion \in Nat
      /\ layer = "plain" /\ authScheme = "unset" /\ subAuthScheme = "unset"
  BY <1>2 DEF HandshakeInv, Script, Settling, ChannelTypes
<1>4. CASE Received = 0
  <2>1. Goes(Waits("failed"), <<>>) /\ UNCHANGED <<version, messages>>
    BY <1>4 DEF ReadVersion, Fails
  <2> QED BY <1>1, <2>1, SameTypesKept, GoesWaits, GivesUp
<1>5. CASE Received # 0
  <2>1. PICK reply : reply = ReplyTo(serverVersion)
    OBVIOUS
  <2>2. /\ version' = reply /\ messages' = Detected(Received)
        /\ Goes(Waits(IF reply > 3006 THEN "count" ELSE "scheme"), Message("version", reply, layer))
    BY <1>3, <1>5, <2>1 DEF ReadVersion
  <2>3. reply \in Nat
    BY <1>3, <2>1, ReplyAt
  <2> DEFINE m == Message("version", reply, layer)
  <2>4. m \in Seq(Messages) /\ Len(m) = 1 /\ m[1] = [kind |-> "version", value |-> reply, layer |-> "plain"]
    <3>1. reply \in Values /\ "version" \in Kinds
      BY <2>3 DEF Values, Kinds
    <3> QED BY <1>3, <3>1, OneMessage
  <2> HIDE DEF m
  <2>5. /\ at' = (IF reply > 3006 THEN "count" ELSE "scheme")
        /\ toServer' = toServer \o m /\ toServer' \in Seq(Messages)
    BY <2>2, <2>4, SameTypesKept, GoesWaits DEF m
  <2>6. Len(toServer') = Len(toServer) + 1 /\ toServer'[Len(toServer) + 1] = m[1]
    BY <2>4, <2>5, SameTypesKept, JoinedOne
  <2>7. messages' \in {"default", "ultra", "tight"}
    BY <2>2 DEF Detected
  <2>8. at' \in {"count", "scheme"} /\ Len(toClient') = 0
    BY <1>2, <1>3, <2>5
  <2>9. Script'
    BY <2>8 DEF Script
  <2>10. Settling'
    BY <1>1, <1>2, <1>3, <2>1, <2>2, <2>3, <2>5 DEF HandshakeInv, Settling, server
  <2>11. serverAt \in {"version", "closed"}
    BY <1>2, SameTypesKept, ServerWaits
  <2>12. Turns'
    BY <1>1, <1>2, <1>3, <2>2, <2>4, <2>5, <2>6, <2>8, <2>11 DEF HandshakeInv, Turns, server, offers, BeforeVersion
  <2> QED BY <1>1, <1>2, <2>2, <2>3, <2>5, <2>7, <2>8, <2>9, <2>10, <2>12, SameTypesKept, ClientStep DEF Phases
<1> QED BY <1>4, <1>5

LEMMA CountStep == ASSUME HandshakeInv, ReadCount PROVE HandshakeInv'
<1>1. /\ Reads("count") /\ left' = Received
      /\ Goes(Waits(IF Received = 0 THEN "reason" ELSE "type"), <<>>)
      /\ UNCHANGED <<layer, version, authScheme, subAuthScheme, messages, answer, server>>
  BY DEF ReadCount
<1>2. /\ at = "count" /\ toClient' \in Seq(Messages) /\ Received = toClient[1].value
      /\ Len(toClient) \in Nat \ {0} /\ Len(toClient') = Len(toClient) - 1
      /\ \A i \in 1 .. Len(toClient) - 1 : toClient'[i] = toClient[i + 1]
  BY <1>1, SameTypesKept, ReadOne
<1>3. /\ at' = (IF Received = 0 THEN "reason" ELSE "type") /\ toServer' = toServer
  <2>1. PICK k : k = IF Received = 0 THEN "reason" ELSE "type"
    OBVIOUS
  <2>2. Goes(Waits(k), <<>>)
    BY <1>1, <2>1
  <2>3. at' = k /\ toServer' = toServer
    BY <2>2, SameTypesKept, GoesWaits
  <2> QED BY <2>1, <2>3
<1>4. serverAt \in {"choice", "closed"}
  BY <1>2, SameTypesKept, ServerWaits
<1>5. Chosen = "unset" /\ UNCHANGED <<List, Chosen>> /\ (layer = "tls" => authScheme = "TLS")
  BY <1>1, <1>2, SameTypesKept DEF HandshakeInv, Settling, Chosen, List, server, offers
<1>6. Settling'
  BY <1>1, <1>2, <1>3, <1>5 DEF HandshakeInv, Settling, server, Chosen
<1>7. CASE Counted(1, "count", "type", List, layer)
  <2>1. left' = Len(List) /\ left' \in 1 .. MaxTypes
    BY <1>1, <1>2, <1>7 DEF Counted
  <2>2. at' = "type" /\ left' \in 0 .. MaxTypes /\ left' > 0
    BY <1>1, <1>3, <2>1, HandshakeAssumption
  <2>3. Rest("type", List)' /\ Len(toClient') = left'
    BY <1>1, <1>2, <1>5, <1>7, <2>1, ListBegins DEF Rest
  <2>4. Script'
    BY <1>5, <2>2, <2>3 DEF Script
  <2>5. Turns'
    BY <1>1, <1>2, <1>3, <1>4, <1>5, <2>2 DEF HandshakeInv, Turns, server, offers, BeforeChoice
  <2> QED BY <1>1, <1>2, <1>3, <1>6, <2>2, <2>4, <2>5, SameTypesKept, ClientStep DEF Phases
<1>8. CASE /\ layer = "plain" /\ toClient[1].value = 0 /\ Is(toClient, 1, "count", "plain")
           /\ Len(toClient) = 2 /\ Is(toClient, 2, "reason", "plain")
  <2>1. at' = "reason" /\ left' = 0
    BY <1>1, <1>2, <1>3, <1>8
  <2>2. toClient'[1] = toClient[2]
    BY <1>2, <1>8
  <2>3. Script'
    BY <1>1, <1>2, <1>8, <2>1, <2>2 DEF Script, Is
  <2>4. serverAt = "closed"
    BY <1>2, <1>4, <1>8 DEF HandshakeInv, Turns, BeforeChoice
  <2>5. Turns'
    BY <1>1, <2>1, <2>4 DEF HandshakeInv, Turns, server
  <2>6. left' \in 0 .. MaxTypes
    BY <2>1, HandshakeAssumption
  <2> QED BY <1>1, <1>2, <1>3, <1>6, <2>1, <2>3, <2>5, <2>6, SameTypesKept, ClientStep DEF Phases
<1> QED BY <1>2, <1>7, <1>8 DEF HandshakeInv, Script

LEMMA SchemeStep == ASSUME HandshakeInv, ReadScheme PROVE HandshakeInv'
<1>1. /\ Reads("scheme") /\ authScheme' = Received
      /\ UNCHANGED <<layer, version, subAuthScheme, left, messages, answer, server>>
  BY DEF ReadScheme
<1>2. /\ at = "scheme" /\ toClient' \in Seq(Messages) /\ Received = toClient[1].value
      /\ Len(toClient) \in Nat \ {0} /\ Len(toClient') = Len(toClient) - 1
      /\ \A i \in 1 .. Len(toClient) - 1 : toClient'[i] = toClient[i + 1]
  BY <1>1, SameTypesKept, ReadOne
<1>3. layer = "plain" /\ authScheme = "unset" /\ subAuthScheme = "unset" /\ version <= 3006
  BY <1>2 DEF HandshakeInv, Settling
<1>4. serverAt \in {"tls", "veVersion", "response", "clientInit", "closed"}
  BY <1>2, SameTypesKept, ServerWaits
<1>5. /\ serverAt # "closed" => Idle /\ spoken = version
      /\ serverAt = "tls" => /\ Plainly /\ settled = "TLS" /\ subSettled = "unset" /\ subOffered = <<>>
                             /\ Received = "TLS" /\ Len(toClient) = 1
      /\ serverAt = "veVersion" => /\ Plainly /\ settled = "VeNCrypt" /\ subSettled = "unset" /\ subOffered = <<>>
                                   /\ Received = "VeNCrypt" /\ Len(toClient) = 2
      /\ serverAt = "response" => /\ Plainly /\ settled = Received /\ subSettled = "unset"
                                  /\ Received \in Challenged /\ Len(toClient) = 2
      /\ serverAt = "clientInit" => /\ Plainly /\ settled = Received /\ subSettled = "unset"
                                    /\ Received = "None" /\ Len(toClient) = 1
  BY <1>2, <1>4 DEF HandshakeInv, Turns, BeforeTLS, BeforeVeNCryptVersion, BeforeResponse, BeforeClientInit
<1>6. CASE Received = "ConnFailed"
  <2>1. Goes(Waits("reason"), <<>>)
    BY <1>6 DEF ReadScheme
  <2>2. at' = "reason" /\ toServer' = toServer
    BY <2>1, SameTypesKept, GoesWaits
  <2>3. Len(toClient) <= 2 /\ (Len(toClient) = 2 => Is(toClient, 2, "reason", "plain"))
    BY <1>2, <1>6 DEF HandshakeInv, Script
  <2>4. Len(toClient') <= 1 /\ (Len(toClient') = 1 => Is(toClient, 1, at, layer)')
    <3>1. ASSUME Len(toClient') = 1 PROVE toClient'[1] = toClient[2]
      <4>1. Len(toClient) - 1 = 1
        BY <1>2, <3>1
      <4>2. 1 \in 1 .. Len(toClient) - 1
        BY ONLY <4>1
      <4>3. toClient'[1] = toClient[1 + 1]
        BY <1>2, <4>2
      <4> QED BY <4>3
    <3>2. layer' = "plain"
      BY <1>1, <1>3
    <3> QED BY <1>2, <2>2, <2>3, <3>1, <3>2 DEF Is
  <2>5. Script'
    BY <2>2, <2>4 DEF Script
  <2>6. Settling'
    BY <1>1, <1>2, <2>2 DEF HandshakeInv, Settling, server
  <2>7. serverAt = "closed"
    BY <1>4, <1>5, <1>6 DEF Challenged
  <2>8. Turns'
    BY <1>1, <2>2, <2>7 DEF HandshakeInv, Turns, server
  <2> QED BY <1>1, <1>2, <2>2, <2>5, <2>6, <2>8, SameTypesKept, ClientStep DEF Phases
<1>7. CASE Received # "ConnFailed"
  <2>1. Goes(Start(Received), <<>>)
    BY <1>7 DEF ReadScheme
  <2>2. /\ at' = Start(Received).at /\ toServer' \in Seq(Messages)
        /\ Len(toServer') = Len(toServer) + Extra'
        /\ Extra' = 1 =>
             toServer'[Len(toServer) + 1] = [kind |-> IF at' = "tls" THEN "tls" ELSE "clientInit",
                                             value |-> IF at' = "tls" THEN "tls" ELSE "clientInit",
                                             layer |-> layer]
    BY <2>1, SameTypesKept, GoesStartOnly
  <2>3. Opens(2, at', "plain")
    BY <1>2, <1>7, <2>2 DEF HandshakeInv, Script
  <2>4. /\ at' = "serverInit" <=> Received = "None"
        /\ at' = "challenge" <=> Received \in Challenged
        /\ at' = "tls" <=> Received = "TLS"
        /\ at' = "veVersion" <=> Received = "VeNCrypt"
        /\ at' \in {"serverInit", "challenge", "tls", "veVersion", "failed"}
    <3>1. ~(version > 3007)
      BY <1>3, SameTypesKept
    <3> QED BY <1>3, <2>2, <3>1, StartAt DEF Challenged
  <2>5. CASE at' = "failed"
    BY <1>1, <2>2, <2>5, SameTypesKept, GivesUp
  <2>6. CASE at' # "failed"
    <3>1. /\ Len(toClient') \in {0, 1}
          /\ Len(toClient') = 1 => at' \in {"challenge", "veVersion"} /\ Is(toClient, 1, at, layer)'
      <4>1. Len(toClient) = 1 \/ (/\ Len(toClient) = 2 /\ at' \in {"challenge", "veVersion"}
                                  /\ Is(toClient, 2, at', "plain"))
        BY <2>3, <2>4, <2>6 DEF Opens
      <4>2. CASE Len(toClient) = 1
        BY <1>2, <4>2
      <4>3. CASE Len(toClient) = 2 /\ at' \in {"challenge", "veVersion"} /\ Is(toClient, 2, at', "plain")
        <5>1. toClient'[1] = toClient[2] /\ layer' = "plain" /\ Len(toClient') = 1
          BY <1>1, <1>2, <1>3, <4>3
        <5> QED BY <4>3, <5>1 DEF Is
      <4> QED BY <4>1, <4>2, <4>3
    <3>2. Script'
      <4>1. CASE at' \in {"challenge", "veVersion"}
        <5>1. Len(toClient') <= 1 /\ (Len(toClient') = 1 => Is(toClient, 1, at, layer)')
          BY <1>2, <3>1
        <5> QED BY <4>1, <5>1 DEF Script
      <4>2. CASE at' \in {"serverInit", "tls"}
        <5>1. Len(toClient') = 0
          BY <3>1, <4>2
        <5> QED BY <4>2, <5>1 DEF Script
      <4> QED BY <2>4, <2>6, <4>1, <4>2
    <3>3. Settling'
      BY <1>1, <1>2, <1>3, <2>4, <2>6 DEF HandshakeInv, Settling, server
    <3>4. Turns'
      <4>1. CASE serverAt = "tls"
        BY <1>1, <1>2, <1>3, <1>5, <2>2, <2>4, <4>1 DEF HandshakeInv, Turns, server, offers, BeforeTLS, Extra, Is
      <4>2. CASE serverAt = "veVersion"
        BY <1>1, <1>2, <1>3, <1>5, <2>2, <2>4, <4>2 DEF HandshakeInv, Turns, server, offers, BeforeVeNCryptVersion, Extra
      <4>3. CASE serverAt = "response"
        BY <1>1, <1>2, <1>3, <1>5, <2>2, <2>4, <4>3 DEF HandshakeInv, Turns, server, BeforeResponse, Extra
      <4>4. CASE serverAt = "clientInit"
        <5>1. /\ at' = "serverInit" /\ Len(toServer') = 1 /\ Len(toClient') = 0
              /\ Is(toServer, 1, "clientInit", layer)'
          BY <1>1, <1>2, <1>5, <2>2, <2>4, <4>4 DEF Extra, Is
        <5>2. /\ serverAt' = serverAt /\ spoken' = version' /\ serverLayer' = layer'
              /\ settled' = authScheme' /\ subSettled' = subAuthScheme'
          BY <1>1, <1>3, <1>5, <4>4 DEF server
        <5> QED BY <4>4, <5>1, <5>2 DEF Turns, BeforeClientInit
      <4>5. CASE serverAt = "closed"
        BY <1>1, <2>4, <3>1, <4>5 DEF HandshakeInv, Turns, server
      <4> QED BY <1>4, <4>1, <4>2, <4>3, <4>4, <4>5
    <3> QED BY <1>1, <1>2, <2>2, <2>4, <3>2, <3>3, <3>4, SameTypesKept, ClientStep DEF Phases
  <2> QED BY <2>5, <2>6
<1> QED BY <1>6, <1>7

\* What a turn of the loop of ReadSupportedSecurityType() starts from.
LEMMA TypeRead ==
  ASSUME HandshakeInv, ReadType
  PROVE  /\ at = "type" /\ toClient' \in Seq(Messages)
         /\ Len(toClient) \in Nat \ {0} /\ Len(toClient') = Len(toClient) - 1
         /\ \A i \in 1 .. Len(toClient) - 1 : toClient'[i] = toClient[i + 1]
         /\ left' = left - 1 /\ left \in Nat \ {0} /\ left' \in 0 .. MaxTypes
         /\ UNCHANGED <<layer, version, answer, server, List>>
         /\ Chosen' = Select(Received)
         /\ IF layer = "plain" THEN authScheme' = Chosen' /\ subAuthScheme = "unset" /\ subAuthScheme' = "unset"
            ELSE subAuthScheme' = Chosen' /\ authScheme = "TLS" /\ authScheme' = "TLS"
         /\ messages' \in {"default", "ultra", "tight"}
         /\ Rest("type", List) /\ Len(List) \in Nat
         /\ IF Chosen = "unset" THEN Len(toClient) = left
            ELSE Opens(left + 1, Start(Chosen).at, layer)
         /\ Chosen # "unset" => Supported(Chosen)
<1>1. /\ Reads("type") /\ left' = left - 1
      /\ messages' = MessagesAfter(Received)
      /\ IF layer = "tls" THEN subAuthScheme' = Select(Received) /\ UNCHANGED authScheme
         ELSE authScheme' = Select(Received) /\ UNCHANGED subAuthScheme
      /\ UNCHANGED <<layer, version, answer, server>>
  BY DEF ReadType
<1>2. /\ at = "type" /\ toClient' \in Seq(Messages)
      /\ Len(toClient) \in Nat \ {0} /\ Len(toClient') = Len(toClient) - 1
      /\ \A i \in 1 .. Len(toClient) - 1 : toClient'[i] = toClient[i + 1]
  BY <1>1, SameTypesKept, ReadOne
<1>3. /\ Rest("type", List)
      /\ IF Chosen = "unset" THEN Len(toClient) = left
         ELSE Opens(left + 1, Start(Chosen).at, layer)
  BY <1>2 DEF HandshakeInv, Script
<1>4. IF layer = "plain"
      THEN /\ authScheme \in {"unset", "None", "VncAuth", "ARD", "TLS", "VeNCrypt"}
           /\ subAuthScheme = "unset"
      ELSE authScheme = "TLS" /\ subAuthScheme \in {"unset", "None", "VncAuth", "ARD"}
  BY <1>2 DEF HandshakeInv, Settling
<1>5. Len(List) \in Nat /\ UNCHANGED List
  BY <1>1, SameTypesKept DEF ChannelTypes, List, server, offers
<1>6. left \in Nat \ {0} /\ left' \in 0 .. MaxTypes
  BY <1>1, <1>3, <1>5, HandshakeAssumption DEF Rest
<1>7. messages' \in {"default", "ultra", "tight"}
  BY <1>1, SameTypesKept DEF MessagesAfter
<1>8. Chosen' = Select(Received)
  BY <1>1 DEF Chosen
<1>9. /\ IF layer = "plain" THEN authScheme' = Chosen' /\ subAuthScheme = "unset" /\ subAuthScheme' = "unset"
         ELSE subAuthScheme' = Chosen' /\ authScheme = "TLS" /\ authScheme' = "TLS"
  BY <1>1, <1>4, SameTypesKept DEF Chosen
<1>10. Chosen # "unset" => Supported(Chosen)
  BY <1>4, SameTypesKept DEF Chosen, Supported
<1> QED BY <1>1, <1>2, <1>3, <1>5, <1>6, <1>7, <1>8, <1>9, <1>10

\* Where the server is when nothing, or something, has been chosen.
LEMMA TypeTurns ==
  ASSUME HandshakeInv, at = "type"
  PROVE  /\ serverAt \in {"choice", "tls", "veVersion", "response", "clientInit", "closed"}
         /\ Chosen = "unset" => serverAt \in {"choice", "closed"}
         /\ serverAt # "closed" => SameLayer /\ spoken = version
         /\ serverAt = "choice" =>
              /\ subSettled = "unset"
              /\ IF serverLayer = "plain"
                 THEN settled = "unset" /\ subOffered = <<>>
                 ELSE settled = "TLS"
              /\ IF Chosen = "unset" THEN Idle
                 ELSE /\ Len(toServer) = 1 /\ Len(toClient) = left
                      /\ toServer[1] = [kind |-> "choice", value |-> Chosen, layer |-> layer]
         /\ serverAt \in {"tls", "veVersion", "response", "clientInit"} => SameTypes /\ Idle
         /\ serverAt = "tls" => layer = "plain" /\ Chosen = "TLS" /\ Len(toClient) = left /\ subOffered = <<>>
         /\ serverAt = "veVersion" =>
              layer = "plain" /\ Chosen = "VeNCrypt" /\ Len(toClient) = left + 1 /\ subOffered = <<>>
         /\ serverAt = "response" => Chosen \in Challenged /\ Len(toClient) = left + 1
         /\ serverAt = "clientInit" =>
              Chosen = "None" /\ Len(toClient) = IF version > 3007 THEN left + 1 ELSE left
<1>1. serverAt \in {"choice", "tls", "veVersion", "response", "clientInit", "closed"}
  BY SameTypesKept, ServerWaits
<1>2. ~Supported("unset")
  BY DEF Supported
<1>3. IF layer = "plain" THEN subAuthScheme = "unset" /\ Chosen = authScheme
      ELSE authScheme = "TLS" /\ Chosen = subAuthScheme
  BY SameTypesKept DEF HandshakeInv, Settling, Chosen
<1>4. CASE serverAt = "choice"
  <2>1. BeforeChoice /\ spoken = version
    BY <1>4 DEF HandshakeInv, Turns
  <2> QED BY <1>2, <1>4, <2>1, StartAt DEF BeforeChoice
<1>5. CASE serverAt = "tls"
  BY <1>3, <1>5 DEF HandshakeInv, Turns, BeforeTLS
<1>6. CASE serverAt = "veVersion"
  BY <1>3, <1>6 DEF HandshakeInv, Turns, BeforeVeNCryptVersion
<1>7. CASE serverAt = "response"
  <2>1. "unset" \notin Challenged
    BY DEF Challenged
  <2> QED BY <1>7, <2>1 DEF HandshakeInv, Turns, BeforeResponse
<1>8. CASE serverAt = "clientInit"
  BY <1>8 DEF HandshakeInv, Turns, BeforeClientInit
<1>9. CASE serverAt = "closed"
  BY <1>9
<1> QED BY <1>1, <1>4, <1>5, <1>6, <1>7, <1>8, <1>9

LEMMA TypeSettles ==
  ASSUME HandshakeInv, at = "type", NEW c, UNCHANGED <<layer, version, serverVersion>>,
         IF layer = "plain" THEN authScheme' = c /\ subAuthScheme' = "unset"
         ELSE subAuthScheme' = c /\ authScheme' = "TLS",
         c = "unset" \/ Supported(c),
         at' = "type" \/ (at' = Start(c).at /\ at' # "failed")
  PROVE  Settling'
<1>1. version = ReplyTo(serverVersion) /\ layer \in {"plain", "tls"}
  BY SameTypesKept DEF HandshakeInv, Settling
<1>2. ReplyTo(serverVersion)' = ReplyTo(serverVersion)
  BY DEF ReplyTo
<1>3. CASE at' = "type"
  BY <1>1, <1>2, <1>3 DEF Settling, Supported
<1>4. CASE at' = Start(c).at /\ at' # "failed"
  <2>1. /\ at' \in {"result", "serverInit"} => c = "None"
        /\ at' = "challenge" => c \in Challenged /\ (layer = "tls" => c = "VncAuth")
        /\ at' = "tls" => c = "TLS" /\ layer = "plain"
        /\ at' = "veVersion" => c = "VeNCrypt" /\ layer = "plain"
        /\ at' \in {"result", "serverInit", "challenge", "tls", "veVersion"}
    BY <1>4, StartAt
  <2> QED BY <1>1, <1>2, <2>1 DEF Settling
<1> QED BY <1>3, <1>4

\* One more type, when one has been chosen before or this one is not supported.
LEMMA TypePassedStep ==
  ASSUME HandshakeInv, ReadType, Chosen' = Chosen,
         Goes(IF left > 1 THEN Waits("type") ELSE Start(Chosen), <<>>)
  PROVE  HandshakeInv'
<1>1. /\ at = "type" /\ toClient' \in Seq(Messages)
      /\ Len(toClient) \in Nat \ {0} /\ Len(toClient') = Len(toClient) - 1
      /\ \A i \in 1 .. Len(toClient) - 1 : toClient'[i] = toClient[i + 1]
      /\ left' = left - 1 /\ left \in Nat \ {0} /\ left' \in 0 .. MaxTypes
      /\ UNCHANGED <<layer, version, server, List>>
      /\ messages' \in {"default", "ultra", "tight"}
      /\ Rest("type", List) /\ Len(List) \in Nat
      /\ Chosen # "unset" => Supported(Chosen)
  BY TypeRead
<1>2. IF Chosen = "unset" THEN Len(toClient) = left ELSE Opens(left + 1, Start(Chosen).at, layer)
  BY TypeRead
<1>3. IF layer = "plain" THEN authScheme' = Chosen /\ subAuthScheme' = "unset"
      ELSE subAuthScheme' = Chosen /\ authScheme' = "TLS"
  BY TypeRead
<1>4. SameTypes => SameTypes'
  <2>1. IF layer = "plain" THEN subAuthScheme = "unset" ELSE authScheme = "TLS"
    BY TypeRead
  <2> QED BY <1>1, <1>3, <2>1, SameTypesKept DEF server, Chosen
<1>5. UNCHANGED <<serverAt, serverLayer, spoken, settled, subSettled, offered, subOffered, serverVersion>>
  BY <1>1 DEF server, offers
<1>6. /\ UNCHANGED Start(Chosen)
  BY <1>1 DEF Start, ClientInit, Waits, Bare, Message, Fails
<1>7. CASE left > 1
  <2>1. Goes(Waits("type"), <<>>)
    BY <1>7
  <2>2. at' = "type" /\ toServer' = toServer
    BY <2>1, SameTypesKept, GoesWaits
  <2>3. Rest("type", List)'
    <3>1. PICK list : list = List
      OBVIOUS
    <3>2. Rest("type", list) /\ Len(list) \in Nat /\ List' = list
      BY <1>1, <3>1
    <3>3. /\ left' \in 1 .. Len(list) /\ Len(list) <= MaxTypes /\ left' <= Len(toClient')
          /\ \A i \in 1 .. left' :
               toClient'[i] = [kind |-> "type", value |-> list[Len(list) - left' + i], layer |-> layer']
      BY <1>1, <1>7, <3>2, ListGoesOn
    <3> QED BY <3>2, <3>3 DEF Rest
  <2>4. (IF Chosen = "unset" THEN Len(toClient) = left ELSE Opens(left + 1, Start(Chosen).at, layer))'
    <3>1. CASE Chosen = "unset"
      BY <1>1, <1>2, <3>1
    <3>2. CASE Chosen # "unset"
      <4>1. Opens(left + 1, Start(Chosen).at, layer)
        BY <1>2, <3>2
      <4>2. Len(toClient) = left + 1 => toClient'[left] = toClient[left + 1]
        BY <1>1
      <4>3. Opens(left + 1, Start(Chosen).at, layer)'
        BY <1>1, <1>6, <4>1, <4>2 DEF Opens, Is
      <4> QED BY <3>2, <4>3
    <3> QED BY <3>1, <3>2
  <2>5. Script'
    BY <2>2, <2>3, <2>4 DEF Script
  <2>6. Settling'
    BY <1>1, <1>3, <1>5, <2>2, TypeSettles
  <2>7. Turns'
    <3>1. CASE serverAt = "choice"
      <4>1. BeforeChoice'
        BY <1>1, <1>3, <1>5, <2>2, <3>1, TypeTurns DEF BeforeChoice, Chosen, Supported
      <4> QED BY <1>1, <1>5, <2>2, <3>1, <4>1, TypeTurns DEF Turns
    <3>2. CASE serverAt = "tls"
      BY <1>1, <1>3, <1>4, <1>5, <2>2, <3>2, TypeTurns DEF Turns, BeforeTLS
    <3>3. CASE serverAt = "veVersion"
      <4>1. /\ layer = "plain" /\ Chosen = "VeNCrypt" /\ Len(toClient) = left + 1
            /\ subOffered = <<>> /\ SameTypes /\ SameLayer /\ Idle /\ spoken = version
        BY <1>1, <3>3, TypeTurns
      <4>2. authScheme' = "VeNCrypt" /\ subAuthScheme' = "unset" /\ SameTypes'
        BY <1>3, <1>4, <4>1
      <4>3. Len(toClient') = left' + 1 /\ Idle' /\ Plainly' /\ subOffered' = <<>>
        BY <1>1, <1>5, <2>2, <4>1
      <4>4. BeforeVeNCryptVersion'
        BY <2>2, <4>2, <4>3 DEF BeforeVeNCryptVersion
      <4> QED BY <1>1, <1>5, <2>2, <3>3, <4>1, <4>4 DEF Turns
    <3>4. CASE serverAt = "response"
      BY <1>1, <1>4, <1>5, <2>2, <3>4, TypeTurns DEF Turns, BeforeResponse
    <3>5. CASE serverAt = "clientInit"
      BY <1>1, <1>4, <1>5, <2>2, <3>5, TypeTurns DEF Turns, BeforeClientInit
    <3>6. CASE serverAt = "closed"
      BY <1>5, <2>2, <3>6 DEF Turns
    <3> QED BY <1>1, <3>1, <3>2, <3>3, <3>4, <3>5, <3>6, TypeTurns
  <2> QED BY <1>1, <1>7, <2>2, <2>5, <2>6, <2>7, SameTypesKept, ClientStep DEF Phases
<1>8. CASE left = 1
  <2>1. Goes(Start(Chosen), <<>>)
    BY <1>8
  <2>2. /\ at' = Start(Chosen).at /\ toServer' \in Seq(Messages)
        /\ Len(toServer') = Len(toServer) + Extra'
        /\ \A i \in 1 .. Len(toServer) : toServer'[i] = toServer[i]
        /\ Extra' = 1 =>
             /\ toServer'[Len(toServer) + 1] = Start(Chosen).says[1]
             /\ Start(Chosen).says[1] = [kind |-> IF at' = "tls" THEN "tls" ELSE "clientInit",
                                         value |-> IF at' = "tls" THEN "tls" ELSE "clientInit",
                                         layer |-> layer]
    BY <2>1, SameTypesKept, GoesStartOnly
  <2>3. CASE at' = "failed"
    <3>1. Reads("type")
      BY DEF ReadType
    <3> QED BY <1>1, <2>2, <2>3, <3>1, SameTypesKept, GivesUp
  <2>4. CASE at' # "failed"
    <3>1. /\ Chosen # "unset"
          /\ at' \in {"result", "serverInit"} <=> Chosen = "None"
          /\ at' = "result" => version > 3007
          /\ at' = "serverInit" => ~(version > 3007)
          /\ at' = "challenge" <=> Chosen \in Challenged
          /\ at' = "tls" <=> Chosen = "TLS"
          /\ at' = "veVersion" <=> Chosen = "VeNCrypt"
          /\ at' \in {"result", "serverInit", "challenge", "tls", "veVersion"}
      BY <2>2, <2>4, StartAt DEF Challenged
    <3>2. /\ Len(toClient') = 0 \/ Len(toClient') = 1
          /\ Len(toClient') = 1 =>
               /\ at' \in {"challenge", "result", "veVersion"} /\ Is(toClient, 1, at, layer)'
               /\ at' = "result" => toClient'[1].value = "ok"
      <4>1. Opens(2, at', layer)
        BY <1>2, <1>8, <2>2, <3>1
      <4>2. Len(toClient) = 2 => toClient'[1] = toClient[2]
        BY <1>1
      <4> QED BY <1>1, <2>4, <4>1, <4>2 DEF Opens, Is
    <3>3. Script'
      <4>1. CASE at' \in {"challenge", "veVersion"}
        BY <1>1, <3>2, <4>1 DEF Script
      <4>2. CASE at' \in {"serverInit", "tls"}
        <5>1. Len(toClient') = 0
          BY <3>2, <4>2
        <5> QED BY <4>2, <5>1 DEF Script
      <4>3. CASE at' = "result"
        <5>1. Len(toClient') = 1 => Is(toClient, 1, "result", layer)' /\ toClient'[1].value = "ok"
          BY <3>2, <4>3
        <5> QED BY <1>1, <3>2, <4>3, <5>1 DEF Script
      <4> QED BY <3>1, <4>1, <4>2, <4>3
    <3>4. Settling'
      BY <1>1, <1>3, <1>5, <2>2, <2>4, <3>1, TypeSettles
    <3>5. Turns'
      <4>1. CASE serverAt = "choice"
        <5>1. /\ Len(toServer) = 1 /\ Len(toClient) = 1 /\ subSettled = "unset" /\ SameLayer
              /\ toServer[1] = [kind |-> "choice", value |-> Chosen, layer |-> layer]
              /\ IF serverLayer = "plain" THEN settled = "unset" /\ subOffered = <<>> ELSE settled = "TLS"
              /\ spoken = version
          <6>1. /\ Len(toServer) = 1 /\ Len(toClient) = left /\ subSettled = "unset" /\ SameLayer
                /\ toServer[1] = [kind |-> "choice", value |-> Chosen, layer |-> layer]
                /\ spoken = version
            BY <1>1, <3>1, <4>1, TypeTurns
          <6>2. IF serverLayer = "plain" THEN settled = "unset" /\ subOffered = <<>> ELSE settled = "TLS"
            BY <1>1, <4>1, TypeTurns
          <6> QED BY <1>8, <6>1, <6>2
        <5>2. /\ Len(toClient') = 0 /\ Len(toServer') = 1 + Extra' /\ SameLayer'
              /\ toServer'[1] = [kind |-> "choice", value |-> Chosen', layer |-> layer']
              /\ Extra' = 1 => toServer'[2] = Start(Chosen).says[1]
          BY <1>1, <1>5, <2>2, <5>1
        <5>3. Start(Chosen)' = Start(Chosen)
          BY <1>6
        <5>4. IF (at \in {"serverInit", "tls"})'
              THEN Len(toServer') = 2 /\ toServer'[2] = Start(Chosen)'.says[1]
              ELSE Len(toServer') = 1
          BY <5>2, <5>3 DEF Extra
        <5>5. Supported(Chosen)'
          BY <1>1, <3>1 DEF Supported
        <5>6. IF serverLayer' = "plain"
              THEN settled' = "unset" /\ subAuthScheme' = "unset" /\ subOffered' = <<>>
              ELSE settled' = "TLS" /\ authScheme' = "TLS"
          BY <1>1, <1>3, <1>5, <5>1, SameTypesKept
        <5>7. BeforeChoice'
          BY <1>5, <2>2, <5>1, <5>2, <5>3, <5>4, <5>5, <5>6 DEF BeforeChoice
        <5> QED BY <1>1, <1>5, <3>1, <4>1, <5>1, <5>2, <5>7 DEF Turns
      <4>2. CASE serverAt = "tls"
        <5>1. /\ layer = "plain" /\ Chosen = "TLS" /\ Len(toClient) = 1 /\ subOffered = <<>>
              /\ SameTypes /\ SameLayer /\ Idle /\ spoken = version
          BY <1>1, <1>8, <4>2, TypeTurns
        <5>2. at' = "tls" /\ Extra' = 1 /\ Len(toClient') = 0 /\ Len(toServer') = 1
          BY <1>1, <2>2, <3>1, <5>1 DEF Extra
        <5>3. Is(toServer, 1, "tls", "plain")'
          BY <2>2, <5>1, <5>2 DEF Is
        <5>4. SameTypes' /\ Plainly' /\ authScheme' = "TLS" /\ subAuthScheme' = "unset" /\ subOffered' = <<>>
          BY <1>1, <1>3, <1>4, <1>5, <5>1
        <5>5. BeforeTLS'
          BY <5>2, <5>3, <5>4 DEF BeforeTLS
        <5> QED BY <1>1, <1>5, <4>2, <5>1, <5>2, <5>5 DEF Turns
      <4>3. CASE serverAt = "veVersion"
        <5>1. /\ layer = "plain" /\ Chosen = "VeNCrypt" /\ Len(toClient) = 2 /\ subOffered = <<>>
              /\ SameTypes /\ SameLayer /\ Idle /\ spoken = version
          <6>1. /\ layer = "plain" /\ Chosen = "VeNCrypt" /\ Len(toClient) = left + 1
                /\ subOffered = <<>> /\ SameTypes /\ SameLayer /\ Idle /\ spoken = version
            BY <1>1, <4>3, TypeTurns
          <6> QED BY <1>8, <6>1
        <5>2. at' = "veVersion" /\ Extra' = 0 /\ Len(toClient') = 1 /\ Idle'
          BY <1>1, <2>2, <3>1, <5>1 DEF Extra
        <5>3. SameTypes' /\ Plainly' /\ authScheme' = "VeNCrypt" /\ subAuthScheme' = "unset" /\ subOffered' = <<>>
          BY <1>1, <1>3, <1>4, <1>5, <5>1
        <5>4. BeforeVeNCryptVersion'
          BY <5>2, <5>3 DEF BeforeVeNCryptVersion
        <5> QED BY <1>1, <1>5, <4>3, <5>1, <5>2, <5>4 DEF Turns
      <4>4. CASE serverAt = "response"
        <5>1. /\ Chosen \in Challenged /\ Len(toClient) = 2
              /\ SameTypes /\ SameLayer /\ Idle /\ spoken = version
          <6>1. /\ Chosen \in Challenged /\ Len(toClient) = left + 1
                /\ SameTypes /\ SameLayer /\ Idle /\ spoken = version
            BY <1>1, <4>4, TypeTurns
          <6> QED BY <1>8, <6>1
        <5>2. at' = "challenge" /\ Extra' = 0 /\ Len(toClient') = 1 /\ Idle'
          BY <1>1, <2>2, <3>1, <5>1 DEF Extra
        <5>3. SameTypes' /\ SameLayer'
          BY <1>1, <1>4, <1>5, <5>1
        <5>4. BeforeResponse'
          BY <5>2, <5>3 DEF BeforeResponse
        <5> QED BY <1>1, <1>5, <4>4, <5>1, <5>2, <5>4 DEF Turns
      <4>5. CASE serverAt = "clientInit"
        BY <1>1, <1>4, <1>5, <1>8, <2>2, <3>1, <3>2, <4>5, TypeTurns DEF Turns, BeforeClientInit, Extra, Is
      <4>6. CASE serverAt = "closed"
        BY <1>5, <3>1, <3>2, <4>6 DEF Turns
      <4> QED BY <1>1, <4>1, <4>2, <4>3, <4>4, <4>5, <4>6, TypeTurns
    <3> QED BY <1>1, <2>2, <3>1, <3>3, <3>4, <3>5, SameTypesKept, ClientStep DEF Phases
  <2> QED BY <2>3, <2>4
<1> QED BY <1>1, <1>7, <1>8
\* The first supported type: it is answered at once.
LEMMA TypeChosenStep ==
  ASSUME HandshakeInv, ReadType, Chosen = "unset", Supported(Received), Chosen' = Received,
         Goes(IF left > 1 THEN Waits("type") ELSE Start(Received), Message("choice", Received, layer))
  PROVE  HandshakeInv'
<1>1. /\ at = "type" /\ toClient' \in Seq(Messages)
      /\ Len(toClient) \in Nat \ {0} /\ Len(toClient') = Len(toClient) - 1
      /\ \A i \in 1 .. Len(toClient) - 1 : toClient'[i] = toClient[i + 1]
      /\ left' = left - 1 /\ left \in Nat \ {0} /\ left' \in 0 .. MaxTypes
      /\ UNCHANGED <<layer, version, server, List>>
      /\ messages' \in {"default", "ultra", "tight"}
      /\ Rest("type", List) /\ Len(List) \in Nat
  BY TypeRead
<1>2. Len(toClient) = left
  BY TypeRead
<1>3. IF layer = "plain" THEN authScheme' = Received /\ subAuthScheme' = "unset"
      ELSE subAuthScheme' = Received /\ authScheme' = "TLS"
  BY TypeRead
<1>4. UNCHANGED <<serverAt, serverLayer, spoken, settled, subSettled, offered, subOffered, serverVersion>>
  BY <1>1 DEF server, offers
<1>5. PICK c : c = Received
  OBVIOUS
<1>6. Supported(c) /\ Chosen' = c
      /\ Goes(IF left > 1 THEN Waits("type") ELSE Start(c), Message("choice", c, layer))
  BY <1>5
<1>7. Supported(c)'
  BY <1>1, <1>6 DEF Supported
<1> DEFINE m == Message("choice", c, layer)
<1>8. /\ m \in Seq(Messages) /\ Len(m) = 1
      /\ m[1] = [kind |-> "choice", value |-> c, layer |-> layer]
  <2>1. c \in Values
    BY <1>6 DEF Values, Supported, Challenged, Unencrypted
  <2>2. "choice" \in Kinds
    BY DEF Kinds
  <2> QED BY <2>1, <2>2, SameTypesKept, OneMessage
<1>9. Goes(IF left > 1 THEN Waits("type") ELSE Start(c), m)
  BY <1>6
<1> HIDE DEF m
<1>10. serverAt \in {"choice", "closed"}
  BY <1>1, TypeTurns
<1>11. serverAt = "choice" =>
         /\ subSettled = "unset" /\ SameLayer /\ Idle /\ spoken = version
         /\ IF serverLayer = "plain" THEN settled = "unset" /\ subOffered = <<>> ELSE settled = "TLS"
  BY <1>1, TypeTurns
<1>12. serverAt = "choice" =>
         IF serverLayer' = "plain"
         THEN settled' = "unset" /\ subAuthScheme' = "unset" /\ subOffered' = <<>>
         ELSE settled' = "TLS" /\ authScheme' = "TLS"
  BY <1>1, <1>3, <1>4, <1>11, SameTypesKept
<1>13. CASE left > 1
  <2>1. Goes(Waits("type"), m)
    BY <1>9, <1>13
  <2>2. at' = "type" /\ toServer' = toServer \o m /\ toServer' \in Seq(Messages)
    BY <1>8, <2>1, SameTypesKept, GoesWaits
  <2>3. Len(toServer') = Len(toServer) + 1 /\ toServer'[Len(toServer) + 1] = m[1]
    BY <1>8, <2>2, SameTypesKept, JoinedOne
  <2>4. Rest("type", List)'
    <3>1. PICK list : list = List
      OBVIOUS
    <3>2. Rest("type", list) /\ Len(list) \in Nat /\ List' = list
      BY <1>1, <3>1
    <3>3. /\ left' \in 1 .. Len(list) /\ Len(list) <= MaxTypes /\ left' <= Len(toClient')
          /\ \A i \in 1 .. left' :
               toClient'[i] = [kind |-> "type", value |-> list[Len(list) - left' + i], layer |-> layer']
      BY <1>1, <1>13, <3>2, ListGoesOn
    <3> QED BY <3>2, <3>3 DEF Rest
  <2>5. Len(toClient') = left' /\ left' + 1 - 1 = left'
    BY <1>1, <1>2
  <2>6. Script'
    BY <2>2, <2>4, <2>5 DEF Script, Opens
  <2>7. Settling'
    BY <1>1, <1>3, <1>4, <1>5, <1>6, <2>2, TypeSettles
  <2>8. Turns'
    <3>1. CASE serverAt = "choice"
      <4>1. Len(toServer') = 1 /\ toServer'[1] = [kind |-> "choice", value |-> Chosen', layer |-> layer']
        BY <1>1, <1>6, <1>8, <1>11, <2>3, <3>1
      <4>2. SameLayer' /\ subSettled' = "unset" /\ Supported(Chosen)'
        BY <1>1, <1>4, <1>6, <1>7, <1>11, <3>1
      <4>3. BeforeChoice'
        BY <1>12, <2>2, <2>5, <3>1, <4>1, <4>2 DEF BeforeChoice
      <4> QED BY <1>1, <1>4, <1>11, <2>2, <3>1, <4>3 DEF Turns
    <3>2. CASE serverAt = "closed"
      BY <1>4, <2>2, <3>2 DEF Turns
    <3> QED BY <1>10, <3>1, <3>2
  <2> QED BY <1>1, <1>13, <2>2, <2>6, <2>7, <2>8, SameTypesKept, ClientStep DEF Phases
<1>14. CASE left = 1
  <2>1. Goes(Start(c), m)
    BY <1>9, <1>14
  <2>2. /\ at' = Start(c).at /\ toServer' \in Seq(Messages)
        /\ Len(toServer') = Len(toServer) + Len(m) + Extra'
        /\ \A i \in 1 .. Len(m) : toServer'[Len(toServer) + i] = m[i]
        /\ Extra' = 1 => toServer'[Len(toServer) + Len(m) + 1] = Start(c).says[1]
    BY <1>8, <2>1, SameTypesKept, GoesStart
  <2>3. CASE at' = "failed"
    <3>1. Reads("type")
      BY DEF ReadType
    <3> QED BY <1>1, <2>2, <2>3, <3>1, SameTypesKept, GivesUp
  <2>4. CASE at' # "failed"
    <3>1. at' \in {"result", "serverInit", "challenge", "tls", "veVersion"}
      BY <2>2, <2>4, StartAt
    <3>2. Len(toClient') = 0
      BY <1>1, <1>2, <1>14
    <3>3. Script'
      BY <3>1, <3>2 DEF Script
    <3>4. Settling'
      BY <1>1, <1>3, <1>4, <1>5, <1>6, <2>2, <2>4, TypeSettles
    <3>5. Turns'
      <4>1. CASE serverAt = "choice"
        <5>1. /\ Len(toServer') = 1 + Extra' /\ SameLayer' /\ subSettled' = "unset"
              /\ toServer'[1] = [kind |-> "choice", value |-> Chosen', layer |-> layer']
              /\ Extra' = 1 => toServer'[2] = Start(c).says[1]
          <6>1. Len(toServer) = 0
            BY <1>11, <4>1
          <6>2. Len(toServer') = 1 + Extra' /\ (Extra' = 1 => toServer'[2] = Start(c).says[1])
            BY <1>8, <2>2, <6>1 DEF Extra
          <6>3. toServer'[1] = m[1]
            BY <1>8, <2>2, <6>1
          <6> QED BY <1>1, <1>4, <1>6, <1>8, <1>11, <4>1, <6>2, <6>3
        <5>2. Start(Chosen)' = Start(c)
          BY <1>1, <1>6 DEF Start, ClientInit, Waits, Bare, Message, Fails
        <5>3. IF (at \in {"serverInit", "tls"})'
              THEN Len(toServer') = 2 /\ toServer'[2] = Start(Chosen)'.says[1]
              ELSE Len(toServer') = 1
          BY <5>1, <5>2 DEF Extra
        <5>4. BeforeChoice'
          <6>1. Supported(Chosen)' /\ at' = Start(Chosen)'.at
            BY <1>6, <1>7, <2>2, <5>2
          <6> QED BY <1>12, <3>2, <4>1, <5>1, <5>3, <6>1 DEF BeforeChoice
        <5>5. serverAt' = "choice" /\ spoken' = version'
          BY <1>1, <1>4, <1>11, <4>1
        <5> QED BY <3>1, <3>2, <5>4, <5>5 DEF Turns
      <4>2. CASE serverAt = "closed"
        BY <1>4, <3>1, <3>2, <4>2 DEF Turns
      <4> QED BY <1>10, <4>1, <4>2
    <3> QED BY <1>1, <2>2, <3>1, <3>3, <3>4, <3>5, SameTypesKept, ClientStep DEF Phases
  <2> QED BY <2>3, <2>4
<1> QED BY <1>1, <1>13, <1>14

LEMMA TypeStep == ASSUME HandshakeInv, ReadType PROVE HandshakeInv'
<1>1. PICK c, said :
        /\ c = Select(Received)
        /\ said = IF c # Chosen /\ c = Received THEN Message("choice", Received, layer) ELSE <<>>
        /\ Goes(IF left > 1 THEN Waits("type") ELSE Start(c), said)
  BY DEF ReadType
<1>2. Chosen' = c
  BY <1>1, TypeRead
<1>3. ~Supported("unset")
  BY DEF Supported
<1>4. CASE Chosen = "unset" /\ Supported(Received)
  <2>1. c = Received /\ c # Chosen
    BY <1>1, <1>3, <1>4 DEF Select
  <2> QED BY <1>1, <1>2, <1>4, <2>1, TypeChosenStep
<1>5. CASE ~(Chosen = "unset" /\ Supported(Received))
  <2>1. c = Chosen /\ said = <<>>
    BY <1>1, <1>5 DEF Select
  <2> QED BY <1>1, <1>2, <2>1, TypePassedStep
<1> QED BY <1>4, <1>5

LEMMA ClientKeepsInv == ASSUME HandshakeInv, Client PROVE HandshakeInv'
<1>1. CASE ReadVersion \/ ReadScheme \/ ReadCount \/ ReadType
  BY <1>1, VersionStep, SchemeStep, CountStep, TypeStep
<1>2. CASE ReadChallenge \/ UserAnswers \/ ReadResult \/ ReadReason \/ ReadServerInit
  BY <1>2, ChallengeStep, AnswerStep, ResultStep, ReasonStep, ServerInitStep
<1>3. CASE ReadVeNCryptVersion \/ ReadVeNCryptStatus \/ ReadVeNCryptCount \/ ReadVeNCryptType
  BY <1>3, VeNCryptVersionStep, VeNCryptStatusStep, VeNCryptCountStep, VeNCryptTypeStep
<1>4. CASE ReadVeNCryptAck \/ HandshakeTLS \/ ConnectionLost
  BY <1>4, VeNCryptAckStep, TLSStep, LostStep
<1> QED BY <1>1, <1>2, <1>3, <1>4 DEF Client

-------------------------------------------------------------------------------
\* A step of the server: the client's variables stay as they are.
LEMMA ServerStep ==
  ASSUME HandshakeInv, UNCHANGED <<client, serverVersion>>,
         toClient' \in Seq(Messages), toServer' \in Seq(Messages), serverLayer' \in {"plain", "tls"},
         offered' \in Seq(SecurityTypes \cup {"MSLogon"}),
         subOffered' \in Seq(SecurityTypes \cup VeNCryptTypes),
         Script', Turns'
  PROVE  HandshakeInv'
<1>1. UNCHANGED <<at, layer, version, authScheme, subAuthScheme, left, messages, answer, serverVersion>>
  BY DEF client
<1>2. ChannelTypes'
  BY <1>1 DEF HandshakeInv, ChannelTypes
<1>3. \A i \in 1 .. Len(toClient') : toClient'[i].layer \in {"plain", "tls"}
  <2> TAKE i \in 1 .. Len(toClient')
  <2>1. toClient'[i] \in Messages
    OBVIOUS
  <2> QED BY <2>1 DEF Messages
<1>4. HandshakeTypeOK'
  BY <1>1, <1>3 DEF HandshakeInv, HandshakeTypeOK
<1>5. Settling'
  BY <1>1 DEF HandshakeInv, Settling, ReplyTo
<1> QED BY <1>2, <1>4, <1>5 DEF HandshakeInv

ServerPhases == {"version", "choice", "tls", "veVersion", "veChoice", "response",
                 "clientInit", "done", "closed"}

\* The server goes on alone when the client has given up.
LEMMA ServerAlone ==
  ASSUME HandshakeInv, at = "failed", UNCHANGED <<client, serverVersion>>,
         toClient' \in Seq(Messages), toServer' \in Seq(Messages), serverLayer' \in {"plain", "tls"},
         offered' \in Seq(SecurityTypes \cup {"MSLogon"}),
         subOffered' \in Seq(SecurityTypes \cup VeNCryptTypes),
         serverAt' \in ServerPhases
  PROVE  HandshakeInv'
<1>1. at' = "failed"
  BY DEF client
<1>2. Script'
  BY <1>1 DEF Script
<1>3. Turns'
  BY <1>1 DEF Turns, ServerPhases
<1> QED BY <1>2, <1>3, ServerStep

\* What the server has taken from its channel.
LEMMA TookOne ==
  ASSUME ChannelTypes, NEW kind, Gets(kind)
  PROVE  /\ serverAt = kind /\ Len(toServer) \in Nat \ {0} /\ Got = toServer[1].value
         /\ Is(toServer, 1, kind, serverLayer) /\ Got \in Values
         /\ toServer' \in Seq(Messages) /\ Len(toServer') = Len(toServer) - 1
         /\ \A i \in 1 .. Len(toServer) - 1 : toServer'[i] = toServer[i + 1]
         /\ UNCHANGED <<client, serverVersion>>
<1>1. toServer \in Seq(Messages) /\ toServer # <<>> /\ toServer' = Tail(toServer)
  BY DEF ChannelTypes, Gets
<1>2. Head(toServer) = toServer[1] /\ toServer[1] \in Messages
  BY <1>1, TakeFirst
<1>3. serverAt = kind /\ Got = toServer[1].value /\ Is(toServer, 1, kind, serverLayer)
      /\ UNCHANGED <<client, serverVersion>>
  BY <1>2 DEF Gets, Got, Is
<1> QED BY <1>1, <1>2, <1>3, TakeFirst DEF Messages

\* What the server says is at the end of the client's channel.
LEMMA SendsAll ==
  ASSUME ChannelTypes, NEW m \in Seq(Messages), NEW next, Sends(m, next)
  PROVE  /\ serverAt' = next /\ toClient' \in Seq(Messages) /\ Len(toClient') = Len(toClient) + Len(m)
         /\ \A i \in 1 .. Len(toClient) : toClient'[i] = toClient[i]
         /\ \A i \in 1 .. Len(m) : toClient'[Len(toClient) + i] = m[i]
<1>1. toClient \in Seq(Messages) /\ toClient' = toClient \o m /\ serverAt' = next
  BY DEF ChannelTypes, Sends
<1> QED BY <1>1, Joined

LEMMA SendsOne ==
  ASSUME ChannelTypes, NEW kind \in Kinds, NEW value \in Values, NEW l \in {"plain", "tls"}, NEW next,
         Sends(Message(kind, value, l), next)
  PROVE  /\ serverAt' = next /\ toClient' \in Seq(Messages) /\ Len(toClient') = Len(toClient) + 1
         /\ \A i \in 1 .. Len(toClient) : toClient'[i] = toClient[i]
         /\ toClient'[Len(toClient) + 1] = [kind |-> kind, value |-> value, layer |-> l]
<1> DEFINE m == Message(kind, value, l)
<1>1. /\ m \in Seq(Messages) /\ Len(m) = 1
      /\ m[1] = [kind |-> kind, value |-> value, layer |-> l] /\ Sends(m, next)
  BY OneMessage
<1> HIDE DEF m
<1>2. /\ serverAt' = next /\ toClient' \in Seq(Messages) /\ Len(toClient') = Len(toClient) + Len(m)
      /\ \A i \in 1 .. Len(toClient) : toClient'[i] = toClient[i]
      /\ \A i \in 1 .. Len(m) : toClient'[Len(toClient) + i] = m[i]
  BY <1>1, SendsAll
<1> QED BY <1>1, <1>2

LEMMA SendsTwo ==
  ASSUME ChannelTypes, NEW kind \in Kinds, NEW value \in Values, NEW b \in Kinds,
         NEW l \in {"plain", "tls"}, NEW next,
         Sends(Message(kind, value, l) \o Bare(b, l), next)
  PROVE  /\ serverAt' = next /\ toClient' \in Seq(Messages) /\ Len(toClient') = Len(toClient) + 2
         /\ \A i \in 1 .. Len(toClient) : toClient'[i] = toClient[i]
         /\ toClient'[Len(toClient) + 1] = [kind |-> kind, value |-> value, layer |-> l]
         /\ toClient'[Len(toClient) + 2] = [kind |-> b, value |-> b, layer |-> l]
<1> DEFINE m == Message(kind, value, l) \o Bare(b, l)
<1>1. /\ m \in Seq(Messages) /\ Len(m) = 2
      /\ m[1] = [kind |-> kind, value |-> value, layer |-> l]
      /\ m[2] = [kind |-> b, value |-> b, layer |-> l] /\ Sends(m, next)
  <2>1. PICK c \in Seq(Messages) : /\ c = Message(kind, value, l) /\ Len(c) = 1
                                   /\ c[1] = [kind |-> kind, value |-> value, layer |-> l]
    BY OneMessage
  <2>2. PICK d \in Seq(Messages) : /\ d = Bare(b, l) /\ Len(d) = 1
                                   /\ d[1] = [kind |-> b, value |-> b, layer |-> l]
    BY OneBare
  <2>3. /\ c \o d \in Seq(Messages) /\ Len(c \o d) = 2
        /\ (c \o d)[1] = c[1] /\ (c \o d)[2] = d[1]
    BY <2>1, <2>2, JoinedOne
  <2> QED BY <2>1, <2>2, <2>3
<1> HIDE DEF m
<1>2. /\ serverAt' = next /\ toClient' \in Seq(Messages) /\ Len(toClient') = Len(toClient) + Len(m)
      /\ \A i \in 1 .. Len(toClient) : toClient'[i] = toClient[i]
      /\ \A i \in 1 .. Len(m) : toClient'[Len(toClient) + i] = m[i]
  BY <1>1, SendsAll
<1> QED BY <1>1, <1>2

LEMMA ClosesStep == ASSUME HandshakeInv, ServerCloses PROVE HandshakeInv'
<1>1. serverAt' = "closed"
      /\ UNCHANGED <<client, toClient, toServer, serverVersion, serverLayer, spoken, offers,
                     settled, subSettled>>
  BY DEF ServerCloses
<1>2. UNCHANGED <<at, layer, version, authScheme, subAuthScheme, left, toClient, offered, subOffered,
                  serverVersion, serverLayer, spoken>>
  BY <1>1 DEF client, offers
<1>3. UNCHANGED <<List, Chosen, Start(Chosen), StartSub(subAuthScheme)>>
  BY <1>2 DEF List, Chosen, Start, StartSub, ClientInit, Waits, Bare, Message, Fails
<1>4. toClient # <<>> => UNCHANGED Start(toClient[1].value)
  BY <1>2 DEF Start, ClientInit, Waits, Bare, Message, Fails
<1>5. Script'
  BY <1>2, <1>3, <1>4 DEF HandshakeInv, Script, Counted, Rest, Opens, Is
<1>6. at \notin {"failed", "version", "connected"} => ~(at = "serverInit" /\ Len(toClient) > 0)
  BY <1>1, SameTypesKept, ServerWaits DEF ServerCloses
<1>7. Turns'
  BY <1>1, <1>2, <1>6 DEF ServerCloses, HandshakeInv, Turns
<1> QED BY <1>1, <1>2, <1>5, <1>7, SameTypesKept, ServerStep DEF ChannelTypes

\* What the messages of this step are made of.
LEMMA SomeKinds ==
  /\ {"result", "reason", "serverInit", "veStatus", "veAck", "challenge", "scheme", "count",
      "veVersion", "veCount", "veType", "type", "tls"} \subseteq Kinds
  /\ {"ok", "failed", "tooMany", "refused", "name", "nameTooLong", "ConnFailed", "tls", "reason",
      "challenge"} \subseteq Values
BY DEF Kinds, Values

LEMMA JudgesStep == ASSUME HandshakeInv, ServerJudges PROVE HandshakeInv'
<1>1. /\ Gets("response") /\ UNCHANGED <<serverLayer, spoken, offers, settled, subSettled>>
      /\ \/ Got = "right" /\ Sends(Message("result", "ok", serverLayer), "clientInit")
         \/ Got = "wrong" /\ Sends(Refusal(serverLayer), "closed")
         \/ Got = "wrong" /\ Sends(Message("result", "tooMany", serverLayer), "closed")
  BY DEF ServerJudges
<1>2. /\ serverAt = "response" /\ Len(toServer) \in Nat \ {0}
      /\ toServer' \in Seq(Messages) /\ Len(toServer') = Len(toServer) - 1
      /\ UNCHANGED <<client, serverVersion>>
  BY <1>1, SameTypesKept, TookOne
<1>3. UNCHANGED <<at, layer, version, authScheme, subAuthScheme, left, offered, subOffered>>
  BY <1>1, <1>2 DEF client, offers
<1>4. serverAt' \in {"clientInit", "closed"} /\ toClient' \in Seq(Messages)
      /\ Len(toClient') \in {Len(toClient) + 1, Len(toClient) + 2}
      /\ \/ serverAt' = "clientInit" /\ Len(toClient') = Len(toClient) + 1
            /\ toClient'[Len(toClient) + 1] = [kind |-> "result", value |-> "ok", layer |-> serverLayer]
         \/ serverAt' = "closed" /\ Len(toClient') = Len(toClient) + 1
            /\ toClient'[Len(toClient) + 1] = [kind |-> "result", value |-> "tooMany", layer |-> serverLayer]
         \/ serverAt' = "closed" /\ Len(toClient') = Len(toClient) + 1 /\ spoken # 3008
            /\ toClient'[Len(toClient) + 1] = [kind |-> "result", value |-> "failed", layer |-> serverLayer]
         \/ serverAt' = "closed" /\ Len(toClient') = Len(toClient) + 2 /\ spoken = 3008
            /\ toClient'[Len(toClient) + 1] = [kind |-> "result", value |-> "failed", layer |-> serverLayer]
            /\ toClient'[Len(toClient) + 2] = [kind |-> "reason", value |-> "reason", layer |-> serverLayer]
  <2>0. /\ {"result", "reason"} \subseteq Kinds /\ {"ok", "tooMany", "failed"} \subseteq Values
        /\ serverLayer \in {"plain", "tls"} /\ ChannelTypes
    BY SomeKinds, SameTypesKept
  <2>1. CASE Sends(Message("result", "ok", serverLayer), "clientInit")
    <3>1. /\ serverAt' = "clientInit" /\ toClient' \in Seq(Messages) /\ Len(toClient') = Len(toClient) + 1
          /\ toClient'[Len(toClient) + 1] = [kind |-> "result", value |-> "ok", layer |-> serverLayer]
      BY <2>0, <2>1, SendsOne
    <3> QED BY <3>1
  <2>2. CASE Sends(Message("result", "tooMany", serverLayer), "closed")
    <3>1. /\ serverAt' = "closed" /\ toClient' \in Seq(Messages) /\ Len(toClient') = Len(toClient) + 1
          /\ toClient'[Len(toClient) + 1] = [kind |-> "result", value |-> "tooMany", layer |-> serverLayer]
      BY <2>0, <2>2, SendsOne
    <3> QED BY <3>1
  <2>3. CASE Sends(Refusal(serverLayer), "closed") /\ spoken = 3008
    <3>1. Sends(Message("result", "failed", serverLayer) \o Bare("reason", serverLayer), "closed")
      BY <2>3 DEF Refusal
    <3>2. /\ serverAt' = "closed" /\ toClient' \in Seq(Messages) /\ Len(toClient') = Len(toClient) + 2
          /\ toClient'[Len(toClient) + 1] = [kind |-> "result", value |-> "failed", layer |-> serverLayer]
          /\ toClient'[Len(toClient) + 2] = [kind |-> "reason", value |-> "reason", layer |-> serverLayer]
      BY <2>0, <3>1, SendsTwo
    <3> QED BY <2>3, <3>2
  <2>4. CASE Sends(Refusal(serverLayer), "closed") /\ spoken # 3008
    <3>1. Sends(Message("result", "failed", serverLayer), "closed")
      BY <2>4 DEF Refusal
    <3>2. /\ serverAt' = "closed" /\ toClient' \in Seq(Messages) /\ Len(toClient') = Len(toClient) + 1
          /\ toClient'[Len(toClient) + 1] = [kind |-> "result", value |-> "failed", layer |-> serverLayer]
      BY <2>0, <3>1, SendsOne
    <3> QED BY <2>4, <3>2
  <2> QED BY <1>1, <2>1, <2>2, <2>3, <2>4
<1>5. CASE at = "failed"
  BY <1>1, <1>2, <1>3, <1>4, <1>5, SameTypesKept, ServerAlone DEF ServerPhases, ChannelTypes
<1>6. CASE at # "failed"
  <2>1. BeforeResponse /\ spoken = version
    BY <1>2, <1>6 DEF HandshakeInv, Turns
  <2>2. at = "result" /\ Len(toClient) = 0 /\ Len(toServer) = 1 /\ SameLayer /\ SameTypes
    BY <1>2, <2>1 DEF BeforeResponse
  <2>3. Script'
    BY <1>3, <1>4, <2>1, <2>2 DEF Script, Is
  <2>4. Turns'
    <3>1. CASE serverAt' = "clientInit"
      <4>1. BeforeClientInit'
        BY <1>1, <1>2, <1>3, <1>4, <2>2, <3>1 DEF BeforeClientInit
      <4> QED BY <1>1, <1>3, <2>1, <2>2, <3>1, <4>1 DEF Turns
    <3>2. CASE serverAt' = "closed"
      BY <1>3, <2>2, <3>2 DEF Turns
    <3> QED BY <1>4, <3>1, <3>2
  <2> QED BY <1>1, <1>2, <1>3, <1>4, <2>3, <2>4, SameTypesKept, ServerStep DEF ChannelTypes
<1> QED BY <1>5, <1>6

LEMMA SendsInitStep == ASSUME HandshakeInv, ServerInit PROVE HandshakeInv'
<1>1. PICK name \in {"name", "nameTooLong"} : Sends(Message("serverInit", name, serverLayer), "done")
  BY DEF ServerInit
<1>2. Gets("clientInit") /\ UNCHANGED <<serverLayer, spoken, offers, settled, subSettled>>
  BY DEF ServerInit
<1>3. /\ serverAt = "clientInit" /\ Len(toServer) \in Nat \ {0}
      /\ toServer' \in Seq(Messages) /\ Len(toServer') = Len(toServer) - 1
      /\ UNCHANGED <<client, serverVersion>>
  BY <1>2, SameTypesKept, TookOne
<1>4. UNCHANGED <<at, layer, version, authScheme, subAuthScheme, left, offered, subOffered>>
  BY <1>2, <1>3 DEF client, offers
<1>5. /\ serverAt' = "done" /\ toClient' \in Seq(Messages) /\ Len(toClient') = Len(toClient) + 1
      /\ toClient'[Len(toClient) + 1] = [kind |-> "serverInit", value |-> name, layer |-> serverLayer]
  <2>1. "serverInit" \in Kinds /\ name \in Values /\ serverLayer \in {"plain", "tls"} /\ ChannelTypes
    BY SomeKinds, SameTypesKept
  <2> QED BY <1>1, <2>1, SendsOne
<1>6. CASE at = "failed"
  BY <1>2, <1>3, <1>4, <1>5, <1>6, SameTypesKept, ServerAlone DEF ServerPhases, ChannelTypes
<1>7. CASE at # "failed"
  <2>1. BeforeClientInit /\ spoken = version
    BY <1>3, <1>7 DEF HandshakeInv, Turns
  <2>2. at = "serverInit" /\ Len(toClient) = 0 /\ Len(toServer) = 1 /\ SameLayer /\ SameTypes
    BY <1>3, <2>1 DEF BeforeClientInit
  <2>3. Script'
    BY <1>4, <1>5, <2>2 DEF Script, Is
  <2>4. Turns'
    BY <1>2, <1>3, <1>4, <1>5, <2>1, <2>2 DEF Turns, AfterServerInit
  <2> QED BY <1>2, <1>3, <1>4, <1>5, <2>3, <2>4, SameTypesKept, ServerStep DEF ChannelTypes
<1> QED BY <1>6, <1>7

\* A list t sent after what opens it to a client that has nothing else to read.
LEMMA SendsList ==
  ASSUME ChannelTypes, Len(toClient) = 0, NEW h \in Seq(Messages), NEW t \in Seq(Messages),
         NEW next, Sends(h \o t, next)
  PROVE  /\ serverAt' = next /\ toClient' \in Seq(Messages) /\ Len(toClient') = Len(h) + Len(t)
         /\ \A i \in 1 .. Len(h) : toClient'[i] = h[i]
         /\ \A i \in 1 .. Len(t) : toClient'[Len(h) + i] = t[i]
<1>1. PICK m \in Seq(Messages) :
        /\ m = h \o t /\ Len(m) = Len(h) + Len(t) /\ Len(h) \in Nat /\ Len(t) \in Nat
        /\ \A i \in 1 .. Len(h) : m[i] = h[i]
        /\ \A i \in 1 .. Len(t) : m[Len(h) + i] = t[i]
  BY Joined
<1>2. Sends(m, next)
  BY <1>1
<1>3. /\ serverAt' = next /\ toClient' \in Seq(Messages) /\ Len(toClient') = Len(toClient) + Len(m)
      /\ \A i \in 1 .. Len(m) : toClient'[Len(toClient) + i] = m[i]
  BY <1>2, SendsAll
<1>4. Len(toClient') = Len(h) + Len(t) /\ \A i \in 1 .. Len(m) : toClient'[i] = m[i]
  BY <1>1, <1>3
<1>5. \A i \in 1 .. Len(h) : i \in 1 .. Len(m)
  BY <1>1
<1>6. \A i \in 1 .. Len(t) : Len(h) + i \in 1 .. Len(m)
  BY <1>1
<1> QED BY <1>1, <1>3, <1>4, <1>5, <1>6

LEMMA OffersVeNCryptStep == ASSUME HandshakeInv, ServerOffersVeNCrypt PROVE HandshakeInv'
<1>1. Gets("veVersion") /\ UNCHANGED <<serverLayer, spoken, offered, settled, subSettled>>
  BY DEF ServerOffersVeNCrypt
<1>2. /\ serverAt = "veVersion" /\ Len(toServer) \in Nat \ {0}
      /\ toServer' \in Seq(Messages) /\ Len(toServer') = Len(toServer) - 1
      /\ UNCHANGED <<client, serverVersion>>
  BY <1>1, SameTypesKept, TookOne
<1>3. UNCHANGED <<at, layer, version, authScheme, subAuthScheme, left>>
  BY <1>2 DEF client
<1>4. /\ "veStatus" \in Kinds /\ "veCount" \in Kinds /\ "veType" \in Kinds
      /\ "ok" \in Values /\ "refused" \in Values /\ VeNCryptTypes \subseteq Values
  BY SomeKinds DEF Values
<1>5. at = "failed" \/ (/\ at = "veStatus" /\ Len(toClient) = 0 /\ Len(toServer) = 1 /\ Plainly
                        /\ settled = "VeNCrypt" /\ subSettled = "unset" /\ subAuthScheme = "unset"
                        /\ spoken = version)
  BY <1>2 DEF HandshakeInv, Turns, BeforeVeNCryptVersion
<1>6. at # "failed" => authScheme = "VeNCrypt"
  BY <1>5 DEF HandshakeInv, Settling
<1>7. CASE Sends(Message("veStatus", "refused", "plain"), "closed") /\ UNCHANGED subOffered
  <2>1. /\ serverAt' = "closed" /\ toClient' \in Seq(Messages) /\ Len(toClient') = Len(toClient) + 1
        /\ toClient'[Len(toClient) + 1] = [kind |-> "veStatus", value |-> "refused", layer |-> "plain"]
    <3>1. "plain" \in {"plain", "tls"} /\ ChannelTypes
      BY SameTypesKept
    <3> QED BY <1>4, <1>7, <3>1, SendsOne
  <2>2. CASE at = "failed"
    BY <1>1, <1>2, <1>3, <1>7, <2>1, <2>2, SameTypesKept, ServerAlone DEF ServerPhases, ChannelTypes
  <2>3. CASE at # "failed"
    <3>1. Script'
      BY <1>3, <1>5, <2>1, <2>3 DEF Script, Is
    <3>2. Turns'
      BY <1>3, <1>5, <2>1, <2>3 DEF Turns
    <3> QED BY <1>1, <1>2, <1>7, <2>1, <3>1, <3>2, SameTypesKept, ServerStep DEF ChannelTypes
  <2> QED BY <2>2, <2>3
<1>8. ASSUME NEW list \in Lists(VeNCryptTypes), subOffered' = list,
             Sends(Message("veStatus", "ok", "plain") \o Message("veCount", Len(list), "plain")
                     \o TypeMessages(list, "veType", "plain"), "veChoice")
      PROVE  HandshakeInv'
  <2>1. list \in Seq(VeNCryptTypes) /\ Len(list) \in 1 .. MaxTypes /\ Len(list) \in Nat \ {0}
        /\ Len(list) \in Values
    BY <1>8, ListTypes, HandshakeAssumption DEF Values
  <2>2. subOffered' \in Seq(SecurityTypes \cup VeNCryptTypes)
    BY <1>8, <2>1
  <2>3. PICK h \in Seq(Messages) :
          /\ h = Message("veStatus", "ok", "plain") \o Message("veCount", Len(list), "plain")
          /\ Len(h) = 2
          /\ h[1] = [kind |-> "veStatus", value |-> "ok", layer |-> "plain"]
          /\ h[2] = [kind |-> "veCount", value |-> Len(list), layer |-> "plain"]
    <3>1. PICK c \in Seq(Messages) :
            /\ c = Message("veStatus", "ok", "plain") /\ Len(c) = 1
            /\ c[1] = [kind |-> "veStatus", value |-> "ok", layer |-> "plain"]
      BY <1>4, OneMessage
    <3>2. PICK d \in Seq(Messages) :
            /\ d = Message("veCount", Len(list), "plain") /\ Len(d) = 1
            /\ d[1] = [kind |-> "veCount", value |-> Len(list), layer |-> "plain"]
      BY <1>4, <2>1, OneMessage
    <3>3. c \o d \in Seq(Messages) /\ Len(c \o d) = 2 /\ (c \o d)[1] = c[1] /\ (c \o d)[2] = d[1]
      BY <3>1, <3>2, JoinedOne
    <3> QED BY <3>1, <3>2, <3>3
  <2>4. PICK t \in Seq(Messages) :
          /\ t = TypeMessages(list, "veType", "plain") /\ Len(t) = Len(list)
          /\ \A i \in 1 .. Len(list) : t[i] = [kind |-> "veType", value |-> list[i], layer |-> "plain"]
    BY <1>4, <2>1, ManyTypes
  <2>5. /\ Sends(h \o t, "veChoice") /\ h \o t \in Seq(Messages)
        /\ toServer' \in Seq(Messages) /\ toClient' \in Seq(Messages) /\ serverAt' = "veChoice"
    <3>1. Sends(h \o t, "veChoice")
      BY <1>8, <2>3, <2>4
    <3>2. h \o t \in Seq(Messages)
      BY Joined
    <3> QED BY <1>2, <3>1, <3>2, SameTypesKept, SendsAll
  <2>6. CASE at = "failed"
    BY <1>1, <1>2, <2>2, <2>5, <2>6, SameTypesKept, ServerAlone DEF ServerPhases, ChannelTypes
  <2>7. CASE at # "failed"
    <3>1. /\ Len(toClient') = 2 + Len(list)
          /\ \A i \in 1 .. Len(h) : toClient'[i] = h[i]
          /\ \A i \in 1 .. Len(list) :
               toClient'[2 + i] = [kind |-> "veType", value |-> list[i], layer |-> "plain"]
      <4>1. ChannelTypes /\ Len(toClient) = 0 /\ Sends(h \o t, "veChoice")
        BY <1>5, <2>5, <2>7, SameTypesKept
      <4>2. /\ Len(toClient') = Len(h) + Len(t)
            /\ \A i \in 1 .. Len(h) : toClient'[i] = h[i]
            /\ \A i \in 1 .. Len(t) : toClient'[Len(h) + i] = t[i]
        BY <4>1, SendsList
      <4> QED BY <2>3, <2>4, <4>2
    <3>2. toClient'[1] = h[1] /\ toClient'[2] = h[2]
      BY <2>3, <3>1
    <3>3. Counted(2, "veCount", "veType", subOffered, "plain")'
      BY <1>8, <2>1, <2>3, <3>1, <3>2 DEF Counted
    <3>4. Script'
      BY <1>3, <1>5, <2>3, <2>7, <3>2, <3>3 DEF Script, Is
    <3>5. Len(toClient') > 1 /\ Idle' /\ Plainly'
      BY <1>1, <1>2, <1>3, <1>5, <2>1, <2>7, <3>1
    <3>6. BeforeVeNCryptChoice'
      BY <1>1, <1>3, <1>5, <1>6, <2>7, <3>5 DEF BeforeVeNCryptChoice
    <3>7. Turns'
      BY <1>1, <1>3, <1>5, <2>5, <2>7, <3>6 DEF Turns
    <3> QED BY <1>1, <1>2, <2>2, <2>5, <3>4, <3>7, SameTypesKept, ServerStep DEF ChannelTypes
  <2> QED BY <2>6, <2>7
<1> QED BY <1>7, <1>8 DEF ServerOffersVeNCrypt

\* One message after others.
LEMMA SendsMore ==
  ASSUME ChannelTypes, NEW said \in Seq(Messages), NEW kind \in Kinds, NEW value \in Values,
         NEW l \in {"plain", "tls"}, NEW next, Sends(said \o Message(kind, value, l), next)
  PROVE  /\ serverAt' = next /\ toClient' \in Seq(Messages)
         /\ Len(toClient') = Len(toClient) + Len(said) + 1
         /\ \A i \in 1 .. Len(toClient) : toClient'[i] = toClient[i]
         /\ \A i \in 1 .. Len(said) : toClient'[Len(toClient) + i] = said[i]
         /\ toClient'[Len(toClient) + Len(said) + 1] = [kind |-> kind, value |-> value, layer |-> l]
<1>1. PICK c \in Seq(Messages) :
        /\ c = Message(kind, value, l) /\ Len(c) = 1
        /\ c[1] = [kind |-> kind, value |-> value, layer |-> l]
  BY OneMessage
<1>2. PICK m \in Seq(Messages) :
        /\ m = said \o c /\ Len(m) = Len(said) + 1 /\ Len(said) \in Nat
        /\ \A i \in 1 .. Len(said) : m[i] = said[i]
        /\ m[Len(said) + 1] = c[1]
  BY <1>1, JoinedOne
<1>3. Sends(m, next)
  BY <1>1, <1>2
<1>4. /\ serverAt' = next /\ toClient' \in Seq(Messages) /\ Len(toClient') = Len(toClient) + Len(m)
      /\ \A i \in 1 .. Len(toClient) : toClient'[i] = toClient[i]
      /\ \A i \in 1 .. Len(m) : toClient'[Len(toClient) + i] = m[i]
  BY <1>3, SendsAll
<1>5. Len(toClient) \in Nat /\ \A i \in 1 .. Len(said) : i \in 1 .. Len(m)
  BY <1>2 DEF ChannelTypes
<1>6. \A i \in 1 .. Len(said) : toClient'[Len(toClient) + i] = said[i]
  BY <1>2, <1>4, <1>5
<1>7. toClient'[Len(toClient) + Len(said) + 1] = c[1]
  BY <1>2, <1>4, <1>5
<1> QED BY <1>1, <1>2, <1>4, <1>5, <1>6, <1>7

\* What a server does when a sub type, or a type, has been settled.
LEMMA SubStartsAt ==
  ASSUME ChannelTypes, NEW said \in Seq(Messages), NEW t, NEW l \in {"plain", "tls"}, SubStarts(t, said, l)
  PROVE  /\ serverAt' = IF t \in Free THEN "clientInit" ELSE "response"
         /\ toClient' \in Seq(Messages)
         /\ Len(toClient') = Len(toClient) + Len(said) + IF t \in Free \cup Challenged THEN 1 ELSE 0
         /\ \A i \in 1 .. Len(said) : toClient'[Len(toClient) + i] = said[i]
         /\ t \in Free =>
              toClient'[Len(toClient) + Len(said) + 1] = [kind |-> "result", value |-> "ok", layer |-> l]
         /\ t \in Challenged =>
              toClient'[Len(toClient) + Len(said) + 1] =
                [kind |-> "challenge", value |-> "challenge", layer |-> l]
<1>1. t \in Free => t \notin Challenged
  BY DEF Free, Challenged
<1>2. "result" \in Kinds /\ "ok" \in Values /\ "challenge" \in Kinds /\ "challenge" \in Values
  BY SomeKinds
<1>3. Len(toClient) \in Nat /\ Len(said) \in Nat
  BY DEF ChannelTypes
<1>4. CASE t \in Free
  <2>1. Sends(said \o Message("result", "ok", l), "clientInit")
    BY <1>1, <1>4 DEF SubStarts
  <2> QED BY <1>1, <1>2, <1>4, <2>1, SendsMore
<1>5. CASE t \in Challenged
  <2>1. Sends(said \o Message("challenge", "challenge", l), "response")
    BY <1>1, <1>5 DEF SubStarts, Bare
  <2> QED BY <1>1, <1>2, <1>5, <2>1, SendsMore
<1>6. CASE t \notin Free /\ t \notin Challenged
  <2>1. Sends(said, "response")
    BY <1>6 DEF SubStarts
  <2>2. /\ serverAt' = "response" /\ toClient' \in Seq(Messages)
        /\ Len(toClient') = Len(toClient) + Len(said)
        /\ \A i \in 1 .. Len(said) : toClient'[Len(toClient) + i] = said[i]
    BY <2>1, SendsAll
  <2> QED BY <1>3, <1>6, <2>2
<1> QED BY <1>4, <1>5, <1>6

LEMMA ServerStartsAt ==
  ASSUME ChannelTypes, NEW said \in Seq(Messages), NEW t, serverLayer \in {"plain", "tls"},
         ServerStarts(t, said)
  PROVE  /\ serverAt' = IF t = "None" THEN "clientInit" ELSE IF t \in Challenged THEN "response"
                        ELSE IF t = "TLS" THEN "tls" ELSE IF t = "VeNCrypt" THEN "veVersion" ELSE "closed"
         /\ toClient' \in Seq(Messages)
         /\ Len(toClient') = Len(toClient) + Len(said)
              + IF (t = "None" /\ spoken > 3007) \/ t \in Challenged \/ t = "VeNCrypt" THEN 1 ELSE 0
         /\ \A i \in 1 .. Len(toClient) : toClient'[i] = toClient[i]
         /\ \A i \in 1 .. Len(said) : toClient'[Len(toClient) + i] = said[i]
         /\ t = "None" /\ spoken > 3007 =>
              toClient'[Len(toClient) + Len(said) + 1] =
                [kind |-> "result", value |-> "ok", layer |-> serverLayer]
         /\ t \in Challenged =>
              toClient'[Len(toClient) + Len(said) + 1] =
                [kind |-> "challenge", value |-> "challenge", layer |-> serverLayer]
         /\ t = "VeNCrypt" =>
              /\ toClient'[Len(toClient) + Len(said) + 1].kind = "veVersion"
              /\ toClient'[Len(toClient) + Len(said) + 1].layer = serverLayer
<1>1. "None" \notin Challenged /\ "TLS" \notin Challenged /\ "VeNCrypt" \notin Challenged
  BY DEF Challenged
<1>2. /\ "result" \in Kinds /\ "ok" \in Values /\ "challenge" \in Kinds /\ "challenge" \in Values
      /\ "veVersion" \in Kinds
  BY SomeKinds
<1>3. Len(toClient) \in Nat /\ Len(said) \in Nat
  BY DEF ChannelTypes
<1>4. CASE t = "None" /\ spoken > 3007
  <2>1. Sends(said \o Message("result", "ok", serverLayer), "clientInit")
    BY <1>1, <1>4 DEF ServerStarts
  <2>2. /\ serverAt' = "clientInit" /\ toClient' \in Seq(Messages)
        /\ Len(toClient') = Len(toClient) + Len(said) + 1
        /\ \A i \in 1 .. Len(toClient) : toClient'[i] = toClient[i]
        /\ \A i \in 1 .. Len(said) : toClient'[Len(toClient) + i] = said[i]
        /\ toClient'[Len(toClient) + Len(said) + 1] =
             [kind |-> "result", value |-> "ok", layer |-> serverLayer]
    BY <1>2, <2>1, SendsMore
  <2> QED BY <1>1, <1>4, <2>2
<1>5. CASE t \in Challenged
  <2>1. Sends(said \o Message("challenge", "challenge", serverLayer), "response")
    BY <1>1, <1>5 DEF ServerStarts, Bare
  <2>2. /\ serverAt' = "response" /\ toClient' \in Seq(Messages)
        /\ Len(toClient') = Len(toClient) + Len(said) + 1
        /\ \A i \in 1 .. Len(toClient) : toClient'[i] = toClient[i]
        /\ \A i \in 1 .. Len(said) : toClient'[Len(toClient) + i] = said[i]
        /\ toClient'[Len(toClient) + Len(said) + 1] =
             [kind |-> "challenge", value |-> "challenge", layer |-> serverLayer]
    BY <1>2, <2>1, SendsMore
  <2> QED BY <1>1, <1>5, <2>2
<1>6. CASE t = "VeNCrypt"
  <2>1. PICK v \in VeNCryptVersions : Sends(said \o Message("veVersion", v, serverLayer), "veVersion")
    BY <1>1, <1>6 DEF ServerStarts
  <2>2. v \in Values
    BY HandshakeAssumption DEF Values
  <2>3. /\ serverAt' = "veVersion" /\ toClient' \in Seq(Messages)
        /\ Len(toClient') = Len(toClient) + Len(said) + 1
        /\ \A i \in 1 .. Len(toClient) : toClient'[i] = toClient[i]
        /\ \A i \in 1 .. Len(said) : toClient'[Len(toClient) + i] = said[i]
        /\ toClient'[Len(toClient) + Len(said) + 1] =
             [kind |-> "veVersion", value |-> v, layer |-> serverLayer]
    BY <1>2, <2>1, <2>2, SendsMore
  <2>4. /\ toClient'[Len(toClient) + Len(said) + 1].kind = "veVersion"
        /\ toClient'[Len(toClient) + Len(said) + 1].layer = serverLayer
    BY <2>3
  <2>5. t # "None" /\ t \notin Challenged
    BY <1>1, <1>6
  <2> QED BY <1>6, <2>3, <2>4, <2>5
<1>7. CASE t \notin Challenged /\ t # "VeNCrypt" /\ ~(t = "None" /\ spoken > 3007)
  <2>1. PICK next : /\ Sends(said, next)
                    /\ next = IF t = "None" THEN "clientInit" ELSE IF t = "TLS" THEN "tls" ELSE "closed"
    BY <1>7 DEF ServerStarts
  <2>2. /\ serverAt' = next /\ toClient' \in Seq(Messages)
        /\ Len(toClient') = Len(toClient) + Len(said)
        /\ \A i \in 1 .. Len(toClient) : toClient'[i] = toClient[i]
        /\ \A i \in 1 .. Len(said) : toClient'[Len(toClient) + i] = said[i]
    BY <2>1, SendsAll
  <2> QED BY <1>3, <1>7, <2>1, <2>2
<1> QED BY <1>4, <1>5, <1>6, <1>7

LEMMA VeNCryptChoiceStep == ASSUME HandshakeInv, ServerGetsVeNCryptChoice PROVE HandshakeInv'
<1>1. /\ Gets("veChoice") /\ subSettled' = Got
      /\ UNCHANGED <<serverLayer, spoken, offers, settled>>
  BY DEF ServerGetsVeNCryptChoice
<1>2. /\ serverAt = "veChoice" /\ Len(toServer) \in Nat \ {0} /\ Got = toServer[1].value
      /\ toServer' \in Seq(Messages) /\ Len(toServer') = Len(toServer) - 1
      /\ \A i \in 1 .. Len(toServer) - 1 : toServer'[i] = toServer[i + 1]
      /\ UNCHANGED <<client, serverVersion>>
  BY <1>1, SameTypesKept, TookOne
<1>3. UNCHANGED <<at, layer, version, authScheme, subAuthScheme, left, offered, subOffered>>
  BY <1>1, <1>2 DEF client, offers
<1>4. at # "failed" =>
        /\ Plainly /\ settled = "VeNCrypt" /\ authScheme = "VeNCrypt" /\ spoken = version
        /\ Len(toClient) = 0 /\ subAuthScheme \in Encrypted \cup Unencrypted
        /\ toServer[1] = [kind |-> "veChoice", value |-> subAuthScheme, layer |-> "plain"]
        /\ \/ at = AfterChoice(subAuthScheme).at /\ Len(toServer) = 1
           \/ /\ subAuthScheme = "Plain" /\ at = "result"
              /\ Len(toServer) = 2 /\ Is(toServer, 2, "response", "plain")
              /\ toServer[2].value \in {"right", "wrong"}
  BY <1>2 DEF HandshakeInv, Turns, BeforeVeNCryptChoice
<1>5. PICK t : t = Got
  OBVIOUS
<1>6. at # "failed" => t = subAuthScheme /\ subSettled' = subAuthScheme' /\ SameTypes'
  BY <1>1, <1>2, <1>3, <1>4, <1>5
<1>7. CASE t \in Unencrypted
  <2>1. PICK said \in Seq(Messages) : said = <<>>
    BY SameTypesKept
  <2>2. SubStarts(t, said, "plain") /\ Len(said) = 0
    BY <1>5, <1>7, <2>1 DEF ServerGetsVeNCryptChoice
  <2>3. Len(toClient) \in Nat /\ ChannelTypes /\ "plain" \in {"plain", "tls"}
    BY SameTypesKept
  <2>4. /\ serverAt' = IF t \in Free THEN "clientInit" ELSE "response"
        /\ toClient' \in Seq(Messages)
        /\ Len(toClient') = Len(toClient) + IF t \in Free \cup Challenged THEN 1 ELSE 0
        /\ t \in Free =>
             toClient'[Len(toClient) + 1] = [kind |-> "result", value |-> "ok", layer |-> "plain"]
        /\ t \in Challenged =>
             toClient'[Len(toClient) + 1] = [kind |-> "challenge", value |-> "challenge", layer |-> "plain"]
    <3>1. /\ serverAt' = IF t \in Free THEN "clientInit" ELSE "response"
          /\ toClient' \in Seq(Messages)
          /\ Len(toClient') = Len(toClient) + Len(said) + IF t \in Free \cup Challenged THEN 1 ELSE 0
          /\ t \in Free =>
               toClient'[Len(toClient) + Len(said) + 1] = [kind |-> "result", value |-> "ok", layer |-> "plain"]
          /\ t \in Challenged =>
               toClient'[Len(toClient) + Len(said) + 1] =
                 [kind |-> "challenge", value |-> "challenge", layer |-> "plain"]
      BY <2>2, <2>3, SubStartsAt
    <3>2. Len(toClient) + Len(said) = Len(toClient)
      BY <2>2, <2>3
    <3> QED BY <3>1, <3>2
  <2>5. CASE at = "failed"
    <3>1. serverAt' \in ServerPhases
      BY <2>4 DEF ServerPhases
    <3> QED BY <1>1, <1>2, <1>3, <2>4, <2>5, <3>1, SameTypesKept, ServerAlone DEF ChannelTypes
  <2>6. CASE at # "failed"
    <3>1. t \in {"None", "VncAuth", "Plain"}
      BY <1>7 DEF Unencrypted
    <3>2. CASE t = "None"
      <4>1. t \in Free /\ t \in Unencrypted /\ at = "result" /\ Len(toServer) = 1
        BY <1>4, <1>6, <2>6, <3>2, AfterChoiceAt DEF Free, Unencrypted
      <4>2. serverAt' = "clientInit" /\ Len(toClient') = 1 /\ Idle'
            /\ toClient'[1] = [kind |-> "result", value |-> "ok", layer |-> "plain"]
        BY <1>2, <1>4, <2>4, <2>6, <4>1
      <4>3. Script'
        BY <1>3, <1>4, <2>6, <4>1, <4>2 DEF Script, Is
      <4>4. BeforeClientInit'
        BY <1>1, <1>3, <1>4, <1>6, <2>6, <4>1, <4>2 DEF BeforeClientInit
      <4>5. Turns'
        BY <1>1, <1>3, <1>4, <2>6, <4>1, <4>2, <4>4 DEF Turns
      <4> QED BY <1>1, <1>2, <1>3, <2>4, <4>3, <4>5, SameTypesKept, ServerStep DEF ChannelTypes
    <3>3. CASE t = "VncAuth"
      <4>1. t \in Challenged /\ t \notin Free /\ t \in Unencrypted /\ at = "challenge" /\ Len(toServer) = 1
        BY <1>4, <1>6, <2>6, <3>3, AfterChoiceAt DEF Free, Challenged, Unencrypted
      <4>2. serverAt' = "response" /\ Len(toClient') = 1 /\ Idle'
            /\ toClient'[1] = [kind |-> "challenge", value |-> "challenge", layer |-> "plain"]
        BY <1>2, <1>4, <2>4, <2>6, <4>1
      <4>3. Script'
        BY <1>3, <1>4, <2>6, <4>1, <4>2 DEF Script, Is
      <4>4. BeforeResponse'
        BY <1>1, <1>3, <1>4, <1>6, <2>6, <4>1, <4>2 DEF BeforeResponse
      <4>5. Turns'
        BY <1>1, <1>3, <1>4, <2>6, <4>1, <4>2, <4>4 DEF Turns
      <4> QED BY <1>1, <1>2, <1>3, <2>4, <4>3, <4>5, SameTypesKept, ServerStep DEF ChannelTypes
    <3>4. CASE t = "Plain"
      <4>1. t \notin Challenged /\ t \notin Free /\ t \in Unencrypted
        BY <3>4 DEF Free, Challenged, Unencrypted
      <4>2. serverAt' = "response" /\ Len(toClient') = 0
        BY <1>4, <2>4, <2>6, <4>1
      <4>3. \/ at = "ask" /\ Idle'
            \/ /\ at = "result" /\ Len(toServer') = 1 /\ Is(toServer, 1, "response", "plain")'
               /\ toServer'[1].value \in {"right", "wrong"}
        <5>1. CASE at = AfterChoice(subAuthScheme).at /\ Len(toServer) = 1
          BY <1>2, <1>6, <2>6, <4>1, <5>1, AfterChoiceAt
        <5>2. CASE /\ at = "result" /\ Len(toServer) = 2 /\ Is(toServer, 2, "response", "plain")
                   /\ toServer[2].value \in {"right", "wrong"}
          <6>1. toServer'[1] = toServer[2] /\ Len(toServer') = 1
            BY <1>2, <5>2
          <6> QED BY <5>2, <6>1 DEF Is
        <5> QED BY <1>4, <2>6, <5>1, <5>2
      <4>4. Script'
        BY <1>3, <4>2, <4>3 DEF Script
      <4>5. BeforeResponse'
        <5>1. SameLayer' /\ SameTypes' /\ Len(toClient') = 0
          BY <1>1, <1>3, <1>4, <1>6, <2>6, <4>2
        <5>2. layer' = "plain" /\ at' = at
          BY <1>3, <1>4, <2>6
        <5>3. CASE at = "ask" /\ Idle'
          BY <5>1, <5>2, <5>3 DEF BeforeResponse
        <5>4. CASE /\ at = "result" /\ Len(toServer') = 1 /\ Is(toServer, 1, "response", "plain")'
                   /\ toServer'[1].value \in {"right", "wrong"}
          BY <5>1, <5>2, <5>4 DEF BeforeResponse
        <5> QED BY <4>3, <5>3, <5>4
      <4>6. Turns'
        BY <1>1, <1>3, <1>4, <2>6, <4>2, <4>3, <4>5 DEF Turns
      <4> QED BY <1>1, <1>2, <1>3, <2>4, <4>4, <4>6, SameTypesKept, ServerStep DEF ChannelTypes
    <3> QED BY <3>1, <3>2, <3>3, <3>4
  <2> QED BY <2>5, <2>6
<1>8. CASE t \notin Unencrypted
  <2>1. PICK v \in {"ok", "refused"} : Sends(Message("veAck", v, "plain"), IF v = "ok" THEN "tls" ELSE "closed")
    BY <1>5, <1>8 DEF ServerGetsVeNCryptChoice
  <2>2. "veAck" \in Kinds /\ v \in Values /\ ChannelTypes /\ "plain" \in {"plain", "tls"}
    BY SomeKinds, SameTypesKept
  <2>3. PICK next : next = IF v = "ok" THEN "tls" ELSE "closed"
    OBVIOUS
  <2>4. /\ serverAt' = next /\ toClient' \in Seq(Messages) /\ Len(toClient') = Len(toClient) + 1
        /\ toClient'[Len(toClient) + 1] = [kind |-> "veAck", value |-> v, layer |-> "plain"]
    BY <2>1, <2>2, <2>3, SendsOne
  <2>5. CASE at = "failed"
    <3>1. serverAt' \in ServerPhases
      BY <2>3, <2>4 DEF ServerPhases
    <3> QED BY <1>1, <1>2, <1>3, <2>4, <2>5, <3>1, SameTypesKept, ServerAlone DEF ChannelTypes
  <2>6. CASE at # "failed"
    <3>1. /\ t \in Encrypted /\ at = "veAck" /\ Len(toServer) = 1
      BY <1>4, <1>6, <1>8, <2>6, AfterChoiceAt DEF Unencrypted
    <3>2. Len(toClient') = 1 /\ Idle' /\ toClient'[1] = [kind |-> "veAck", value |-> v, layer |-> "plain"]
      BY <1>2, <1>4, <2>4, <2>6, <3>1
    <3>3. Script'
      BY <1>3, <1>4, <2>6, <3>1, <3>2 DEF Script, Is
    <3>4. v = "ok" => BeforeTLS'
      BY <1>1, <1>3, <1>4, <1>6, <2>6, <3>1, <3>2 DEF BeforeTLS
    <3>5. Turns'
      BY <1>1, <1>3, <1>4, <2>3, <2>4, <2>6, <3>1, <3>4 DEF Turns
    <3> QED BY <1>1, <1>2, <1>3, <2>4, <3>3, <3>5, SameTypesKept, ServerStep DEF ChannelTypes
  <2> QED BY <2>5, <2>6
<1> QED BY <1>7, <1>8

LEMMA ServerTLSStep == ASSUME HandshakeInv, ServerHandshakesTLS PROVE HandshakeInv'
<1>1. /\ Gets("tls") /\ serverLayer' = "tls"
      /\ UNCHANGED <<spoken, offered, settled, subSettled>>
  BY DEF ServerHandshakesTLS
<1>2. /\ serverAt = "tls" /\ Len(toServer) \in Nat \ {0}
      /\ toServer' \in Seq(Messages) /\ Len(toServer') = Len(toServer) - 1
      /\ UNCHANGED <<client, serverVersion>>
  BY <1>1, SameTypesKept, TookOne
<1>3. UNCHANGED <<at, layer, version, authScheme, subAuthScheme, left>>
  BY <1>2 DEF client
<1>4. at # "failed" =>
        /\ at = "tls" /\ Plainly /\ SameTypes /\ Len(toClient) = 0 /\ Len(toServer) = 1
        /\ spoken = version /\ settled \in {"TLS", "VeNCrypt"}
        /\ settled = "TLS" => subSettled = "unset"
  BY <1>2 DEF HandshakeInv, Turns, BeforeTLS
<1>5. at # "failed" /\ settled = "VeNCrypt" => subAuthScheme \in Anonymous
  BY <1>4 DEF HandshakeInv, Settling
<1>6. /\ "tls" \in Kinds /\ "count" \in Kinds /\ "type" \in Kinds /\ "tls" \in Values
      /\ SecurityTypes \subseteq Values /\ "tls" \in {"plain", "tls"} /\ "plain" \in {"plain", "tls"}
  BY SomeKinds DEF Values
<1>7. CASE settled = "TLS"
  <2>1. PICK list \in Lists(SecurityTypes) :
          /\ Sends(Bare("tls", "plain") \o Message("count", Len(list), "tls")
                     \o TypeMessages(list, "type", "tls"), "choice")
          /\ subOffered' = list
    BY <1>7 DEF ServerHandshakesTLS
  <2>2. list \in Seq(SecurityTypes) /\ Len(list) \in 1 .. MaxTypes /\ Len(list) \in Nat \ {0}
        /\ Len(list) \in Values
    BY ListTypes, HandshakeAssumption DEF Values
  <2>3. subOffered' \in Seq(SecurityTypes \cup VeNCryptTypes)
    BY <2>1, <2>2
  <2>4. PICK h \in Seq(Messages) :
          /\ h = Bare("tls", "plain") \o Message("count", Len(list), "tls") /\ Len(h) = 2
          /\ h[1] = [kind |-> "tls", value |-> "tls", layer |-> "plain"]
          /\ h[2] = [kind |-> "count", value |-> Len(list), layer |-> "tls"]
    <3>1. PICK c \in Seq(Messages) :
            /\ c = Bare("tls", "plain") /\ Len(c) = 1
            /\ c[1] = [kind |-> "tls", value |-> "tls", layer |-> "plain"]
      BY <1>6, OneBare
    <3>2. PICK d \in Seq(Messages) :
            /\ d = Message("count", Len(list), "tls") /\ Len(d) = 1
            /\ d[1] = [kind |-> "count", value |-> Len(list), layer |-> "tls"]
      BY <1>6, <2>2, OneMessage
    <3>3. c \o d \in Seq(Messages) /\ Len(c \o d) = 2 /\ (c \o d)[1] = c[1] /\ (c \o d)[2] = d[1]
      BY <3>1, <3>2, JoinedOne
    <3> QED BY <3>1, <3>2, <3>3
  <2>5. PICK t \in Seq(Messages) :
          /\ t = TypeMessages(list, "type", "tls") /\ Len(t) = Len(list)
          /\ \A i \in 1 .. Len(list) : t[i] = [kind |-> "type", value |-> list[i], layer |-> "tls"]
    BY <1>6, <2>2, ManyTypes
  <2>6. /\ Sends(h \o t, "choice") /\ h \o t \in Seq(Messages)
        /\ toClient' \in Seq(Messages) /\ serverAt' = "choice"
    <3>1. Sends(h \o t, "choice")
      BY <2>1, <2>4, <2>5
    <3>2. h \o t \in Seq(Messages)
      BY Joined
    <3> QED BY <3>1, <3>2, SameTypesKept, SendsAll
  <2>7. CASE at = "failed"
    BY <1>1, <1>2, <2>3, <2>6, <2>7, SameTypesKept, ServerAlone DEF ServerPhases, ChannelTypes
  <2>8. CASE at # "failed"
    <3>1. /\ Len(toClient') = 2 + Len(list) /\ toClient'[1] = h[1] /\ toClient'[2] = h[2]
          /\ \A i \in 1 .. Len(list) :
               toClient'[2 + i] = [kind |-> "type", value |-> list[i], layer |-> "tls"]
      <4>1. ChannelTypes /\ Len(toClient) = 0 /\ Sends(h \o t, "choice")
        BY <1>4, <2>6, <2>8, SameTypesKept
      <4>2. /\ Len(toClient') = Len(h) + Len(t)
            /\ \A i \in 1 .. Len(h) : toClient'[i] = h[i]
            /\ \A i \in 1 .. Len(t) : toClient'[Len(h) + i] = t[i]
        BY <4>1, SendsList
      <4>3. \A i \in 1 .. Len(list) :
              toClient'[2 + i] = [kind |-> "type", value |-> list[i], layer |-> "tls"]
        BY <2>4, <2>5, <4>2
      <4> QED BY <2>4, <2>5, <4>2, <4>3
    <3>2. Counted(2, "count", "type", subOffered, "tls")'
      BY <2>1, <2>2, <2>4, <3>1 DEF Counted
    <3>3. authScheme' = "TLS" /\ at' = "tls"
      BY <1>3, <1>4, <1>7, <2>8
    <3>4. Script'
      BY <2>4, <3>1, <3>2, <3>3 DEF Script, Is
    <3>5. Len(toClient') > 1 /\ Idle'
      <4>1. Len(list) \in Nat \ {0} /\ Len(toClient') = 2 + Len(list)
        BY <2>2, <3>1
      <4>2. Idle'
        <5>1. Len(toServer) = 1
          BY <1>4, <2>8
        <5> QED BY <1>2, <5>1
      <4> QED BY <4>1, <4>2
    <3>6. BeforeChoice'
      BY <1>1, <1>4, <1>7, <2>8, <3>3, <3>5 DEF BeforeChoice
    <3>7. spoken' = version'
      BY <1>1, <1>3, <1>4, <2>8
    <3>8. Turns'
      BY <2>6, <3>3, <3>6, <3>7 DEF Turns
    <3> QED BY <1>1, <1>2, <2>3, <2>6, <3>4, <3>8, SameTypesKept, ServerStep DEF ChannelTypes
  <2> QED BY <2>7, <2>8
<1>8. CASE settled # "TLS"
  <2>1. PICK said \in Seq(Messages) : /\ said = Bare("tls", "plain") /\ Len(said) = 1
                                      /\ said[1] = [kind |-> "tls", value |-> "tls", layer |-> "plain"]
    BY <1>6, OneBare
  <2>2. SubStarts(subSettled, said, "tls") /\ UNCHANGED subOffered
    BY <1>8, <2>1 DEF ServerHandshakesTLS
  <2>3. Len(toClient) \in Nat /\ ChannelTypes
    BY SameTypesKept
  <2>4. /\ serverAt' = IF subSettled \in Free THEN "clientInit" ELSE "response"
        /\ toClient' \in Seq(Messages)
        /\ Len(toClient') = Len(toClient) + Len(said) + IF subSettled \in Free \cup Challenged THEN 1 ELSE 0
        /\ \A i \in 1 .. Len(said) : toClient'[Len(toClient) + i] = said[i]
        /\ subSettled \in Free =>
             toClient'[Len(toClient) + Len(said) + 1] = [kind |-> "result", value |-> "ok", layer |-> "tls"]
        /\ subSettled \in Challenged =>
             toClient'[Len(toClient) + Len(said) + 1] =
               [kind |-> "challenge", value |-> "challenge", layer |-> "tls"]
    BY <1>6, <2>2, <2>3, SubStartsAt
  <2>5. serverAt' \in {"clientInit", "response"}
    BY <2>4
  <2>6. CASE at = "failed"
    BY <1>1, <1>2, <2>2, <2>4, <2>5, <2>6, SameTypesKept, ServerAlone DEF ServerPhases, ChannelTypes
  <2>7. CASE at # "failed"
    <3>1. /\ at' = "tls" /\ authScheme' = "VeNCrypt" /\ subAuthScheme' \in Anonymous
          /\ subSettled = subAuthScheme' /\ SameTypes' /\ spoken' = version' /\ Idle'
      <4>1. at = "tls" /\ SameTypes /\ settled = "VeNCrypt" /\ subAuthScheme \in Anonymous /\ spoken = version
        BY <1>4, <1>5, <1>8, <2>7
      <4>2. Idle'
        <5>1. Len(toServer) = 1
          BY <1>4, <2>7
        <5> QED BY <1>2, <5>1
      <4> QED BY <1>1, <1>3, <4>1, <4>2
    <3>2. PICK t : t = subSettled
      OBVIOUS
    <3>3. /\ t = subAuthScheme' /\ t \in {"TLSNone", "TLSVNC", "TLSPlain"}
      BY <3>1, <3>2 DEF Anonymous, Encrypted, WithCertificate
    <3>4. /\ Len(toClient') = IF t \in Free \cup Challenged THEN 2 ELSE 1
          /\ Is(toClient, 1, "tls", "plain")'
          /\ t \in Free => toClient'[2] = [kind |-> "result", value |-> "ok", layer |-> "tls"]
          /\ t \in Challenged => toClient'[2] = [kind |-> "challenge", value |-> "challenge", layer |-> "tls"]
      <4>1. Len(toClient) = 0 /\ Len(said) = 1
        BY <1>4, <2>1, <2>7
      <4> QED BY <2>1, <2>4, <3>2, <4>1 DEF Is
    <3>5. t \in Free => t \notin Challenged
      BY DEF Free, Challenged
    <3>6. Opens(2, StartSub(t).at, "tls")'
      BY <3>4, <3>5, AfterChoiceAt DEF Opens, Is
    <3>7. Script'
      BY <3>1, <3>3, <3>4, <3>6 DEF Script
    <3>8. CASE t \in Free
      <4>1. BeforeClientInit'
        BY <1>1, <3>1, <3>3, <3>4, <3>8 DEF BeforeClientInit
      <4>2. Turns'
        BY <2>4, <3>1, <3>2, <3>8, <4>1 DEF Turns
      <4> QED BY <1>1, <1>2, <2>2, <2>4, <3>7, <4>2, SameTypesKept, ServerStep DEF ChannelTypes
    <3>9. CASE t \notin Free
      <4>1. t \in Challenged \/ t \in Plain
        BY <3>3, <3>9 DEF Challenged, Plain, Free
      <4>2. t \in Plain => t \notin Challenged
        BY DEF Challenged, Plain
      <4>3. BeforeResponse'
        BY <1>1, <3>1, <3>3, <3>4, <3>9, <4>1, <4>2 DEF BeforeResponse
      <4>4. Turns'
        BY <2>4, <3>1, <3>2, <3>9, <4>3 DEF Turns
      <4> QED BY <1>1, <1>2, <2>2, <2>4, <3>7, <4>4, SameTypesKept, ServerStep DEF ChannelTypes
    <3> QED BY <3>8, <3>9
  <2> QED BY <2>6, <2>7
<1> QED BY <1>7, <1>8

LEMMA VersionAgreedStep == ASSUME HandshakeInv, ServerVersionAgreed PROVE HandshakeInv'
<1>1. /\ Gets("version") /\ spoken' = Lower(Got)
      /\ UNCHANGED <<serverLayer, subOffered, subSettled>>
  BY DEF ServerVersionAgreed
<1>2. /\ serverAt = "version" /\ Len(toServer) \in Nat \ {0} /\ Got = toServer[1].value
      /\ toServer' \in Seq(Messages) /\ Len(toServer') = Len(toServer) - 1
      /\ UNCHANGED <<client, serverVersion>>
  BY <1>1, SameTypesKept, TookOne
<1>3. UNCHANGED <<at, layer, version, authScheme, subAuthScheme, left>>
  BY <1>2 DEF client
<1>4. at # "failed" =>
        /\ Plainly /\ settled = "unset" /\ subSettled = "unset" /\ subOffered = <<>> /\ spoken = 0
        /\ at = IF version > 3006 THEN "count" ELSE "scheme"
        /\ Len(toClient) = 0 /\ Len(toServer) = 1 /\ Got = version
  BY <1>2 DEF HandshakeInv, Turns, BeforeVersion
<1>5. at # "failed" => /\ at \in {"count", "scheme"}
                       /\ authScheme = "unset" /\ subAuthScheme = "unset" /\ version = ReplyTo(serverVersion)
  BY <1>4 DEF HandshakeInv, Settling
<1>6. at # "failed" => /\ Lower(Got) = version /\ spoken' = version' /\ Idle' /\ Plainly'
                       /\ subSettled' = "unset" /\ subAuthScheme' = "unset" /\ subOffered' = <<>>
  <2>1. at # "failed" => Lower(version) = version
    BY <1>5, SameTypesKept, ReplyAt DEF ChannelTypes
  <2>2. Len(toServer) = 1 => Idle'
    BY <1>2
  <2> QED BY <1>1, <1>3, <1>4, <1>5, <2>1, <2>2
<1>7. /\ "count" \in Kinds /\ "scheme" \in Kinds /\ "type" \in Kinds /\ "reason" \in Kinds
      /\ 0 \in Values /\ "ConnFailed" \in Values /\ SecurityTypes \subseteq Values
      /\ "MSLogon" \in Values /\ "plain" \in {"plain", "tls"}
  BY SomeKinds DEF Values, Challenged
<1>8. ASSUME NEW kind \in {"count", "scheme"}, NEW value \in {0, "ConnFailed"},
             kind = "count" => Lower(Got) > 3006 /\ value = 0,
             kind = "scheme" => ~(Lower(Got) > 3006) /\ value = "ConnFailed",
             Sends(Message(kind, value, "plain") \o Bare("reason", "plain"), "closed"),
             UNCHANGED offered
      PROVE  HandshakeInv'
  <2>1. kind \in Kinds /\ value \in Values /\ ChannelTypes
    BY <1>7, SameTypesKept
  <2>2. /\ serverAt' = "closed" /\ toClient' \in Seq(Messages) /\ Len(toClient') = Len(toClient) + 2
        /\ toClient'[Len(toClient) + 1] = [kind |-> kind, value |-> value, layer |-> "plain"]
        /\ toClient'[Len(toClient) + 2] = [kind |-> "reason", value |-> "reason", layer |-> "plain"]
    <3>1. PICK m \in Seq(Messages) : /\ m = Message(kind, value, "plain") /\ Len(m) = 1
                                     /\ m[1] = [kind |-> kind, value |-> value, layer |-> "plain"]
      BY <1>7, <2>1, OneMessage
    <3>2. PICK b \in Seq(Messages) : /\ b = Bare("reason", "plain") /\ Len(b) = 1
                                     /\ b[1] = [kind |-> "reason", value |-> "reason", layer |-> "plain"]
      BY <1>7, OneBare
    <3>3. m \o b \in Seq(Messages) /\ Len(m \o b) = 2 /\ (m \o b)[1] = m[1] /\ (m \o b)[2] = b[1]
      BY <3>1, <3>2, JoinedOne
    <3>4. PICK c \in Seq(Messages) : c = m \o b /\ Len(c) = 2 /\ c[1] = m[1] /\ c[2] = b[1]
      BY <3>3
    <3>5. Sends(c, "closed") /\ ChannelTypes
      BY <1>8, <2>1, <3>1, <3>2, <3>4
    <3>6. /\ serverAt' = "closed" /\ toClient' \in Seq(Messages) /\ Len(toClient') = Len(toClient) + 2
          /\ toClient'[Len(toClient) + 1] = c[1] /\ toClient'[Len(toClient) + 2] = c[2]
      <4>1. /\ serverAt' = "closed" /\ toClient' \in Seq(Messages) /\ Len(toClient') = Len(toClient) + Len(c)
            /\ \A i \in 1 .. Len(c) : toClient'[Len(toClient) + i] = c[i]
        BY <3>5, SendsAll
      <4> QED BY <3>4, <4>1
    <3> QED BY <3>1, <3>2, <3>4, <3>6
  <2>3. CASE at = "failed"
    BY <1>1, <1>2, <1>8, <2>2, <2>3, SameTypesKept, ServerAlone DEF ServerPhases, ChannelTypes
  <2>4. CASE at # "failed"
    <3>1. at = kind
      BY <1>4, <1>5, <1>6, <1>8, <2>4
    <3>2. Len(toClient') = 2 /\ Is(toClient, 1, kind, "plain")' /\ toClient'[1].value = value
          /\ Is(toClient, 2, "reason", "plain")'
      BY <1>4, <2>2, <2>4 DEF Is
    <3>3. Script'
      <4>1. CASE kind = "count"
        BY <1>3, <1>6, <1>8, <2>4, <3>1, <3>2, <4>1 DEF Script
      <4>2. CASE kind = "scheme"
        BY <1>3, <1>6, <1>8, <2>4, <3>1, <3>2, <4>2 DEF Script
      <4> QED BY <4>1, <4>2
    <3>4. Turns'
      BY <1>3, <1>5, <2>2, <2>4 DEF Turns
    <3> QED BY <1>1, <1>2, <1>8, <2>2, <3>3, <3>4, SameTypesKept, ServerStep DEF ChannelTypes
  <2> QED BY <2>3, <2>4
<1>9. ASSUME Lower(Got) > 3006, UNCHANGED settled, NEW list \in Lists(SecurityTypes), offered' = list,
             Sends(Message("count", Len(list), "plain") \o TypeMessages(list, "type", "plain"), "choice")
      PROVE  HandshakeInv'
  <2>1. list \in Seq(SecurityTypes) /\ Len(list) \in 1 .. MaxTypes /\ Len(list) \in Nat \ {0}
        /\ Len(list) \in Values
    BY ListTypes, HandshakeAssumption DEF Values
  <2>2. offered' \in Seq(SecurityTypes \cup {"MSLogon"})
    BY <1>9, <2>1
  <2>3. PICK h \in Seq(Messages) : /\ h = Message("count", Len(list), "plain") /\ Len(h) = 1
                                   /\ h[1] = [kind |-> "count", value |-> Len(list), layer |-> "plain"]
    BY <1>7, <2>1, OneMessage
  <2>4. PICK t \in Seq(Messages) :
          /\ t = TypeMessages(list, "type", "plain") /\ Len(t) = Len(list)
          /\ \A i \in 1 .. Len(list) : t[i] = [kind |-> "type", value |-> list[i], layer |-> "plain"]
    BY <1>7, <2>1, ManyTypes
  <2>5. /\ Sends(h \o t, "choice") /\ h \o t \in Seq(Messages)
        /\ toClient' \in Seq(Messages) /\ serverAt' = "choice"
    <3>1. Sends(h \o t, "choice")
      BY <1>9, <2>3, <2>4
    <3>2. h \o t \in Seq(Messages)
      BY Joined
    <3> QED BY <3>1, <3>2, SameTypesKept, SendsAll
  <2>6. CASE at = "failed"
    BY <1>1, <1>2, <2>2, <2>5, <2>6, SameTypesKept, ServerAlone DEF ServerPhases, ChannelTypes
  <2>7. CASE at # "failed"
    <3>1. /\ Len(toClient') = 1 + Len(list) /\ toClient'[1] = h[1]
          /\ \A i \in 1 .. Len(list) :
               toClient'[1 + i] = [kind |-> "type", value |-> list[i], layer |-> "plain"]
      <4>1. ChannelTypes /\ Len(toClient) = 0 /\ Sends(h \o t, "choice")
        BY <1>4, <2>5, <2>7, SameTypesKept
      <4>2. /\ Len(toClient') = Len(h) + Len(t)
            /\ \A i \in 1 .. Len(h) : toClient'[i] = h[i]
            /\ \A i \in 1 .. Len(t) : toClient'[Len(h) + i] = t[i]
        BY <4>1, SendsList
      <4>3. \A i \in 1 .. Len(list) :
              toClient'[1 + i] = [kind |-> "type", value |-> list[i], layer |-> "plain"]
        BY <2>3, <2>4, <4>2
      <4> QED BY <2>3, <2>4, <4>2, <4>3
    <3>2. Counted(1, "count", "type", offered, "plain")'
      BY <1>9, <2>1, <2>3, <3>1 DEF Counted
    <3>3. at' = "count" /\ layer' = "plain" /\ List' = offered'
      BY <1>3, <1>4, <1>6, <1>9, <2>7 DEF List
    <3>4. Script'
      <4>1. Counted(1, "count", "type", List, layer)'
        BY <3>2, <3>3
      <4> QED BY <3>3, <4>1 DEF Script
    <3>5. Len(toClient') > 0 /\ toClient'[1].value # 0
      <4>1. toClient'[1].value = Len(list)
        BY <2>3, <3>1
      <4> QED BY <2>1, <3>1, <4>1
    <3>6. settled' = "unset" /\ SameLayer'
      BY <1>4, <1>6, <1>9, <2>7
    <3>7. BeforeChoice'
      BY <1>6, <2>7, <3>3, <3>5, <3>6 DEF BeforeChoice
    <3>8. Turns'
      BY <1>6, <2>5, <2>7, <3>3, <3>7 DEF Turns
    <3> QED BY <1>1, <1>2, <2>2, <2>5, <3>4, <3>8, SameTypesKept, ServerStep DEF ChannelTypes
  <2> QED BY <2>6, <2>7
<1>10. ASSUME ~(Lower(Got) > 3006), NEW t \in SecurityTypes \cup {"MSLogon"}, settled' = t, offered' = <<t>>,
              ServerStarts(t, Message("scheme", t, "plain"))
       PROVE  HandshakeInv'
  <2>1. PICK said \in Seq(Messages) : /\ said = Message("scheme", t, "plain") /\ Len(said) = 1
                                      /\ said[1] = [kind |-> "scheme", value |-> t, layer |-> "plain"]
    <3>1. t \in Values
      BY <1>7
    <3> QED BY <1>7, <3>1, OneMessage
  <2>2. offered' \in Seq(SecurityTypes \cup {"MSLogon"})
    BY <1>10
  <2>3. /\ serverAt' = IF t = "None" THEN "clientInit" ELSE IF t \in Challenged THEN "response"
                       ELSE IF t = "TLS" THEN "tls" ELSE IF t = "VeNCrypt" THEN "veVersion" ELSE "closed"
        /\ toClient' \in Seq(Messages)
        /\ Len(toClient') = Len(toClient) + Len(said)
             + IF (t = "None" /\ spoken > 3007) \/ t \in Challenged \/ t = "VeNCrypt" THEN 1 ELSE 0
        /\ \A i \in 1 .. Len(said) : toClient'[Len(toClient) + i] = said[i]
        /\ t \in Challenged =>
             toClient'[Len(toClient) + Len(said) + 1] =
               [kind |-> "challenge", value |-> "challenge", layer |-> serverLayer]
        /\ t = "VeNCrypt" =>
             /\ toClient'[Len(toClient) + Len(said) + 1].kind = "veVersion"
             /\ toClient'[Len(toClient) + Len(said) + 1].layer = serverLayer
    <3>1. ServerStarts(t, said) /\ serverLayer \in {"plain", "tls"} /\ ChannelTypes
      BY <1>10, <2>1, SameTypesKept
    <3> QED BY <3>1, ServerStartsAt
  <2>4. serverAt' \in {"clientInit", "response", "tls", "veVersion", "closed"}
    BY <2>3
  <2>5. CASE at = "failed"
    BY <1>1, <1>2, <2>2, <2>3, <2>4, <2>5, SameTypesKept, ServerAlone DEF ServerPhases, ChannelTypes
  <2>6. CASE at # "failed"
    <3>1. at' = "scheme" /\ layer' = "plain" /\ ~(version' > 3007)
      BY <1>3, <1>4, <1>6, <1>10, <2>6, SameTypesKept
    <3>2. /\ Len(toClient') = IF t \in Challenged \/ t = "VeNCrypt" THEN 2 ELSE 1
          /\ toClient'[1] = [kind |-> "scheme", value |-> t, layer |-> "plain"]
          /\ t \in Challenged => toClient'[2] = [kind |-> "challenge", value |-> "challenge", layer |-> "plain"]
          /\ t = "VeNCrypt" => Is(toClient, 2, "veVersion", "plain")'
      <4>1. Len(toClient) = 0 /\ spoken = 0 /\ serverLayer = "plain"
        BY <1>4, <2>6
      <4>2. Len(toClient) + Len(said) = 1 /\ 1 + 0 = 1 /\ 1 + 1 = 2 /\ ~(spoken > 3007)
        BY <2>1, <4>1
      <4>3. toClient'[1] = said[1]
        BY <2>1, <2>3, <4>1
      <4> QED BY <2>1, <2>3, <4>1, <4>2, <4>3 DEF Is
    <3>3. /\ t = "None" => t \notin Challenged /\ Start(t)'.at = "serverInit"
          /\ t \in Challenged => Start(t)'.at = "challenge"
          /\ t = "TLS" => t \notin Challenged /\ Start(t)'.at = "tls"
          /\ t = "VeNCrypt" => t \notin Challenged /\ Start(t)'.at = "veVersion"
      <4>1. "None" \notin Challenged /\ "TLS" \notin Challenged /\ "VeNCrypt" \notin Challenged
        BY DEF Challenged
      <4> QED BY <3>1, <4>1 DEF Start, Waits, ClientInit
    <3>4. Script'
      <4>1. toClient'[1].value = t /\ Is(toClient, 1, "scheme", "plain")'
        BY <3>2 DEF Is
      <4>2. Opens(2, Start(t).at, "plain")'
        <5>1. CASE t \in Challenged
          BY <3>2, <3>3, <5>1 DEF Opens, Is
        <5>2. CASE t = "VeNCrypt"
          BY <3>2, <3>3, <5>2 DEF Opens, Is
        <5>3. CASE t \notin Challenged /\ t # "VeNCrypt"
          BY <3>2, <5>3 DEF Opens
        <5> QED BY <5>1, <5>2, <5>3
      <4>3. t = "ConnFailed" => Len(toClient') = 1
        BY <3>2 DEF Challenged
      <4>4. Start(toClient[1].value)'.at = Start(t)'.at
        BY <4>1 DEF Start, Waits, ClientInit, Fails
      <4>5. Opens(2, Start(toClient[1].value).at, "plain")'
        BY <4>2, <4>4 DEF Opens
      <4>6. offered' = <<toClient'[1].value>>
        BY <1>10, <4>1
      <4>7. (IF toClient[1].value = "ConnFailed"
             THEN Len(toClient) <= 2 /\ (Len(toClient) = 2 => Is(toClient, 2, "reason", "plain"))
             ELSE Opens(2, Start(toClient[1].value).at, "plain") /\ offered = <<toClient[1].value>>)'
        <5>1. CASE t = "ConnFailed"
          <6>1. Len(toClient') = 1
            BY <4>3, <5>1
          <6> QED BY <4>1, <5>1, <6>1
        <5>2. CASE t # "ConnFailed"
          BY <4>1, <4>5, <4>6, <5>2
        <5> QED BY <5>1, <5>2
      <4> QED BY <3>1, <4>1, <4>7 DEF Script
    <3>5. toClient'[1].value = settled' /\ settled' = t /\ Reading("scheme", Len(toClient))'
      <4>1. toClient'[1].value = t
        BY <3>2
      <4>2. Idle' /\ settled' = t
        BY <1>6, <1>10, <2>6
      <4>3. Reading("scheme", Len(toClient))'
        BY <3>1, <4>2
      <4> QED BY <4>1, <4>2, <4>3
    <3>6. Turns'
      <4>1. CASE t = "None"
        <5>1. BeforeClientInit'
          BY <1>6, <2>6, <3>2, <3>3, <3>5, <4>1 DEF BeforeClientInit
        <5> QED BY <1>6, <2>3, <2>6, <3>1, <4>1, <5>1 DEF Turns
      <4>2. CASE t \in Challenged
        <5>1. BeforeResponse'
          BY <1>6, <2>6, <3>2, <3>5, <4>2 DEF BeforeResponse
        <5> QED BY <1>6, <2>3, <2>6, <3>1, <3>3, <4>2, <5>1 DEF Turns
      <4>3. CASE t = "TLS"
        <5>1. BeforeTLS'
          BY <1>6, <2>6, <3>2, <3>3, <3>5, <4>3 DEF BeforeTLS
        <5> QED BY <1>6, <2>3, <2>6, <3>1, <3>3, <4>3, <5>1 DEF Turns
      <4>4. CASE t = "VeNCrypt"
        <5>1. BeforeVeNCryptVersion'
          BY <1>6, <2>6, <3>2, <3>5, <4>4 DEF BeforeVeNCryptVersion
        <5> QED BY <1>6, <2>3, <2>6, <3>1, <3>3, <4>4, <5>1 DEF Turns
      <4>5. CASE t \notin Challenged \cup {"None", "TLS", "VeNCrypt"}
        BY <2>3, <3>1, <4>5 DEF Turns
      <4> QED BY <4>1, <4>2, <4>3, <4>4, <4>5
    <3> QED BY <1>1, <1>2, <2>2, <2>3, <3>4, <3>6, SameTypesKept, ServerStep DEF ChannelTypes
  <2> QED BY <2>5, <2>6
<1>11. CASE Lower(Got) > 3006
  <2>1. CASE Sends(Message("count", 0, "plain") \o Bare("reason", "plain"), "closed") /\ UNCHANGED offered
    BY <1>8, <1>11, <2>1
  <2>2. CASE \E list \in Lists(SecurityTypes) :
               /\ Sends(Message("count", Len(list), "plain") \o TypeMessages(list, "type", "plain"), "choice")
               /\ offered' = list
    BY <1>9, <1>11, <2>2 DEF ServerVersionAgreed
  <2> QED BY <1>11, <2>1, <2>2 DEF ServerVersionAgreed
<1>12. CASE ~(Lower(Got) > 3006)
  <2>1. CASE /\ Sends(Message("scheme", "ConnFailed", "plain") \o Bare("reason", "plain"), "closed")
             /\ UNCHANGED <<settled, offered>>
    BY <1>8, <1>12, <2>1
  <2>2. CASE \E t \in SecurityTypes \cup {"MSLogon"} :
               /\ ServerStarts(t, Message("scheme", t, "plain"))
               /\ settled' = t /\ offered' = <<t>>
    BY <1>10, <1>12, <2>2
  <2> QED BY <1>12, <2>1, <2>2 DEF ServerVersionAgreed
<1> QED BY <1>11, <1>12

LEMMA GetsChoiceStep == ASSUME HandshakeInv, ServerGetsChoice PROVE HandshakeInv'
<1>1. /\ Gets("choice") /\ ServerStarts(Got, <<>>)
      /\ IF settled = "unset" THEN settled' = Got /\ UNCHANGED subSettled
         ELSE subSettled' = Got /\ UNCHANGED settled
      /\ UNCHANGED <<serverLayer, spoken, offers>>
  BY DEF ServerGetsChoice
<1>2. /\ serverAt = "choice" /\ Len(toServer) \in Nat \ {0} /\ Got = toServer[1].value
      /\ toServer' \in Seq(Messages) /\ Len(toServer') = Len(toServer) - 1
      /\ \A i \in 1 .. Len(toServer) - 1 : toServer'[i] = toServer[i + 1]
      /\ UNCHANGED <<client, serverVersion>>
  BY <1>1, SameTypesKept, TookOne
<1>3. UNCHANGED <<at, layer, version, authScheme, subAuthScheme, left, offered, subOffered, serverLayer,
                  spoken>>
  BY <1>1, <1>2 DEF client, offers
<1>4. PICK c : c = Got
  OBVIOUS
<1>5. PICK said \in Seq(Messages) : said = <<>>
  BY SameTypesKept
<1>6. /\ serverAt' = IF c = "None" THEN "clientInit" ELSE IF c \in Challenged THEN "response"
                     ELSE IF c = "TLS" THEN "tls" ELSE IF c = "VeNCrypt" THEN "veVersion" ELSE "closed"
      /\ toClient' \in Seq(Messages)
      /\ Len(toClient') = Len(toClient)
           + IF (c = "None" /\ spoken > 3007) \/ c \in Challenged \/ c = "VeNCrypt" THEN 1 ELSE 0
      /\ \A i \in 1 .. Len(toClient) : toClient'[i] = toClient[i]
      /\ c = "None" /\ spoken > 3007 =>
           toClient'[Len(toClient) + 1] = [kind |-> "result", value |-> "ok", layer |-> serverLayer]
      /\ c \in Challenged =>
           toClient'[Len(toClient) + 1] = [kind |-> "challenge", value |-> "challenge", layer |-> serverLayer]
      /\ c = "VeNCrypt" =>
           /\ toClient'[Len(toClient) + 1].kind = "veVersion"
           /\ toClient'[Len(toClient) + 1].layer = serverLayer
  <2>1. ServerStarts(c, said) /\ serverLayer \in {"plain", "tls"} /\ ChannelTypes
    BY <1>1, <1>4, <1>5, SameTypesKept
  <2>2. /\ serverAt' = IF c = "None" THEN "clientInit" ELSE IF c \in Challenged THEN "response"
                       ELSE IF c = "TLS" THEN "tls" ELSE IF c = "VeNCrypt" THEN "veVersion" ELSE "closed"
        /\ toClient' \in Seq(Messages)
        /\ Len(toClient') = Len(toClient) + Len(said)
             + IF (c = "None" /\ spoken > 3007) \/ c \in Challenged \/ c = "VeNCrypt" THEN 1 ELSE 0
        /\ \A i \in 1 .. Len(toClient) : toClient'[i] = toClient[i]
        /\ c = "None" /\ spoken > 3007 =>
             toClient'[Len(toClient) + Len(said) + 1] =
               [kind |-> "result", value |-> "ok", layer |-> serverLayer]
        /\ c \in Challenged =>
             toClient'[Len(toClient) + Len(said) + 1] =
               [kind |-> "challenge", value |-> "challenge", layer |-> serverLayer]
        /\ c = "VeNCrypt" =>
             /\ toClient'[Len(toClient) + Len(said) + 1].kind = "veVersion"
             /\ toClient'[Len(toClient) + Len(said) + 1].layer = serverLayer
    BY <2>1, ServerStartsAt
  <2>3. Len(toClient) + Len(said) = Len(toClient)
    BY <1>5, SameTypesKept
  <2> QED BY <2>2, <2>3
<1>7. serverAt' \in {"clientInit", "response", "tls", "veVersion", "closed"}
  BY <1>6
<1>8. CASE at = "failed"
  BY <1>1, <1>2, <1>3, <1>6, <1>7, <1>8, SameTypesKept, ServerAlone DEF ServerPhases, ChannelTypes
<1>9. CASE at # "failed"
  <2>1. BeforeChoice /\ spoken = version
    BY <1>2, <1>9 DEF HandshakeInv, Turns
  <2>2. /\ SameLayer /\ Supported(Chosen) /\ subSettled = "unset"
        /\ toServer[1] = [kind |-> "choice", value |-> Chosen, layer |-> layer]
        /\ \/ at = "type" /\ Len(toClient) = left /\ Len(toServer) = 1
           \/ /\ at = Start(Chosen).at /\ Len(toClient) = 0
              /\ IF at \in {"serverInit", "tls"}
                 THEN Len(toServer) = 2 /\ toServer[2] = Start(Chosen).says[1]
                 ELSE Len(toServer) = 1
    BY <1>2, <2>1 DEF BeforeChoice
  <2>3. IF layer = "plain" THEN settled = "unset" /\ subAuthScheme = "unset" /\ subOffered = <<>>
        ELSE settled = "TLS" /\ authScheme = "TLS"
    BY <2>1, <2>2 DEF BeforeChoice
  <2>4. c = Chosen
    BY <1>2, <1>4, <2>2
  <2>5. SameTypes' /\ SameLayer'
    <3>1. CASE layer = "plain"
      BY <1>1, <1>3, <1>4, <2>2, <2>3, <2>4, <3>1 DEF Chosen
    <3>2. CASE layer # "plain"
      <4>1. layer = "tls"
        BY <3>2, SameTypesKept
      <4> QED BY <1>1, <1>3, <1>4, <2>2, <2>3, <2>4, <4>1 DEF Chosen
    <3> QED BY <3>1, <3>2
  <2>6. /\ c \in {"None", "VncAuth", "ARD", "TLS", "VeNCrypt"}
        /\ c \in {"TLS", "VeNCrypt"} => layer = "plain"
        /\ c \in Challenged <=> c \in {"VncAuth", "ARD"}
    BY <2>2, <2>4 DEF Supported, Challenged
  <2>7. UNCHANGED <<List, Chosen, Start(c)>> /\ Chosen' = c /\ spoken' = version'
    BY <1>3, <2>1, <2>4 DEF List, Chosen, Start, ClientInit, Waits, Bare, Message, Fails
  <2>8. Start(c).at = IF c = "None" THEN IF version > 3007 THEN "result" ELSE "serverInit"
                      ELSE IF c \in Challenged THEN IF layer = "tls" /\ c = "ARD" THEN "failed" ELSE "challenge"
                      ELSE IF c = "TLS" THEN "tls" ELSE "veVersion"
    <3>1. c \in Challenged => c = "VncAuth" \/ c = "ARD"
      BY <2>6
    <3>2. Start(c).at = IF c = "None" THEN IF version > 3007 THEN "result" ELSE "serverInit"
                        ELSE IF c \in Challenged /\ (layer = "tls" => c = "VncAuth") THEN "challenge"
                        ELSE IF c = "TLS" /\ layer = "plain" THEN "tls"
                        ELSE IF c = "VeNCrypt" /\ layer = "plain" THEN "veVersion" ELSE "failed"
      BY StartAt
    <3> QED BY <2>6, <3>1, <3>2
  <2>9. Len(toClient) \in Nat /\ version \in Nat /\ left \in Nat
    BY SameTypesKept, HandshakeAssumption
  <2>10. PICK more \in {0, 1} :
           /\ Len(toClient') = Len(toClient) + more
           /\ more = IF c = "None" THEN IF version > 3007 THEN 1 ELSE 0 ELSE IF c = "TLS" THEN 0 ELSE 1
    BY <1>6, <2>1, <2>6
  <2>11. more = 1 /\ Start(c).at # "failed" => 
           /\ Is(toClient', Len(toClient) + 1, Start(c).at, layer)
           /\ Start(c).at = "result" => toClient'[Len(toClient) + 1].value = "ok"
    BY <1>6, <2>1, <2>2, <2>6, <2>8, <2>10 DEF Is
  <2>12. CASE at = "type" /\ Len(toClient) = left /\ Len(toServer) = 1
    <3>1. Rest("type", List) /\ left \in Nat /\ Len(List) \in Nat
      BY <2>9, <2>12, SameTypesKept DEF HandshakeInv, Script, List, ChannelTypes
    <3>2. Rest("type", List)'
      <4>1. PICK list : list = List
        OBVIOUS
      <4>2. Rest("type", list) /\ List' = list /\ left' = left /\ layer' = layer
        BY <1>3, <2>7, <3>1, <4>1
      <4>3. left' <= Len(toClient') /\ \A i \in 1 .. left : toClient'[i] = toClient[i]
        BY <1>6, <2>9, <2>10, <2>12, <4>2
      <4> QED BY <4>2, <4>3 DEF Rest
    <3>3. Opens(left + 1, Start(Chosen).at, layer)'
      <4>1. Opens(left + 1, Start(c).at, layer)'
        <5>1. Start(c)' = Start(c) /\ left' = left /\ layer' = layer /\ left + 1 - 1 = left
          BY <1>3, <2>7, <2>9
        <5>2. CASE more = 0
          <6>1. Len(toClient') = left
            BY <2>9, <2>10, <2>12, <5>2
          <6> QED BY <5>1, <6>1 DEF Opens
        <5>3. CASE more = 1
          <6>1. Len(toClient') = left + 1
            BY <2>9, <2>10, <2>12, <5>3
          <6>2. Start(c).at \in {"failed", "challenge", "result", "veVersion"}
            BY <2>6, <2>8, <2>10, <5>3
          <6> QED BY <2>11, <2>12, <5>1, <5>3, <6>1, <6>2 DEF Opens, Is
        <5> QED BY <2>10, <5>2, <5>3
      <4>2. Start(Chosen)' = Start(c)'
        BY <2>7 DEF Start, ClientInit, Waits, Bare, Message, Fails
      <4> QED BY <4>1, <4>2 DEF Opens
    <3>4. Chosen' # "unset" /\ at' = "type"
      BY <1>3, <2>6, <2>7, <2>12
    <3>5. Script'
      BY <3>2, <3>3, <3>4 DEF Script
    <3>6. Idle' /\ Len(toClient') = left' + more
      BY <1>2, <1>3, <2>10, <2>12
    <3>7. Turns'
      <4>1. CASE c = "None"
        <5>1. Len(toClient') = IF version' > 3007 THEN left' + 1 ELSE left'
          BY <1>3, <2>10, <2>9, <3>6, <4>1
        <5>2. BeforeClientInit'
          BY <2>5, <2>7, <3>4, <3>6, <4>1, <5>1 DEF BeforeClientInit
        <5> QED BY <1>6, <2>7, <3>4, <4>1, <5>2 DEF Turns
      <4>2. CASE c \in Challenged
        <5>1. serverAt' = "response" /\ more = 1
          BY <1>6, <2>6, <2>10, <4>2
        <5>2. BeforeResponse'
          BY <2>5, <2>7, <3>4, <3>6, <4>2, <5>1 DEF BeforeResponse
        <5> QED BY <2>7, <3>4, <5>1, <5>2 DEF Turns
      <4>3. CASE c = "TLS"
        <5>1. serverAt' = "tls" /\ more = 0 /\ layer' = "plain" /\ layer = "plain"
          BY <1>3, <1>6, <2>6, <2>10, <4>3
        <5>2. authScheme' = "TLS" /\ subAuthScheme' = "unset" /\ subOffered' = <<>>
          BY <1>3, <2>3, <2>7, <4>3, <5>1 DEF Chosen
        <5>3. Len(toClient') = left'
          BY <1>3, <2>9, <3>6, <5>1
        <5>4. BeforeTLS'
          BY <2>5, <3>4, <3>6, <5>1, <5>2, <5>3 DEF BeforeTLS
        <5> QED BY <2>7, <3>4, <5>1, <5>4 DEF Turns
      <4>4. CASE c = "VeNCrypt"
        <5>1. serverAt' = "veVersion" /\ more = 1 /\ layer' = "plain" /\ layer = "plain"
          BY <1>3, <1>6, <2>6, <2>10, <4>4
        <5>2. authScheme' = "VeNCrypt" /\ subAuthScheme' = "unset" /\ subOffered' = <<>>
          BY <1>3, <2>3, <2>7, <4>4, <5>1 DEF Chosen
        <5>3. BeforeVeNCryptVersion'
          BY <2>5, <3>4, <3>6, <5>1, <5>2 DEF BeforeVeNCryptVersion
        <5> QED BY <2>7, <3>4, <5>1, <5>3 DEF Turns
      <4> QED BY <2>6, <4>1, <4>2, <4>3, <4>4
    <3> QED BY <1>1, <1>2, <1>3, <1>6, <3>5, <3>7, SameTypesKept, ServerStep DEF ChannelTypes
  <2>13. CASE /\ at = Start(c).at /\ Len(toClient) = 0
              /\ IF at \in {"serverInit", "tls"}
                 THEN Len(toServer) = 2 /\ toServer[2] = Start(c).says[1]
                 ELSE Len(toServer) = 1
    <3>1. at' = at /\ at \in {"result", "serverInit", "challenge", "tls", "veVersion"}
      BY <1>3, <1>9, <2>8, <2>13
    <3>2. Len(toClient') = more /\ layer' = layer /\ (more = 1 => Is(toClient', 1, at', layer'))
          /\ (more = 1 /\ at' = "result" => toClient'[1].value = "ok")
      BY <1>3, <1>9, <2>10, <2>11, <2>13, <3>1
    <3>3. more = IF at \in {"serverInit", "tls"} THEN 0 ELSE 1
      BY <1>9, <2>6, <2>8, <2>10, <2>13
    <3>4. Script'
      <4>1. CASE at = "result"
        <5>1. Is(toClient', 1, "result", layer') /\ Len(toClient') = 1 /\ toClient'[1].value = "ok" /\ at' = "result"
          BY <3>1, <3>2, <3>3, <4>1
        <5> QED BY <5>1 DEF Script, Is
      <4>2. CASE at \in {"challenge", "veVersion"}
        <5>1. Is(toClient', 1, at', layer') /\ Len(toClient') = 1
          BY <3>1, <3>2, <3>3, <4>2
        <5> QED BY <3>1, <4>2, <5>1 DEF Script, Is
      <4>3. CASE at \in {"serverInit", "tls"}
        <5>1. Len(toClient') = 0
          BY <3>2, <3>3, <4>3
        <5> QED BY <3>1, <4>3, <5>1 DEF Script
      <4> QED BY <3>1, <4>1, <4>2, <4>3
    <3>5. /\ at \in {"serverInit", "tls"} =>
               /\ Len(toServer') = 1
               /\ toServer'[1] = [kind |-> IF at = "tls" THEN "tls" ELSE "clientInit",
                                  value |-> IF at = "tls" THEN "tls" ELSE "clientInit",
                                  layer |-> layer]
          /\ at \notin {"serverInit", "tls"} => Idle'
      <4>1. CASE at \in {"serverInit", "tls"}
        <5>1. Len(toServer) = 2 /\ toServer[2] = Start(c).says[1]
          BY <2>13, <4>1
        <5>2. Len(toServer') = 1 /\ toServer'[1] = toServer[2]
          BY <1>2, <5>1
        <5>3. Start(c).says = Bare(IF at = "tls" THEN "tls" ELSE "clientInit", layer)
          BY <2>13, <4>1, StartAt
        <5> QED BY <4>1, <5>1, <5>2, <5>3 DEF Bare, Message
      <4>2. CASE at \notin {"serverInit", "tls"}
        <5>1. Len(toServer) = 1
          BY <2>13, <4>2
        <5> QED BY <1>2, <4>2, <5>1
      <4> QED BY <4>1, <4>2
    <3>6. Turns'
      <4>1. CASE c = "None" /\ version > 3007
        <5>1. serverAt' = "clientInit" /\ at' = "result" /\ Len(toClient') = 1 /\ Idle'
              /\ toClient'[1].value = "ok"
          <6>1. serverAt' = "clientInit" /\ at = "result"
            BY <1>6, <2>8, <2>13, <4>1
          <6> QED BY <3>1, <3>2, <3>3, <3>5, <6>1
        <5>2. BeforeClientInit'
          BY <2>5, <5>1 DEF BeforeClientInit
        <5> QED BY <2>7, <5>1, <5>2 DEF Turns
      <4>2. CASE c = "None" /\ ~(version > 3007)
        <5>1. serverAt' = "clientInit" /\ at' = "serverInit" /\ Len(toClient') = 0
          <6>1. serverAt' = "clientInit" /\ at = "serverInit"
            BY <1>6, <2>8, <2>13, <4>2
          <6> QED BY <3>1, <3>2, <3>3, <6>1
        <5>2. Len(toServer') = 1 /\ Is(toServer', 1, "clientInit", layer')
          BY <3>1, <3>2, <3>5, <5>1 DEF Is
        <5>3. BeforeClientInit'
          BY <2>5, <5>1, <5>2 DEF BeforeClientInit, Is
        <5> QED BY <2>7, <5>1, <5>3 DEF Turns
      <4>3. CASE c \in Challenged
        <5>1. serverAt' = "response" /\ at' = "challenge" /\ Len(toClient') = 1 /\ Idle'
          BY <1>6, <1>9, <2>6, <2>8, <2>13, <3>1, <3>2, <3>3, <3>5, <4>3
        <5>2. BeforeResponse'
          BY <2>5, <5>1 DEF BeforeResponse
        <5> QED BY <2>7, <5>1, <5>2 DEF Turns
      <4>4. CASE c = "TLS"
        <5>1. serverAt' = "tls" /\ at' = "tls" /\ Len(toClient') = 0 /\ layer = "plain" /\ layer' = "plain"
          BY <1>6, <2>6, <2>8, <2>13, <3>1, <3>2, <3>3, <4>4
        <5>2. Len(toServer') = 1 /\ Is(toServer', 1, "tls", "plain")
          BY <3>1, <3>5, <5>1 DEF Is
        <5>3. authScheme' = "TLS" /\ subAuthScheme' = "unset" /\ subOffered' = <<>>
          BY <1>3, <2>3, <2>7, <4>4, <5>1 DEF Chosen
        <5>4. BeforeTLS'
          BY <2>5, <5>1, <5>2, <5>3 DEF BeforeTLS, Is
        <5> QED BY <2>7, <5>1, <5>4 DEF Turns
      <4>5. CASE c = "VeNCrypt"
        <5>1. serverAt' = "veVersion" /\ at' = "veVersion" /\ Len(toClient') = 1 /\ Idle'
              /\ layer = "plain" /\ layer' = "plain"
          BY <1>6, <2>6, <2>8, <2>13, <3>1, <3>2, <3>3, <3>5, <4>5
        <5>2. authScheme' = "VeNCrypt" /\ subAuthScheme' = "unset" /\ subOffered' = <<>>
          BY <1>3, <2>3, <2>7, <4>5, <5>1 DEF Chosen
        <5>3. BeforeVeNCryptVersion'
          BY <2>5, <5>1, <5>2 DEF BeforeVeNCryptVersion
        <5> QED BY <2>7, <5>1, <5>3 DEF Turns
      <4> QED BY <2>6, <4>1, <4>2, <4>3, <4>4, <4>5
    <3> QED BY <1>1, <1>2, <1>3, <1>6, <3>4, <3>6, SameTypesKept, ServerStep DEF ChannelTypes
  <2> QED BY <2>2, <2>4, <2>12, <2>13
<1> QED BY <1>8, <1>9

LEMMA ServerKeepsInv == ASSUME HandshakeInv, Server \/ ServerCloses PROVE HandshakeInv'
<1>1. CASE ServerVersionAgreed \/ ServerGetsChoice \/ ServerHandshakesTLS \/ ServerJudges
  BY <1>1, VersionAgreedStep, GetsChoiceStep, ServerTLSStep, JudgesStep
<1>2. CASE ServerInit \/ ServerOffersVeNCrypt \/ ServerGetsVeNCryptChoice \/ ServerCloses
  BY <1>2, SendsInitStep, OffersVeNCryptStep, VeNCryptChoiceStep, ClosesStep
<1> QED BY <1>1, <1>2 DEF Server

LEMMA InitInv == HandshakeInit => HandshakeInv
<1> SUFFICES ASSUME HandshakeInit PROVE HandshakeInv
  OBVIOUS
<1>1. serverVersion \in Nat /\ serverVersion \in Values /\ "version" \in Kinds
  BY HandshakeAssumption DEF HandshakeInit, Values, Kinds
<1>2. /\ toClient \in Seq(Messages) /\ Len(toClient) = 1
      /\ toClient[1] = [kind |-> "version", value |-> serverVersion, layer |-> "plain"]
  BY <1>1, OneMessage DEF HandshakeInit
<1>3. /\ toServer \in Seq(Messages) /\ Len(toServer) = 0
      /\ offered \in Seq(SecurityTypes \cup {"MSLogon"}) /\ subOffered \in Seq(SecurityTypes \cup VeNCryptTypes)
  BY DEF HandshakeInit
<1>4. ChannelTypes
  BY <1>1, <1>2, <1>3 DEF ChannelTypes, HandshakeInit
<1>5. HandshakeTypeOK
  BY <1>2, HandshakeAssumption DEF HandshakeTypeOK, HandshakeInit
<1>6. Script
  BY <1>2 DEF Script, HandshakeInit
<1>7. Settling
  BY DEF Settling, HandshakeInit
<1>8. Turns
  BY <1>2, <1>3 DEF Turns, BeforeVersion, HandshakeInit
<1> QED BY <1>4, <1>5, <1>6, <1>7, <1>8 DEF HandshakeInv

LEMMA NextKeepsInv == HandshakeInv /\ [HandshakeNext]_handshakeVars => HandshakeInv'
<1> SUFFICES ASSUME HandshakeInv, [HandshakeNext]_handshakeVars PROVE HandshakeInv'
  OBVIOUS
<1>1. CASE Client
  BY <1>1, ClientKeepsInv
<1>2. CASE Server \/ ServerCloses
  BY <1>2, ServerKeepsInv
<1>3. CASE UNCHANGED handshakeVars
  <2>1. UNCHANGED <<at, layer, version, authScheme, subAuthScheme, left, messages, answer,
                    toClient, toServer, serverVersion, serverAt, serverLayer, spoken, offered,
                    subOffered, settled, subSettled>>
    BY <1>3 DEF handshakeVars, client, server, offers
  <2>2. ChannelTypes'
    BY <2>1 DEF HandshakeInv, ChannelTypes
  <2>3. HandshakeTypeOK'
    BY <2>1 DEF HandshakeInv, HandshakeTypeOK
  <2>4. Script'
    <3>1. UNCHANGED <<List, Chosen, Start(Chosen), StartSub(subAuthScheme), Start(toClient[1].value)>>
      BY <2>1 DEF List, Chosen, Start, StartSub, ClientInit, Waits, Bare, Message, Fails
    <3> QED BY <2>1, <3>1 DEF HandshakeInv, Script, Counted, Rest, Opens, Is
  <2>5. Settling'
    BY <2>1 DEF HandshakeInv, Settling, ReplyTo
  <2>6. Turns'
    BY <2>1 DEF HandshakeInv, Turns, BeforeVersion, BeforeChoice, BeforeTLS, BeforeVeNCryptVersion,
                BeforeVeNCryptChoice, BeforeResponse, BeforeClientInit, AfterServerInit, Supported, Chosen,
                Start, AfterChoice, StartSub, ClientInit, Waits, Bare, Message, Fails, Is
  <2> QED BY <2>2, <2>3, <2>4, <2>5, <2>6 DEF HandshakeInv
<1> QED BY <1>1, <1>2, <1>3 DEF HandshakeNext

\* What is on its way in either direction, and whose turn it is, at every point of
\* InitialiseRFBConnection().
THEOREM HandshakeInvHolds == HandshakeSpec => []HandshakeInv
<1> QED BY InitInv, NextKeepsInv, PTL DEF HandshakeSpec

-------------------------------------------------------------------------------
LEMMA FirstIs ==
  ASSUME NEW c \in Seq(Messages), c # <<>>
  PROVE  Head(c) = c[1] /\ Len(c) \in Nat /\ Len(c) > 0
BY TakeFirst

LEMMA ClientInStep ==
  ASSUME HandshakeInv, ~Ended, at # "ask", toClient # <<>>
  PROVE  Head(toClient).kind = at /\ Head(toClient).layer = layer
<1>1. Head(toClient) = toClient[1] /\ Len(toClient) \in Nat /\ Len(toClient) > 0
  BY FirstIs DEF HandshakeInv, ChannelTypes
<1>2. Is(toClient, 1, at, layer)
  <2>1. CASE at = "version"
    BY <2>1, <1>1 DEF HandshakeInv, Script, Settling, HandshakeTypeOK, Is, Turns, BeforeVersion
  <2>2. CASE at = "scheme"
    BY <2>2, <1>1 DEF HandshakeInv, Script, Settling, Is
  <2>3. CASE at = "count"
    BY <2>3, <1>1 DEF HandshakeInv, Script, Counted, Is
  <2>4. CASE at = "type"
    <3>1. Rest("type", List)
      BY <2>4 DEF HandshakeInv, Script
    <3>2. left \in Nat /\ 1 \in 1 .. left
      BY <3>1 DEF Rest, HandshakeInv, HandshakeTypeOK
    <3>3. toClient[1] = [kind |-> "type", value |-> List[Len(List) - left + 1], layer |-> layer]
      BY <3>1, <3>2 DEF Rest
    <3> QED BY <2>4, <3>3 DEF Is
  <2>5. CASE at \in {"challenge", "reason", "serverInit", "veVersion", "veAck"}
    <3>1. Len(toClient) <= 1 /\ (Len(toClient) = 1 => Is(toClient, 1, at, layer))
      BY <2>5 DEF HandshakeInv, Script
    <3>2. Len(toClient) = 1
      BY <3>1, <1>1
    <3> QED BY <3>1, <3>2
  <2>6. CASE at = "result"
    BY <2>6, <1>1 DEF HandshakeInv, Script, Is
  <2>7. CASE at = "veStatus"
    BY <2>7, <1>1 DEF HandshakeInv, Script, Settling, Is
  <2>8. CASE at = "veCount"
    BY <2>8, <1>1 DEF HandshakeInv, Script, Settling, Counted, Is
  <2>9. CASE at = "veType"
    <3>1. Rest("veType", subOffered)
      BY <2>9 DEF HandshakeInv, Script
    <3>2. left \in Nat /\ 1 \in 1 .. left
      BY <3>1 DEF Rest, HandshakeInv, HandshakeTypeOK
    <3>3. toClient[1] = [kind |-> "veType", value |-> subOffered[Len(subOffered) - left + 1], layer |-> layer]
      BY <3>1, <3>2 DEF Rest
    <3> QED BY <2>9, <3>3 DEF Is
  <2>10. CASE at = "tls"
    BY <2>10, <1>1 DEF HandshakeInv, Script, Settling, Is
  <2> QED BY <2>1, <2>2, <2>3, <2>4, <2>5, <2>6, <2>7, <2>8, <2>9, <2>10
          DEF HandshakeInv, HandshakeTypeOK, Ended
<1> QED BY <1>1, <1>2 DEF Is

LEMMA ServerInStep ==
  ASSUME HandshakeInv, ~Ended, serverAt # "closed", toServer # <<>>
  PROVE  Head(toServer).kind = serverAt /\ Head(toServer).layer = serverLayer
<1>1. Head(toServer) = toServer[1] /\ Len(toServer) \in Nat /\ Len(toServer) > 0
  BY FirstIs DEF HandshakeInv, ChannelTypes
<1>2. Is(toServer, 1, serverAt, serverLayer)
  <2>1. CASE serverAt = "version"
    BY <2>1, <1>1 DEF HandshakeInv, Turns, Ended, BeforeVersion, Is
  <2>2. CASE serverAt = "choice"
    BY <2>2, <1>1 DEF HandshakeInv, Turns, Ended, BeforeChoice, Is
  <2>3. CASE serverAt = "tls"
    BY <2>3, <1>1 DEF HandshakeInv, Turns, Ended, BeforeTLS, Is
  <2>4. CASE serverAt = "veVersion"
    BY <2>4, <1>1 DEF HandshakeInv, Turns, Ended, BeforeVeNCryptVersion, Is
  <2>5. CASE serverAt = "veChoice"
    BY <2>5, <1>1 DEF HandshakeInv, Turns, Ended, BeforeVeNCryptChoice, Is
  <2>6. CASE serverAt = "response"
    BY <2>6, <1>1 DEF HandshakeInv, Turns, Ended, BeforeResponse, Is
  <2>7. CASE serverAt = "clientInit"
    BY <2>7, <1>1 DEF HandshakeInv, Turns, Ended, BeforeClientInit, Is
  <2>8. CASE serverAt = "done"
    BY <2>8, <1>1 DEF HandshakeInv, Turns, Ended, AfterServerInit, Is
  <2> QED BY <2>1, <2>2, <2>3, <2>4, <2>5, <2>6, <2>7, <2>8 DEF HandshakeInv, Turns
<1> QED BY <1>1, <1>2 DEF Is

\* InitialiseRFBConnection() and the server never take one message for another, or TLS
\* records for plain bytes, whatever the versions, the lists and their lengths.
THEOREM NeverOutOfStep == HandshakeSpec => []InStep
<1>1. HandshakeInv => InStep
  BY ClientInStep, ServerInStep DEF InStep, HandshakeInv
<1> QED BY <1>1, HandshakeInvHolds, PTL

LEMMA OnlyTLSBehind ==
  ASSUME HandshakeInv, at = "tls", NEW i \in Nat, 0 < i, i <= Len(toClient)
  PROVE  toClient[i].kind = "tls" \/ toClient[i].layer = "tls"
<1>1. Len(toClient) \in Nat /\ Len(toClient) > 0
  BY DEF HandshakeInv, ChannelTypes
<1>2. Is(toClient, 1, "tls", "plain")
  BY <1>1 DEF HandshakeInv, Script
<1>3. CASE i = 1
  BY <1>2, <1>3 DEF Is
<1>4. CASE i > 1 /\ authScheme = "TLS"
  <2>1. Counted(2, "count", "type", subOffered, "tls")
    BY <1>1, <1>4 DEF HandshakeInv, Script
  <2>2. CASE i = 2
    BY <2>1, <2>2 DEF Counted
  <2>3. CASE i > 2
    <3>1. Len(toClient) = 2 + Len(subOffered) /\ Len(subOffered) \in Nat
      BY <2>1 DEF Counted, HandshakeInv, ChannelTypes
    <3>2. PICK j \in 1 .. Len(subOffered) : i = 2 + j
      <4>1. i - 2 \in 1 .. Len(subOffered) /\ i = 2 + (i - 2)
        BY <1>1, <2>3, <3>1
      <4> QED BY <4>1
    <3>3. toClient[2 + j] = [kind |-> "type", value |-> subOffered[j], layer |-> "tls"]
      BY <2>1 DEF Counted
    <3> QED BY <3>2, <3>3
  <2> QED BY <1>4, <2>2, <2>3, <1>1
<1>5. CASE i > 1 /\ authScheme # "TLS"
  <2>1. Opens(2, StartSub(subAuthScheme).at, "tls")
    BY <1>1, <1>5 DEF HandshakeInv, Script
  <2>2. StartSub(subAuthScheme).at \in {"challenge", "result", "ask"}
    BY DEF StartSub, Waits
  <2>3. Len(toClient) = 2 /\ i = 2 /\ toClient[2].layer = "tls"
    <3>1. Len(toClient) > 1
      BY <1>1, <1>5
    <3> DEFINE n == Len(toClient)
    <3>2. n # 2 - 1
      <4>1. n \in Nat /\ n > 1
        BY <3>1, <1>1
      <4> HIDE DEF n
      <4> QED BY <4>1
    <3>3. Len(toClient) = 2 /\ toClient[2].layer = "tls"
      BY <2>1, <2>2, <3>2 DEF Opens, Is, n
    <3> QED BY <3>1, <3>3, <1>1, <1>5
  <2> QED BY <2>3
<1> QED BY <1>1, <1>3, <1>4, <1>5

\* HandshakeTLS() starts with nothing in client->buf that TLS should have had.
THEOREM NothingReadAhead == HandshakeSpec => []TLSFromCleanBuffer
<1>1. HandshakeInv => TLSFromCleanBuffer
  <2> SUFFICES ASSUME HandshakeInv, at = "tls", NEW i \in 1 .. Len(toClient)
               PROVE  toClient[i].kind = "tls" \/ toClient[i].layer = "tls"
    BY DEF TLSFromCleanBuffer
  <2>1. Len(toClient) \in Nat
    BY DEF HandshakeInv, ChannelTypes
  <2>2. i \in Nat /\ 0 < i /\ i <= Len(toClient)
    BY <2>1
  <2> QED BY <2>2, OnlyTLSBehind
<1> QED BY <1>1, HandshakeInvHolds, PTL
LEMMA NoneNamed == ASSUME NEW list, NEW d PROVE NamedIn(list, 0, d) = d
<1>1. {i \in 1 .. 0 : list[i] \in {"Ultra", "Tight"}} = {}
  OBVIOUS
<1> QED BY <1>1 DEF NamedIn

\* One more type either is the last named one or leaves it as it was.
LEMMA OneMoreNamed ==
  ASSUME NEW list, NEW k \in Nat, NEW d
  PROVE  NamedIn(list, k + 1, d) =
           IF list[k + 1] = "Ultra" THEN "ultra"
           ELSE IF list[k + 1] = "Tight" THEN "tight" ELSE NamedIn(list, k, d)
<1> DEFINE N(n) == {i \in 1 .. n : list[i] \in {"Ultra", "Tight"}}
           last == CHOOSE i \in N(k + 1) : \A j \in N(k + 1) : j <= i
<1>1. CASE list[k + 1] \notin {"Ultra", "Tight"}
  <2>1. N(k + 1) = N(k)
    BY <1>1
  <2> QED BY <1>1, <2>1 DEF NamedIn
<1>2. CASE list[k + 1] \in {"Ultra", "Tight"}
  <2>1. k + 1 \in N(k + 1) /\ \A j \in N(k + 1) : j <= k + 1
    BY <1>2
  <2>2. last \in N(k + 1) /\ \A j \in N(k + 1) : j <= last
    BY <2>1
  <2>3. last = k + 1
    BY <2>1, <2>2
  <2>4. NamedIn(list, k + 1, d) = IF list[last] = "Ultra" THEN "ultra" ELSE "tight"
    BY <2>1 DEF NamedIn
  <2> QED BY <1>2, <2>3, <2>4
<1> QED BY <1>1, <1>2

\* A client that has given up remembers nothing.
LEMMA Forgotten == ASSUME at' \in {"failed", "reason"} PROVE Memory'
BY DEF Memory, Heard, Passing, EncryptedWhenOffered

Chosing == {"version", "scheme", "count", "type", "veVersion", "veStatus", "veCount", "veType"}

\* A step after the types have been settled.
LEMMA Remembered ==
  ASSUME Memory, at \in Phases \ (Chosing \cup {"reason", "failed"}), at' \notin Chosing,
         UNCHANGED <<layer, authScheme, subAuthScheme, messages, offered, subOffered, serverVersion>>
  PROVE  Memory'
<1>1. Heard'
  BY DEF Memory, Heard, Known, First, Chosing
<1>2. Passing'
  BY DEF Passing, Chosing
<1>3. EncryptedWhenOffered'
  BY DEF Memory, EncryptedWhenOffered, Chosing, Phases
<1> QED BY <1>1, <1>2, <1>3 DEF Memory

\* A step of VeNCrypt before its list.
LEMMA RememberedInVeNCrypt ==
  ASSUME Memory, at \in {"veVersion", "veStatus"}, at' \in {"veStatus", "veCount", "failed"},
         UNCHANGED <<layer, authScheme, subAuthScheme, messages, offered, subOffered, serverVersion>>
  PROVE  Memory'
<1>1. Heard'
  BY DEF Memory, Heard, Known, First
<1>2. Passing'
  BY DEF Passing
<1>3. EncryptedWhenOffered'
  BY DEF Memory, EncryptedWhenOffered
<1> QED BY <1>1, <1>2, <1>3 DEF Memory

LEMMA SmallSteps ==
  ASSUME HandshakeInv, Memory,
         \/ ReadChallenge \/ UserAnswers \/ ReadResult \/ ReadReason \/ ReadServerInit
         \/ ReadVeNCryptVersion \/ ReadVeNCryptStatus \/ ReadVeNCryptAck \/ ConnectionLost
  PROVE  Memory'
<1>1. CASE ReadChallenge
  <2>1. at = "challenge" /\ at' = "ask" /\ UNCHANGED <<layer, authScheme, subAuthScheme, messages, server>>
    BY <1>1 DEF ReadChallenge, Reads, Goes, Waits
  <2> QED BY <2>1, Remembered DEF Chosing, Phases, server, offers
<1>2. CASE UserAnswers
  <2>1. at = "ask" /\ at' \in {"failed", "result"} /\ UNCHANGED <<layer, authScheme, subAuthScheme, messages, server>>
    BY <1>2 DEF UserAnswers, Goes, Waits, Fails
  <2> QED BY <2>1, Remembered DEF Chosing, Phases, server, offers
<1>3. CASE ReadResult
  <2>1. at = "result" /\ UNCHANGED <<layer, authScheme, subAuthScheme, messages, server>>
    BY <1>3 DEF ReadResult, Reads
  <2>2. at' \in {"serverInit", "reason", "failed"}
    BY <1>3 DEF ReadResult, Goes, Waits, Fails, ClientInit
  <2> QED BY <2>1, <2>2, Remembered DEF Chosing, Phases, server, offers
<1>4. CASE ReadReason \/ ConnectionLost
  BY <1>4, Forgotten DEF ReadReason, ConnectionLost, Goes, Waits, Fails
<1>5. CASE ReadServerInit
  <2>1. at = "serverInit" /\ at' \in {"failed", "connected"}
        /\ UNCHANGED <<layer, authScheme, subAuthScheme, messages, server>>
    BY <1>5 DEF ReadServerInit, Reads, Goes, Waits, Fails
  <2> QED BY <2>1, Remembered DEF Chosing, Phases, server, offers
<1>6. CASE ReadVeNCryptVersion
  <2>1. at = "veVersion" /\ at' \in {"failed", "veStatus"}
        /\ UNCHANGED <<layer, authScheme, subAuthScheme, messages, server>>
    BY <1>6 DEF ReadVeNCryptVersion, Reads, Goes, Waits, Fails
  <2> QED BY <2>1, RememberedInVeNCrypt DEF server, offers
<1>7. CASE ReadVeNCryptStatus
  <2>1. at = "veStatus" /\ at' \in {"failed", "veCount"}
        /\ UNCHANGED <<layer, authScheme, subAuthScheme, messages, server>>
    BY <1>7 DEF ReadVeNCryptStatus, Reads, Goes, Waits, Fails
  <2> QED BY <2>1, RememberedInVeNCrypt DEF server, offers
<1>8. CASE ReadVeNCryptAck
  <2>1. at = "veAck" /\ at' \in {"failed", "tls"}
        /\ UNCHANGED <<layer, authScheme, subAuthScheme, messages, server>>
    BY <1>8 DEF ReadVeNCryptAck, Reads, Goes, Waits, Fails
  <2> QED BY <2>1, Remembered DEF Chosing, Phases, server, offers
<1> QED BY <1>1, <1>2, <1>3, <1>4, <1>5, <1>6, <1>7, <1>8

LEMMA VersionMemory == ASSUME HandshakeInv, Memory, ReadVersion PROVE Memory'
<1>1. Reads("version") /\ UNCHANGED <<layer, authScheme, subAuthScheme, server>>
  BY DEF ReadVersion
<1>2. at = "version" /\ Received = serverVersion /\ layer = "plain"
  BY <1>1, SameTypesKept, ReadOne DEF HandshakeInv, Script, Settling
<1>3. CASE Received = 0
  <2>1. at' = "failed"
    BY <1>3 DEF ReadVersion, Goes, Waits, Fails
  <2> QED BY <2>1, Forgotten
<1>4. CASE Received # 0
  <2>1. at' \in {"count", "scheme"} /\ messages' = Detected(serverVersion)
    BY <1>2, <1>4 DEF ReadVersion, Goes, Waits
  <2>2. Heard'
    BY <1>1, <1>2, <2>1 DEF Heard, Known, server
  <2>3. Passing'
    BY <2>1 DEF Passing
  <2>4. EncryptedWhenOffered'
    BY <2>1 DEF EncryptedWhenOffered
  <2> QED BY <2>2, <2>3, <2>4 DEF Memory
<1> QED BY <1>3, <1>4

LEMMA SchemeMemory == ASSUME HandshakeInv, Memory, ReadScheme PROVE Memory'
<1>1. /\ Reads("scheme") /\ authScheme' = Received
      /\ UNCHANGED <<layer, subAuthScheme, messages, server>>
      /\ Goes(IF Received = "ConnFailed" THEN Waits("reason") ELSE Start(Received), <<>>)
  BY DEF ReadScheme
<1>2. at = "scheme" /\ Len(toClient) > 0 /\ Received = toClient[1].value /\ layer = "plain"
  BY <1>1, SameTypesKept, ReadOne DEF HandshakeInv, Settling
<1>3. messages = Detected(serverVersion)
  BY <1>2 DEF Memory, Heard, Known
<1>4. CASE Received = "ConnFailed"
  <2>1. at' = "reason"
    BY <1>1, <1>4 DEF Goes, Waits
  <2> QED BY <2>1, Forgotten
<1>5. CASE Received # "ConnFailed"
  <2>1. offered = <<Received>>
    BY <1>2, <1>5 DEF HandshakeInv, Script
  <2>2. at' = Start(Received).at
    BY <1>1, <1>5 DEF Goes
  <2>3. CASE at' = "failed"
    BY <2>3, Forgotten
  <2>4. CASE at' # "failed"
    <3>1. /\ Received \notin {"Ultra", "Tight"} /\ at' \in {"result", "serverInit", "challenge", "tls", "veVersion"}
          /\ Received = "VeNCrypt" => at' = "veVersion"
      BY <1>2, <2>2, <2>4, StartAt DEF Challenged
    <3>2. First = Detected(serverVersion)
      <4>1. Len(offered) = 0 + 1 /\ offered[0 + 1] = Received
        BY <2>1
      <4>2. \A d : NamedIn(offered, 0 + 1, d) = NamedIn(offered, 0, d)
        BY <3>1, <4>1, OneMoreNamed
      <4> QED BY <4>1, <4>2, NoneNamed DEF First
    <3>3. First' = First
      BY <1>1 DEF First, server, offers
    <3>4. Heard'
      BY <1>1, <1>2, <1>3, <3>1, <3>2, <3>3 DEF Heard, Known
    <3>5. Passing'
      BY <3>1 DEF Passing
    <3>6. EncryptedWhenOffered'
      BY <1>1, <3>1 DEF EncryptedWhenOffered
    <3> QED BY <3>4, <3>5, <3>6 DEF Memory
  <2> QED BY <2>3, <2>4
<1> QED BY <1>4, <1>5

LEMMA CountMemory == ASSUME HandshakeInv, Memory, ReadCount PROVE Memory'
<1>1. /\ Reads("count") /\ left' = Received
      /\ Goes(Waits(IF Received = 0 THEN "reason" ELSE "type"), <<>>)
      /\ UNCHANGED <<layer, authScheme, subAuthScheme, messages, server>>
  BY DEF ReadCount
<1>2. at = "count" /\ Len(toClient) > 0 /\ Received = toClient[1].value /\ layer \in {"plain", "tls"}
  BY <1>1, SameTypesKept, ReadOne
<1>3. CASE Received = 0
  <2>1. at' = "reason"
    BY <1>1, <1>3 DEF Goes, Waits
  <2> QED BY <2>1, Forgotten
<1>4. CASE Received # 0
  <2>1. at' = "type"
    BY <1>1, <1>4 DEF Goes, Waits
  <2>2. Counted(1, "count", "type", List, layer)
    BY <1>2, <1>4 DEF HandshakeInv, Script
  <2>3. left' = Len(List) /\ Len(List) \in Nat
    BY <1>1, <1>2, <2>2, SameTypesKept DEF Counted, List, ChannelTypes
  <2>4. First' = First /\ List' = List
    BY <1>1 DEF First, List, server, offers
  <2>5. Len(List) - left' = 0
    BY <2>3
  <2>6. Heard'
    <3>1. CASE layer = "plain"
      <4>1. List = offered /\ messages = Detected(serverVersion)
        BY <1>2, <3>1 DEF List, Memory, Heard, Known
      <4>2. Known' = NamedIn(offered, 0, Detected(serverVersion))
        BY <1>1, <2>1, <2>5, <3>1, <4>1 DEF Known, server, offers
      <4> QED BY <1>1, <4>1, <4>2, NoneNamed DEF Heard
    <3>2. CASE layer = "tls"
      <4>1. List = subOffered /\ messages = First /\ authScheme = "TLS"
        BY <1>2, <3>2 DEF List, Memory, Heard, Known, HandshakeInv, Settling
      <4>2. Known' = NamedIn(subOffered, 0, First)
        BY <1>1, <2>1, <2>4, <2>5, <3>2, <4>1 DEF Known, server, offers
      <4> QED BY <1>1, <4>1, <4>2, NoneNamed DEF Heard
    <3> QED BY <1>2, <3>1, <3>2
  <2>7. Passing'
    <3>1. (\A i \in 1 .. Len(List) - left : ~Supported(List[i]))'
      <4>1. \A i \in 1 .. 0 : FALSE
        OBVIOUS
      <4> QED BY <2>4, <2>5, <4>1
    <3> QED BY <2>1, <3>1 DEF Passing
  <2>8. EncryptedWhenOffered'
    BY <2>1 DEF EncryptedWhenOffered
  <2> QED BY <2>6, <2>7, <2>8 DEF Memory
<1> QED BY <1>3, <1>4

LEMMA TLSMemory == ASSUME HandshakeInv, Memory, HandshakeTLS PROVE Memory'
<1>1. /\ Reads("tls") /\ layer' = "tls"
      /\ Goes(IF authScheme = "TLS" THEN Waits("count") ELSE StartSub(subAuthScheme), <<>>)
      /\ UNCHANGED <<authScheme, subAuthScheme, messages, server>>
  BY DEF HandshakeTLS
<1>2. at = "tls" /\ layer = "plain"
  BY <1>1, SameTypesKept, ReadOne DEF HandshakeInv, Settling
<1>3. messages = First
  BY <1>2 DEF Memory, Heard, Known
<1>4. IF authScheme = "TLS" THEN at' = "count" ELSE at' \in {"result", "challenge", "ask"}
  BY <1>1, AfterChoiceAt DEF Goes, Waits
<1>5. First' = First
  BY <1>1 DEF First, server, offers
<1>6. Heard'
  BY <1>1, <1>3, <1>4, <1>5 DEF Heard, Known
<1>7. Passing'
  BY <1>4 DEF Passing
<1>8. EncryptedWhenOffered'
  BY <1>1, <1>2, <1>4 DEF Memory, EncryptedWhenOffered, server, offers
<1> QED BY <1>6, <1>7, <1>8 DEF Memory

\* The type just read is the next of the list.
LEMMA TypeNext ==
  ASSUME HandshakeInv, ReadType
  PROVE  /\ Len(List) - left \in Nat /\ Len(List) - left' = (Len(List) - left) + 1
         /\ Received = List[(Len(List) - left) + 1]
         /\ left = 1 => (Len(List) - left) + 1 = Len(List)
         /\ messages' = MessagesAfter(Received)
         /\ at' = IF left > 1 THEN "type" ELSE Start(Chosen').at
<1>1. /\ at = "type" /\ left \in Nat \ {0} /\ left' = left - 1 /\ Chosen' = Select(Received)
      /\ Rest("type", List) /\ Len(List) \in Nat
  BY TypeRead
<1>2. Reads("type") /\ messages' = MessagesAfter(Received)
  BY DEF ReadType
<1>3. left \in 1 .. Len(List) /\ 1 \in 1 .. left
  BY <1>1 DEF Rest
<1>4. toClient[1] = [kind |-> "type", value |-> List[Len(List) - left + 1], layer |-> layer]
  BY <1>1, <1>3 DEF Rest
<1>5. Received = List[(Len(List) - left) + 1]
  BY <1>2, <1>4, SameTypesKept, ReadOne
<1>6. at' = IF left > 1 THEN "type" ELSE Start(Chosen').at
  <2>1. PICK c, said : c = Select(Received) /\ Goes(IF left > 1 THEN Waits("type") ELSE Start(c), said)
    BY DEF ReadType
  <2>2. at' = (IF left > 1 THEN Waits("type") ELSE Start(c)).at /\ c = Chosen'
    BY <1>1, <2>1 DEF Goes
  <2> QED BY <2>2 DEF Waits
<1> QED BY <1>1, <1>2, <1>3, <1>5, <1>6

LEMMA TypeMemory == ASSUME HandshakeInv, Memory, ReadType PROVE Memory'
<1> DEFINE k == Len(List) - left
<1>1. /\ at = "type" /\ left \in Nat \ {0}
      /\ UNCHANGED <<layer, server, List>> /\ Chosen' = Select(Received)
      /\ IF layer = "plain" THEN authScheme' = Chosen' ELSE authScheme = "TLS" /\ authScheme' = "TLS"
      /\ layer \in {"plain", "tls"}
  BY TypeRead, SameTypesKept
<1>2. /\ k \in Nat /\ Len(List) - left' = k + 1 /\ Received = List[k + 1]
      /\ left = 1 => k + 1 = Len(List)
      /\ messages' = MessagesAfter(Received)
      /\ at' = IF left > 1 THEN "type" ELSE Start(Chosen').at
  BY TypeNext
<1>3. /\ at' \in {"type", "result", "serverInit", "challenge", "tls", "veVersion", "failed"}
      /\ at' = "type" => left > 1
      /\ at' # "type" => left = 1 /\ at' = Start(Chosen').at
  BY <1>1, <1>2, StartAt
<1>4. First' = First /\ (offered = offered' /\ subOffered = subOffered' /\ serverVersion = serverVersion')
  BY <1>1 DEF First, server, offers
<1> HIDE DEF k
<1>5. \A d : messages = NamedIn(List, k, d) => messages' = NamedIn(List, k + 1, d)
  <2> TAKE d
  <2>1. NamedIn(List, k + 1, d) = IF List[k + 1] = "Ultra" THEN "ultra"
                                  ELSE IF List[k + 1] = "Tight" THEN "tight" ELSE NamedIn(List, k, d)
    BY <1>2, OneMoreNamed
  <2> QED BY <1>2, <2>1 DEF MessagesAfter
<1>6. Heard'
  <2>1. CASE layer = "plain"
    <3>1. List = offered
      BY <2>1 DEF List
    <3>2. messages = NamedIn(List, k, Detected(serverVersion))
      BY <1>1, <2>1, <3>1 DEF Memory, Heard, Known, k
    <3>3. messages' = NamedIn(List, k + 1, Detected(serverVersion))
      BY <1>5, <3>2
    <3>4. Known' = NamedIn(List, k + 1, Detected(serverVersion))
      <4>1. CASE at' = "type"
        BY <1>1, <1>2, <1>4, <2>1, <3>1, <4>1 DEF Known
      <4>2. CASE at' # "type"
        BY <1>1, <1>2, <1>3, <1>4, <2>1, <3>1, <4>2 DEF Known, First
      <4> QED BY <4>1, <4>2
    <3> QED BY <3>3, <3>4 DEF Heard
  <2>2. CASE layer = "tls"
    <3>1. List = subOffered
      BY <2>2 DEF List
    <3>2. messages = NamedIn(List, k, First)
      BY <1>1, <2>2, <3>1 DEF Memory, Heard, Known, k
    <3>3. messages' = NamedIn(List, k + 1, First)
      BY <1>5, <3>2
    <3>4. Known' = NamedIn(List, k + 1, First)
      <4>1. CASE at' = "type"
        BY <1>1, <1>2, <1>4, <2>2, <3>1, <4>1 DEF Known
      <4>2. CASE at' # "type"
        BY <1>1, <1>2, <1>3, <1>4, <2>2, <3>1, <4>2 DEF Known
      <4> QED BY <4>1, <4>2
    <3> QED BY <3>3, <3>4 DEF Heard
  <2> QED BY <1>1, <2>1, <2>2
<1>7. Passing'
  <2>1. CASE at' # "type"
    BY <1>3, <2>1 DEF Passing
  <2>2. CASE at' = "type"
    <3> SUFFICES ASSUME Chosen' = "unset", NEW i \in 1 .. k + 1 PROVE ~Supported(List[i])
      <4>1. \A t : Supported(t)' <=> Supported(t)
        BY <1>1 DEF Supported
      <4> QED BY <1>1, <1>2, <2>2, <4>1 DEF Passing
    <3>1. Chosen = "unset" /\ ~Supported(Received)
      BY <1>1 DEF Select, Supported
    <3>2. \A j \in 1 .. k : ~Supported(List[j])
      BY <1>1, <3>1 DEF Memory, Passing, k
    <3> QED BY <1>2, <3>1, <3>2
  <2> QED BY <2>1, <2>2
<1>8. EncryptedWhenOffered'
  <2>1. Start("VeNCrypt").at \in {"veVersion", "failed"}
    BY StartAt DEF Challenged
  <2> QED BY <1>1, <1>3, <2>1 DEF EncryptedWhenOffered
<1> QED BY <1>6, <1>7, <1>8 DEF Memory

LEMMA VeNCryptCountMemory == ASSUME HandshakeInv, Memory, ReadVeNCryptCount PROVE Memory'
<1>1. /\ Reads("veCount") /\ left' = Received
      /\ Goes(IF Received = 0 THEN Fails ELSE Waits("veType"), <<>>)
      /\ UNCHANGED <<layer, authScheme, subAuthScheme, messages, server>>
  BY DEF ReadVeNCryptCount
<1>2. at = "veCount" /\ Len(toClient) > 0 /\ Received = toClient[1].value
  BY <1>1, SameTypesKept, ReadOne
<1>3. at' \in {"failed", "veType"}
  BY <1>1 DEF Goes, Waits, Fails
<1>4. left' = Len(subOffered) /\ Len(subOffered) \in Nat /\ subOffered' = subOffered
  BY <1>1, <1>2, SameTypesKept DEF HandshakeInv, Script, Counted, ChannelTypes, server, offers
<1>5. Heard'
  BY <1>1, <1>2, <1>3 DEF Memory, Heard, Known, First, server, offers
<1>6. Passing'
  <2>1. Len(subOffered') - left' = 0
    BY <1>4
  <2>2. \A i \in 1 .. 0 : FALSE
    OBVIOUS
  <2> QED BY <1>3, <2>1, <2>2 DEF Passing
<1>7. EncryptedWhenOffered'
  BY <1>3 DEF EncryptedWhenOffered
<1> QED BY <1>5, <1>6, <1>7 DEF Memory

\* A type that the client knows is not passed over, and an encrypted one stays.
LEMMA Preferred ==
  ASSUME NEW old \in Encrypted \cup Unencrypted \cup {"unset"}, NEW t
  PROVE  /\ old # "unset" => Prefer(old, t) # "unset"
         /\ old \notin Unencrypted /\ old # "unset" => Prefer(old, t) = old
         /\ t \in SubTypes => Prefer(old, t) # "unset"
         /\ t \in SubTypes \ Unencrypted => Prefer(old, t) \notin Unencrypted
BY DEF Prefer, SubTypes, Encrypted, Unencrypted, Free, Plain, Challenged

LEMMA VeNCryptTypeMemory == ASSUME HandshakeInv, Memory, ReadVeNCryptType PROVE Memory'
<1>1. /\ Reads("veType") /\ left' = left - 1
      /\ UNCHANGED <<layer, authScheme, messages, server>>
      /\ subAuthScheme' = Prefer(subAuthScheme, Received)
  BY DEF ReadVeNCryptType
<1>2. /\ at = "veType" /\ Received = toClient[1].value
      /\ Rest("veType", subOffered) /\ subAuthScheme \in Encrypted \cup Unencrypted \cup {"unset"}
      /\ Len(subOffered) \in Nat /\ subOffered' = subOffered
  BY <1>1, SameTypesKept, ReadOne DEF HandshakeInv, Script, Settling, ChannelTypes, server, offers
<1>3. at' \in {"veType", "failed", "result", "challenge", "ask", "veAck"} /\ (at' # "veType" => left <= 1)
  <2>1. left \in Nat
    BY <1>2 DEF Rest
  <2>2. PICK c : IF left > 1 THEN Goes(Waits("veType"), <<>>)
                 ELSE IF c = "unset" THEN Goes(Fails, <<>>)
                 ELSE Goes(AfterChoice(c), Message("veChoice", c, layer))
    BY DEF ReadVeNCryptType
  <2>3. CASE left > 1
    BY <2>2, <2>3 DEF Goes, Waits
  <2>4. CASE ~(left > 1) /\ c = "unset"
    BY <2>1, <2>2, <2>4 DEF Goes, Waits, Fails
  <2>5. CASE ~(left > 1) /\ c # "unset"
    <3>1. at' = AfterChoice(c).at
      BY <2>2, <2>5 DEF Goes
    <3>2. at' \in {"result", "challenge", "ask", "veAck"}
      BY <3>1, AfterChoiceAt
    <3> QED BY <2>1, <2>5, <3>2
  <2> QED BY <2>3, <2>4, <2>5
<1> DEFINE k == Len(subOffered) - left
<1>4. /\ k \in Nat /\ Len(subOffered) - left' = k + 1 /\ Received = subOffered[k + 1]
      /\ left <= 1 => k + 1 = Len(subOffered)
  <2>1. left \in 1 .. Len(subOffered) /\ 1 \in 1 .. left
    BY <1>2 DEF Rest
  <2>2. toClient[1] = [kind |-> "veType", value |-> subOffered[Len(subOffered) - left + 1], layer |-> layer]
    BY <1>2, <2>1 DEF Rest
  <2> QED BY <1>1, <1>2, <2>1, <2>2
<1> HIDE DEF k
<1>5. Heard'
  BY <1>1, <1>2, <1>3 DEF Memory, Heard, Known, First, server, offers, HandshakeInv, Settling
<1>6. \A i \in 1 .. k + 1 :
        /\ subOffered[i] \in SubTypes => subAuthScheme' # "unset"
        /\ subOffered[i] \in SubTypes \ Unencrypted => subAuthScheme' \notin Unencrypted
  <2>1. \A i \in 1 .. k :
          /\ subOffered[i] \in SubTypes => subAuthScheme # "unset"
          /\ subOffered[i] \in SubTypes \ Unencrypted => subAuthScheme \notin Unencrypted
    BY <1>2 DEF Memory, Passing, k
  <2> TAKE i \in 1 .. k + 1
  <2>2. CASE i = k + 1
    BY <1>1, <1>2, <1>4, <2>2, Preferred
  <2>3. CASE i # k + 1
    <3>1. i \in 1 .. k
      BY <1>4, <2>3
    <3> QED BY <1>1, <1>2, <2>1, <3>1, Preferred
  <2> QED BY <2>2, <2>3
<1>7. Passing'
  BY <1>2, <1>3, <1>4, <1>6 DEF Passing
<1>8. EncryptedWhenOffered'
  BY <1>2, <1>3, <1>4, <1>6 DEF EncryptedWhenOffered
<1> QED BY <1>5, <1>7, <1>8 DEF Memory

\* The server's steps change the lists only when the client has not come to them.
LEMMA ServerMemory == ASSUME HandshakeInv, Memory, Server \/ ServerCloses PROVE Memory'
<1>1. /\ UNCHANGED <<at, layer, authScheme, subAuthScheme, left, messages, serverVersion>>
      /\ offered' = offered \/ ServerVersionAgreed
      /\ subOffered' = subOffered \/ ServerHandshakesTLS \/ ServerOffersVeNCrypt
  BY DEF Server, ServerCloses, ServerVersionAgreed, ServerGetsChoice, ServerHandshakesTLS, ServerJudges,
         ServerInit, ServerOffersVeNCrypt, ServerGetsVeNCryptChoice, Gets, client, offers
<1>2. CASE at = "failed"
  BY <1>1, <1>2, Forgotten
<1>3. CASE at # "failed" /\ ServerVersionAgreed
  <2>1. subOffered' = subOffered /\ serverAt = "version" /\ toServer # <<>>
    BY <1>3 DEF ServerVersionAgreed, Gets
  <2>2. at \in {"version", "count", "scheme"} /\ layer = "plain"
    BY <1>3, <2>1 DEF HandshakeInv, Turns, BeforeVersion
  <2>3. Heard'
    BY <1>1, <2>2 DEF Memory, Heard, Known
  <2>4. Passing'
    BY <1>1, <2>2 DEF Passing
  <2>5. EncryptedWhenOffered'
    BY <1>1, <2>2 DEF EncryptedWhenOffered
  <2> QED BY <2>3, <2>4, <2>5 DEF Memory
<1>4. CASE at # "failed" /\ ~ServerVersionAgreed /\ (ServerHandshakesTLS \/ ServerOffersVeNCrypt)
  <2>1. CASE subOffered' = subOffered
    BY <1>1, <1>4, <2>1 DEF Memory, Heard, Known, First, Passing, EncryptedWhenOffered, Chosen, List, Supported
  <2>2. CASE subOffered' # subOffered
    <3>1. offered' = offered
      BY <1>1, <1>4
    <3>2. Len(toServer) # 0 /\ layer = "plain" /\ ((at = "tls" /\ authScheme = "TLS") \/ at = "veStatus")
      <4>1. toServer # <<>> /\ ((serverAt = "tls" /\ settled = "TLS") \/ serverAt = "veVersion")
        BY <1>4, <2>2 DEF ServerHandshakesTLS, ServerOffersVeNCrypt, Gets
      <4>2. Len(toServer) # 0
        BY <4>1, SameTypesKept
      <4> QED BY <1>4, <4>1, <4>2 DEF HandshakeInv, Turns, BeforeTLS, BeforeVeNCryptVersion
    <3>3. Heard'
      BY <1>1, <3>1, <3>2 DEF Memory, Heard, Known, First
    <3>4. Passing'
      BY <1>1, <3>2 DEF Passing
    <3>5. EncryptedWhenOffered'
      BY <1>1, <3>2 DEF EncryptedWhenOffered
    <3> QED BY <3>3, <3>4, <3>5 DEF Memory
  <2> QED BY <2>1, <2>2
<1>5. CASE offered' = offered /\ subOffered' = subOffered
  BY <1>1, <1>5 DEF Memory, Heard, Known, First, Passing, EncryptedWhenOffered, Chosen, List, Supported
<1> QED BY <1>1, <1>2, <1>3, <1>4, <1>5

LEMMA MemoryKept == HandshakeInv /\ Memory /\ [HandshakeNext]_handshakeVars => Memory'
<1> SUFFICES ASSUME HandshakeInv, Memory, [HandshakeNext]_handshakeVars PROVE Memory'
  OBVIOUS
<1>1. CASE Client
  BY <1>1, SmallSteps, VersionMemory, SchemeMemory, CountMemory, TLSMemory, TypeMemory,
     VeNCryptCountMemory, VeNCryptTypeMemory DEF Client
<1>2. CASE Server \/ ServerCloses
  BY <1>2, ServerMemory
<1>3. CASE UNCHANGED handshakeVars
  BY <1>3 DEF Memory, Heard, Known, First, Passing, EncryptedWhenOffered, Chosen, List, Supported,
              handshakeVars, client, server, offers
<1> QED BY <1>1, <1>2, <1>3 DEF HandshakeNext

\* What the loops over the types have kept of the ones already read, for lists of any length.
THEOREM MemoryHolds == HandshakeSpec => []Memory
<1>1. HandshakeInit => Memory
  BY DEF HandshakeInit, Memory, Heard, Passing, EncryptedWhenOffered
<1> QED BY <1>1, MemoryKept, HandshakeInvHolds, PTL DEF HandshakeSpec

\* ReadVeNCryptSecurityType() chooses an encrypted sub type whenever one is offered,
\* wherever it stands in a list of any length.
THEOREM EncryptedIfPossible == HandshakeSpec => []EncryptedWhenOffered
BY MemoryHolds, PTL DEF Memory

LEMMA ConnectedAgrees == ASSUME HandshakeInv, Memory PROVE Agreed
<1> SUFFICES ASSUME at = "connected"
             PROVE  /\ serverAt = "done" /\ toClient = <<>> /\ toServer = <<>>
                    /\ version = spoken /\ authScheme = settled /\ subAuthScheme = subSettled
                    /\ layer = serverLayer /\ messages = MessagesOfServer
  BY DEF Agreed
<1>1. serverAt = "done" /\ AfterServerInit /\ spoken = version
  BY DEF HandshakeInv, Turns
<1>2. SameLayer /\ SameTypes /\ Len(toClient) = 0 /\ Len(toServer) = 0
  BY <1>1 DEF AfterServerInit
<1>3. toClient = <<>> /\ toServer = <<>>
  BY <1>2, SameTypesKept
<1>4. messages = Known
  BY DEF Memory, Heard
<1>5. IF layer = "plain" THEN authScheme # "TLS" ELSE authScheme \in {"TLS", "VeNCrypt"}
  BY SameTypesKept DEF HandshakeInv, Settling, Challenged
<1>6. Known = MessagesOfServer
  BY <1>2, <1>5 DEF Known, First, MessagesOfServer
<1> QED BY <1>1, <1>2, <1>3, <1>4, <1>6

\* InitialiseRFBConnection() only returns TRUE when both sides go by the same version, types
\* and layer, nothing is left on the way, and supportedMessages is what the server has named.
THEOREM BothAgree == HandshakeSpec => []Agreed
BY ConnectedAgrees, HandshakeInvHolds, MemoryHolds, PTL

-------------------------------------------------------------------------------
LEMMA StartsLater == ASSUME NEW t, NEW said, ServerStarts(t, said) PROVE serverAt' # "version"
<1>1. CASE t = "None"
  BY <1>1 DEF ServerStarts, Sends, Challenged
<1>2. CASE t \in Challenged
  BY <1>2 DEF ServerStarts, Sends, Challenged
<1>3. CASE t = "TLS"
  BY <1>3 DEF ServerStarts, Sends, Challenged
<1>4. CASE t = "VeNCrypt"
  BY <1>4 DEF ServerStarts, Sends, Challenged
<1>5. CASE t \notin Challenged \cup {"None", "TLS", "VeNCrypt"}
  BY <1>5 DEF ServerStarts, Sends, Challenged
<1> QED BY <1>1, <1>2, <1>3, <1>4, <1>5

LEMMA SubStartsLater ==
  ASSUME NEW t, NEW said, NEW l, SubStarts(t, said, l) PROVE serverAt' # "version"
<1>1. CASE t \in Free
  BY <1>1 DEF SubStarts, Sends, Free, Challenged
<1>2. CASE t \in Challenged
  BY <1>2 DEF SubStarts, Sends, Free, Challenged
<1>3. CASE t \notin Free \cup Challenged
  BY <1>3 DEF SubStarts, Sends
<1> QED BY <1>1, <1>2, <1>3

\* What the server's steps leave alone once it has taken the version.
LEMMA ServerGoesOn ==
  ASSUME Server \/ ServerCloses
  PROVE  /\ UNCHANGED <<at, layer, version, subAuthScheme, answer, serverVersion>> /\ serverAt' # "version"
         /\ ServerCloses \/ (toServer # <<>> /\ serverAt \notin {"closed", "done"})
         /\ ServerCloses => serverAt' = "closed"
         /\ serverAt # "version" => /\ UNCHANGED <<spoken, offered>>
                                    /\ settled' = settled \/ settled = "unset"
<1>1. /\ UNCHANGED <<at, layer, version, subAuthScheme, answer, serverVersion>>
      /\ ServerCloses \/ (toServer # <<>> /\ serverAt \notin {"closed", "done"})
      /\ ServerCloses => serverAt' = "closed"
  BY DEF Server, ServerCloses, ServerVersionAgreed, ServerGetsChoice, ServerHandshakesTLS, ServerJudges,
         ServerInit, ServerOffersVeNCrypt, ServerGetsVeNCryptChoice, Gets, client
<1>2. serverAt # "version" => UNCHANGED <<spoken, offered>> /\ (settled' = settled \/ settled = "unset")
  BY DEF Server, ServerCloses, ServerVersionAgreed, ServerGetsChoice, ServerHandshakesTLS, ServerJudges,
         ServerInit, ServerOffersVeNCrypt, ServerGetsVeNCryptChoice, Gets, offers
<1>3. serverAt' # "version"
  <2>1. CASE ServerVersionAgreed
    BY <2>1, StartsLater DEF ServerVersionAgreed, Sends
  <2>2. CASE ServerGetsChoice
    BY <2>2, StartsLater DEF ServerGetsChoice
  <2>3. CASE ServerHandshakesTLS
    BY <2>3, SubStartsLater DEF ServerHandshakesTLS, Sends
  <2>4. CASE ServerGetsVeNCryptChoice
    BY <2>4, SubStartsLater DEF ServerGetsVeNCryptChoice, Sends
  <2>5. CASE ServerJudges \/ ServerInit \/ ServerOffersVeNCrypt \/ ServerCloses
    BY <2>5 DEF ServerJudges, ServerInit, ServerOffersVeNCrypt, ServerCloses, Sends
  <2> QED BY <2>1, <2>2, <2>3, <2>4, <2>5 DEF Server
<1> QED BY <1>1, <1>2, <1>3

LEMMA ServerListed == ASSUME Listed, Server \/ ServerCloses PROVE Listed'
<1>1. spoken' > 3006 \/ serverAt' = "version" => offered' \in Seq(SecurityTypes)
  <2>1. CASE serverAt # "version"
    BY <2>1, ServerGoesOn DEF Listed
  <2>2. CASE serverAt = "version" /\ ServerCloses
    BY <2>2 DEF Listed, ServerCloses, offers
  <2>3. CASE serverAt = "version" /\ Server
    <3>1. ServerVersionAgreed /\ spoken' = Lower(Got)
      BY <2>3 DEF Server, ServerVersionAgreed, ServerGetsChoice, ServerHandshakesTLS, ServerJudges,
                  ServerInit, ServerOffersVeNCrypt, ServerGetsVeNCryptChoice, Gets
    <3>2. CASE Lower(Got) > 3006
      <4>1. offered' = offered \/ offered' \in Lists(SecurityTypes)
        BY <3>1, <3>2 DEF ServerVersionAgreed
      <4> QED BY <2>3, <4>1, ListTypes DEF Listed
    <3>3. CASE ~(Lower(Got) > 3006)
      BY <3>1, <3>3, ServerGoesOn
    <3> QED BY <3>2, <3>3
  <2> QED BY <2>1, <2>2, <2>3
<1> QED BY <1>1, ServerGoesOn DEF Listed

\* The reason for which the client has given up stays true.
LEMMA ServerReason == ASSUME ChannelTypes, Reason, Server \/ ServerCloses PROVE Reason'
<1>1. CASE ServerCloses
  BY <1>1, ServerGoesOn DEF Reason
<1>2. CASE ~ServerCloses
  <2>1. Len(toServer) # 0 /\ serverAt \notin {"closed", "done"}
    BY <1>2, ServerGoesOn DEF ChannelTypes
  <2>2. CASE serverVersion = 0 \/ answer = "none"
    BY <2>2, ServerGoesOn DEF Reason
  <2>3. CASE serverAt # "version" /\ NothingOffered
    BY <2>3, ServerGoesOn DEF Reason, NothingOffered, Offers
  <2>4. CASE serverAt # "version" /\ (StuckInTLS \/ StuckInVeNCrypt)
    <3>1. settled \in {"TLS", "VeNCrypt"} /\ settled' = settled /\ serverAt' # "version"
      BY <2>4, ServerGoesOn DEF StuckInTLS, StuckInVeNCrypt
    <3> QED BY <2>1, <2>4, <3>1, ServerGoesOn DEF Reason, StuckInTLS, StuckInVeNCrypt
  <2> QED BY <2>1, <2>2, <2>3, <2>4 DEF Reason
<1> QED BY <1>1, <1>2

LEMMA ClientListed == ASSUME HandshakeInv, Listed, Client PROVE Listed'
<1>1. UNCHANGED server
  BY DEF Client, ReadVersion, ReadScheme, ReadCount, ReadType, ReadChallenge, UserAnswers, ReadResult,
         ReadReason, ReadServerInit, ReadVeNCryptVersion, ReadVeNCryptStatus, ReadVeNCryptCount,
         ReadVeNCryptType, ReadVeNCryptAck, HandshakeTLS, ConnectionLost
<1>2. at' = "type" /\ layer' = "plain" => version' > 3006
  <2>1. CASE ReadCount
    <3>1. at = "count" /\ UNCHANGED <<layer, version>>
      BY <2>1 DEF ReadCount, Reads
    <3> QED BY <3>1 DEF HandshakeInv, Settling
  <2>2. CASE ReadType
    BY <2>2, TypeRead DEF Listed
  <2>3. CASE ReadVersion
    <3>1. at' \in {"failed", "count", "scheme"}
      BY <2>3 DEF ReadVersion, Goes, Waits, Fails
    <3> QED BY <3>1
  <2>4. CASE ReadScheme
    <3>1. at' = "reason" \/ at' = Start(Received).at
      BY <2>4 DEF ReadScheme, Goes, Waits
    <3> QED BY <3>1, StartAt
  <2>5. CASE ReadChallenge \/ UserAnswers \/ ReadReason \/ ReadServerInit \/ ConnectionLost
    BY <2>5 DEF ReadChallenge, UserAnswers, ReadReason, ReadServerInit, ConnectionLost, Goes, Waits, Fails
  <2>6. CASE ReadResult
    <3>1. at' \in {"serverInit", "reason", "failed"}
      BY <2>6 DEF ReadResult, Goes, Waits, Fails, ClientInit
    <3> QED BY <3>1
  <2>7. CASE ReadVeNCryptVersion \/ ReadVeNCryptStatus \/ ReadVeNCryptCount \/ ReadVeNCryptAck
    BY <2>7 DEF ReadVeNCryptVersion, ReadVeNCryptStatus, ReadVeNCryptCount, ReadVeNCryptAck, Goes, Waits, Fails
  <2>8. CASE ReadVeNCryptType
    <3>1. at' \in {"veType", "failed"} \/ \E c : at' = AfterChoice(c).at
      BY <2>8 DEF ReadVeNCryptType, Goes, Waits, Fails
    <3> QED BY <3>1, AfterChoiceAt
  <2>9. CASE HandshakeTLS
    BY <2>9, AfterChoiceAt DEF HandshakeTLS, Goes, Waits
  <2> QED BY <2>1, <2>2, <2>3, <2>4, <2>5, <2>6, <2>7, <2>8, <2>9 DEF Client
<1> QED BY <1>1, <1>2 DEF Listed, server, offers

\* The server has done its part in a client's giving up.
LEMMA ServersDoing ==
  ASSUME UNCHANGED server, serverAt \in {"closed", "done"} \/ serverVersion = 0 PROVE Reason'
BY DEF Reason, server

LEMMA SchemeReason == ASSUME HandshakeInv, ReadScheme, at' = "failed" PROVE Reason'
<1>1. /\ Reads("scheme") /\ UNCHANGED server
      /\ at' = "reason" \/ (Received # "ConnFailed" /\ at' = Start(Received).at)
  BY DEF ReadScheme, Goes, Waits
<1>2. at = "scheme" /\ Len(toClient) > 0 /\ Len(toClient) \in Nat /\ Received = toClient[1].value
  BY <1>1, SameTypesKept, ReadOne
<1>3. Received # "ConnFailed" /\ offered = <<Received>> /\ layer = "plain"
  BY <1>1, <1>2 DEF HandshakeInv, Script, Settling
<1>4. Received \notin Challenged \cup {"None", "TLS", "VeNCrypt"}
  BY <1>1, <1>3, StartAt
<1>5. serverAt # "version"
  BY <1>2, SameTypesKept, ServerWaits
<1>6. NothingOffered
  BY <1>3, <1>4 DEF NothingOffered, Offers
<1> QED BY <1>1, <1>5, <1>6 DEF Reason, NothingOffered, Offers, server, offers

\* The list is at its end and nothing has been chosen from it, or what cannot be done in TLS.
LEMMA TypeFails ==
  ASSUME HandshakeInv, Memory, ReadType, at' = "failed"
  PROVE  \/ layer = "tls" /\ Chosen' = "ARD"
         \/ /\ Chosen = "unset" /\ Chosen' = "unset" /\ Len(toServer') = Len(toServer)
            /\ \A i \in 1 .. Len(List) : ~Supported(List[i])
<1> DEFINE k == Len(List) - left
<1>1. /\ at = "type" /\ Chosen' = Select(Received) /\ (Chosen # "unset" => Supported(Chosen))
      /\ layer \in {"plain", "tls"} /\ Len(List) \in Nat /\ left \in Nat \ {0}
  BY TypeRead, SameTypesKept
<1>2. /\ k \in Nat /\ Received = List[k + 1] /\ (left = 1 => k + 1 = Len(List))
      /\ at' = IF left > 1 THEN "type" ELSE Start(Chosen').at
  BY TypeNext
<1>3. left = 1 /\ Start(Chosen').at = "failed"
  BY <1>1, <1>2
<1> HIDE DEF k
<1>4. CASE Supported(Chosen')
  BY <1>1, <1>3, <1>4, StartAt DEF Supported, Challenged
<1>5. CASE ~Supported(Chosen')
  <2>1. Chosen = "unset" /\ Chosen' = "unset" /\ ~Supported(Received)
    BY <1>1, <1>5 DEF Select
  <2>2. \A i \in 1 .. k : ~Supported(List[i])
    BY <1>1, <2>1 DEF Memory, Passing, k
  <2>3. \A i \in 1 .. Len(List) : ~Supported(List[i])
    BY <1>2, <1>3, <2>1, <2>2
  <2>4. PICK c, said : /\ c = Select(Received) /\ Goes(IF left > 1 THEN Waits("type") ELSE Start(c), said)
                       /\ said = IF c # Chosen /\ c = Received THEN Message("choice", Received, layer) ELSE <<>>
    BY DEF ReadType
  <2>5. Goes(Start(c), <<>>)
    <3>1. said = <<>>
      BY <1>1, <2>1, <2>4, Zenon
    <3>2. ~(left > 1)
      BY <1>3
    <3> QED BY <2>4, <3>1, <3>2, Zenon
  <2>6. Len(toServer') = Len(toServer) + Extra' /\ Extra' = 0
    BY <2>5, SameTypesKept, GoesStartOnly DEF Extra
  <2>7. Len(toServer') = Len(toServer)
    BY <2>6, SameTypesKept
  <2> QED BY <2>1, <2>3, <2>7
<1> QED BY <1>4, <1>5

LEMMA TypeReason == ASSUME HandshakeInv, Memory, Listed, ReadType, at' = "failed" PROVE Reason'
<1>1. /\ at = "type" /\ UNCHANGED <<layer, server, List>> /\ layer \in {"plain", "tls"}
      /\ IF layer = "plain" THEN TRUE ELSE authScheme = "TLS" /\ subAuthScheme' = Chosen'
  BY TypeRead, SameTypesKept
<1>2. serverAt # "version" /\ (Chosen = "unset" => serverAt \in {"choice", "closed"})
  BY <1>1, TypeTurns
<1>3. CASE serverAt = "closed"
  BY <1>1, <1>3, ServersDoing
<1>4. CASE serverAt # "closed" /\ layer = "plain"
  <2>1. \A i \in 1 .. Len(offered) : ~Supported(offered[i])
    BY <1>4, TypeFails DEF List
  <2>2. offered \in Seq(SecurityTypes)
    BY <1>1, <1>2, <1>4, TypeTurns DEF Listed
  <2>3. \A i \in 1 .. Len(offered) : offered[i] \notin Challenged \cup {"None", "TLS", "VeNCrypt"}
    <3> TAKE i \in 1 .. Len(offered)
    <3>1. offered[i] \in SecurityTypes /\ ~Supported(offered[i])
      BY <2>1, <2>2
    <3>2. offered[i] \notin {"MSLogon", "TLSVNC", "X509VNC"}
      BY <3>1, HandshakeAssumption
    <3> QED BY <1>4, <3>1, <3>2 DEF Supported, Challenged
  <2>4. NothingOffered
    BY <2>3 DEF NothingOffered, Offers
  <2> QED BY <1>1, <1>2, <2>4 DEF Reason, NothingOffered, Offers, server, offers
<1>5. CASE serverAt # "closed" /\ layer = "tls"
  <2>1. settled = "TLS" /\ settled' = settled
    BY <1>1, <1>2, <1>5, TypeTurns DEF server
  <2>2. CASE Chosen' = "ARD"
    BY <1>1, <1>2, <1>5, <2>1, <2>2 DEF Reason, StuckInTLS, server
  <2>3. CASE Chosen' # "ARD"
    <3>1. Chosen = "unset" /\ Len(toServer') = Len(toServer) /\ \A i \in 1 .. Len(List) : ~Supported(List[i])
      BY <2>3, TypeFails
    <3>2. serverAt = "choice" /\ Idle
      BY <1>1, <1>2, <1>5, <3>1, TypeTurns
    <3>3. ~Offers(subOffered, {"None", "VncAuth"})
      BY <1>5, <3>1 DEF List, Offers, Supported
    <3>4. ~Offers(subOffered', {"None", "VncAuth"}) /\ Len(toServer') = 0 /\ serverAt' = "choice"
      BY <1>1, <3>1, <3>2, <3>3 DEF Offers, server, offers
    <3> QED BY <2>1, <3>4 DEF Reason, StuckInTLS
  <2> QED BY <2>2, <2>3
<1> QED BY <1>1, <1>3, <1>4, <1>5

LEMMA ResultReason ==
  ASSUME HandshakeInv, ReadResult \/ ReadReason \/ ReadServerInit, at' = "failed" PROVE Reason'
<1>1. UNCHANGED server
  BY DEF ReadResult, ReadReason, ReadServerInit
<1>2. CASE ReadResult
  <2>1. Reads("result") /\ Received # "ok"
    BY <1>2 DEF ReadResult, Goes, ClientInit
  <2>2. /\ at = "result" /\ Len(toClient) > 0 /\ Len(toClient) \in Nat /\ toClient[1].value # "ok"
    BY <2>1, SameTypesKept, ReadOne
  <2>3. serverAt \in {"clientInit", "closed"}
    BY <2>2, SameTypesKept, ServerWaits
  <2>4. serverAt # "clientInit"
    BY <2>2 DEF HandshakeInv, Turns, BeforeClientInit
  <2> QED BY <1>1, <2>3, <2>4, ServersDoing
<1>3. CASE ReadReason
  <2>1. at = "reason"
    BY <1>3 DEF ReadReason, Reads
  <2> QED BY <1>1, <2>1, SameTypesKept, ServerWaits, ServersDoing
<1>4. CASE ReadServerInit
  <2>1. at = "serverInit" /\ Len(toClient) > 0
    BY <1>4, SameTypesKept, ReadOne DEF ReadServerInit
  <2> QED BY <1>1, <2>1, SameTypesKept, ServerWaits, ServersDoing
<1> QED BY <1>2, <1>3, <1>4

LEMMA VeNCryptReason ==
  ASSUME HandshakeInv, ReadVeNCryptVersion \/ ReadVeNCryptStatus \/ ReadVeNCryptCount, at' = "failed"
  PROVE  Reason'
<1>1. UNCHANGED <<server, subAuthScheme>>
  BY DEF ReadVeNCryptVersion, ReadVeNCryptStatus, ReadVeNCryptCount
<1>2. CASE ReadVeNCryptVersion
  <2>1. at = "veVersion" /\ Len(toClient) > 0 /\ Len(toClient) \in Nat
    BY <1>2, SameTypesKept, ReadOne DEF ReadVeNCryptVersion
  <2>2. serverAt \in {"veVersion", "closed"}
    BY <2>1, SameTypesKept, ServerWaits
  <2>3. Goes(Fails, <<>>)
    BY <1>2 DEF ReadVeNCryptVersion, Goes, Waits
  <2>4. toServer' = toServer
    BY <2>3, SameTypesKept, GoesWaits DEF Fails
  <2>5. CASE serverAt = "veVersion"
    <3>1. Idle /\ settled = "VeNCrypt"
      BY <2>1, <2>5 DEF HandshakeInv, Turns, BeforeVeNCryptVersion
    <3> QED BY <1>1, <2>4, <2>5, <3>1 DEF Reason, StuckInVeNCrypt, server
  <2> QED BY <1>1, <2>2, <2>5, ServersDoing
<1>3. CASE ReadVeNCryptStatus
  <2>1. Reads("veStatus") /\ Received # "ok"
    BY <1>3 DEF ReadVeNCryptStatus, Goes, Waits
  <2>2. at = "veStatus" /\ Len(toClient) > 0 /\ Len(toClient) \in Nat /\ toClient[1].value # "ok"
    BY <2>1, SameTypesKept, ReadOne
  <2>3. Len(toClient) = 1
    BY <2>2 DEF HandshakeInv, Script
  <2>4. serverAt # "veChoice"
    BY <2>2, <2>3 DEF HandshakeInv, Turns, BeforeVeNCryptChoice
  <2> QED BY <1>1, <2>2, <2>4, SameTypesKept, ServerWaits, ServersDoing
<1>4. CASE ReadVeNCryptCount
  <2>1. Reads("veCount") /\ Received = 0
    BY <1>4 DEF ReadVeNCryptCount, Goes, Waits
  <2>2. at = "veCount" /\ toClient[1].value = 0
    BY <2>1, SameTypesKept, ReadOne
  <2>3. toClient[1].value = Len(subOffered) /\ Len(subOffered) \in 1 .. MaxTypes
    BY <2>2 DEF HandshakeInv, Script, Counted
  <2> QED BY <2>2, <2>3, HandshakeAssumption
<1> QED BY <1>2, <1>3, <1>4

LEMMA SubTypeReason == ASSUME HandshakeInv, Memory, ReadVeNCryptType, at' = "failed" PROVE Reason'
<1>1. Reads("veType") /\ UNCHANGED server /\ subAuthScheme' = Prefer(subAuthScheme, Received)
  BY DEF ReadVeNCryptType
<1>2. /\ at = "veType" /\ Len(toClient) > 0 /\ Len(toClient) \in Nat /\ Received = toClient[1].value
      /\ Rest("veType", subOffered) /\ subAuthScheme \in Encrypted \cup Unencrypted \cup {"unset"}
      /\ Len(subOffered) \in Nat /\ layer = "plain"
  BY <1>1, SameTypesKept, ReadOne DEF HandshakeInv, Script, Settling, ChannelTypes
<1>3. PICK c : /\ c = Prefer(subAuthScheme, Received)
               /\ IF left > 1 THEN Goes(Waits("veType"), <<>>)
                  ELSE IF c = "unset" THEN Goes(Fails, <<>>)
                  ELSE Goes(AfterChoice(c), Message("veChoice", c, layer))
  BY DEF ReadVeNCryptType
<1>4. ~(left > 1) /\ c = "unset"
  <2>1. AfterChoice(c).at # "failed"
    BY AfterChoiceAt
  <2> QED BY <1>3, <2>1 DEF Goes, Waits
<1>5. toServer' = toServer
  <2>1. Goes(Waits("failed"), <<>>)
    BY <1>3, <1>4 DEF Fails
  <2> QED BY <2>1, SameTypesKept, GoesWaits
<1>6. left = 1 /\ toClient[1] = [kind |-> "veType", value |-> subOffered[Len(subOffered)], layer |-> layer]
  <2>1. left \in 1 .. Len(subOffered) /\ left = 1 /\ Len(subOffered) - left + 1 = Len(subOffered) /\ 1 \in 1 .. left
    BY <1>2, <1>4 DEF Rest
  <2> QED BY <1>2, <2>1 DEF Rest
<1>7. subAuthScheme = "unset" /\ Received \notin SubTypes
  BY <1>2, <1>3, <1>4, Preferred
<1>8. ~Offers(subOffered, SubTypes)
  <2>1. \A i \in 1 .. Len(subOffered) - 1 : subOffered[i] \notin SubTypes
    BY <1>2, <1>6, <1>7 DEF Memory, Passing
  <2>2. subOffered[Len(subOffered)] \notin SubTypes
    BY <1>2, <1>6, <1>7
  <2>3. \A i \in 1 .. Len(subOffered) : subOffered[i] \notin SubTypes
    BY <1>2, <2>1, <2>2
  <2> QED BY <2>3 DEF Offers
<1>9. serverAt \in {"veChoice", "closed"}
  BY <1>2, SameTypesKept, ServerWaits
<1>10. CASE serverAt = "veChoice"
  <2>1. Idle /\ settled = "VeNCrypt"
    BY <1>2, <1>10 DEF HandshakeInv, Turns, BeforeVeNCryptChoice
  <2>2. ~Offers(subOffered', SubTypes)
    BY <1>1, <1>8 DEF server, offers
  <2> QED BY <1>1, <1>5, <1>10, <2>1, <2>2 DEF Reason, StuckInVeNCrypt, server
<1> QED BY <1>1, <1>9, <1>10, ServersDoing

LEMMA AckReason == ASSUME HandshakeInv, ReadVeNCryptAck, at' = "failed" PROVE Reason'
<1>1. /\ Reads("veAck") /\ UNCHANGED <<server, subAuthScheme>>
      /\ Received # "ok" \/ subAuthScheme \in WithCertificate
  BY DEF ReadVeNCryptAck, Goes
<1>2. at = "veAck" /\ Len(toClient) > 0 /\ Len(toClient) \in Nat /\ Received = toClient[1].value
  BY <1>1, SameTypesKept, ReadOne
<1>3. serverAt \in {"tls", "closed"}
  BY <1>2, SameTypesKept, ServerWaits
<1>4. CASE serverAt = "tls"
  <2>1. settled = "VeNCrypt" /\ toClient[1].value = "ok"
    BY <1>2, <1>4 DEF HandshakeInv, Turns, BeforeTLS
  <2> QED BY <1>1, <1>2, <1>4, <2>1 DEF Reason, StuckInVeNCrypt, server
<1> QED BY <1>1, <1>3, <1>4, ServersDoing

LEMMA ClientReason == ASSUME HandshakeInv, Memory, Listed, Client, at' = "failed" PROVE Reason'
<1>1. CASE ReadVersion
  <2>1. Reads("version") /\ Received = 0 /\ UNCHANGED server
    BY <1>1 DEF ReadVersion, Goes, Waits
  <2>2. serverVersion = 0
    BY <2>1, SameTypesKept, ReadOne DEF HandshakeInv, Script
  <2> QED BY <2>1, <2>2, ServersDoing
<1>2. CASE ReadCount
  BY <1>2 DEF ReadCount, Goes, Waits
<1>3. CASE ReadChallenge
  BY <1>3 DEF ReadChallenge, Goes, Waits
<1>4. CASE HandshakeTLS
  BY <1>4, AfterChoiceAt DEF HandshakeTLS, Goes, Waits
<1>5. CASE UserAnswers
  <2>1. answer' = "none"
    BY <1>5 DEF UserAnswers, Goes, Waits
  <2> QED BY <2>1 DEF Reason
<1>6. CASE ConnectionLost
  <2>1. serverAt = "closed" /\ UNCHANGED server
    BY <1>6 DEF ConnectionLost
  <2> QED BY <2>1, ServersDoing
<1> QED BY <1>1, <1>2, <1>3, <1>4, <1>5, <1>6, SchemeReason, TypeReason, ResultReason, VeNCryptReason,
           SubTypeReason, AckReason DEF Client

LEMMA WhyKept == HandshakeInv /\ Memory /\ Why /\ [HandshakeNext]_handshakeVars => Why'
<1> SUFFICES ASSUME HandshakeInv, Memory, Why, [HandshakeNext]_handshakeVars PROVE Why'
  OBVIOUS
<1>1. CASE Client
  BY <1>1, ClientListed, ClientReason DEF Why
<1>2. CASE Server \/ ServerCloses
  <2>1. Listed'
    BY <1>2, ServerListed DEF Why
  <2>2. at' = "failed" => Reason'
    BY <1>2, ServerGoesOn, ServerReason, SameTypesKept DEF Why
  <2> QED BY <2>1, <2>2 DEF Why
<1>3. CASE UNCHANGED handshakeVars
  BY <1>3 DEF Why, Listed, Reason, NothingOffered, StuckInTLS, StuckInVeNCrypt, Offers,
              handshakeVars, client, server, offers
<1> QED BY <1>1, <1>2, <1>3 DEF HandshakeNext

\* The reason for which InitialiseRFBConnection() has returned FALSE, which what the server
\* still does cannot take away.
THEOREM WhyHolds == HandshakeSpec => []Why
<1>1. HandshakeInit => Why
  <2>1. <<>> \in Seq(SecurityTypes)
    OBVIOUS
  <2> QED BY <2>1 DEF HandshakeInit, Why, Listed
<1> QED BY <1>1, WhyKept, HandshakeInvHolds, MemoryHolds, PTL DEF HandshakeSpec

\* InitialiseRFBConnection() only returns FALSE for one of the reasons it may have.
THEOREM OnlyForReason == HandshakeSpec => []FailsOnlyForReason
<1>1. Why => FailsOnlyForReason
  <2> SUFFICES ASSUME Reason PROVE
        \/ serverAt = "closed" \/ serverVersion = 0 \/ answer = "none" \/ serverAt = "done"
        \/ ~Offers(offered, Challenged \cup {"None", "TLS", "VeNCrypt"})
        \/ settled = "TLS" /\ (~Offers(subOffered, {"None", "VncAuth"}) \/ subAuthScheme = "ARD")
        \/ settled = "VeNCrypt" /\ \/ serverAt = "veVersion"
                                   \/ ~Offers(subOffered, SubTypes)
                                   \/ subAuthScheme \in WithCertificate
    BY DEF Why, FailsOnlyForReason
  <2> QED BY DEF Reason, NothingOffered, StuckInTLS, StuckInVeNCrypt
<1> QED BY <1>1, WhyHolds, PTL
===============================================================================
