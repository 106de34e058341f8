-------------------------------- MODULE Viewer --------------------------------
(***************************************************************************)
(* bwvnc/bwvnc.c: the sessions of main(), one after the other when it is   *)
(* started with -listen, and the events of a session: keys, buttons, the   *)
(* menu that takes them away, the focus, sound, and the ways a session     *)
(* ends.  The static variables of the file outlive a session; the client   *)
(* structure and the server's idea of keyboard and mouse do not.           *)
(*                                                                         *)
(* An event is handled in the step that raises it.  A key is abstracted to *)
(* its way through SDL_key2rfbKeySym(): a letter has a keysym only in game *)
(* mode, where Shift raises it, or with Ctrl down; every other key always  *)
(* has the same.                                                           *)
(***************************************************************************)
EXTENDS Naturals, FiniteSets

CONSTANTS
  Letters,      \* keys that produce text, and their keysyms
  Capitals,     \* the keysyms of letters with Shift down
  Alts,         \* the Alt keys
  MaxSessions   \* bound: sessions of one run of the program

ASSUME ViewerAssumption ==
  /\ MaxSessions \in Nat \ {0}
  /\ Letters \cap Alts = {} /\ Capitals \cap (Letters \cup Alts) = {}
  /\ {"ctrl", "shift", "left", "x1", "NoSymbol"} \cap (Letters \cup Capitals \cup Alts) = {}
  /\ \E f \in [Letters -> Capitals] : \A a, b \in Letters : f[a] = f[b] => a = b

VARIABLES
  \* set by the command line
  listenLoop, viewOnly,
  args,         \* the options of the library in argv: given, or purged
  \* main()
  pc,           \* "get", "init", "loop" or "exit"
  cl,           \* the client structure in use, 0 for NULL
  clients,      \* what became of every structure
  options,      \* the options the present structure was given
  window,       \* what sdlWindow points to: "none", "open" or "closed"
  ui_show, game_relmode,
  buttonMask,   \* the buttons in it
  altKeyDown,   \* rightAltKeyDown and leftAltKeyDown
  isAudioEnabled, audioEngineState,
  \* the user
  held,         \* keys and buttons held down
  \* the server of the session
  down,         \* keysyms and buttons it holds for pressed
  audio,        \* QEMU audio: "none", "asked" for, "offered", or "askedAgain"
  sound,        \* it streams sound
  \* history
  missed,       \* keys and buttons the server does not hear the release of
  early,        \* the sound was switched in the menu before it was offered
  abandoned     \* structures left behind by a quit in the menu

commandLine == <<listenLoop, viewOnly, args>>
audioState == <<isAudioEnabled, audioEngineState, audio, sound, early>>
input == <<ui_show, game_relmode, buttonMask, altKeyDown, held, down, missed>>
session == <<pc, cl, clients, options, window, abandoned>>
vars == <<commandLine, session, input, audioState>>

(***************************************************************************)
(* Keys and buttons                                                        *)
(***************************************************************************)
Keys == Letters \cup Alts \cup {"ctrl", "shift"}
\* "x1" is a side button: buttonMapping[] gives it the bit of the wheel.
Buttons == {"left", "x1"}
Wheel == {"x1"}
NoSymbol == "NoSymbol"
Clients == 1 .. MaxSessions

KeySyms == Keys \cup Capitals

\* ucsToUpper().
Upper ==
  CHOOSE f \in [Letters -> Capitals] : \A a, b \in Letters : f[a] = f[b] => a = b

\* With these keys held, in game mode or not, a letter has its own keysym, or
\* that of its capital.
AsTyped(keys, mode) == IF mode THEN "shift" \notin keys ELSE "ctrl" \in keys
Raised(keys, mode) == mode /\ "shift" \in keys

\* SDL_key2rfbKeySym() of a key, with these keys held.
KeySym(k, keys) ==
  IF k \notin Letters \/ AsTyped(keys, game_relmode) THEN k
  ELSE IF Raised(keys, game_relmode) THEN Upper[k] ELSE NoSymbol

Init ==
  /\ listenLoop \in BOOLEAN /\ viewOnly \in BOOLEAN /\ args = "given"
  /\ pc = "get" /\ cl = 0 /\ clients = [c \in Clients |-> "unused"]
  /\ options = "default" /\ window = "none" /\ abandoned = {}
  /\ ui_show = FALSE /\ game_relmode = FALSE /\ buttonMask = {} /\ altKeyDown = {}
  /\ held = {} /\ down = {} /\ missed = {}
  /\ isAudioEnabled \in BOOLEAN /\ audioEngineState = FALSE
  /\ audio = "none" /\ sound = FALSE /\ early = FALSE

(***************************************************************************)
(* Sessions                                                                *)
(***************************************************************************)
\* rfbClientCleanup().  A structure freed twice would show.
Freed(c) == [clients EXCEPT ![c] = IF @ = "live" THEN "freed" ELSE "freedTwice"]

\* SDL_QuitSubSystem() closes the window; sdlWindow is left as it is.
WindowClosed == IF window = "open" THEN "closed" ELSE window

\* rfbGetClient(); rfbInitClient() then takes the options that precede
\* "-listennofork" out of argv and gives them to this structure.
GetClient ==
  /\ pc = "get"
  /\ \E c \in Clients :
       /\ clients[c] = "unused" /\ \A b \in Clients : b < c => clients[b] # "unused"
       /\ cl' = c /\ clients' = [clients EXCEPT ![c] = "live"]
  /\ options' = IF args = "given" THEN "given" ELSE "default"
  /\ args' = "purged" /\ pc' = "init"
  /\ UNCHANGED <<listenLoop, viewOnly, window, abandoned, input, audioState>>

\* rfbInitClient() succeeds: a server is connected, resize() has been called.
\* The window is created only when sdlWindow is NULL.
Connected ==
  /\ pc = "init" /\ pc' = "loop"
  /\ window' = IF window = "none" THEN "open" ELSE window
  /\ down' = {} /\ missed' = missed \cap buttonMask
  /\ audio' = (IF isAudioEnabled THEN "asked" ELSE "none") /\ sound' = FALSE /\ early' = FALSE
  /\ UNCHANGED <<commandLine, cl, clients, options, abandoned, ui_show, game_relmode,
                 buttonMask, altKeyDown, held, isAudioEnabled, audioEngineState>>

\* Mutant: cl still points to the structure when cleanup() is called.
InitFailsKeepsClient ==
  /\ pc = "init" /\ pc' = "exit"
  /\ clients' = [clients EXCEPT ![cl] = "freedTwice"] /\ cl' = 0 /\ window' = WindowClosed
  /\ UNCHANGED <<commandLine, options, abandoned, input, audioState>>

\* rfbInitClient() fails and has freed the structure; the break ends the
\* program, with -listen too.
InitFails ==
  /\ pc = "init" /\ pc' = "exit"
  /\ clients' = Freed(cl) /\ cl' = 0 /\ window' = WindowClosed
  /\ UNCHANGED <<commandLine, options, abandoned, input, audioState>>

After == IF listenLoop THEN "get" ELSE "exit"

\* WaitForMessage() or HandleRFBServerMessage() fails; outside the menu an
\* SDL_QUIT comes to the same, but for the window when it ends the program.
EndSession(quit) ==
  /\ pc = "loop" /\ pc' = After /\ (quit => ~ui_show)
  /\ clients' = Freed(cl)
  /\ window' = IF quit /\ ~listenLoop THEN window ELSE WindowClosed
  /\ UNCHANGED <<commandLine, cl, options, abandoned, input, audioState>>

\* SDL_QUIT in the menu: r_ui_event() returns 0 and the loop is left as it is.
QuitInMenu ==
  /\ pc = "loop" /\ ui_show /\ pc' = After
  /\ abandoned' = abandoned \cup {cl}
  /\ UNCHANGED <<commandLine, cl, clients, options, window, input, audioState>>

Sessions == GetClient \/ Connected \/ InitFails \/ (\E q \in BOOLEAN : EndSession(q)) \/ QuitInMenu

(***************************************************************************)
(* Events.  SDL reports them to handleSDLEvent(), or to r_ui_event() when  *)
(* the menu is shown; without a session nobody hears of them.              *)
(***************************************************************************)
InSession == pc = "loop" /\ ~ui_show
InMenu == pc = "loop" /\ ui_show
\* Between sessions events wait in SDL's queue as long as its window is open.
Unheard == pc \in {"get", "init"} /\ window # "open"

Unmoved == UNCHANGED <<commandLine, session, audioState, ui_show, game_relmode>>

\* Keysyms of letters that no key has now.
Silent(keys, mode) ==
  (IF AsTyped(keys, mode) THEN {} ELSE Letters) \cup (IF Raised(keys, mode) THEN {} ELSE Capitals)

\* Letters that the server holds for pressed and that have lost the keysym they
\* went down with.
Untold(keys, mode) == down \cap Silent(keys, mode)

\* SDL_KEYDOWN, a repeated one too.
KeyDown(k) ==
  /\ InSession /\ ~viewOnly /\ Unmoved
  /\ held' = held \cup {k}
  /\ LET sym == KeySym(k, held')
     IN  /\ down' = down \cup ({sym} \ {NoSymbol})
         /\ missed' = (missed \ {sym}) \cup Untold(held', game_relmode)
  /\ altKeyDown' = altKeyDown \cup ({k} \cap Alts)
  /\ UNCHANGED buttonMask

\* Mutant: letters are left to SDL_TEXTINPUT when they come up.
KeyUpOfLetterIgnored(k) ==
  /\ InSession /\ k \in held /\ Unmoved
  /\ held' = held \ {k}
  /\ down' = down \ ({k} \ Letters)
  /\ missed' = (missed \ {k}) \cup Untold(held', game_relmode)
  /\ altKeyDown' = altKeyDown \ {k}
  /\ UNCHANGED buttonMask

\* SDL_KEYUP.  The keysym may differ from the one of the press.
KeyUp(k) ==
  /\ InSession /\ k \in held /\ Unmoved
  /\ held' = held \ {k}
  /\ LET sym == KeySym(k, held')
     IN  /\ down' = down \ {sym}
         /\ missed' = (missed \ {sym}) \cup Untold(held', game_relmode)
  /\ altKeyDown' = altKeyDown \ {k}
  /\ UNCHANGED buttonMask

\* SDL_TEXTINPUT: the press and the release of a character.
TextInput(c) ==
  /\ InSession /\ ~viewOnly /\ ~game_relmode /\ Unmoved
  /\ down' = down \ {c} /\ missed' = missed \ {c}
  /\ UNCHANGED <<held, buttonMask, altKeyDown>>

\* SendPointerEvent(): the server has the buttons of the mask down and no others.
WithButtons(mask) == (down \ Buttons) \cup mask

\* Mutant: the whole mask is cleared with the bits of the wheel.
PointerEventClearsMask(mask) ==
  /\ down' = WithButtons(mask)
  /\ buttonMask' = {}
  /\ missed' = missed \ (Buttons \ mask)
  /\ Unmoved /\ UNCHANGED altKeyDown

\* SDL_MOUSEBUTTONDOWN and SDL_MOUSEBUTTONUP, and SDL_MOUSEMOTION with the
\* buttons as they are; buttonMask loses the bits of the wheel when it is sent.
PointerEvent(mask) ==
  /\ down' = WithButtons(mask)
  /\ buttonMask' = mask \ Wheel
  /\ missed' = missed \ (Buttons \ mask)
  /\ Unmoved /\ UNCHANGED altKeyDown

ButtonDown(b) ==
  InSession /\ ~viewOnly /\ held' = held \cup {b} /\ PointerEvent(buttonMask \cup {b})
ButtonUp(b) ==
  InSession /\ b \in held /\ held' = held \ {b} /\ PointerEvent(buttonMask \ {b})
Motion ==
  InSession /\ ~viewOnly /\ UNCHANGED held /\ PointerEvent(buttonMask)

\* SDL_MOUSEWHEEL: a bit of the wheel, then no button at all; buttonMask stays.
MouseWheel ==
  /\ InSession /\ ~viewOnly /\ Unmoved
  /\ down' = WithButtons({})
  /\ missed' = missed \ (Buttons \ buttonMask)
  /\ UNCHANGED <<held, buttonMask, altKeyDown>>

\* What the server may hold for pressed because of a key or button.
Symbols(k) == {k} \cup {Upper[l] : l \in {k} \cap Letters}

\* A key or button pressed, and one let go of, in the menu or between two sessions.
PressUnseen(k) ==
  /\ InMenu \/ Unheard
  /\ ~viewOnly /\ held' = held \cup {k}
  /\ missed' = missed \cup Untold(held', game_relmode)
  /\ Unmoved /\ UNCHANGED <<down, buttonMask, altKeyDown>>

ReleaseUnseen(k) ==
  /\ InMenu \/ Unheard
  /\ k \in held /\ held' = held \ {k}
  /\ missed' = missed \cup (Symbols(k) \cap (down \cup buttonMask))
                     \cup Untold(held', game_relmode)
  /\ Unmoved /\ UNCHANGED <<down, buttonMask, altKeyDown>>

\* SDL_WINDOWEVENT_FOCUS_LOST.  SDL has reported every key as released, but an
\* Alt that the window manager took may be missing.
FocusLost ==
  /\ InSession /\ held \cap Keys \subseteq Alts /\ Unmoved
  /\ down' = down \ altKeyDown /\ altKeyDown' = {}
  /\ held' = held \ Keys /\ missed' = missed \ altKeyDown
  /\ UNCHANGED buttonMask

\* F12 opens the menu; in it F12 and Escape close it.
Menu ==
  /\ (InSession /\ ~viewOnly) \/ InMenu
  /\ ui_show' = ~ui_show
  /\ UNCHANGED <<commandLine, session, audioState, game_relmode, buttonMask, altKeyDown,
                 held, down, missed>>

ToggleGameMode ==
  /\ InMenu /\ game_relmode' = ~game_relmode
  /\ missed' = missed \cup Untold(held, game_relmode')
  /\ UNCHANGED <<commandLine, session, audioState, ui_show, buttonMask, altKeyDown, held, down>>

Events ==
  \/ \E k \in Keys : KeyDown(k) \/ KeyUp(k)
  \/ \E c \in Letters \cup Capitals : TextInput(c)
  \/ \E b \in Buttons : ButtonDown(b) \/ ButtonUp(b)
  \/ \E k \in Keys \cup Buttons : PressUnseen(k) \/ ReleaseUnseen(k)
  \/ Motion \/ MouseWheel \/ FocusLost \/ Menu \/ ToggleGameMode

(***************************************************************************)
(* Sound                                                                   *)
(***************************************************************************)
AudioUnmoved == UNCHANGED <<commandLine, session, input, isAudioEnabled>>

\* The rectangle that offers QEMU audio: only when audioInit() has started the
\* engine the format is set and the sound switched on.  audioInit() returns FALSE
\* when the engine runs already, and when memory or the device fail.
AudioOffer ==
  /\ pc = "loop" /\ audio \in {"asked", "askedAgain"} /\ audio' = "offered"
  /\ \/ ~audioEngineState /\ audioEngineState' = TRUE /\ sound' = TRUE
     \/ UNCHANGED <<audioEngineState, sound>>
  /\ AudioUnmoved /\ UNCHANGED early

\* The encodings are sent again by resize(), and by the menu after a change of
\* compression or quality.
SetFormatAndEncodings ==
  /\ pc = "loop" /\ isAudioEnabled
  /\ \/ audio = "none" /\ audio' = "asked"
     \/ audio = "offered" /\ audio' = "askedAgain"
  /\ AudioUnmoved /\ UNCHANGED <<audioEngineState, sound, early>>

\* The server has offered audio in this session, and hears of the checkbox.
Offered == audio \in {"offered", "askedAgain"}

\* Mutant: the checkbox sends the message for the state it had.
ToggleAudioInverted ==
  /\ InMenu /\ isAudioEnabled' = ~isAudioEnabled
  /\ sound' = (Offered /\ isAudioEnabled)
  /\ early' = (early \/ audio # "offered")
  /\ UNCHANGED <<commandLine, session, input, audioEngineState, audio>>

\* The checkbox: the server takes no notice before it has offered audio.
ToggleAudio ==
  /\ InMenu /\ isAudioEnabled' = ~isAudioEnabled
  /\ sound' = (Offered /\ isAudioEnabled')
  /\ early' = (early \/ audio # "offered")
  /\ UNCHANGED <<commandLine, session, input, audioEngineState, audio>>

Sound == AudioOffer \/ SetFormatAndEncodings \/ ToggleAudio

Next == Sessions \/ Events \/ Sound

Spec == Init /\ [][Next]_vars

-------------------------------------------------------------------------------
TypeOK ==
  /\ listenLoop \in BOOLEAN /\ viewOnly \in BOOLEAN /\ args \in {"given", "purged"}
  /\ pc \in {"get", "init", "loop", "exit"} /\ cl \in {0} \cup Clients
  /\ clients \in [Clients -> {"unused", "live", "freed", "freedTwice"}]
  /\ options \in {"default", "given"} /\ window \in {"none", "open", "closed"}
  /\ ui_show \in BOOLEAN /\ game_relmode \in BOOLEAN /\ (viewOnly => ~ui_show)
  /\ buttonMask \subseteq Buttons \ Wheel /\ altKeyDown \subseteq Alts
  /\ isAudioEnabled \in BOOLEAN /\ audioEngineState \in BOOLEAN
  /\ held \subseteq Keys \cup Buttons /\ down \subseteq KeySyms \cup Buttons
  /\ missed \subseteq KeySyms \cup Buttons
  /\ audio \in {"none", "asked", "offered", "askedAgain"} /\ sound \in BOOLEAN /\ early \in BOOLEAN
  /\ abandoned \subseteq Clients

\* Across all ways a session ends or fails to begin, rfbClientCleanup() is called
\* once for every client structure, and never for one in use: only a quit in
\* the menu leaves one behind.  TypeOK comes with it, as one conjunct.
ClientsAccountedFor ==
  /\ TypeOK
  /\ \A c \in Clients : clients[c] # "freedTwice"
  /\ pc \in {"init", "loop"} => clients[cl] = "live" /\ cl \notin abandoned
  /\ {c \in Clients : clients[c] = "live"} =
       abandoned \cup (IF pc \in {"init", "loop"} THEN {cl} ELSE {})

\* handleSDLEvent() leaves no key and no button pressed on the server that the
\* user has let go of, unless the release came in the menu or between two
\* sessions, or a letter has lost the keysym it went down with: it went down with
\* Ctrl or in game mode and that is over, or Shift has changed in game mode.
HeldUnlessMissed == \A s \in down \ missed : \E k \in held : s \in Symbols(k)

\* leftAltKeyDown and rightAltKeyDown know every Alt that the server holds for
\* pressed, so that losing the focus releases it, after a visit to the menu too.
AltTracked == down \cap Alts \subseteq altKeyDown

\* A button that the server holds for pressed is in buttonMask, the wheel's bits
\* apart, so that the next pointer event tells it what the mask says.
ButtonsTracked == (down \cap Buttons) \ Wheel \subseteq buttonMask

\* What the client remembers of Alt keys and buttons covers what the server holds
\* for pressed, through menus, lost focus, the wheel and new sessions.
InputTracked == AltTracked /\ ButtonsTracked

\* In no session does the server stream sound against the checkbox, and in the
\* first it does stream when the checkbox is ticked and the engine runs, from the
\* moment it has offered audio; unless the checkbox was clicked while the answer to
\* SetEncodings was still to come.  An audioInit() that fails leaves it silent.
SoundAsChosen ==
  pc = "loop" /\ ~early =>
    /\ sound => isAudioEnabled
    /\ cl = 1 /\ Offered /\ audioEngineState /\ isAudioEnabled => sound

\* The usage text gives "-compress [n] Specify compression level: 0-fast, 9-best
\* (default: 0)" and "-noaudio Disable audio support (default: enabled)" with no
\* word of the first session only, and cleanup() restarts the video subsystem
\* "just in case we're running in listenLoop": every session is to begin with the
\* options of the command line, an open window and, with audio enabled, an engine
\* that can be started.
SessionStarts == pc = "init" /\ pc' = "loop"
SessionsAlike ==
  [][SessionStarts =>
       options = "given" /\ window' = "open" /\ ~(isAudioEnabled /\ audioEngineState)]_vars
===============================================================================
