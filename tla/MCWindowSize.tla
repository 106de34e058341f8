----------------------------- MODULE MCWindowSize -----------------------------
(***************************************************************************)
(* DesktopSize with a history variable: the size the user last gave the    *)
(* window, from when the server has announced its screen.                  *)
(***************************************************************************)
EXTENDS DesktopSize

VARIABLE wanted

HInit == Init /\ wanted = desktop.size

UserResizesWindow ==
  \E d \in Sizes :
    /\ UserResizes(d)
    /\ wanted' = IF screen.size = 0 THEN wanted ELSE d

\* The server carries out every SetDesktopSize and leaves its size alone.
ObligingServer ==
  Server /\ (ServerTakesResize => desktop'.size = Head(toServer).size)

HNext ==
  \/ UserResizesWindow
  \/ (ObligingServer \/ HandleUpdate) /\ UNCHANGED wanted

HSpec ==
  /\ HInit /\ [][HNext]_<<vars, wanted>>
  /\ WF_vars(HandleUpdate)
  /\ WF_vars(Server)

\* The README says that, while zooming is disabled, resizing the window changes
\* the resolution of the desktop: with a server that carries out every
\* SetDesktopSize and has no resizes of its own, the desktop ends up with the
\* size that the user gave the window last.
DesktopFollowsUser == (wanted # desktop.size) ~> (wanted = desktop.size)
===============================================================================
