------------------------------- MODULE MCViewer -------------------------------
(***************************************************************************)
(* Viewer for TLC.  Input and sound only meet in the sessions and the menu *)
(* they share, so that a behaviour exercises one of the two, not both: the *)
(* states of the parts add up and are not multiplied.                      *)
(***************************************************************************)
EXTENDS Viewer

VARIABLE exercised

MCInit == Init /\ exercised \in {"input", "sound"}

MCNext ==
  /\ \/ Sessions \/ Menu
     \/ exercised = "input" /\ Events
     \/ exercised = "sound" /\ Sound
  /\ UNCHANGED exercised

MCSpec == MCInit /\ [][MCNext]_<<vars, exercised>>
===============================================================================
