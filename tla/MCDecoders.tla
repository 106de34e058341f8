------------------------------ MODULE MCDecoders ------------------------------
(***************************************************************************)
(* The decoders of HandleRFBServerMessage() that keep state, for sessions  *)
(* whose server uses one family of encodings.  The copied rectangle starts *)
(* from a framebuffer whose pixels are all different.                      *)
(***************************************************************************)
EXTENDS CopyRect, ZlibRects, TileRects

VARIABLE family   \* of encodings: "copy", "zlib" or "tiles"; "none" after a copy

decoderVars == <<copyVars, zlibVars, tileVars, family>>

DecodersInit ==
  /\ family \in {"copy", "zlib", "tiles"}
  /\ CopyInit /\ ZlibInit /\ TileInit

CopyRectRect ==
  /\ \/ /\ family = "copy" /\ family' = "none"
        /\ \E r \in Rects : CopyRectangleFromRectangle(r)
     \/ CopySteps /\ UNCHANGED family
  /\ UNCHANGED <<zlibVars, tileVars>>

ZlibRect == family = "zlib" /\ HandleRect /\ UNCHANGED <<copyVars, tileVars, family>>
ZlibLoop == TightLoop /\ UNCHANGED <<copyVars, tileVars, family>>

TileRect == family = "tiles" /\ TileNext /\ UNCHANGED <<copyVars, zlibVars, family>>

DecodersNext == CopyRectRect \/ ZlibRect \/ ZlibLoop \/ TileRect

DecodersSpec ==
  DecodersInit /\ [][DecodersNext]_decoderVars /\ WF_decoderVars(ZlibLoop)
===============================================================================
