--------------------------- MODULE MCStateHelper ---------------------------
(***************************************************************************)
(* StateHelper on a window of two clones, two landmarks and an aruco tag,  *)
(* and the systems of its updates for two cameras whose extrinsics and     *)
(* intrinsics are calibrated.  Blocks have different sizes so that a wrong *)
(* offset shows; extrinsics and clones are poses both, as in the code.     *)
(***************************************************************************)
EXTENDS UpdaterHelper

CONSTANTS f1, f2, tag

MCFeats      == {f1, f2, tag}
MCCalibSize  == <<2, 3, 1, 3, 1>>
MCPose       == <<2, 4>>
MCIntrinsics == <<3, 5>>
MCUpdated    == <<f1, tag>>
=============================================================================
