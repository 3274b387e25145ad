---------------------------- MODULE MCVioManager ----------------------------
(***************************************************************************)
(* VioManager on a few images: one camera and two features competing for   *)
(* one place as landmark and one in the MSCKF update, or two cameras and   *)
(* one feature.                                                            *)
(***************************************************************************)
EXTENDS VioManager

CONSTANTS f1, f2

OneCamera(ordered, try_zupt) ==
  [ordered |-> ordered, try_zupt |-> try_zupt, cams |-> {0}, feats |-> {f1, f2}, last |-> 7]

TwoCameras(ordered, try_zupt) ==
  [ordered |-> ordered, try_zupt |-> try_zupt, cams |-> {0, 1}, feats |-> {f1}, last |-> 4]

\* One camera moving or standing still; two with late images or standing still.
MCSettings ==
  {OneCamera(TRUE, FALSE), OneCamera(TRUE, TRUE), TwoCameras(FALSE, FALSE), TwoCameras(TRUE, TRUE)}

LateAndStill == {TwoCameras(FALSE, TRUE)}
=============================================================================
