--------------------------- MODULE MCInitializer ---------------------------
(* Two features of one camera, whose order matters, or one of two cameras. *)
(* A period of 2 keeps the poses of a window of 6 apart.                   *)
EXTENDS Initializer

CONSTANT c0, c1

MCViews == {[c \in {c0} |-> {1, 2}], [c \in {c0, c1} |-> {1}]}
=============================================================================
