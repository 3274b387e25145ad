----------------------------- MODULE MCTrackers -----------------------------
(***************************************************************************)
(* Small images for the trackers.                                          *)
(***************************************************************************)
EXTENDS Trackers

MCPlaces == Cells \cup {Outside}

MCImages == <<4, 2, 3>>

MCMasks == {[c \in Cams |-> {}], [c \in Cams |-> IF c = 0 THEN {2} ELSE {}],
            [c \in Cams |-> IF c = 0 THEN {} ELSE {2}]}
=============================================================================
