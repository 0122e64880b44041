------------------------- MODULE MCSegmentedTraining -------------------------
(* A task of three aspects and six turns.  The context holds about three turns, *)
(* so that a second fragment is common and a third one occurs; one size of      *)
(* observation stays within the reserve kept for it and the other does not.     *)
EXTENDS SegmentedTraining

MCActorSizes == {1, 2}
MCToolSizes == {1, 5}
MCGains == {1, 2}

===============================================================================
