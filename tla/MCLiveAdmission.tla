--------------------------- MODULE MCLiveAdmission ---------------------------
(* Three readers competing for two Live Reader slots. *)
EXTENDS LiveAdmission, TLC

CONSTANTS c1, c2, c3

MCConn == {c1, c2, c3}
=============================================================================
