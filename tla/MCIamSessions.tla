--------------------------- MODULE MCIamSessions ---------------------------
(* Instances of IamSessions for TLC.                                       *)
EXTENDS IamSessions
=============================================================================
