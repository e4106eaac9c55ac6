---------------------------- MODULE MCReceiveFile ----------------------------
(* The instance of ReceiveFile for TLC: an automatic acceptance and one by *)
(* the user.                                                               *)
EXTENDS ReceiveFile

CONSTANTS byItself, byUser
=============================================================================
