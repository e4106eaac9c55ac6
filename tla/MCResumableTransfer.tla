------------------------ MODULE MCResumableTransfer -------------------------
(* Instances of ResumableTransfer for TLC; the .cfg files give the values. *)
EXTENDS ResumableTransfer
=============================================================================
