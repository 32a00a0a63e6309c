----------------------------- MODULE MCIssuePair -----------------------------
(* IssuePair on a small instance: two requests per certificate. *)
EXTENDS IssuePair, TLC

(* The directories are named <name>-ecdsa and <name>-rsa and walked in the   *)
(* order of their names.                                                     *)
ByName == <<"ecdsa", "rsa">>

(* A run may end anywhere but between the removal of pending/ and the save   *)
(* of the record.                                                            *)
KeyKept == Steps \ {"idle", "save"}
=============================================================================
