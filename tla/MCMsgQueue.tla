------------------------------ MODULE MCMsgQueue ------------------------------
(* Small instances of KMsgQueue for TLC.                                     *)
EXTENDS KMsgQueue

CONSTANTS a, b, x
=============================================================================
