------------------------------ MODULE MCMessage ------------------------------
(* Small instances of KMessage for TLC.                                     *)
EXTENDS KMessage

CONSTANTS a, b, c
=============================================================================
