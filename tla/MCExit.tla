------------------------------ MODULE MCExit ------------------------------
(* Two functions, lists of two, two files. *)
EXTENDS Exit
============================================================================
