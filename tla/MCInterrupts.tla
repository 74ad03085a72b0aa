--------------------------- MODULE MCInterrupts ---------------------------
(* Bytes of two values, so that every other addition carries; main, two      *)
(* handlers one in the other and an NMI on top.                              *)
EXTENDS Interrupts

MCForms == Form
============================================================================
