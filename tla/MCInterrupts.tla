---------------------------- MODULE MCInterrupts ----------------------------
(***************************************************************************)
(* Instances of Interrupts for TLC: the timer on line 0, the keyboard on   *)
(* line 1 and two vectors for them.                                        *)
(***************************************************************************)
EXTENDS Interrupts

AnyMasks == SUBSET LINES
=============================================================================
