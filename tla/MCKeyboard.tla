----------------------------- MODULE MCKeyboard -----------------------------
(***************************************************************************)
(* Instances of Keyboard for TLC.                                          *)
(***************************************************************************)
EXTENDS Keyboard

(* A letter, a digit, both kinds of modifiers, and the keys with the longest *)
(* codes, which contain the codes of others.                                 *)
SomeKeys == {"a", "two", "shift", "caps", "print", "pause"}
=============================================================================
