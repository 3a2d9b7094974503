----------------------------- MODULE MCMonitor -----------------------------
(***************************************************************************)
(* Monitor for TLC: a screen of two rows of four columns.                  *)
(***************************************************************************)
EXTENDS Monitor

OneLetter == {BLANK, "a"}
=============================================================================
