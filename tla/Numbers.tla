------------------------------ MODULE Numbers ------------------------------
(***************************************************************************)
(* The digits of numbers: monitor_put_dec() and monitor_put_hex() of       *)
(* src/src/drivers/monitor.c, len() and pow() of src/src/lib/functions.c   *)
(* and the loops of its puts().  A digit is its value.                     *)
(***************************************************************************)
EXTENDS Integers, Sequences, SequencesExt

CONSTANTS
  WORD32,       \* 2^32
  WORD64        \* 2^64

ASSUME NumbersAssumption ==
  /\ WORD32 \in Nat \ {0} /\ WORD64 \in Nat /\ WORD32 <= WORD64

-----------------------------------------------------------------------------
(* Definitions named Name_Fault are faulty variants of Name: each breaks one *)
(* of the properties of Puts.                                                *)

(* monitor_put_dec and monitor_put_hex: the digits from the last to the      *)
(* first, then printed in reverse.                                           *)
Reversed(n, b) ==
  LET from[m \in 0 .. n] == IF m = 0 THEN << >> ELSE <<m % b>> \o from[m \div b]
  IN  from[n]

PutDec(n) == IF n = 0 THEN <<0>> ELSE Reverse(Reversed(n, 10))

PutHex(n) == IF n = 0 THEN <<0>> ELSE Reverse(Reversed(n % WORD32, 16))

(* len(n, n, b) *)
Length(n, b) ==
  LET of[m \in 0 .. n] == IF m = 0 THEN 0 ELSE 1 + of[m \div b]
  IN  IF n = 0 THEN 1 ELSE of[n]

(* puts: the digits from the first to the last, each divided out. *)
Divided_OddBase(n, b) ==
  [i \in 1 .. Length(n, b) |-> (n \div b ^ (Length(n, b) - i)) % (b - 1)]

Divided(n, b) ==
  [i \in 1 .. Length(n, b) |-> (n \div b ^ (Length(n, b) - i)) % b]

-----------------------------------------------------------------------------
Read(text, b) == FoldLeft(LAMBDA sum, d : sum * b + d, 0, text)

(* What is read is the number, written without superfluous zeros. *)
Canonical(digits, n, b) ==
  /\ \A i \in 1 .. Len(digits) : digits[i] \in 0 .. b - 1
  /\ Read(digits, b) = n
  /\ Len(digits) > 1 => digits[1] # 0
=============================================================================
