------------------------------- MODULE MCVMM -------------------------------
(***************************************************************************)
(* Instances of VMM for TLC, with four entries in a table.                 *)
(***************************************************************************)
EXTENDS VMM

(* Usable, reserved, ACPI, usable; the first megabyte ends with page 4, and  *)
(* page 1 is the screen.                                                     *)
MapUpTo(end) ==
  <<[base |-> 0, length |-> 2, type |-> 1], [base |-> 2, length |-> 2, type |-> 2],
    [base |-> 4, length |-> 1, type |-> 3], [base |-> 5, length |-> end - 5, type |-> 1]>>

SmallMap == MapUpTo(28)

(* 4 has all its tables, 29 needs a new one. *)
TwoWindows == {4, 29}
KernelAndUser == {KERNEL_PAGE, USER_PAGE}
=============================================================================
