--------------------------- MODULE MCKernelMemory ---------------------------
(***************************************************************************)
(* An instance of KernelMemory for TLC, with four entries in a table:      *)
(* memory up to page 60 and, like the entry that make_entries_list() adds, *)
(* one more region behind a hole, in which the heap's addresses begin; the *)
(* heap goes on where a table is missing.                                  *)
(***************************************************************************)
EXTENDS KernelMemory

SmallMap ==
  <<[base |-> 0, length |-> 2, type |-> 1], [base |-> 2, length |-> 2, type |-> 2],
    [base |-> 5, length |-> 55, type |-> 1], [base |-> 80, length |-> 4, type |-> 1]>>

TwoTries == {2, 3}
HeapWindow == TwoTries \cup 81 .. 85
=============================================================================
