------------------------------- MODULE MCHeap -------------------------------
(***************************************************************************)
(* Instances of Heap for TLC.  Lengths keep the kernel's proportions: a    *)
(* header is two grains; a page is 8 grains, so that a few requests fill   *)
(* one.                                                                    *)
(***************************************************************************)
EXTENDS Heap

(* 0 returns at once; 3 is rounded up to two grains; 12 is all that a page   *)
(* can hold; 14 leaves no room for a header in the pages the heap grows by.  *)
AllRequests == {0, 3, 12, 14}

SmallElements == {1, 2}
=============================================================================
