--------------------------- MODULE BlockAllocator ---------------------------
(***************************************************************************)
(* What a heap promises its callers, with no list, header or page in it:   *)
(* a region that may grow, and blocks handed out of it that never overlap, *)
(* never leave the region, never move and never change size while they are *)
(* out.  Module Heap implements it.                                        *)
(***************************************************************************)
EXTENDS Integers

CONSTANT Base      \* first address of the region

VARIABLES
  blocks,          \* the blocks handed out, each [base, size]
  limit            \* first address beyond the region

avars == <<blocks, limit>>

(* Two blocks share no address. *)
Disjoint(b, c) == b.base + b.size <= c.base \/ c.base + c.size <= b.base

Init == blocks = {} /\ limit = Base

(* Hand out one more block, anywhere inside the region that is not in use. *)
Allocate ==
  \E b \in blocks' :
    /\ b \notin blocks
    /\ blocks' = blocks \cup {b}
    /\ b.size > 0
    /\ Base <= b.base /\ b.base + b.size <= limit
    /\ \A c \in blocks : Disjoint(b, c)
    /\ UNCHANGED limit

(* Take one block back. *)
Release == \E b \in blocks : blocks' = blocks \ {b} /\ UNCHANGED limit

(* The region grows; the blocks stay where they are. *)
Extend == limit' > limit /\ UNCHANGED blocks

Next == Allocate \/ Release \/ Extend

Spec == Init /\ [][Next]_avars
=============================================================================
