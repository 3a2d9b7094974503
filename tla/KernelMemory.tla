---------------------------- MODULE KernelMemory ----------------------------
(***************************************************************************)
(* What src/src/boot/main.c does with memory once the page frame allocator *)
(* has started: the kernel's own map, the two mappings that main() tries,  *)
(* and the heap, whose pages init_heap() and expand_heap() of              *)
(* src/src/heap/heap.c take from the allocator one by one and map behind   *)
(* each other.  Paging takes its tables from the same allocator, and the   *)
(* heap's addresses lie where the kernel's map has put something already.  *)
(*                                                                         *)
(* Nobody gives pages back, so the allocator hands out one page after the  *)
(* other: next_page of VMM stands for it.                                  *)
(***************************************************************************)
EXTENDS VMM

CONSTANTS
  TRIES,         \* the pages of pos1 and pos2
  HEAP_BASE,     \* the page of 0x10000f000
  HEAP_PAGES,    \* 256, with which the heap begins
  Lengths,       \* numbers of pages that malloc() extends it by
  MAX_PAGES,     \* bound: pages of the heap
  SPARE          \* bound: pages of memory that must be left to begin a call

ASSUME KernelMemoryAssumption ==
  /\ HEAP_BASE \in Virtual /\ HEAP_PAGES \in Nat \ {0} /\ Lengths \subseteq Nat \ {0}
  /\ MAX_PAGES \in Nat /\ HEAP_PAGES <= MAX_PAGES /\ HEAP_BASE + MAX_PAGES - 1 \in Virtual
  /\ TRIES \cap (HEAP_BASE .. HEAP_BASE + MAX_PAGES - 1) = {}
  /\ Windows = TRIES \cup (HEAP_BASE .. HEAP_BASE + MAX_PAGES - 1)
  \* The heap is neither where main() tries nor where the tables are: see the README.
  /\ PAGES <= HEAP_BASE /\ SPARE \in Nat

VARIABLES
  at,          \* "load", "try", "tried", "run", or the call in progress: "init", "expand"
  p1,          \* of main()
  untried,     \* pages that main() has still to map to it
  heap_end,
  left,        \* the loop's pages to come
  mapping,     \* the page that init_heap() has just mapped, or NULL
  backing      \* history: the page frames that the heap was given, in order

heapVars == <<at, p1, untried, heap_end, left, mapping, backing>>
kernelVars == <<vars, heapVars>>

-----------------------------------------------------------------------------
KernelInit ==
  /\ Init
  /\ at = "load" /\ p1 = NULL /\ untried = TRIES
  /\ heap_end = HEAP_BASE /\ left = 0 /\ mapping = NULL /\ backing = << >>

(* pmm_alloc_page, with memory left, and paging_map_page of what it returns. *)
MapNew(v) ==
  /\ next_page < PAGES
  /\ stack' = <<Call(v, next_page, KERNEL_PAGE)>>
  /\ next_page' = next_page + 1
  /\ UNCHANGED <<pml4, tables, loadVars, remapping, tlbVars>>

Forget(pages) ==
  /\ tlb' = [u \in DOMAIN tlb \ pages |-> tlb[u]] /\ stale' = stale \ pages
  /\ UNCHANGED <<memVars, loadVars, stack, remapping>>

Enough == next_page + SPARE <= PAGES

(* main(): the same frame behind two pages, each invalidated afterwards.     *)
TryFirst ==
  /\ Ready /\ at = "load"
  /\ \E v \in untried : MapNew(v) /\ untried' = untried \ {v}
  /\ p1' = next_page /\ at' = "try"
  /\ UNCHANGED <<heap_end, left, mapping, backing>>

TryNext ==
  /\ Ready /\ at = "try"
  /\ \E v \in untried : Map(v, p1, KERNEL_PAGE) /\ untried' = untried \ {v}
  /\ UNCHANGED <<at, p1, heap_end, left, mapping, backing>>

TryEnd ==
  /\ Ready /\ at = "try" /\ untried = {}
  /\ Forget(TRIES \cup {p1}) /\ at' = "tried"
  /\ UNCHANGED <<p1, untried, heap_end, left, mapping, backing>>

-----------------------------------------------------------------------------
(* Definitions named Name_Fault are faulty variants of Name: each breaks one *)
(* of the properties at the end of this module.                              *)

InitHeap ==
  /\ Ready /\ at = "tried" /\ Enough
  /\ at' = "init" /\ left' = HEAP_PAGES
  /\ UNCHANGED <<vars, p1, untried, heap_end, mapping, backing>>

ExpandHeap(pages) ==
  /\ Ready /\ at = "run" /\ Enough /\ Len(backing) + pages <= MAX_PAGES
  /\ at' = "expand" /\ left' = pages
  /\ UNCHANGED <<vars, p1, untried, heap_end, mapping, backing>>

(* A turn of the loop of either.  That of init_heap goes on by invalidating  *)
(* the page and the page whose address is the frame's.                       *)
NextPage_Behind ==
  /\ Ready /\ at \in {"init", "expand"} /\ left > 0 /\ mapping = NULL
  /\ MapNew(IF at = "init" THEN heap_end ELSE heap_end + 1)
  /\ backing' = Append(backing, next_page)
  /\ IF at = "init"
     THEN mapping' = next_page /\ UNCHANGED <<left, heap_end>>
     ELSE left' = left - 1 /\ heap_end' = heap_end + 1 /\ UNCHANGED mapping
  /\ UNCHANGED <<at, p1, untried>>

NextPage ==
  /\ Ready /\ at \in {"init", "expand"} /\ left > 0 /\ mapping = NULL
  /\ MapNew(heap_end)
  /\ backing' = Append(backing, next_page)
  /\ IF at = "init"
     THEN mapping' = next_page /\ UNCHANGED <<left, heap_end>>
     ELSE left' = left - 1 /\ heap_end' = heap_end + 1 /\ UNCHANGED mapping
  /\ UNCHANGED <<at, p1, untried>>

Invalidated_Frame ==
  /\ Ready /\ mapping # NULL
  /\ Forget({mapping})
  /\ mapping' = NULL /\ left' = left - 1 /\ heap_end' = heap_end + 1
  /\ UNCHANGED <<at, p1, untried, backing>>

Invalidated ==
  /\ Ready /\ mapping # NULL
  /\ Forget({heap_end, mapping})
  /\ mapping' = NULL /\ left' = left - 1 /\ heap_end' = heap_end + 1
  /\ UNCHANGED <<at, p1, untried, backing>>

HeapDone ==
  /\ Ready /\ at \in {"init", "expand"} /\ left = 0
  /\ at' = "run"
  /\ UNCHANGED <<vars, p1, untried, heap_end, left, mapping, backing>>

Paging == MapStep \/ Load \/ Sync \/ \E v \in Windows : Fill(v)

KernelNext ==
  \/ Paging /\ UNCHANGED heapVars
  \/ TryFirst \/ TryNext \/ TryEnd
  \/ InitHeap \/ (\E pages \in Lengths : ExpandHeap(pages))
  \/ NextPage \/ Invalidated \/ HeapDone

KernelSpec == KernelInit /\ [][KernelNext]_kernelVars

-----------------------------------------------------------------------------
(* The heap rests on memory of its own, although its pages and the tables    *)
(* that they take come from one allocator, in an order that depends on which *)
(* tables are there: every page of the heap leads to the frame it was given, *)
(* no other page of it does, no table is in it, and neither is the frame of  *)
(* main(); and all tables can still be reached through themselves.           *)
HeapBacked ==
  stack = << >> =>
    /\ TablesMapped
    /\ \A i \in 1 .. Len(backing) :
         /\ Translate(HEAP_BASE + i - 1) = backing[i]
         /\ backing[i] \notin DOMAIN tables \cup {p1}
         /\ \A j \in 1 .. Len(backing) : i # j => backing[i] # backing[j]
    /\ at = "run" => heap_end = HEAP_BASE + Len(backing)

(* The pages that main() and the heap have begun to use. *)
Reads ==
  (IF at \in {"load", "try"} THEN {} ELSE TRIES) \cup
  (IF at \in {"run", "expand"} THEN HEAP_BASE .. HEAP_BASE + HEAP_PAGES - 1 ELSE {})

(* When main() reads through the pages it has tried, and from the heap's     *)
(* first page on, the processor has forgotten what it may have kept of them  *)
(* from before: what it uses leads to the same place as the tables.          *)
FirstReadsFresh ==
  /\ \A v \in Reads \cap DOMAIN tlb : tlb[v] = Translate(v)
  /\ stack = << >> => \A v \in Reads \cap TRIES : Translate(v) = p1
=============================================================================
