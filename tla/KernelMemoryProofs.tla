------------------------- MODULE KernelMemoryProofs -------------------------
(***************************************************************************)
(* Theorems about KernelMemory, whose steps are steps of paging and of     *)
(* main() and the heap: the invariants of VMMProofs hold here too.         *)
(***************************************************************************)
EXTENDS KernelMemory, VMMProofs

(* A page frame that pmm_alloc_page() has handed out and that is no table.   *)
Held(next, tabs, p) == p \in FIRST_PAGE .. next - 1 /\ p \notin DOMAIN tabs

(* Page v leads to frame p, or will when the calls in progress return.       *)
Promised(root, tabs, s, v, p) ==
  /\ TranslateIn(root, tabs, v) = p \/ Awaited(s, v)
  /\ \A k \in 1 .. Len(s) : s[k].virtual = v => s[k].physical = p

(* Nothing has been written to the entry of page v since it was invalidated, *)
(* and no call will.                                                         *)
Quiet(old, s, v) == v \notin old /\ ~ Awaited(s, v)

HeapRange == HEAP_BASE .. HEAP_BASE + MAX_PAGES - 1

(* Where main() is, *)
Course ==
  /\ at \in {"load", "try", "tried", "run", "init", "expand"}
  /\ pc = "load" => at = "load"
  /\ untried \subseteq TRIES
  /\ at = "load" => untried = TRIES
  /\ at \notin {"load", "try"} => untried = {}

(* and how far the heap is: it has asked for as many pages as it has mapped, *)
(* but for one that init_heap() has still to invalidate.                     *)
Extent ==
  /\ backing \in Seq(Nat) /\ left \in Nat /\ heap_end \in Int
  /\ at \in {"load", "try", "tried"} => backing = << >>
  /\ mapping # NULL => at = "init" /\ left > 0
  /\ heap_end = HEAP_BASE + Len(backing) - (IF mapping = NULL THEN 0 ELSE 1)
  /\ at = "init" => heap_end + left = HEAP_BASE + HEAP_PAGES
  /\ at = "expand" => Len(backing) + left <= MAX_PAGES
  /\ at \in {"run", "expand"} => Len(backing) \in HEAP_PAGES .. MAX_PAGES

(* The frames of main() and the heap are different, and none is a table.     *)
Frames ==
  /\ at # "load" => Held(next_page, tables, p1)
  /\ \A i \in 1 .. Len(backing) :
       /\ Held(next_page, tables, backing[i]) /\ backing[i] # p1
       /\ \A j \in 1 .. Len(backing) : i # j => backing[i] # backing[j]

(* What has been mapped stays mapped. *)
Backed ==
  /\ \A v \in TRIES \ untried : Promised(pml4, tables, stack, v, p1)
  /\ \A i \in 1 .. Len(backing) : Promised(pml4, tables, stack, HEAP_BASE + i - 1, backing[i])

(* The pages that are in use, and those that init_heap() has finished.       *)
Used == Reads \cup (IF at = "init" THEN HEAP_BASE .. heap_end - 1 ELSE {})

Undisturbed == \A v \in Used : Quiet(stale, stack, v)

KernelInv == Inv /\ Settling /\ Course /\ Extent /\ Frames /\ Backed /\ Undisturbed

-----------------------------------------------------------------------------
(* The pages of main() and the heap.                                         *)

(* They are pages of callers, so no table is mapped there, and no page is    *)
(* main()'s and the heap's.                                                  *)
LEMMA KernelPages ==
  /\ HEAP_BASE \in Nat /\ HEAP_PAGES \in Nat \ {0} /\ MAX_PAGES \in Nat /\ HEAP_PAGES <= MAX_PAGES
  /\ TRIES \cup HeapRange \subseteq Windows /\ TRIES \cap HeapRange = {}
  /\ \A i \in 1 .. MAX_PAGES : HEAP_BASE + i - 1 \in HeapRange
  /\ \A v \in Windows : v \in Virtual /\ v \notin MayBeTables
  /\ Lengths \subseteq Nat \ {0}
<1>1. HEAP_BASE \in Nat
  BY KernelMemoryAssumption, PageNumbers
<1>2. \A v \in Windows : v \in Virtual /\ v \notin MayBeTables
  BY TablePages, PagingAssumption
<1>3. TRIES \cup HeapRange \subseteq Windows /\ TRIES \cap HeapRange = {}
  BY KernelMemoryAssumption DEF HeapRange
<1>4. \A i \in 1 .. MAX_PAGES : HEAP_BASE + i - 1 \in HeapRange
  BY <1>1, KernelMemoryAssumption DEF HeapRange
<1> QED
  BY <1>1, <1>2, <1>3, <1>4, KernelMemoryAssumption

(* What the invariant says of the variables that the steps of main() use.    *)
LEMMA KernelTypes ==
  ASSUME KernelInv
  PROVE  /\ next_page \in Nat /\ next_page \in 1 .. PAGES /\ PAGES \in Nat
         /\ FIRST_PAGE \in Nat /\ FIRST_PAGE <= next_page
         /\ DOMAIN tables \subseteq FIRST_PAGE .. next_page - 1
         /\ DOMAIN tlb \subseteq Windows /\ stale \subseteq Virtual
         /\ Len(backing) \in Nat
<1>1. next_page \in 1 .. PAGES /\ DOMAIN tlb \subseteq Windows /\ stale \subseteq Virtual
      /\ pml4 \in DOMAIN tables
  BY DEF KernelInv, Inv, Base, TypeOK
<1>2. pml4 = FIRST_PAGE /\ DOMAIN tables \subseteq FIRST_PAGE .. next_page - 1
  BY DEF KernelInv, Inv, Base, Allotted
<1>3. PAGES \in Nat /\ FIRST_PAGE \in Nat
  BY PageNumbers
<1>4. FIRST_PAGE \in FIRST_PAGE .. next_page - 1
  BY <1>1, <1>2
<1>5. Len(backing) \in Nat
  BY DEF KernelInv, Extent
<1> QED
  BY <1>1, <1>2, <1>3, <1>4, <1>5

-----------------------------------------------------------------------------
(* Steps that start a call or forget pages, as paging sees them.             *)

(* main() or the heap calls paging_map_page, with a page just taken or not.  *)
LEMMA CallBegins ==
  ASSUME Inv, Settling, Ready, NEW v \in Windows, NEW p \in Nat,
         stack' = <<Call(v, p, KERNEL_PAGE)>>, next_page' \in next_page .. PAGES,
         UNCHANGED <<pml4, tables, pc, loaded, cr3, remapping, tlb, stale>>
  PROVE  Inv' /\ Settling'
<1> USE DEF Inv
<1>1. Memory /\ Calls /\ Others /\ DOMAIN tlb \subseteq Virtual
  BY BaseParts, PagingAssumption DEF Others
<1>2. WellFormed(pml4, tables)
  BY <1>1 DEF Memory
<1>3. /\ Changes(pml4, tables, tables', {}) /\ Changes(pml4, tables, tables', {v})
      /\ DOMAIN tables' = DOMAIN tables /\ WellFormed(pml4, tables') /\ WellFormed(pml4', tables')
  BY Zenon, <1>2, ChangesNothing
<1>4. Memory'
  <2>1. /\ next_page \in 1 .. PAGES /\ PAGES \in Nat /\ FIRST_PAGE \in Nat
        /\ DOMAIN tables \subseteq FIRST_PAGE .. next_page - 1
    BY <1>1, PageNumbers DEF Memory, Allotted
  <2>2. next_page' \in 1 .. PAGES /\ DOMAIN tables \subseteq FIRST_PAGE .. next_page' - 1
    BY <2>1
  <2>3. Allotted'
    BY <1>1, <2>2 DEF Memory, Allotted
  <2> QED
    BY <1>1, <1>3, <2>2, <2>3 DEF Memory
<1>5. Others'
  BY <1>1 DEF Others
<1>6. Calls'
  <2>1. v \in Virtual
    BY PagingAssumption
  <2>2. KERNEL_PAGE \in SUBSET USER_PAGE /\ PRESENT \in KERNEL_PAGE
    BY DEF KERNEL_PAGE, USER_PAGE
  <2> QED
    BY <1>3, <2>1, <2>2, CallsBegin
<1>7. Reached'
  BY <1>3, ReachedStays
<1>8. Fresh'
  BY <1>1, <1>3, FreshStays
<1>9. Homes'
  BY CallersHomes DEF Ready
<1>10. Settling'
  BY <1>3, <1>9, CallersSettle
<1> QED
  BY <1>4, <1>5, <1>6, <1>7, <1>8, <1>10, BasePartsNext

(* main() or the heap invalidates pages.                                     *)
LEMMA ForgetStays ==
  ASSUME Inv, Settling, NEW pages, Forget(pages)
  PROVE  /\ Inv' /\ Settling' /\ stale' = stale \ pages
         /\ UNCHANGED <<pml4, tables, next_page, pc, stack>>
<1> USE DEF Inv
<1>1. /\ UNCHANGED <<pml4, tables, next_page, pc, loaded, cr3, stack, remapping>>
      /\ tlb' = [u \in DOMAIN tlb \ pages |-> tlb[u]] /\ stale' = stale \ pages
  BY Zenon DEF Forget, memVars, loadVars
<1>2. Memory /\ Calls /\ Others /\ DOMAIN tlb \subseteq Virtual
  BY BaseParts, PagingAssumption DEF Others
<1>3. WellFormed(pml4, tables)
  BY <1>2 DEF Memory
<1>4. Changes(pml4, tables, tables', {}) /\ DOMAIN tables' = DOMAIN tables
  BY Zenon, <1>1, <1>3, ChangesNothing
<1>5. Memory'
  BY <1>1, <1>4, MemoryStays
<1>6. Calls'
  BY <1>1, <1>4, CallsStay
<1>7. Reached'
  BY <1>1, <1>4, ReachedStays
<1>8. Others'
  BY <1>1, <1>2 DEF Others
<1>9. Fresh'
  <2>1. \A u \in DOMAIN tlb' \ stale' : u \in DOMAIN tlb \ stale /\ tlb'[u] = tlb[u] /\ u \notin {}
    BY <1>1
  <2> QED
    BY <1>1, <1>2, <1>4, <2>1, FreshStays
<1>10. Settling'
  BY <1>1, StaysSettled
<1> QED
  BY <1>1, <1>5, <1>6, <1>7, <1>8, <1>9, <1>10, BasePartsNext

-----------------------------------------------------------------------------
(* What the steps of paging do to the pages of main() and the heap.          *)

(* The calls in progress go on, return or call themselves for a new table.   *)
LEMMA PagingCalls ==
  ASSUME Inv, Settling, pc = "ready", Paging, NEW v \in Windows
  PROVE  /\ Quiet(stale, stack, v) => Quiet(stale', stack', v)
         /\ \A p : Promised(pml4, tables, stack, v, p) => Promised(pml4, tables', stack', v, p)
         /\ pml4' = pml4 /\ pc' = "ready" /\ DOMAIN tables' \subseteq DOMAIN tables \cup {next_page}
         /\ next_page' \in {next_page, next_page + 1}
         /\ DOMAIN tables' # DOMAIN tables => next_page' = next_page + 1
<1> DEFINE Goal ==
             /\ Quiet(stale, stack, v) => Quiet(stale', stack', v)
             /\ \A p : Promised(pml4, tables, stack, v, p) => Promised(pml4, tables', stack', v, p)
             /\ pml4' = pml4 /\ pc' = "ready" /\ DOMAIN tables' \subseteq DOMAIN tables \cup {next_page}
             /\ next_page' \in {next_page, next_page + 1}
             /\ DOMAIN tables' # DOMAIN tables => next_page' = next_page + 1
<1>1. v \in Virtual /\ v \notin MayBeTables
  BY KernelPages
<1>2. stack \in Seq(Frame) /\ Len(stack) \in Nat
  BY DEF Inv, Base, TypeOK
<1>3. CASE Descend
  <2>1. /\ Changes(pml4, tables, tables', {}) /\ DOMAIN tables' = DOMAIN tables
        /\ \E t \in DOMAIN tables : stack' = Moved(stack, t)
        /\ stack # << >> /\ Top.level > 1
    BY <1>3, DescendStep DEF Inv
  <2>2. UNCHANGED <<pml4, next_page, pc, stale>>
    BY Zenon, <1>3 DEF Descend, loadVars, tlbVars
  <2>3. stack[Len(stack)] = Top
    BY <2>1, TopIs DEF Inv, Base, TypeOK
  <2>4. /\ Len(stack') = Len(stack)
        /\ \A i \in 1 .. Len(stack) : /\ stack'[i].virtual = stack[i].virtual
                                      /\ stack'[i].physical = stack[i].physical
    <3>1. PICK t \in DOMAIN tables : stack' = Moved(stack, t)
      BY <2>1
    <3>2. t \in Nat
      BY DEF Inv, Base, TypeOK
    <3> QED
      BY <1>2, <2>1, <2>3, <3>1, <3>2, MovedIs, MovedKeeps
  <2>5. TranslateIn(pml4, tables', v) = TranslateIn(pml4, tables, v)
    BY <1>1, <2>1, ChangesKeep
  <2>6. Awaited(stack', v) <=> Awaited(stack, v)
    BY <2>4 DEF Awaited
  <2>7. \A p : Promised(pml4, tables, stack, v, p) => Promised(pml4, tables', stack', v, p)
    BY <2>2, <2>4, <2>5, <2>6 DEF Promised
  <2> QED
    BY <2>1, <2>2, <2>6, <2>7 DEF Quiet
<1>4. CASE Grow
  <2> DEFINE new == next_page
             moved == Moved(stack, new)
             f == Call(new, new, KERNEL_PAGE)
  <2>1. /\ Changes(pml4, tables, tables', {})
        /\ DOMAIN tables' = DOMAIN tables \cup {new}
        /\ new \in FIRST_PAGE .. PAGES - 1 /\ new \in Nat
        /\ stack' = Append(moved, f)
        /\ stack # << >> /\ Top.level > 1
    BY <1>4, GrowStep DEF Inv
  <2>2. UNCHANGED <<pml4, pc, stale>> /\ next_page' = next_page + 1
    BY Zenon, <1>4 DEF Grow, loadVars, tlbVars
  <2>3. stack[Len(stack)] = Top
    BY <2>1, TopIs DEF Inv, Base, TypeOK
  <2>4. f.virtual = new /\ new # v
    BY <1>1, <2>1 DEF Call, MayBeTables
  <2>5. /\ moved \in Seq(Frame) /\ Len(moved) = Len(stack)
        /\ \A i \in 1 .. Len(stack) : /\ moved[i].virtual = stack[i].virtual
                                      /\ moved[i].physical = stack[i].physical
    BY <1>2, <2>1, <2>3, MovedIs, MovedKeeps
  <2> HIDE DEF moved, f
  <2>6. /\ Len(stack') = Len(stack) + 1 /\ stack'[Len(stack) + 1] = f
        /\ \A i \in 1 .. Len(stack) : stack'[i] = moved[i]
    BY <1>2, <2>1, <2>5
  <2>7. /\ \A i \in 1 .. Len(stack') : i = Len(stack) + 1 \/ i \in 1 .. Len(stack)
        /\ \A i \in 1 .. Len(stack) : i \in 1 .. Len(stack')
    BY <1>2, <2>6
  <2>8. TranslateIn(pml4, tables', v) = TranslateIn(pml4, tables, v)
    BY <1>1, <2>1, ChangesKeep
  <2>9. Awaited(stack', v) <=> Awaited(stack, v)
    BY <2>4, <2>5, <2>6, <2>7 DEF Awaited
  <2>10. \A k \in 1 .. Len(stack') : stack'[k].virtual = v =>
           k \in 1 .. Len(stack) /\ stack[k].virtual = v /\ stack'[k].physical = stack[k].physical
    BY <2>4, <2>5, <2>6, <2>7
  <2>11. \A p : Promised(pml4, tables, stack, v, p) => Promised(pml4, tables', stack', v, p)
    BY <2>2, <2>8, <2>9, <2>10 DEF Promised
  <2> QED
    BY <2>1, <2>2, <2>9, <2>11 DEF Quiet
<1>5. CASE MapLeaf
  <2> DEFINE u == Top.virtual
  <2>1. /\ Changes(pml4, tables, tables', {u}) /\ DOMAIN tables' = DOMAIN tables
        /\ TranslateIn(pml4, tables', u) = Top.physical
        /\ stack # << >> /\ stack' = Front(stack) /\ u \in Virtual
    BY <1>5, MapLeafStep DEF Inv
  <2>2. UNCHANGED <<pml4, next_page, pc>> /\ stale' \subseteq stale \cup {u}
    BY <1>5 DEF MapLeaf, loadVars
  <2>3. /\ Len(stack) \in Nat \ {0} /\ stack[Len(stack)] = Top
        /\ Len(stack') = Len(stack) - 1
        /\ \A i \in 1 .. Len(stack) - 1 : stack'[i] = stack[i]
    BY <2>1, TopIs DEF Inv, Base, TypeOK
  <2>4. /\ \A i \in 1 .. Len(stack') : i \in 1 .. Len(stack) - 1 /\ i \in 1 .. Len(stack)
        /\ \A i \in 1 .. Len(stack) : i = Len(stack) \/ (i \in 1 .. Len(stack) - 1 /\ i \in 1 .. Len(stack'))
        /\ Len(stack) \in 1 .. Len(stack)
    BY <2>3
  <2>5. Awaited(stack', v) => Awaited(stack, v)
    BY <2>3, <2>4 DEF Awaited
  <2>6. u = v => Awaited(stack, v)
    BY <2>3, <2>4 DEF Awaited
  <2>7. v # u /\ Awaited(stack, v) => Awaited(stack', v)
    BY <2>3, <2>4 DEF Awaited
  <2>8. v # u => TranslateIn(pml4, tables', v) = TranslateIn(pml4, tables, v)
    <3> HIDE DEF u
    <3>1. \A w \in Virtual \ {u} : TranslateIn(pml4, tables', w) = TranslateIn(pml4, tables, w)
      BY <2>1, ChangesKeep
    <3> QED
      BY <1>1, <3>1
  <2>9. ASSUME NEW p, Promised(pml4, tables, stack, v, p) PROVE Promised(pml4, tables', stack', v, p)
    <3>1. \A k \in 1 .. Len(stack') : stack'[k].virtual = v => stack'[k].physical = p
      BY <2>3, <2>4, <2>9 DEF Promised
    <3>2. TranslateIn(pml4, tables', v) = p \/ Awaited(stack', v)
      <4>1. CASE v = u
        <5>1. Top.physical = p
          BY <2>3, <2>4, <2>9, <4>1 DEF Promised
        <5> QED
          BY <2>1, <4>1, <5>1
      <4>2. CASE v # u
        BY <2>7, <2>8, <2>9, <4>2 DEF Promised
      <4> QED
        BY <4>1, <4>2
    <3> QED
      BY <2>2, <3>1, <3>2 DEF Promised
  <2> HIDE DEF u
  <2> QED
    BY <2>1, <2>2, <2>5, <2>6, <2>9 DEF Quiet
<1>6. CASE \E w \in Windows : Fill(w)
  <2>1. UNCHANGED <<pml4, tables, next_page, pc, stack, stale>>
    BY Zenon, <1>6 DEF Fill, memVars, loadVars
  <2>2. \A p : Promised(pml4, tables, stack, v, p) => Promised(pml4, tables', stack', v, p)
    BY Zenon, <2>1
  <2> QED
    BY <2>1, <2>2
<1>7. ~ Load /\ ~ Sync
  BY DEF Load, Sync
<1> HIDE DEF Goal
<1>8. Goal
  BY <1>3, <1>4, <1>5, <1>6, <1>7 DEF Paging, MapStep, Goal
<1> QED
  BY <1>8 DEF Goal

(* The tables that paging takes are pages that nobody holds.                 *)
LEMMA HeldStays ==
  ASSUME NEW next \in Nat, NEW next2 \in Nat, next <= next2, NEW tabs, NEW tabs2,
         DOMAIN tabs2 \subseteq DOMAIN tabs \cup {next}
  PROVE  \A p : Held(next, tabs, p) => Held(next2, tabs2, p)
<1> SUFFICES ASSUME NEW p, Held(next, tabs, p) PROVE Held(next2, tabs2, p)
  OBVIOUS
<1>1. p \in FIRST_PAGE .. next - 1 /\ p \notin DOMAIN tabs
  BY DEF Held
<1>2. FIRST_PAGE \in Nat
  BY PageNumbers
<1>3. p # next /\ p \in FIRST_PAGE .. next2 - 1
  BY <1>1, <1>2
<1> QED
  BY <1>1, <1>3 DEF Held

(* Where the pages of main() and the heap are.                               *)
LEMMA KernelWindow ==
  ASSUME KernelInv
  PROVE  /\ Len(backing) \in 0 .. MAX_PAGES
         /\ \A i \in 1 .. Len(backing) : HEAP_BASE + i - 1 \in Windows
         /\ \A v \in TRIES : v \in Windows
         /\ \A v \in Used : v \in Windows
<1> USE DEF KernelInv
<1>1. Len(backing) \in 0 .. MAX_PAGES
  <2>1. Len(backing) \in Nat
    BY DEF Extent
  <2>2. CASE at = "init"
    BY <2>1, <2>2, KernelPages DEF Extent
  <2>3. CASE at \in {"load", "try", "tried"}
    BY <2>3, KernelPages DEF Extent
  <2>4. CASE at \in {"run", "expand"}
    BY <2>1, <2>4, KernelPages DEF Extent
  <2> QED
    BY <2>2, <2>3, <2>4 DEF Course
<1>2. \A i \in 1 .. Len(backing) : i \in 1 .. MAX_PAGES
  BY <1>1, KernelPages
<1>3. \A i \in 1 .. Len(backing) : HEAP_BASE + i - 1 \in Windows
  BY <1>2, KernelPages
<1>4. HEAP_BASE .. HEAP_BASE + HEAP_PAGES - 1 \subseteq HeapRange
  BY KernelPages DEF HeapRange
<1>5. at = "init" => HEAP_BASE .. heap_end - 1 \subseteq HeapRange
  BY KernelPages DEF HeapRange, Extent
<1>6. \A v \in Used : v \in Windows
  BY <1>4, <1>5, KernelPages DEF Used, Reads
<1> QED
  BY <1>1, <1>3, <1>6, KernelPages

(* The call just begun promises its page, and leaves other pages alone.      *)
LEMMA CallPromises ==
  ASSUME NEW root, NEW tabs, NEW old, NEW v, NEW p
  PROVE  LET s == <<Call(v, p, KERNEL_PAGE)>>
         IN  /\ Promised(root, tabs, s, v, p)
             /\ \A u, q : u # v /\ Promised(root, tabs, << >>, u, q) => Promised(root, tabs, s, u, q)
             /\ \A u : u # v /\ Quiet(old, << >>, u) => Quiet(old, s, u)
<1> DEFINE f == Call(v, p, KERNEL_PAGE)
           s == <<f>>
<1>1. f.virtual = v /\ f.physical = p
  BY DEF Call
<1> HIDE DEF f
<1>2. Len(s) = 1 /\ s[1] = f /\ \A i : i \in 1 .. 1 <=> i = 1
  OBVIOUS
<1>3. \A u : Awaited(s, u) <=> u = v
  BY <1>1, <1>2 DEF Awaited
<1>4. \A u : ~ Awaited(<< >>, u)
  BY DEF Awaited
<1>5. Promised(root, tabs, s, v, p)
  BY <1>1, <1>2, <1>3 DEF Promised
<1>6. \A u, q : u # v /\ Promised(root, tabs, << >>, u, q) => Promised(root, tabs, s, u, q)
  BY <1>1, <1>2, <1>4 DEF Promised
<1>7. \A u : u # v /\ Quiet(old, << >>, u) => Quiet(old, s, u)
  BY <1>3 DEF Quiet
<1> QED
  BY <1>5, <1>6, <1>7 DEF f

-----------------------------------------------------------------------------
(* Every step keeps the invariant.                                           *)

(* Paging goes on: tables come from pages that nobody holds, and calls serve *)
(* the pages that were asked for.                                            *)
LEMMA PagingKeeps == ASSUME KernelInv, Paging, UNCHANGED heapVars PROVE KernelInv'
<1>1. Inv /\ Settling /\ pc \in {"load", "ready"}
  BY DEF KernelInv, Inv, Base, TypeOK
<1>2. UNCHANGED <<at, p1, untried, heap_end, left, mapping, backing>>
  BY Zenon DEF heapVars
<1>3. Inv' /\ Settling'
  <2>1. CASE Descend
    BY <1>1, <2>1, DescendInv, DescendSettles
  <2>2. CASE Grow
    BY <1>1, <2>2, GrowInv, GrowSettles
  <2>3. CASE MapLeaf
    BY <1>1, <2>3, MapLeafInv, MapLeafSettles
  <2>4. CASE Load
    BY <1>1, <2>4, LoadInv, LoadSettles
  <2>5. CASE Sync
    BY <1>1, <2>5, SyncInv, SyncSettles
  <2>6. ASSUME NEW v \in Windows, Fill(v) PROVE Inv' /\ Settling'
    <3>1. UNCHANGED <<pml4, tables, pc, loaded, cr3, stack>>
      BY Zenon, <2>6 DEF Fill, memVars, loadVars
    <3> QED
      BY <1>1, <2>6, <3>1, ProcessorInv, StaysSettled
  <2> QED
    BY Zenon, <2>1, <2>2, <2>3, <2>4, <2>5, <2>6 DEF Paging, MapStep
<1>4. Extent'
  BY <1>2 DEF KernelInv, Extent
<1>5. CASE pc = "load"
  <2>1. at = "load" /\ untried = TRIES /\ backing = << >>
    BY <1>5 DEF KernelInv, Course, Extent
  <2>2. Course'
    BY <1>2, <2>1 DEF KernelInv, Course
  <2>3. Frames' /\ Backed'
    BY <1>2, <2>1 DEF Frames, Backed
  <2>4. Undisturbed'
    BY <1>2, <2>1 DEF Undisturbed, Used, Reads
  <2> QED
    BY <1>3, <1>4, <2>2, <2>3, <2>4 DEF KernelInv
<1>6. CASE pc = "ready"
  <2>1. \A v \in Windows :
          /\ Quiet(stale, stack, v) => Quiet(stale', stack', v)
          /\ \A p : Promised(pml4, tables, stack, v, p) => Promised(pml4, tables', stack', v, p)
    BY <1>1, <1>6, PagingCalls
  <2>2. pml4' = pml4 /\ pc' = "ready"
    BY <1>6 DEF Paging, MapStep, Descend, Grow, MapLeaf, Load, Sync, Fill, loadVars, memVars
  <2>3. Course'
    BY <1>2, <2>2 DEF KernelInv, Course
  <2>4. Frames'
    <3>1. DOMAIN tables' \subseteq DOMAIN tables \cup {next_page}
          /\ next_page' \in {next_page, next_page + 1}
      <4>1. PICK v : v \in Windows
        BY KernelPages, KernelMemoryAssumption DEF HeapRange
      <4> QED
        BY <1>1, <1>6, <4>1, PagingCalls
    <3>2. next_page \in Nat /\ next_page' \in Nat /\ next_page <= next_page'
      BY <3>1, KernelTypes
    <3>3. \A p : Held(next_page, tables, p) => Held(next_page', tables', p)
      BY <3>1, <3>2, HeldStays
    <3> QED
      BY <1>2, <3>3 DEF KernelInv, Frames
  <2>5. Backed'
    <3>1. \A i \in 1 .. Len(backing) : HEAP_BASE + i - 1 \in Windows
      BY KernelWindow
    <3>2. \A v \in TRIES : v \in Windows
      BY KernelWindow
    <3>3. \A v \in TRIES \ untried : Promised(pml4, tables', stack', v, p1)
      BY <2>1, <3>2 DEF KernelInv, Backed
    <3>4. \A i \in 1 .. Len(backing) : Promised(pml4, tables', stack', HEAP_BASE + i - 1, backing[i])
      BY <2>1, <3>1 DEF KernelInv, Backed
    <3> QED
      BY Zenon, <1>2, <2>2, <3>3, <3>4 DEF Backed
  <2>6. Undisturbed'
    <3>1. Used' = Used
      BY Zenon, <1>2 DEF Used, Reads
    <3>2. \A v \in Used : Quiet(stale', stack', v)
      BY <2>1, KernelWindow DEF KernelInv, Undisturbed
    <3> QED
      BY Zenon, <3>1, <3>2 DEF Undisturbed
  <2> QED
    BY <1>3, <1>4, <2>3, <2>4, <2>5, <2>6 DEF KernelInv
<1> QED
  BY <1>1, <1>5, <1>6

(* main() maps the frame that it has just been given.                        *)
LEMMA TryFirstKeeps == ASSUME KernelInv, TryFirst PROVE KernelInv'
<1>1. PICK v \in untried : /\ MapNew(v) /\ untried' = untried \ {v}
  BY DEF TryFirst
<1>2. /\ Ready /\ at = "load" /\ p1' = next_page /\ at' = "try"
      /\ UNCHANGED <<heap_end, left, mapping, backing>>
  BY DEF TryFirst
<1>3. /\ next_page < PAGES /\ stack' = <<Call(v, next_page, KERNEL_PAGE)>>
      /\ next_page' = next_page + 1
      /\ UNCHANGED <<pml4, tables, pc, loaded, cr3, remapping, tlb, stale>>
  BY Zenon, <1>1 DEF MapNew, loadVars, tlbVars
<1>4. untried = TRIES /\ backing = << >> /\ mapping = NULL /\ v \in Windows
  BY <1>2, KernelWindow DEF KernelInv, Course, Extent
<1>5. /\ next_page \in Nat /\ PAGES \in Nat /\ FIRST_PAGE \in Nat /\ FIRST_PAGE <= next_page
      /\ DOMAIN tables \subseteq FIRST_PAGE .. next_page - 1
  BY KernelTypes
<1>6. Inv' /\ Settling'
  <2>1. next_page' \in next_page .. PAGES
    BY <1>3, <1>5
  <2> QED
    BY <1>2, <1>3, <1>4, <1>5, <2>1, CallBegins DEF KernelInv
<1>7. Course'
  BY <1>1, <1>2, <1>3, <1>4 DEF Course, Ready
<1>8. Extent'
  BY <1>2, <1>4 DEF KernelInv, Extent
<1>9. Frames'
  <2>1. Held(next_page', tables', p1')
    BY <1>2, <1>3, <1>5 DEF Held
  <2> QED
    BY <1>2, <1>4, <2>1 DEF Frames
<1>10. Backed'
  <2>1. Promised(pml4, tables, stack', v, next_page)
    BY Zenon, <1>3, CallPromises
  <2>2. \A u \in TRIES \ untried' : u = v
    BY <1>1, <1>4
  <2>3. \A u \in TRIES \ untried' : Promised(pml4', tables', stack', u, p1')
    BY Zenon, <1>2, <1>3, <2>1, <2>2
  <2>4. Len(backing') = 0
    BY <1>2, <1>4
  <2> QED
    BY <2>3, <2>4 DEF Backed
<1>11. Undisturbed'
  BY <1>2 DEF Undisturbed, Used, Reads
<1> QED
  BY <1>6, <1>7, <1>8, <1>9, <1>10, <1>11 DEF KernelInv

(* main() maps the same frame behind another page.                           *)
LEMMA TryNextKeeps == ASSUME KernelInv, TryNext PROVE KernelInv'
<1>1. PICK v \in untried : Map(v, p1, KERNEL_PAGE) /\ untried' = untried \ {v}
  BY DEF TryNext
<1>2. /\ Ready /\ at = "try"
      /\ UNCHANGED <<at, p1, heap_end, left, mapping, backing>>
  BY DEF TryNext
<1>3. /\ stack' = <<Call(v, p1, KERNEL_PAGE)>>
      /\ UNCHANGED <<pml4, tables, next_page, pc, loaded, cr3, remapping, tlb, stale>>
  BY Zenon, <1>1 DEF Map, memVars, loadVars, tlbVars
<1>4. untried \subseteq TRIES /\ backing = << >> /\ v \in Windows /\ stack = << >>
  BY <1>2, KernelWindow DEF KernelInv, Course, Extent, Ready
<1>5. next_page \in Nat /\ next_page \in 1 .. PAGES /\ PAGES \in Nat /\ FIRST_PAGE \in Nat
  BY KernelTypes
<1>6. Held(next_page, tables, p1) /\ p1 \in Nat
  BY <1>2, <1>5 DEF KernelInv, Frames, Held
<1>7. Inv' /\ Settling'
  <2>1. next_page' \in next_page .. PAGES
    BY <1>3, <1>5
  <2> QED
    BY <1>2, <1>3, <1>4, <1>6, <2>1, CallBegins DEF KernelInv
<1>8. Course'
  BY <1>1, <1>2, <1>3 DEF KernelInv, Course
<1>9. Extent'
  BY <1>2 DEF KernelInv, Extent
<1>10. Frames'
  BY <1>2, <1>3 DEF KernelInv, Frames
<1>11. Backed'
  <2>1. /\ Promised(pml4, tables, stack', v, p1)
        /\ \A u, q : u # v /\ Promised(pml4, tables, << >>, u, q) => Promised(pml4, tables, stack', u, q)
    BY Zenon, <1>3, CallPromises
  <2>2. \A u \in TRIES \ untried' : u = v \/ u \in TRIES \ untried
    BY <1>1
  <2>3. \A u \in TRIES \ untried : Promised(pml4, tables, << >>, u, p1)
    BY Zenon, <1>4 DEF KernelInv, Backed
  <2>4. \A u \in TRIES \ untried' : Promised(pml4, tables, stack', u, p1)
    BY Zenon, <2>1, <2>2, <2>3
  <2>5. Len(backing') = 0
    BY <1>2, <1>4
  <2> QED
    BY <1>2, <1>3, <2>4, <2>5 DEF Backed
<1>12. Undisturbed'
  BY <1>2 DEF Undisturbed, Used, Reads
<1> QED
  BY <1>7, <1>8, <1>9, <1>10, <1>11, <1>12 DEF KernelInv

(* A step that leaves paging and what was mapped alone, or forgets pages.    *)
LEMMA MappedStays ==
  ASSUME KernelInv, UNCHANGED <<pml4, tables, next_page, stack, p1, untried, backing>>,
         (at = "load") = (at' = "load")
  PROVE  Frames' /\ Backed'
<1>1. Frames'
  BY DEF KernelInv, Frames
<1>2. Backed'
  BY Zenon DEF KernelInv, Backed
<1> QED
  BY <1>1, <1>2

(* main() forgets the pages that it has tried.                               *)
LEMMA TryEndKeeps == ASSUME KernelInv, TryEnd PROVE KernelInv'
<1>1. /\ Ready /\ at = "try" /\ untried = {} /\ at' = "tried"
      /\ Forget(TRIES \cup {p1})
      /\ UNCHANGED <<p1, untried, heap_end, left, mapping, backing>>
  BY DEF TryEnd
<1>2. /\ Inv' /\ Settling' /\ stale' = stale \ (TRIES \cup {p1})
      /\ UNCHANGED <<pml4, tables, next_page, pc, stack>>
  BY <1>1, ForgetStays DEF KernelInv
<1>3. Course'
  BY <1>1, <1>2 DEF KernelInv, Course, Ready
<1>4. Extent'
  BY <1>1 DEF KernelInv, Extent
<1>5. Frames' /\ Backed'
  BY <1>1, <1>2, MappedStays
<1>6. Undisturbed'
  <2>1. stack' = << >>
    BY <1>1, <1>2 DEF Ready
  <2>2. \A v \in Used' : v \in TRIES
    BY <1>1 DEF Used, Reads
  <2>3. \A v \in TRIES : Quiet(stale', stack', v)
    BY <1>2, <2>1 DEF Quiet, Awaited
  <2> QED
    BY Zenon, <2>2, <2>3 DEF Undisturbed
<1> QED
  BY <1>2, <1>3, <1>4, <1>5, <1>6 DEF KernelInv

(* A step that touches nothing of paging keeps its invariants.               *)
LEMMA PagingStays ==
  ASSUME KernelInv, UNCHANGED vars
  PROVE  /\ Inv' /\ Settling' /\ UNCHANGED <<pml4, tables, next_page, pc, stack, stale>>
<1>1. UNCHANGED <<pml4, tables, next_page, pc, loaded, cr3, stack, stale>>
  BY Zenon DEF vars, memVars, loadVars, tlbVars
<1>2. Inv' /\ Settling'
  BY <1>1, StutterInv, StaysSettled DEF KernelInv
<1> QED
  BY <1>1, <1>2

(* init_heap begins.                                                         *)
LEMMA InitHeapKeeps == ASSUME KernelInv, InitHeap PROVE KernelInv'
<1>1. /\ Ready /\ at = "tried" /\ at' = "init" /\ left' = HEAP_PAGES
      /\ UNCHANGED <<vars, p1, untried, heap_end, mapping, backing>>
  BY DEF InitHeap
<1>2. /\ Inv' /\ Settling' /\ UNCHANGED <<pml4, tables, next_page, pc, stack, stale>>
  BY <1>1, PagingStays
<1>3. Course'
  BY <1>1, <1>2 DEF KernelInv, Course, Ready
<1>4. Extent' /\ heap_end = HEAP_BASE
  <2>1. backing = << >> /\ mapping = NULL
    BY <1>1 DEF KernelInv, Extent
  <2>2. heap_end = HEAP_BASE
    BY <2>1, KernelPages DEF KernelInv, Extent
  <2> QED
    BY <1>1, <2>1, <2>2, KernelPages DEF KernelInv, Extent
<1>5. Frames' /\ Backed'
  BY <1>1, <1>2, MappedStays
<1>6. Undisturbed'
  <2>1. HEAP_BASE .. HEAP_BASE - 1 = {}
    BY KernelPages
  <2>2. Used' = TRIES /\ Used = TRIES
    BY <1>1, <1>4, <2>1 DEF Used, Reads
  <2> QED
    BY <1>2, <2>2 DEF KernelInv, Undisturbed
<1> QED
  BY <1>2, <1>3, <1>4, <1>5, <1>6 DEF KernelInv

(* expand_heap begins.                                                       *)
LEMMA ExpandHeapKeeps ==
  ASSUME KernelInv, NEW pages \in Lengths, ExpandHeap(pages) PROVE KernelInv'
<1>1. /\ Ready /\ at = "run" /\ at' = "expand" /\ left' = pages
      /\ Len(backing) + pages <= MAX_PAGES
      /\ UNCHANGED <<vars, p1, untried, heap_end, mapping, backing>>
  BY DEF ExpandHeap
<1>2. /\ Inv' /\ Settling' /\ UNCHANGED <<pml4, tables, next_page, pc, stack, stale>>
  BY <1>1, PagingStays
<1>3. Course'
  BY <1>1, <1>2 DEF KernelInv, Course, Ready
<1>4. Extent'
  BY <1>1, KernelPages DEF KernelInv, Extent
<1>5. Frames' /\ Backed'
  BY <1>1, <1>2, MappedStays
<1>6. Undisturbed'
  <2>1. Used' = Used
    BY <1>1 DEF Used, Reads
  <2> QED
    BY <1>2, <2>1 DEF KernelInv, Undisturbed
<1> QED
  BY <1>2, <1>3, <1>4, <1>5, <1>6 DEF KernelInv

(* The loop of either is done.                                               *)
LEMMA HeapDoneKeeps == ASSUME KernelInv, HeapDone PROVE KernelInv'
<1>1. /\ Ready /\ at \in {"init", "expand"} /\ left = 0 /\ at' = "run"
      /\ UNCHANGED <<vars, p1, untried, heap_end, left, mapping, backing>>
  BY DEF HeapDone
<1>2. /\ Inv' /\ Settling' /\ UNCHANGED <<pml4, tables, next_page, pc, stack, stale>>
  BY <1>1, PagingStays
<1>3. Course'
  BY <1>1, <1>2 DEF KernelInv, Course, Ready
<1>4. mapping = NULL /\ Len(backing) \in Nat /\ heap_end = HEAP_BASE + Len(backing)
  BY <1>1, KernelPages DEF KernelInv, Extent
<1>5. at = "init" => heap_end = HEAP_BASE + HEAP_PAGES /\ Len(backing) = HEAP_PAGES
  BY <1>1, <1>4, KernelPages DEF KernelInv, Extent
<1>6. Extent'
  BY <1>1, <1>4, <1>5, KernelPages DEF KernelInv, Extent
<1>7. Frames' /\ Backed'
  BY <1>1, <1>2, MappedStays
<1>8. Undisturbed'
  <2>1. CASE at = "init"
    <3>1. HEAP_BASE .. heap_end - 1 = HEAP_BASE .. HEAP_BASE + HEAP_PAGES - 1
      <4>1. heap_end - 1 = HEAP_BASE + HEAP_PAGES - 1
        BY <1>5, <2>1, KernelPages
      <4> QED
        BY Zenon, <4>1
    <3> QED
      BY <1>1, <2>1, <3>1, <1>2 DEF KernelInv, Undisturbed, Used, Reads
  <2>2. CASE at = "expand"
    BY <1>1, <1>2, <2>2 DEF KernelInv, Undisturbed, Used, Reads
  <2> QED
    BY <1>1, <2>1, <2>2
<1> QED
  BY <1>2, <1>3, <1>6, <1>7, <1>8 DEF KernelInv

(* init_heap invalidates the page that it has mapped.                        *)
LEMMA InvalidatedKeeps == ASSUME KernelInv, Invalidated PROVE KernelInv'
<1>1. /\ Ready /\ mapping # NULL /\ mapping' = NULL /\ left' = left - 1 /\ heap_end' = heap_end + 1
      /\ Forget({heap_end, mapping})
      /\ UNCHANGED <<at, p1, untried, backing>>
  BY DEF Invalidated
<1>2. /\ Inv' /\ Settling' /\ stale' = stale \ {heap_end, mapping}
      /\ UNCHANGED <<pml4, tables, next_page, pc, stack>>
  BY <1>1, ForgetStays DEF KernelInv
<1>3. at = "init" /\ left \in Nat /\ left > 0 /\ heap_end \in Int
  BY <1>1 DEF KernelInv, Extent
<1>4. Course'
  BY <1>1, <1>2 DEF KernelInv, Course
<1>5. Extent'
  BY <1>1, <1>3, KernelPages DEF KernelInv, Extent
<1>6. Frames' /\ Backed'
  BY <1>1, <1>2, MappedStays
<1>7. Undisturbed'
  <2>1. stack = << >> /\ stack' = << >>
    BY <1>1, <1>2 DEF Ready
  <2>2. \A v \in Used' : v \in Used \/ v = heap_end
    BY <1>1, <1>3, KernelPages DEF Used, Reads
  <2>3. \A v \in Used : Quiet(stale', stack', v)
    BY <1>2, <2>1 DEF KernelInv, Undisturbed, Quiet
  <2>4. Quiet(stale', stack', heap_end)
    BY <1>2, <2>1 DEF Quiet, Awaited
  <2> QED
    BY Zenon, <2>2, <2>3, <2>4 DEF Undisturbed
<1> QED
  BY <1>2, <1>4, <1>5, <1>6, <1>7 DEF KernelInv

(* The next page of the heap: its frame is new, and so is its address.       *)
LEMMA NextPageKeeps == ASSUME KernelInv, NextPage PROVE KernelInv'
<1> DEFINE n == Len(backing)
<1>1. /\ Ready /\ at \in {"init", "expand"} /\ left > 0 /\ mapping = NULL
      /\ MapNew(heap_end) /\ backing' = Append(backing, next_page)
      /\ IF at = "init"
         THEN mapping' = next_page /\ left' = left /\ heap_end' = heap_end
         ELSE left' = left - 1 /\ heap_end' = heap_end + 1 /\ mapping' = mapping
      /\ UNCHANGED <<at, p1, untried>>
  BY DEF NextPage
<1>2. /\ next_page < PAGES /\ stack' = <<Call(heap_end, next_page, KERNEL_PAGE)>>
      /\ next_page' = next_page + 1
      /\ UNCHANGED <<pml4, tables, pc, loaded, cr3, remapping, tlb, stale>>
  BY Zenon, <1>1 DEF MapNew, loadVars, tlbVars
<1>3. /\ next_page \in Nat /\ PAGES \in Nat /\ FIRST_PAGE \in Nat /\ FIRST_PAGE <= next_page
      /\ DOMAIN tables \subseteq FIRST_PAGE .. next_page - 1
  BY KernelTypes
<1>4. /\ backing \in Seq(Nat) /\ n \in Nat /\ left \in Nat /\ heap_end = HEAP_BASE + n
      /\ HEAP_BASE \in Nat /\ HEAP_PAGES \in Nat \ {0} /\ MAX_PAGES \in Nat
      /\ HEAP_PAGES <= MAX_PAGES
  BY <1>1, KernelPages DEF KernelInv, Extent
<1>5. heap_end \in HeapRange /\ heap_end \in Windows
  <2>1. at = "init" => heap_end + left = HEAP_BASE + HEAP_PAGES
    BY DEF KernelInv, Extent
  <2>2. at = "expand" => n + left <= MAX_PAGES
    BY DEF KernelInv, Extent
  <2>3. heap_end \in HeapRange
    BY <1>1, <1>4, <2>1, <2>2 DEF HeapRange
  <2> QED
    BY <2>3, KernelPages
<1>6. /\ backing' \in Seq(Nat) /\ Len(backing') = n + 1 /\ backing'[n + 1] = next_page
      /\ \A i \in 1 .. n : backing'[i] = backing[i]
      /\ \A i \in 1 .. n + 1 : i = n + 1 \/ i \in 1 .. n
  BY <1>1, <1>3, <1>4
<1>7. Inv' /\ Settling'
  <2>1. next_page' \in next_page .. PAGES
    BY <1>2, <1>3
  <2> QED
    BY <1>1, <1>2, <1>3, <1>5, <2>1, CallBegins DEF KernelInv
<1>8. Course'
  BY <1>1, <1>2 DEF KernelInv, Course
<1>9. Extent'
  <2>1. next_page # NULL
    BY <1>3 DEF NULL
  <2>2. CASE at = "init"
    BY <1>1, <1>4, <1>6, <2>1, <2>2 DEF KernelInv, Extent
  <2>3. CASE at = "expand"
    BY <1>1, <1>4, <1>6, <2>3 DEF KernelInv, Extent
  <2> QED
    BY <1>1, <2>2, <2>3
<1>10. Frames'
  <2>1. \A p : Held(next_page, tables, p) => Held(next_page', tables', p) /\ p # next_page
    BY <1>2, <1>3 DEF Held
  <2>2. Held(next_page', tables', next_page)
    BY <1>2, <1>3 DEF Held
  <2>3. Held(next_page, tables, p1) /\ p1 # next_page
    BY <1>1, <2>1 DEF KernelInv, Frames
  <2>4. \A i \in 1 .. n : /\ Held(next_page, tables, backing[i]) /\ backing[i] # p1
                          /\ \A j \in 1 .. n : i # j => backing[i] # backing[j]
    BY DEF KernelInv, Frames
  <2> HIDE DEF n
  <2>5. \A i \in 1 .. n + 1 : Held(next_page', tables', backing'[i]) /\ backing'[i] # p1
    BY Zenon, <1>6, <2>1, <2>2, <2>3, <2>4
  <2>6. \A i, j \in 1 .. n + 1 : i # j => backing'[i] # backing'[j]
    BY Zenon, <1>6, <2>1, <2>4
  <2> QED
    BY Zenon, <1>1, <1>6, <2>1, <2>3, <2>5, <2>6 DEF Frames
<1>11. Backed'
  <2>1. stack = << >>
    BY <1>1 DEF Ready
  <2>2. /\ Promised(pml4, tables, stack', heap_end, next_page)
        /\ \A u, q : u # heap_end /\ Promised(pml4, tables, << >>, u, q)
                       => Promised(pml4, tables, stack', u, q)
    BY Zenon, <1>2, CallPromises
  <2>3. \A v \in TRIES : v # heap_end
    BY <1>5, KernelPages
  <2>4. \A v \in TRIES \ untried : Promised(pml4, tables, stack', v, p1)
    BY <2>1, <2>2, <2>3 DEF KernelInv, Backed
  <2>5. \A i \in 1 .. n : HEAP_BASE + i - 1 # heap_end
    BY <1>4
  <2>6. \A i \in 1 .. n : Promised(pml4, tables, stack', HEAP_BASE + i - 1, backing[i])
    BY <2>1, <2>2, <2>5 DEF KernelInv, Backed
  <2>7. HEAP_BASE + (n + 1) - 1 = heap_end
    BY <1>4
  <2> HIDE DEF n
  <2>8. \A i \in 1 .. n + 1 : Promised(pml4, tables, stack', HEAP_BASE + i - 1, backing'[i])
    BY Zenon, <1>6, <2>2, <2>6, <2>7
  <2> QED
    BY Zenon, <1>1, <1>2, <1>6, <2>4, <2>8 DEF Backed
<1>12. Undisturbed'
  <2>1. \A v \in Used' : v \in Used /\ v # heap_end
    <3>1. \A v \in TRIES : v # heap_end
      BY <1>5, KernelPages
    <3>2. CASE at = "init"
      BY <1>1, <1>4, <3>1, <3>2 DEF Used, Reads
    <3>3. CASE at = "expand"
      <4>1. n >= HEAP_PAGES
        BY <3>3 DEF KernelInv, Extent
      <4> QED
        BY <1>1, <1>4, <3>1, <3>3, <4>1 DEF Used, Reads
    <3> QED
      BY <1>1, <3>2, <3>3
  <2>2. stack = << >>
    BY <1>1 DEF Ready
  <2>3. \A u : u # heap_end /\ Quiet(stale, << >>, u) => Quiet(stale, stack', u)
    BY Zenon, <1>2, CallPromises
  <2>4. \A v \in Used : Quiet(stale, << >>, v)
    BY Zenon, <2>2 DEF KernelInv, Undisturbed
  <2> QED
    BY Zenon, <1>2, <2>1, <2>3, <2>4 DEF Undisturbed
<1> QED
  BY <1>7, <1>8, <1>9, <1>10, <1>11, <1>12 DEF KernelInv

-----------------------------------------------------------------------------
(* main() begins with nothing mapped.                                        *)
LEMMA KernelInitInv == KernelInit => KernelInv
<1> SUFFICES ASSUME KernelInit PROVE KernelInv
  OBVIOUS
<1>1. /\ Init /\ at = "load" /\ p1 = NULL /\ untried = TRIES
      /\ heap_end = HEAP_BASE /\ left = 0 /\ mapping = NULL
  BY DEF KernelInit
<1>2. backing = << >> /\ backing \in Seq(Nat) /\ Len(backing) = 0
  BY DEF KernelInit
<1>3. Inv /\ Settling
  BY <1>1, InitInv, InitSettles
<1>4. Course
  BY <1>1 DEF Course
<1>5. Extent
  BY <1>1, <1>2, KernelPages DEF Extent
<1>6. Frames /\ Backed
  BY <1>1, <1>2 DEF Frames, Backed
<1>7. Undisturbed
  BY <1>1 DEF Undisturbed, Used, Reads
<1> QED
  BY <1>3, <1>4, <1>5, <1>6, <1>7 DEF KernelInv

(* Every step keeps the invariant.                                           *)
LEMMA KernelNextInv == KernelInv /\ [KernelNext]_kernelVars => KernelInv'
<1> SUFFICES ASSUME KernelInv, [KernelNext]_kernelVars PROVE KernelInv'
  OBVIOUS
<1>1. CASE UNCHANGED kernelVars
  <2>1. UNCHANGED vars /\ UNCHANGED <<at, p1, untried, heap_end, left, mapping, backing>>
    BY Zenon, <1>1 DEF kernelVars, heapVars
  <2>2. /\ Inv' /\ Settling' /\ UNCHANGED <<pml4, tables, next_page, pc, stack, stale>>
    BY <2>1, PagingStays
  <2>3. Course' /\ Extent'
    BY <2>1, <2>2 DEF KernelInv, Course, Extent
  <2>4. Frames' /\ Backed'
    BY <2>1, <2>2, MappedStays
  <2>5. Used' = Used
    BY Zenon, <2>1 DEF Used, Reads
  <2>6. Undisturbed'
    BY Zenon, <2>2, <2>5 DEF KernelInv, Undisturbed
  <2> QED
    BY <2>2, <2>3, <2>4, <2>6 DEF KernelInv
<1>2. ASSUME NEW pages \in Lengths, ExpandHeap(pages) PROVE KernelInv'
  BY <1>2, ExpandHeapKeeps
<1> QED
  BY <1>1, <1>2, PagingKeeps, TryFirstKeeps, TryNextKeeps, TryEndKeeps, InitHeapKeeps,
     NextPageKeeps, InvalidatedKeeps, HeapDoneKeeps DEF KernelNext

(* The invariant holds from main()'s first mapping on.                       *)
LEMMA KernelInvariant == KernelSpec => []KernelInv
BY KernelInitInv, KernelNextInv, PTL DEF KernelSpec

(* Between calls of paging_map_page every page of the heap leads to the      *)
(* frame that init_heap or expand_heap took for it, which is nobody else's   *)
(* and no page table, and every table is mapped at its own address: whatever *)
(* the kernel's map has put at the heap's addresses, and however many tables *)
(* its pages take from the same allocator in between.                        *)
THEOREM HeapStaysBacked == KernelSpec => []HeapBacked
<1>1. KernelInv => HeapBacked
  <2> SUFFICES ASSUME KernelInv, stack = << >> PROVE
        /\ TablesMapped
        /\ \A i \in 1 .. Len(backing) :
             /\ Translate(HEAP_BASE + i - 1) = backing[i]
             /\ backing[i] \notin DOMAIN tables \cup {p1}
             /\ \A j \in 1 .. Len(backing) : i # j => backing[i] # backing[j]
        /\ at = "run" => heap_end = HEAP_BASE + Len(backing)
    BY DEF HeapBacked
  <2>1. TablesMapped
    BY SettledTables DEF KernelInv
  <2>2. \A i \in 1 .. Len(backing) : TranslateIn(pml4, tables, HEAP_BASE + i - 1) = backing[i]
    BY DEF KernelInv, Backed, Promised, Awaited
  <2>3. \A i \in 1 .. Len(backing) : Translate(HEAP_BASE + i - 1) = backing[i]
    BY Zenon, <2>2, InTables
  <2>4. \A i \in 1 .. Len(backing) :
          /\ backing[i] \notin DOMAIN tables \cup {p1}
          /\ \A j \in 1 .. Len(backing) : i # j => backing[i] # backing[j]
    BY DEF KernelInv, Frames, Held
  <2>5. at = "run" => heap_end = HEAP_BASE + Len(backing)
    BY KernelPages DEF KernelInv, Extent
  <2> QED
    BY Zenon, <2>1, <2>3, <2>4, <2>5
<1> QED
  BY <1>1, KernelInvariant, PTL

(* When main() reads through the pages it has tried, and the heap through    *)
(* its first pages, the processor has kept nothing of them from before: the  *)
(* calls of paging_invlpg after each call of paging_map_page are enough.     *)
THEOREM ReadsStayFresh == KernelSpec => []FirstReadsFresh
<1>1. KernelInv => FirstReadsFresh
  <2> SUFFICES ASSUME KernelInv PROVE FirstReadsFresh
    OBVIOUS
  <2>1. \A v \in Reads : v \notin stale
    BY Zenon DEF KernelInv, Undisturbed, Used, Quiet
  <2>2. \A v \in DOMAIN tlb \ stale : tlb[v] = TranslateIn(pml4, tables, v)
    BY DEF KernelInv, Inv, Fresh
  <2>3. \A v \in Reads \cap DOMAIN tlb : tlb[v] = Translate(v)
    BY Zenon, <2>1, <2>2, InTables
  <2>4. ASSUME stack = << >>, NEW v \in Reads \cap TRIES PROVE Translate(v) = p1
    <3>1. TRIES \cap (HEAP_BASE .. HEAP_BASE + HEAP_PAGES - 1) = {}
      BY KernelPages DEF HeapRange
    <3>2. v \in TRIES /\ at \notin {"load", "try"}
      BY <2>4, <3>1 DEF Reads
    <3>3. untried = {}
      BY <3>2 DEF KernelInv, Course
    <3>4. TranslateIn(pml4, tables, v) = p1
      BY <2>4, <3>2, <3>3 DEF KernelInv, Backed, Promised, Awaited
    <3> QED
      BY Zenon, <3>4, InTables
  <2> QED
    BY Zenon, <2>3, <2>4 DEF FirstReadsFresh
<1> QED
  BY <1>1, KernelInvariant, PTL
=============================================================================
