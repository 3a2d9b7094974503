-------------------------------- MODULE Heap --------------------------------
(***************************************************************************)
(* The kernel heap, src/src/heap/heap.c: a first-fit allocator over a      *)
(* doubly linked list of segments.  Every segment starts with a header in  *)
(* the heap's own memory; "hdr" maps the address of each live header to    *)
(* its contents, and an address that no live header occupies is not in its *)
(* domain.  Addresses and lengths are numbers of bytes.                    *)
(*                                                                         *)
(* malloc() walks the list in a loop and calls itself after expand_heap(); *)
(* here each turn of that loop is one action, with "selected" the loop's   *)
(* variable, so nothing is assumed of the order of the list.  The kernel   *)
(* is single threaded and no interrupt handler allocates, so no other      *)
(* operation starts while a call is in progress.                           *)
(***************************************************************************)
EXTENDS Integers, FiniteSets, Functions

CONSTANTS
  GRAIN,        \* 0x10: lengths are rounded up to a multiple of it
  HDR,          \* sizeof(heap_segment_header_t)
  PAGE_SIZE,
  HEAP_BASE,    \* 0x10000f000, the address malloc() passes to init_heap()
  INIT_PAGES,   \* 256, the number of pages malloc() passes to init_heap()
  MAX_PAGES,    \* bound: pages the heap may grow to
  MAX_BLOCKS,   \* bound: blocks in use at a time
  Requests,     \* lengths that callers ask malloc and realloc for
  Elements      \* numbers and sizes of elements that callers ask calloc for

ASSUME SizesAssumption ==
  /\ GRAIN \in Nat \ {0}
  /\ HDR \in Nat \ {0}
  /\ PAGE_SIZE \in Nat /\ PAGE_SIZE >= HDR + GRAIN
  /\ HEAP_BASE \in Nat \ {0}
  /\ INIT_PAGES \in Nat \ {0}
ASSUME BoundsAssumption ==
  /\ MAX_PAGES \in Nat
  /\ MAX_BLOCKS \in Nat
  /\ Requests \subseteq Nat
  /\ Elements \subseteq Nat

NULL == 0

Header == [length : Nat, prev : Nat, next : Nat, free : BOOLEAN]

VARIABLES
  heap_initialized,
  hdr,          \* live headers, by address
  last,         \* the last header of the list
  heap_end,     \* first address beyond the heap
  pc,           \* "idle", "scan" (in malloc's loop) or "copy" (realloc's malloc has returned)
  want,         \* the rounded length malloc is looking for
  selected,     \* the loop variable of malloc
  old,          \* the block realloc was called with, NULL in any other call
  asked,        \* history: the length the caller asked for
  grows,        \* history: calls of expand_heap in this call of malloc, 2 standing for more
  held,         \* history: blocks the callers hold, with the length each asked for
  lost,         \* history: blocks realloc allocated and did not return
  seams         \* history: addresses at which the heap has been extended

listVars == <<hdr, last, heap_end, heap_initialized>>
callVars == <<pc, want, selected, old, asked, grows>>
vars == <<listVars, callVars, held, lost, seams>>

-----------------------------------------------------------------------------
(* Definitions named Name_Fault are faulty variants of Name: each breaks one *)
(* of the properties at the end of this module.                             *)

(* A list is its headers and the pointer to the last of them. *)
List(h, l) == [hdr |-> h, last |-> l]

(* First address after the segment whose header is at a. *)
EndOf(h, a) == a + HDR + h[a].length

RoundUp_Down(n, g) == n - (n % g)
RoundUp(n, g) == IF n % g = 0 THEN n ELSE n - (n % g) + g

CombineWithNext_KeepsLast(l, seg) ==
  LET next == l.hdr[seg].next
      after == l.hdr[next].next
  IN  IF next = NULL \/ ~l.hdr[next].free
      THEN l
      ELSE List([a \in DOMAIN l.hdr \ {next} |->
                   CASE a = seg   -> [l.hdr[a] EXCEPT !.length = EndOf(l.hdr, next) - seg - HDR,
                                                      !.next = after]
                     [] a = after -> [l.hdr[a] EXCEPT !.prev = seg]
                     [] OTHER     -> l.hdr[a]],
                l.last)
CombineWithNext_TakesUsed(l, seg) ==
  LET next == l.hdr[seg].next
      after == l.hdr[next].next
  IN  IF next = NULL
      THEN l
      ELSE List([a \in DOMAIN l.hdr \ {next} |->
                   CASE a = seg   -> [l.hdr[a] EXCEPT !.length = EndOf(l.hdr, next) - seg - HDR,
                                                      !.next = after]
                     [] a = after -> [l.hdr[a] EXCEPT !.prev = seg]
                     [] OTHER     -> l.hdr[a]],
                IF next = l.last THEN seg ELSE l.last)

(* combine_with_next: seg absorbs the segment after it when that is free. *)
CombineWithNext(l, seg) ==
  LET next == l.hdr[seg].next
      after == l.hdr[next].next
      grown == [l.hdr[seg] EXCEPT !.length = @ + l.hdr[next].length + HDR,
                                  !.next = after]
  IN  IF next = NULL \/ ~l.hdr[next].free
      THEN l
      ELSE List([a \in DOMAIN l.hdr \ {next} |->
                   CASE a = seg   -> grown
                     [] a = after -> [l.hdr[a] EXCEPT !.prev = seg]
                     [] OTHER     -> l.hdr[a]],
                IF next = l.last THEN seg ELSE l.last)

(* combine_with_prev: the segment before seg, when free, absorbs seg. *)
CombineWithPrev(l, seg) ==
  LET prev == l.hdr[seg].prev
  IN  IF prev # NULL /\ l.hdr[prev].free THEN CombineWithNext(l, prev) ELSE l

SplitHeader_AnyRemainder(l, seg, split_at) ==
  LET new  == seg + split_at + HDR
      next == l.hdr[seg].next
      rest == [l.hdr[seg] EXCEPT !.length = @ - split_at - HDR, !.prev = seg]
  IN  IF split_at < GRAIN
      THEN l
      ELSE List([a \in DOMAIN l.hdr \cup {new} |->
                   CASE a = new  -> rest
                     [] a = seg  -> [l.hdr[a] EXCEPT !.length = split_at, !.next = new]
                     [] a = next -> [l.hdr[a] EXCEPT !.prev = new]
                     [] OTHER    -> l.hdr[a]],
                IF l.last = seg THEN new ELSE l.last)

(* split_header: cut seg after split_at bytes, unless what would be left is *)
(* too short for a header and one grain.                                    *)
SplitHeader(l, seg, split_at) ==
  LET length == l.hdr[seg].length - split_at - HDR
      new    == seg + split_at + HDR
      next   == l.hdr[seg].next
      rest   == [length |-> length, prev |-> seg, next |-> next,
                 free |-> l.hdr[seg].free]
      cut    == [l.hdr[seg] EXCEPT !.length = split_at, !.next = new]
  IN  IF split_at < GRAIN \/ length < GRAIN
      THEN l
      ELSE List([a \in DOMAIN l.hdr \cup {new} |->
                   CASE a = new  -> rest
                     [] a = seg  -> cut
                     [] a = next -> [l.hdr[a] EXCEPT !.prev = new]
                     [] OTHER    -> l.hdr[a]],
                IF l.last = seg THEN new ELSE l.last)

SetFree(l, seg, value) == List([l.hdr EXCEPT ![seg].free = value], l.last)

FreeSegment_ForwardsOnly(l, seg) == CombineWithNext(SetFree(l, seg, TRUE), seg)

(* free: mark the segment and merge it with its neighbours. *)
FreeSegment(l, seg) ==
  CombineWithPrev(CombineWithNext(SetFree(l, seg, TRUE), seg), seg)

(* The tail of malloc's loop body: cut the segment if it is longer than     *)
(* needed, and mark it used.                                                *)
TakeSegment(l, seg, length) ==
  SetFree(IF l.hdr[seg].length > length THEN SplitHeader(l, seg, length) ELSE l,
          seg, FALSE)

AppendSegment_Unlinked(l, end, length) ==
  List([a \in DOMAIN l.hdr \cup {end} |->
          IF a = end
          THEN [length |-> length - HDR, prev |-> l.last, next |-> NULL, free |-> TRUE]
          ELSE l.hdr[a]],
       end)
AppendSegment_NoHeader(l, end, length) ==
  List([a \in DOMAIN l.hdr \cup {end} |->
          CASE a = end    -> [length |-> length, prev |-> l.last, next |-> NULL, free |-> TRUE]
            [] a = l.last -> [l.hdr[a] EXCEPT !.next = end]
            [] OTHER      -> l.hdr[a]],
       end)

(* expand_heap, for a length already rounded to pages: a free segment at    *)
(* heap_end, linked behind the last one.  The final combine_with_next finds *)
(* no next segment.                                                         *)
AppendSegment(l, end, length) ==
  LET new == [length |-> length - HDR, prev |-> l.last, next |-> NULL, free |-> TRUE]
  IN  CombineWithNext(
        List([a \in DOMAIN l.hdr \cup {end} |->
                CASE a = end    -> new
                  [] a = l.last -> [l.hdr[a] EXCEPT !.next = end]
                  [] OTHER      -> l.hdr[a]],
             end),
        end)

(* The list init_heap builds: one free segment. *)
InitialHeader ==
  [length |-> INIT_PAGES * PAGE_SIZE - HDR, prev |-> NULL, next |-> NULL, free |-> TRUE]

-----------------------------------------------------------------------------
Init ==
  /\ heap_initialized = FALSE
  /\ hdr = [a \in {} |-> InitialHeader] /\ last = NULL /\ heap_end = NULL
  /\ pc = "idle" /\ want = 0 /\ selected = NULL /\ old = NULL
  /\ asked = 0 /\ grows = 0
  /\ held = [a \in {} |-> 0] /\ lost = {} /\ seams = {}

InitHeap ==
  IF heap_initialized
  THEN UNCHANGED listVars
  ELSE /\ heap_initialized' = TRUE
       /\ hdr' = [a \in {HEAP_BASE} |-> InitialHeader]
       /\ last' = HEAP_BASE
       /\ heap_end' = HEAP_BASE + INIT_PAGES * PAGE_SIZE

HeapLimit == HEAP_BASE + MAX_PAGES * PAGE_SIZE

Fits_Longer(h, a, length) == h[a].free /\ h[a].length > length
Fits_Used(h, a, length) == h[a].length >= length

(* The loop's test: the segment at a can hold length bytes. *)
Fits(h, a, length) == h[a].free /\ h[a].length >= length

(* Bounds: a call is made when fewer than MAX_BLOCKS are in use, and a free  *)
(* segment fits or the heap may still grow.                                  *)
Room(n) ==
  /\ Cardinality(DOMAIN held \cup lost) < MAX_BLOCKS
  /\ \/ heap_end' + RoundUp(n, PAGE_SIZE) <= HeapLimit
     \/ \E a \in DOMAIN hdr' : Fits(hdr', a, RoundUp(n, GRAIN))

(* A call of malloc up to its loop; o is the block that realloc will copy. *)
BeginMalloc(n, o) ==
  /\ pc = "idle"
  /\ InitHeap
  /\ Room(n)
  /\ IF n = 0
     THEN UNCHANGED callVars
     ELSE /\ pc' = "scan" /\ selected' = HEAP_BASE
          /\ want' = RoundUp(n, GRAIN)
          /\ old' = o /\ asked' = n /\ grows' = 0
  /\ UNCHANGED <<held, lost, seams>>

Malloc(n) == BeginMalloc(n, NULL)

Calloc(num, size) == Malloc(num * size)

(* realloc(p, n).  It copies as many bytes as the old segment has, so it is *)
(* called only with an n that is no less (see README, preconditions).       *)
Realloc(p, n) == hdr[p].length <= n /\ BeginMalloc(n, p)

EndCall ==
  pc' = "idle" /\ want' = 0 /\ selected' = NULL /\ old' = NULL /\ asked' = 0 /\ grows' = 0

SetList(l) == hdr' = l.hdr /\ last' = l.last

(* The selected segment fits: malloc returns it, to its caller or to realloc. *)
ScanTake ==
  /\ pc = "scan" /\ Fits(hdr, selected, want)
  /\ SetList(TakeSegment(List(hdr, last), selected, want))
  /\ IF old = NULL
     THEN /\ EndCall
          /\ held' = [a \in DOMAIN held \cup {selected} |->
                         IF a = selected THEN asked ELSE held[a]]
     ELSE pc' = "copy" /\ UNCHANGED <<want, selected, old, asked, grows, held>>
  /\ UNCHANGED <<heap_end, heap_initialized, lost, seams>>

(* It does not fit, and there is another segment. *)
ScanNext ==
  /\ pc = "scan" /\ ~Fits(hdr, selected, want)
  /\ hdr[selected].next # NULL
  /\ selected' = hdr[selected].next
  /\ UNCHANGED <<listVars, pc, want, old, asked, grows, held, lost, seams>>

(* No segment fits: expand the heap and start malloc again. *)
ScanGrow ==
  LET length == RoundUp(want, PAGE_SIZE)
  IN  /\ pc = "scan" /\ ~Fits(hdr, selected, want)
      /\ hdr[selected].next = NULL
      /\ heap_end + length <= HeapLimit
      /\ SetList(AppendSegment(List(hdr, last), heap_end, length))
      /\ heap_end' = heap_end + length
      /\ seams' = seams \cup {heap_end}
      /\ selected' = HEAP_BASE
      /\ grows' = IF grows = 0 THEN 1 ELSE 2
      /\ UNCHANGED <<heap_initialized, pc, want, old, asked, held, lost>>

(* realloc after its malloc: copy, free the old block, return nothing. *)
ReallocFinish ==
  /\ pc = "copy"
  /\ SetList(FreeSegment(List(hdr, last), old))
  /\ held' = Restrict(held, DOMAIN held \ {old})
  /\ lost' = lost \cup {selected}
  /\ EndCall
  /\ UNCHANGED <<heap_end, heap_initialized, seams>>

Free(p) ==
  /\ pc = "idle"
  /\ SetList(FreeSegment(List(hdr, last), p))
  /\ held' = Restrict(held, DOMAIN held \ {p})
  /\ UNCHANGED <<heap_end, heap_initialized, callVars, lost, seams>>

Scan == ScanTake \/ ScanNext \/ ScanGrow \/ ReallocFinish

Next ==
  \/ \E n \in Requests : Malloc(n)
  \/ \E num, size \in Elements : Calloc(num, size)
  \/ \E p \in DOMAIN held, n \in Requests : Realloc(p, n)
  \/ \E p \in DOMAIN held : Free(p)
  \/ Scan

Spec == Init /\ [][Next]_vars

(* A call in progress keeps the processor until it returns. *)
FairSpec == Spec /\ WF_vars(Scan)

-----------------------------------------------------------------------------
(* The segments in use. *)
UsedSegments == {a \in DOMAIN hdr : ~hdr[a].free}

(* The variables have their types, headers lie in the heap, and every length *)
(* is a positive number of grains.                                           *)
TypeOK ==
  /\ heap_initialized \in BOOLEAN
  /\ hdr \in [DOMAIN hdr -> Header]
  /\ \A a \in DOMAIN hdr : a \in Nat /\ HEAP_BASE <= a /\ hdr[a].length >= GRAIN
  /\ last \in Nat /\ heap_end \in Nat
  /\ pc \in {"idle", "scan", "copy"}
  /\ want \in Nat /\ asked \in Nat /\ grows \in 0 .. 2
  /\ selected \in DOMAIN hdr \cup {NULL}
  /\ old \in DOMAIN held \cup {NULL}
  /\ held \in [DOMAIN held -> Nat]
  /\ DOMAIN held \subseteq DOMAIN hdr /\ lost \subseteq DOMAIN hdr
  /\ seams \subseteq Nat

(* The links of a list agree in both directions, follow the addresses, and   *)
(* the segments cover the memory from HEAP_BASE to end with no gap or        *)
(* overlap.                                                                  *)
Linked(l, a) ==
  /\ a = l.last <=> l.hdr[a].next = NULL
  /\ a = HEAP_BASE <=> l.hdr[a].prev = NULL
  /\ l.hdr[a].next # NULL =>
       /\ l.hdr[a].next \in DOMAIN l.hdr
       /\ l.hdr[a].next = EndOf(l.hdr, a)
       /\ l.hdr[l.hdr[a].next].prev = a
  /\ l.hdr[a].prev # NULL =>
       /\ l.hdr[a].prev \in DOMAIN l.hdr
       /\ l.hdr[l.hdr[a].prev].next = a

Tiles(l, end) ==
  /\ HEAP_BASE \in DOMAIN l.hdr /\ l.last \in DOMAIN l.hdr
  /\ EndOf(l.hdr, l.last) = end
  /\ \A a \in DOMAIN l.hdr : Linked(l, a) /\ EndOf(l.hdr, a) <= end
  /\ \A a, b \in DOMAIN l.hdr : a < b => EndOf(l.hdr, a) <= b

(* The list survives every cut, merge and extension: combine_with_next,      *)
(* split_header and expand_heap keep both links, the lengths and the global  *)
(* "last" consistent, whatever the order of calls.                           *)
Tiling == heap_initialized => Tiles(List(hdr, last), heap_end)

(* A block stays with its holder: what is marked used is exactly what some   *)
(* caller holds, realloc has lost or realloc is copying to, and a holder's   *)
(* segment is as long as asked for.                                          *)
Owned ==
  /\ UsedSegments = DOMAIN held \cup lost \cup (IF pc = "copy" THEN {selected} ELSE {})
  /\ DOMAIN held \cap lost = {}
  /\ \A a \in DOMAIN held : held[a] > 0 /\ hdr[a].length >= held[a]

(* The copy of realloc reads and writes inside its two blocks, which differ, *)
(* whatever malloc has done to the list meanwhile.                           *)
CopyFits ==
  pc = "copy" =>
    /\ old \in DOMAIN held /\ selected \in UsedSegments \ DOMAIN held
    /\ hdr[selected].length >= hdr[old].length

(* free leaves no two adjacent free segments, except at an address where the *)
(* heap was extended: expand_heap tries to merge the new segment forwards    *)
(* only, so a free segment before it stays apart.                            *)
Coalesced ==
  \A a \in DOMAIN hdr :
    LET next == hdr[a].next
    IN  hdr[a].free /\ next # NULL /\ hdr[next].free => next \in seams

(* malloc returns the segment with the lowest address of those that fit. *)
FirstFit ==
  [][pc = "scan" /\ pc' # "scan" =>
       \A a \in DOMAIN hdr :
         hdr[a].free /\ hdr[a].length >= want => selected <= a]_vars

(* A length that a freshly added segment can hold: expand_heap rounds the    *)
(* length to pages but takes its header out of those same pages.             *)
Serviceable(length) == RoundUp(length, PAGE_SIZE) - length >= HDR

(* If a call had to extend the heap, then either its length is serviceable   *)
(* and one extension is enough, or the call never returns: the recursion of  *)
(* malloc and expand_heap goes on with every new segment as short as before. *)
GrowthDecides ==
  [][pc = "scan" /\ pc' # "scan" /\ grows > 0 => Serviceable(want) /\ grows = 1]_vars

(* Every call of malloc and realloc returns, if its length is serviceable.   *)
CallsReturn == pc # "idle" /\ Serviceable(want) ~> pc = "idle"

(* The heap implements the abstract allocator: the blocks are the payloads   *)
(* of the used segments, and no step moves, resizes or overlaps one.         *)
Allocator ==
  INSTANCE BlockAllocator
    WITH Base   <- HEAP_BASE,
         blocks <- {[base |-> a + HDR, size |-> hdr[a].length] : a \in UsedSegments},
         limit  <- IF heap_initialized THEN heap_end ELSE HEAP_BASE

AllocatorSpec == Allocator!Spec
=============================================================================
