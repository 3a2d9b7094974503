-------------------------------- MODULE VMM --------------------------------
(***************************************************************************)
(* Paging: src/src/vmm/vmm.c and the map that                              *)
(* src/src/paging/load_page_tables.c builds for the kernel.  Addresses are *)
(* page numbers.                                                           *)
(*                                                                         *)
(* paging_map_page() gets its tables from the page frame allocator and     *)
(* calls itself to map each of them at its own address, before it goes on  *)
(* with the table: the calls in progress form a stack, and one level of    *)
(* one call is one action.                                                 *)
(*                                                                         *)
(* The processor may translate any page at any time and keep the result:   *)
(* the variable tlb is the part of that memory that a property needs.      *)
(***************************************************************************)
EXTENDS Integers, Sequences, FiniteSets, SequencesExt

CONSTANTS
  LEVELS,        \* 4
  FANOUT,        \* 512, entries of a table
  OFFSET,        \* VIRTUAL_OFFSET
  SCREEN,        \* the page of 0xb8000
  Entries,       \* the list of entries of the memory map, in whole pages
  FIRST_PAGE,    \* the first page that pmm_alloc_page() returns
  PAGES,         \* bound: pages of memory
  Windows,       \* pages that callers map, edit and unmap
  DataPages,     \* physical pages they map there
  CallerFlags    \* flags they ask for

PRESENT == 1
WRITE == 2
USER == 3
KERNEL_PAGE == {PRESENT, WRITE}
USER_PAGE == {PRESENT, WRITE, USER}

(* The pages that an entry of a table of level n + 1 stands for: what the     *)
(* shifts of paging_set_indexer divide by.                                   *)
Span[n \in 0 .. LEVELS] == IF n = 0 THEN 1 ELSE FANOUT * Span[n - 1]

Virtual == 0 .. Span[LEVELS] - 1

ASSUME PagingAssumption ==
  /\ LEVELS \in Nat \ {0} /\ FANOUT \in Nat \ {0}
  /\ PAGES \in 1 .. Span[LEVELS] /\ FIRST_PAGE \in 1 .. PAGES - 1
  /\ OFFSET \in Virtual /\ SCREEN \in Virtual
  /\ Entries \in Seq([base : Nat, length : Nat, type : Nat])
  /\ Windows \subseteq Virtual /\ DataPages \subseteq Nat
  /\ CallerFlags \subseteq SUBSET USER_PAGE
  /\ \A flags \in CallerFlags : PRESENT \in flags

NULL == -1
Descriptor == [addr : Nat, flags : SUBSET USER_PAGE]
Empty == [addr |-> 0, flags |-> {}]
EmptyTable == [i \in 0 .. FANOUT - 1 |-> Empty]

VARIABLES
  pml4,
  tables,      \* the tables in memory, by page
  next_page,   \* the page that pmm_alloc_page() returns next
  pc,          \* "load" in paging_load_kernel_map(), then "ready"
  loaded,      \* the calls its loop has made
  cr3,
  stack,       \* calls of paging_map_page() in progress, the innermost last
  remapping,   \* the page that paging_remap_page() has unmapped, or NULL
  tlb,         \* translations the processor has kept, for the pages of callers
  stale        \* history: pages mapped anew that nobody has invalidated since

memVars == <<pml4, tables, next_page>>
loadVars == <<pc, loaded, cr3>>
tlbVars == <<tlb, stale>>
vars == <<memVars, loadVars, stack, remapping, tlbVars>>

-----------------------------------------------------------------------------
(* Definitions named Name_Fault are faulty variants of Name: each breaks one *)
(* of the properties at the end of this module.                              *)

(* paging_set_indexer: the index of page v in its table of a level. *)
Index(v, level) == (v \div Span[level - 1]) % FANOUT

(* paging_descriptor_get_flag with several flags asks for any of them. *)
HasFlag_All(pde, flags) == flags \subseteq pde.flags
HasFlag(pde, flags) == pde.flags \cap flags # {}

(* The table of each level that a walk for page v passes through, NULL where *)
(* a table is missing.                                                       *)
Path(v) ==
  LET at[level \in 1 .. LEVELS] ==
        IF level = LEVELS THEN pml4
        ELSE LET above == at[level + 1]
                 pde   == tables[above][Index(v, level + 1)]
             IN  IF above = NULL THEN NULL
                 ELSE IF HasFlag(pde, {PRESENT}) THEN pde.addr ELSE NULL
  IN  at

Leaf(v) == tables[Path(v)[1]][Index(v, 1)]

(* paging_walk_page *)
Walk(v) == IF Path(v)[1] = NULL THEN 0 ELSE Leaf(v).addr

(* What the processor makes of page v. *)
Mapped(v) == Path(v)[1] # NULL /\ PRESENT \in Leaf(v).flags
Translate(v) == IF Mapped(v) THEN Leaf(v).addr ELSE NULL

Frame == [virtual : Virtual, physical : Nat, flags : SUBSET USER_PAGE,
          level : 1 .. LEVELS, table : Nat]

Call(virtual, physical, flags) ==
  [virtual |-> virtual, physical |-> physical, flags |-> flags,
   level |-> LEVELS, table |-> pml4]

Top == Last(stack)
Slot == Index(Top.virtual, Top.level)
Pde == tables[Top.table][Slot]

(* The processor forgets what it kept of a page. *)
Invlpg(v) ==
  /\ tlb' = [u \in DOMAIN tlb \ {v} |-> tlb[u]]
  /\ stale' = stale \ {v}

-----------------------------------------------------------------------------
Init ==
  /\ pml4 = FIRST_PAGE /\ next_page = FIRST_PAGE + 1
  /\ tables = [t \in {FIRST_PAGE} |-> EmptyTable]
  /\ pc = "load" /\ loaded = 0 /\ cr3 = NULL
  /\ stack = << >> /\ remapping = NULL
  /\ tlb = [v \in {} |-> NULL] /\ stale = {}

(* paging_map_page, at a level whose table exists. *)
Descend_KeepsFlags ==
  /\ stack # << >> /\ Top.level > 1 /\ HasFlag(Pde, Top.flags)
  /\ stack' = [stack EXCEPT ![Len(stack)].level = @ - 1, ![Len(stack)].table = Pde.addr]
  /\ UNCHANGED <<memVars, loadVars, remapping, tlbVars>>

Descend_TooFar ==
  /\ stack # << >> /\ Top.level >= 1 /\ HasFlag(Pde, Top.flags)
  /\ tables' = [tables EXCEPT ![Top.table][Slot].flags = @ \cup Top.flags]
  /\ stack' = [stack EXCEPT ![Len(stack)].level = @ - 1, ![Len(stack)].table = Pde.addr]
  /\ UNCHANGED <<pml4, next_page, loadVars, remapping, tlbVars>>

Descend ==
  /\ stack # << >> /\ Top.level > 1 /\ HasFlag(Pde, Top.flags)
  /\ tables' = [tables EXCEPT ![Top.table][Slot].flags = @ \cup Top.flags]
  /\ stack' = [stack EXCEPT ![Len(stack)].level = @ - 1, ![Len(stack)].table = Pde.addr]
  /\ UNCHANGED <<pml4, next_page, loadVars, remapping, tlbVars>>

Grow_Unlinked ==
  LET new == next_page
  IN  /\ stack # << >> /\ Top.level > 1 /\ ~HasFlag(Pde, Top.flags)
      /\ new < PAGES
      /\ tables' = [t \in DOMAIN tables \cup {new} |->
                      IF t = new THEN EmptyTable ELSE tables[t]]
      /\ stack' = Append([stack EXCEPT ![Len(stack)].level = @ - 1, ![Len(stack)].table = new],
                         Call(new, new, KERNEL_PAGE))
      /\ next_page' = new + 1
      /\ UNCHANGED <<pml4, loadVars, remapping, tlbVars>>

Grow_Unmapped ==
  LET new == next_page
      pde == [addr |-> new, flags |-> {PRESENT} \cup Top.flags]
  IN  /\ stack # << >> /\ Top.level > 1 /\ ~HasFlag(Pde, Top.flags)
      /\ new < PAGES
      /\ tables' = [t \in DOMAIN tables \cup {new} |->
                      CASE t = new       -> EmptyTable
                        [] t = Top.table -> [tables[t] EXCEPT ![Slot] = pde]
                        [] OTHER         -> tables[t]]
      /\ stack' = [stack EXCEPT ![Len(stack)].level = @ - 1, ![Len(stack)].table = new]
      /\ next_page' = new + 1
      /\ UNCHANGED <<pml4, loadVars, remapping, tlbVars>>

(* paging_map_page, at a level whose table is missing: a new one is linked   *)
(* and then mapped at its own address by a call of its own.                  *)
Grow ==
  LET new == next_page
      pde == [addr |-> new, flags |-> {PRESENT} \cup Top.flags]
  IN  /\ stack # << >> /\ Top.level > 1 /\ ~HasFlag(Pde, Top.flags)
      /\ new < PAGES
      /\ tables' = [t \in DOMAIN tables \cup {new} |->
                      CASE t = new       -> EmptyTable
                        [] t = Top.table -> [tables[t] EXCEPT ![Slot] = pde]
                        [] OTHER         -> tables[t]]
      /\ stack' = Append([stack EXCEPT ![Len(stack)].level = @ - 1, ![Len(stack)].table = new],
                         Call(new, new, KERNEL_PAGE))
      /\ next_page' = new + 1
      /\ UNCHANGED <<pml4, loadVars, remapping, tlbVars>>

MapLeaf_KeepsAddress ==
  /\ stack # << >> /\ Top.level = 1
  /\ tables' = [tables EXCEPT ![Top.table][Slot].flags = Top.flags]
  /\ stack' = Front(stack) /\ remapping' = NULL
  /\ UNCHANGED <<pml4, next_page, loadVars, tlb, stale>>

(* paging_map_page writes the page's own entry and returns; if               *)
(* paging_remap_page() called it, that invalidates the old page and returns. *)
MapLeaf ==
  /\ stack # << >> /\ Top.level = 1
  /\ tables' = [tables EXCEPT ![Top.table][Slot] = [addr |-> Top.physical, flags |-> Top.flags]]
  /\ stack' = Front(stack)
  /\ IF Len(stack) = 1 /\ remapping # NULL
     THEN /\ tlb' = [u \in DOMAIN tlb \ {remapping} |-> tlb[u]]
          /\ stale' = (stale \cup {Top.virtual}) \ {remapping}
          /\ remapping' = NULL
     ELSE stale' = stale \cup {Top.virtual} /\ UNCHANGED <<tlb, remapping>>
  /\ UNCHANGED <<pml4, next_page, loadVars>>

-----------------------------------------------------------------------------
(* The pages of an entry, and the calls that map them. *)
ACPI_RECLAIMABLE == 3

KernelMap_Low ==
  LET pages(e) == IF e.type = ACPI_RECLAIMABLE THEN << >>
                  ELSE [i \in 1 .. e.length |-> e.base + i - 1]
      all      == FlattenSeq([i \in 1 .. Len(Entries) |-> pages(Entries[i])])
  IN  [i \in 1 .. Len(all) |-> <<all[i], all[i]>>] \o <<<<SCREEN, SCREEN>>>>

KernelMap ==
  LET pages(e) == IF e.type = ACPI_RECLAIMABLE THEN << >>
                  ELSE [i \in 1 .. e.length |-> e.base + i - 1]
      all      == FlattenSeq([i \in 1 .. Len(Entries) |-> pages(Entries[i])])
      both     == FlattenSeq([i \in 1 .. Len(all) |->
                                <<<<all[i], all[i]>>, <<all[i] + OFFSET, all[i]>>>>])
  IN  both \o <<<<SCREEN, SCREEN>>>>

(* The pages that the map lists. *)
Listed ==
  UNION {Entries[i].base .. Entries[i].base + Entries[i].length - 1 :
           i \in {j \in 1 .. Len(Entries) : Entries[j].type # ACPI_RECLAIMABLE}}

(* All memory lies below OFFSET, so that its pages in the upper half are     *)
(* other pages; it is where pages are allocated; and callers leave alone the *)
(* addresses of pages that may become tables.                                *)
ASSUME KernelMapAssumption ==
  /\ PAGES <= OFFSET
  /\ \A p \in Listed \cup {SCREEN} : p < OFFSET
  /\ \A p \in Listed : p + OFFSET \in Virtual
  /\ FIRST_PAGE \in Listed
  /\ Windows \cap (FIRST_PAGE .. PAGES - 1) = {}

Load ==
  /\ pc = "load" /\ stack = << >> /\ loaded < Len(KernelMap)
  /\ stack' = <<Call(KernelMap[loaded + 1][1], KernelMap[loaded + 1][2], KERNEL_PAGE)>>
  /\ loaded' = loaded + 1
  /\ UNCHANGED <<memVars, pc, cr3, remapping, tlbVars>>

(* The tables are complete; loading cr3 empties the processor's memory.      *)
Sync ==
  /\ pc = "load" /\ stack = << >> /\ loaded = Len(KernelMap)
  /\ pc' = "ready" /\ cr3' = Walk(pml4)
  /\ tlb' = [v \in {} |-> NULL] /\ stale' = {}
  /\ UNCHANGED <<memVars, loaded, stack, remapping>>

-----------------------------------------------------------------------------
Ready == pc = "ready" /\ stack = << >>

Map(v, p, flags) ==
  /\ Ready
  /\ stack' = <<Call(v, p, flags)>>
  /\ UNCHANGED <<memVars, loadVars, remapping, tlbVars>>

(* What paging_unmap_page does to the tables. *)
Cleared_Table(v) ==
  IF Path(v)[1] = NULL THEN tables
  ELSE [tables EXCEPT ![Path(v)[2]][Index(v, 2)] = Empty]

Cleared(v) ==
  IF Path(v)[1] = NULL THEN tables
  ELSE [tables EXCEPT ![Path(v)[1]][Index(v, 1)] = Empty]

Unmap_NoInvlpg(v) ==
  /\ Ready
  /\ tables' = Cleared(v)
  /\ UNCHANGED <<pml4, next_page, loadVars, stack, remapping, tlbVars>>

Unmap(v) ==
  /\ Ready
  /\ tables' = Cleared(v)
  /\ IF Path(v)[1] = NULL THEN UNCHANGED tlbVars ELSE Invlpg(v)
  /\ UNCHANGED <<pml4, next_page, loadVars, stack, remapping>>

(* paging_edit_page looks for no missing table: v is a page that has them.   *)
Edit(v, flags) ==
  /\ Ready
  /\ Path(v)[1] # NULL
  /\ tables' = [t \in DOMAIN tables |->
                  [i \in 0 .. FANOUT - 1 |->
                     CASE t = Path(v)[1] /\ i = Index(v, 1) -> [tables[t][i] EXCEPT !.flags = flags]
                       [] \E level \in 2 .. LEVELS : t = Path(v)[level] /\ i = Index(v, level) ->
                            [tables[t][i] EXCEPT !.flags = @ \cup flags]
                       [] OTHER -> tables[t][i]]]
  /\ Invlpg(v)
  /\ UNCHANGED <<pml4, next_page, loadVars, stack, remapping>>

(* paging_remap_page, of a page that is mapped.  The call it makes has       *)
(* "old_pde &= 0x0fff" among its arguments: the address, another argument,   *)
(* may be taken before or after that.                                        *)
Remap(old, new) ==
  /\ Ready
  /\ Mapped(old)
  /\ tables' = Cleared(old)
  /\ Invlpg(old)
  /\ \E p \in {Leaf(old).addr, 0} : stack' = <<Call(new, p, Leaf(old).flags)>>
  /\ remapping' = old
  /\ UNCHANGED <<pml4, next_page, loadVars>>

(* A caller's own paging_invlpg. *)
Invalidate(v) ==
  /\ Ready /\ v \in stale
  /\ Invlpg(v)
  /\ UNCHANGED <<memVars, loadVars, stack, remapping>>

(* The processor translates a page and keeps the result. *)
Fill(v) ==
  /\ pc = "ready" /\ Mapped(v) /\ v \notin DOMAIN tlb
  /\ tlb' = [u \in DOMAIN tlb \cup {v} |-> IF u = v THEN Translate(v) ELSE tlb[u]]
  /\ UNCHANGED <<memVars, loadVars, stack, remapping, stale>>

MapStep == Descend \/ Grow \/ MapLeaf

Next ==
  \/ MapStep
  \/ Load
  \/ Sync
  \/ \E v \in Windows, p \in DataPages, flags \in CallerFlags : Map(v, p, flags)
  \/ \E v \in Windows : Unmap(v) \/ Invalidate(v) \/ Fill(v)
  \/ \E v \in Windows, flags \in CallerFlags : Edit(v, flags)
  \/ \E old, new \in Windows : Remap(old, new)

Spec == Init /\ [][Next]_vars

(* A call in progress keeps the processor until it returns. *)
FairSpec == Spec /\ WF_vars(MapStep) /\ WF_vars(Load) /\ WF_vars(Sync)

-----------------------------------------------------------------------------
TypeOK ==
  /\ pml4 \in DOMAIN tables
  /\ DOMAIN tables \subseteq 1 .. PAGES - 1
  /\ \A t \in DOMAIN tables : tables[t] \in [0 .. FANOUT - 1 -> Descriptor]
  /\ next_page \in 1 .. PAGES
  /\ pc \in {"load", "ready"} /\ loaded \in 0 .. Len(KernelMap)
  /\ cr3 \in {NULL} \cup Nat
  /\ stack \in Seq(Frame)
  /\ remapping \in Windows \cup {NULL}
  /\ DOMAIN tlb \subseteq Windows /\ stale \subseteq Virtual

(* The tables of a level: those that the present entries above point to.     *)
TablesAt ==
  LET at[level \in 1 .. LEVELS] ==
        IF level = LEVELS THEN {pml4}
        ELSE {pde.addr : pde \in {d \in UNION {{tables[t][i] : i \in 0 .. FANOUT - 1} :
                                                t \in at[level + 1]} : PRESENT \in d.flags}}
  IN  at

(* The tables form a tree, though the calls that extend it run inside one    *)
(* another: every table allocated hangs in exactly one entry of the level    *)
(* above, and none is a table of two levels.  The first is where cr3 points. *)
Tree ==
  /\ pc = "ready" => cr3 = pml4
  /\ UNION {TablesAt[level] : level \in 1 .. LEVELS} = DOMAIN tables
  /\ \A a, b \in 1 .. LEVELS : a # b => TablesAt[a] \cap TablesAt[b] = {}
  /\ \A level \in 2 .. LEVELS :
       LET present == {s \in TablesAt[level] \X (0 .. FANOUT - 1) :
                         PRESENT \in tables[s[1]][s[2]].flags}
       IN  Cardinality(present) = Cardinality(TablesAt[level - 1])

(* The kernel reads and writes its tables through the tables: between calls  *)
(* each of them is mapped at its own address, the first one once all that    *)
(* the memory map lists is mapped.                                           *)
TablesMapped ==
  stack = << >> =>
    \A t \in DOMAIN tables : t # pml4 \/ pc = "ready" => Translate(t) = t

(* The address space that the tables and the calls in progress are.          *)
Translation == [v \in Virtual |-> Translate(v)]

Requests(calls) ==
  [i \in 1 .. Len(calls) |-> [page |-> calls[i].virtual, frame |-> calls[i].physical]]

KernelHomes ==
  [v \in {SCREEN} \cup Listed \cup {p + OFFSET : p \in Listed} |->
     IF v \in {SCREEN} \cup Listed THEN v ELSE v - OFFSET]

Space ==
  INSTANCE AddressSpace WITH
    Pages <- Virtual, Unmapped <- NULL, Required <- KernelHomes,
    map <- Translation, requests <- Requests(stack), running <- pc = "ready"

(* The tables are an address space: a call of paging_map_page maps its page  *)
(* as asked for, in the table that the processor finds, although the calls   *)
(* inside it extend the same tables meanwhile; no call takes another page's  *)
(* translation away; and cr3 is loaded when every page of the memory map,    *)
(* ACPI tables apart, is mapped at its address and in the upper half.        *)
AddressSpaceSpec == Space!Spec

(* The processor grants what every level grants: the flags of a page are on  *)
(* every entry above it.                                                     *)
FlagsReach ==
  \A v \in Virtual : Mapped(v) =>
    \A level \in 2 .. LEVELS :
      Leaf(v).flags \subseteq tables[Path(v)[level]][Index(v, level)].flags

(* What the processor has kept is what the tables say, but for pages that    *)
(* paging_map_page has mapped anew and that its caller has not invalidated.  *)
TlbFresh == \A v \in DOMAIN tlb \ stale : tlb[v] = Translate(v)

(* The kernel's map is completed, and every call of paging_map_page returns, *)
(* however many calls inside calls the tables' own tables take.              *)
CallsReturn == pc = "load" \/ stack # << >> ~> pc = "ready" /\ stack = << >>
=============================================================================
