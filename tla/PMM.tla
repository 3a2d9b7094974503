-------------------------------- MODULE PMM --------------------------------
(***************************************************************************)
(* The physical memory manager, src/src/pmm/pmm.c and                      *)
(* src/src/pmm/page_frame_allocator.c: a doubly linked list of sections,   *)
(* each a run of pages that is free, used or bad, whose nodes are slots of *)
(* a table placed in the memory it manages.                                *)
(*                                                                         *)
(* A pointer is the index of a slot.  NULL is a slot of its own: the code  *)
(* reads and writes through NULL pointers and low memory is mapped, so     *)
(* sec[NULL] is what lies at address 0.  Every turn of a loop over the     *)
(* list is one action.  Calls come from the kernel's only thread, one at a *)
(* time.  Arithmetic is modulo W, the width of uint64_t.                   *)
(***************************************************************************)
EXTENDS MemoryMap, FiniteSets, FiniteSetsExt

CONSTANTS
  W,              \* 2^64
  MEGABYTE,
  ROUND_OFF,      \* 64 MB, the unit the size of memory is rounded up to
  MAX_PMM_HEADER_PROPORTION,
  SECTION_SIZE,   \* sizeof(pmm_section_t)
  MAX_SLOTS,      \* bound: slots a table may have
  BiosAnswers,    \* what the BIOS may answer when it is asked for the map
  LowMemory,      \* what a section read at address 0 may hold
  Calls,          \* the operations callers use: of "alloc", "free", "lock" and "dump"
  PageCounts,     \* numbers of pages callers lock and unlock at once
  SPARE_SLOTS     \* bound: slots that must be left for every page of a call

ASSUME PMMAssumption ==
  /\ {W, MEGABYTE, ROUND_OFF, MAX_PMM_HEADER_PROPORTION, SECTION_SIZE} \subseteq Nat \ {0}
  /\ MAX_SLOTS \in Nat \ {0} /\ SPARE_SLOTS \in Nat \ {0, 1}
  /\ PAGE_SIZE <= MEGABYTE /\ MEGABYTE < W
  /\ Calls \subseteq {"alloc", "free", "lock", "dump"}
  /\ PageCounts \subseteq Nat \ {0}

NULL == -1
Slots == {NULL} \cup 0 .. MAX_SLOTS - 1
pmm_sections == 0

USED == 0
FREE == 1
BAD == 2

Section == [prev : Slots, next : Slots, start : 0 .. W - 1, pages : 0 .. W - 1, free : 0 .. W - 1]
Unlinked == [prev |-> NULL, next |-> NULL, start |-> 0, pages |-> 0, free |-> USED]

VARIABLES
  answers,       \* of the BIOS
  entries,       \* the list pmm_start is given
  list_page,     \* the page that list lives in
  table,         \* address of the table of sections
  data_size,     \* pmm_data_size, in bytes
  sec,           \* the table, and the section at address 0
  head,          \* _pmm_section_head
  free_memory,
  pc,            \* "boot", "entries", "recombine", "idle", "alloc", "free" or "lock"
  selected,      \* the loop variable: selected or current
  idx,           \* the loop variable of pmm_start
  detected,      \* the flag of pmm_recombine
  page, count,   \* the page of the call, and how many are left from it on
  in_use,        \* history: pages handed out or locked and not given back
  reserve        \* history: the first page handed out, which main() puts aside

mapVars == <<answers, entries, list_page, table, data_size>>
listVars == <<sec, head>>
callVars == <<page, count>>
bootVars == <<idx, detected>>
historyVars == <<in_use, reserve>>
vars == <<mapVars, listVars, free_memory, pc, selected, callVars, bootVars, historyVars>>

-----------------------------------------------------------------------------
(* Definitions named Name_Fault are faulty variants of Name: each breaks one *)
(* of the properties at the end of this module.                              *)

(* Sections and the table. *)
End(s) == (s.start + s.pages * PAGE_SIZE) % W

InUse(s, i) == s[i].prev # NULL \/ s[i].next # NULL

TableSlots == {i \in 0 .. MAX_SLOTS - 1 : i * SECTION_SIZE < data_size}

Reindex(s) ==
  LET unused == {i \in TableSlots : ~InUse(s, i)}
  IN  IF unused = {} THEN 0 ELSE Min(unused)

(* pmm_new_section: the slot it returns and the head it leaves. *)
NewSection(m) ==
  IF m.head * SECTION_SIZE >= data_size
  THEN [slot |-> NULL, head |-> m.head]
  ELSE LET i == IF InUse(m.sec, m.head) THEN Reindex(m.sec) ELSE m.head
       IN  IF InUse(m.sec, i) THEN [slot |-> NULL, head |-> i]
                              ELSE [slot |-> i, head |-> i + 1]

Delete(s, t) == [s EXCEPT ![t] = Unlinked]

(* pmm_section_split: the pages of t from address at on become a section of *)
(* their own, in a new slot.                                                *)
Split_NoNext(m, t, at) ==
  IF at >= End(m.sec[t])
  THEN m
  ELSE LET new   == NewSection(m)
           left  == (at - m.sec[t].start) \div PAGE_SIZE
       IN  [head |-> new.head,
            sec  |-> [m.sec EXCEPT
                        ![new.slot] = [prev |-> t, next |-> m.sec[t].next, start |-> at,
                                       pages |-> m.sec[t].pages - left, free |-> m.sec[t].free],
                        ![t].pages = left]]

Split_NoShrink(m, t, at) ==
  IF at >= End(m.sec[t])
  THEN m
  ELSE LET new   == NewSection(m)
           next  == m.sec[t].next
           left  == (at - m.sec[t].start) \div PAGE_SIZE
       IN  [head |-> new.head,
            sec  |-> [m.sec EXCEPT
                        ![next].prev = IF next = NULL THEN @ ELSE new.slot,
                        ![new.slot] = [prev |-> t, next |-> next, start |-> at,
                                       pages |-> m.sec[t].pages - left, free |-> m.sec[t].free],
                        ![t].next = new.slot]]

(* The section has pages from that address on. *)
SplitOff(m, t, at) ==
  LET new   == NewSection(m)
      next  == m.sec[t].next
      left  == (at - m.sec[t].start) \div PAGE_SIZE
      right == ((End(m.sec[t]) - at) % W) \div PAGE_SIZE
  IN  [head |-> new.head,
       sec  |-> [m.sec EXCEPT
                   ![next].prev = IF next = NULL THEN @ ELSE new.slot,
                   ![new.slot].prev = t,
                   ![new.slot].next = IF next = NULL THEN @ ELSE next,
                   ![new.slot].start = at,
                   ![new.slot].pages = (m.sec[t].pages - left) % W,
                   ![new.slot].free = m.sec[t].free,
                   ![t].next = new.slot,
                   ![t].pages = (@ - right) % W]]

Split(m, t, at) == IF at >= End(m.sec[t]) THEN m ELSE SplitOff(m, t, at)

(* pmm_section_combine_next: t disappears into the section after it. *)
CombineNext(s, t) ==
  LET next == s[t].next
  IN  IF next = NULL \/ s[t].free # s[next].free
      THEN s
      ELSE Delete([s EXCEPT ![next].start = s[t].start,
                            ![next].pages = (@ + s[t].pages) % W,
                            ![next].prev = s[t].prev,
                            ![s[t].prev].next = next],
                  t)

(* pmm_section_combine_prev: t disappears into the section before it. *)
CombinePrev(s, t) ==
  LET prev == s[t].prev
  IN  IF prev = NULL \/ s[t].free # s[prev].free
      THEN s
      ELSE Delete([s EXCEPT ![prev].pages = (@ + s[t].pages) % W,
                            ![prev].next = s[t].next,
                            ![s[t].next].prev = prev],
                  t)

(* The first page of the section at "from" moves to the end of "to", which  *)
(* precedes it.                                                             *)
MoveFirstPage(s, from, to) ==
  [s EXCEPT ![to].pages = (@ + 1) % W,
            ![from].pages = (@ - 1) % W,
            ![from].start = (@ + PAGE_SIZE) % W]

(* The last page of the section at "from" moves to the start of "to", which *)
(* follows it.                                                              *)
MoveLastPage(s, from, to) ==
  [s EXCEPT ![to].start = (@ - PAGE_SIZE) % W,
            ![to].pages = (@ + 1) % W,
            ![from].pages = (@ - 1) % W]

Mark(s, t, value) == [s EXCEPT ![t].free = value]

-----------------------------------------------------------------------------
UsableLength(list) ==
  MapThenSumSet(LAMBDA i : list[i].length,
                {i \in 1 .. Len(list) : list[i].type = TYPE_USABLE})

(* The size of the table, for a list of entries. *)
TableSize(list) == ALIGN(UsableLength(list), ROUND_OFF) \div MAX_PMM_HEADER_PROPORTION

(* pmm_interpret_signal *)
InterpretSignal_Raw(type) == type
InterpretSignal(type) ==
  CASE type = TYPE_RESERVED -> USED
    [] type = TYPE_USABLE   -> FREE
    [] OTHER                -> BAD

Pages(length) == length \div PAGE_SIZE + (IF length % PAGE_SIZE # 0 THEN 1 ELSE 0)

Made(bios) == MakeEntriesList(LoadMmap(bios))

(* What pmm_start takes for granted of a list of entries: the first starts   *)
(* at 0, they are sorted, one that gets a good section ends before the next  *)
(* starts and below the number that a section at address 0 starts at, the    *)
(* table has the slots that the list needs, and the pages of all gaps        *)
(* together can be counted.                                                  *)
Describable(list, low) ==
  /\ Len(list) \in Nat \ {0} /\ list[1].base = 0
  /\ \A i \in 1 .. Len(list) : list[i].base \in 0 .. W - 1 /\ list[i].length \in 1 .. W - 1
  /\ \A i \in 2 .. Len(list) :
       LET end == list[i].base + Pages(list[i].length) * PAGE_SIZE
       IN  /\ list[i - 1].base < list[i].base
           /\ \/ InterpretSignal(list[i].type) = BAD
              \/ end <= low.start /\ (i < Len(list) => end <= list[i + 1].base)
  /\ TableSize(list) \in Nat /\ (2 * Len(list) - 1) * SECTION_SIZE <= TableSize(list)
  /\ TableSize(list) <= MAX_SLOTS * SECTION_SIZE
  /\ 2 * Len(list) * (W \div PAGE_SIZE + 1) <= W

ASSUME BootAssumption ==
  \A low \in LowMemory :
    /\ low \in Section /\ low.free \notin {USED, FREE}
    /\ \A bios \in BiosAnswers : Describable(Made(bios).entries, low)

Init ==
  /\ answers \in BiosAnswers
  /\ entries = << >> /\ list_page = 0 /\ table = 0 /\ data_size = 0
  /\ \E low \in LowMemory : sec = [i \in Slots |-> IF i = NULL THEN low ELSE Unlinked]
  /\ head = 0 /\ free_memory = 0
  /\ pc = "boot" /\ selected = NULL /\ idx = 1 /\ detected = FALSE
  /\ page = 0 /\ count = 0 /\ in_use = {} /\ reserve = NULL

StartTable_LastFit ==
  LET made == Made(answers)
      size == TableSize(made.entries)
      fits == {i \in 1 .. Len(made.entries) :
                 made.entries[i].type = TYPE_USABLE /\ made.entries[i].length >= size}
  IN  /\ pc = "boot"
      /\ fits # {}
      /\ entries' = made.entries /\ list_page' = made.address
      /\ data_size' = size
      /\ table' = made.entries[Max(fits)].base
      /\ sec' = [sec EXCEPT ![pmm_sections] =
                   [prev |-> NULL, next |-> NULL, start |-> 0,
                    pages |-> MEGABYTE \div PAGE_SIZE, free |-> BAD]]
      /\ head' = 1
      /\ pc' = "entries" /\ selected' = pmm_sections /\ idx' = 1
      /\ UNCHANGED <<answers, free_memory, detected, callVars, historyVars>>

(* pmm_start up to its loop over the entries: size the table, place it in   *)
(* the first usable entry that can hold it, and describe the first megabyte.*)
StartTable ==
  LET made == Made(answers)
      size == TableSize(made.entries)
      fits == {i \in 1 .. Len(made.entries) :
                 made.entries[i].type = TYPE_USABLE /\ made.entries[i].length >= size}
  IN  /\ pc = "boot"
      /\ fits # {}
      /\ entries' = made.entries /\ list_page' = made.address
      /\ data_size' = size
      /\ table' = made.entries[Min(fits)].base
      /\ sec' = [sec EXCEPT ![pmm_sections] =
                   [prev |-> NULL, next |-> NULL, start |-> 0,
                    pages |-> MEGABYTE \div PAGE_SIZE, free |-> BAD]]
      /\ head' = 1
      /\ pc' = "entries" /\ selected' = pmm_sections /\ idx' = 1
      /\ UNCHANGED <<answers, free_memory, detected, callVars, historyVars>>

(* Link a section for the entry behind the current one. *)
AppendEntry(m, current, entry) ==
  LET new == NewSection(m)
  IN  [head |-> new.head, slot |-> new.slot,
       sec  |-> [m.sec EXCEPT
                   ![current].next = new.slot,
                   ![new.slot] = [prev |-> current, next |-> NULL,
                                  start |-> entry.base, pages |-> Pages(entry.length),
                                  free |-> InterpretSignal(entry.type)]]]

(* Put a bad section between the section at prev and the one at current. *)
FillGap_Free(m, prev, current) ==
  LET new == NewSection(m)
      at  == End(m.sec[prev])
  IN  [head |-> new.head,
       sec  |-> [m.sec EXCEPT
                   ![prev].next = new.slot,
                   ![new.slot] = [prev |-> prev, next |-> current, start |-> at,
                                  pages |-> Pages((m.sec[current].start - at) % W),
                                  free |-> m.sec[current].free],
                   ![current].prev = new.slot]]

FillGap(m, prev, current) ==
  LET new == NewSection(m)
      at  == End(m.sec[prev])
  IN  [head |-> new.head,
       sec  |-> [m.sec EXCEPT
                   ![prev].next = new.slot,
                   ![new.slot] = [prev |-> prev, next |-> current, start |-> at,
                                  pages |-> Pages((m.sec[current].start - at) % W),
                                  free |-> BAD],
                   ![current].prev = new.slot]]

SetList(m) == sec' = m.sec /\ head' = m.head

(* An entry that starts where the current section does is passed over. *)
SkipEntry ==
  /\ pc = "entries" /\ idx <= Len(entries)
  /\ entries[idx].base = sec[selected].start
  /\ idx' = idx + 1
  /\ UNCHANGED <<mapVars, listVars, free_memory, pc, selected, detected, callVars, historyVars>>

AddEntry ==
  LET m == AppendEntry([sec |-> sec, head |-> head], selected, entries[idx])
  IN  /\ pc = "entries" /\ idx <= Len(entries)
      /\ entries[idx].base # sec[selected].start
      /\ SetList(IF End(m.sec[selected]) # m.sec[m.slot].start
                 THEN FillGap(m, selected, m.slot) ELSE m)
      /\ selected' = m.slot
      /\ idx' = idx + 1
      /\ UNCHANGED <<mapVars, free_memory, pc, detected, callVars, historyVars>>

StartRecombine ==
  /\ pc = "entries" /\ idx > Len(entries)
  /\ pc' = "recombine" /\ selected' = pmm_sections /\ detected' = FALSE
  /\ UNCHANGED <<mapVars, listVars, free_memory, idx, callVars, historyVars>>

(* pmm_recalculate_free_memory, of a list whose unlinked slots are cleared. *)
FreeSlots == {i \in Slots \ {NULL} : sec[i].free = FREE}
Recalculated == MapThenSumSet(LAMBDA i : sec[i].pages * PAGE_SIZE, FreeSlots) % W

(* A turn of pmm_recombine that merges the next section into the current    *)
(* one, and then steps over it.                                             *)
RecombineMerge ==
  LET next  == sec[selected].next
      after == sec[next].next
      grown == [sec EXCEPT ![selected].pages = (@ + sec[next].pages) % W,
                           ![selected].next = after]
  IN  /\ pc = "recombine" /\ selected # NULL /\ next # NULL
      /\ sec[selected].free = sec[next].free
      /\ sec' = IF after # NULL
                THEN [Delete(grown, sec[after].prev) EXCEPT ![after].prev = selected]
                ELSE Delete(grown, next)
      /\ detected' = TRUE
      /\ selected' = after
      /\ UNCHANGED <<mapVars, head, free_memory, pc, idx, callVars, historyVars>>

RecombineSkip ==
  /\ pc = "recombine" /\ selected # NULL /\ sec[selected].next # NULL
  /\ sec[selected].free # sec[sec[selected].next].free
  /\ selected' = sec[selected].next
  /\ UNCHANGED <<mapVars, listVars, free_memory, pc, bootVars, callVars, historyVars>>

(* The end of a pass of pmm_recombine: go round again if anything was       *)
(* merged; otherwise pmm_start counts the free memory and returns.          *)
RecombineEnd_OnePass ==
  /\ pc = "recombine"
  /\ selected = NULL \/ (selected # NULL /\ sec[selected].next = NULL)
  /\ pc' = "idle" /\ selected' = NULL /\ free_memory' = Recalculated /\ detected' = FALSE
  /\ UNCHANGED <<mapVars, listVars, idx, callVars, historyVars>>

RecombineEnd ==
  /\ pc = "recombine"
  /\ selected = NULL \/ (selected # NULL /\ sec[selected].next = NULL)
  /\ IF detected
     THEN pc' = pc /\ selected' = pmm_sections /\ UNCHANGED free_memory
     ELSE pc' = "idle" /\ selected' = NULL /\ free_memory' = Recalculated
  /\ detected' = FALSE
  /\ UNCHANGED <<mapVars, listVars, idx, callVars, historyVars>>

-----------------------------------------------------------------------------
(* The calls.  A caller gives back only pages it has, and locks only pages  *)
(* that are free.                                                           *)
PagesOf(t) == {sec[t].start + k * PAGE_SIZE : k \in 0 .. sec[t].pages - 1}

FreePages == UNION {PagesOf(t) : t \in FreeSlots}

PageRun(p, n) == {p + k * PAGE_SIZE : k \in 0 .. n - 1}

(* pmm_dump counts the free memory anew, before it prints it. *)
PmmDump ==
  /\ pc = "idle" /\ "dump" \in Calls
  /\ free_memory' = Recalculated
  /\ UNCHANGED <<mapVars, listVars, pc, selected, callVars, bootVars, historyVars>>

Begin(call, p, n) ==
  /\ pc = "idle" /\ call \in Calls
  /\ (head + SPARE_SLOTS * n) * SECTION_SIZE <= data_size
  /\ pc' = call /\ selected' = pmm_sections
  /\ page' = p /\ count' = n
  /\ UNCHANGED <<mapVars, listVars, free_memory, bootVars, reserve>>

AllocPage == Begin("alloc", 0, 1) /\ UNCHANGED in_use

(* pmm_unlock_pages; of one page, pmm_free_page and pmm_unlock_page. *)
UnlockPages(p, n) ==
  /\ PageRun(p, n) \subseteq in_use
  /\ Begin("free", p, n)
  /\ in_use' = in_use \ PageRun(p, n)

(* pmm_lock_pages; of one page, pmm_lock_page. *)
LockPages(p, n) ==
  /\ PageRun(p, n) \subseteq FreePages
  /\ Begin("lock", p, n)
  /\ UNCHANGED in_use

(* The call for one page returns: on to the next page, or to the caller. *)
PageDone ==
  /\ IF count > 1
     THEN page' = page + PAGE_SIZE /\ count' = count - 1 /\ selected' = pmm_sections /\ pc' = pc
     ELSE page' = 0 /\ count' = 0 /\ selected' = NULL /\ pc' = "idle"
  /\ UNCHANGED <<mapVars, bootVars, reserve>>

(* The loop goes on with the section after t. *)
Continue(t) ==
  /\ selected' = sec'[t].next
  /\ UNCHANGED <<mapVars, free_memory, pc, callVars, bootVars, historyVars>>

Visiting(call) == pc = call /\ selected # NULL
AtStart == sec[selected].start = page
Inside == sec[selected].start < page /\ sec[sec[selected].next].start > page
LastPage == (sec[sec[selected].next].start - PAGE_SIZE) % W = page
List == [sec |-> sec, head |-> head]

-----------------------------------------------------------------------------
(* pmm_alloc_page *)

AllocUnlink_Stops ==
  LET prev == sec[selected].prev
      next == sec[selected].next
  IN  /\ Visiting("alloc") /\ sec[selected].pages = 0
      /\ sec' = Delete([sec EXCEPT ![next].prev = prev, ![prev].next = next], selected)
      /\ selected' = NULL
      /\ UNCHANGED <<mapVars, head, free_memory, pc, callVars, bootVars, historyVars>>

AllocUnlink_Stays ==
  /\ Visiting("alloc") /\ sec[selected].pages = 0
  /\ UNCHANGED vars

(* An empty section is unlinked on the way. *)
AllocUnlink ==
  LET prev == sec[selected].prev
      next == sec[selected].next
  IN  /\ Visiting("alloc") /\ sec[selected].pages = 0
      /\ sec' = Delete([sec EXCEPT ![next].prev = prev, ![prev].next = next], selected)
      /\ selected' = next
      /\ UNCHANGED <<mapVars, head, free_memory, pc, callVars, bootVars, historyVars>>

AllocSkip ==
  /\ Visiting("alloc") /\ sec[selected].pages # 0 /\ sec[selected].free # FREE
  /\ UNCHANGED listVars
  /\ Continue(selected)

(* The first page of a free section goes to the used section before it, or  *)
(* becomes a used section of its own.                                       *)
AllocTake ==
  LET base == sec[selected].start
      m    == Split(List, selected, (base + PAGE_SIZE) % W)
  IN  /\ Visiting("alloc") /\ sec[selected].pages # 0 /\ sec[selected].free = FREE
      /\ IF sec[sec[selected].prev].free = USED
         THEN sec' = MoveFirstPage(sec, selected, sec[selected].prev) /\ UNCHANGED head
         ELSE SetList([m EXCEPT !.sec = Mark(m.sec, selected, USED)])
      /\ free_memory' = IF base # 0 THEN (free_memory - PAGE_SIZE) % W ELSE free_memory
      /\ in_use' = in_use \cup {base}
      /\ reserve' = IF reserve = NULL THEN base ELSE reserve
      /\ pc' = "idle" /\ selected' = NULL /\ page' = 0 /\ count' = 0
      /\ UNCHANGED <<mapVars, bootVars>>

(* No section is free: pmm_alloc_page returns 0. *)
AllocNone ==
  /\ pc = "alloc" /\ selected = NULL
  /\ PageDone
  /\ UNCHANGED <<listVars, free_memory, in_use>>

-----------------------------------------------------------------------------
(* pmm_free_page *)

FreeAgain ==
  /\ Visiting("free") /\ sec[selected].free = FREE /\ (AtStart \/ Inside)
  /\ PageDone
  /\ UNCHANGED <<listVars, free_memory, in_use>>

(* The page is a section of its own. *)
ReleaseSingle(s, t) ==
  LET prev == s[t].prev
      next == s[t].next
  IN  CASE s[prev].free = FREE /\ s[next].free = FREE -> CombinePrev(CombineNext(s, t), prev)
        [] s[prev].free = FREE /\ s[next].free # FREE -> CombinePrev(s, t)
        [] s[prev].free # FREE /\ s[next].free = FREE -> CombineNext(s, t)
        [] OTHER                                      -> Mark(s, t, FREE)

FreeSingle ==
  /\ Visiting("free") /\ AtStart /\ sec[selected].free # FREE /\ sec[selected].pages = 1
  /\ sec' = ReleaseSingle(sec, selected)
  /\ PageDone
  /\ UNCHANGED <<head, free_memory, in_use>>

(* The page is the first of several: it joins a free section before it, or  *)
(* is split off and stays as it was.                                        *)
FreeFirst ==
  /\ Visiting("free") /\ AtStart /\ sec[selected].free # FREE /\ sec[selected].pages # 1
  /\ IF sec[sec[selected].prev].free = FREE
     THEN sec' = MoveFirstPage(sec, selected, sec[selected].prev) /\ UNCHANGED head
     ELSE SetList(Split(List, selected, (page + PAGE_SIZE) % W))
  /\ PageDone
  /\ UNCHANGED <<free_memory, in_use>>

(* The page is the last of several. *)
FreeLast ==
  LET next == sec[selected].next
      cut  == Split(List, selected, page)
      mid  == cut.sec[selected].next
      m    == Split(cut, mid, (cut.sec[mid].start + PAGE_SIZE) % W)
  IN  /\ Visiting("free") /\ ~AtStart /\ Inside /\ LastPage /\ sec[selected].free # FREE
      /\ IF sec[next].free = FREE
         THEN sec' = MoveLastPage(sec, selected, next) /\ UNCHANGED head /\ Continue(selected)
         ELSE SetList([m EXCEPT !.sec = Mark(m.sec, mid, FREE)]) /\ Continue(mid)

(* Sections that end before the page or start behind it; and the section    *)
(* the page is in the middle of, which the code leaves alone.               *)
FreeSkip ==
  /\ Visiting("free") /\ ~AtStart
  /\ Inside => ~LastPage /\ sec[selected].free # FREE
  /\ UNCHANGED listVars
  /\ Continue(selected)

FreeEnd ==
  /\ pc = "free" /\ selected = NULL
  /\ free_memory' = (free_memory + PAGE_SIZE) % W
  /\ PageDone
  /\ UNCHANGED <<listVars, in_use>>

-----------------------------------------------------------------------------
(* pmm_lock_page *)
Locked == in_use' = in_use \cup {page}

LockSingleSection(s, t) ==
  LET prev   == s[t].prev
      next   == s[t].next
      marked == Mark(s, t, USED)
  IN  CASE marked[prev].free = USED /\ marked[next].free = USED ->
             CombinePrev(CombineNext(marked, t), prev)
        [] marked[prev].free = USED /\ marked[next].free # USED -> CombinePrev(marked, t)
        [] marked[prev].free # USED /\ marked[next].free = USED -> CombineNext(marked, t)
        [] OTHER                                                -> marked

LockSingle ==
  /\ Visiting("lock") /\ AtStart /\ sec[selected].pages = 1
  /\ sec' = LockSingleSection(sec, selected)
  /\ Locked /\ PageDone
  /\ UNCHANGED <<head, free_memory>>

LockAgain ==
  /\ Visiting("lock") /\ sec[selected].free = USED
  /\ (AtStart /\ sec[selected].pages # 1) \/ (~AtStart /\ Inside)
  /\ Locked /\ PageDone
  /\ UNCHANGED <<listVars, free_memory>>

LockFirst ==
  LET m == Split(List, selected, (page + PAGE_SIZE) % W)
  IN  /\ Visiting("lock") /\ AtStart /\ sec[selected].pages # 1 /\ sec[selected].free # USED
      /\ IF sec[sec[selected].prev].free = USED
         THEN /\ sec' = MoveFirstPage(sec, selected, sec[selected].prev)
              /\ Locked /\ PageDone
              /\ UNCHANGED <<head, free_memory>>
         ELSE SetList([m EXCEPT !.sec = Mark(m.sec, selected, USED)]) /\ Continue(selected)

LockLast ==
  LET next == sec[selected].next
      cut  == Split(List, selected, page)
      mid  == cut.sec[selected].next
  IN  /\ Visiting("lock") /\ ~AtStart /\ Inside /\ LastPage /\ sec[selected].free # USED
      /\ IF sec[next].free = USED
         THEN sec' = MoveLastPage(sec, selected, next) /\ UNCHANGED head /\ Continue(selected)
         ELSE SetList([cut EXCEPT !.sec = Mark(cut.sec, mid, USED)]) /\ Continue(mid)

LockMiddle_OneSplit ==
  LET cut == Split(List, selected, page)
      mid == cut.sec[selected].next
  IN  /\ Visiting("lock") /\ ~AtStart /\ Inside /\ ~LastPage /\ sec[selected].free # USED
      /\ SetList([cut EXCEPT !.sec = Mark(cut.sec, mid, USED)])
      /\ Continue(mid)

LockMiddle ==
  LET cut == Split(List, selected, page)
      mid == cut.sec[selected].next
      m   == Split(cut, mid, (cut.sec[mid].start + PAGE_SIZE) % W)
  IN  /\ Visiting("lock") /\ ~AtStart /\ Inside /\ ~LastPage /\ sec[selected].free # USED
      /\ SetList([m EXCEPT !.sec = Mark(m.sec, mid, USED)])
      /\ Continue(mid)

LockSkip ==
  /\ Visiting("lock") /\ ~AtStart /\ ~Inside
  /\ UNCHANGED listVars
  /\ Continue(selected)

LockEnd ==
  /\ pc = "lock" /\ selected = NULL
  /\ Locked /\ PageDone
  /\ UNCHANGED <<listVars, free_memory>>

-----------------------------------------------------------------------------
Start == StartTable \/ SkipEntry \/ AddEntry \/ StartRecombine \/ RecombineMerge
         \/ RecombineSkip \/ RecombineEnd
AllocTurn == AllocUnlink \/ AllocSkip \/ AllocTake \/ AllocNone
FreeTurn == FreeAgain \/ FreeSingle \/ FreeFirst \/ FreeLast \/ FreeSkip \/ FreeEnd
LockTurn == LockSingle \/ LockAgain \/ LockFirst \/ LockLast \/ LockMiddle \/ LockSkip \/ LockEnd

Turn == Start \/ AllocTurn \/ FreeTurn \/ LockTurn

Next ==
  \/ Turn
  \/ AllocPage \/ PmmDump
  \/ \E p \in in_use, n \in PageCounts : UnlockPages(p, n)
  \/ \E p \in FreePages, n \in PageCounts : LockPages(p, n)

Spec == Init /\ [][Next]_vars

(* pmm_start and every call keep the processor until they return. *)
FairSpec == Spec /\ WF_vars(Turn)

-----------------------------------------------------------------------------
Started == pc \notin {"boot", "entries", "recombine"}

(* The variables have their types, and every slot holds a section of a known *)
(* kind: sections with garbage in them come only from reading address 0.     *)
TypeOK ==
  /\ sec \in [Slots -> Section]
  /\ \A i \in Slots \ {NULL} : sec[i].free \in {USED, FREE, BAD}
  /\ head \in 0 .. MAX_SLOTS /\ selected \in Slots
  /\ free_memory \in 0 .. W - 1
  /\ pc \in {"boot", "entries", "recombine", "idle"} \cup Calls

(* The list survives every split and merge: links agree in both directions,  *)
(* only the first section has none before it, and the sections are sorted by *)
(* address, a section that is not bad ending where the next starts at the    *)
(* latest.                                                                   *)
Linked ==
  Started => \A i \in TableSlots :
    LET s == sec[i]
    IN  /\ s.next # NULL => /\ sec[s.next].prev = i
                            /\ s.start <= sec[s.next].start
                            /\ s.free # BAD => s.start + s.pages * PAGE_SIZE <= sec[s.next].start
        /\ s.prev # NULL => sec[s.prev].next = i
        /\ InUse(sec, i) => (s.prev = NULL <=> i = pmm_sections)

(* A page that somebody holds is in no free section, so that pmm_alloc_page  *)
(* cannot hand it out a second time, and no two free sections share a page.  *)
UsedNeverFree ==
  /\ pc # "free" => in_use \cap FreePages = {}
  /\ pc = "free" => in_use \cap (FreePages \ {page}) = {}
  /\ \A s, t \in FreeSlots : s # t => PagesOf(s) \cap PagesOf(t) = {}

Pool ==
  INSTANCE FramePool WITH
    free <- IF Started THEN FreePages ELSE {},
    held <- in_use,
    call <- IF pc \in Calls THEN pc ELSE IF Started THEN "none" ELSE "start",
    moving <- IF pc \in {"free", "lock"} THEN PageRun(page, count) ELSE {}

(* The list of sections behaves like a pool of pages: pmm_alloc_page hands   *)
(* out the lowest free page, and none only when none is left, however many   *)
(* sections it unlinks on its way, and a call moves nothing but the pages it *)
(* was called with, whatever sections they are split from or merged with.    *)
PoolSpec == Pool!Spec

Offered == {LAST_ENTRY} \cup {answers[i] : i \in {j \in 1 .. Len(answers) : answers[j].valid}}

(* What the kernel takes for granted of a map: an answer too short to say    *)
(* that it is not valid leaves the flag that load_mmap set; alloc() finds an *)
(* entry, and make_entries_list() as many as it copies; usable entries have  *)
(* whole pages, but for the one of low memory, and share no byte.            *)
Tidy(bios) ==
  LET mmap   == LoadMmap(bios)
      all    == Append(mmap, LAST_ENTRY)
      usable == {i \in 1 .. Len(all) : all[i].type = TYPE_USABLE}
  IN  /\ bios \in Seq([base : Nat, length : Nat, type : Nat, size : Nat, valid : BOOLEAN])
      /\ \A i \in 1 .. Len(bios) : bios[i].size <= SHORT_ENTRY => bios[i].valid
      /\ Suitable(mmap, PAGE_SIZE) # {} /\ LIST_ENTRIES <= Len(mmap)
      /\ \A i \in usable : all[i].base # 0 => all[i].length % PAGE_SIZE = 0
      /\ \A i, j \in usable :
           i = j \/ all[i].base + all[i].length <= all[j].base
                 \/ all[j].base + all[j].length <= all[i].base

TidyMaps == \A bios \in BiosAnswers : Tidy(bios)

(* Every page that may be handed out lies inside an entry that the BIOS      *)
(* reports as usable and valid, or in the one that make_entries_list() adds, *)
(* whatever gaps and overlaps the other entries have, and it is not the page *)
(* of the list of entries, which paging_load_kernel_map reads after pages    *)
(* have been handed out.  This is of maps that are Tidy.                     *)
FreeUsable ==
  Started => \A p \in FreePages :
    /\ p # list_page
    /\ \E entry \in Offered :
         /\ entry.type = TYPE_USABLE
         /\ entry.base <= p /\ p + PAGE_SIZE <= entry.base + entry.length

(* The slots that hold sections are never inside a page handed out, but for  *)
(* the first one, which main() puts aside for this purpose.                  *)
SectionsKept ==
  \A i \in TableSlots, p \in in_use \ {reserve} :
    InUse(sec, i) => \/ table + (i + 1) * SECTION_SIZE <= p
                     \/ p + PAGE_SIZE <= table + i * SECTION_SIZE

(* When pmm_start returns, no two sections next to each other are alike, and *)
(* free_memory is the memory in the free ones.                               *)
Recombined ==
  [][pc = "recombine" /\ pc' = "idle" =>
       /\ \A i \in TableSlots : sec[i].next # NULL => sec[i].free # sec[sec[i].next].free
       /\ free_memory' = Recalculated]_vars

(* pmm_start and every call on the list return.                              *)
CallsReturn == pc # "idle" ~> pc = "idle"

(* What a comment in the code says of it, and a run refutes.                 *)

(* pmm.h:36: the table, 1 MB for 64 MB, serves the maximum load.  So when    *)
(* pmm_new_section has no more slots to give, all of them are in use.        *)
TableServesMaximumLoad ==
  Started /\ head * SECTION_SIZE >= data_size => \A i \in TableSlots : InUse(sec, i)
=============================================================================
