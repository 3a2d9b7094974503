----------------------------- MODULE MemoryMap -----------------------------
(***************************************************************************)
(* The memory map that the kernel hands to its page frame allocator: the   *)
(* first entries the BIOS reports, as src/src/boot/mmap_ach.s stores them, *)
(* with the pages of the early allocator src/src/boot/mmap.c taken off,    *)
(* and one more entry that src/src/pmm/full_mmap.c adds.  Addresses and    *)
(* lengths are bytes.                                                      *)
(***************************************************************************)
EXTENDS Integers, Sequences

CONSTANTS
  PAGE_SIZE,
  LIST_ENTRIES,   \* 6, the entries of the BIOS that make_entries_list() copies
  LAST_ENTRY      \* the entry it adds: 2 GB of usable memory at 4 GB

TYPE_USABLE == 1
TYPE_RESERVED == 2

(* What the BIOS answers when it is asked for the next entry: an entry, how  *)
(* many bytes of it there are, and, behind the first 20 of them, whether     *)
(* the entry is to be used at all.                                           *)
SHORT_ENTRY == 20

Entry == [base : Nat, length : Nat, type : Nat]

ASSUME MapAssumption ==
  /\ PAGE_SIZE \in Nat \ {0}
  /\ LIST_ENTRIES \in Nat
  /\ LAST_ENTRY \in Entry

Stores(answer) == answer.size # 0 /\ (answer.size <= SHORT_ENTRY \/ answer.valid) /\ answer.length # 0

(* load_mmap: the entries of the answers, up to the one that the BIOS marks  *)
(* as its last or fails to give, of which there are at least two.            *)
LoadMmap(answers) ==
  LET stored[n \in 0 .. Len(answers)] ==
        IF n = 0 THEN << >>
        ELSE IF Stores(answers[n]) THEN Append(stored[n - 1], answers[n]) ELSE stored[n - 1]
  IN  stored[Len(answers)]

ALIGN(num, align) == IF num % align = 0 THEN num ELSE num - (num % align) + align

(* alloc: the last usable entry that is longer than the page-aligned length *)
(* is shortened by it.  The caller's map has such an entry.                 *)
Suitable(mmap, length) ==
  {i \in 1 .. Len(mmap) : mmap[i].type = TYPE_USABLE /\ mmap[i].length > length}

Chosen(mmap, length) ==
  CHOOSE i \in Suitable(mmap, length) : \A j \in Suitable(mmap, length) : j <= i

Alloc_Keeps(mmap, length) ==
  LET i == Chosen(mmap, ALIGN(length, PAGE_SIZE))
  IN  [address |-> ALIGN(mmap[i].base + mmap[i].length - ALIGN(length, PAGE_SIZE), PAGE_SIZE),
       mmap    |-> mmap]

Alloc(mmap, length) ==
  LET len == ALIGN(length, PAGE_SIZE)
      i   == Chosen(mmap, len)
  IN  [address |-> ALIGN(mmap[i].base + mmap[i].length - len, PAGE_SIZE),
       mmap    |-> [mmap EXCEPT ![i].length = @ - len]]

(* make_entries_list: the list lives in memory from alloc() and its entries *)
(* are copied after that memory was taken off the map.                      *)
LIST_SIZE == 1    \* 280 bytes, less than a page

MakeEntriesList(mmap) ==
  LET taken == Alloc(mmap, LIST_SIZE)
  IN  [address |-> taken.address,
       entries |-> Append(SubSeq(taken.mmap, 1, LIST_ENTRIES), LAST_ENTRY)]
=============================================================================
