------------------------------ MODULE PMMProofs ------------------------------
(***************************************************************************)
(* Theorems about PMM.  The lemmas about the list of sections are about    *)
(* any table s and any order r of its slots, so that they can be applied   *)
(* to the tables before and after a step, and to those in between.         *)
(***************************************************************************)
EXTENDS PMM, NaturalFacts, FiniteSetTheorems, TLAPS

-----------------------------------------------------------------------------
(* The slots of the table. *)
Real == 0 .. MAX_SLOTS - 1

(* The slots in the list. *)
Lives(s) == {i \in Real : i = pmm_sections \/ s[i].prev # NULL}

(* A good section: used or free. *)
Plain(s, i) == s[i].free \in {USED, FREE}

(* Where section i ends, without the wrap of End. *)
EndOf(s, i) == s[i].start + s[i].pages * PAGE_SIZE

(* Links agree in both directions, and slots outside the list are cleared. *)
Wired(s) ==
  /\ s[pmm_sections].prev = NULL
  /\ \A i \in Real \ Lives(s) : s[i] = Unlinked
  /\ \A i \in Lives(s) : s[i].next # NULL => s[i].next \in Lives(s) /\ s[s[i].next].prev = i
  /\ \A i \in Lives(s) : s[i].prev # NULL => s[i].prev \in Lives(s) /\ s[s[i].prev].next = i

(* r orders the list: the next section of i is the least of those above it. *)
Ordered(s, r) ==
  /\ r \in [Real -> Nat]
  /\ \A i, j \in Lives(s) : r[i] = r[j] => i = j
  /\ \A i \in Lives(s) : r[pmm_sections] <= r[i]
  /\ \A i, j \in Lives(s) : s[i].next = NULL => r[j] <= r[i]
  /\ \A i, j \in Lives(s) :
       s[i].next # NULL => r[i] < r[s[i].next] /\ (r[j] <= r[i] \/ r[s[i].next] <= r[j])

(* What a section at address 0 holds is of no kind, and the first section is *)
(* bad: so that comparing a good section's kind with a missing neighbour's,  *)
(* or with the first one's, fails.                                           *)
Typed(s) ==
  /\ s \in [Slots -> Section]
  /\ s[NULL].free \notin {USED, FREE}
  /\ \A i \in Real : s[i].free \in {USED, FREE, BAD}
  /\ s[pmm_sections].free = BAD

(* A good section ends where the next one starts. *)
Close(s) ==
  \A i \in Lives(s) : Plain(s, i) =>
    /\ EndOf(s, i) <= s[NULL].start
    /\ s[i].next # NULL => EndOf(s, i) = s[s[i].next].start

(* Only a free section may be empty: pmm_alloc_page leaves it, and unlinks   *)
(* it on its way later.                                                      *)
Filled(s) == \A i \in Lives(s) : s[i].free # FREE => s[i].pages # 0

(* No two free sections are neighbours. *)
Apart(s) ==
  \A i \in Lives(s) : s[i].next # NULL => s[i].free # FREE \/ s[s[i].next].free # FREE

(* Sections later in the order lie at higher addresses, behind the good ones *)
(* before them.                                                              *)
Placed(s, r) ==
  \A i, j \in Lives(s) : r[i] < r[j] =>
    IF Plain(s, i) THEN EndOf(s, i) <= s[j].start ELSE s[i].start < s[j].start

(* What every call of the manager leaves of the list. *)
Neat(s, r) == Typed(s) /\ Wired(s) /\ Ordered(s, r) /\ Close(s) /\ Filled(s) /\ Placed(s, r)

(* While pmm_start builds the list. *)
Counted(s, r) ==
  /\ \A i \in Lives(s) : s[i].pages # 0
  /\ \A i \in Lives(s) : s[i].next # NULL => r[i] + s[i].pages <= r[s[i].next]

(* More pages than any section has. *)
M == W \div PAGE_SIZE + 1

(* A section that starts at an address of its own.  A bad entry may overlap  *)
(* the next one; what fills the gap between the two then starts behind it.   *)
Firm(s, i) == i = pmm_sections \/ Plain(s, i) \/ Plain(s, s[i].prev)

(* The firm sections rise in the order of the list. *)
Rising(s, r) ==
  \A i, j \in Lives(s) : Firm(s, i) /\ Firm(s, j) /\ r[i] < r[j] => s[i].start < s[j].start

(* What pmm_start keeps of the list while it builds it. *)
Draft(s, r) == Typed(s) /\ Wired(s) /\ Ordered(s, r) /\ Counted(s, r) /\ Rising(s, r)

(* What lies at address 0 stays what it was. *)
Low(s) == \E low \in LowMemory : s[NULL].start = low.start /\ s[NULL].free = low.free

(* Slots from h on have not been given out. *)
DeadFrom(s, h) == \A i \in Real : i >= h => i \notin Lives(s)

(* A list that pmm_start builds, when h slots of the table are in use. *)
Built(s, r, h) ==
  /\ Draft(s, r) /\ Close(s)
  /\ \A i \in Lives(s) : r[i] + s[i].pages <= M * h

(* x is the last section: it starts at b, and ends at e if it is good. *)
AtEnd(s, x, b, e) ==
  /\ x \in Lives(s) /\ s[x].next = NULL /\ s[x].start = b
  /\ \A i \in Lives(s) : Firm(s, i) => s[i].start <= b
  /\ Plain(s, x) => EndOf(s, x) <= e

(* Entry k is the next one that pmm_start looks at. *)
BaseBefore(list, k) == IF k = 1 THEN 0 ELSE list[k - 1].base
(* The address at which entry k starts, or one that all sections end before. *)
BaseFrom(list, k, last) == IF k <= Len(list) THEN list[k].base ELSE last

(* The sections before x differ from the next ones. *)
Distinct(s, r, x) ==
  /\ x # NULL
  /\ \A i \in Lives(s) : r[i] < r[x] /\ s[i].next # NULL => s[i].free # s[s[i].next].free

(* What holds while pmm_start runs. *)
BootInv(r) ==
  /\ pc = "boot" => /\ sec \in [Slots -> Section] /\ \A i \in Real : sec[i] = Unlinked
                    /\ head = 0 /\ data_size = 0 /\ selected = NULL
  /\ pc \in {"entries", "recombine"} =>
       Built(sec, r, head) /\ selected \in Lives(sec) \cup {NULL}
  /\ pc = "entries" =>
       /\ idx \in 1 .. Len(entries) + 1
       /\ head <= 2 * idx - 1 /\ (idx > 1 => head <= 2 * idx - 3)
       /\ idx = 1 => selected = pmm_sections
       /\ AtEnd(sec, selected, BaseBefore(entries, idx), BaseFrom(entries, idx, sec[NULL].start))
  /\ pc = "recombine" =>
       /\ head <= 2 * Len(entries) - 1
       /\ ~detected => Distinct(sec, r, selected)

(* p is a page of section i. *)
Within(s, i, p) == p \in PageRun(s[i].start, s[i].pages)

(* p is a page of a section of a kind. *)
Held(s, kind, p) == \E i \in Lives(s) : s[i].free = kind /\ Within(s, i, p)

(* The table has n more slots. *)
Room(n) == (head + n) * SECTION_SIZE <= data_size

(* Of a call to free or to lock n pages from p on: the pages but the first. *)
Due(s, kind, p, n) ==
  /\ p \in Nat /\ n \in Nat \ {0}
  /\ \A k \in 1 .. n - 1 : Held(s, kind, p + k * PAGE_SIZE)

(* The loop has not passed the section of page p yet. *)
Seeking(s, r, x, kind, p) ==
  x # NULL /\ \E f \in Lives(s) : s[f].free = kind /\ Within(s, f, p) /\ r[x] <= r[f]

(* It is past that section. *)
Beyond(s, x, p) == x = NULL \/ (x # NULL /\ s[x].start > p)

(* What holds while pmm_free_page runs: before it finds the section of its   *)
(* page there are slots left for two splits; then the page is behind it, or  *)
(* in a free section that it visits.                                         *)
FreeInv(r) ==
  /\ Due(sec, USED, page, count) /\ PageRun(page, count) \cap in_use = {}
  /\ \/ Seeking(sec, r, selected, USED, page) /\ Room(SPARE_SLOTS * (count - 1) + 2)
     \/ /\ Room(SPARE_SLOTS * (count - 1))
        /\ \/ Beyond(sec, selected, page)
           \/ selected # NULL /\ sec[selected].free = FREE /\ sec[selected].start = page

(* What holds while pmm_lock_page runs. *)
LockInv(r) ==
  /\ Due(sec, FREE, page, count)
  /\ \/ Seeking(sec, r, selected, FREE, page) /\ Room(SPARE_SLOTS * (count - 1) + 2)
     \/ /\ Room(SPARE_SLOTS * (count - 1)) /\ Held(sec, USED, page)
        /\ \/ Beyond(sec, selected, page)
           \/ /\ selected # NULL /\ sec[selected].free = USED
              /\ sec[selected].start = page /\ sec[selected].pages # 1

(* What holds once pmm_start has returned. *)
CallInv(r) ==
  Started =>
    /\ Neat(sec, r) /\ Apart(sec)
    /\ \A p \in in_use : Held(sec, USED, p)
    /\ selected \in Lives(sec) \cup {NULL}
    /\ pc = "alloc" => count = 1 /\ Room(2)
         /\ \A i \in Lives(sec) : selected = NULL \/ r[i] < r[selected] => sec[i].free # FREE \/ sec[i].pages = 0
    /\ pc = "free" => FreeInv(r)
    /\ pc = "lock" => LockInv(r)

(* What holds of the table and of the map it was made from. *)
MapInv ==
  /\ answers \in BiosAnswers
  /\ pc # "boot" => entries = Made(answers).entries /\ data_size = TableSize(entries)
  /\ Low(sec)
  /\ head \in Nat /\ head * SECTION_SIZE <= data_size
  /\ pc # "boot" => DeadFrom(sec, head)
  /\ pc \in {"boot", "entries", "recombine"} => in_use = {}
  /\ pc \in {"boot", "entries", "recombine", "idle"} \cup (Calls \ {"dump"})

(* The inductive invariant, of a list that r orders. *)
IInv(r) == MapInv /\ BootInv(r) /\ CallInv(r)

-----------------------------------------------------------------------------
(* Slots are the real ones and the one that stands for address 0. *)
LEMMA SlotFacts ==
  /\ Slots = Real \cup {NULL} /\ NULL \notin Real /\ pmm_sections \in Real
  /\ \A s : Lives(s) \subseteq Real /\ pmm_sections \in Lives(s)
BY PMMAssumption DEF Slots, Real, NULL, pmm_sections, Lives

(* What unlinking a slot does to the links. *)
Unlinks(s, new, t) ==
  /\ new[t] = Unlinked
  /\ \A i \in Real : i # t =>
       /\ new[i].prev = IF i = s[t].next THEN s[t].prev ELSE s[i].prev
       /\ new[i].next = IF i = s[t].prev THEN s[t].next ELSE s[i].next
       /\ i \notin Lives(s) => new[i] = s[i]

(* Without one of its slots, the list is a list in the same order. *)
LEMMA UnlinkedList ==
  ASSUME NEW s, NEW new, NEW r, NEW t \in Lives(s), t # pmm_sections,
         Wired(s), Ordered(s, r), Unlinks(s, new, t)
  PROVE  Lives(new) = Lives(s) \ {t} /\ Wired(new) /\ Ordered(new, r)
<1> USE DEF Unlinks, pmm_sections
<1>1. NULL \notin Real /\ 0 \in Real /\ Lives(s) \subseteq Real /\ Lives(new) \subseteq Real
  BY SlotFacts
<1>2. s[t].prev \in Lives(s) /\ s[s[t].prev].next = t /\ s[t].prev # NULL /\ s[t].prev # t
  <2>1. s[t].prev # NULL
    BY DEF Lives
  <2> QED
    BY <2>1, <1>1 DEF Wired, Ordered
<1>3. s[t].next # NULL => s[t].next \in Lives(s) /\ s[s[t].next].prev = t /\ s[t].next # t /\ s[t].next # 0
  BY <1>1 DEF Wired, Ordered
<1>4. Lives(new) = Lives(s) \ {t}
  <2>1. t \notin Lives(new)
    BY <1>1 DEF Lives, Unlinked
  <2>2. \A i \in Real : i # t => (i \in Lives(new) <=> i \in Lives(s))
    BY <1>1, <1>2, <1>3 DEF Lives
  <2> QED
    BY <1>1, <2>1, <2>2
<1>5. Wired(new)
  <2>1. new[0].prev = NULL
    BY <1>1, <1>3 DEF Wired
  <2>2. \A i \in Real \ Lives(new) : new[i] = Unlinked
    BY <1>4 DEF Wired
  <2>3. \A i \in Lives(new) : new[i].next # NULL => new[i].next \in Lives(new) /\ new[new[i].next].prev = i
    BY <1>1, <1>2, <1>3, <1>4 DEF Wired
  <2>4. \A i \in Lives(new) : new[i].prev # NULL => new[i].prev \in Lives(new) /\ new[new[i].prev].next = i
    BY <1>1, <1>2, <1>3, <1>4 DEF Wired
  <2> QED
    BY <2>1, <2>2, <2>3, <2>4 DEF Wired
<1>6. Ordered(new, r)
  <2>1. ASSUME NEW i \in Lives(new), NEW j \in Lives(new), new[i].next = NULL PROVE r[j] <= r[i]
    BY <2>1, <1>1, <1>2, <1>3, <1>4 DEF Ordered
  <2>2. ASSUME NEW i \in Lives(new), NEW j \in Lives(new), new[i].next # NULL
        PROVE  r[i] < r[new[i].next] /\ (r[j] <= r[i] \/ r[new[i].next] <= r[j])
    <3>1. i \in Lives(s) /\ j \in Lives(s) /\ i # t /\ j # t /\ i \in Real /\ j \in Real
      BY <1>1, <1>4
    <3>2. CASE i # s[t].prev
      <4>1. new[i].next = s[i].next
        BY <3>1, <3>2
      <4> QED
        BY <4>1, <2>2, <3>1 DEF Ordered
    <3>3. CASE i = s[t].prev
      <4>1. new[i].next = s[t].next /\ s[t].next \in Lives(s) /\ s[i].next = t
        BY <3>1, <3>3, <2>2, <1>2, <1>3
      <4>2. r[i] < r[t] /\ (r[j] <= r[i] \/ r[t] <= r[j])
        BY <4>1, <3>1, <1>1 DEF Ordered
      <4>3. r[t] < r[s[t].next] /\ (r[j] <= r[t] \/ r[s[t].next] <= r[j])
        BY <4>1, <3>1, <2>2 DEF Ordered
      <4>4. r[j] # r[t] /\ r[i] \in Nat /\ r[j] \in Nat /\ r[t] \in Nat /\ r[s[t].next] \in Nat
        BY <4>1, <3>1, <1>1 DEF Ordered
      <4> QED
        BY <4>1, <4>2, <4>3, <4>4
    <3> QED
      BY <3>2, <3>3
  <2> QED
    BY <2>1, <2>2, <1>4 DEF Ordered, Lives
<1> QED
  BY <1>4, <1>5, <1>6

(* What linking a slot in behind t does to the links. *)
LinksIn(s, new, t, n) ==
  /\ new[n].prev = t /\ new[n].next = s[t].next
  /\ \A i \in Real : i # n =>
       /\ new[i].prev = IF i = s[t].next THEN n ELSE s[i].prev
       /\ new[i].next = IF i = t THEN n ELSE s[i].next
       /\ i \notin Lives(s) => new[i] = s[i]

(* q orders the slots of the list as r does, and n behind t. *)
Extends(s, r, q, t, n) ==
  /\ q \in [Real -> Nat]
  /\ \A i, j \in Lives(s) : r[i] < r[j] <=> q[i] < q[j]
  /\ q[t] < q[n]
  /\ \A i \in Lives(s) : r[t] < r[i] => q[n] < q[i]

(* With one more slot, the list is a list. *)
LEMMA LinkedInWires ==
  ASSUME NEW s, NEW new, NEW r, NEW t \in Lives(s), NEW n \in Real \ Lives(s),
         Wired(s), Ordered(s, r), LinksIn(s, new, t, n)
  PROVE  Lives(new) = Lives(s) \cup {n} /\ Wired(new)
<1> USE DEF LinksIn, pmm_sections
<1>1. NULL \notin Real /\ 0 \in Real /\ Lives(s) \subseteq Real /\ Lives(new) \subseteq Real
  BY SlotFacts
<1>2. n # 0 /\ n # t /\ t # NULL /\ t \in Real /\ n # NULL
  BY <1>1 DEF Lives
<1>3. s[t].next # NULL => s[t].next \in Lives(s) /\ s[s[t].next].prev = t /\ s[t].next # t /\ s[t].next # 0
  BY <1>1 DEF Wired, Ordered
<1>4. Lives(new) = Lives(s) \cup {n}
  <2>1. n \in Lives(new)
    BY <1>1, <1>2 DEF Lives
  <2>2. \A i \in Real : i # n => (i \in Lives(new) <=> i \in Lives(s))
    BY <1>1, <1>2, <1>3 DEF Lives
  <2> QED
    BY <1>1, <2>1, <2>2
<1>5. new[0].prev = NULL
  BY <1>1, <1>2, <1>3 DEF Wired
<1>6. \A i \in Real \ Lives(new) : new[i] = Unlinked
  BY <1>4 DEF Wired
<1>7. \A i \in Lives(new) : new[i].next # NULL => new[i].next \in Lives(new) /\ new[new[i].next].prev = i
  BY <1>1, <1>2, <1>3, <1>4 DEF Wired
<1>8. \A i \in Lives(new) : new[i].prev # NULL => new[i].prev \in Lives(new) /\ new[new[i].prev].next = i
  BY <1>1, <1>2, <1>3, <1>4 DEF Wired
<1> QED
  BY <1>4, <1>5, <1>6, <1>7, <1>8 DEF Wired

(* ... and an order of the slots that puts the new one in its place orders it. *)
LEMMA LinkedInOrder ==
  ASSUME NEW s, NEW new, NEW r, NEW q, NEW t \in Lives(s), NEW n \in Real \ Lives(s),
         Wired(s), Ordered(s, r), LinksIn(s, new, t, n), Extends(s, r, q, t, n)
  PROVE  Ordered(new, q)
<1> USE DEF pmm_sections
<1>1. NULL \notin Real /\ 0 \in Lives(s) /\ Lives(s) \subseteq Real
  BY SlotFacts
<1>2. Lives(new) = Lives(s) \cup {n}
  BY Zenon, LinkedInWires
<1>3. q \in [Real -> Nat] /\ r \in [Real -> Nat]
  BY DEF Extends, Ordered
<1>4. \A i \in Lives(s) : r[i] < r[t] \/ i = t \/ r[t] < r[i]
  BY <1>1, <1>3 DEF Ordered
<1>5. \A i \in Lives(s) : /\ r[i] <= r[t] => q[i] < q[n]
                          /\ r[t] < r[i] => q[n] < q[i]
  BY <1>1, <1>3, <1>4 DEF Extends
<1>6. \A i, j \in Lives(s) : /\ q[i] = q[j] => i = j
                             /\ r[i] < r[j] <=> q[i] < q[j]
                             /\ r[i] <= r[j] <=> q[i] <= q[j]
  BY <1>1, <1>3 DEF Extends, Ordered
<1>7. \A i, j \in Lives(new) : q[i] = q[j] => i = j
  <2> SUFFICES ASSUME NEW i \in Lives(new), NEW j \in Lives(new), q[i] = q[j] PROVE i = j
    OBVIOUS
  <2>1. \A k \in Lives(s) : q[k] # q[n]
    BY <1>1, <1>3, <1>5
  <2> QED
    BY <1>2, <1>6, <2>1
<1>8. \A i \in Lives(new) : q[0] <= q[i]
  <2>1. \A i \in Lives(s) : q[0] <= q[i]
    BY <1>1, <1>6 DEF Ordered
  <2>2. q[0] <= q[n]
    BY <1>1, <1>3, <1>4, <1>5, <2>1 DEF Ordered
  <2> QED
    BY <1>2, <2>1, <2>2
<1>9. n # t /\ t \in Real /\ s[n].next = NULL
  BY <1>1 DEF Wired, Unlinked
<1>10. ASSUME NEW i \in Lives(new), NEW j \in Lives(new), new[i].next = NULL PROVE q[j] <= q[i]
  <2>1. i # t
    BY <1>1, <1>9, <1>10 DEF LinksIn
  <2>2. CASE i = n
    <3>1. s[t].next = NULL
      BY <2>2, <1>10 DEF LinksIn
    <3>2. \A k \in Lives(s) : r[k] <= r[t]
      BY <3>1 DEF Ordered
    <3>3. \A k \in Lives(s) : q[k] < q[n]
      BY <3>2, <1>5
    <3> QED
      BY <3>3, <2>2, <1>2, <1>3, <1>1
  <2>3. CASE i # n
    <3>1. i \in Lives(s) /\ s[i].next = NULL
      BY <2>1, <2>3, <1>1, <1>2, <1>10 DEF LinksIn
    <3>2. \A k \in Lives(s) : r[k] <= r[i]
      BY <3>1 DEF Ordered
    <3>3. r[t] < r[i]
      BY <3>1, <3>2, <2>1, <1>1, <1>3, <1>4
    <3>4. \A k \in Lives(s) : q[k] <= q[i]
      BY <3>1, <3>2, <1>6
    <3>5. q[n] < q[i]
      BY <3>1, <3>3, <1>5
    <3> QED
      BY <3>4, <3>5, <1>2, <1>3, <1>1
  <2> QED
    BY <2>2, <2>3
<1>11. ASSUME NEW i \in Lives(new), NEW j \in Lives(new), new[i].next # NULL
       PROVE  q[i] < q[new[i].next] /\ (q[j] <= q[i] \/ q[new[i].next] <= q[j])
  <2>1. CASE i = n
    <3>1. new[i].next = s[t].next /\ s[t].next # NULL /\ s[t].next \in Lives(s)
      BY <2>1, <1>11 DEF LinksIn, Wired
    <3>2. r[t] < r[s[t].next] /\ \A k \in Lives(s) : r[k] <= r[t] \/ r[s[t].next] <= r[k]
      BY <3>1 DEF Ordered
    <3>3. q[n] < q[s[t].next]
      BY <3>1, <3>2, <1>5
    <3>4. CASE j = n
      BY <3>4, <3>3, <3>1, <2>1, <1>1, <1>3
    <3>5. CASE j # n
      <4>1. j \in Lives(s)
        BY <3>5, <1>2
      <4>2. r[j] <= r[t] => q[j] < q[n]
        BY <4>1, <1>5
      <4>3. r[s[t].next] <= r[j] => q[s[t].next] <= q[j]
        BY <4>1, <3>1, <1>6
      <4> QED
        BY <4>1, <4>2, <4>3, <3>1, <3>2, <3>3, <2>1, <1>1, <1>3
    <3> QED
      BY <3>4, <3>5
  <2>2. CASE i = t
    <3>1. new[i].next = n /\ q[t] < q[n]
      BY <2>2, <1>9 DEF LinksIn, Extends
    <3>2. CASE j = n
      BY <3>1, <3>2, <2>2, <1>1, <1>3
    <3>3. CASE j # n
      <4>1. j \in Lives(s)
        BY <3>3, <1>2
      <4>2. r[j] <= r[t] => q[j] <= q[t]
        BY <4>1, <1>6
      <4>3. r[t] < r[j] => q[n] < q[j]
        BY <4>1, <1>5
      <4> QED
        BY <4>1, <4>2, <4>3, <3>1, <2>2, <1>1, <1>3
    <3> QED
      BY <3>2, <3>3
  <2>3. CASE i # n /\ i # t
    <3>1. i \in Lives(s) /\ new[i].next = s[i].next
      BY <2>3, <1>1, <1>2 DEF LinksIn
    <3> DEFINE m == s[i].next
    <3>2. m # NULL /\ m \in Lives(s) /\ new[i].next = m
      BY <3>1, <1>11 DEF Wired
    <3>3. r[i] < r[m] /\ \A k \in Lives(s) : r[k] <= r[i] \/ r[m] <= r[k]
      BY <3>1, <3>2 DEF Ordered
    <3> HIDE DEF m
    <3>4. q[i] < q[m]
      BY <3>1, <3>2, <3>3, <1>6
    <3>5. CASE j = n
      <4>1. r[t] <= r[i] => q[n] < q[i]
        BY <3>1, <2>3, <1>1, <1>3, <1>4, <1>5
      <4>2. r[m] <= r[t] => q[m] < q[n]
        BY <3>2, <1>5
      <4> QED
        BY <4>1, <4>2, <3>1, <3>2, <3>3, <3>4, <3>5, <1>1, <1>3
    <3>6. CASE j # n
      <4>1. j \in Lives(s)
        BY <3>6, <1>2
      <4>2. r[j] <= r[i] => q[j] <= q[i]
        BY <4>1, <3>1, <1>6
      <4>3. r[m] <= r[j] => q[m] <= q[j]
        BY <4>1, <3>2, <1>6
      <4> QED
        BY <4>1, <4>2, <4>3, <3>2, <3>3, <3>4
    <3> QED
      BY <3>5, <3>6
  <2> QED
    BY <2>1, <2>2, <2>3
<1> QED
  BY <1>3, <1>7, <1>8, <1>10, <1>11 DEF Ordered

(* What a change does that leaves all links alone. *)
KeepsLinks(s, new) ==
  \A i \in Real : /\ new[i].prev = s[i].prev /\ new[i].next = s[i].next
                  /\ i \notin Lives(s) => new[i] = s[i]

(* A step that changes no links keeps the list. *)
LEMMA KeptList ==
  ASSUME NEW s, NEW new, NEW r, Wired(s), Ordered(s, r), KeepsLinks(s, new)
  PROVE  Lives(new) = Lives(s) /\ Wired(new) /\ Ordered(new, r)
BY SlotFacts DEF Lives, KeepsLinks, Wired, Ordered

-----------------------------------------------------------------------------
(* Arithmetic. *)

(* The constants are numbers. *)
LEMMA NumberFacts ==
  /\ W \in Nat \ {0} /\ PAGE_SIZE \in Nat \ {0} /\ SECTION_SIZE \in Nat \ {0}
  /\ MAX_SLOTS \in Nat \ {0} /\ SPARE_SLOTS \in Nat \ {0, 1}
  /\ MEGABYTE \in Nat \ {0} /\ MAX_PMM_HEADER_PROPORTION \in Nat \ {0} /\ ROUND_OFF \in Nat \ {0}
BY PMMAssumption, MapAssumption

(* Small numbers do not wrap. *)
LEMMA ModSmall ==
  ASSUME NEW x \in 0 .. W - 1
  PROVE  x % W = x
BY NumberFacts

(* The fields of a section are numbers of 64 bits. *)
LEMMA FieldTypes ==
  ASSUME NEW s \in [Slots -> Section], NEW i \in Slots
  PROVE  /\ s[i].start \in 0 .. W - 1 /\ s[i].pages \in 0 .. W - 1 /\ s[i].free \in 0 .. W - 1
         /\ s[i].prev \in Slots /\ s[i].next \in Slots
         /\ EndOf(s, i) \in Nat /\ s[i].start <= EndOf(s, i)
         /\ s[i].pages # 0 => s[i].start + PAGE_SIZE <= EndOf(s, i) /\ s[i].start < EndOf(s, i)
         /\ s[i].pages = 0 => EndOf(s, i) = s[i].start
<1>1. s[i] \in Section
  OBVIOUS
<1>2. /\ s[i].start \in 0 .. W - 1 /\ s[i].pages \in 0 .. W - 1 /\ s[i].free \in 0 .. W - 1
      /\ s[i].prev \in Slots /\ s[i].next \in Slots
  BY <1>1 DEF Section
<1> DEFINE n == s[i].pages
           a == s[i].start
<1>3. n \in Nat /\ a \in Nat
  BY <1>2, NumberFacts
<1>4. n * PAGE_SIZE \in Nat /\ (n # 0 => PAGE_SIZE <= n * PAGE_SIZE) /\ (n = 0 => n * PAGE_SIZE = 0)
  <2> HIDE DEF n
  <2>1. n * PAGE_SIZE \in Nat /\ (n = 0 => n * PAGE_SIZE = 0)
    BY <1>3, NumberFacts
  <2>2. ASSUME n # 0 PROVE PAGE_SIZE <= n * PAGE_SIZE
    <3>1. PAGE_SIZE * 0 + PAGE_SIZE <= PAGE_SIZE * n
      BY <1>3, <2>2, NumberFacts, TimesOrder
    <3> QED
      BY <3>1, <1>3, NumberFacts
  <2> QED
    BY <2>1, <2>2
<1> HIDE DEF n
<1>5. EndOf(s, i) = a + n * PAGE_SIZE
  BY DEF EndOf, n
<1> HIDE DEF a
<1> QED
  BY <1>2, <1>3, <1>4, <1>5, NumberFacts DEF n, a

(* The pages of a run. *)
LEMMA RunRange ==
  ASSUME NEW a \in Nat, NEW n \in Nat, NEW p \in PageRun(a, n)
  PROVE  p \in Nat /\ a <= p /\ p + PAGE_SIZE <= a + n * PAGE_SIZE /\ p < a + n * PAGE_SIZE
<1>1. PICK k \in 0 .. n - 1 : p = a + k * PAGE_SIZE
  BY DEF PageRun
<1>2. PAGE_SIZE * k + PAGE_SIZE <= PAGE_SIZE * n /\ k * PAGE_SIZE \in Nat
  BY NumberFacts, TimesOrder
<1> QED
  BY <1>1, <1>2, NumberFacts

(* A run of pages, cut after k of them. *)
LEMMA RunSplit ==
  ASSUME NEW a \in Nat, NEW n \in Nat, NEW k \in 0 .. n
  PROVE  PageRun(a, n) = PageRun(a, k) \cup PageRun(a + k * PAGE_SIZE, n - k)
<1>1. ASSUME NEW p \in PageRun(a, n) PROVE p \in PageRun(a, k) \cup PageRun(a + k * PAGE_SIZE, n - k)
  <2>1. PICK j \in 0 .. n - 1 : p = a + j * PAGE_SIZE
    BY <1>1 DEF PageRun
  <2>2. CASE j < k
    BY <2>1, <2>2 DEF PageRun
  <2>3. CASE ~(j < k)
    <3>1. j - k \in 0 .. (n - k) - 1
      BY <2>1, <2>3
    <3>2. p = (a + k * PAGE_SIZE) + (j - k) * PAGE_SIZE
      BY <2>1, NumberFacts
    <3> QED
      BY <3>1, <3>2 DEF PageRun
  <2> QED
    BY <2>2, <2>3
<1>2. ASSUME NEW p \in PageRun(a, k) PROVE p \in PageRun(a, n)
  BY <1>2 DEF PageRun
<1>3. ASSUME NEW p \in PageRun(a + k * PAGE_SIZE, n - k) PROVE p \in PageRun(a, n)
  <2>1. PICK j \in 0 .. (n - k) - 1 : p = (a + k * PAGE_SIZE) + j * PAGE_SIZE
    BY <1>3 DEF PageRun
  <2>2. k + j \in 0 .. n - 1 /\ p = a + (k + j) * PAGE_SIZE
    BY <2>1, NumberFacts
  <2> QED
    BY <2>2 DEF PageRun
<1> QED
  BY <1>1, <1>2, <1>3

(* Two runs that meet are one. *)
LEMMA RunJoin ==
  ASSUME NEW a \in Nat, NEW k \in Nat, NEW b \in Nat, NEW l \in Nat, b = a + k * PAGE_SIZE
  PROVE  /\ PageRun(a, k + l) = PageRun(a, k) \cup PageRun(b, l)
         /\ PageRun(a, l + k) = PageRun(b, l) \cup PageRun(a, k)
<1> DEFINE m == k + l
<1>1. m \in Nat /\ k \in 0 .. m /\ m - k = l /\ l + k = m
  OBVIOUS
<1> HIDE DEF m
<1>2. PageRun(a, m) = PageRun(a, k) \cup PageRun(b, l)
  BY <1>1, RunSplit
<1> QED
  BY <1>1, <1>2 DEF m

(* Two runs that meet, in whatever order, are one run. *)
LEMMA RunMeet ==
  ASSUME NEW a \in Nat, NEW k \in Nat, NEW b \in Nat, NEW l \in Nat, NEW x, NEW y, y = k + l,
         \/ a + k * PAGE_SIZE = b /\ x = a
         \/ b + l * PAGE_SIZE = a /\ x = b
  PROVE  PageRun(x, y) = PageRun(a, k) \cup PageRun(b, l)
<1>1. CASE a + k * PAGE_SIZE = b /\ x = a
  <2>1. PageRun(a, k + l) = PageRun(a, k) \cup PageRun(b, l)
    BY <1>1, RunJoin
  <2> QED
    BY <1>1, <2>1
<1>2. CASE b + l * PAGE_SIZE = a /\ x = b
  <2>1. PageRun(b, k + l) = PageRun(a, k) \cup PageRun(b, l)
    BY <1>2, RunJoin
  <2> QED
    BY <1>2, <2>1
<1> QED
  BY <1>1, <1>2

(* A run of one page, and of none. *)
LEMMA RunOne ==
  ASSUME NEW a \in Nat
  PROVE  PageRun(a, 1) = {a} /\ PageRun(a, 0) = {}
<1>1. 0 .. 1 - 1 = {0} /\ 0 .. 0 - 1 = {} /\ a + 0 * PAGE_SIZE = a
  BY NumberFacts
<1> QED
  BY <1>1 DEF PageRun

(* Pages of a run are counted from its start. *)
LEMMA RunIndex ==
  ASSUME NEW k \in Nat
  PROVE  (k * PAGE_SIZE) \div PAGE_SIZE = k
<1>1. 0 \in 0 .. PAGE_SIZE - 1
  BY NumberFacts
<1>2. (0 + PAGE_SIZE * k) \div PAGE_SIZE = k
  BY <1>1, NumberFacts, DivModUnique
<1> QED
  BY <1>2, NumberFacts

-----------------------------------------------------------------------------
(* The operations on the list, by what they do to the fields of sections. *)

(* A step leaves a section's address, pages and kind. *)
SameBody(s, new, i) ==
  new[i].start = s[i].start /\ new[i].pages = s[i].pages /\ new[i].free = s[i].free

(* The pages of t from the k-th on are those of n. *)
SplitAt(s, new, t, n, k) ==
  /\ new \in [Slots -> Section] /\ LinksIn(s, new, t, n)
  /\ new[t].start = s[t].start /\ new[t].pages = k /\ new[t].free = s[t].free
  /\ new[n].start = s[t].start + k * PAGE_SIZE /\ new[n].pages = s[t].pages - k
  /\ new[n].free = s[t].free
  /\ \A i \in Slots \ {t, n} : SameBody(s, new, i)

(* There is room in the order behind every slot. *)
LEMMA OrderHasRoom ==
  ASSUME NEW s, NEW r, NEW t \in Lives(s), NEW n \in Real \ Lives(s), Ordered(s, r)
  PROVE  \E q : Extends(s, r, q, t, n)
<1> DEFINE q == [i \in Real |-> IF i = n THEN 2 * r[t] + 1 ELSE 2 * r[i]]
<1>1. r \in [Real -> Nat] /\ Lives(s) \subseteq Real
  BY SlotFacts DEF Ordered
<1>2. q[n] = 2 * r[t] + 1 /\ \A i \in Lives(s) : q[i] = 2 * r[i]
  BY <1>1
<1>3. q \in [Real -> Nat]
  BY <1>1
<1> HIDE DEF q
<1>4. \A i, j \in Lives(s) : r[i] < r[j] <=> q[i] < q[j]
  BY <1>1, <1>2
<1>5. q[t] < q[n] /\ \A i \in Lives(s) : r[t] < r[i] => q[n] < q[i]
  BY <1>1, <1>2
<1> QED
  BY <1>3, <1>4, <1>5 DEF Extends

(* Splitting a good section leaves a list that is in order. *)
LEMMA SplitNeat ==
  ASSUME NEW s, NEW new, NEW r, NEW q, NEW t \in Lives(s), NEW n \in Real \ Lives(s),
         NEW k \in 1 .. s[t].pages - 1,
         Neat(s, r), Plain(s, t), SplitAt(s, new, t, n, k), Extends(s, r, q, t, n)
  PROVE  Neat(new, q) /\ Lives(new) = Lives(s) \cup {n} /\ new[t].next = n
<1> USE DEF pmm_sections
<1>1. /\ NULL \notin Real /\ 0 \in Lives(s) /\ Lives(s) \subseteq Real /\ Slots = Real \cup {NULL}
      /\ n # t /\ t # NULL /\ n # NULL
  BY SlotFacts
<1>2. s \in [Slots -> Section] /\ new \in [Slots -> Section]
  BY DEF Neat, Typed, SplitAt
<1>3. /\ Lives(new) = Lives(s) \cup {n} /\ Wired(new) /\ Ordered(new, q)
  <2>1. Wired(s) /\ Ordered(s, r) /\ LinksIn(s, new, t, n)
    BY Zenon DEF Neat, SplitAt
  <2>2. Lives(new) = Lives(s) \cup {n} /\ Wired(new)
    BY Zenon, <2>1, LinkedInWires
  <2> QED
    BY Zenon, <2>1, <2>2, LinkedInOrder
<1>4. /\ new[t].next = n /\ new[n].next = s[t].next
      /\ \A i \in Lives(s) : i # t => new[i].next = s[i].next
  BY <1>1 DEF SplitAt, LinksIn
<1>5. k \in Nat /\ s[t].pages \in Nat /\ s[t].start \in Nat /\ PAGE_SIZE \in Nat \ {0} /\ k # 0 /\ k < s[t].pages
  <2>1. t \in Slots
    BY <1>1
  <2>2. s[t].pages \in 0 .. W - 1 /\ s[t].start \in 0 .. W - 1
    BY Zenon, <2>1, <1>2, FieldTypes
  <2> QED
    BY <2>2, NumberFacts
<1>6. /\ EndOf(new, t) = new[n].start /\ EndOf(new, n) = EndOf(s, t)
      /\ new[t].start = s[t].start
      /\ s[t].start < new[n].start /\ new[n].start < EndOf(s, t)
  <2> DEFINE a == s[t].start
             m == s[t].pages
  <2>1. /\ EndOf(new, t) = a + k * PAGE_SIZE /\ EndOf(new, n) = (a + k * PAGE_SIZE) + (m - k) * PAGE_SIZE
        /\ EndOf(s, t) = a + m * PAGE_SIZE /\ new[n].start = a + k * PAGE_SIZE /\ new[t].start = a
    BY DEF SplitAt, EndOf
  <2> HIDE DEF a, m
  <2>2. a \in Nat /\ m \in Nat /\ k < m
    BY <1>5 DEF a, m
  <2>3. PAGE_SIZE * 0 + PAGE_SIZE <= PAGE_SIZE * k /\ PAGE_SIZE * k + PAGE_SIZE <= PAGE_SIZE * m
    BY <1>5, <2>2, TimesOrder
  <2> QED
    BY <1>5, <2>1, <2>2, <2>3 DEF a
<1>7. \A i \in Slots \ {t, n} : SameBody(s, new, i) /\ EndOf(new, i) = EndOf(s, i) /\ (Plain(new, i) <=> Plain(s, i))
  BY DEF SplitAt, SameBody, EndOf, Plain
<1>8. Plain(new, t) /\ Plain(new, n) /\ new[t].free = s[t].free /\ new[n].free = s[t].free
  BY DEF SplitAt, Plain
<1>9. \A i \in Slots : s[i].start \in Nat /\ new[i].start \in Nat /\ EndOf(s, i) \in Nat /\ EndOf(new, i) \in Nat
  BY <1>2, FieldTypes, NumberFacts
<1>10. Typed(new)
  <2>1. t # 0
    BY DEF Neat, Typed, Plain, USED, FREE, BAD
  <2>2. n # 0
    BY <1>1
  <2>3. 0 \in Slots
    BY <1>1
  <2>4. SameBody(s, new, NULL) /\ SameBody(s, new, 0)
    BY <1>1, <1>7, <2>1, <2>2, <2>3
  <2>5. \A i \in Real : new[i].free \in {USED, FREE, BAD}
    BY <1>1, <1>7, <1>8 DEF Neat, Typed, SameBody, Plain
  <2> QED
    BY <1>2, <2>4, <2>5 DEF Neat, Typed, SameBody
<1>11. new[NULL].start = s[NULL].start
  BY <1>1, <1>7 DEF SameBody
<1>12. EndOf(s, t) <= s[NULL].start /\ (s[t].next # NULL => EndOf(s, t) = s[s[t].next].start)
  BY DEF Neat, Close
<1>13. s[t].next # NULL => s[t].next \in Lives(s) /\ s[t].next # t
  BY <1>1 DEF Neat, Wired, Ordered
<1>14. Close(new)
  <2> SUFFICES ASSUME NEW i \in Lives(new), Plain(new, i)
               PROVE  /\ EndOf(new, i) <= new[NULL].start
                      /\ new[i].next # NULL => EndOf(new, i) = new[new[i].next].start
    BY DEF Close
  <2>1. CASE i = t
    BY <2>1, <1>1, <1>4, <1>6, <1>9, <1>11, <1>12
  <2>2. CASE i = n
    <3>1. s[t].next # NULL => SameBody(s, new, s[t].next)
      BY <1>1, <1>7, <1>13
    <3> QED
      BY <2>2, <3>1, <1>4, <1>6, <1>11, <1>12 DEF SameBody
  <2>3. CASE i # t /\ i # n
    <3>1. i \in Lives(s) /\ Plain(s, i) /\ EndOf(new, i) = EndOf(s, i) /\ new[i].next = s[i].next
      BY <2>3, <1>1, <1>3, <1>4, <1>7
    <3>2. EndOf(s, i) <= s[NULL].start /\ (s[i].next # NULL => EndOf(s, i) = s[s[i].next].start)
      BY <3>1 DEF Neat, Close
    <3>3. s[i].next # NULL => s[i].next \in Lives(s)
      BY <3>1 DEF Neat, Wired
    <3>4. s[i].next # NULL => new[s[i].next].start = s[s[i].next].start
      BY <3>3, <1>1, <1>6, <1>7 DEF SameBody
    <3> QED
      BY <3>1, <3>2, <3>4, <1>11
  <2> QED
    BY <2>1, <2>2, <2>3
<1>15. Filled(new)
  <2>1. new[t].pages # 0 /\ new[n].pages # 0
    BY <1>5 DEF SplitAt
  <2>2. \A i \in Lives(s) : i # t => new[i].free = s[i].free /\ new[i].pages = s[i].pages
    BY <1>1, <1>7 DEF SameBody
  <2> QED
    BY <2>1, <2>2, <1>3 DEF Neat, Filled
<1>16. Placed(new, q)
  <2> SUFFICES ASSUME NEW i \in Lives(new), NEW j \in Lives(new), q[i] < q[j]
               PROVE  IF Plain(new, i) THEN EndOf(new, i) <= new[j].start ELSE new[i].start < new[j].start
    BY DEF Placed
  <2>1. \A x, y \in Lives(s) : r[x] < r[y] =>
          IF Plain(s, x) THEN EndOf(s, x) <= s[y].start ELSE s[x].start < s[y].start
    BY DEF Neat, Placed
  <2>2. /\ q \in [Real -> Nat] /\ r \in [Real -> Nat]
        /\ \A x, y \in Lives(s) : r[x] < r[y] <=> q[x] < q[y]
        /\ q[t] < q[n] /\ \A x \in Lives(s) : r[t] < r[x] => q[n] < q[x]
    BY DEF Extends, Neat, Ordered
  <2>3. \A x \in Lives(s) : x # t => r[x] < r[t] \/ r[t] < r[x]
    BY <1>1, <2>2 DEF Neat, Ordered
  <2>4. i \in Real /\ j \in Real /\ n \in Real /\ t \in Real
    BY <1>1, <1>3
  <2>5. CASE i = n
    <3>1. j # n /\ j # t /\ j \in Lives(s)
      BY <2>5, <2>2, <2>4, <1>3
    <3>2. r[t] < r[j]
      BY <3>1, <2>2, <2>3, <2>4, <2>5
    <3>3. EndOf(s, t) <= s[j].start /\ new[j].start = s[j].start
      BY <3>1, <3>2, <2>1, <1>1, <1>7 DEF SameBody
    <3> QED
      BY <2>5, <3>3, <1>6, <1>8
  <2>6. CASE j = n
    <3>1. i # n /\ i \in Lives(s)
      BY <2>6, <2>2, <2>4, <1>3
    <3>2. i = t \/ r[i] < r[t]
      BY <3>1, <2>2, <2>3, <2>4, <2>6
    <3>3. CASE i = t
      BY <3>3, <2>6, <1>6, <1>8, <1>9, <1>1
    <3>4. CASE i # t
      <4>1. IF Plain(s, i) THEN EndOf(s, i) <= s[t].start ELSE s[i].start < s[t].start
        BY <3>1, <3>2, <3>4, <2>1
      <4>2. SameBody(s, new, i) /\ EndOf(new, i) = EndOf(s, i) /\ (Plain(new, i) <=> Plain(s, i))
        BY <3>1, <3>4, <1>1, <1>7
      <4>3. i \in Slots /\ n \in Slots /\ t \in Slots
        BY <1>1, <2>4
      <4> QED
        BY <4>1, <4>2, <4>3, <2>6, <1>6, <1>9 DEF SameBody
    <3> QED
      BY <3>3, <3>4
  <2>7. CASE i # n /\ j # n
    <3>1. i \in Lives(s) /\ j \in Lives(s) /\ r[i] < r[j]
      BY <2>7, <2>2, <1>3
    <3>2. IF Plain(s, i) THEN EndOf(s, i) <= s[j].start ELSE s[i].start < s[j].start
      BY <3>1, <2>1
    <3>3. new[j].start = s[j].start /\ new[i].start = s[i].start
      BY <2>7, <3>1, <1>1, <1>6, <1>7 DEF SameBody
    <3>4. (Plain(new, i) <=> Plain(s, i)) /\ EndOf(new, i) <= EndOf(s, i)
      <4>1. CASE i = t
        BY <4>1, <1>1, <1>6, <1>8, <1>9
      <4>2. CASE i # t
        BY <4>2, <2>7, <3>1, <1>1, <1>7, <1>9
      <4> QED
        BY <4>1, <4>2
    <3>5. i \in Slots /\ j \in Slots
      BY <1>1, <2>4
    <3> QED
      BY <3>2, <3>3, <3>4, <3>5, <1>9
  <2> QED
    BY <2>5, <2>6, <2>7
<1> QED
  BY <1>3, <1>4, <1>10, <1>14, <1>15, <1>16 DEF Neat

(* The numbers of a table that is in order. *)
LEMMA NeatNumbers ==
  ASSUME NEW s \in [Slots -> Section], NEW new \in [Slots -> Section]
  PROVE  \A i \in Slots : /\ s[i].start \in Nat /\ new[i].start \in Nat
                          /\ EndOf(s, i) \in Nat /\ EndOf(new, i) \in Nat
                          /\ s[i].start <= EndOf(s, i) /\ new[i].start <= EndOf(new, i)
                          /\ s[i].pages \in Nat /\ new[i].pages \in Nat
BY FieldTypes, NumberFacts

(* The boundary between i and the next section moves. *)
BoundaryMoved(s, new, i, j) ==
  /\ new \in [Slots -> Section] /\ KeepsLinks(s, new)
  /\ s[i].next = j /\ new[i].free = s[i].free /\ new[j].free = s[j].free
  /\ new[i].start = s[i].start /\ EndOf(new, j) = EndOf(s, j) /\ EndOf(new, i) = new[j].start
  /\ \A x \in {i, j} : s[x].free # FREE => new[x].pages # 0
  /\ \A x \in Slots \ {i, j} : SameBody(s, new, x)

(* Moving the boundary of two good neighbours leaves a neat list. *)
LEMMA BoundaryNeat ==
  ASSUME NEW s, NEW new, NEW r, NEW i \in Lives(s), NEW j \in Real,
         Neat(s, r), Plain(s, i), Plain(s, j), BoundaryMoved(s, new, i, j)
  PROVE  Neat(new, r) /\ Lives(new) = Lives(s) /\ j \in Lives(s) /\ r[i] < r[j] /\ i # j
<1> USE DEF pmm_sections
<1>1. NULL \notin Real /\ 0 \in Lives(s) /\ Lives(s) \subseteq Real /\ Slots = Real \cup {NULL}
  BY SlotFacts
<1>2. s \in [Slots -> Section] /\ new \in [Slots -> Section]
  BY DEF Neat, Typed, BoundaryMoved
<1>3. Lives(new) = Lives(s) /\ Wired(new) /\ Ordered(new, r)
  BY Zenon, KeptList DEF Neat, BoundaryMoved
<1>4. \A x \in Lives(s) : new[x].next = s[x].next
  BY <1>1 DEF BoundaryMoved, KeepsLinks
<1>5. /\ s[i].next = j /\ j # NULL /\ j \in Lives(s) /\ i # j /\ i # NULL
      /\ r \in [Real -> Nat] /\ r[i] < r[j] /\ \A x \in Lives(s) : r[x] <= r[i] \/ r[j] <= r[x]
  BY <1>1 DEF Neat, Wired, Ordered, BoundaryMoved
<1>6. \A x \in Slots \ {i, j} : SameBody(s, new, x) /\ EndOf(new, x) = EndOf(s, x)
  BY DEF BoundaryMoved, SameBody, EndOf
<1>7. \A x \in Slots : new[x].free = s[x].free /\ (Plain(new, x) <=> Plain(s, x))
  BY <1>6 DEF BoundaryMoved, SameBody, Plain
<1>8. /\ new[i].start = s[i].start /\ EndOf(new, j) = EndOf(s, j) /\ EndOf(new, i) = new[j].start
  BY DEF BoundaryMoved
<1>9. \A x \in Slots : /\ s[x].start \in Nat /\ new[x].start \in Nat
                       /\ EndOf(s, x) \in Nat /\ EndOf(new, x) \in Nat
                       /\ s[x].start <= EndOf(s, x) /\ new[x].start <= EndOf(new, x)
  BY Zenon, <1>2, NeatNumbers
<1>10. Typed(new)
  BY <1>1, <1>2, <1>7 DEF Neat, Typed
<1>11. new[NULL].start = s[NULL].start
  BY <1>1, <1>5, <1>6 DEF SameBody
<1>12. \A x \in Lives(s) : Plain(s, x) =>
         /\ EndOf(s, x) <= s[NULL].start
         /\ s[x].next # NULL => EndOf(s, x) = s[s[x].next].start /\ s[x].next \in Lives(s)
  BY DEF Neat, Close, Wired
<1>13. Close(new)
  <2> SUFFICES ASSUME NEW x \in Lives(s), Plain(s, x)
               PROVE  /\ EndOf(new, x) <= new[NULL].start
                      /\ new[x].next # NULL => EndOf(new, x) = new[new[x].next].start
    BY <1>1, <1>3, <1>7 DEF Close
  <2>1. CASE x = i
    <3>1. new[j].start <= EndOf(s, j) /\ EndOf(s, j) <= s[NULL].start
      BY <1>1, <1>5, <1>8, <1>9, <1>12
    <3>2. NULL \in Slots /\ j \in Slots
      BY <1>1
    <3> QED
      BY <2>1, <3>1, <3>2, <1>4, <1>5, <1>8, <1>9, <1>11
  <2>2. CASE x # i
    <3>1. EndOf(new, x) = EndOf(s, x)
      BY <2>2, <1>1, <1>6, <1>8
    <3>2. s[x].next # NULL => s[x].next # j
      <4>1. s[j].prev = i
        BY <1>5 DEF Neat, Wired
      <4>2. s[x].next = j => s[j].prev = x
        BY <1>5 DEF Neat, Wired
      <4> QED
        BY <4>1, <4>2, <2>2
    <3>3. s[x].next # NULL => s[x].next \in Lives(s) /\ new[s[x].next].start = s[s[x].next].start
      BY <3>2, <1>1, <1>6, <1>8, <1>12 DEF SameBody
    <3> QED
      BY <3>1, <3>3, <1>4, <1>11, <1>12
  <2> QED
    BY <2>1, <2>2
<1>14. Filled(new)
  <2>1. \A x \in Lives(s) : x # i /\ x # j => new[x].pages = s[x].pages
    BY <1>1, <1>6 DEF SameBody
  <2> QED
    BY <2>1, <1>1, <1>3, <1>7 DEF Neat, Filled, BoundaryMoved
<1>15. Placed(new, r)
  <2> SUFFICES ASSUME NEW x \in Lives(s), NEW y \in Lives(s), r[x] < r[y]
               PROVE  IF Plain(s, x) THEN EndOf(new, x) <= new[y].start ELSE new[x].start < new[y].start
    BY <1>1, <1>3, <1>7 DEF Placed
  <2>1. \A a, b \in Lives(s) : r[a] < r[b] =>
          IF Plain(s, a) THEN EndOf(s, a) <= s[b].start ELSE s[a].start < s[b].start
    BY DEF Neat, Placed
  <2>2. x \in Slots /\ y \in Slots /\ i \in Slots /\ j \in Slots /\ r[x] \in Nat /\ r[y] \in Nat /\ r[i] \in Nat /\ r[j] \in Nat
    BY <1>1, <1>5
  <2>3. CASE x = i
    <3>1. CASE y = j
      BY <2>3, <3>1, <1>8, <1>9, <2>2
    <3>2. CASE y # j
      <4>1. r[j] < r[y]
        BY <2>3, <3>2, <1>5, <2>2 DEF Neat, Ordered
      <4>2. EndOf(s, j) <= s[y].start
        BY <4>1, <2>1, <1>5
      <4>3. y # i
        BY <2>3, <2>2
      <4>4. new[y].start = s[y].start
        BY <3>2, <4>3, <2>2, <1>6 DEF SameBody
      <4> QED
        BY <2>3, <4>2, <4>4, <2>2, <1>8, <1>9
    <3> QED
      BY <3>1, <3>2
  <2>4. CASE y = j /\ x # i
    <3>1. r[x] < r[i]
      BY <2>4, <1>5, <2>2 DEF Neat, Ordered
    <3>2. IF Plain(s, x) THEN EndOf(s, x) <= s[i].start ELSE s[x].start < s[i].start
      BY <3>1, <2>1
    <3>3. x # j
      BY <2>4, <2>2
    <3>4. SameBody(s, new, x) /\ EndOf(new, x) = EndOf(s, x)
      BY <2>4, <3>3, <2>2, <1>6
    <3> QED
      BY <2>4, <3>2, <3>4, <2>2, <1>8, <1>9 DEF SameBody
  <2>5. CASE x # i /\ y # j
    <3>1. new[y].start = s[y].start /\ EndOf(new, x) = EndOf(s, x)
      BY <2>5, <2>2, <1>6, <1>8 DEF SameBody
    <3>2. x # j => new[x].start = s[x].start
      BY <2>5, <2>2, <1>6 DEF SameBody
    <3> QED
      BY <3>1, <3>2, <2>1
  <2> QED
    BY <2>3, <2>4, <2>5
<1> QED
  BY <1>3, <1>5, <1>10, <1>13, <1>14, <1>15 DEF Neat

(* A good section changes its kind. *)
Marked(s, new, t, kind) ==
  /\ new \in [Slots -> Section] /\ KeepsLinks(s, new)
  /\ new[t].start = s[t].start /\ new[t].pages = s[t].pages /\ new[t].free = kind
  /\ \A x \in Slots \ {t} : SameBody(s, new, x)

(* Marking a section that has pages leaves a neat list. *)
LEMMA MarkedNeat ==
  ASSUME NEW s, NEW new, NEW r, NEW t \in Lives(s), NEW kind \in {USED, FREE},
         Neat(s, r), Plain(s, t), s[t].pages # 0, Marked(s, new, t, kind)
  PROVE  Neat(new, r) /\ Lives(new) = Lives(s)
<1>1. NULL \notin Real /\ pmm_sections \in Lives(s) /\ Lives(s) \subseteq Real /\ Slots = Real \cup {NULL}
  BY SlotFacts
<1>2. Lives(new) = Lives(s) /\ Wired(new) /\ Ordered(new, r)
  BY Zenon, KeptList DEF Neat, Marked
<1>3. \A x \in Slots : /\ new[x].start = s[x].start /\ new[x].pages = s[x].pages
                       /\ EndOf(new, x) = EndOf(s, x) /\ (Plain(new, x) <=> Plain(s, x))
                       /\ x # t => new[x].free = s[x].free
  BY DEF Marked, SameBody, EndOf, Plain
<1>4. \A x \in Lives(s) : new[x].next = s[x].next
  BY <1>1 DEF Marked, KeepsLinks
<1>5. t # pmm_sections /\ t # NULL
  BY <1>1 DEF Neat, Typed, Plain, USED, FREE, BAD
<1>6. Typed(new)
  BY <1>1, <1>3, <1>5 DEF Neat, Typed, Marked
<1>7. Close(new)
  BY <1>1, <1>2, <1>3, <1>4 DEF Neat, Close, Wired
<1>8. Filled(new)
  BY <1>1, <1>2, <1>3 DEF Neat, Filled
<1>9. Placed(new, r)
  BY <1>1, <1>2, <1>3 DEF Neat, Placed
<1> QED
  BY <1>2, <1>6, <1>7, <1>8, <1>9 DEF Neat

(* A good section disappears into the one before it, or is empty. *)
JoinedBack(s, new, t) ==
  /\ new \in [Slots -> Section] /\ Unlinks(s, new, t)
  /\ LET p == s[t].prev
     IN  /\ new[p].start = s[p].start /\ new[p].free = s[p].free
         /\ s[p].pages # 0 => new[p].pages # 0
         /\ Plain(s, p) => EndOf(new, p) = EndOf(s, t)
  /\ \A x \in Slots \ {t, s[t].prev} : SameBody(s, new, x)

(* So does merging a section into the one before it, *)
LEMMA JoinedBackNeat ==
  ASSUME NEW s, NEW new, NEW r, NEW t \in Lives(s), Neat(s, r), Plain(s, t), JoinedBack(s, new, t)
  PROVE  Neat(new, r) /\ Lives(new) = Lives(s) \ {t}
<1> USE DEF pmm_sections
<1>1. NULL \notin Real /\ 0 \in Lives(s) /\ Lives(s) \subseteq Real /\ Slots = Real \cup {NULL}
  BY SlotFacts
<1>2. s \in [Slots -> Section] /\ new \in [Slots -> Section]
  BY DEF Neat, Typed, JoinedBack
<1>3. t # 0 /\ t \in Real
  BY <1>1 DEF Neat, Typed, Plain, USED, FREE, BAD
<1>4. Lives(new) = Lives(s) \ {t} /\ Wired(new) /\ Ordered(new, r)
  BY Zenon, <1>3, UnlinkedList DEF Neat, JoinedBack, pmm_sections
<1> DEFINE p == s[t].prev
<1>5. p # NULL /\ p \in Lives(s) /\ s[p].next = t /\ p # t /\ r \in [Real -> Nat] /\ r[p] < r[t]
      /\ \A x \in Lives(s) : r[x] <= r[p] \/ r[t] <= r[x]
  <2>1. p # NULL
    BY <1>3 DEF Lives
  <2>2. p \in Lives(s) /\ s[p].next = t
    BY <2>1 DEF Neat, Wired
  <2> QED
    BY <2>1, <2>2, <1>1, <1>3 DEF Neat, Ordered
<1>6. /\ new[p].start = s[p].start /\ new[p].free = s[p].free
      /\ s[p].pages # 0 => new[p].pages # 0
      /\ Plain(s, p) => EndOf(new, p) = EndOf(s, t)
      /\ \A x \in Slots \ {t, p} : SameBody(s, new, x)
  BY DEF JoinedBack
<1>7. /\ \A x \in Lives(s) : x # t /\ x # p => new[x].next = s[x].next
      /\ new[p].next = s[t].next
  BY <1>1, <1>5 DEF JoinedBack, Unlinks
<1> HIDE DEF p
<1>8. \A x \in Slots \ {t, p} : EndOf(new, x) = EndOf(s, x)
  BY <1>6 DEF SameBody, EndOf
<1>9. \A x \in Slots \ {t} : new[x].start = s[x].start /\ new[x].free = s[x].free /\ (Plain(new, x) <=> Plain(s, x))
  BY <1>6 DEF SameBody, Plain
<1>10. \A x \in Slots : s[x].start \in Nat /\ EndOf(s, x) \in Nat /\ EndOf(new, x) \in Nat
  BY Zenon, <1>2, NeatNumbers
<1>11. Typed(new)
  <2>1. new[t].free = USED
    BY DEF JoinedBack, Unlinks, Unlinked
  <2> QED
    BY <2>1, <1>1, <1>2, <1>3, <1>9 DEF Neat, Typed
<1>12. t # NULL /\ s[t].next # t
  BY <1>1, <1>3 DEF Neat, Ordered
<1>13. Close(new)
  <2> SUFFICES ASSUME NEW x \in Lives(s), x # t, Plain(s, x)
               PROVE  /\ EndOf(new, x) <= new[NULL].start
                      /\ new[x].next # NULL => EndOf(new, x) = new[new[x].next].start
    BY <1>1, <1>4, <1>9 DEF Close
  <2>1. new[NULL].start = s[NULL].start
    BY <1>1, <1>9, <1>12
  <2>2. \A y \in Lives(s) : Plain(s, y) =>
         /\ EndOf(s, y) <= s[NULL].start
         /\ s[y].next # NULL => EndOf(s, y) = s[s[y].next].start /\ s[y].next \in Lives(s)
    BY DEF Neat, Close, Wired
  <2>3. CASE x = p
    BY <2>1, <2>2, <2>3, <1>1, <1>6, <1>7, <1>9, <1>12
  <2>4. CASE x # p
    <3>1. s[x].next # t
      <4>1. s[x].next = t => s[t].prev = x
        BY <1>12 DEF Neat, Wired
      <4> QED
        BY <4>1, <2>4 DEF p
    <3> QED
      BY <3>1, <2>1, <2>2, <2>4, <1>1, <1>7, <1>8, <1>9
  <2> QED
    BY <2>3, <2>4
<1>14. Filled(new)
  <2>1. \A x \in Lives(s) : x # t /\ s[x].pages # 0 => new[x].pages # 0
    BY <1>1, <1>6 DEF SameBody
  <2> QED
    BY <2>1, <1>1, <1>4, <1>9 DEF Neat, Filled
<1>15. Placed(new, r)
  <2> SUFFICES ASSUME NEW x \in Lives(s), NEW y \in Lives(s), x # t, y # t, r[x] < r[y]
               PROVE  IF Plain(s, x) THEN EndOf(new, x) <= s[y].start ELSE s[x].start < s[y].start
    BY <1>1, <1>4, <1>9 DEF Placed
  <2>1. \A a, b \in Lives(s) : r[a] < r[b] =>
          IF Plain(s, a) THEN EndOf(s, a) <= s[b].start ELSE s[a].start < s[b].start
    BY DEF Neat, Placed
  <2>2. CASE x = p /\ Plain(s, p)
    <3>1. r[t] < r[y]
      BY <2>2, <1>1, <1>5 DEF Neat, Ordered
    <3> QED
      BY <3>1, <2>1, <2>2, <1>6
  <2>3. CASE ~(x = p /\ Plain(s, p))
    BY <2>1, <2>3, <1>1, <1>8
  <2> QED
    BY <2>2, <2>3
<1> QED
  BY <1>4, <1>11, <1>13, <1>14, <1>15 DEF Neat

(* A good section disappears into the good one behind it. *)
JoinedForward(s, new, t) ==
  /\ new \in [Slots -> Section] /\ Unlinks(s, new, t)
  /\ LET n == s[t].next
     IN  /\ n # NULL /\ Plain(s, n)
         /\ new[n].start = s[t].start /\ new[n].free = s[n].free
         /\ new[n].pages # 0 /\ EndOf(new, n) = EndOf(s, n)
  /\ \A x \in Slots \ {t, s[t].next} : SameBody(s, new, x)

(* and merging it into the one after it. *)
LEMMA JoinedForwardNeat ==
  ASSUME NEW s, NEW new, NEW r, NEW t \in Lives(s), Neat(s, r), Plain(s, t), JoinedForward(s, new, t)
  PROVE  Neat(new, r) /\ Lives(new) = Lives(s) \ {t}
<1> USE DEF pmm_sections
<1>1. NULL \notin Real /\ 0 \in Lives(s) /\ Lives(s) \subseteq Real /\ Slots = Real \cup {NULL}
  BY SlotFacts
<1>2. s \in [Slots -> Section] /\ new \in [Slots -> Section]
  BY DEF Neat, Typed, JoinedForward
<1>3. t # 0 /\ t \in Real /\ t # NULL
  BY <1>1 DEF Neat, Typed, Plain, USED, FREE, BAD
<1>4. Lives(new) = Lives(s) \ {t} /\ Wired(new) /\ Ordered(new, r)
  BY Zenon, <1>3, UnlinkedList DEF Neat, JoinedForward, pmm_sections
<1> DEFINE n == s[t].next
<1>5. n # NULL /\ n \in Lives(s) /\ s[n].prev = t /\ n # t /\ r \in [Real -> Nat] /\ r[t] < r[n] /\ n # 0
      /\ (\A x \in Lives(s) : r[x] <= r[t] \/ r[n] <= r[x])
  <2>1. n # NULL
    BY DEF JoinedForward
  <2>2. n \in Lives(s) /\ s[n].prev = t
    BY <2>1 DEF Neat, Wired
  <2> QED
    BY <2>1, <2>2, <1>1, <1>3 DEF Neat, Ordered, Wired
<1>6. /\ new[n].start = s[t].start /\ new[n].free = s[n].free /\ Plain(s, n)
      /\ new[n].pages # 0 /\ EndOf(new, n) = EndOf(s, n)
      /\ \A x \in Slots \ {t, n} : SameBody(s, new, x)
  BY DEF JoinedForward
<1>7. /\ \A x \in Lives(s) : x # t => new[x].next = IF x = s[t].prev THEN n ELSE s[x].next
  BY <1>1 DEF JoinedForward, Unlinks
<1>8. s[t].prev # t /\ s[t].prev # n /\ \A x \in Lives(s) : s[x].next = t => x = s[t].prev
  <2>1. s[t].prev # NULL
    BY <1>3 DEF Lives
  <2>2. s[s[t].prev].next = t /\ s[t].prev \in Lives(s)
    BY <2>1 DEF Neat, Wired
  <2>3. r[s[t].prev] < r[t]
    BY <2>2, <1>3 DEF Neat, Ordered
  <2>4. \A x \in Lives(s) : s[x].next = t => x = s[t].prev
    BY <1>3 DEF Neat, Wired
  <2>5. r[s[t].prev] \in Nat /\ r[t] \in Nat /\ r[n] \in Nat
    BY <2>2, <1>1, <1>5
  <2> QED
    BY <2>3, <2>4, <2>5, <1>5
<1> HIDE DEF n
<1>9. \A x \in Slots \ {t} : EndOf(new, x) = EndOf(s, x)
  BY <1>6 DEF SameBody, EndOf
<1>10. \A x \in Slots \ {t} : new[x].free = s[x].free /\ (Plain(new, x) <=> Plain(s, x)) /\ (x # n => new[x].start = s[x].start)
  BY <1>6 DEF SameBody, Plain
<1>11. Typed(new)
  <2>1. new[t].free = USED
    BY DEF JoinedForward, Unlinks, Unlinked
  <2> QED
    BY <2>1, <1>1, <1>2, <1>3, <1>10 DEF Neat, Typed
<1>12. new[NULL].start = s[NULL].start
  BY <1>1, <1>3, <1>5, <1>10
<1>13. Close(new)
  <2> SUFFICES ASSUME NEW x \in Lives(s), x # t, Plain(s, x)
               PROVE  /\ EndOf(s, x) <= s[NULL].start
                      /\ new[x].next # NULL => EndOf(s, x) = new[new[x].next].start
    BY <1>1, <1>4, <1>9, <1>10, <1>12 DEF Close
  <2>1. \A y \in Lives(s) : Plain(s, y) =>
         /\ EndOf(s, y) <= s[NULL].start
         /\ s[y].next # NULL => EndOf(s, y) = s[s[y].next].start /\ s[y].next \in Lives(s)
    BY DEF Neat, Close, Wired
  <2>2. CASE x = s[t].prev
    <3>1. s[x].next = t
      BY <2>2, <1>1 DEF Neat, Wired
    <3> QED
      BY <3>1, <2>1, <2>2, <1>3, <1>6, <1>7
  <2>3. CASE x # s[t].prev
    <3>1. new[x].next = s[x].next /\ s[x].next # t
      BY <2>3, <1>7, <1>8
    <3>2. s[x].next # n \/ s[x].next = NULL
      <4>1. s[x].next = n => s[n].prev = x
        BY <1>5 DEF Neat, Wired
      <4> QED
        BY <4>1, <1>5
    <3>3. s[x].next # NULL => s[x].next \in Slots \ {t} /\ s[x].next # n
      BY <3>1, <3>2, <2>1, <1>1
    <3> QED
      BY <3>1, <3>3, <2>1, <1>10
  <2> QED
    BY <2>2, <2>3
<1>14. Filled(new)
  <2>1. \A x \in Lives(s) : x # t /\ s[x].pages # 0 => new[x].pages # 0
    BY <1>1, <1>6 DEF SameBody
  <2> QED
    BY <2>1, <1>1, <1>4, <1>10 DEF Neat, Filled
<1>15. Placed(new, r)
  <2> SUFFICES ASSUME NEW x \in Lives(s), NEW y \in Lives(s), x # t, y # t, r[x] < r[y]
               PROVE  IF Plain(s, x) THEN EndOf(s, x) <= new[y].start ELSE new[x].start < new[y].start
    BY <1>1, <1>4, <1>9, <1>10 DEF Placed
  <2>1. \A a, b \in Lives(s) : r[a] < r[b] =>
          IF Plain(s, a) THEN EndOf(s, a) <= s[b].start ELSE s[a].start < s[b].start
    BY DEF Neat, Placed
  <2>2. CASE y = n
    <3>1. r[x] < r[t]
      BY <2>2, <1>1, <1>5 DEF Neat, Ordered
    <3>2. x # n
      BY <2>2, <1>1, <1>5
    <3> QED
      BY <3>1, <3>2, <2>1, <2>2, <1>1, <1>6, <1>10
  <2>3. CASE y # n
    <3>1. new[y].start = s[y].start /\ (x # n => new[x].start = s[x].start)
      BY <2>3, <1>1, <1>10
    <3> QED
      BY <3>1, <2>1, <1>6
  <2> QED
    BY <2>2, <2>3
<1> QED
  BY <1>4, <1>11, <1>13, <1>14, <1>15 DEF Neat

-----------------------------------------------------------------------------
(* The pages of a kind, before and after the operations. *)

(* Where a page of a section can be. *)
LEMMA WithinRange ==
  ASSUME NEW s \in [Slots -> Section], NEW i \in Slots, NEW p, Within(s, i, p)
  PROVE  /\ p \in Nat /\ s[i].start <= p /\ p + PAGE_SIZE <= EndOf(s, i) /\ p < EndOf(s, i)
         /\ s[i].pages # 0
BY FieldTypes, NumberFacts, RunRange, RunOne DEF Within, EndOf

(* No two good sections share a page. *)
LEMMA OneSection ==
  ASSUME NEW s, NEW r, NEW i \in Lives(s), NEW j \in Lives(s), NEW p,
         Neat(s, r), Plain(s, i), Plain(s, j), Within(s, i, p), Within(s, j, p)
  PROVE  i = j
<1>1. Lives(s) \subseteq Real /\ Lives(s) \subseteq Slots
  BY SlotFacts
<1>2. s \in [Slots -> Section] /\ r \in [Real -> Nat]
  BY DEF Neat, Typed, Ordered
<1>3. /\ p \in Nat /\ s[i].start <= p /\ p < EndOf(s, i)
      /\ s[j].start <= p /\ p < EndOf(s, j)
  BY <1>1, <1>2, WithinRange
<1>4. s[i].start \in Nat /\ EndOf(s, i) \in Nat /\ s[j].start \in Nat /\ EndOf(s, j) \in Nat
  BY <1>1, <1>2, NeatNumbers
<1>5. ~(r[i] < r[j]) /\ ~(r[j] < r[i])
  BY <1>3, <1>4 DEF Neat, Placed
<1> QED
  BY <1>1, <1>2, <1>5 DEF Neat, Ordered

(* Splitting a section changes the kind of no page. *)
LEMMA SplitHeld ==
  ASSUME NEW s \in [Slots -> Section], NEW new, NEW t \in Lives(s), NEW n \in Real \ Lives(s),
         NEW k \in 1 .. s[t].pages - 1, SplitAt(s, new, t, n, k), Lives(new) = Lives(s) \cup {n}
  PROVE  /\ \A kind, p : Held(new, kind, p) <=> Held(s, kind, p)
         /\ \A p : Within(s, t, p) <=> Within(new, t, p) \/ Within(new, n, p)
<1>1. Lives(s) \subseteq Slots /\ n \in Slots /\ n # t
  BY SlotFacts
<1>2. s[t].start \in Nat /\ s[t].pages \in Nat /\ k \in 0 .. s[t].pages
  <2>1. s[t].start \in 0 .. W - 1 /\ s[t].pages \in 0 .. W - 1
    BY <1>1, FieldTypes
  <2> QED
    BY <2>1, NumberFacts
<1>3. PageRun(s[t].start, s[t].pages) =
        PageRun(s[t].start, k) \cup PageRun(s[t].start + k * PAGE_SIZE, s[t].pages - k)
  BY <1>2, RunSplit
<1>4. \A p : Within(s, t, p) <=> Within(new, t, p) \/ Within(new, n, p)
  BY Zenon, <1>3 DEF Within, SplitAt
<1>5. \A i \in Lives(s) : i # t => new[i].free = s[i].free /\ \A p : Within(new, i, p) <=> Within(s, i, p)
  <2> SUFFICES ASSUME NEW i \in Lives(s), i # t
               PROVE  new[i].free = s[i].free /\ \A p : Within(new, i, p) <=> Within(s, i, p)
    BY Zenon
  <2>1. i \in Slots \ {t, n}
    BY <1>1
  <2> QED
    BY Zenon, <2>1 DEF SplitAt, SameBody, Within
<1>6. new[t].free = s[t].free /\ new[n].free = s[t].free /\ n \notin Lives(s)
  BY DEF SplitAt
<1> QED
  BY Zenon, <1>4, <1>5, <1>6 DEF Held

(* The first page of j is now the last of i. *)
LEMMA FirstPageHeld ==
  ASSUME NEW s \in [Slots -> Section], NEW new, NEW i \in Lives(s), NEW j \in Lives(s), i # j,
         BoundaryMoved(s, new, i, j), Lives(new) = Lives(s), EndOf(s, i) = s[j].start,
         s[j].pages # 0, new[j].start = s[j].start + PAGE_SIZE,
         new[i].pages = s[i].pages + 1, new[j].pages = s[j].pages - 1
  PROVE  /\ \A kind, p : p # s[j].start => (Held(new, kind, p) <=> Held(s, kind, p))
         /\ Within(new, i, s[j].start) /\ Within(s, j, s[j].start)
<1>1. Lives(s) \subseteq Slots
  BY SlotFacts
<1>2. /\ s[i].start \in Nat /\ s[i].pages \in Nat /\ s[j].start \in Nat /\ s[j].pages \in Nat
      /\ s[j].start = s[i].start + s[i].pages * PAGE_SIZE
  <2>1. /\ s[i].start \in 0 .. W - 1 /\ s[i].pages \in 0 .. W - 1
        /\ s[j].start \in 0 .. W - 1 /\ s[j].pages \in 0 .. W - 1
    BY <1>1, FieldTypes
  <2> QED
    BY <2>1, NumberFacts DEF EndOf
<1>3. PageRun(new[i].start, new[i].pages) = PageRun(s[i].start, s[i].pages) \cup {s[j].start}
  <2>1. s[i].pages + 1 \in Nat /\ s[i].pages \in 0 .. s[i].pages + 1 /\ (s[i].pages + 1) - s[i].pages = 1
    BY <1>2
  <2>2. PageRun(s[i].start, s[i].pages + 1) = PageRun(s[i].start, s[i].pages) \cup PageRun(s[j].start, 1)
    BY <1>2, <2>1, RunSplit
  <2>3. PageRun(s[j].start, 1) = {s[j].start}
    BY <1>2, RunOne
  <2> QED
    BY <2>2, <2>3 DEF BoundaryMoved
<1>4. PageRun(s[j].start, s[j].pages) = {s[j].start} \cup PageRun(new[j].start, new[j].pages)
  <2>1. 1 \in 0 .. s[j].pages /\ 1 * PAGE_SIZE = PAGE_SIZE
    BY <1>2, NumberFacts
  <2>2. PageRun(s[j].start, s[j].pages) = PageRun(s[j].start, 1) \cup PageRun(s[j].start + PAGE_SIZE, s[j].pages - 1)
    BY <1>2, <2>1, RunSplit
  <2>3. PageRun(s[j].start, 1) = {s[j].start}
    BY <1>2, RunOne
  <2> QED
    BY <2>2, <2>3
<1>5. \A x \in Lives(s) : x # i /\ x # j => new[x].free = s[x].free /\ \A p : Within(new, x, p) <=> Within(s, x, p)
  <2> SUFFICES ASSUME NEW x \in Lives(s), x # i, x # j
               PROVE  new[x].free = s[x].free /\ \A p : Within(new, x, p) <=> Within(s, x, p)
    BY Zenon
  <2>1. x \in Slots \ {i, j}
    BY <1>1
  <2> QED
    BY Zenon, <2>1 DEF BoundaryMoved, SameBody, Within
<1>6. new[i].free = s[i].free /\ new[j].free = s[j].free
  BY DEF BoundaryMoved
<1>7. \A p : p # s[j].start => /\ Within(new, i, p) <=> Within(s, i, p)
                               /\ Within(new, j, p) <=> Within(s, j, p)
  BY Zenon, <1>3, <1>4 DEF Within
<1>8. Within(new, i, s[j].start) /\ Within(s, j, s[j].start)
  BY Zenon, <1>3, <1>4 DEF Within
<1>9. \A x \in Lives(s) : new[x].free = s[x].free /\ \A p : p # s[j].start => (Within(new, x, p) <=> Within(s, x, p))
  BY Zenon, <1>5, <1>6, <1>7
<1> QED
  BY Zenon, <1>8, <1>9 DEF Held

(* The last page of i is now the first of j. *)
LEMMA LastPageHeld ==
  ASSUME NEW s \in [Slots -> Section], NEW new, NEW i \in Lives(s), NEW j \in Lives(s), i # j,
         BoundaryMoved(s, new, i, j), Lives(new) = Lives(s), EndOf(s, i) = s[j].start,
         s[i].pages # 0, new[j].start = s[j].start - PAGE_SIZE,
         new[i].pages = s[i].pages - 1, new[j].pages = s[j].pages + 1
  PROVE  /\ \A kind, p : p # new[j].start => (Held(new, kind, p) <=> Held(s, kind, p))
         /\ Within(s, i, new[j].start) /\ Within(new, j, new[j].start)
<1>1. Lives(s) \subseteq Slots
  BY SlotFacts
<1>2. /\ s[i].start \in Nat /\ s[i].pages \in Nat \ {0} /\ new[j].start \in Nat /\ s[j].pages \in Nat
      /\ s[j].start \in Nat
      /\ new[j].start = s[i].start + (s[i].pages - 1) * PAGE_SIZE
  <2>1. /\ s[i].start \in 0 .. W - 1 /\ s[i].pages \in 0 .. W - 1
        /\ s[j].start \in 0 .. W - 1 /\ s[j].pages \in 0 .. W - 1
    BY <1>1, FieldTypes
  <2>2. new[j].start \in 0 .. W - 1
    BY <1>1, FieldTypes DEF BoundaryMoved
  <2> QED
    BY <2>1, <2>2, NumberFacts DEF EndOf
<1>3. PageRun(s[i].start, s[i].pages) = PageRun(new[i].start, new[i].pages) \cup {new[j].start}
  <2>1. s[i].pages - 1 \in 0 .. s[i].pages /\ s[i].pages - (s[i].pages - 1) = 1
    BY <1>2
  <2>2. PageRun(s[i].start, s[i].pages) = PageRun(s[i].start, s[i].pages - 1) \cup PageRun(new[j].start, 1)
    BY <1>2, <2>1, RunSplit
  <2>3. PageRun(new[j].start, 1) = {new[j].start}
    BY <1>2, RunOne
  <2> QED
    BY <2>2, <2>3 DEF BoundaryMoved
<1>4. PageRun(new[j].start, new[j].pages) = {new[j].start} \cup PageRun(s[j].start, s[j].pages)
  <2>1. 1 \in 0 .. s[j].pages + 1 /\ 1 * PAGE_SIZE = PAGE_SIZE /\ s[j].pages + 1 \in Nat /\ (s[j].pages + 1) - 1 = s[j].pages
        /\ new[j].start + PAGE_SIZE = s[j].start
    BY <1>2, NumberFacts
  <2>2. PageRun(new[j].start, s[j].pages + 1) = PageRun(new[j].start, 1) \cup PageRun(s[j].start, s[j].pages)
    BY <1>2, <2>1, RunSplit
  <2>3. PageRun(new[j].start, 1) = {new[j].start}
    BY <1>2, RunOne
  <2> QED
    BY <2>2, <2>3
<1>5. \A x \in Lives(s) : x # i /\ x # j => new[x].free = s[x].free /\ \A p : Within(new, x, p) <=> Within(s, x, p)
  <2> SUFFICES ASSUME NEW x \in Lives(s), x # i, x # j
               PROVE  new[x].free = s[x].free /\ \A p : Within(new, x, p) <=> Within(s, x, p)
    BY Zenon
  <2>1. x \in Slots \ {i, j}
    BY <1>1
  <2> QED
    BY Zenon, <2>1 DEF BoundaryMoved, SameBody, Within
<1>6. new[i].free = s[i].free /\ new[j].free = s[j].free
  BY DEF BoundaryMoved
<1>7. \A p : p # new[j].start => /\ Within(new, i, p) <=> Within(s, i, p)
                                 /\ Within(new, j, p) <=> Within(s, j, p)
  BY Zenon, <1>3, <1>4 DEF Within
<1>8. Within(s, i, new[j].start) /\ Within(new, j, new[j].start)
  BY Zenon, <1>3, <1>4 DEF Within
<1>9. \A x \in Lives(s) : new[x].free = s[x].free /\ \A p : p # new[j].start => (Within(new, x, p) <=> Within(s, x, p))
  BY Zenon, <1>5, <1>6, <1>7
<1> QED
  BY Zenon, <1>8, <1>9 DEF Held

(* A page of its own changes its kind. *)
LEMMA MarkedHeld ==
  ASSUME NEW s \in [Slots -> Section], NEW new, NEW t \in Lives(s), NEW kind,
         Marked(s, new, t, kind), Lives(new) = Lives(s), s[t].pages = 1
  PROVE  /\ \A k, p : p # s[t].start => (Held(new, k, p) <=> Held(s, k, p))
         /\ Held(new, kind, s[t].start) /\ Within(new, t, s[t].start) /\ Within(s, t, s[t].start)
<1>1. Lives(s) \subseteq Slots
  BY SlotFacts
<1>2. s[t].start \in Nat
  BY <1>1, NeatNumbers
<1>3. PageRun(s[t].start, 1) = {s[t].start}
  BY <1>2, RunOne
<1>4. \A p : /\ Within(s, t, p) <=> p = s[t].start
             /\ Within(new, t, p) <=> p = s[t].start
  BY Zenon, <1>3 DEF Within, Marked
<1>5. \A x \in Lives(s) : x # t => new[x].free = s[x].free /\ \A p : Within(new, x, p) <=> Within(s, x, p)
  <2> SUFFICES ASSUME NEW x \in Lives(s), x # t
               PROVE  new[x].free = s[x].free /\ \A p : Within(new, x, p) <=> Within(s, x, p)
    BY Zenon
  <2>1. x \in Slots \ {t}
    BY <1>1
  <2> QED
    BY Zenon, <2>1 DEF Marked, SameBody, Within
<1>6. new[t].free = kind
  BY DEF Marked
<1> QED
  BY Zenon, <1>4, <1>5, <1>6 DEF Held

(* The pages of t are now pages of a section of the same kind. *)
LEMMA JoinedHeld ==
  ASSUME NEW s \in [Slots -> Section], NEW new, NEW t \in Lives(s), NEW u \in Lives(s), u # t,
         Lives(new) = Lives(s) \ {t}, s[u].free = s[t].free, new[u].free = s[u].free,
         new[u].pages = s[u].pages + s[t].pages,
         \/ EndOf(s, u) = s[t].start /\ new[u].start = s[u].start
         \/ EndOf(s, t) = s[u].start /\ new[u].start = s[t].start,
         \A x \in Slots \ {t, u} : SameBody(s, new, x)
  PROVE  /\ \A kind, p : Held(new, kind, p) <=> Held(s, kind, p)
         /\ \A p : Within(new, u, p) <=> Within(s, u, p) \/ Within(s, t, p)
<1>1. Lives(s) \subseteq Slots
  BY SlotFacts
<1>2. /\ s[t].start \in Nat /\ s[t].pages \in Nat /\ s[u].start \in Nat /\ s[u].pages \in Nat
  BY <1>1, NeatNumbers
<1>3. /\ EndOf(s, u) = s[u].start + s[u].pages * PAGE_SIZE
      /\ EndOf(s, t) = s[t].start + s[t].pages * PAGE_SIZE
  BY DEF EndOf
<1>4. PageRun(new[u].start, new[u].pages) = PageRun(s[u].start, s[u].pages) \cup PageRun(s[t].start, s[t].pages)
  <2> DEFINE a == s[u].start
             k == s[u].pages
             b == s[t].start
             l == s[t].pages
             x == new[u].start
             y == new[u].pages
  <2>1. a \in Nat /\ k \in Nat /\ b \in Nat /\ l \in Nat /\ y = k + l
    BY <1>2
  <2>2. \/ a + k * PAGE_SIZE = b /\ x = a
        \/ b + l * PAGE_SIZE = a /\ x = b
    BY <1>3
  <2> HIDE DEF a, k, b, l, x, y
  <2>3. PageRun(x, y) = PageRun(a, k) \cup PageRun(b, l)
    BY <2>1, <2>2, RunMeet
  <2> QED
    BY <2>3 DEF a, k, b, l, x, y
<1>5. \A p : Within(new, u, p) <=> Within(s, u, p) \/ Within(s, t, p)
  BY Zenon, <1>4 DEF Within
<1>6. \A x \in Lives(s) : x # t /\ x # u => new[x].free = s[x].free /\ \A p : Within(new, x, p) <=> Within(s, x, p)
  <2> SUFFICES ASSUME NEW x \in Lives(s), x # t, x # u
               PROVE  new[x].free = s[x].free /\ \A p : Within(new, x, p) <=> Within(s, x, p)
    BY Zenon
  <2>1. x \in Slots \ {t, u}
    BY <1>1
  <2> QED
    BY Zenon, <2>1 DEF SameBody, Within
<1>7. \A x : x \in Lives(new) <=> x \in Lives(s) /\ x # t
  OBVIOUS
<1> QED
  BY Zenon, <1>5, <1>6, <1>7 DEF Held

(* An empty section holds no page. *)
LEMMA DroppedHeld ==
  ASSUME NEW s \in [Slots -> Section], NEW new, NEW t \in Lives(s),
         Lives(new) = Lives(s) \ {t}, s[t].pages = 0,
         \A x \in Slots \ {t} : SameBody(s, new, x)
  PROVE  \A kind, p : Held(new, kind, p) <=> Held(s, kind, p)
<1>1. Lives(s) \subseteq Slots
  BY SlotFacts
<1>2. \A p : ~Within(s, t, p)
  BY <1>1, WithinRange
<1>3. \A x \in Lives(s) : x # t => new[x].free = s[x].free /\ \A p : Within(new, x, p) <=> Within(s, x, p)
  <2> SUFFICES ASSUME NEW x \in Lives(s), x # t
               PROVE  new[x].free = s[x].free /\ \A p : Within(new, x, p) <=> Within(s, x, p)
    BY Zenon
  <2>1. x \in Slots \ {t}
    BY <1>1
  <2> QED
    BY Zenon, <2>1 DEF SameBody, Within
<1>4. \A x : x \in Lives(new) <=> x \in Lives(s) /\ x # t
  OBVIOUS
<1> QED
  BY Zenon, <1>2, <1>3, <1>4 DEF Held

-----------------------------------------------------------------------------
(* One field of one section changes. *)
SetPrev(s, i, v) == [s EXCEPT ![i].prev = v]
SetNext(s, i, v) == [s EXCEPT ![i].next = v]
SetStart(s, i, v) == [s EXCEPT ![i].start = v]
SetPages(s, i, v) == [s EXCEPT ![i].pages = v]
SetFree(s, i, v) == [s EXCEPT ![i].free = v]

(* An assignment to prev changes nothing else. *)
LEMMA SetPrevDoes ==
  ASSUME NEW s \in [Slots -> Section], NEW i \in Slots, NEW v \in Slots
  PROVE  LET new == SetPrev(s, i, v)
         IN  /\ new \in [Slots -> Section] /\ \A j \in Slots \ {i} : new[j] = s[j]
             /\ new[i].prev = v /\ new[i].next = s[i].next /\ SameBody(s, new, i)
BY DEF SetPrev, Section, SameBody

(* An assignment to next. *)
LEMMA SetNextDoes ==
  ASSUME NEW s \in [Slots -> Section], NEW i \in Slots, NEW v \in Slots
  PROVE  LET new == SetNext(s, i, v)
         IN  /\ new \in [Slots -> Section] /\ \A j \in Slots \ {i} : new[j] = s[j]
             /\ new[i].next = v /\ new[i].prev = s[i].prev /\ SameBody(s, new, i)
BY DEF SetNext, Section, SameBody

(* An assignment to start. *)
LEMMA SetStartDoes ==
  ASSUME NEW s \in [Slots -> Section], NEW i \in Slots, NEW v \in 0 .. W - 1
  PROVE  LET new == SetStart(s, i, v)
         IN  /\ new \in [Slots -> Section] /\ \A j \in Slots \ {i} : new[j] = s[j]
             /\ new[i].start = v /\ new[i].prev = s[i].prev /\ new[i].next = s[i].next
             /\ new[i].pages = s[i].pages /\ new[i].free = s[i].free
BY DEF SetStart, Section

(* An assignment to pages. *)
LEMMA SetPagesDoes ==
  ASSUME NEW s \in [Slots -> Section], NEW i \in Slots, NEW v \in 0 .. W - 1
  PROVE  LET new == SetPages(s, i, v)
         IN  /\ new \in [Slots -> Section] /\ \A j \in Slots \ {i} : new[j] = s[j]
             /\ new[i].pages = v /\ new[i].prev = s[i].prev /\ new[i].next = s[i].next
             /\ new[i].start = s[i].start /\ new[i].free = s[i].free
BY DEF SetPages, Section

(* An assignment to free. *)
LEMMA SetFreeDoes ==
  ASSUME NEW s \in [Slots -> Section], NEW i \in Slots, NEW v \in 0 .. W - 1
  PROVE  LET new == SetFree(s, i, v)
         IN  /\ new \in [Slots -> Section] /\ \A j \in Slots \ {i} : new[j] = s[j]
             /\ new[i].free = v /\ new[i].prev = s[i].prev /\ new[i].next = s[i].next
             /\ new[i].start = s[i].start /\ new[i].pages = s[i].pages
BY DEF SetFree, Section

-----------------------------------------------------------------------------
(* The operators of PMM do to the fields what the relations above say. *)

(* Pages that end below W do not wrap. *)
LEMMA FewPages ==
  ASSUME NEW a \in Nat, NEW n \in Nat, a + n * PAGE_SIZE <= W - 1
  PROVE  n \in 0 .. W - 1 /\ n % W = n /\ (a + n * PAGE_SIZE) % W = a + n * PAGE_SIZE
<1>1. n <= n * PAGE_SIZE /\ n * PAGE_SIZE \in Nat
  <2>1. n = 0 \/ PAGE_SIZE = 1 + (PAGE_SIZE - 1)
    BY NumberFacts
  <2>2. n * PAGE_SIZE = n + n * (PAGE_SIZE - 1) /\ n * (PAGE_SIZE - 1) \in Nat
    BY NumberFacts
  <2> QED
    BY <2>2, NumberFacts
<1>2. n \in 0 .. W - 1 /\ a + n * PAGE_SIZE \in 0 .. W - 1
  BY <1>1, NumberFacts
<1> QED
  BY <1>2, ModSmall

(* The end of a good section can be computed. *)
LEMMA GoodEnd ==
  ASSUME NEW s, NEW r, NEW i \in Lives(s), Neat(s, r), Plain(s, i)
  PROVE  /\ End(s[i]) = EndOf(s, i) /\ EndOf(s, i) \in 0 .. W - 1
         /\ s[i].start \in Nat /\ s[i].pages \in Nat /\ EndOf(s, i) = s[i].start + s[i].pages * PAGE_SIZE
         /\ s[i] \in Section /\ i \in Real /\ i # NULL /\ i # pmm_sections
<1>1. s \in [Slots -> Section] /\ Lives(s) \subseteq Real /\ Real \subseteq Slots /\ NULL \in Slots /\ NULL \notin Real
  BY SlotFacts DEF Neat, Typed
<1>2. s[NULL].start \in 0 .. W - 1 /\ s[i].start \in Nat /\ s[i].pages \in Nat /\ EndOf(s, i) \in Nat
  BY <1>1, FieldTypes, NumberFacts
<1>3. EndOf(s, i) <= s[NULL].start
  BY DEF Neat, Close
<1>4. EndOf(s, i) \in 0 .. W - 1
  BY <1>2, <1>3, NumberFacts
<1>5. End(s[i]) = EndOf(s, i)
  BY <1>4, ModSmall DEF EndOf, End
<1>6. i # pmm_sections
  BY DEF Neat, Typed, Plain, USED, FREE, BAD
<1> QED
  BY <1>1, <1>2, <1>4, <1>5, <1>6 DEF EndOf

(* The next slot of the table is free. *)
LEMMA NewSlot ==
  ASSUME NEW m, NEW size \in Nat, m.head \in Nat, Wired(m.sec), DeadFrom(m.sec, m.head),
         (m.head + 1) * SECTION_SIZE <= data_size, data_size = size, size <= MAX_SLOTS * SECTION_SIZE
  PROVE  /\ m.head \in Real \ Lives(m.sec) /\ m.sec[m.head] = Unlinked
         /\ NewSection(m).slot = m.head /\ NewSection(m).head = m.head + 1
<1> DEFINE h == m.head
           s == m.sec
<1>0. h \in Nat /\ Wired(s) /\ DeadFrom(s, h) /\ (h + 1) * SECTION_SIZE <= data_size
  OBVIOUS
<1> HIDE DEF h, s
<1>1. h * SECTION_SIZE < data_size /\ h \in Real
  <2>1. (h + 1) * SECTION_SIZE = h * SECTION_SIZE + SECTION_SIZE /\ h * SECTION_SIZE \in Nat
        /\ MAX_SLOTS * SECTION_SIZE \in Nat
    BY <1>0, NumberFacts
  <2>2. h * SECTION_SIZE < data_size
    BY <1>0, <2>1, NumberFacts
  <2>3. ~(MAX_SLOTS <= h)
    <3> SUFFICES ASSUME MAX_SLOTS <= h PROVE FALSE
      OBVIOUS
    <3>1. h - MAX_SLOTS \in Nat /\ (h - MAX_SLOTS) * SECTION_SIZE \in Nat
      BY <1>0, NumberFacts
    <3>2. h * SECTION_SIZE = MAX_SLOTS * SECTION_SIZE + (h - MAX_SLOTS) * SECTION_SIZE
      BY <1>0, NumberFacts
    <3> QED
      BY <2>1, <2>2, <3>1, <3>2, NumberFacts
  <2> QED
    BY <1>0, <2>2, <2>3, NumberFacts DEF Real
<1>2. h \notin Lives(s)
  BY <1>0, <1>1 DEF DeadFrom
<1>3. s[h] = Unlinked /\ ~InUse(s, h)
  BY <1>0, <1>1, <1>2 DEF Wired, InUse, Unlinked
<1>4. ~(h * SECTION_SIZE >= data_size)
  BY <1>0, <1>1, NumberFacts
<1>5. NewSection(m) = [slot |-> h, head |-> h + 1]
  BY Zenon, <1>3, <1>4 DEF NewSection, h, s
<1>6. [slot |-> h, head |-> h + 1].slot = h /\ [slot |-> h, head |-> h + 1].head = h + 1
  OBVIOUS
<1> QED
  BY Zenon, <1>1, <1>2, <1>3, <1>5, <1>6 DEF h, s

(* What Split writes when there is something to split off. *)
SplitFields(s, t, n, next, at, left, right) ==
  [s EXCEPT ![next].prev = IF next = NULL THEN @ ELSE n,
            ![n].prev = t,
            ![n].next = IF next = NULL THEN @ ELSE next,
            ![n].start = at,
            ![n].pages = (s[t].pages - left) % W,
            ![n].free = s[t].free,
            ![t].next = n,
            ![t].pages = (@ - right) % W]

(* pmm_section_split as its assignments to the table. *)
LEMMA SplitOpened ==
  ASSUME NEW m, NEW t, NEW at, ~(at >= End(m.sec[t]))
  PROVE  Split(m, t, at) =
           [head |-> NewSection(m).head,
            sec  |-> SplitFields(m.sec, t, NewSection(m).slot, m.sec[t].next, at,
                                 (at - m.sec[t].start) \div PAGE_SIZE,
                                 ((End(m.sec[t]) - at) % W) \div PAGE_SIZE)]
<1>1. Split(m, t, at) = SplitOff(m, t, at)
  BY Zenon DEF Split
<1>2. SplitOff(m, t, at) =
           [head |-> NewSection(m).head,
            sec  |-> SplitFields(m.sec, t, NewSection(m).slot, m.sec[t].next, at,
                                 (at - m.sec[t].start) \div PAGE_SIZE,
                                 ((End(m.sec[t]) - at) % W) \div PAGE_SIZE)]
  BY Zenon DEF SplitOff, SplitFields
<1> QED
  BY Zenon, <1>1, <1>2

(* What these assignments do. *)
LEMMA SplitFieldsDo ==
  ASSUME NEW s \in [Slots -> Section], NEW t \in Real, NEW n \in Real, NEW next \in Slots,
         NEW at \in 0 .. W - 1, NEW left, NEW right, NEW l \in 0 .. W - 1, NEW k \in 0 .. W - 1,
         next # t, next # n, t # n, s[n] = Unlinked,
         (s[t].pages - left) % W = l, (s[t].pages - right) % W = k
  PROVE  LET new == SplitFields(s, t, n, next, at, left, right)
         IN  /\ new \in [Slots -> Section]
             /\ new[n].prev = t /\ new[n].next = next /\ new[n].start = at /\ new[n].pages = l
             /\ new[n].free = s[t].free
             /\ new[t].prev = s[t].prev /\ new[t].next = n /\ new[t].start = s[t].start
             /\ new[t].pages = k /\ new[t].free = s[t].free
             /\ SameBody(s, new, next) /\ new[next].next = s[next].next
             /\ next # NULL => new[next].prev = n
             /\ \A i \in Slots \ {t, n, next} : new[i] = s[i]
<1>1. Real \subseteq Slots /\ NULL \in Slots /\ NULL \notin Real
  BY SlotFacts
<1> DEFINE v == IF next = NULL THEN s[next].prev ELSE n
           w == IF next = NULL THEN s[n].next ELSE next
           free == s[t].free
           f1 == SetPrev(s, next, v)
           f2 == SetPrev(f1, n, t)
           f3 == SetNext(f2, n, w)
           f4 == SetStart(f3, n, at)
           f5 == SetPages(f4, n, l)
           f6 == SetFree(f5, n, free)
           f7 == SetNext(f6, t, n)
           f8 == SetPages(f7, t, k)
<1>2. SplitFields(s, t, n, next, at, left, right) = f8
  BY Zenon DEF SplitFields, SetPrev, SetNext, SetStart, SetPages, SetFree
<1>3. v \in Slots /\ w = next /\ free \in 0 .. W - 1 /\ (next # NULL => v = n)
  BY <1>1, FieldTypes DEF Unlinked
<1> HIDE DEF f1, f2, f3, f4, f5, f6, f7, f8, v, w, free
<1>4. /\ f1 \in [Slots -> Section] /\ f1[next].prev = v /\ f1[next].next = s[next].next
      /\ SameBody(s, f1, next) /\ \A i \in Slots \ {next} : f1[i] = s[i]
  BY <1>1, <1>3, SetPrevDoes DEF f1
<1>5. /\ f2 \in [Slots -> Section] /\ f2[n].prev = t
      /\ \A i \in Slots \ {n} : f2[i] = f1[i]
  BY <1>1, <1>4, SetPrevDoes DEF f2
<1>6. /\ f3 \in [Slots -> Section] /\ f3[n].prev = t /\ f3[n].next = next
      /\ \A i \in Slots \ {n} : f3[i] = f2[i]
  BY <1>1, <1>3, <1>5, SetNextDoes DEF f3
<1>7. /\ f4 \in [Slots -> Section] /\ f4[n].prev = t /\ f4[n].next = next /\ f4[n].start = at
      /\ \A i \in Slots \ {n} : f4[i] = f3[i]
  BY <1>1, <1>6, SetStartDoes DEF f4
<1>8. /\ f5 \in [Slots -> Section] /\ f5[n].prev = t /\ f5[n].next = next /\ f5[n].start = at /\ f5[n].pages = l
      /\ \A i \in Slots \ {n} : f5[i] = f4[i]
  BY <1>1, <1>7, SetPagesDoes DEF f5
<1>9. /\ f6 \in [Slots -> Section] /\ f6[n].prev = t /\ f6[n].next = next /\ f6[n].start = at /\ f6[n].pages = l
      /\ f6[n].free = free
      /\ \A i \in Slots \ {n} : f6[i] = f5[i]
  BY <1>1, <1>3, <1>8, SetFreeDoes DEF f6
<1>10. \A i \in Slots \ {n} : f6[i] = f1[i]
  BY <1>5, <1>6, <1>7, <1>8, <1>9
<1>11. /\ f7 \in [Slots -> Section] /\ f7[t].next = n /\ f7[t].prev = f6[t].prev /\ SameBody(f6, f7, t)
       /\ \A i \in Slots \ {t} : f7[i] = f6[i]
  BY <1>1, <1>9, SetNextDoes DEF f7
<1>12. /\ f8 \in [Slots -> Section] /\ f8[t].next = n /\ f8[t].prev = f6[t].prev
       /\ f8[t].start = f6[t].start /\ f8[t].pages = k /\ f8[t].free = f6[t].free
       /\ \A i \in Slots \ {t} : f8[i] = f7[i]
  BY <1>1, <1>11, SetPagesDoes DEF f8, SameBody
<1>13. f6[t] = s[t]
  BY <1>1, <1>4, <1>10
<1>14. f8[n] = f6[n] /\ f8[next] = f1[next]
  BY <1>1, <1>10, <1>11, <1>12
<1>15. \A i \in Slots \ {t, n, next} : f8[i] = s[i]
  BY <1>4, <1>10, <1>11, <1>12
<1> QED
  BY <1>2, <1>3, <1>4, <1>9, <1>12, <1>13, <1>14, <1>15 DEF SameBody, free

(* The list and the head of the table, with n slots to spare. *)
Ready(m, s, n) ==
  /\ m.sec = s /\ m.head \in Nat /\ DeadFrom(s, m.head)
  /\ (m.head + n) * SECTION_SIZE <= data_size
  /\ data_size \in Nat /\ data_size <= MAX_SLOTS * SECTION_SIZE

(* p is the k-th page of a section. *)
IsPage(s, t, k, p) == p = s[t].start + k * PAGE_SIZE

(* pmm_section_split cuts a section in two, in the next slot. *)
LEMMA SplitDoes ==
  ASSUME NEW m, NEW s, NEW r, NEW t \in Lives(s), NEW k \in 1 .. s[t].pages - 1, NEW at,
         Ready(m, s, 1), IsPage(s, t, k, at), Neat(s, r), Plain(s, t)
  PROVE  /\ Split(m, t, at).head = m.head + 1
         /\ m.head \in Real \ Lives(s) /\ SplitAt(s, Split(m, t, at).sec, t, m.head, k)
<1>0. /\ m.sec = s /\ m.head \in Nat /\ at = s[t].start + k * PAGE_SIZE
      /\ DeadFrom(s, m.head) /\ (m.head + 1) * SECTION_SIZE <= data_size
      /\ data_size \in Nat /\ data_size <= MAX_SLOTS * SECTION_SIZE
  BY DEF Ready, IsPage
<1> DEFINE a == s[t].start
           n == s[t].pages
           h == m.head
           next == s[t].next
<1>1. /\ End(s[t]) = EndOf(s, t) /\ EndOf(s, t) \in 0 .. W - 1 /\ a \in Nat /\ n \in Nat
      /\ EndOf(s, t) = a + n * PAGE_SIZE /\ s[t] \in Section
  BY GoodEnd
<1>2. k \in Nat /\ k # 0 /\ k < n
  BY <1>1
<1>3. /\ h \in Real \ Lives(s) /\ s[h] = Unlinked
      /\ NewSection(m).slot = h /\ NewSection(m).head = h + 1
  <2>1. Wired(m.sec) /\ DeadFrom(m.sec, m.head)
    BY <1>0 DEF Neat
  <2>2. PICK size \in Nat : data_size = size
    BY <1>0
  <2> QED
    BY <2>1, <2>2, <1>0, NewSlot
<1> HIDE DEF n, a, h
<1>4. at \in Nat /\ at < EndOf(s, t) /\ EndOf(s, t) - at = (n - k) * PAGE_SIZE /\ at - a = k * PAGE_SIZE
      /\ (n - k) * PAGE_SIZE \in Nat
  <2>0. at = a + k * PAGE_SIZE
    BY <1>0 DEF a
  <2>1. PAGE_SIZE * k + PAGE_SIZE <= PAGE_SIZE * n /\ PAGE_SIZE * k \in Nat
    BY <1>1, <1>2, NumberFacts, TimesOrder
  <2>2. (n - k) * PAGE_SIZE = n * PAGE_SIZE - k * PAGE_SIZE /\ k * PAGE_SIZE = PAGE_SIZE * k /\ n * PAGE_SIZE = PAGE_SIZE * n
    BY <1>1, <1>2, NumberFacts
  <2> DEFINE x == PAGE_SIZE * k
             y == PAGE_SIZE * n
             z == (n - k) * PAGE_SIZE
  <2>3. /\ x + PAGE_SIZE <= y /\ x \in Nat /\ z = y - x /\ at = a + x /\ EndOf(s, t) = a + y
        /\ k * PAGE_SIZE = x /\ y \in Int
    BY <1>1, <1>2, <2>0, <2>1, <2>2, NumberFacts
  <2> HIDE DEF x, y, z
  <2>4. at \in Nat /\ at < EndOf(s, t) /\ EndOf(s, t) - at = z /\ at - a = x /\ z \in Nat
    BY <1>1, <2>3, NumberFacts
  <2> QED
    BY <2>3, <2>4 DEF z
<1>5. at \in 0 .. W - 1 /\ n \in 0 .. W - 1
  <2>1. n \in 0 .. W - 1
    BY <1>1, FewPages, NumberFacts
  <2> QED
    BY <2>1, <1>1, <1>4, NumberFacts
<1>6. (at - a) \div PAGE_SIZE = k
  BY <1>2, <1>4, RunIndex
<1>7. ((EndOf(s, t) - at) % W) \div PAGE_SIZE = n - k
  <2>1. EndOf(s, t) - at \in 0 .. W - 1
    BY <1>1, <1>4, NumberFacts
  <2>2. n - k \in Nat
    BY <1>1, <1>2
  <2> QED
    BY <2>1, <2>2, <1>4, ModSmall, RunIndex
<1>8. (n - k) % W = n - k /\ (n - (n - k)) % W = k /\ n - k \in 0 .. W - 1 /\ k \in 0 .. W - 1
  <2>1. n - k \in 0 .. W - 1 /\ k \in 0 .. W - 1 /\ n - (n - k) = k
    BY <1>1, <1>2, <1>5, NumberFacts
  <2> QED
    BY <2>1, ModSmall
<1>9. ~(at >= End(m.sec[t]))
  BY <1>0, <1>1, <1>4
<1> DEFINE new == SplitFields(s, t, h, next, at, k, n - k)
<1>10. Split(m, t, at) = [head |-> h + 1, sec |-> new]
  <2>1. Split(m, t, at) = [head |-> NewSection(m).head,
            sec  |-> SplitFields(s, t, NewSection(m).slot, next, at,
                                 (at - a) \div PAGE_SIZE,
                                 ((EndOf(s, t) - at) % W) \div PAGE_SIZE)]
    BY Zenon, <1>0, <1>1, <1>9, SplitOpened DEF a
  <2> QED
    BY Zenon, <2>1, <1>3, <1>6, <1>7
<1>11. s \in [Slots -> Section] /\ Real \subseteq Slots /\ Lives(s) \subseteq Real /\ NULL \notin Real /\ NULL \in Slots
  BY SlotFacts DEF Neat, Typed
<1>12. next \in Slots /\ next # t /\ next # h /\ t # h /\ (next # NULL => next \in Lives(s))
  <2>1. next \in Slots
    BY <1>11, FieldTypes
  <2>2. next # NULL => next \in Lives(s) /\ r[t] < r[next] /\ r[t] \in Nat
    BY <1>11 DEF Neat, Wired, Ordered
  <2> QED
    BY <2>1, <2>2, <1>3, <1>11
<1> HIDE DEF next, new
<1>13. SplitAt(s, new, t, h, k)
  <2>0. t \in Real /\ h \in Real /\ (s[t].pages - k) % W = n - k /\ (s[t].pages - (n - k)) % W = k
    BY <1>3, <1>8, <1>11 DEF n
  <2>1. /\ new \in [Slots -> Section]
        /\ new[h].prev = t /\ new[h].next = next /\ new[h].start = at /\ new[h].pages = n - k
        /\ new[h].free = s[t].free
        /\ new[t].prev = s[t].prev /\ new[t].next = h /\ new[t].start = s[t].start
        /\ new[t].pages = k /\ new[t].free = s[t].free
        /\ SameBody(s, new, next) /\ new[next].next = s[next].next
        /\ (next # NULL => new[next].prev = h)
        /\ \A i \in Slots \ {t, h, next} : new[i] = s[i]
    BY <2>0, <1>3, <1>5, <1>8, <1>11, <1>12, SplitFieldsDo DEF new
  <2>7. LinksIn(s, new, t, h)
    <3>1. \A i \in Real : i # h =>
            /\ new[i].prev = IF i = next THEN h ELSE s[i].prev
            /\ new[i].next = IF i = t THEN h ELSE s[i].next
            /\ i \notin Lives(s) => new[i] = s[i]
      BY <2>1, <1>11, <1>12
    <3> QED
      BY <2>1, <3>1 DEF LinksIn, next
  <2>8. \A i \in Slots \ {t, h} : SameBody(s, new, i)
    BY <2>1 DEF SameBody
  <2> QED
    BY <2>1, <2>7, <2>8, <1>0 DEF SplitAt, a, n
<1>14. [head |-> h + 1, sec |-> new].sec = new /\ [head |-> h + 1, sec |-> new].head = h + 1
  OBVIOUS
<1> QED
  BY Zenon, <1>3, <1>10, <1>13, <1>14 DEF h

(* The sections next to a section. *)
LEMMA PrevOf ==
  ASSUME NEW s, NEW r, NEW t \in Lives(s), Neat(s, r), t # pmm_sections
  PROVE  LET p == s[t].prev
         IN  /\ p \in Lives(s) /\ p # NULL /\ p # t /\ s[p].next = t /\ r[p] < r[t]
             /\ \A x \in Lives(s) : r[x] <= r[p] \/ r[t] <= r[x]
             /\ \A x \in Lives(s) : s[x].next = t => x = p
BY SlotFacts DEF Lives, Neat, Wired, Ordered

(* The section before t. *)
LEMMA PrevIs ==
  ASSUME NEW s, NEW r, NEW t \in Lives(s), NEW u, u = s[t].prev, Neat(s, r), t # pmm_sections
  PROVE  u \in Lives(s) /\ u # NULL /\ u # t /\ s[u].next = t /\ r[u] < r[t]
BY PrevOf

(* The section after t. *)
LEMMA NextOf ==
  ASSUME NEW s, NEW r, NEW t \in Lives(s), Neat(s, r), s[t].next # NULL
  PROVE  LET n == s[t].next
         IN  /\ n \in Lives(s) /\ n # t /\ n # pmm_sections /\ s[n].prev = t /\ r[t] < r[n]
             /\ \A x \in Lives(s) : r[x] <= r[t] \/ r[n] <= r[x]
BY SlotFacts DEF Neat, Wired, Ordered

(* A slot leaves the table. *)
LEMMA DeleteDoes ==
  ASSUME NEW s \in [Slots -> Section], NEW t \in Real
  PROVE  /\ Delete(s, t) \in [Slots -> Section] /\ Delete(s, t)[t] = Unlinked
         /\ \A j \in Slots \ {t} : Delete(s, t)[j] = s[j]
<1>1. t \in Slots /\ NULL \in Slots
  BY SlotFacts
<1>2. Unlinked \in Section
  BY <1>1, NumberFacts DEF Unlinked, Section, USED
<1> HIDE DEF Unlinked
<1> QED
  BY <1>1, <1>2 DEF Delete

(* Taking the first page moves the boundary with the section before it. *)
LEMMA MoveFirstDoes ==
  ASSUME NEW s, NEW r, NEW t \in Lives(s), NEW u, u = s[t].prev,
         Neat(s, r), Plain(s, t), Plain(s, u), s[t].pages # 0, s[t].free # FREE => s[t].pages # 1
  PROVE  LET new == MoveFirstPage(s, t, u)
         IN  /\ BoundaryMoved(s, new, u, t) /\ EndOf(s, u) = s[t].start
             /\ new[t].start = s[t].start + PAGE_SIZE
             /\ new[u].pages = s[u].pages + 1 /\ new[t].pages = s[t].pages - 1
<1>1. s \in [Slots -> Section] /\ Lives(s) \subseteq Real /\ Real \subseteq Slots /\ NULL \notin Real
  BY SlotFacts DEF Neat, Typed
<1>2. t # pmm_sections
  BY GoodEnd
<1>3. u \in Lives(s) /\ u # NULL /\ u # t /\ s[u].next = t
  BY Zenon, <1>2, PrevIs
<1>4. EndOf(s, u) = s[t].start
  BY <1>1, <1>3 DEF Neat, Close
<1>5. /\ EndOf(s, u) \in 0 .. W - 1 /\ s[u].start \in Nat /\ s[u].pages \in Nat
      /\ EndOf(s, u) = s[u].start + s[u].pages * PAGE_SIZE
  BY <1>3, GoodEnd
<1>6. /\ EndOf(s, t) \in 0 .. W - 1 /\ s[t].start \in Nat /\ s[t].pages \in Nat
      /\ EndOf(s, t) = s[t].start + s[t].pages * PAGE_SIZE
  BY GoodEnd
<1>7. s[t].start + PAGE_SIZE <= EndOf(s, t) /\ s[t].pages \in 0 .. W - 1
  BY <1>1, FieldTypes
<1>8. /\ (s[t].start + PAGE_SIZE) % W = s[t].start + PAGE_SIZE /\ s[t].start + PAGE_SIZE \in 0 .. W - 1
  <2>1. s[t].start + PAGE_SIZE \in 0 .. W - 1
    BY <1>6, <1>7, NumberFacts
  <2> QED
    BY <2>1, ModSmall
<1>9. (s[t].pages - 1) % W = s[t].pages - 1 /\ s[t].pages - 1 \in 0 .. W - 1
  <2>1. s[t].pages - 1 \in 0 .. W - 1
    BY <1>6, <1>7, NumberFacts
  <2> QED
    BY <2>1, ModSmall
<1>10. (s[u].pages + 1) % W = s[u].pages + 1 /\ s[u].pages + 1 \in 0 .. W - 1
       /\ s[u].start + (s[u].pages + 1) * PAGE_SIZE = s[t].start + PAGE_SIZE
  <2>1. s[u].start + (s[u].pages + 1) * PAGE_SIZE = s[t].start + PAGE_SIZE
    <3> DEFINE k == s[u].pages
    <3> HIDE DEF k
    <3>1. k \in Nat /\ s[u].start + k * PAGE_SIZE = s[t].start
      BY <1>4, <1>5 DEF k
    <3>2. (k + 1) * PAGE_SIZE = k * PAGE_SIZE + PAGE_SIZE
      BY <3>1, NumberFacts
    <3>3. k * PAGE_SIZE \in Nat
      BY <3>1, NumberFacts
    <3> QED
      BY <3>1, <3>2, <3>3, <1>5, <1>6, NumberFacts DEF k
  <2>2. s[u].start + (s[u].pages + 1) * PAGE_SIZE <= W - 1 /\ s[u].pages + 1 \in Nat
    BY <2>1, <1>5, <1>8
  <2> QED
    BY <2>1, <2>2, <1>5, FewPages
<1> DEFINE a == s[u].pages + 1
           b == s[t].pages - 1
           c == s[t].start + PAGE_SIZE
           f1 == SetPages(s, u, a)
           f2 == SetPages(f1, t, b)
           f3 == SetStart(f2, t, c)
<1>11. MoveFirstPage(s, t, u) = f3
  <2>1. (s[u].pages + 1) % W = a /\ (s[t].pages - 1) % W = b /\ (s[t].start + PAGE_SIZE) % W = c
    BY <1>8, <1>9, <1>10
  <2> HIDE DEF a, b, c
  <2>2. MoveFirstPage(s, t, u) = SetStart(SetPages(SetPages(s, u, (s[u].pages + 1) % W), t, (s[t].pages - 1) % W),
                                          t, (s[t].start + PAGE_SIZE) % W)
    BY Zenon DEF MoveFirstPage, SetPages, SetStart
  <2> QED
    BY Zenon, <2>1, <2>2
<1>12. a \in 0 .. W - 1 /\ b \in 0 .. W - 1 /\ c \in 0 .. W - 1
  BY <1>8, <1>9, <1>10
<1> HIDE DEF f1, f2, f3, a, b, c
<1>13. u \in Slots /\ t \in Slots
  BY <1>1, <1>3
<1>14. /\ f1 \in [Slots -> Section] /\ \A j \in Slots \ {u} : f1[j] = s[j]
       /\ f1[u].pages = a /\ f1[u].prev = s[u].prev /\ f1[u].next = s[u].next
       /\ f1[u].start = s[u].start /\ f1[u].free = s[u].free
  BY <1>1, <1>12, <1>13, SetPagesDoes DEF f1
<1>15. /\ f2 \in [Slots -> Section] /\ \A j \in Slots \ {t} : f2[j] = f1[j]
       /\ f2[t].pages = b /\ f2[t].prev = f1[t].prev /\ f2[t].next = f1[t].next
       /\ f2[t].start = f1[t].start /\ f2[t].free = f1[t].free
  BY <1>12, <1>13, <1>14, SetPagesDoes DEF f2
<1>16. /\ f3 \in [Slots -> Section] /\ \A j \in Slots \ {t} : f3[j] = f2[j]
       /\ f3[t].start = c /\ f3[t].prev = f2[t].prev /\ f3[t].next = f2[t].next
       /\ f3[t].pages = f2[t].pages /\ f3[t].free = f2[t].free
  BY <1>12, <1>13, <1>15, SetStartDoes DEF f3
<1>17. /\ f3[u].start = s[u].start /\ f3[u].pages = a /\ f3[u].free = s[u].free
       /\ f3[u].prev = s[u].prev /\ f3[u].next = s[u].next
       /\ f3[t].start = c /\ f3[t].pages = b /\ f3[t].free = s[t].free
       /\ f3[t].prev = s[t].prev /\ f3[t].next = s[t].next
       /\ \A j \in Slots \ {u, t} : f3[j] = s[j]
  BY <1>3, <1>13, <1>14, <1>15, <1>16
<1>18. KeepsLinks(s, f3)
  BY <1>1, <1>3, <1>17 DEF KeepsLinks
<1>19. \A x \in Slots \ {u, t} : SameBody(s, f3, x)
  BY <1>17 DEF SameBody
<1>20. EndOf(f3, u) = f3[t].start
  BY <1>10, <1>17 DEF EndOf, a, c
<1>21. EndOf(f3, t) = EndOf(s, t)
  <2> DEFINE n == s[t].pages
  <2>1. b = n - 1 /\ n \in Nat /\ EndOf(s, t) = s[t].start + n * PAGE_SIZE /\ EndOf(f3, t) = (s[t].start + PAGE_SIZE) + b * PAGE_SIZE
    BY <1>6, <1>17 DEF EndOf, b, c
  <2> HIDE DEF n
  <2>2. (n - 1) * PAGE_SIZE = n * PAGE_SIZE - PAGE_SIZE /\ n * PAGE_SIZE \in Nat
    BY <2>1, NumberFacts
  <2> QED
    BY <2>1, <2>2, <1>6, NumberFacts
<1>22. \A x \in {u, t} : s[x].free # FREE => f3[x].pages # 0
  BY <1>5, <1>6, <1>17 DEF a, b
<1>23. BoundaryMoved(s, f3, u, t)
  BY <1>3, <1>16, <1>17, <1>18, <1>19, <1>20, <1>21, <1>22 DEF BoundaryMoved
<1> QED
  BY <1>4, <1>11, <1>17, <1>23 DEF a, b, c

(* Taking the last page moves the boundary with the section after it. *)
LEMMA MoveLastDoes ==
  ASSUME NEW s, NEW r, NEW t \in Lives(s), NEW u, u = s[t].next,
         Neat(s, r), Plain(s, t), Plain(s, u), s[t].pages # 0, s[t].free # FREE => s[t].pages # 1
  PROVE  LET new == MoveLastPage(s, t, u)
         IN  /\ BoundaryMoved(s, new, t, u) /\ EndOf(s, t) = s[u].start
             /\ new[u].start = s[u].start - PAGE_SIZE
             /\ new[t].pages = s[t].pages - 1 /\ new[u].pages = s[u].pages + 1
<1>1. s \in [Slots -> Section] /\ Lives(s) \subseteq Real /\ Real \subseteq Slots /\ NULL \notin Real
  BY SlotFacts DEF Neat, Typed
<1>2. u # NULL
  BY DEF Neat, Typed, Plain
<1>3. u \in Lives(s) /\ u # t /\ t # NULL
  BY <1>1, <1>2, NextOf
<1>4. EndOf(s, t) = s[u].start
  BY <1>2 DEF Neat, Close
<1>5. /\ EndOf(s, u) \in 0 .. W - 1 /\ s[u].start \in Nat /\ s[u].pages \in Nat
      /\ EndOf(s, u) = s[u].start + s[u].pages * PAGE_SIZE
  BY <1>3, GoodEnd
<1>6. /\ EndOf(s, t) \in 0 .. W - 1 /\ s[t].start \in Nat /\ s[t].pages \in Nat
      /\ EndOf(s, t) = s[t].start + s[t].pages * PAGE_SIZE
  BY GoodEnd
<1>7. s[t].start + PAGE_SIZE <= EndOf(s, t) /\ s[t].pages \in 0 .. W - 1
  BY <1>1, FieldTypes
<1>8. (s[u].start - PAGE_SIZE) % W = s[u].start - PAGE_SIZE /\ s[u].start - PAGE_SIZE \in 0 .. W - 1
  <2>1. s[u].start - PAGE_SIZE \in 0 .. W - 1
    BY <1>4, <1>5, <1>6, <1>7, NumberFacts
  <2> QED
    BY <2>1, ModSmall
<1>9. (s[t].pages - 1) % W = s[t].pages - 1 /\ s[t].pages - 1 \in 0 .. W - 1
  <2>1. s[t].pages - 1 \in 0 .. W - 1
    BY <1>6, <1>7, NumberFacts
  <2> QED
    BY <2>1, ModSmall
<1>10. (s[u].pages + 1) % W = s[u].pages + 1 /\ s[u].pages + 1 \in 0 .. W - 1
       /\ (s[u].start - PAGE_SIZE) + (s[u].pages + 1) * PAGE_SIZE = EndOf(s, u)
  <2>1. (s[u].start - PAGE_SIZE) + (s[u].pages + 1) * PAGE_SIZE = EndOf(s, u)
    <3> DEFINE k == s[u].pages
    <3> HIDE DEF k
    <3>1. k \in Nat /\ s[u].start + k * PAGE_SIZE = EndOf(s, u)
      BY <1>5 DEF k
    <3>2. (k + 1) * PAGE_SIZE = k * PAGE_SIZE + PAGE_SIZE
      BY <3>1, NumberFacts
    <3>3. k * PAGE_SIZE \in Nat
      BY <3>1, NumberFacts
    <3> QED
      BY <3>1, <3>2, <3>3, <1>5, NumberFacts DEF k
  <2>2. (s[u].start - PAGE_SIZE) + (s[u].pages + 1) * PAGE_SIZE <= W - 1 /\ s[u].pages + 1 \in Nat
        /\ s[u].start - PAGE_SIZE \in Nat
    BY <2>1, <1>5, <1>8, NumberFacts
  <2> QED
    BY <2>1, <2>2, FewPages
<1> DEFINE a == s[u].start - PAGE_SIZE
           b == s[u].pages + 1
           c == s[t].pages - 1
           f1 == SetStart(s, u, a)
           f2 == SetPages(f1, u, b)
           f3 == SetPages(f2, t, c)
<1>11. MoveLastPage(s, t, u) = f3
  <2>1. (s[u].start - PAGE_SIZE) % W = a /\ (s[u].pages + 1) % W = b /\ (s[t].pages - 1) % W = c
    BY <1>8, <1>9, <1>10
  <2> HIDE DEF a, b, c
  <2>2. MoveLastPage(s, t, u) = SetPages(SetPages(SetStart(s, u, (s[u].start - PAGE_SIZE) % W), u, (s[u].pages + 1) % W),
                                         t, (s[t].pages - 1) % W)
    BY Zenon DEF MoveLastPage, SetPages, SetStart
  <2> QED
    BY Zenon, <2>1, <2>2
<1>12. a \in 0 .. W - 1 /\ b \in 0 .. W - 1 /\ c \in 0 .. W - 1
  BY <1>8, <1>9, <1>10
<1> HIDE DEF f1, f2, f3, a, b, c
<1>13. u \in Slots /\ t \in Slots
  BY <1>1, <1>3
<1>14. /\ f1 \in [Slots -> Section] /\ \A j \in Slots \ {u} : f1[j] = s[j]
       /\ f1[u].start = a /\ f1[u].prev = s[u].prev /\ f1[u].next = s[u].next
       /\ f1[u].pages = s[u].pages /\ f1[u].free = s[u].free
  BY <1>1, <1>12, <1>13, SetStartDoes DEF f1
<1>15. /\ f2 \in [Slots -> Section] /\ \A j \in Slots \ {u} : f2[j] = f1[j]
       /\ f2[u].pages = b /\ f2[u].prev = f1[u].prev /\ f2[u].next = f1[u].next
       /\ f2[u].start = f1[u].start /\ f2[u].free = f1[u].free
  BY <1>12, <1>13, <1>14, SetPagesDoes DEF f2
<1>16. /\ f3 \in [Slots -> Section] /\ \A j \in Slots \ {t} : f3[j] = f2[j]
       /\ f3[t].pages = c /\ f3[t].prev = f2[t].prev /\ f3[t].next = f2[t].next
       /\ f3[t].start = f2[t].start /\ f3[t].free = f2[t].free
  BY <1>12, <1>13, <1>15, SetPagesDoes DEF f3
<1>17. /\ f3[t].start = s[t].start /\ f3[t].pages = c /\ f3[t].free = s[t].free
       /\ f3[t].prev = s[t].prev /\ f3[t].next = s[t].next
       /\ f3[u].start = a /\ f3[u].pages = b /\ f3[u].free = s[u].free
       /\ f3[u].prev = s[u].prev /\ f3[u].next = s[u].next
       /\ \A j \in Slots \ {u, t} : f3[j] = s[j]
  BY <1>3, <1>13, <1>14, <1>15, <1>16
<1>18. KeepsLinks(s, f3)
  BY <1>1, <1>3, <1>17 DEF KeepsLinks
<1>19. \A x \in Slots \ {t, u} : SameBody(s, f3, x)
  BY <1>17 DEF SameBody
<1>20. EndOf(f3, u) = EndOf(s, u)
  BY <1>10, <1>17 DEF EndOf, a, b
<1>21. EndOf(f3, t) = f3[u].start
  <2> DEFINE n == s[t].pages
  <2>1. c = n - 1 /\ n \in Nat /\ EndOf(s, t) = s[t].start + n * PAGE_SIZE /\ EndOf(f3, t) = s[t].start + c * PAGE_SIZE
    BY <1>6, <1>17 DEF EndOf, c
  <2> HIDE DEF n
  <2>2. (n - 1) * PAGE_SIZE = n * PAGE_SIZE - PAGE_SIZE /\ n * PAGE_SIZE \in Nat
    BY <2>1, NumberFacts
  <2>3. s[u].start = s[t].start + n * PAGE_SIZE /\ f3[u].start = s[u].start - PAGE_SIZE
    BY <2>1, <1>4, <1>17 DEF a
  <2>4. EndOf(f3, t) = s[t].start + (n * PAGE_SIZE - PAGE_SIZE)
    BY <2>1, <2>2
  <2> QED
    BY <2>2, <2>3, <2>4, <1>6, NumberFacts
<1>22. \A x \in {t, u} : s[x].free # FREE => f3[x].pages # 0
  BY <1>5, <1>6, <1>17 DEF c, b
<1>23. BoundaryMoved(s, f3, t, u)
  BY <1>16, <1>17, <1>18, <1>19, <1>20, <1>21, <1>22 DEF BoundaryMoved
<1> QED
  BY <1>4, <1>11, <1>17, <1>23 DEF a, b, c

(* Marking changes nothing but the kind. *)
LEMMA MarkDoes ==
  ASSUME NEW s, NEW r, NEW t \in Lives(s), NEW kind \in {USED, FREE}, Neat(s, r)
  PROVE  Marked(s, Mark(s, t, kind), t, kind)
<1>1. s \in [Slots -> Section] /\ Lives(s) \subseteq Real /\ Real \subseteq Slots
  BY SlotFacts DEF Neat, Typed
<1>2. kind \in 0 .. W - 1
  BY PMMAssumption, NumberFacts DEF USED, FREE
<1> DEFINE new == Mark(s, t, kind)
<1>3. new = SetFree(s, t, kind)
  BY Zenon DEF Mark, SetFree
<1> HIDE DEF new
<1>4. /\ new \in [Slots -> Section] /\ \A j \in Slots \ {t} : new[j] = s[j]
      /\ new[t].free = kind /\ new[t].prev = s[t].prev /\ new[t].next = s[t].next
      /\ new[t].start = s[t].start /\ new[t].pages = s[t].pages
  BY <1>1, <1>2, <1>3, SetFreeDoes
<1>5. Marked(s, new, t, kind)
  BY <1>1, <1>4 DEF Marked, KeepsLinks, SameBody
<1> QED
  BY <1>5 DEF new

(* Two good sections that meet, as one. *)
LEMMA SumOfPages ==
  ASSUME NEW s, NEW r, NEW u \in Lives(s), NEW t \in Lives(s), Neat(s, r), Plain(s, u), Plain(s, t),
         s[u].next = t
  PROVE  /\ EndOf(s, u) = s[t].start
         /\ (s[u].pages + s[t].pages) % W = s[u].pages + s[t].pages
         /\ (s[t].pages + s[u].pages) % W = s[u].pages + s[t].pages
         /\ s[u].pages + s[t].pages \in 0 .. W - 1
         /\ s[u].start + (s[u].pages + s[t].pages) * PAGE_SIZE = EndOf(s, t)
<1>1. NULL \notin Real /\ Lives(s) \subseteq Real
  BY SlotFacts
<1>2. EndOf(s, u) = s[t].start
  BY <1>1 DEF Neat, Close
<1> DEFINE a == s[u].start
           b == s[t].start
           x == s[u].pages
           y == s[t].pages
<1>3. /\ a \in Nat /\ x \in Nat /\ b = a + x * PAGE_SIZE
      /\ y \in Nat /\ EndOf(s, t) = b + y * PAGE_SIZE /\ EndOf(s, t) \in 0 .. W - 1
  BY <1>2, GoodEnd
<1> HIDE DEF a, b, x, y
<1>4. a + (x + y) * PAGE_SIZE = EndOf(s, t) /\ x + y \in Nat /\ y + x = x + y
  BY <1>3, NumberFacts
<1>5. (x + y) % W = x + y /\ x + y \in 0 .. W - 1
  <2> DEFINE z == x + y
  <2>1. z \in Nat /\ a + z * PAGE_SIZE <= W - 1
    BY <1>3, <1>4, NumberFacts
  <2> HIDE DEF z
  <2>2. z % W = z /\ z \in 0 .. W - 1
    BY <1>3, <2>1, FewPages
  <2> QED
    BY <2>2 DEF z
<1> QED
  BY <1>2, <1>4, <1>5 DEF a, b, x, y

(* A section of the kind of the one before it disappears into that one. *)
LEMMA CombinePrevDoes ==
  ASSUME NEW s, NEW r, NEW t \in Lives(s), NEW u, u = s[t].prev,
         Neat(s, r), Plain(s, t), s[u].free = s[t].free
  PROVE  LET new == CombinePrev(s, t)
         IN  /\ JoinedBack(s, new, t) /\ EndOf(s, u) = s[t].start /\ u \in Lives(s) /\ u # t
             /\ new[u].pages = s[u].pages + s[t].pages
             /\ new[u].start = s[u].start /\ new[u].free = s[u].free
             /\ \A x \in Slots \ {t, u} : SameBody(s, new, x)
<1>1. s \in [Slots -> Section] /\ Lives(s) \subseteq Real /\ Real \subseteq Slots /\ NULL \notin Real
  BY SlotFacts DEF Neat, Typed
<1>2. t # pmm_sections
  BY GoodEnd
<1>3. u \in Lives(s) /\ u # NULL /\ u # t /\ s[u].next = t
  BY Zenon, <1>2, PrevIs
<1>4. Plain(s, u)
  BY DEF Plain
<1> DEFINE sum == s[u].pages + s[t].pages
           next == s[t].next
<1>5. /\ EndOf(s, u) = s[t].start
      /\ sum % W = sum /\ sum \in 0 .. W - 1
      /\ s[u].start + sum * PAGE_SIZE = EndOf(s, t)
  BY <1>3, <1>4, SumOfPages
<1>6. next \in Slots /\ next # t /\ next # u /\ next # pmm_sections
      /\ (next # NULL => next \in Lives(s) /\ s[next].prev = t)
  <2>1. next \in Slots
    BY <1>1, FieldTypes
  <2>2. next # NULL => next \in Lives(s) /\ next # t /\ next # pmm_sections /\ s[next].prev = t /\ r[t] < r[next]
    BY NextOf
  <2>3. r[u] < r[t] /\ r[u] \in Nat /\ r[t] \in Nat
    BY <1>1, <1>3 DEF Neat, Ordered
  <2> QED
    BY <2>1, <2>2, <2>3, <1>1, <1>3, SlotFacts
<1> HIDE DEF sum, next
<1> DEFINE f1 == SetPages(s, u, sum)
           f2 == SetNext(f1, u, next)
           f3 == SetPrev(f2, next, u)
           new == Delete(f3, t)
<1>7. CombinePrev(s, t) = new
  <2>1. ~(s[t].prev = NULL \/ s[t].free # s[s[t].prev].free)
    BY <1>3
  <2>2. CombinePrev(s, t) = Delete([s EXCEPT ![u].pages = (@ + s[t].pages) % W,
                                            ![u].next = s[t].next,
                                            ![s[t].next].prev = u], t)
    BY Zenon, <2>1 DEF CombinePrev
  <2>3. [s EXCEPT ![u].pages = (@ + s[t].pages) % W, ![u].next = s[t].next, ![s[t].next].prev = u] =
        SetPrev(SetNext(SetPages(s, u, (s[u].pages + s[t].pages) % W), u, s[t].next), s[t].next, u)
    BY Zenon DEF SetPages, SetNext, SetPrev
  <2>4. (s[u].pages + s[t].pages) % W = sum
    BY <1>5 DEF sum
  <2> QED
    BY Zenon, <2>2, <2>3, <2>4 DEF next
<1> HIDE DEF f1, f2, f3, new
<1>8. u \in Slots /\ t \in Slots
  BY <1>1, <1>3
<1>9. /\ f1 \in [Slots -> Section] /\ \A j \in Slots \ {u} : f1[j] = s[j]
      /\ f1[u].pages = sum /\ f1[u].prev = s[u].prev /\ f1[u].next = s[u].next
      /\ f1[u].start = s[u].start /\ f1[u].free = s[u].free
  BY <1>1, <1>5, <1>8, SetPagesDoes DEF f1
<1>10. /\ f2 \in [Slots -> Section] /\ \A j \in Slots \ {u} : f2[j] = f1[j]
       /\ f2[u].next = next /\ f2[u].prev = f1[u].prev /\ SameBody(f1, f2, u)
  BY <1>6, <1>8, <1>9, SetNextDoes DEF f2
<1>11. /\ f3 \in [Slots -> Section] /\ \A j \in Slots \ {next} : f3[j] = f2[j]
       /\ f3[next].prev = u /\ f3[next].next = f2[next].next /\ SameBody(f2, f3, next)
  BY <1>6, <1>8, <1>10, SetPrevDoes DEF f3
<1>12. /\ new \in [Slots -> Section] /\ new[t] = Unlinked /\ \A j \in Slots \ {t} : new[j] = f3[j]
  BY <1>1, <1>11, DeleteDoes DEF new
<1>13. /\ new[u].pages = sum /\ new[u].start = s[u].start /\ new[u].free = s[u].free
       /\ new[u].prev = s[u].prev /\ new[u].next = next
       /\ new[next].prev = u /\ new[next].next = s[next].next /\ SameBody(s, new, next)
       /\ \A j \in Slots \ {t, u, next} : new[j] = s[j]
  BY <1>3, <1>6, <1>8, <1>9, <1>10, <1>11, <1>12 DEF SameBody
<1>14. \A x \in Slots \ {t, u} : SameBody(s, new, x)
  BY <1>13 DEF SameBody
<1>15. Unlinks(s, new, t)
  <2>1. \A i \in Real : i # t =>
          /\ new[i].prev = IF i = next THEN u ELSE s[i].prev
          /\ new[i].next = IF i = u THEN next ELSE s[i].next
          /\ i \notin Lives(s) => new[i] = s[i]
    BY <1>1, <1>3, <1>6, <1>13
  <2> QED
    BY <2>1, <1>12 DEF Unlinks, next
<1>16. EndOf(new, u) = EndOf(s, t)
  BY <1>5, <1>13 DEF EndOf
<1>17. s[u].pages # 0 => new[u].pages # 0
  BY <1>3, <1>4, <1>13, GoodEnd DEF sum
<1>18. JoinedBack(s, new, t)
  BY <1>12, <1>13, <1>14, <1>15, <1>16, <1>17 DEF JoinedBack
<1> QED
  BY <1>3, <1>5, <1>7, <1>13, <1>14, <1>18 DEF sum

(* A section of the kind of the one behind it disappears into that one. *)
LEMMA CombineNextDoes ==
  ASSUME NEW s, NEW r, NEW t \in Lives(s), NEW u, u = s[t].next,
         Neat(s, r), Plain(s, t), s[u].free = s[t].free, s[t].pages # 0
  PROVE  LET new == CombineNext(s, t)
         IN  /\ JoinedForward(s, new, t) /\ EndOf(s, t) = s[u].start /\ u \in Lives(s) /\ u # t
             /\ new[u].pages = s[u].pages + s[t].pages
             /\ new[u].start = s[t].start /\ new[u].free = s[u].free
             /\ \A x \in Slots \ {t, u} : SameBody(s, new, x)
<1>1. s \in [Slots -> Section] /\ Lives(s) \subseteq Real /\ Real \subseteq Slots /\ NULL \notin Real
  BY SlotFacts DEF Neat, Typed
<1>2. t # pmm_sections
  BY GoodEnd
<1>3. Plain(s, u) /\ u # NULL
  BY DEF Plain, Neat, Typed
<1>4. u \in Lives(s) /\ u # t /\ u # pmm_sections /\ s[u].prev = t /\ s[t].next = u
  BY <1>3, NextOf
<1> DEFINE sum == s[t].pages + s[u].pages
           prev == s[t].prev
           a == s[t].start
<1>5. /\ EndOf(s, t) = s[u].start
      /\ (s[u].pages + s[t].pages) % W = sum /\ sum \in 0 .. W - 1
      /\ a + sum * PAGE_SIZE = EndOf(s, u)
  BY <1>3, <1>4, SumOfPages
<1>6. prev \in Lives(s) /\ prev # NULL /\ prev # t /\ s[prev].next = t /\ prev # u
  <2>1. s[t].prev \in Lives(s) /\ s[t].prev # NULL /\ s[t].prev # t /\ s[s[t].prev].next = t /\ r[s[t].prev] < r[t]
    BY Zenon, <1>2, PrevOf
  <2>2. r[t] < r[u] /\ r[u] \in Nat /\ r[t] \in Nat /\ r[prev] \in Nat
    BY <2>1, <1>1, <1>3, <1>4 DEF Neat, Ordered
  <2> QED
    BY <2>1, <2>2
<1>7. a \in 0 .. W - 1
  BY <1>1, FieldTypes
<1> HIDE DEF sum, prev, a
<1> DEFINE f1 == SetStart(s, u, a)
           f2 == SetPages(f1, u, sum)
           f3 == SetPrev(f2, u, prev)
           f4 == SetNext(f3, prev, u)
           new == Delete(f4, t)
<1>8. CombineNext(s, t) = new
  <2>1. ~(s[t].next = NULL \/ s[t].free # s[s[t].next].free)
    BY <1>3
  <2>2. CombineNext(s, t) = Delete([s EXCEPT ![u].start = s[t].start,
                                            ![u].pages = (@ + s[t].pages) % W,
                                            ![u].prev = s[t].prev,
                                            ![s[t].prev].next = u], t)
    BY Zenon, <2>1 DEF CombineNext
  <2>3. [s EXCEPT ![u].start = s[t].start, ![u].pages = (@ + s[t].pages) % W,
                  ![u].prev = s[t].prev, ![s[t].prev].next = u] =
        SetNext(SetPrev(SetPages(SetStart(s, u, s[t].start), u, (s[u].pages + s[t].pages) % W), u, s[t].prev),
                s[t].prev, u)
    BY Zenon DEF SetStart, SetPages, SetNext, SetPrev
  <2>4. (s[u].pages + s[t].pages) % W = sum
    BY <1>5
  <2> QED
    BY Zenon, <2>2, <2>3, <2>4 DEF prev, a
<1> HIDE DEF f1, f2, f3, f4, new
<1>9. u \in Slots /\ t \in Slots /\ prev \in Slots
  BY <1>1, <1>4, <1>6
<1>10. /\ f1 \in [Slots -> Section] /\ \A j \in Slots \ {u} : f1[j] = s[j]
       /\ f1[u].start = a /\ f1[u].prev = s[u].prev /\ f1[u].next = s[u].next
       /\ f1[u].pages = s[u].pages /\ f1[u].free = s[u].free
  BY <1>1, <1>7, <1>9, SetStartDoes DEF f1
<1>11. /\ f2 \in [Slots -> Section] /\ \A j \in Slots \ {u} : f2[j] = f1[j]
       /\ f2[u].pages = sum /\ f2[u].prev = f1[u].prev /\ f2[u].next = f1[u].next
       /\ f2[u].start = f1[u].start /\ f2[u].free = f1[u].free
  BY <1>5, <1>9, <1>10, SetPagesDoes DEF f2
<1>12. /\ f3 \in [Slots -> Section] /\ \A j \in Slots \ {u} : f3[j] = f2[j]
       /\ f3[u].prev = prev /\ f3[u].next = f2[u].next /\ SameBody(f2, f3, u)
  BY <1>9, <1>11, SetPrevDoes DEF f3
<1>13. /\ f4 \in [Slots -> Section] /\ \A j \in Slots \ {prev} : f4[j] = f3[j]
       /\ f4[prev].next = u /\ f4[prev].prev = f3[prev].prev /\ SameBody(f3, f4, prev)
  BY <1>9, <1>12, SetNextDoes DEF f4
<1>14. /\ new \in [Slots -> Section] /\ new[t] = Unlinked /\ \A j \in Slots \ {t} : new[j] = f4[j]
  BY <1>1, <1>13, DeleteDoes DEF new
<1>15. /\ new[u].pages = sum /\ new[u].start = a /\ new[u].free = s[u].free
       /\ new[u].prev = prev /\ new[u].next = s[u].next
       /\ new[prev].next = u /\ new[prev].prev = s[prev].prev /\ SameBody(s, new, prev)
       /\ \A j \in Slots \ {t, u, prev} : new[j] = s[j]
  BY <1>4, <1>6, <1>9, <1>10, <1>11, <1>12, <1>13, <1>14 DEF SameBody
<1>16. \A x \in Slots \ {t, u} : SameBody(s, new, x)
  BY <1>15 DEF SameBody
<1>17. Unlinks(s, new, t)
  <2>1. \A i \in Real : i # t =>
          /\ new[i].prev = IF i = u THEN prev ELSE s[i].prev
          /\ new[i].next = IF i = prev THEN u ELSE s[i].next
          /\ i \notin Lives(s) => new[i] = s[i]
    BY <1>1, <1>4, <1>6, <1>15
  <2> QED
    BY <2>1, <1>14 DEF Unlinks, prev
<1>18. EndOf(new, u) = EndOf(s, u)
  BY <1>5, <1>15 DEF EndOf
<1>19. new[u].pages # 0
  <2>1. s[t].pages \in Nat /\ s[u].pages \in Nat
    BY <1>3, <1>4, GoodEnd
  <2> QED
    BY <2>1, <1>15 DEF sum
<1>20. JoinedForward(s, new, t)
  BY <1>3, <1>4, <1>14, <1>15, <1>16, <1>17, <1>18, <1>19 DEF JoinedForward, a
<1>21. new[u].pages = s[u].pages + s[t].pages
  <2>1. s[t].pages \in Nat /\ s[u].pages \in Nat
    BY <1>3, <1>4, GoodEnd
  <2> QED
    BY <2>1, <1>15 DEF sum
<1> QED
  BY <1>4, <1>5, <1>8, <1>15, <1>16, <1>20, <1>21 DEF a

(* An empty section leaves the list. *)
Dropped(s, t) ==
  Delete([s EXCEPT ![s[t].next].prev = s[t].prev, ![s[t].prev].next = s[t].next], t)

(* Unlinking an empty section is merging it into the one before it. *)
LEMMA DropDoes ==
  ASSUME NEW s, NEW r, NEW t \in Lives(s), Neat(s, r), Plain(s, t), s[t].pages = 0
  PROVE  /\ JoinedBack(s, Dropped(s, t), t)
         /\ \A x \in Slots \ {t} : SameBody(s, Dropped(s, t), x)
<1> DEFINE u == s[t].prev
           next == s[t].next
<1>1. s \in [Slots -> Section] /\ Lives(s) \subseteq Real /\ Real \subseteq Slots /\ NULL \notin Real
  BY SlotFacts DEF Neat, Typed
<1>2. t # pmm_sections
  BY GoodEnd
<1>3. u \in Lives(s) /\ u # NULL /\ u # t /\ s[u].next = t
  BY Zenon, <1>2, PrevOf
<1>4. Plain(s, u) => EndOf(s, u) = EndOf(s, t)
  <2>1. EndOf(s, t) = s[t].start
    BY <1>1, FieldTypes
  <2> QED
    BY <2>1, <1>1, <1>3 DEF Neat, Close
<1>6. next \in Slots /\ next # t /\ next # u /\ next # pmm_sections
      /\ (next # NULL => next \in Lives(s) /\ s[next].prev = t)
  <2>1. next \in Slots
    BY <1>1, FieldTypes
  <2>2. next # NULL => next \in Lives(s) /\ next # t /\ next # pmm_sections /\ s[next].prev = t /\ r[t] < r[next]
    BY NextOf
  <2>3. r[u] < r[t] /\ r[u] \in Nat /\ r[t] \in Nat
    BY <1>1, <1>3 DEF Neat, Ordered
  <2> QED
    BY <2>1, <2>2, <2>3, <1>1, <1>3, SlotFacts
<1> DEFINE f1 == SetPrev(s, next, u)
           f2 == SetNext(f1, u, next)
           new == Delete(f2, t)
<1>7. Dropped(s, t) = new
  BY Zenon DEF Dropped, SetNext, SetPrev
<1> HIDE DEF f1, f2, new, u, next
<1>8. u \in Slots /\ t \in Slots
  BY <1>1, <1>3
<1>9. /\ f1 \in [Slots -> Section] /\ \A j \in Slots \ {next} : f1[j] = s[j]
      /\ f1[next].prev = u /\ f1[next].next = s[next].next /\ SameBody(s, f1, next)
  BY <1>1, <1>6, <1>8, SetPrevDoes DEF f1
<1>10. /\ f2 \in [Slots -> Section] /\ \A j \in Slots \ {u} : f2[j] = f1[j]
       /\ f2[u].next = next /\ f2[u].prev = f1[u].prev /\ SameBody(f1, f2, u)
  BY <1>6, <1>8, <1>9, SetNextDoes DEF f2
<1>12. /\ new \in [Slots -> Section] /\ new[t] = Unlinked /\ \A j \in Slots \ {t} : new[j] = f2[j]
  BY <1>1, <1>10, DeleteDoes DEF new
<1>13. /\ new[u].prev = s[u].prev /\ new[u].next = next /\ SameBody(s, new, u)
       /\ new[next].prev = u /\ new[next].next = s[next].next /\ SameBody(s, new, next)
       /\ \A j \in Slots \ {t, u, next} : new[j] = s[j]
  BY <1>3, <1>6, <1>8, <1>9, <1>10, <1>12 DEF SameBody
<1>14. \A x \in Slots \ {t} : SameBody(s, new, x)
  BY <1>13 DEF SameBody
<1>15. Unlinks(s, new, t)
  <2>1. \A i \in Real : i # t =>
          /\ new[i].prev = IF i = next THEN u ELSE s[i].prev
          /\ new[i].next = IF i = u THEN next ELSE s[i].next
          /\ i \notin Lives(s) => new[i] = s[i]
    BY <1>1, <1>3, <1>6, <1>13
  <2> QED
    BY <2>1, <1>12 DEF Unlinks, next, u
<1>16. EndOf(new, u) = EndOf(s, u)
  BY <1>13 DEF EndOf, SameBody
<1>18. JoinedBack(s, new, t)
  BY <1>3, <1>4, <1>12, <1>13, <1>14, <1>15, <1>16 DEF JoinedBack, SameBody, u
<1> QED
  BY <1>7, <1>14, <1>18

-----------------------------------------------------------------------------
(* What the operations do to a list that is in order. *)
Fine(s, r) == Neat(s, r) /\ Apart(s)

(* What lies at address 0 stays. *)
SameLow(s, new) == new[NULL].start = s[NULL].start /\ new[NULL].free = s[NULL].free

(* No page changes its kind. *)
SameHeld(s, new) == \A kind, p : Held(new, kind, p) <=> Held(s, kind, p)

(* Apart from page p, the pages of every kind are the same. *)
SameOthers(s, new, p) == \A kind, q : q # p => (Held(new, kind, q) <=> Held(s, kind, q))

(* The list without a section that has a neighbour of its kind, or is free. *)
LEMMA UnlinkedApart ==
  ASSUME NEW s, NEW new, NEW r, NEW t \in Lives(s), Fine(s, r), t # pmm_sections,
         Unlinks(s, new, t), Lives(new) = Lives(s) \ {t},
         \A x \in Lives(new) : new[x].free = s[x].free,
         \/ s[t].free = FREE
         \/ s[s[t].prev].free = s[t].free
         \/ s[t].next # NULL /\ s[s[t].next].free = s[t].free
  PROVE  Apart(new)
<1>1. NULL \notin Real /\ Lives(s) \subseteq Real
  BY SlotFacts
<1> DEFINE p == s[t].prev
           n == s[t].next
<1>2. /\ p \in Lives(s) /\ p # NULL /\ p # t /\ s[p].next = t
      /\ \A x \in Lives(s) : s[x].next = t => x = p
  <2>1. Neat(s, r)
    BY DEF Fine
  <2>2. p \in Lives(s) /\ p # NULL /\ p # t /\ s[p].next = t
    BY Zenon, <2>1, PrevIs
  <2>3. \A x \in Lives(s) : s[x].next = t => x = p
    BY <2>1, <1>1 DEF Neat, Wired
  <2> QED
    BY <2>2, <2>3
<1>3. n # NULL => n \in Lives(s) /\ n # t
  BY NextOf DEF Fine
<1>4. s[p].free # FREE \/ s[t].free # FREE
  BY <1>1, <1>2 DEF Fine, Apart
<1>5. n # NULL => s[t].free # FREE \/ s[n].free # FREE
  BY DEF Fine, Apart
<1>6. \A i \in Lives(new) : new[i].next = IF i = p THEN n ELSE s[i].next
  BY <1>1 DEF Unlinks
<1> HIDE DEF p, n
<1> SUFFICES ASSUME NEW i \in Lives(new), new[i].next # NULL
             PROVE  new[i].free # FREE \/ new[new[i].next].free # FREE
  BY DEF Apart
<1>7. CASE i = p
  <2>1. new[i].next = n /\ n # NULL
    BY <1>6, <1>7
  <2>2. new[i].free = s[p].free /\ new[n].free = s[n].free
    BY <2>1, <1>3, <1>7
  <2>3. s[p].free # FREE \/ s[n].free # FREE
    BY <2>1, <1>4, <1>5 DEF p, n
  <2> QED
    BY <2>1, <2>2, <2>3
<1>8. CASE i # p
  <2>1. new[i].next = s[i].next /\ i \in Lives(s)
    BY <1>6, <1>8
  <2>2. s[i].next \in Lives(s) /\ s[i].next # t
    BY <2>1, <1>2, <1>8 DEF Fine, Neat, Wired
  <2>3. s[i].free # FREE \/ s[s[i].next].free # FREE
    BY <2>1 DEF Fine, Apart
  <2> QED
    BY <2>1, <2>2, <2>3
<1> QED
  BY <1>7, <1>8

(* At most t is gone from the list, and nothing else is different. *)
Folded(s, new, t, r) ==
  /\ Fine(new, r) /\ Lives(s) \ {t} \subseteq Lives(new) /\ Lives(new) \subseteq Lives(s)
  /\ \A x \in Lives(new) : new[x].free = s[x].free
  /\ SameLow(s, new) /\ SameHeld(s, new)

(* A list that stays as it is. *)
LEMMA NotFolded ==
  ASSUME NEW s, NEW r, NEW t, Fine(s, r)
  PROVE  Folded(s, s, t, r)
BY DEF Folded, SameLow, SameHeld

(* In both directions, merging keeps the list in order. *)
LEMMA CombinePrevFolds ==
  ASSUME NEW s, NEW r, NEW t \in Lives(s), Fine(s, r), Plain(s, t)
  PROVE  Folded(s, CombinePrev(s, t), t, r)
<1> DEFINE new == CombinePrev(s, t)
           u == s[t].prev
<1>1. s \in [Slots -> Section] /\ Lives(s) \subseteq Real /\ Real \subseteq Slots /\ NULL \notin Real /\ NULL \in Slots
  BY SlotFacts DEF Fine, Neat, Typed
<1>2. Neat(s, r) /\ t # pmm_sections
  BY GoodEnd DEF Fine
<1>3. CASE s[u].free # s[t].free
  <2>1. new = s
    BY Zenon, <1>3 DEF CombinePrev
  <2> QED
    BY Zenon, <2>1, NotFolded
<1>4. CASE s[u].free = s[t].free
  <2>1. /\ JoinedBack(s, new, t) /\ EndOf(s, u) = s[t].start /\ u \in Lives(s) /\ u # t
        /\ new[u].pages = s[u].pages + s[t].pages
        /\ new[u].start = s[u].start /\ new[u].free = s[u].free
        /\ \A x \in Slots \ {t, u} : SameBody(s, new, x)
    BY Zenon, <1>2, <1>4, CombinePrevDoes
  <2> HIDE DEF new, u
  <2>2. Neat(new, r) /\ Lives(new) = Lives(s) \ {t}
    BY Zenon, <1>2, <2>1, JoinedBackNeat
  <2>3. SameHeld(s, new)
    BY Zenon, <1>1, <1>4, <2>1, <2>2, JoinedHeld DEF SameHeld
  <2>4. \A x \in Lives(new) : new[x].free = s[x].free
    BY <1>1, <2>1, <2>2 DEF SameBody
  <2>5. SameLow(s, new)
    BY <1>1, <2>1 DEF SameLow, SameBody
  <2>6. Apart(new)
    <3>1. Unlinks(s, new, t)
      BY Zenon, <2>1 DEF JoinedBack
    <3>2. s[s[t].prev].free = s[t].free
      BY <1>4 DEF u
    <3> QED
      BY Zenon, <3>1, <3>2, <1>2, <2>2, <2>4, UnlinkedApart
  <2>7. Lives(s) \ {t} \subseteq Lives(new) /\ Lives(new) \subseteq Lives(s)
    BY <2>2
  <2>8. Folded(s, new, t, r)
    BY Zenon, <2>2, <2>3, <2>4, <2>5, <2>6, <2>7 DEF Folded, Fine
  <2> QED
    BY Zenon, <2>8 DEF new
<1> QED
  BY <1>3, <1>4

(* pmm_section_combine_next folds a section into its neighbour or leaves it. *)
LEMMA CombineNextFolds ==
  ASSUME NEW s, NEW r, NEW t \in Lives(s), Fine(s, r), Plain(s, t), s[t].pages # 0
  PROVE  Folded(s, CombineNext(s, t), t, r)
<1> DEFINE new == CombineNext(s, t)
           u == s[t].next
<1>1. s \in [Slots -> Section] /\ Lives(s) \subseteq Real /\ Real \subseteq Slots /\ NULL \notin Real /\ NULL \in Slots
  BY SlotFacts DEF Fine, Neat, Typed
<1>2. Neat(s, r) /\ t # pmm_sections
  BY GoodEnd DEF Fine
<1>3. CASE s[u].free # s[t].free
  <2>1. new = s
    BY Zenon, <1>3 DEF CombineNext
  <2> QED
    BY Zenon, <2>1, NotFolded
<1>4. CASE s[u].free = s[t].free
  <2>1. /\ JoinedForward(s, new, t) /\ EndOf(s, t) = s[u].start /\ u \in Lives(s) /\ u # t
        /\ new[u].pages = s[u].pages + s[t].pages
        /\ new[u].start = s[t].start /\ new[u].free = s[u].free
        /\ \A x \in Slots \ {t, u} : SameBody(s, new, x)
    BY Zenon, <1>2, <1>4, CombineNextDoes
  <2> HIDE DEF new, u
  <2>2. Neat(new, r) /\ Lives(new) = Lives(s) \ {t}
    BY <1>2, <2>1, JoinedForwardNeat
  <2>3. SameHeld(s, new)
    BY Zenon, <1>1, <1>4, <2>1, <2>2, JoinedHeld DEF SameHeld
  <2>4. \A x \in Lives(new) : new[x].free = s[x].free
    BY <1>1, <2>1, <2>2 DEF SameBody
  <2>5. SameLow(s, new)
    BY <1>1, <2>1 DEF SameLow, SameBody
  <2>6. Apart(new)
    <3>1. Unlinks(s, new, t)
      BY Zenon, <2>1 DEF JoinedForward
    <3>2. s[t].next # NULL /\ s[s[t].next].free = s[t].free
      BY <1>4, <1>1, <2>1 DEF u
    <3> QED
      BY Zenon, <3>1, <3>2, <1>2, <2>2, <2>4, UnlinkedApart
  <2>7. Lives(s) \ {t} \subseteq Lives(new) /\ Lives(new) \subseteq Lives(s)
    BY <2>2
  <2>8. Folded(s, new, t, r)
    BY Zenon, <2>2, <2>3, <2>4, <2>5, <2>6, <2>7 DEF Folded, Fine
  <2> QED
    BY Zenon, <2>8 DEF new
<1> QED
  BY <1>3, <1>4

(* Unlinking an empty section folds the list. *)
LEMMA DroppedFolds ==
  ASSUME NEW s, NEW r, NEW t \in Lives(s), Fine(s, r), s[t].pages = 0
  PROVE  Folded(s, Dropped(s, t), t, r) /\ Lives(Dropped(s, t)) = Lives(s) \ {t}
<1> DEFINE new == Dropped(s, t)
<1>1. s \in [Slots -> Section] /\ Lives(s) \subseteq Real /\ Real \subseteq Slots /\ NULL \notin Real /\ NULL \in Slots
  BY SlotFacts DEF Fine, Neat, Typed
<1>2. Neat(s, r) /\ s[t].free = FREE /\ Plain(s, t)
  BY DEF Fine, Neat, Filled, Plain
<1>3. t # pmm_sections
  BY <1>2, GoodEnd
<1>4. JoinedBack(s, new, t) /\ \A x \in Slots \ {t} : SameBody(s, new, x)
  BY Zenon, <1>2, DropDoes
<1> HIDE DEF new
<1>5. Neat(new, r) /\ Lives(new) = Lives(s) \ {t}
  BY Zenon, <1>2, <1>4, JoinedBackNeat
<1>6. SameHeld(s, new)
  BY Zenon, <1>1, <1>4, <1>5, DroppedHeld DEF SameHeld
<1>7. \A x \in Lives(new) : new[x].free = s[x].free
  BY <1>1, <1>4, <1>5 DEF SameBody
<1>8. SameLow(s, new)
  BY <1>1, <1>4 DEF SameLow, SameBody
<1>9. Apart(new)
  <2>1. Unlinks(s, new, t)
    BY Zenon, <1>4 DEF JoinedBack
  <2> QED
    BY Zenon, <2>1, <1>2, <1>3, <1>5, <1>7, UnlinkedApart
<1>10. Lives(s) \ {t} \subseteq Lives(new) /\ Lives(new) \subseteq Lives(s)
  BY <1>5
<1>11. Folded(s, new, t, r)
  BY Zenon, <1>5, <1>6, <1>7, <1>8, <1>9, <1>10 DEF Folded, Fine
<1> QED
  BY Zenon, <1>5, <1>11 DEF new

(* The list is the same, and so are the kinds of its sections; page p moves. *)
Moved(s, new, p, r) ==
  /\ Fine(new, r) /\ Lives(new) = Lives(s)
  /\ \A x \in Lives(s) : new[x].free = s[x].free /\ new[x].next = s[x].next
  /\ SameLow(s, new) /\ SameOthers(s, new, p)

(* Moving the boundary between two good sections by a page. *)
LEMMA BoundaryFine ==
  ASSUME NEW s, NEW new, NEW r, NEW i \in Lives(s), NEW j \in Real, Fine(s, r), Plain(s, i), Plain(s, j),
         BoundaryMoved(s, new, i, j)
  PROVE  /\ Fine(new, r) /\ Lives(new) = Lives(s) /\ j \in Lives(s) /\ r[i] < r[j] /\ i # j
         /\ \A x \in Lives(s) : new[x].free = s[x].free /\ new[x].next = s[x].next
         /\ SameLow(s, new)
<1>1. s \in [Slots -> Section] /\ Lives(s) \subseteq Real /\ Real \subseteq Slots /\ NULL \notin Real /\ NULL \in Slots
  BY SlotFacts DEF Fine, Neat, Typed
<1>2. Neat(new, r) /\ Lives(new) = Lives(s) /\ j \in Lives(s) /\ r[i] < r[j] /\ i # j
  BY Zenon, BoundaryNeat DEF Fine
<1>3. \A x \in Slots : new[x].free = s[x].free
  BY DEF BoundaryMoved, SameBody
<1>4. \A x \in Lives(s) : new[x].free = s[x].free /\ new[x].next = s[x].next
  BY <1>1, <1>3 DEF BoundaryMoved, KeepsLinks
<1>5. SameLow(s, new)
  BY <1>1, <1>2, <1>3 DEF SameLow, BoundaryMoved, SameBody
<1>6. Apart(new)
  BY <1>1, <1>2, <1>4 DEF Fine, Apart, Neat, Wired
<1> QED
  BY <1>2, <1>4, <1>5, <1>6 DEF Fine

(* Moving the first page gives it the kind of the section before. *)
LEMMA MoveFirstFine ==
  ASSUME NEW s, NEW r, NEW t \in Lives(s), NEW u, u = s[t].prev, Fine(s, r), Plain(s, t), Plain(s, u),
         s[t].pages # 0, s[t].free # FREE => s[t].pages # 1
  PROVE  LET new == MoveFirstPage(s, t, u)
         IN  Moved(s, new, s[t].start, r) /\ Held(new, s[u].free, s[t].start)
<1> DEFINE new == MoveFirstPage(s, t, u)
<1>1. s \in [Slots -> Section] /\ Lives(s) \subseteq Real /\ Real \subseteq Slots /\ NULL \notin Real /\ NULL \in Slots
  BY SlotFacts DEF Fine, Neat, Typed
<1>2. Neat(s, r) /\ t # pmm_sections
  BY GoodEnd DEF Fine
<1>3. u \in Lives(s) /\ u # t
  BY Zenon, <1>2, PrevIs
<1>4. /\ BoundaryMoved(s, new, u, t) /\ EndOf(s, u) = s[t].start
      /\ new[t].start = s[t].start + PAGE_SIZE
      /\ new[u].pages = s[u].pages + 1 /\ new[t].pages = s[t].pages - 1
  BY <1>2, MoveFirstDoes
<1> HIDE DEF new
<1>5. /\ Fine(new, r) /\ Lives(new) = Lives(s)
      /\ \A x \in Lives(s) : new[x].free = s[x].free /\ new[x].next = s[x].next
      /\ SameLow(s, new)
  <2>1. t \in Real
    BY <1>1
  <2> QED
    BY Zenon, <2>1, <1>3, <1>4, BoundaryFine
<1>6. SameOthers(s, new, s[t].start) /\ Within(new, u, s[t].start)
  BY Zenon, <1>1, <1>3, <1>4, <1>5, FirstPageHeld DEF SameOthers
<1>7. Held(new, s[u].free, s[t].start)
  BY Zenon, <1>3, <1>5, <1>6 DEF Held
<1> QED
  BY Zenon, <1>5, <1>6, <1>7 DEF Moved, new

(* Moving the last page gives it the kind of the section after. *)
LEMMA MoveLastFine ==
  ASSUME NEW s, NEW r, NEW t \in Lives(s), NEW u, u = s[t].next, Fine(s, r), Plain(s, t), Plain(s, u),
         s[t].pages # 0, s[t].free # FREE => s[t].pages # 1
  PROVE  LET new == MoveLastPage(s, t, u)
         IN  /\ Moved(s, new, EndOf(s, t) - PAGE_SIZE, r) /\ u \in Lives(s) /\ u # NULL
             /\ new[u].start = EndOf(s, t) - PAGE_SIZE /\ new[u].pages = s[u].pages + 1
             /\ Held(new, s[u].free, EndOf(s, t) - PAGE_SIZE)
<1> DEFINE new == MoveLastPage(s, t, u)
<1>1. s \in [Slots -> Section] /\ Lives(s) \subseteq Real /\ Real \subseteq Slots /\ NULL \notin Real /\ NULL \in Slots
  BY SlotFacts DEF Fine, Neat, Typed
<1>2. Neat(s, r)
  BY DEF Fine
<1>3. u # NULL
  BY <1>2 DEF Neat, Typed, Plain
<1>4. u \in Lives(s) /\ u # t
  BY <1>2, <1>3, NextOf
<1>5. /\ BoundaryMoved(s, new, t, u) /\ EndOf(s, t) = s[u].start
      /\ new[u].start = s[u].start - PAGE_SIZE
      /\ new[t].pages = s[t].pages - 1 /\ new[u].pages = s[u].pages + 1
  BY <1>2, MoveLastDoes
<1> HIDE DEF new
<1>6. /\ Fine(new, r) /\ Lives(new) = Lives(s)
      /\ \A x \in Lives(s) : new[x].free = s[x].free /\ new[x].next = s[x].next
      /\ SameLow(s, new)
  <2>1. u \in Real
    BY <1>1, <1>4
  <2> QED
    BY Zenon, <2>1, <1>5, BoundaryFine
<1>7. new[u].start = EndOf(s, t) - PAGE_SIZE
  BY <1>5
<1>8. SameOthers(s, new, new[u].start) /\ Within(new, u, new[u].start)
  BY <1>1, <1>4, <1>5, <1>6, LastPageHeld DEF SameOthers
<1>9. Held(new, s[u].free, new[u].start)
  BY Zenon, <1>4, <1>6, <1>8 DEF Held
<1> QED
  BY Zenon, <1>3, <1>4, <1>5, <1>6, <1>7, <1>8, <1>9 DEF Moved, new

(* A section and the next one are not both free. *)
NotBoth(s, i) == s[i].next # NULL => s[i].free # FREE \/ s[s[i].next].free # FREE

(* The section of page p is split before that page, into slot n. *)
Cut(s, new, t, n, p, q) ==
  /\ n \in Real \ Lives(s) /\ Neat(new, q) /\ Lives(new) = Lives(s) \cup {n}
  /\ new[t].next = n /\ new[t].start = s[t].start /\ new[t].free = s[t].free
  /\ new[n].prev = t /\ new[n].next = s[t].next /\ new[n].start = p /\ new[n].free = s[t].free
  /\ EndOf(new, n) = EndOf(s, t) /\ new[n].pages # 0 /\ new[n].pages \in Nat
  /\ \A i \in Lives(s) : i # t => new[i].next = s[i].next /\ new[i].free = s[i].free
  /\ \A i \in Lives(s) : i # t /\ NotBoth(s, i) => NotBoth(new, i)
  /\ NotBoth(s, t) => NotBoth(new, n)
  /\ s[t].free # FREE => NotBoth(new, t)
  /\ SameLow(s, new) /\ SameHeld(s, new)

(* Section t has a page p to be cut at, and the table has a slot. *)
Cuttable(m, s, r, t, p) ==
  t \in Lives(s) /\ Ready(m, s, 1) /\ Neat(s, r) /\ Plain(s, t) /\ Within(s, t, p) /\ p # s[t].start

(* The cut was made. *)
CutTo(m, s, cut, t, p) ==
  /\ \E q : Cut(s, cut.sec, t, m.head, p, q)
  /\ cut.head = m.head + 1 /\ DeadFrom(cut.sec, m.head + 1)
  /\ cut.sec[t].pages = (p - s[t].start) \div PAGE_SIZE

(* Splitting a section at a page that is not its first takes one slot. *)
LEMMA CutDoes ==
  ASSUME NEW m, NEW s, NEW r, NEW t, NEW p, Cuttable(m, s, r, t, p)
  PROVE  CutTo(m, s, Split(m, t, p), t, p)
<1> DEFINE new == Split(m, t, p).sec
           n == m.head
<1>0. t \in Lives(s) /\ Ready(m, s, 1) /\ Neat(s, r) /\ Plain(s, t) /\ Within(s, t, p) /\ p # s[t].start
  BY DEF Cuttable
<1> USE <1>0
<1>1. s \in [Slots -> Section] /\ Lives(s) \subseteq Real /\ Real \subseteq Slots /\ NULL \notin Real /\ NULL \in Slots
  BY SlotFacts DEF Neat, Typed
<1>2. PICK k \in 1 .. s[t].pages - 1 : p = s[t].start + k * PAGE_SIZE
  <2>1. PICK k \in 0 .. s[t].pages - 1 : p = s[t].start + k * PAGE_SIZE
    BY DEF Within, PageRun
  <2>2. s[t].start \in Nat /\ s[t].pages \in Nat
    BY GoodEnd
  <2>3. k # 0
    BY <2>1, <2>2, NumberFacts
  <2> QED
    BY <2>1, <2>2, <2>3
<1>3. Split(m, t, p).head = n + 1 /\ n \in Real \ Lives(s) /\ SplitAt(s, new, t, n, k)
  <2>1. IsPage(s, t, k, p)
    BY <1>2 DEF IsPage
  <2>2. k \in 1 .. s[t].pages - 1
    BY <1>2
  <2>3. Ready(m, s, 1) /\ Neat(s, r) /\ Plain(s, t)
    OBVIOUS
  <2>4. /\ Split(m, t, p).head = m.head + 1
        /\ m.head \in Real \ Lives(s) /\ SplitAt(s, Split(m, t, p).sec, t, m.head, k)
    BY Zenon, <2>1, <2>2, <2>3, SplitDoes
  <2> QED
    BY <2>4
<1> HIDE DEF new, n
<1>4. PICK q : Extends(s, r, q, t, n)
  BY Zenon, <1>3, OrderHasRoom DEF Neat
<1>5. Neat(new, q) /\ Lives(new) = Lives(s) \cup {n} /\ new[t].next = n
  BY <1>2, <1>3, <1>4, SplitNeat
<1>6. SameHeld(s, new)
  BY Zenon, <1>1, <1>2, <1>3, <1>5, SplitHeld DEF SameHeld
<1>7. /\ \A i \in Slots \ {t, n} : SameBody(s, new, i)
      /\ new[t].free = s[t].free /\ new[n].free = s[t].free
  BY <1>3 DEF SplitAt
<1>8. t # pmm_sections /\ t # NULL /\ n # NULL
  BY <1>1, <1>3, GoodEnd
<1>9. SameLow(s, new)
  BY <1>1, <1>7, <1>8 DEF SameLow, SameBody
<1>10. /\ new[n].next = s[t].next /\ new[n].prev = t
       /\ \A i \in Lives(s) : i # t => new[i].next = s[i].next
  BY <1>1, <1>3 DEF SplitAt, LinksIn
<1>11. \A i \in Lives(s) : new[i].free = s[i].free
  BY <1>1, <1>3, <1>7 DEF SameBody
<1>12. \A i \in Lives(s) : s[i].next # NULL => s[i].next \in Lives(s)
  BY DEF Neat, Wired
<1>13. \A i \in Lives(s) : i # t /\ NotBoth(s, i) => NotBoth(new, i)
  BY <1>10, <1>11, <1>12 DEF NotBoth
<1>14. NotBoth(s, t) => NotBoth(new, n)
  BY <1>7, <1>10, <1>11, <1>12 DEF NotBoth
<1>15. s[t].free # FREE => NotBoth(new, t)
  BY <1>7 DEF NotBoth
<1>16. /\ new[n].start = p /\ new[n].pages = s[t].pages - k /\ new[n].pages # 0 /\ new[n].pages \in Nat
       /\ new[t].start = s[t].start /\ new[t].pages = k
  <2>1. s[t].pages \in Nat
    BY GoodEnd
  <2> QED
    BY <2>1, <1>2, <1>3 DEF SplitAt
<1>17. EndOf(new, n) = EndOf(s, t)
  <2> DEFINE a == s[t].start
             x == s[t].pages
  <2>1. /\ a \in Nat /\ x \in Nat /\ EndOf(s, t) = a + x * PAGE_SIZE
        /\ EndOf(new, n) = (a + k * PAGE_SIZE) + (x - k) * PAGE_SIZE
    BY <1>2, <1>16, GoodEnd DEF EndOf
  <2> HIDE DEF a, x
  <2>2. k \in Nat
    OBVIOUS
  <2> QED
    BY <2>1, <2>2, NumberFacts
<1>18. Cut(s, new, t, n, p, q)
  BY Zenon, <1>3, <1>5, <1>6, <1>7, <1>9, <1>10, <1>11, <1>13, <1>14, <1>15, <1>16, <1>17 DEF Cut
<1>19. DeadFrom(new, n + 1)
  <2>1. n \in Nat /\ DeadFrom(s, n)
    BY DEF Ready, n
  <2> QED
    BY <2>1, <1>5 DEF DeadFrom, Real
<1>20. new[t].pages = (p - s[t].start) \div PAGE_SIZE
  <2>1. s[t].start \in Nat /\ k \in Nat
    BY GoodEnd
  <2>2. p - s[t].start = k * PAGE_SIZE
    BY <2>1, <1>2, NumberFacts
  <2> QED
    BY <2>1, <2>2, <1>16, RunIndex
<1>21. \E x : Cut(s, new, t, n, p, x)
  BY Zenon, <1>18
<1> QED
  BY Zenon, <1>3, <1>19, <1>20, <1>21 DEF new, n, CutTo

(* A section that ends with the page is not split behind it. *)
LEMMA NothingToCut ==
  ASSUME NEW m, NEW s, NEW r, NEW t \in Lives(s), m.sec = s, Neat(s, r), Plain(s, t), s[t].pages = 1
  PROVE  Split(m, t, (s[t].start + PAGE_SIZE) % W) = m
BY GoodEnd, NumberFacts, ModSmall DEF Split

(* A section of one page changes its kind. *)
Changed(s, new, t, kind, r) ==
  /\ Fine(new, r) /\ Lives(new) = Lives(s)
  /\ new[t].start = s[t].start /\ new[t].pages = 1 /\ new[t].free = kind /\ new[t].next = s[t].next
  /\ SameLow(s, new) /\ SameOthers(s, new, s[t].start) /\ Held(new, kind, s[t].start)

(* Marking a section of one page gives the page another kind, without making *)
(* neighbours of free sections.                                              *)
LEMMA MarkChanges ==
  ASSUME NEW s, NEW r, NEW t \in Lives(s), NEW kind \in {USED, FREE}, Neat(s, r), Plain(s, t), s[t].pages = 1,
         \/ kind = USED /\ \A i \in Lives(s) : i = t \/ s[i].next = t \/ NotBoth(s, i)
         \/ /\ Apart(s) /\ s[s[t].prev].free # FREE
            /\ s[t].next # NULL => s[s[t].next].free # FREE
  PROVE  Changed(s, Mark(s, t, kind), t, kind, r)
<1> DEFINE new == Mark(s, t, kind)
<1>1. s \in [Slots -> Section] /\ Lives(s) \subseteq Real /\ Real \subseteq Slots /\ NULL \notin Real /\ NULL \in Slots
  BY SlotFacts DEF Neat, Typed
<1>2. Marked(s, new, t, kind)
  BY MarkDoes
<1> HIDE DEF new
<1>3. s[t].pages # 0
  OBVIOUS
<1>4. Neat(new, r) /\ Lives(new) = Lives(s)
  BY Zenon, <1>2, <1>3, MarkedNeat
<1>5. SameOthers(s, new, s[t].start) /\ Held(new, kind, s[t].start)
  BY Zenon, <1>1, <1>2, <1>4, MarkedHeld DEF SameOthers
<1>6. /\ new[t].start = s[t].start /\ new[t].pages = 1 /\ new[t].free = kind
      /\ \A i \in Lives(s) : new[i].next = s[i].next /\ (i # t => new[i].free = s[i].free)
  BY <1>1, <1>2 DEF Marked, KeepsLinks, SameBody
<1>7. SameLow(s, new)
  <2>1. t # NULL
    BY <1>1
  <2> QED
    BY <2>1, <1>1, <1>2 DEF SameLow, Marked, SameBody
<1>8. \A i \in Lives(s) : s[i].next # NULL => s[i].next \in Lives(s)
  BY DEF Neat, Wired
<1>9. Apart(new)
  <2>1. CASE kind = USED /\ \A i \in Lives(s) : i = t \/ s[i].next = t \/ NotBoth(s, i)
    <3> SUFFICES ASSUME NEW i \in Lives(s), s[i].next # NULL
                 PROVE  new[i].free # FREE \/ new[s[i].next].free # FREE
      BY <1>4, <1>6 DEF Apart
    <3>1. new[t].free # FREE
      BY <2>1, <1>6 DEF USED, FREE
    <3>2. CASE i = t \/ s[i].next = t
      BY <3>1, <3>2
    <3>3. CASE ~(i = t \/ s[i].next = t)
      BY <3>3, <2>1, <1>6, <1>8 DEF NotBoth
    <3> QED
      BY <3>2, <3>3
  <2>2. CASE /\ Apart(s) /\ s[s[t].prev].free # FREE
             /\ s[t].next # NULL => s[s[t].next].free # FREE
    <3> SUFFICES ASSUME NEW i \in Lives(s), s[i].next # NULL
                 PROVE  new[i].free # FREE \/ new[s[i].next].free # FREE
      BY <1>4, <1>6 DEF Apart
    <3>1. CASE i = t
      <4>1. s[t].next \in Lives(s) /\ s[t].next # t
        BY <3>1, NextOf
      <4> QED
        BY <4>1, <3>1, <2>2, <1>6
    <3>2. CASE i # t /\ s[i].next = t
      <4>1. s[t].prev = i
        BY <3>2, <1>1 DEF Neat, Wired
      <4> QED
        BY <4>1, <3>2, <2>2, <1>6
    <3>3. CASE i # t /\ s[i].next # t
      BY <3>3, <2>2, <1>6, <1>8 DEF Apart
    <3> QED
      BY <3>1, <3>2, <3>3
  <2> QED
    BY <2>1, <2>2
<1>10. Changed(s, new, t, kind, r)
  BY Zenon, <1>4, <1>5, <1>6, <1>7, <1>9 DEF Changed, Fine
<1> QED
  BY Zenon, <1>10 DEF new

-----------------------------------------------------------------------------
(* What a call makes of a page, and of the rest of the list. *)

(* Page p is now of a kind; the list is in order, and at most n more slots   *)
(* were taken from the table.                                                *)
Turned(m, s, new, h, p, kind, n) ==
  /\ \E q : Fine(new, q)
  /\ SameLow(s, new) /\ SameOthers(s, new, p) /\ Held(new, kind, p)
  /\ h \in Nat /\ h <= m.head + n /\ DeadFrom(new, h)

(* x is a section that starts with page p. *)
StartsAt(s, x, p) == x \in Lives(s) /\ Plain(s, x) /\ s[x].start = p /\ s[x].pages # 0

(* What comes behind it starts behind p. *)
LEMMA BehindStart ==
  ASSUME NEW s, NEW r, NEW x, NEW p, Neat(s, r), StartsAt(s, x, p)
  PROVE  s[x].next = NULL \/ (s[x].next \in Lives(s) /\ s[s[x].next].start > p)
<1>1. x \in Lives(s) /\ Plain(s, x) /\ s[x].start = p /\ s[x].pages # 0
  BY DEF StartsAt
<1> SUFFICES ASSUME s[x].next # NULL
             PROVE  s[x].next \in Lives(s) /\ s[s[x].next].start > p
  OBVIOUS
<1>2. s[x].next \in Lives(s) /\ EndOf(s, x) = s[s[x].next].start
  BY <1>1 DEF Neat, Wired, Close
<1>3. s \in [Slots -> Section] /\ x \in Slots /\ s[x].next \in Slots
  BY <1>1, <1>2, SlotFacts DEF Neat, Typed
<1>4. s[x].start < EndOf(s, x) /\ s[x].start \in 0 .. W - 1 /\ EndOf(s, x) \in Nat
  BY <1>1, <1>3, FieldTypes
<1> QED
  BY <1>1, <1>2, <1>4, NumberFacts

(* The page that follows the first one of a section. *)
LEMMA SecondPage ==
  ASSUME NEW s, NEW r, NEW t \in Lives(s), Neat(s, r), Plain(s, t), s[t].pages # 0
  PROVE  /\ (s[t].start + PAGE_SIZE) % W = s[t].start + PAGE_SIZE
         /\ s[t].pages # 1 => Within(s, t, s[t].start + PAGE_SIZE) /\ s[t].start + PAGE_SIZE # s[t].start
         /\ ((s[t].start + PAGE_SIZE) - s[t].start) \div PAGE_SIZE = 1
         /\ Within(s, t, s[t].start)
<1>1. /\ EndOf(s, t) \in 0 .. W - 1 /\ s[t].start \in Nat /\ s[t].pages \in Nat
      /\ s \in [Slots -> Section] /\ t \in Slots
  BY GoodEnd, SlotFacts DEF Neat, Typed
<1>2. s[t].start + PAGE_SIZE <= EndOf(s, t)
  BY <1>1, FieldTypes
<1>3. s[t].start + PAGE_SIZE \in 0 .. W - 1
  BY <1>1, <1>2, NumberFacts
<1>4. (s[t].start + PAGE_SIZE) % W = s[t].start + PAGE_SIZE
  BY <1>3, ModSmall
<1>5. s[t].pages # 1 => Within(s, t, s[t].start + PAGE_SIZE)
  <2>1. s[t].pages # 1 => 1 \in 0 .. s[t].pages - 1
    BY <1>1
  <2>2. s[t].start + PAGE_SIZE = s[t].start + 1 * PAGE_SIZE
    BY <1>1, NumberFacts
  <2> QED
    BY <2>1, <2>2 DEF Within, PageRun
<1>6. Within(s, t, s[t].start)
  <2>1. 0 \in 0 .. s[t].pages - 1
    BY <1>1
  <2>2. s[t].start = s[t].start + 0 * PAGE_SIZE
    BY <1>1, NumberFacts
  <2> QED
    BY <2>1, <2>2 DEF Within, PageRun
<1>7. (s[t].start + PAGE_SIZE) - s[t].start = 1 * PAGE_SIZE /\ 1 \in Nat /\ s[t].start + PAGE_SIZE # s[t].start
  BY <1>1, NumberFacts
<1> QED
  BY <1>4, <1>5, <1>6, <1>7, RunIndex

(* A free section and the one after it are apart, but for t and the one      *)
(* before it.                                                                *)
Nearly(s, t) == \A i \in Lives(s) : (i # t /\ s[i].next = t) \/ NotBoth(s, i)

(* The first page of a section becomes a section of its own, in use. *)
LEMMA TakeFirst ==
  ASSUME NEW m, NEW s, NEW r, NEW t \in Lives(s),
         Ready(m, s, 1), Neat(s, r), Plain(s, t), s[t].pages # 0, Nearly(s, t)
  PROVE  LET cut == Split(m, t, (s[t].start + PAGE_SIZE) % W)
             new == Mark(cut.sec, t, USED)
         IN  Turned(m, s, new, cut.head, s[t].start, USED, 1) /\ StartsAt(new, t, s[t].start)
<1> DEFINE p == s[t].start + PAGE_SIZE
           cut == Split(m, t, (s[t].start + PAGE_SIZE) % W)
           c == cut.sec
           new == Mark(c, t, USED)
           n == m.head
<1>1. Neat(s, r) /\ Plain(s, t) /\ USED \in {USED, FREE}
  OBVIOUS
<1>2. cut = Split(m, t, p)
  BY <1>1, SecondPage
<1>3. m.sec = s /\ m.head \in Nat /\ DeadFrom(s, m.head)
  BY DEF Ready
<1>4. CASE s[t].pages = 1
  <2>1. cut = m
    BY Zenon, <1>1, <1>3, <1>4, NothingToCut
  <2>2. c = s /\ cut.head = m.head
    BY <2>1, <1>3
  <2> HIDE DEF cut, c, new
  <2>3. \A i \in Lives(s) : i = t \/ s[i].next = t \/ NotBoth(s, i)
    BY DEF Nearly
  <2>4. Changed(s, Mark(s, t, USED), t, USED, r)
    BY Zenon, <1>1, <1>4, <2>3, MarkChanges
  <2>5. Changed(s, new, t, USED, r)
    BY <2>2, <2>4 DEF new
  <2>6. DeadFrom(new, cut.head) /\ cut.head \in Nat /\ cut.head <= m.head + 1
    BY <1>3, <2>2, <2>5 DEF DeadFrom, Changed
  <2>7. Turned(m, s, new, cut.head, s[t].start, USED, 1)
    BY Zenon, <2>5, <2>6 DEF Turned, Changed
  <2>8. StartsAt(new, t, s[t].start)
    BY <2>5 DEF Changed, StartsAt, Plain
  <2> QED
    BY <2>7, <2>8 DEF new, c, cut
<1>5. CASE s[t].pages # 1
  <2>1. Within(s, t, p) /\ p # s[t].start /\ (p - s[t].start) \div PAGE_SIZE = 1
    BY <1>1, <1>5, SecondPage
  <2> HIDE DEF p
  <2>2. CutTo(m, s, cut, t, p)
    <3>1. Cuttable(m, s, r, t, p)
      BY <1>1, <2>1 DEF Cuttable
    <3>2. CutTo(m, s, Split(m, t, p), t, p)
      BY Zenon, <3>1, CutDoes
    <3> QED
      BY Zenon, <3>2, <1>2
  <2>3. /\ \E q : Cut(s, c, t, n, p, q)
        /\ cut.head = n + 1 /\ DeadFrom(c, n + 1)
        /\ c[t].pages = 1
    BY <2>1, <2>2 DEF CutTo
  <2> HIDE DEF cut, c, new
  <2>4. PICK q : Cut(s, c, t, n, p, q)
    BY <2>3
  <2>5. /\ n \in Real \ Lives(s) /\ Neat(c, q) /\ Lives(c) = Lives(s) \cup {n}
        /\ c[t].next = n /\ c[t].start = s[t].start /\ c[t].free = s[t].free
        /\ c[n].next = s[t].next /\ c[n].free = s[t].free
        /\ \A i \in Lives(s) : i # t => c[i].next = s[i].next
        /\ \A i \in Lives(s) : i # t /\ NotBoth(s, i) => NotBoth(c, i)
        /\ NotBoth(s, t) => NotBoth(c, n)
        /\ SameLow(s, c) /\ SameHeld(s, c)
    BY <2>4 DEF Cut
  <2>6. \A i \in Lives(s) : (i # t /\ s[i].next = t) \/ NotBoth(s, i)
    BY DEF Nearly
  <2>7. \A i \in Lives(c) : i = t \/ c[i].next = t \/ NotBoth(c, i)
    BY <2>5, <2>6
  <2>8. t \in Lives(c) /\ Plain(c, t)
    BY <2>5, <1>1 DEF Plain
  <2>9. Changed(c, new, t, USED, q)
    BY Zenon, <1>1, <2>3, <2>5, <2>7, <2>8, MarkChanges DEF new
  <2>10. /\ SameLow(s, new) /\ SameOthers(s, new, s[t].start) /\ Held(new, USED, s[t].start)
    BY <2>5, <2>9 DEF Changed, SameLow, SameOthers, SameHeld
  <2>11. DeadFrom(new, cut.head) /\ cut.head \in Nat /\ cut.head <= m.head + 1
    BY <1>3, <2>3, <2>9 DEF DeadFrom, Changed
  <2>12. Turned(m, s, new, cut.head, s[t].start, USED, 1)
    BY Zenon, <2>9, <2>10, <2>11 DEF Turned, Changed
  <2>13. StartsAt(new, t, s[t].start)
    BY <2>5, <2>8, <2>9 DEF Changed, StartsAt, Plain
  <2> QED
    BY <2>12, <2>13 DEF new, c, cut
<1> QED
  BY <1>4, <1>5

(* The first page of a used section is split off. *)
LEMMA SplitFirst ==
  ASSUME NEW m, NEW s, NEW r, NEW t \in Lives(s),
         Ready(m, s, 1), Fine(s, r), s[t].free = USED, s[t].pages # 1
  PROVE  LET cut == Split(m, t, (s[t].start + PAGE_SIZE) % W)
         IN  /\ \E q : Fine(cut.sec, q)
             /\ SameLow(s, cut.sec) /\ SameHeld(s, cut.sec)
             /\ cut.head \in Nat /\ cut.head <= m.head + 1 /\ DeadFrom(cut.sec, cut.head)
<1> DEFINE p == s[t].start + PAGE_SIZE
           cut == Split(m, t, (s[t].start + PAGE_SIZE) % W)
           c == cut.sec
           n == m.head
<1>1. Neat(s, r) /\ Apart(s) /\ Plain(s, t) /\ s[t].pages # 0
  BY DEF Fine, Plain, Neat, Filled, USED, FREE
<1>2. cut = Split(m, t, p)
  BY <1>1, SecondPage
<1>3. m.sec = s /\ m.head \in Nat /\ DeadFrom(s, m.head)
  BY DEF Ready
<1>4. Within(s, t, p) /\ p # s[t].start
  BY <1>1, SecondPage
<1> HIDE DEF p
<1>5. CutTo(m, s, cut, t, p)
  <2>1. Cuttable(m, s, r, t, p)
    BY <1>1, <1>4 DEF Cuttable
  <2>2. CutTo(m, s, Split(m, t, p), t, p)
    BY Zenon, <2>1, CutDoes
  <2> QED
    BY Zenon, <2>2, <1>2
<1>6. /\ \E q : Cut(s, c, t, n, p, q)
      /\ cut.head = n + 1 /\ DeadFrom(c, n + 1)
  BY <1>5 DEF CutTo
<1> HIDE DEF cut, c
<1>7. PICK q : Cut(s, c, t, n, p, q)
  BY <1>6
<1>8. /\ Neat(c, q) /\ Lives(c) = Lives(s) \cup {n}
      /\ \A i \in Lives(s) : i # t /\ NotBoth(s, i) => NotBoth(c, i)
      /\ NotBoth(s, t) => NotBoth(c, n)
      /\ s[t].free # FREE => NotBoth(c, t)
      /\ SameLow(s, c) /\ SameHeld(s, c)
  BY <1>7 DEF Cut
<1>9. \A i \in Lives(s) : NotBoth(s, i)
  BY <1>1 DEF Apart, NotBoth
<1>10. \A i \in Lives(c) : NotBoth(c, i)
  BY <1>8, <1>9 DEF USED, FREE
<1>11. Fine(c, q)
  BY <1>8, <1>10 DEF Fine, Apart, NotBoth
<1>12. cut.head \in Nat /\ cut.head <= m.head + 1 /\ DeadFrom(c, cut.head)
  BY <1>3, <1>6
<1> QED
  BY <1>8, <1>11, <1>12 DEF cut, c

(* No two sections next to each other are both free, and none is. *)
LEMMA FineNearly ==
  ASSUME NEW s, NEW r, NEW t, Fine(s, r)
  PROVE  Nearly(s, t) /\ \A i \in Lives(s) : NotBoth(s, i)
BY DEF Fine, Apart, Nearly, NotBoth

(* A section that ends a page behind its start has one page. *)
LEMMA OnePage ==
  ASSUME NEW s, NEW r, NEW t \in Lives(s), Neat(s, r), Plain(s, t), EndOf(s, t) = s[t].start + PAGE_SIZE
  PROVE  s[t].pages = 1
<1>1. /\ EndOf(s, t) = s[t].start + s[t].pages * PAGE_SIZE
      /\ s[t].start \in Nat /\ s[t].pages \in Nat
  BY GoodEnd
<1> DEFINE x == s[t].pages
<1>2. x * PAGE_SIZE = PAGE_SIZE /\ x \in Nat
  <2>1. x * PAGE_SIZE \in Nat
    BY <1>1, NumberFacts
  <2> QED
    BY <1>1, <2>1, NumberFacts
<1> HIDE DEF x
<1>3. (x * PAGE_SIZE) \div PAGE_SIZE = x /\ (1 * PAGE_SIZE) \div PAGE_SIZE = 1
  BY <1>2, RunIndex
<1>4. 1 * PAGE_SIZE = PAGE_SIZE
  BY NumberFacts
<1> QED
  BY <1>2, <1>3, <1>4 DEF x

(* The last page of a used section becomes a free section of its own. *)
LEMMA GiveLast ==
  ASSUME NEW m, NEW s, NEW r, NEW t \in Lives(s), NEW p,
         Cuttable(m, s, r, t, p), Fine(s, r), s[t].free = USED, EndOf(s, t) = p + PAGE_SIZE,
         s[t].next # NULL => s[s[t].next].free # FREE
  PROVE  LET cut == Split(m, t, p)
             mid == cut.sec[t].next
             two == Split(cut, mid, (cut.sec[mid].start + PAGE_SIZE) % W)
             new == Mark(two.sec, mid, FREE)
         IN  Turned(m, s, new, two.head, p, FREE, 1) /\ StartsAt(new, mid, p)
<1> DEFINE cut == Split(m, t, p)
           c == cut.sec
           n == m.head
           mid == c[t].next
           two == Split(cut, mid, (c[mid].start + PAGE_SIZE) % W)
           new == Mark(two.sec, mid, FREE)
<1>1. CutTo(m, s, cut, t, p)
  BY Zenon, CutDoes
<1>2. /\ \E q : Cut(s, c, t, n, p, q)
      /\ cut.head = n + 1 /\ DeadFrom(c, n + 1)
  BY <1>1 DEF CutTo
<1>3. m.sec = s /\ m.head \in Nat
  BY DEF Cuttable, Ready
<1> HIDE DEF cut
<1>4. PICK q : Cut(s, c, t, n, p, q)
  BY <1>2
<1>5. /\ n \in Real \ Lives(s) /\ Neat(c, q) /\ Lives(c) = Lives(s) \cup {n}
      /\ mid = n /\ c[t].free = s[t].free
      /\ c[n].prev = t /\ c[n].next = s[t].next /\ c[n].start = p /\ c[n].free = s[t].free
      /\ EndOf(c, n) = EndOf(s, t)
      /\ \A i \in Lives(s) : i # t => c[i].free = s[i].free
      /\ \A i \in Lives(s) : i # t /\ NotBoth(s, i) => NotBoth(c, i)
      /\ NotBoth(s, t) => NotBoth(c, n)
      /\ s[t].free # FREE => NotBoth(c, t)
      /\ SameLow(s, c) /\ SameHeld(s, c)
  BY <1>4 DEF Cut
<1>6. n \in Lives(c) /\ Plain(c, n) /\ FREE \in {USED, FREE}
  BY <1>5 DEF Plain
<1>7. c[n].pages = 1
  BY <1>5, <1>6, OnePage
<1>8. two = cut
  <2>1. c = cut.sec
    OBVIOUS
  <2> HIDE DEF c
  <2>2. Split(cut, n, (c[n].start + PAGE_SIZE) % W) = cut
    BY <2>1, <1>5, <1>6, <1>7, NothingToCut
  <2> QED
    BY Zenon, <2>2, <1>5
<1>9. two.sec = c /\ two.head = n + 1
  BY <1>8, <1>2
<1> HIDE DEF c, two
<1>10. new = Mark(c, n, FREE)
  BY Zenon, <1>5, <1>9
<1> HIDE DEF new, mid
<1>11. \A i \in Lives(c) : NotBoth(c, i)
  <2>1. \A i \in Lives(s) : NotBoth(s, i)
    BY Zenon, FineNearly
  <2>2. s[t].free # FREE
    BY DEF USED, FREE
  <2> QED
    BY <2>1, <2>2, <1>5
<1>12. Apart(c)
  BY <1>11 DEF Apart, NotBoth
<1>13. c[c[n].prev].free # FREE
  BY <1>5 DEF USED, FREE
<1>14. c[n].next # NULL => c[c[n].next].free # FREE
  <2>1. s[t].next # NULL => s[t].next \in Lives(s) /\ s[t].next # t
    BY NextOf DEF Fine
  <2> QED
    BY <2>1, <1>5
<1>15. Changed(c, new, n, FREE, q)
  BY Zenon, <1>5, <1>6, <1>7, <1>10, <1>12, <1>13, <1>14, MarkChanges
<1>16. /\ SameLow(s, new) /\ SameOthers(s, new, p) /\ Held(new, FREE, p)
  BY <1>5, <1>15 DEF Changed, SameLow, SameOthers, SameHeld
<1>17. DeadFrom(new, two.head) /\ two.head \in Nat /\ two.head <= m.head + 1
  BY <1>3, <1>2, <1>9, <1>15 DEF DeadFrom, Changed
<1>18. Turned(m, s, new, two.head, p, FREE, 1)
  BY Zenon, <1>15, <1>16, <1>17 DEF Turned, Changed
<1>19. StartsAt(new, mid, p)
  BY <1>5, <1>6, <1>15 DEF Changed, StartsAt, Plain
<1> QED
  BY <1>18, <1>19 DEF new, two, mid, c, cut

(* The last page of a free section becomes a section of its own, in use. *)
LEMMA TakeLast ==
  ASSUME NEW m, NEW s, NEW r, NEW t \in Lives(s), NEW p,
         Cuttable(m, s, r, t, p), Fine(s, r), EndOf(s, t) = p + PAGE_SIZE
  PROVE  LET cut == Split(m, t, p)
             mid == cut.sec[t].next
             new == Mark(cut.sec, mid, USED)
         IN  Turned(m, s, new, cut.head, p, USED, 1) /\ StartsAt(new, mid, p)
<1> DEFINE cut == Split(m, t, p)
           c == cut.sec
           n == m.head
           mid == c[t].next
           new == Mark(c, mid, USED)
<1>1. CutTo(m, s, cut, t, p)
  BY Zenon, CutDoes
<1>2. /\ \E q : Cut(s, c, t, n, p, q)
      /\ cut.head = n + 1 /\ DeadFrom(c, n + 1)
  BY <1>1 DEF CutTo
<1>3. m.sec = s /\ m.head \in Nat
  BY DEF Cuttable, Ready
<1> HIDE DEF cut
<1>4. PICK q : Cut(s, c, t, n, p, q)
  BY <1>2
<1>5. /\ n \in Real \ Lives(s) /\ Neat(c, q) /\ Lives(c) = Lives(s) \cup {n}
      /\ mid = n /\ c[t].free = s[t].free
      /\ c[n].start = p /\ c[n].free = s[t].free
      /\ EndOf(c, n) = EndOf(s, t)
      /\ \A i \in Lives(s) : i # t /\ NotBoth(s, i) => NotBoth(c, i)
      /\ SameLow(s, c) /\ SameHeld(s, c)
  BY <1>4 DEF Cut
<1>6. n \in Lives(c) /\ Plain(c, n) /\ USED \in {USED, FREE}
  BY <1>5 DEF Plain, Cuttable
<1>7. c[n].pages = 1
  BY <1>5, <1>6, OnePage
<1>8. \A i \in Lives(c) : i = n \/ c[i].next = n \/ NotBoth(c, i)
  <2>1. \A i \in Lives(s) : NotBoth(s, i)
    BY Zenon, FineNearly
  <2>2. c[t].next = n
    BY <1>5
  <2> QED
    BY <2>1, <2>2, <1>5
<1>9. new = Mark(c, n, USED)
  BY Zenon, <1>5
<1> HIDE DEF c, new, mid
<1>10. Changed(c, new, n, USED, q)
  BY Zenon, <1>5, <1>6, <1>7, <1>8, <1>9, MarkChanges
<1>11. /\ SameLow(s, new) /\ SameOthers(s, new, p) /\ Held(new, USED, p)
  BY <1>5, <1>10 DEF Changed, SameLow, SameOthers, SameHeld
<1>12. DeadFrom(new, cut.head) /\ cut.head \in Nat /\ cut.head <= m.head + 1
  BY <1>3, <1>2, <1>10 DEF DeadFrom, Changed
<1>13. Turned(m, s, new, cut.head, p, USED, 1)
  BY Zenon, <1>10, <1>11, <1>12 DEF Turned, Changed
<1>14. StartsAt(new, mid, p)
  BY <1>5, <1>6, <1>10 DEF Changed, StartsAt, Plain
<1> QED
  BY <1>13, <1>14 DEF new, mid, c, cut

(* A page inside a free section becomes a section of its own, in use. *)
LEMMA TakeMiddle ==
  ASSUME NEW m, NEW s, NEW r, NEW t \in Lives(s), NEW p,
         Cuttable(m, s, r, t, p), Fine(s, r), Ready(m, s, 2)
  PROVE  LET cut == Split(m, t, p)
             mid == cut.sec[t].next
             two == Split(cut, mid, (cut.sec[mid].start + PAGE_SIZE) % W)
             new == Mark(two.sec, mid, USED)
         IN  Turned(m, s, new, two.head, p, USED, 2) /\ StartsAt(new, mid, p)
<1> DEFINE cut == Split(m, t, p)
           c == cut.sec
           n == m.head
           mid == c[t].next
           two == Split(cut, mid, (c[mid].start + PAGE_SIZE) % W)
           new == Mark(two.sec, mid, USED)
<1>1. CutTo(m, s, cut, t, p)
  BY Zenon, CutDoes
<1>2. /\ \E q : Cut(s, c, t, n, p, q)
      /\ cut.head = n + 1 /\ DeadFrom(c, n + 1)
  BY <1>1 DEF CutTo
<1>3. m.sec = s /\ m.head \in Nat
  BY DEF Cuttable, Ready
<1> HIDE DEF cut
<1>4. PICK q : Cut(s, c, t, n, p, q)
  BY <1>2
<1>5. /\ n \in Real \ Lives(s) /\ Neat(c, q) /\ Lives(c) = Lives(s) \cup {n}
      /\ mid = n /\ c[t].free = s[t].free
      /\ c[n].start = p /\ c[n].free = s[t].free /\ c[n].pages # 0
      /\ \A i \in Lives(s) : i # t /\ NotBoth(s, i) => NotBoth(c, i)
      /\ NotBoth(s, t) => NotBoth(c, n)
      /\ SameLow(s, c) /\ SameHeld(s, c)
  BY <1>4 DEF Cut
<1>6. n \in Lives(c) /\ Plain(c, n)
  BY <1>5 DEF Plain, Cuttable
<1>7. Nearly(c, n)
  <2>1. \A i \in Lives(s) : NotBoth(s, i)
    BY Zenon, FineNearly
  <2>2. c[t].next = n /\ t # n
    BY <1>5
  <2> QED
    BY <2>1, <2>2, <1>5 DEF Nearly
<1>8. Ready(cut, c, 1)
  <2>1. (m.head + 2) * SECTION_SIZE <= data_size /\ data_size \in Nat /\ data_size <= MAX_SLOTS * SECTION_SIZE
    BY DEF Ready
  <2>2. cut.head + 1 = m.head + 2 /\ cut.head \in Nat
    BY <1>2, <1>3
  <2> QED
    BY <2>1, <2>2, <1>2 DEF Ready
<1>9. mid = n
  BY <1>5
<1> HIDE DEF c, mid
<1>10. LET x == Split(cut, n, (c[n].start + PAGE_SIZE) % W)
       IN  Turned(cut, c, Mark(x.sec, n, USED), x.head, c[n].start, USED, 1)
           /\ StartsAt(Mark(x.sec, n, USED), n, c[n].start)
  BY Zenon, <1>5, <1>6, <1>7, <1>8, TakeFirst
<1>11. Turned(cut, c, new, two.head, p, USED, 1) /\ StartsAt(new, mid, p)
  BY <1>10, <1>9, <1>5
<1> HIDE DEF new, two
<1>12. /\ \E x : Fine(new, x)
       /\ SameLow(c, new) /\ SameOthers(c, new, p) /\ Held(new, USED, p)
       /\ two.head \in Nat /\ two.head <= cut.head + 1 /\ DeadFrom(new, two.head)
  BY <1>11 DEF Turned
<1>13. SameLow(s, new) /\ SameOthers(s, new, p)
  BY <1>5, <1>12 DEF SameLow, SameOthers, SameHeld
<1>14. two.head <= m.head + 2
  BY <1>2, <1>3, <1>12
<1>15. Turned(m, s, new, two.head, p, USED, 2)
  BY Zenon, <1>12, <1>13, <1>14 DEF Turned
<1> QED
  BY <1>11, <1>15 DEF new, two, mid, c, cut

-----------------------------------------------------------------------------
(* Where a loop is that looks for the section f of page p. *)

(* It has come to a section that starts with p: that is f, or an empty one. *)
LEMMA FoundStart ==
  ASSUME NEW s, NEW r, NEW x \in Lives(s), NEW f \in Lives(s), NEW p,
         Fine(s, r), Plain(s, f), Within(s, f, p), r[x] <= r[f], s[x].start = p
  PROVE  x = f \/ (s[x].free = FREE /\ s[x].pages = 0 /\ s[f].free # FREE)
<1>1. Neat(s, r) /\ Apart(s)
  BY DEF Fine
<1>2. s \in [Slots -> Section] /\ Lives(s) \subseteq Slots
  BY <1>1, SlotFacts DEF Neat, Typed
<1>3. /\ r \in [Real -> Nat] /\ Lives(s) \subseteq Real
      /\ \A i, j \in Lives(s) : r[i] = r[j] => i = j
  BY <1>1, SlotFacts DEF Neat, Ordered
<1>4. s[f].start <= p /\ p \in Nat
  BY <1>2, WithinRange
<1> SUFFICES ASSUME x # f
             PROVE  s[x].free = FREE /\ s[x].pages = 0 /\ s[f].free # FREE
  OBVIOUS
<1>5. r[x] < r[f]
  BY <1>3
<1>6. IF Plain(s, x) THEN EndOf(s, x) <= s[f].start ELSE s[x].start < s[f].start
  BY <1>1, <1>5 DEF Neat, Placed
<1>7. s[f].start \in Nat /\ s[x].start \in Nat /\ EndOf(s, x) \in Nat
  BY <1>2, FieldTypes, NumberFacts
<1>8. Plain(s, x) /\ EndOf(s, x) <= s[x].start
  BY <1>4, <1>6, <1>7
<1>9. s[x].pages = 0
  BY <1>2, <1>7, <1>8, FieldTypes
<1>10. s[x].free = FREE
  BY <1>1, <1>9 DEF Neat, Filled
<1>11. s[f].free # FREE
  <2> SUFFICES ASSUME s[f].free = FREE
               PROVE  FALSE
    OBVIOUS
  <2> DEFINE n == s[x].next
  <2>1. n # NULL
    BY <1>1, <1>3, <1>5 DEF Neat, Ordered
  <2>2. n \in Lives(s) /\ r[n] <= r[f] /\ s[n].start = p
    <3>1. EndOf(s, x) = s[n].start /\ n \in Lives(s)
      BY <1>1, <1>8, <2>1 DEF Neat, Close, Wired
    <3>2. r[n] <= r[f]
      BY <1>1, <1>3, <1>5, <2>1, <3>1 DEF Neat, Ordered
    <3>3. EndOf(s, x) = s[x].start
      BY <1>2, <1>9, FieldTypes
    <3> QED
      BY <3>1, <3>2, <3>3
  <2>3. s[n].free # FREE
    BY <1>1, <1>10, <2>1 DEF Apart
  <2> HIDE DEF n
  <2>4. s[n].pages # 0
    BY <1>1, <2>2, <2>3 DEF Neat, Filled
  <2>5. r[n] < r[f]
    BY <1>3, <2>2, <2>3
  <2>6. IF Plain(s, n) THEN EndOf(s, n) <= s[f].start ELSE s[n].start < s[f].start
    BY <1>1, <2>2, <2>5 DEF Neat, Placed
  <2>7. s[n].start < EndOf(s, n) /\ s[n].start \in Nat /\ EndOf(s, n) \in Nat
    BY <1>2, <2>2, <2>4, FieldTypes, NumberFacts
  <2> QED
    BY <1>4, <1>7, <2>2, <2>6, <2>7
<1> QED
  BY <1>9, <1>10, <1>11

(* It has come to a section that starts before p and the next one behind p:  *)
(* that is f.                                                                *)
LEMMA FoundInside ==
  ASSUME NEW s, NEW r, NEW x \in Lives(s), NEW f \in Lives(s), NEW p,
         Neat(s, r), Plain(s, f), Within(s, f, p), r[x] <= r[f], s[s[x].next].start > p
  PROVE  x = f
<1>1. s \in [Slots -> Section] /\ Lives(s) \subseteq Slots
  BY SlotFacts DEF Neat, Typed
<1>2. /\ r \in [Real -> Nat] /\ Lives(s) \subseteq Real
      /\ \A i, j \in Lives(s) : r[i] = r[j] => i = j
  BY SlotFacts DEF Neat, Ordered
<1>3. s[f].start <= p /\ p \in Nat /\ s[f].start \in Nat
  BY <1>1, WithinRange, FieldTypes, NumberFacts
<1> SUFFICES ASSUME x # f
             PROVE  FALSE
  OBVIOUS
<1> DEFINE n == s[x].next
<1>4. r[x] < r[f]
  BY <1>2
<1>5. n # NULL
  BY <1>2, <1>4 DEF Neat, Ordered
<1>6. n \in Lives(s)
  BY <1>5 DEF Neat, Wired
<1>7. r[n] <= r[f]
  BY <1>2, <1>4, <1>5, <1>6 DEF Neat, Ordered
<1> HIDE DEF n
<1>8. s[n].start \in Nat /\ EndOf(s, n) \in Nat /\ s[n].start <= EndOf(s, n)
  BY <1>1, <1>6, FieldTypes, NumberFacts
<1>9. s[n].start <= s[f].start
  <2>1. CASE n = f
    BY <2>1, <1>3
  <2>2. CASE n # f
    <3>1. r[n] < r[f]
      BY <2>2, <1>2, <1>6, <1>7
    <3>2. IF Plain(s, n) THEN EndOf(s, n) <= s[f].start ELSE s[n].start < s[f].start
      BY <1>6, <3>1 DEF Neat, Placed
    <3> QED
      BY <3>2, <1>3, <1>8
  <2> QED
    BY <2>1, <2>2
<1> QED
  BY <1>3, <1>8, <1>9 DEF n

(* Where f ends: where the next section starts, or below the number that     *)
(* stands at address 0.                                                      *)
LEMMA NextStart ==
  ASSUME NEW s, NEW r, NEW f \in Lives(s), NEW p, Neat(s, r), Plain(s, f), Within(s, f, p)
  PROVE  /\ s[f].start <= p /\ p + PAGE_SIZE <= EndOf(s, f) /\ EndOf(s, f) <= s[s[f].next].start
         /\ s[f].next # NULL => EndOf(s, f) = s[s[f].next].start
         /\ p \in Nat /\ EndOf(s, f) \in Nat /\ s[s[f].next].start \in 0 .. W - 1 /\ s[f].start \in Nat
<1>1. s \in [Slots -> Section] /\ f \in Slots /\ s[f].next \in Slots
  BY SlotFacts, FieldTypes DEF Neat, Typed
<1>2. s[f].start <= p /\ p + PAGE_SIZE <= EndOf(s, f) /\ p \in Nat
  BY <1>1, WithinRange
<1>3. s[s[f].next].start \in 0 .. W - 1 /\ EndOf(s, f) \in Nat /\ s[f].start \in Nat
  BY <1>1, FieldTypes, GoodEnd
<1>4. s[f].next # NULL => EndOf(s, f) = s[s[f].next].start
  BY DEF Neat, Close
<1>5. EndOf(s, f) <= s[s[f].next].start
  <2>1. s[f].next = NULL => EndOf(s, f) <= s[s[f].next].start
    BY DEF Neat, Close
  <2> QED
    BY <2>1, <1>3, <1>4
<1> QED
  BY <1>2, <1>3, <1>4, <1>5

(* The last page of f is the one before the next section. *)
LEMMA FoundLast ==
  ASSUME NEW s, NEW r, NEW f \in Lives(s), NEW p, Neat(s, r), Plain(s, f), Within(s, f, p),
         (s[s[f].next].start - PAGE_SIZE) % W = p
  PROVE  EndOf(s, f) = p + PAGE_SIZE
<1>1. /\ p + PAGE_SIZE <= EndOf(s, f) /\ EndOf(s, f) <= s[s[f].next].start
      /\ p \in Nat /\ EndOf(s, f) \in Nat /\ s[s[f].next].start \in 0 .. W - 1
  BY NextStart
<1> DEFINE y == s[s[f].next].start - PAGE_SIZE
<1>2. y \in 0 .. W - 1
  BY <1>1, NumberFacts
<1>3. y % W = y
  BY <1>2, ModSmall
<1> QED
  BY <1>1, <1>3, NumberFacts

(* It has come to neither: f is behind the next section, or that section. *)
LEMMA NotFound ==
  ASSUME NEW s, NEW r, NEW x \in Lives(s), NEW f \in Lives(s), NEW p,
         Neat(s, r), Plain(s, f), Within(s, f, p), r[x] <= r[f], s[x].start # p,
         ~(s[x].start < p /\ s[s[x].next].start > p)
  PROVE  s[x].next # NULL /\ s[x].next \in Lives(s) /\ r[s[x].next] <= r[f]
<1>1. x # f
  <2> SUFFICES ASSUME x = f
               PROVE  FALSE
    OBVIOUS
  <2>1. /\ s[f].start <= p /\ p + PAGE_SIZE <= EndOf(s, f) /\ EndOf(s, f) <= s[s[f].next].start
        /\ p \in Nat /\ EndOf(s, f) \in Nat /\ s[s[f].next].start \in 0 .. W - 1 /\ s[f].start \in Nat
    BY NextStart
  <2> QED
    BY <2>1, NumberFacts
<1>2. /\ r \in [Real -> Nat] /\ Lives(s) \subseteq Real
      /\ \A i, j \in Lives(s) : r[i] = r[j] => i = j
  BY SlotFacts DEF Neat, Ordered
<1>3. r[x] < r[f]
  BY <1>1, <1>2
<1>4. s[x].next # NULL
  BY <1>2, <1>3 DEF Neat, Ordered
<1>5. s[x].next \in Lives(s)
  BY <1>4 DEF Neat, Wired
<1> QED
  BY <1>2, <1>3, <1>4, <1>5 DEF Neat, Ordered

(* What comes behind f, or behind a section that is behind p, starts behind p. *)
LEMMA GoesBeyond ==
  ASSUME NEW s, NEW r, NEW x \in Lives(s), NEW p, Neat(s, r),
         \/ Plain(s, x) /\ Within(s, x, p)
         \/ s[x].start > p /\ p \in Nat
  PROVE  Beyond(s, s[x].next, p) /\ (s[x].next # NULL => s[x].next \in Lives(s))
<1>1. s \in [Slots -> Section] /\ Lives(s) \subseteq Slots
  BY SlotFacts DEF Neat, Typed
<1> DEFINE n == s[x].next
<1>2. n # NULL => n \in Lives(s) /\ s[n].start \in Nat
  BY <1>1, FieldTypes DEF Neat, Wired
<1> SUFFICES ASSUME n # NULL
             PROVE  s[n].start > p
  BY <1>2 DEF Beyond
<1>3. CASE Plain(s, x) /\ Within(s, x, p)
  <2>1. p + PAGE_SIZE <= EndOf(s, x) /\ EndOf(s, x) = s[n].start /\ p \in Nat /\ EndOf(s, x) \in Nat
    BY <1>3, NextStart
  <2> QED
    BY <2>1, NumberFacts
<1>4. CASE s[x].start > p /\ p \in Nat
  <2>1. r[x] < r[n]
    BY <1>2 DEF Neat, Ordered
  <2>2. IF Plain(s, x) THEN EndOf(s, x) <= s[n].start ELSE s[x].start < s[n].start
    BY <1>2, <2>1 DEF Neat, Placed
  <2>3. s[x].start \in Nat /\ EndOf(s, x) \in Nat /\ s[x].start <= EndOf(s, x)
    BY <1>1, FieldTypes, NumberFacts
  <2> QED
    BY <1>2, <1>4, <2>2, <2>3
<1> QED
  BY <1>3, <1>4

-----------------------------------------------------------------------------
(* The pages a call has still to come to. *)
LEMMA DueKept ==
  ASSUME NEW s, NEW new, NEW kind, NEW p, NEW n, Due(s, kind, p, n), SameOthers(s, new, p)
  PROVE  Due(new, kind, p, n)
<1>1. p \in Nat /\ n \in Nat \ {0}
  BY DEF Due
<1>2. \A k \in 1 .. n - 1 : Held(new, kind, p + k * PAGE_SIZE)
  <2> TAKE k \in 1 .. n - 1
  <2>1. Held(s, kind, p + k * PAGE_SIZE)
    BY DEF Due
  <2> DEFINE z == k * PAGE_SIZE
  <2>2. z \in Nat /\ z # 0
    BY NumberFacts
  <2> HIDE DEF z
  <2>3. p + z # p
    BY <1>1, <2>2
  <2> QED
    BY <2>1, <2>3 DEF SameOthers, z
<1> QED
  BY <1>1, <1>2 DEF Due

(* When the first page is done. *)
LEMMA DueNext ==
  ASSUME NEW s, NEW kind, NEW p, NEW n, Due(s, kind, p, n), n > 1
  PROVE  Due(s, kind, p + PAGE_SIZE, n - 1) /\ Held(s, kind, p + PAGE_SIZE)
<1>1. p \in Nat /\ n \in Nat \ {0} /\ PAGE_SIZE \in Nat /\ 1 * PAGE_SIZE = PAGE_SIZE
  BY NumberFacts DEF Due
<1>2. Held(s, kind, p + PAGE_SIZE)
  <2>1. 1 \in 1 .. n - 1
    BY <1>1
  <2>2. Held(s, kind, p + 1 * PAGE_SIZE)
    BY <2>1 DEF Due
  <2> QED
    BY <1>1, <2>2
<1>3. \A k \in 1 .. (n - 1) - 1 : Held(s, kind, (p + PAGE_SIZE) + k * PAGE_SIZE)
  <2> TAKE k \in 1 .. (n - 1) - 1
  <2>1. k + 1 \in 1 .. n - 1
    BY <1>1
  <2>2. Held(s, kind, p + (k + 1) * PAGE_SIZE)
    BY <2>1 DEF Due
  <2>3. p + (k + 1) * PAGE_SIZE = (p + PAGE_SIZE) + k * PAGE_SIZE
    <3>1. k \in Nat
      BY <1>1
    <3> QED
      BY <1>1, <3>1
  <2> QED
    BY <2>2, <2>3
<1> QED
  BY <1>1, <1>2, <1>3 DEF Due

(* The loop starts with the first section, before every other. *)
LEMMA SeekFromFirst ==
  ASSUME NEW s, NEW r, NEW kind, NEW p, Neat(s, r), Held(s, kind, p)
  PROVE  Seeking(s, r, pmm_sections, kind, p)
BY SlotFacts DEF Seeking, Held, Neat, Ordered

(* A page takes at most the slots that are left for it. *)
LEMMA RoomNext ==
  ASSUME NEW h \in Nat, NEW n \in Nat, n > 1, NEW d, (h + SPARE_SLOTS * (n - 1)) * SECTION_SIZE <= d, d \in Nat
  PROVE  (h + (SPARE_SLOTS * ((n - 1) - 1) + 2)) * SECTION_SIZE <= d
<1> DEFINE x == SPARE_SLOTS * ((n - 1) - 1)
           y == SPARE_SLOTS * (n - 1)
<1>1. /\ SPARE_SLOTS \in Nat /\ SPARE_SLOTS >= 2 /\ SECTION_SIZE \in Nat
      /\ n - 1 \in Nat /\ (n - 1) - 1 \in Nat
  BY NumberFacts
<1>2. y = x + SPARE_SLOTS /\ x \in Nat /\ y \in Nat
  BY <1>1
<1> HIDE DEF x, y
<1>3. h + (x + 2) \in Nat /\ h + y \in Nat /\ h + (x + 2) <= h + y
  BY <1>1, <1>2
<1> DEFINE a == h + (x + 2)
           b == h + y
<1> HIDE DEF a, b
<1>4. a \in Nat /\ b \in Nat /\ a <= b
  BY <1>3 DEF a, b
<1>5. a * SECTION_SIZE <= b * SECTION_SIZE /\ a * SECTION_SIZE \in Nat /\ b * SECTION_SIZE \in Nat
  BY <1>1, <1>4, TimesOrder
<1>6. b * SECTION_SIZE <= d
  BY DEF b, y
<1>7. a * SECTION_SIZE <= d
  BY <1>5, <1>6
<1> QED
  BY <1>7 DEF a, x

(* After up to two splits there is room for the pages still due. *)
LEMMA RoomLeft ==
  ASSUME NEW h \in Nat, NEW g \in Nat, NEW n \in Nat \ {0}, NEW k \in 0 .. 2, g <= h + k, NEW d \in Nat,
         (h + (SPARE_SLOTS * (n - 1) + 2)) * SECTION_SIZE <= d
  PROVE  /\ (g + SPARE_SLOTS * (n - 1)) * SECTION_SIZE <= d
         /\ (h + 2) * SECTION_SIZE <= d /\ (h + 1) * SECTION_SIZE <= d
<1> DEFINE y == SPARE_SLOTS * (n - 1)
           a == g + y
           b == h + (y + 2)
<1>1. SPARE_SLOTS \in Nat /\ SECTION_SIZE \in Nat /\ n - 1 \in Nat
  BY NumberFacts
<1>2. y \in Nat
  BY <1>1
<1> HIDE DEF y
<1>3. a \in Nat /\ b \in Nat /\ a <= b /\ h + 2 <= b /\ h + 1 <= b /\ h + 2 \in Nat /\ h + 1 \in Nat
  BY <1>2
<1> HIDE DEF a, b
<1>4. /\ a * SECTION_SIZE <= b * SECTION_SIZE /\ a * SECTION_SIZE \in Nat /\ b * SECTION_SIZE \in Nat
      /\ (h + 2) * SECTION_SIZE <= b * SECTION_SIZE /\ (h + 2) * SECTION_SIZE \in Nat
      /\ (h + 1) * SECTION_SIZE <= b * SECTION_SIZE /\ (h + 1) * SECTION_SIZE \in Nat
  BY <1>1, <1>3, TimesOrder
<1>5. b * SECTION_SIZE <= d
  BY DEF b, y
<1>6. a * SECTION_SIZE <= d /\ (h + 2) * SECTION_SIZE <= d /\ (h + 1) * SECTION_SIZE <= d
  BY <1>4, <1>5
<1> QED
  BY <1>6 DEF a, y

-----------------------------------------------------------------------------
(* Page p has been dealt with; no slot was taken from the table. *)
Settled(s, new, p, r) ==
  /\ Fine(new, r) /\ Lives(new) \subseteq Lives(s)
  /\ SameLow(s, new) /\ SameOthers(s, new, p)

(* Folding settles the list: no page is dealt. *)
LEMMA FoldedSettles ==
  ASSUME NEW s, NEW new, NEW t, NEW r, NEW p, Folded(s, new, t, r)
  PROVE  Settled(s, new, p, r)
BY DEF Folded, Settled, SameHeld, SameOthers

(* Merging a section with the next one, and the one before it with the one   *)
(* before that.                                                              *)
LEMMA TwiceFolded ==
  ASSUME NEW s, NEW r, NEW t \in Lives(s), NEW u, u = s[t].prev, Fine(s, r), Plain(s, t), Plain(s, u),
         s[t].pages # 0
  PROVE  LET new == CombinePrev(CombineNext(s, t), u)
         IN  /\ Fine(new, r) /\ Lives(new) \subseteq Lives(s)
             /\ SameLow(s, new) /\ SameHeld(s, new)
<1> DEFINE c == CombineNext(s, t)
           new == CombinePrev(c, u)
<1>1. Folded(s, c, t, r)
  BY Zenon, CombineNextFolds
<1>2. u \in Lives(s) /\ u # t
  <2>1. Neat(s, r) /\ t # pmm_sections
    BY GoodEnd DEF Fine
  <2> QED
    BY Zenon, <2>1, PrevIs
<1> HIDE DEF c
<1>3. /\ Fine(c, r) /\ u \in Lives(c) /\ Lives(c) \subseteq Lives(s) /\ c[u].free = s[u].free
      /\ SameLow(s, c) /\ SameHeld(s, c)
  BY <1>1, <1>2 DEF Folded
<1>4. Plain(c, u)
  BY <1>3 DEF Plain
<1>5. Folded(c, new, u, r)
  BY Zenon, <1>3, <1>4, CombinePrevFolds
<1> HIDE DEF new
<1>6. /\ Fine(new, r) /\ Lives(new) \subseteq Lives(s)
      /\ SameLow(s, new) /\ SameHeld(s, new)
  BY <1>3, <1>5 DEF Folded, SameLow, SameHeld
<1> QED
  BY Zenon, <1>6 DEF new, c

(* A neighbour of a known good kind is a section of the list. *)
LEMMA ReleaseSettles ==
  ASSUME NEW s, NEW r, NEW t \in Lives(s), Fine(s, r), s[t].free = USED, s[t].pages = 1
  PROVE  Settled(s, ReleaseSingle(s, t), s[t].start, r)
<1> DEFINE new == ReleaseSingle(s, t)
           p == s[t].prev
           n == s[t].next
<1>1. Plain(s, t) /\ s[t].pages # 0 /\ Neat(s, r)
  BY DEF Plain, Fine
<1>2. CASE s[p].free = FREE /\ s[n].free = FREE
  <2>1. new = CombinePrev(CombineNext(s, t), p)
    BY <1>2 DEF ReleaseSingle
  <2>2. p = s[t].prev /\ Plain(s, p)
    BY <1>2 DEF Plain
  <2> HIDE DEF new, p
  <2>3. LET x == CombinePrev(CombineNext(s, t), p)
        IN  Fine(x, r) /\ Lives(x) \subseteq Lives(s) /\ SameLow(s, x) /\ SameHeld(s, x)
    BY Zenon, <1>1, <2>2, TwiceFolded
  <2>4. Fine(new, r) /\ Lives(new) \subseteq Lives(s) /\ SameLow(s, new) /\ SameHeld(s, new)
    BY Zenon, <2>1, <2>3
  <2>5. Settled(s, new, s[t].start, r)
    BY <2>4 DEF Settled, SameHeld, SameOthers
  <2> QED
    BY <2>5 DEF new
<1>3. CASE s[p].free = FREE /\ s[n].free # FREE
  <2>1. new = CombinePrev(s, t)
    BY <1>3 DEF ReleaseSingle
  <2>2. Folded(s, CombinePrev(s, t), t, r)
    BY Zenon, <1>1, CombinePrevFolds
  <2> QED
    BY Zenon, <2>1, <2>2, FoldedSettles
<1>4. CASE s[p].free # FREE /\ s[n].free = FREE
  <2>1. new = CombineNext(s, t)
    BY <1>4 DEF ReleaseSingle
  <2>2. Folded(s, CombineNext(s, t), t, r)
    BY Zenon, <1>1, CombineNextFolds
  <2> QED
    BY Zenon, <2>1, <2>2, FoldedSettles
<1>5. CASE s[p].free # FREE /\ s[n].free # FREE
  <2>1. new = Mark(s, t, FREE)
    BY <1>5 DEF ReleaseSingle
  <2>2. s[s[t].prev].free # FREE /\ (s[t].next # NULL => s[s[t].next].free # FREE)
    BY <1>5
  <2>3. Apart(s) /\ FREE \in {USED, FREE}
    BY DEF Fine
  <2>4. Changed(s, Mark(s, t, FREE), t, FREE, r)
    BY Zenon, <1>1, <2>2, <2>3, MarkChanges
  <2> HIDE DEF new, p, n
  <2>5. Changed(s, new, t, FREE, r)
    BY Zenon, <2>1, <2>4
  <2>6. Settled(s, new, s[t].start, r)
    BY Zenon, <2>5 DEF Changed, Settled
  <2> QED
    BY <2>6 DEF new
<1> QED
  BY <1>2, <1>3, <1>4, <1>5

(* Locking a section of one page. *)
LEMMA LockSingleSettles ==
  ASSUME NEW s, NEW r, NEW t \in Lives(s), Fine(s, r), s[t].free = FREE, s[t].pages = 1
  PROVE  LET new == LockSingleSection(s, t)
         IN  Settled(s, new, s[t].start, r) /\ Held(new, USED, s[t].start)
<1> DEFINE new == LockSingleSection(s, t)
           c == Mark(s, t, USED)
           p == s[t].prev
           n == s[t].next
<1>1. Plain(s, t) /\ s[t].pages # 0 /\ Neat(s, r) /\ USED \in {USED, FREE}
  BY DEF Plain, Fine
<1>2. /\ \A i \in Lives(s) : i = t \/ s[i].next = t \/ NotBoth(s, i)
      /\ s \in [Slots -> Section] /\ t \in Slots
  BY <1>1, FineNearly, SlotFacts DEF Neat, Typed
<1>3. Changed(s, c, t, USED, r)
  BY Zenon, <1>1, <1>2, MarkChanges
<1>4. c[t].prev = p
  <2>1. Marked(s, Mark(s, t, USED), t, USED)
    BY <1>1, MarkDoes
  <2> QED
    BY <2>1, SlotFacts DEF Marked, KeepsLinks
<1> HIDE DEF c
<1>5. /\ Fine(c, r) /\ Lives(c) = Lives(s) /\ c[t].pages = 1 /\ c[t].free = USED
      /\ SameLow(s, c) /\ SameOthers(s, c, s[t].start) /\ Held(c, USED, s[t].start)
  BY <1>3 DEF Changed
<1>6. Plain(c, t) /\ c[t].pages # 0 /\ t \in Lives(c)
  BY <1>5 DEF Plain
<1>7. ASSUME NEW x, Fine(x, r), Lives(x) \subseteq Lives(c), SameLow(c, x), SameHeld(c, x)
      PROVE  Settled(s, x, s[t].start, r) /\ Held(x, USED, s[t].start)
  BY <1>5, <1>7 DEF Settled, SameLow, SameHeld, SameOthers
<1>8. ASSUME NEW x, Folded(c, x, t, r)
      PROVE  Settled(s, x, s[t].start, r) /\ Held(x, USED, s[t].start)
  BY <1>7, <1>8 DEF Folded
<1>9. CASE c[p].free = USED /\ c[n].free = USED
  <2>1. new = CombinePrev(CombineNext(c, t), p)
    BY <1>9 DEF LockSingleSection, c
  <2>2. p = c[t].prev /\ Plain(c, p)
    BY <1>4, <1>9 DEF Plain
  <2> HIDE DEF new, p, n
  <2>3. LET x == CombinePrev(CombineNext(c, t), p)
        IN  Fine(x, r) /\ Lives(x) \subseteq Lives(c) /\ SameLow(c, x) /\ SameHeld(c, x)
    BY Zenon, <1>5, <1>6, <2>2, TwiceFolded
  <2>4. Fine(new, r) /\ Lives(new) \subseteq Lives(c) /\ SameLow(c, new) /\ SameHeld(c, new)
    BY Zenon, <2>1, <2>3
  <2>5. Settled(s, new, s[t].start, r) /\ Held(new, USED, s[t].start)
    BY <2>4, <1>7
  <2> QED
    BY <2>5 DEF new
<1>10. CASE c[p].free = USED /\ c[n].free # USED
  <2>1. new = CombinePrev(c, t)
    BY <1>10 DEF LockSingleSection, c
  <2>2. Folded(c, CombinePrev(c, t), t, r)
    BY Zenon, <1>5, <1>6, CombinePrevFolds
  <2> QED
    BY <2>1, <2>2, <1>8
<1>11. CASE c[p].free # USED /\ c[n].free = USED
  <2>1. new = CombineNext(c, t)
    BY <1>11 DEF LockSingleSection, c
  <2>2. Folded(c, CombineNext(c, t), t, r)
    BY Zenon, <1>5, <1>6, CombineNextFolds
  <2> QED
    BY <2>1, <2>2, <1>8
<1>12. CASE c[p].free # USED /\ c[n].free # USED
  <2>1. new = c
    BY <1>12 DEF LockSingleSection, c
  <2>2. SameLow(c, c) /\ SameHeld(c, c)
    BY DEF SameLow, SameHeld
  <2>3. Settled(s, c, s[t].start, r) /\ Held(c, USED, s[t].start)
    BY <1>5, <1>7, <2>2
  <2> QED
    BY Zenon, <2>1, <2>3
<1> QED
  BY <1>9, <1>10, <1>11, <1>12

-----------------------------------------------------------------------------
(* A list with the head of its table, whatever is split from it. *)
IsList(m) == m = [head |-> m.head, sec |-> m.sec]

(* The two fields of a list. *)
LEMMA ListFields ==
  ASSUME NEW m, IsList(m), NEW x
  PROVE  LET n == [m EXCEPT !.sec = x]
         IN  n.sec = x /\ n.head = m.head
<1> DEFINE a == m.head
           b == m.sec
<1>1. m = [head |-> a, sec |-> b]
  BY DEF IsList
<1> HIDE DEF a, b
<1>2. [m EXCEPT !.sec = x] = [[head |-> a, sec |-> b] EXCEPT !.sec = x] /\ m.head = a
  BY <1>1
<1>3. [[head |-> a, sec |-> b] EXCEPT !.sec = x].sec = x /\ [[head |-> a, sec |-> b] EXCEPT !.sec = x].head = a
  OBVIOUS
<1> QED
  BY Zenon, <1>2, <1>3

(* Splitting keeps them. *)
LEMMA SplitIsList ==
  ASSUME NEW m, IsList(m), NEW t, NEW at
  PROVE  IsList(Split(m, t, at))
<1>1. IsList(SplitOff(m, t, at))
  <2> DEFINE x == SplitOff(m, t, at)
  <2>1. PICK a, b : x = [head |-> a, sec |-> b]
    BY Zenon DEF SplitOff
  <2> HIDE DEF x
  <2>2. x.head = a /\ x.sec = b
    BY <2>1
  <2>3. IsList(x)
    BY <2>1, <2>2 DEF IsList
  <2> QED
    BY <2>3 DEF x
<1> QED
  BY Zenon, <1>1 DEF Split

(* The list of the state. *)
LEMMA ThisList == IsList(List) /\ List.sec = sec /\ List.head = head
BY DEF List, IsList

-----------------------------------------------------------------------------
(* The table that pmm_start makes has the size that the entries call for. *)
LEMMA TableFits ==
  ASSUME MapInv, pc # "boot"
  PROVE  /\ data_size \in Nat /\ data_size <= MAX_SLOTS * SECTION_SIZE
         /\ \E low \in LowMemory : /\ low \in Section /\ low.free \notin {USED, FREE}
                                   /\ sec[NULL].start = low.start /\ sec[NULL].free = low.free
                                   /\ Describable(entries, low)
<1>1. PICK low \in LowMemory : sec[NULL].start = low.start /\ sec[NULL].free = low.free
  BY DEF MapInv, Low
<1>2. answers \in BiosAnswers /\ entries = Made(answers).entries /\ data_size = TableSize(entries)
  BY DEF MapInv
<1>3. low \in Section /\ low.free \notin {USED, FREE} /\ Describable(Made(answers).entries, low)
  BY <1>2, BootAssumption
<1>4. Describable(entries, low)
  BY Zenon, <1>2, <1>3
<1>5. TableSize(entries) \in Nat /\ TableSize(entries) <= MAX_SLOTS * SECTION_SIZE
  BY <1>4 DEF Describable
<1> QED
  BY <1>1, <1>2, <1>3, <1>4, <1>5

(* What a call may rely on. *)
LEMMA CallFacts ==
  ASSUME NEW r, IInv(r), Started
  PROVE  /\ Fine(sec, r) /\ sec \in [Slots -> Section]
         /\ \A p \in in_use : Held(sec, USED, p)
         /\ selected \in Lives(sec) \cup {NULL} /\ NULL \notin Lives(sec)
         /\ head \in Nat /\ DeadFrom(sec, head) /\ head * SECTION_SIZE <= data_size
         /\ data_size \in Nat /\ data_size <= MAX_SLOTS * SECTION_SIZE
         /\ pc = "free" => FreeInv(r)
         /\ pc = "lock" => LockInv(r)
         /\ pc \in {"idle", "alloc", "free", "lock"}
<1>1. data_size \in Nat /\ data_size <= MAX_SLOTS * SECTION_SIZE
  BY TableFits DEF IInv, Started
<1>2. /\ Fine(sec, r) /\ \A p \in in_use : Held(sec, USED, p)
      /\ selected \in Lives(sec) \cup {NULL}
      /\ pc = "free" => FreeInv(r)
      /\ pc = "lock" => LockInv(r)
  BY DEF IInv, CallInv, Fine
<1>3. head \in Nat /\ DeadFrom(sec, head) /\ head * SECTION_SIZE <= data_size
  BY DEF IInv, MapInv, Started
<1>4. sec \in [Slots -> Section] /\ NULL \notin Lives(sec)
  BY <1>2, SlotFacts DEF Fine, Neat, Typed
<1>5. pc \in {"idle", "alloc", "free", "lock"}
  BY PMMAssumption DEF IInv, MapInv, Started
<1> QED
  BY <1>1, <1>2, <1>3, <1>4, <1>5

(* A step of a call, once the list is known to be in order after it. *)
LEMMA CallStep ==
  ASSUME NEW r, NEW q, IInv(r), Started, pc' \in {"idle"} \cup (Calls \ {"dump"}),
         UNCHANGED <<answers, entries, data_size>>, SameLow(sec, sec'),
         head' \in Nat, head' * SECTION_SIZE <= data_size, DeadFrom(sec', head'), CallInv(q)'
  PROVE  IInv(q)'
BY PMMAssumption DEF Started, BootInv, IInv, MapInv, Low, SameLow

(* The list and the table after a step that dealt with the page of the call. *)
Dealt(new, h, q) ==
  /\ Fine(new, q) /\ SameLow(sec, new) /\ SameOthers(sec, new, page)
  /\ h \in Nat /\ DeadFrom(new, h) /\ (h + SPARE_SLOTS * (count - 1)) * SECTION_SIZE <= data_size

(* What is dealt leaves the slots within the table. *)
LEMMA DealtHead ==
  ASSUME NEW new, NEW h, NEW q, Dealt(new, h, q), count \in Nat \ {0}, data_size \in Nat
  PROVE  h * SECTION_SIZE <= data_size
<1> DEFINE y == SPARE_SLOTS * (count - 1)
<1>1. y \in Nat
  BY NumberFacts
<1> HIDE DEF y
<1>2. h \in Nat /\ (h + y) * SECTION_SIZE <= data_size
  BY DEF Dealt, y
<1>3. h * SECTION_SIZE <= (h + y) * SECTION_SIZE /\ h * SECTION_SIZE \in Nat /\ (h + y) * SECTION_SIZE \in Nat
  <2>1. (h + y) * SECTION_SIZE = h * SECTION_SIZE + y * SECTION_SIZE
    BY <1>1, <1>2, NumberFacts
  <2>2. h * SECTION_SIZE \in Nat /\ y * SECTION_SIZE \in Nat
    BY <1>1, <1>2, NumberFacts
  <2> QED
    BY <2>1, <2>2
<1> QED
  BY <1>2, <1>3

(* pmm_free_page is done with a page and goes on to the next, or returns. *)
LEMMA FreeReturns ==
  ASSUME NEW r, NEW q, IInv(r), pc = "free", PageDone, UNCHANGED in_use, Dealt(sec', head', q)
  PROVE  IInv(q)' /\ SameOthers(sec, sec', page)
<1>1. /\ FreeInv(r) /\ Started /\ data_size \in Nat /\ \A p \in in_use : Held(sec, USED, p)
  BY CallFacts DEF Started
<1>2. /\ Due(sec, USED, page, count) /\ PageRun(page, count) \cap in_use = {}
      /\ page \in Nat /\ count \in Nat \ {0}
  BY <1>1 DEF FreeInv, Due
<1>3. /\ Fine(sec', q) /\ SameLow(sec, sec') /\ SameOthers(sec, sec', page)
      /\ head' \in Nat /\ DeadFrom(sec', head')
      /\ (head' + SPARE_SLOTS * (count - 1)) * SECTION_SIZE <= data_size
  BY DEF Dealt
<1>4. head' * SECTION_SIZE <= data_size
  BY Zenon, <1>1, <1>2, DealtHead
<1>5. Due(sec', USED, page, count)
  BY Zenon, <1>2, <1>3, DueKept
<1>6. page \in PageRun(page, count)
  <2>1. 0 \in 0 .. count - 1 /\ page = page + 0 * PAGE_SIZE
    BY <1>2, NumberFacts
  <2> QED
    BY <2>1 DEF PageRun
<1>7. \A p \in in_use' : Held(sec', USED, p)
  BY <1>1, <1>2, <1>3, <1>6 DEF SameOthers
<1>8. UNCHANGED <<answers, entries, data_size>>
  BY DEF PageDone, mapVars
<1>9. CASE count > 1
  <2>1. page' = page + PAGE_SIZE /\ count' = count - 1 /\ selected' = pmm_sections /\ pc' = pc
    BY <1>9 DEF PageDone
  <2>2. Due(sec', USED, page', count') /\ Held(sec', USED, page')
    BY <1>5, <1>9, <2>1, DueNext
  <2>3. Seeking(sec', q, selected', USED, page')
    BY <2>1, <2>2, <1>3, SeekFromFirst DEF Fine
  <2>4. Room(SPARE_SLOTS * (count - 1) + 2)'
    <3>1. (head' + (SPARE_SLOTS * ((count - 1) - 1) + 2)) * SECTION_SIZE <= data_size
      BY <1>1, <1>2, <1>3, <1>9, RoomNext
    <3> QED
      BY <3>1, <2>1, <1>8 DEF Room
  <2>5. PageRun(page', count') \cap in_use' = {}
    <3>1. PageRun(page, count) = PageRun(page, 1) \cup PageRun(page + 1 * PAGE_SIZE, count - 1)
      <4>1. 1 \in 0 .. count /\ count \in Nat
        BY <1>2
      <4> QED
        BY <4>1, <1>2, RunSplit
    <3>2. page + 1 * PAGE_SIZE = page'
      BY <2>1, NumberFacts
    <3> QED
      BY <3>1, <3>2, <2>1, <1>2
  <2>6. FreeInv(q)'
    BY <2>2, <2>3, <2>4, <2>5 DEF FreeInv
  <2>7. selected' \in Lives(sec')
    BY <2>1, SlotFacts
  <2>8. CallInv(q)'
    BY <1>3, <1>7, <2>1, <2>6, <2>7 DEF CallInv, Fine
  <2>9. pc' \in {"idle"} \cup (Calls \ {"dump"})
    BY <2>1 DEF IInv, MapInv
  <2> QED
    BY <1>1, <1>3, <1>4, <1>8, <2>8, <2>9, CallStep
<1>10. CASE ~(count > 1)
  <2>1. pc' = "idle" /\ selected' = NULL
    BY <1>10 DEF PageDone
  <2>2. CallInv(q)'
    BY <2>1, <1>3, <1>7 DEF CallInv, Fine
  <2> QED
    BY <1>1, <1>3, <1>4, <1>8, <2>1, <2>2, CallStep
<1> QED
  BY <1>9, <1>10

(* pmm_free_page goes on, past its page or to the section it was merged      *)
(* with.                                                                     *)
LEMMA FreeContinues ==
  ASSUME NEW r, NEW q, IInv(r), pc = "free", UNCHANGED <<mapVars, pc, callVars, in_use>>,
         Dealt(sec', head', q), selected' \in Lives(sec') \cup {NULL},
         \/ Beyond(sec', selected', page)
         \/ selected' # NULL /\ sec'[selected'].free = FREE /\ sec'[selected'].start = page
  PROVE  IInv(q)' /\ SameOthers(sec, sec', page)
<1>1. /\ FreeInv(r) /\ Started /\ data_size \in Nat /\ \A p \in in_use : Held(sec, USED, p)
  BY CallFacts DEF Started
<1>2. /\ Due(sec, USED, page, count) /\ PageRun(page, count) \cap in_use = {}
      /\ page \in Nat /\ count \in Nat \ {0}
  BY <1>1 DEF FreeInv, Due
<1>3. /\ Fine(sec', q) /\ SameLow(sec, sec') /\ SameOthers(sec, sec', page)
      /\ head' \in Nat /\ DeadFrom(sec', head')
      /\ (head' + SPARE_SLOTS * (count - 1)) * SECTION_SIZE <= data_size
  BY DEF Dealt
<1>4. head' * SECTION_SIZE <= data_size
  BY Zenon, <1>1, <1>2, DealtHead
<1>5. Due(sec', USED, page, count)
  BY Zenon, <1>2, <1>3, DueKept
<1>6. page \in PageRun(page, count)
  <2>1. 0 \in 0 .. count - 1 /\ page = page + 0 * PAGE_SIZE
    BY <1>2, NumberFacts
  <2> QED
    BY <2>1 DEF PageRun
<1>7. \A p \in in_use' : Held(sec', USED, p)
  BY <1>1, <1>2, <1>3, <1>6 DEF SameOthers
<1>8. UNCHANGED <<answers, entries, data_size>> /\ page' = page /\ count' = count /\ pc' = "free" /\ in_use' = in_use
  BY DEF mapVars, callVars
<1>9. FreeInv(q)'
  <2>1. Due(sec', USED, page', count') /\ PageRun(page', count') \cap in_use' = {}
    BY <1>2, <1>5, <1>8
  <2>2. Room(SPARE_SLOTS * (count - 1))'
    BY <1>3, <1>8 DEF Room
  <2>3. \/ Beyond(sec', selected', page')
        \/ selected' # NULL /\ sec'[selected'].free = FREE /\ sec'[selected'].start = page'
    BY <1>8
  <2> QED
    BY <2>1, <2>2, <2>3 DEF FreeInv
<1>10. CallInv(q)'
  BY <1>3, <1>7, <1>8, <1>9 DEF CallInv, Fine
<1>11. pc' \in {"idle"} \cup (Calls \ {"dump"})
  BY <1>8 DEF IInv, MapInv
<1> QED
  BY <1>1, <1>3, <1>4, <1>8, <1>10, <1>11, CallStep

(* A locked page is of a used section, and those that were still are. *)
LEMMA LockHeld ==
  ASSUME NEW s, NEW new, NEW p, NEW used, \A x \in used : Held(s, USED, x),
         SameOthers(s, new, p), Held(new, USED, p)
  PROVE  \A x \in used \cup {p} : Held(new, USED, x)
BY DEF SameOthers

(* pmm_lock_page is done with a page and goes on to the next, or returns. *)
LEMMA LockReturns ==
  ASSUME NEW r, NEW q, IInv(r), pc = "lock", PageDone, Locked, Dealt(sec', head', q), Held(sec', USED, page)
  PROVE  IInv(q)' /\ SameOthers(sec, sec', page)
<1>1. /\ LockInv(r) /\ Started /\ data_size \in Nat /\ \A p \in in_use : Held(sec, USED, p)
  BY CallFacts DEF Started
<1>2. Due(sec, FREE, page, count) /\ page \in Nat /\ count \in Nat \ {0}
  BY <1>1 DEF LockInv, Due
<1>3. /\ Fine(sec', q) /\ SameLow(sec, sec') /\ SameOthers(sec, sec', page)
      /\ head' \in Nat /\ DeadFrom(sec', head')
      /\ (head' + SPARE_SLOTS * (count - 1)) * SECTION_SIZE <= data_size
  BY DEF Dealt
<1>4. head' * SECTION_SIZE <= data_size
  BY Zenon, <1>1, <1>2, DealtHead
<1>5. Due(sec', FREE, page, count)
  BY Zenon, <1>2, <1>3, DueKept
<1>6. \A p \in in_use' : Held(sec', USED, p)
  <2>1. \A x \in in_use \cup {page} : Held(sec', USED, x)
    BY Zenon, <1>1, <1>3, LockHeld
  <2> QED
    BY <2>1 DEF Locked
<1>7. UNCHANGED <<answers, entries, data_size>>
  BY DEF PageDone, mapVars
<1>8. CASE count > 1
  <2>1. page' = page + PAGE_SIZE /\ count' = count - 1 /\ selected' = pmm_sections /\ pc' = pc
    BY <1>8 DEF PageDone
  <2>2. Due(sec', FREE, page', count') /\ Held(sec', FREE, page')
    BY <1>5, <1>8, <2>1, DueNext
  <2>3. Seeking(sec', q, selected', FREE, page')
    BY <2>1, <2>2, <1>3, SeekFromFirst DEF Fine
  <2>4. Room(SPARE_SLOTS * (count - 1) + 2)'
    <3>1. (head' + (SPARE_SLOTS * ((count - 1) - 1) + 2)) * SECTION_SIZE <= data_size
      BY <1>1, <1>2, <1>3, <1>8, RoomNext
    <3> QED
      BY <3>1, <2>1, <1>7 DEF Room
  <2>5. LockInv(q)'
    BY <2>2, <2>3, <2>4 DEF LockInv
  <2>6. selected' \in Lives(sec')
    BY <2>1, SlotFacts
  <2>7. CallInv(q)'
    BY <1>3, <1>6, <2>1, <2>5, <2>6 DEF CallInv, Fine
  <2>8. pc' \in {"idle"} \cup (Calls \ {"dump"})
    BY <2>1 DEF IInv, MapInv
  <2> QED
    BY <1>1, <1>3, <1>4, <1>7, <2>7, <2>8, CallStep
<1>9. CASE ~(count > 1)
  <2>1. pc' = "idle" /\ selected' = NULL
    BY <1>9 DEF PageDone
  <2>2. CallInv(q)'
    BY <2>1, <1>3, <1>6 DEF CallInv, Fine
  <2> QED
    BY <1>1, <1>3, <1>4, <1>7, <2>1, <2>2, CallStep
<1> QED
  BY <1>8, <1>9

(* pmm_lock_page goes on, past its page or to the section it was merged      *)
(* with.                                                                     *)
LEMMA LockContinues ==
  ASSUME NEW r, NEW q, IInv(r), pc = "lock", UNCHANGED <<mapVars, pc, callVars, in_use>>,
         Dealt(sec', head', q), Held(sec', USED, page), selected' \in Lives(sec') \cup {NULL},
         \/ Beyond(sec', selected', page)
         \/ /\ selected' # NULL /\ sec'[selected'].free = USED
            /\ sec'[selected'].start = page /\ sec'[selected'].pages # 1
  PROVE  IInv(q)' /\ SameOthers(sec, sec', page)
<1>1. /\ LockInv(r) /\ Started /\ data_size \in Nat /\ \A p \in in_use : Held(sec, USED, p)
  BY CallFacts DEF Started
<1>2. Due(sec, FREE, page, count) /\ page \in Nat /\ count \in Nat \ {0}
  BY <1>1 DEF LockInv, Due
<1>3. /\ Fine(sec', q) /\ SameLow(sec, sec') /\ SameOthers(sec, sec', page)
      /\ head' \in Nat /\ DeadFrom(sec', head')
      /\ (head' + SPARE_SLOTS * (count - 1)) * SECTION_SIZE <= data_size
  BY DEF Dealt
<1>4. head' * SECTION_SIZE <= data_size
  BY Zenon, <1>1, <1>2, DealtHead
<1>5. Due(sec', FREE, page, count)
  BY Zenon, <1>2, <1>3, DueKept
<1>6. UNCHANGED <<answers, entries, data_size>> /\ page' = page /\ count' = count /\ pc' = "lock" /\ in_use' = in_use
  BY DEF mapVars, callVars
<1>7. \A p \in in_use' : Held(sec', USED, p)
  <2>1. \A x \in in_use \cup {page} : Held(sec', USED, x)
    BY Zenon, <1>1, <1>3, LockHeld
  <2> QED
    BY <2>1, <1>6
<1>8. LockInv(q)'
  <2>1. Due(sec', FREE, page', count') /\ Held(sec', USED, page')
    BY <1>5, <1>6
  <2>2. Room(SPARE_SLOTS * (count - 1))'
    BY <1>3, <1>6 DEF Room
  <2>3. \/ Beyond(sec', selected', page')
        \/ /\ selected' # NULL /\ sec'[selected'].free = USED
           /\ sec'[selected'].start = page' /\ sec'[selected'].pages # 1
    BY <1>6
  <2> QED
    BY <2>1, <2>2, <2>3 DEF LockInv
<1>9. CallInv(q)'
  BY <1>3, <1>6, <1>7, <1>8 DEF CallInv, Fine
<1>10. pc' \in {"idle"} \cup (Calls \ {"dump"})
  BY <1>6 DEF IInv, MapInv
<1> QED
  BY <1>1, <1>3, <1>4, <1>6, <1>9, <1>10, CallStep

-----------------------------------------------------------------------------
(* With room for a page, its section may be split twice. *)
LEMMA RoomReady ==
  ASSUME NEW r, IInv(r), Started, count \in Nat \ {0}, Room(SPARE_SLOTS * (count - 1) + 2)
  PROVE  /\ Ready(List, sec, 2) /\ Ready(List, sec, 1)
         /\ \A h \in Nat : h <= head + 2 => (h + SPARE_SLOTS * (count - 1)) * SECTION_SIZE <= data_size
<1>1. /\ head \in Nat /\ DeadFrom(sec, head) /\ data_size \in Nat /\ data_size <= MAX_SLOTS * SECTION_SIZE
  BY CallFacts
<1>2. (head + (SPARE_SLOTS * (count - 1) + 2)) * SECTION_SIZE <= data_size
  BY DEF Room
<1>3. \A h \in Nat : h <= head + 2 => (h + SPARE_SLOTS * (count - 1)) * SECTION_SIZE <= data_size
  <2> TAKE h \in Nat
  <2> HAVE h <= head + 2
  <2>1. 2 \in 0 .. 2
    OBVIOUS
  <2> QED
    BY <1>1, <1>2, <2>1, RoomLeft
<1>4. (head + 2) * SECTION_SIZE <= data_size /\ (head + 1) * SECTION_SIZE <= data_size
  <2>1. 2 \in 0 .. 2 /\ head <= head + 2
    BY <1>1
  <2> QED
    BY <1>1, <1>2, <2>1, RoomLeft
<1> QED
  BY <1>1, <1>3, <1>4, ThisList DEF Ready

(* The section at which the loop of a call to free a page does something. *)
LEMMA FreeFinds ==
  ASSUME NEW r, IInv(r), Visiting("free"), sec[selected].free # FREE, AtStart \/ Inside
  PROVE  /\ selected \in Lives(sec) /\ sec[selected].free = USED /\ Within(sec, selected, page)
         /\ Room(SPARE_SLOTS * (count - 1) + 2)
<1>1. /\ Fine(sec, r) /\ Neat(sec, r) /\ selected \in Lives(sec) /\ FreeInv(r)
      /\ sec \in [Slots -> Section] /\ Lives(sec) \subseteq Slots
  BY CallFacts, SlotFacts DEF Visiting, Started, Fine
<1>2. page \in Nat /\ sec[selected].start \in Nat
  BY <1>1, FieldTypes, NumberFacts DEF FreeInv, Due
<1>3. Seeking(sec, r, selected, USED, page) /\ Room(SPARE_SLOTS * (count - 1) + 2)
  BY <1>1, <1>2, NumberFacts DEF FreeInv, Beyond, AtStart, Inside, Visiting
<1>4. PICK f \in Lives(sec) : sec[f].free = USED /\ Within(sec, f, page) /\ r[selected] <= r[f]
  BY <1>3 DEF Seeking
<1>5. Plain(sec, f)
  BY <1>4 DEF Plain
<1>6. selected = f
  <2>1. CASE AtStart
    BY <2>1, <1>1, <1>4, <1>5, FoundStart DEF AtStart
  <2>2. CASE Inside
    BY <2>2, <1>1, <1>4, <1>5, FoundInside DEF Inside
  <2> QED
    BY <2>1, <2>2
<1> QED
  BY <1>1, <1>3, <1>4, <1>6

(* The section at which the loop of a call to lock a page does something. *)
LEMMA LockFinds ==
  ASSUME NEW r, IInv(r), Visiting("lock"), AtStart \/ Inside
  PROVE  /\ selected \in Lives(sec)
         /\ \/ /\ sec[selected].free = FREE /\ Within(sec, selected, page)
               /\ Room(SPARE_SLOTS * (count - 1) + 2)
            \/ /\ AtStart /\ sec[selected].free = USED /\ sec[selected].pages # 1
               /\ Room(SPARE_SLOTS * (count - 1)) /\ Held(sec, USED, page)
<1>1. /\ Fine(sec, r) /\ Neat(sec, r) /\ selected \in Lives(sec) /\ LockInv(r)
      /\ sec \in [Slots -> Section] /\ Lives(sec) \subseteq Slots
  BY CallFacts, SlotFacts DEF Visiting, Started, Fine
<1>2. page \in Nat /\ sec[selected].start \in Nat
  BY <1>1, FieldTypes, NumberFacts DEF LockInv, Due
<1>3. CASE Seeking(sec, r, selected, FREE, page) /\ Room(SPARE_SLOTS * (count - 1) + 2)
  <2>1. PICK f \in Lives(sec) : sec[f].free = FREE /\ Within(sec, f, page) /\ r[selected] <= r[f]
    BY <1>3 DEF Seeking
  <2>2. Plain(sec, f)
    BY <2>1 DEF Plain
  <2>3. selected = f
    <3>1. CASE AtStart
      BY <3>1, <1>1, <2>1, <2>2, FoundStart DEF AtStart
    <3>2. CASE Inside
      BY <3>2, <1>1, <2>1, <2>2, FoundInside DEF Inside
    <3> QED
      BY <3>1, <3>2
  <2> QED
    BY <1>1, <1>3, <2>1, <2>3
<1>4. CASE ~(Seeking(sec, r, selected, FREE, page) /\ Room(SPARE_SLOTS * (count - 1) + 2))
  <2>1. /\ Room(SPARE_SLOTS * (count - 1)) /\ Held(sec, USED, page)
        /\ \/ Beyond(sec, selected, page)
           \/ /\ selected # NULL /\ sec[selected].free = USED
              /\ sec[selected].start = page /\ sec[selected].pages # 1
    BY <1>1, <1>4 DEF LockInv
  <2>2. ~Beyond(sec, selected, page)
    BY <1>2 DEF Beyond, AtStart, Inside, Visiting
  <2> QED
    BY <1>1, <2>1, <2>2 DEF AtStart
<1> QED
  BY <1>3, <1>4

-----------------------------------------------------------------------------
(* The steps of a call to free pages. *)
LEMMA SameDealt ==
  ASSUME NEW r, IInv(r), Started, (head + SPARE_SLOTS * (count - 1)) * SECTION_SIZE <= data_size
  PROVE  Dealt(sec, head, r)
BY CallFacts DEF Dealt, SameLow, SameOthers

(* In either case there is room for the pages that are left. *)
LEMMA FreeRoom ==
  ASSUME NEW r, IInv(r), pc = "free"
  PROVE  (head + SPARE_SLOTS * (count - 1)) * SECTION_SIZE <= data_size /\ count \in Nat \ {0}
<1>1. FreeInv(r) /\ Started /\ head \in Nat
  BY CallFacts DEF Started
<1>2. count \in Nat \ {0}
  BY <1>1 DEF FreeInv, Due
<1>3. CASE Room(SPARE_SLOTS * (count - 1) + 2)
  <2>1. head <= head + 2
    BY <1>1
  <2> QED
    BY <1>1, <1>2, <1>3, <2>1, RoomReady
<1>4. CASE Room(SPARE_SLOTS * (count - 1))
  BY <1>2, <1>4 DEF Room
<1> QED
  BY <1>1, <1>2, <1>3, <1>4 DEF FreeInv

(* The slots left for the pages still due. *)
LEMMA LockRoom ==
  ASSUME NEW r, IInv(r), pc = "lock"
  PROVE  (head + SPARE_SLOTS * (count - 1)) * SECTION_SIZE <= data_size /\ count \in Nat \ {0}
<1>1. LockInv(r) /\ Started /\ head \in Nat
  BY CallFacts DEF Started
<1>2. count \in Nat \ {0}
  BY <1>1 DEF LockInv, Due
<1>3. CASE Room(SPARE_SLOTS * (count - 1) + 2)
  <2>1. head <= head + 2
    BY <1>1
  <2> QED
    BY <1>1, <1>2, <1>3, <2>1, RoomReady
<1>4. CASE Room(SPARE_SLOTS * (count - 1))
  BY <1>2, <1>4 DEF Room
<1> QED
  BY <1>1, <1>2, <1>3, <1>4 DEF LockInv

(* A page that is free already, and the end of the loop. *)
LEMMA FreeAgainStep ==
  ASSUME NEW r, IInv(r), FreeAgain \/ FreeEnd
  PROVE  IInv(r)' /\ SameOthers(sec, sec', page)
BY FreeRoom, SameDealt, FreeReturns DEF FreeAgain, FreeEnd, Visiting, listVars, Started

(* A section of one page is merged with its neighbours, or marked. *)
LEMMA FreeSingleStep ==
  ASSUME NEW r, IInv(r), FreeSingle
  PROVE  IInv(r)' /\ SameOthers(sec, sec', page)
<1>1. /\ Visiting("free") /\ AtStart /\ sec[selected].free # FREE /\ sec[selected].pages = 1
      /\ pc = "free" /\ PageDone /\ sec' = ReleaseSingle(sec, selected) /\ head' = head /\ in_use' = in_use
  BY DEF FreeSingle, Visiting
<1>2. selected \in Lives(sec) /\ sec[selected].free = USED /\ sec[selected].start = page
  BY <1>1, FreeFinds DEF AtStart
<1>3. Fine(sec, r) /\ head \in Nat /\ DeadFrom(sec, head)
  BY <1>1, CallFacts DEF Started
<1>4. Settled(sec, ReleaseSingle(sec, selected), sec[selected].start, r)
  BY Zenon, <1>1, <1>2, <1>3, ReleaseSettles
<1>5. Settled(sec, sec', page, r)
  BY Zenon, <1>1, <1>2, <1>4
<1>6. Dealt(sec', head', r)
  <2>1. DeadFrom(sec', head')
    BY <1>1, <1>3, <1>5 DEF Settled, DeadFrom
  <2> QED
    BY <1>1, <1>3, <1>5, <2>1, FreeRoom DEF Dealt, Settled
<1> QED
  BY <1>1, <1>6, FreeReturns

(* The first page of a section. *)
LEMMA FreeFirstStep ==
  ASSUME NEW r, IInv(r), FreeFirst
  PROVE  \E q : IInv(q)' /\ SameOthers(sec, sec', page)
<1>1. /\ Visiting("free") /\ AtStart /\ sec[selected].free # FREE /\ sec[selected].pages # 1
      /\ pc = "free" /\ PageDone /\ in_use' = in_use
  BY DEF FreeFirst, Visiting
<1>2. /\ selected \in Lives(sec) /\ sec[selected].free = USED /\ sec[selected].start = page
      /\ Room(SPARE_SLOTS * (count - 1) + 2)
  BY <1>1, FreeFinds DEF AtStart
<1>3. Fine(sec, r) /\ Neat(sec, r) /\ head \in Nat /\ DeadFrom(sec, head) /\ Started
  BY <1>1, CallFacts DEF Started, Fine
<1>4. /\ count \in Nat \ {0} /\ (head + SPARE_SLOTS * (count - 1)) * SECTION_SIZE <= data_size
      /\ Ready(List, sec, 1)
      /\ \A h \in Nat : h <= head + 2 => (h + SPARE_SLOTS * (count - 1)) * SECTION_SIZE <= data_size
  BY <1>1, <1>2, <1>3, FreeRoom, RoomReady
<1>5. CASE sec[sec[selected].prev].free = FREE
  <2>1. sec' = MoveFirstPage(sec, selected, sec[selected].prev) /\ head' = head
    BY <1>5 DEF FreeFirst
  <2>2. Plain(sec, selected) /\ Plain(sec, sec[selected].prev) /\ sec[selected].pages # 0
    BY <1>2, <1>3, <1>5 DEF Plain, Neat, Filled, USED, FREE
  <2>3. LET new == MoveFirstPage(sec, selected, sec[selected].prev)
        IN  Moved(sec, new, sec[selected].start, r) /\ Held(new, sec[sec[selected].prev].free, sec[selected].start)
    BY Zenon, <1>1, <1>2, <1>3, <2>2, MoveFirstFine
  <2>4. Moved(sec, sec', page, r)
    BY Zenon, <1>2, <2>1, <2>3
  <2>5. DeadFrom(sec', head')
    BY <1>3, <2>1, <2>4 DEF Moved, DeadFrom
  <2>6. Dealt(sec', head', r)
    BY <1>3, <1>4, <2>1, <2>4, <2>5 DEF Dealt, Moved
  <2> QED
    BY <1>1, <2>6, FreeReturns
<1>6. CASE sec[sec[selected].prev].free # FREE
  <2>1. /\ sec' = Split(List, selected, (sec[selected].start + PAGE_SIZE) % W).sec
        /\ head' = Split(List, selected, (sec[selected].start + PAGE_SIZE) % W).head
    BY <1>2, <1>6 DEF FreeFirst, SetList
  <2>2. LET cut == Split(List, selected, (sec[selected].start + PAGE_SIZE) % W)
        IN  /\ \E q : Fine(cut.sec, q)
            /\ SameLow(sec, cut.sec) /\ SameHeld(sec, cut.sec)
            /\ cut.head \in Nat /\ cut.head <= List.head + 1 /\ DeadFrom(cut.sec, cut.head)
    BY Zenon, <1>1, <1>2, <1>3, <1>4, SplitFirst
  <2>3. /\ \E q : Fine(sec', q)
        /\ SameLow(sec, sec') /\ SameHeld(sec, sec')
        /\ head' \in Nat /\ head' <= head + 1 /\ DeadFrom(sec', head')
    BY Zenon, <2>1, <2>2, ThisList
  <2>4. PICK q : Fine(sec', q)
    BY <2>3
  <2>5. head' <= head + 2
    BY <1>3, <2>3
  <2>6. Dealt(sec', head', q)
    BY <1>4, <2>3, <2>4, <2>5 DEF Dealt, SameHeld, SameOthers
  <2> QED
    BY <1>1, <2>6, FreeReturns
<1> QED
  BY <1>5, <1>6

(* The last page of a section. *)
LEMMA FreeLastStep ==
  ASSUME NEW r, IInv(r), FreeLast
  PROVE  \E q : IInv(q)' /\ SameOthers(sec, sec', page)
<1> DEFINE next == sec[selected].next
           cut  == Split(List, selected, page)
           mid  == cut.sec[selected].next
           m    == Split(cut, mid, (cut.sec[mid].start + PAGE_SIZE) % W)
           new  == Mark(m.sec, mid, FREE)
<1>1. /\ Visiting("free") /\ ~AtStart /\ Inside /\ LastPage /\ sec[selected].free # FREE /\ pc = "free"
      /\ IF sec[next].free = FREE
         THEN sec' = MoveLastPage(sec, selected, next) /\ UNCHANGED head /\ Continue(selected)
         ELSE SetList([m EXCEPT !.sec = new]) /\ Continue(mid)
  BY Zenon DEF FreeLast, Visiting
<1>2. /\ selected \in Lives(sec) /\ sec[selected].free = USED /\ Within(sec, selected, page)
      /\ Room(SPARE_SLOTS * (count - 1) + 2)
  BY <1>1, FreeFinds
<1>3. /\ Fine(sec, r) /\ Neat(sec, r) /\ head \in Nat /\ DeadFrom(sec, head) /\ Started
      /\ sec \in [Slots -> Section] /\ Lives(sec) \subseteq Slots
  BY <1>1, CallFacts, SlotFacts DEF Started, Fine
<1>4. /\ count \in Nat \ {0} /\ (head + SPARE_SLOTS * (count - 1)) * SECTION_SIZE <= data_size
      /\ Ready(List, sec, 1)
      /\ \A h \in Nat : h <= head + 2 => (h + SPARE_SLOTS * (count - 1)) * SECTION_SIZE <= data_size
  BY <1>1, <1>2, <1>3, FreeRoom, RoomReady
<1>5. Plain(sec, selected) /\ page # sec[selected].start /\ sec[selected].pages # 0
  BY <1>1, <1>2, <1>3, WithinRange DEF Plain, AtStart
<1>6. EndOf(sec, selected) = page + PAGE_SIZE
  BY <1>1, <1>2, <1>3, <1>5, FoundLast DEF LastPage
<1>7. page \in Nat
  BY <1>2, <1>3, WithinRange
<1>8. UNCHANGED <<mapVars, pc, callVars, in_use>>
  BY Zenon, <1>1 DEF Continue, historyVars
<1>9. CASE sec[next].free = FREE
  <2>1. sec' = MoveLastPage(sec, selected, next) /\ head' = head /\ selected' = sec'[selected].next
    BY Zenon, <1>1, <1>9 DEF Continue
  <2>2. Plain(sec, next) /\ sec[selected].pages # 1
    <3>1. sec[selected].pages = 1 => EndOf(sec, selected) = sec[selected].start + PAGE_SIZE
      BY <1>2, <1>3, <1>5, GoodEnd, NumberFacts
    <3>2. sec[selected].start \in Nat
      BY <1>2, <1>3, <1>5, GoodEnd
    <3> QED
      BY <3>1, <3>2, <1>5, <1>6, <1>7, <1>9, NumberFacts DEF Plain
  <2>3. LET x == MoveLastPage(sec, selected, next)
        IN  /\ Moved(sec, x, EndOf(sec, selected) - PAGE_SIZE, r) /\ next \in Lives(sec) /\ next # NULL
            /\ x[next].start = EndOf(sec, selected) - PAGE_SIZE /\ x[next].pages = sec[next].pages + 1
            /\ Held(x, sec[next].free, EndOf(sec, selected) - PAGE_SIZE)
    BY Zenon, <1>2, <1>3, <1>5, <2>2, MoveLastFine
  <2>4. EndOf(sec, selected) - PAGE_SIZE = page
    BY <1>6, <1>7, NumberFacts
  <2>5. /\ Moved(sec, sec', page, r) /\ next \in Lives(sec) /\ next # NULL
        /\ sec'[next].start = page
    BY Zenon, <2>1, <2>3, <2>4
  <2>6. selected' = next /\ sec'[next].free = FREE /\ next \in Lives(sec')
    BY <1>2, <1>9, <2>1, <2>5 DEF Moved
  <2>7. DeadFrom(sec', head')
    BY <1>3, <2>1, <2>5 DEF Moved, DeadFrom
  <2>8. Dealt(sec', head', r)
    BY <1>3, <1>4, <2>1, <2>5, <2>7 DEF Dealt, Moved
  <2> HIDE DEF next
  <2>9. selected' # NULL /\ sec'[selected'].free = FREE /\ sec'[selected'].start = page
    BY <2>5, <2>6
  <2>10. selected' \in Lives(sec')
    BY <2>6
  <2> QED
    BY <1>1, <1>8, <2>8, <2>9, <2>10, FreeContinues
<1>10. CASE sec[next].free # FREE
  <2>1. SetList([m EXCEPT !.sec = new]) /\ selected' = sec'[mid].next
    BY Zenon, <1>1, <1>10 DEF Continue
  <2>2. IsList(m)
    BY Zenon, ThisList, SplitIsList
  <2>3. sec' = new /\ head' = m.head
    BY Zenon, <2>1, <2>2, ListFields DEF SetList
  <2>4. Cuttable(List, sec, r, selected, page)
    BY <1>2, <1>3, <1>4, <1>5 DEF Cuttable
  <2>5. sec[selected].next # NULL => sec[sec[selected].next].free # FREE
    BY <1>10
  <2>6. LET cut_ == Split(List, selected, page)
            mid_ == cut_.sec[selected].next
            two_ == Split(cut_, mid_, (cut_.sec[mid_].start + PAGE_SIZE) % W)
            new_ == Mark(two_.sec, mid_, FREE)
        IN  Turned(List, sec, new_, two_.head, page, FREE, 1) /\ StartsAt(new_, mid_, page)
    BY Zenon, <1>2, <1>3, <1>6, <2>4, <2>5, GiveLast
  <2>7. Turned(List, sec, new, m.head, page, FREE, 1) /\ StartsAt(new, mid, page)
    BY Zenon, <2>6
  <2> HIDE DEF new, m, mid, cut, next
  <2>8. Turned(List, sec, sec', head', page, FREE, 1) /\ StartsAt(sec', mid, page)
    BY Zenon, <2>3, <2>7
  <2>9. /\ \E q : Fine(sec', q)
        /\ SameLow(sec, sec') /\ SameOthers(sec, sec', page)
        /\ head' \in Nat /\ head' <= head + 1 /\ DeadFrom(sec', head')
    BY Zenon, <2>8, ThisList DEF Turned
  <2>10. PICK q : Fine(sec', q)
    BY <2>9
  <2>11. head' <= head + 2
    BY <1>3, <2>9
  <2>12. Dealt(sec', head', q)
    BY <1>4, <2>9, <2>10, <2>11 DEF Dealt
  <2>13. selected' = NULL \/ (selected' \in Lives(sec') /\ sec'[selected'].start > page)
    BY <2>1, <2>8, <2>10, BehindStart DEF Fine
  <2>14. Beyond(sec', selected', page) /\ selected' \in Lives(sec') \cup {NULL}
    BY <2>13, SlotFacts DEF Beyond
  <2> QED
    BY <1>1, <1>8, <2>12, <2>14, FreeContinues
<1> QED
  BY <1>9, <1>10

(* The loop goes on before it has come to the section of the page. *)
LEMMA FreeSeeks ==
  ASSUME NEW r, IInv(r), pc = "free", UNCHANGED <<mapVars, listVars, pc, callVars, in_use>>,
         selected' \in Lives(sec), Seeking(sec, r, selected', USED, page),
         Room(SPARE_SLOTS * (count - 1) + 2)
  PROVE  IInv(r)' /\ SameOthers(sec, sec', page)
<1>1. /\ UNCHANGED <<answers, entries, data_size>> /\ sec' = sec /\ head' = head /\ pc' = pc
      /\ page' = page /\ count' = count /\ in_use' = in_use
  BY DEF mapVars, listVars, callVars
<1>2. Started /\ pc \in {"idle"} \cup (Calls \ {"dump"})
  BY DEF Started, IInv, MapInv
<1>3. /\ head \in Nat /\ DeadFrom(sec, head) /\ head * SECTION_SIZE <= data_size /\ FreeInv(r)
  BY <1>2, CallFacts
<1>4. FreeInv(r)'
  BY <1>1, <1>3 DEF FreeInv, Room
<1>5. CallInv(r)'
  BY <1>1, <1>2, <1>4 DEF CallInv, IInv, Started
<1> QED
  BY <1>1, <1>2, <1>3, <1>5, CallStep DEF SameLow, SameOthers

(* pmm_lock_page goes on looking for the section of its page. *)
LEMMA LockSeeks ==
  ASSUME NEW r, IInv(r), pc = "lock", UNCHANGED <<mapVars, listVars, pc, callVars, in_use>>,
         selected' \in Lives(sec), Seeking(sec, r, selected', FREE, page),
         Room(SPARE_SLOTS * (count - 1) + 2)
  PROVE  IInv(r)' /\ SameOthers(sec, sec', page)
<1>1. /\ UNCHANGED <<answers, entries, data_size>> /\ sec' = sec /\ head' = head /\ pc' = pc
      /\ page' = page /\ count' = count /\ in_use' = in_use
  BY DEF mapVars, listVars, callVars
<1>2. Started /\ pc \in {"idle"} \cup (Calls \ {"dump"})
  BY DEF Started, IInv, MapInv
<1>3. /\ head \in Nat /\ DeadFrom(sec, head) /\ head * SECTION_SIZE <= data_size /\ LockInv(r)
  BY <1>2, CallFacts
<1>4. LockInv(r)'
  BY <1>1, <1>3 DEF LockInv, Room
<1>5. CallInv(r)'
  BY <1>1, <1>2, <1>4 DEF CallInv, IInv, Started
<1> QED
  BY <1>1, <1>2, <1>3, <1>5, CallStep DEF SameLow, SameOthers

(* A section the page is not in, or in the middle of. *)
LEMMA FreeSkipStep ==
  ASSUME NEW r, IInv(r), FreeSkip
  PROVE  IInv(r)' /\ SameOthers(sec, sec', page)
<1>1. /\ Visiting("free") /\ ~AtStart /\ pc = "free" /\ selected # NULL
      /\ Inside => ~LastPage /\ sec[selected].free # FREE
      /\ sec' = sec /\ head' = head /\ selected' = sec[selected].next
      /\ UNCHANGED <<mapVars, listVars, pc, callVars, in_use>>
  BY DEF FreeSkip, Visiting, Continue, listVars, historyVars
<1>2. /\ Fine(sec, r) /\ Neat(sec, r) /\ selected \in Lives(sec) /\ FreeInv(r) /\ Started
  BY <1>1, CallFacts DEF Started, Fine
<1>3. page \in Nat
  BY <1>2 DEF FreeInv, Due
<1>4. Dealt(sec', head', r)
  <2>1. Dealt(sec, head, r)
    BY <1>1, <1>2, FreeRoom, SameDealt
  <2> QED
    BY Zenon, <1>1, <2>1
<1>5. ASSUME Beyond(sec, sec[selected].next, page), sec[selected].next # NULL => sec[selected].next \in Lives(sec)
      PROVE  IInv(r)' /\ SameOthers(sec, sec', page)
  <2>1. Beyond(sec', selected', page) /\ selected' \in Lives(sec') \cup {NULL}
    BY <1>1, <1>5
  <2>2. UNCHANGED <<mapVars, pc, callVars, in_use>>
    BY <1>1
  <2> QED
    BY <1>1, <1>4, <2>1, <2>2, FreeContinues
<1>6. CASE Inside
  <2>1. Plain(sec, selected) /\ Within(sec, selected, page)
    BY <1>1, <1>6, FreeFinds DEF Plain
  <2> QED
    BY <1>2, <1>5, <2>1, GoesBeyond
<1>7. CASE ~Inside /\ Seeking(sec, r, selected, USED, page) /\ Room(SPARE_SLOTS * (count - 1) + 2)
  <2>1. PICK f \in Lives(sec) : sec[f].free = USED /\ Within(sec, f, page) /\ r[selected] <= r[f]
    BY <1>7 DEF Seeking
  <2>2. Plain(sec, f) /\ sec[selected].start # page /\ ~(sec[selected].start < page /\ sec[sec[selected].next].start > page)
    BY <2>1, <1>1, <1>7 DEF Plain, AtStart, Inside
  <2>3. sec[selected].next # NULL /\ sec[selected].next \in Lives(sec) /\ r[sec[selected].next] <= r[f]
    BY <1>2, <2>1, <2>2, NotFound
  <2>4. Seeking(sec, r, selected', USED, page) /\ selected' \in Lives(sec)
    BY <1>1, <2>1, <2>3 DEF Seeking
  <2> QED
    BY <1>1, <1>7, <2>4, FreeSeeks
<1>8. CASE ~Inside /\ ~(Seeking(sec, r, selected, USED, page) /\ Room(SPARE_SLOTS * (count - 1) + 2))
  <2>1. Beyond(sec, selected, page)
    BY <1>1, <1>2, <1>8 DEF FreeInv, AtStart
  <2>2. sec[selected].start > page
    BY <2>1, <1>1 DEF Beyond
  <2> QED
    BY <1>2, <1>3, <1>5, <2>2, GoesBeyond
<1> QED
  BY <1>6, <1>7, <1>8

-----------------------------------------------------------------------------
(* The steps of a call to lock pages. *)
LEMMA LockAgainStep ==
  ASSUME NEW r, IInv(r), LockAgain \/ LockEnd
  PROVE  IInv(r)' /\ SameOthers(sec, sec', page)
<1>1. pc = "lock" /\ PageDone /\ Locked /\ sec' = sec /\ head' = head
  BY DEF LockAgain, LockEnd, Visiting, listVars
<1>2. Dealt(sec', head', r)
  <2>1. Dealt(sec, head, r)
    BY <1>1, LockRoom, SameDealt DEF Started
  <2> QED
    BY Zenon, <1>1, <2>1
<1>3. Held(sec, USED, page)
  <2>1. CASE LockAgain
    <3>1. Visiting("lock") /\ sec[selected].free = USED /\ (AtStart \/ Inside)
      BY <2>1 DEF LockAgain
    <3> QED
      BY <3>1, LockFinds DEF USED, FREE
  <2>2. CASE LockEnd
    BY <2>2, CallFacts DEF LockEnd, Started, LockInv, Seeking
  <2> QED
    BY <2>1, <2>2
<1> QED
  BY <1>1, <1>2, <1>3, LockReturns

(* A section of one page is merged with its neighbours, or marked. *)
LEMMA LockSingleStep ==
  ASSUME NEW r, IInv(r), LockSingle
  PROVE  IInv(r)' /\ SameOthers(sec, sec', page)
<1>1. /\ Visiting("lock") /\ AtStart /\ sec[selected].pages = 1
      /\ pc = "lock" /\ PageDone /\ Locked /\ sec' = LockSingleSection(sec, selected) /\ head' = head
  BY DEF LockSingle, Visiting
<1>2. selected \in Lives(sec) /\ sec[selected].free = FREE /\ sec[selected].start = page
  BY <1>1, LockFinds DEF AtStart
<1>3. Fine(sec, r) /\ head \in Nat /\ DeadFrom(sec, head)
  BY <1>1, CallFacts DEF Started
<1>4. LET new == LockSingleSection(sec, selected)
      IN  Settled(sec, new, sec[selected].start, r) /\ Held(new, USED, sec[selected].start)
  BY Zenon, <1>1, <1>2, <1>3, LockSingleSettles
<1>5. Settled(sec, sec', page, r) /\ Held(sec', USED, page)
  BY Zenon, <1>1, <1>2, <1>4
<1>6. Dealt(sec', head', r)
  <2>1. DeadFrom(sec', head')
    BY <1>1, <1>3, <1>5 DEF Settled, DeadFrom
  <2> QED
    BY <1>1, <1>3, <1>5, <2>1, LockRoom DEF Dealt, Settled
<1> QED
  BY <1>1, <1>5, <1>6, LockReturns

(* What the steps that work on a free section may rely on. *)
LEMMA LockReady ==
  ASSUME NEW r, IInv(r), Visiting("lock"), AtStart \/ Inside, sec[selected].free # USED
  PROVE  /\ selected \in Lives(sec) /\ sec[selected].free = FREE /\ Plain(sec, selected)
         /\ Within(sec, selected, page) /\ sec[selected].pages # 0 /\ page \in Nat
         /\ Fine(sec, r) /\ Neat(sec, r) /\ head \in Nat /\ DeadFrom(sec, head) /\ Started
         /\ count \in Nat \ {0} /\ (head + SPARE_SLOTS * (count - 1)) * SECTION_SIZE <= data_size
         /\ Ready(List, sec, 1) /\ Ready(List, sec, 2)
         /\ \A h \in Nat : h <= head + 2 => (h + SPARE_SLOTS * (count - 1)) * SECTION_SIZE <= data_size
BY LockFinds, CallFacts, SlotFacts, WithinRange, LockRoom, RoomReady DEF Visiting, Started, Fine, Plain

(* After a split whose middle starts with the page, the loop goes on behind. *)
LEMMA LockTurned ==
  ASSUME NEW r, IInv(r), Visiting("lock"), UNCHANGED <<mapVars, pc, callVars, in_use>>,
         NEW x, NEW n \in 0 .. 2, Turned(List, sec, sec', head', page, USED, n), StartsAt(sec', x, page),
         selected' = sec'[x].next, AtStart \/ Inside, sec[selected].free # USED
  PROVE  \E q : IInv(q)' /\ SameOthers(sec, sec', page)
<1>1. /\ pc = "lock" /\ head \in Nat
      /\ \A h \in Nat : h <= head + 2 => (h + SPARE_SLOTS * (count - 1)) * SECTION_SIZE <= data_size
  BY LockReady DEF Visiting
<1>2. /\ \E q : Fine(sec', q)
      /\ SameLow(sec, sec') /\ SameOthers(sec, sec', page) /\ Held(sec', USED, page)
      /\ head' \in Nat /\ head' <= head + n /\ DeadFrom(sec', head')
  BY Zenon, ThisList DEF Turned
<1>3. PICK q : Fine(sec', q)
  BY <1>2
<1>4. head' <= head + 2
  BY <1>1, <1>2
<1>5. Dealt(sec', head', q)
  BY <1>1, <1>2, <1>3, <1>4 DEF Dealt
<1>6. selected' = NULL \/ (selected' \in Lives(sec') /\ sec'[selected'].start > page)
  BY <1>3, BehindStart DEF Fine
<1>7. Beyond(sec', selected', page) /\ selected' \in Lives(sec') \cup {NULL}
  BY <1>6, SlotFacts DEF Beyond
<1> QED
  BY <1>1, <1>2, <1>5, <1>7, LockContinues

(* The first page of a section. *)
LEMMA LockFirstStep ==
  ASSUME NEW r, IInv(r), LockFirst
  PROVE  \E q : IInv(q)' /\ SameOthers(sec, sec', page)
<1> DEFINE m == Split(List, selected, (page + PAGE_SIZE) % W)
           prev == sec[selected].prev
<1>1. /\ Visiting("lock") /\ AtStart /\ sec[selected].free # USED /\ pc = "lock" /\ sec[selected].start = page
      /\ IF sec[prev].free = USED
         THEN sec' = MoveFirstPage(sec, selected, prev) /\ Locked /\ PageDone /\ head' = head
         ELSE SetList([m EXCEPT !.sec = Mark(m.sec, selected, USED)]) /\ Continue(selected)
  BY DEF LockFirst, Visiting, AtStart
<1>2. /\ selected \in Lives(sec) /\ sec[selected].free = FREE /\ Plain(sec, selected)
      /\ Within(sec, selected, page) /\ sec[selected].pages # 0 /\ page \in Nat
      /\ Fine(sec, r) /\ Neat(sec, r) /\ head \in Nat /\ DeadFrom(sec, head) /\ Started
      /\ (head + SPARE_SLOTS * (count - 1)) * SECTION_SIZE <= data_size
      /\ Ready(List, sec, 1)
  BY <1>1, LockReady
<1>3. CASE sec[prev].free = USED
  <2>1. sec' = MoveFirstPage(sec, selected, prev) /\ head' = head /\ Locked /\ PageDone
    BY <1>1, <1>3
  <2>2. Plain(sec, prev) /\ (sec[selected].free # FREE => sec[selected].pages # 1) /\ prev = sec[selected].prev
    BY <1>2, <1>3 DEF Plain
  <2> HIDE DEF prev
  <2>3. LET new == MoveFirstPage(sec, selected, prev)
        IN  Moved(sec, new, sec[selected].start, r) /\ Held(new, sec[prev].free, sec[selected].start)
    BY Zenon, <1>2, <2>2, MoveFirstFine
  <2>4. Moved(sec, sec', page, r) /\ Held(sec', USED, page)
    BY Zenon, <1>1, <1>3, <2>1, <2>3
  <2>5. DeadFrom(sec', head')
    BY <1>2, <2>1, <2>4 DEF Moved, DeadFrom
  <2>6. Dealt(sec', head', r)
    BY <1>2, <2>1, <2>4, <2>5 DEF Dealt, Moved
  <2> QED
    BY <1>1, <2>1, <2>4, <2>6, LockReturns
<1>4. CASE sec[prev].free # USED
  <2>1. SetList([m EXCEPT !.sec = Mark(m.sec, selected, USED)]) /\ Continue(selected)
    BY <1>1, <1>4
  <2>2. IsList(m)
    BY Zenon, ThisList, SplitIsList
  <2>3. sec' = Mark(m.sec, selected, USED) /\ head' = m.head
    BY Zenon, <2>1, <2>2, ListFields DEF SetList
  <2>4. LET cut == Split(List, selected, (sec[selected].start + PAGE_SIZE) % W)
            new == Mark(cut.sec, selected, USED)
        IN  Turned(List, sec, new, cut.head, sec[selected].start, USED, 1) /\ StartsAt(new, selected, sec[selected].start)
    <3>1. Nearly(sec, selected)
      BY Zenon, <1>2, FineNearly
    <3> QED
      BY Zenon, <1>2, <3>1, TakeFirst
  <2>5. Turned(List, sec, sec', head', page, USED, 1) /\ StartsAt(sec', selected, page)
    BY Zenon, <1>1, <2>3, <2>4
  <2>6. UNCHANGED <<mapVars, pc, callVars, in_use>> /\ selected' = sec'[selected].next
    BY Zenon, <2>1 DEF Continue, historyVars
  <2>7. 1 \in 0 .. 2
    OBVIOUS
  <2> QED
    BY <1>1, <2>5, <2>6, <2>7, LockTurned
<1> QED
  BY <1>3, <1>4

(* The last page of a section. *)
LEMMA LockLastStep ==
  ASSUME NEW r, IInv(r), LockLast
  PROVE  \E q : IInv(q)' /\ SameOthers(sec, sec', page)
<1> DEFINE next == sec[selected].next
           cut  == Split(List, selected, page)
           mid  == cut.sec[selected].next
           new  == Mark(cut.sec, mid, USED)
<1>1. /\ Visiting("lock") /\ ~AtStart /\ Inside /\ LastPage /\ sec[selected].free # USED /\ pc = "lock"
      /\ IF sec[next].free = USED
         THEN sec' = MoveLastPage(sec, selected, next) /\ UNCHANGED head /\ Continue(selected)
         ELSE SetList([cut EXCEPT !.sec = new]) /\ Continue(mid)
  BY Zenon DEF LockLast, Visiting
<1>2. /\ selected \in Lives(sec) /\ sec[selected].free = FREE /\ Plain(sec, selected)
      /\ Within(sec, selected, page) /\ sec[selected].pages # 0 /\ page \in Nat
      /\ Fine(sec, r) /\ Neat(sec, r) /\ head \in Nat /\ DeadFrom(sec, head) /\ Started
      /\ (head + SPARE_SLOTS * (count - 1)) * SECTION_SIZE <= data_size
      /\ Ready(List, sec, 1)
  BY <1>1, LockReady
<1>3. EndOf(sec, selected) = page + PAGE_SIZE
  BY <1>1, <1>2, FoundLast DEF LastPage
<1>4. UNCHANGED <<mapVars, pc, callVars, in_use>>
  BY Zenon, <1>1 DEF Continue, historyVars
<1>5. CASE sec[next].free = USED
  <2>1. sec' = MoveLastPage(sec, selected, next) /\ head' = head /\ selected' = sec'[selected].next
    BY Zenon, <1>1, <1>5 DEF Continue
  <2>2. Plain(sec, next) /\ (sec[selected].free # FREE => sec[selected].pages # 1)
    BY <1>2, <1>5 DEF Plain
  <2>3. LET x == MoveLastPage(sec, selected, next)
        IN  /\ Moved(sec, x, EndOf(sec, selected) - PAGE_SIZE, r) /\ next \in Lives(sec) /\ next # NULL
            /\ x[next].start = EndOf(sec, selected) - PAGE_SIZE /\ x[next].pages = sec[next].pages + 1
            /\ Held(x, sec[next].free, EndOf(sec, selected) - PAGE_SIZE)
    BY Zenon, <1>2, <2>2, MoveLastFine
  <2>4. EndOf(sec, selected) - PAGE_SIZE = page
    BY <1>3, <1>2, NumberFacts
  <2>5. /\ Moved(sec, sec', page, r) /\ next \in Lives(sec) /\ next # NULL
        /\ sec'[next].start = page /\ sec'[next].pages = sec[next].pages + 1
        /\ Held(sec', USED, page)
    BY Zenon, <1>5, <2>1, <2>3, <2>4
  <2>6. selected' = next /\ sec'[next].free = USED /\ next \in Lives(sec')
    BY <1>2, <1>5, <2>1, <2>5 DEF Moved
  <2>7. sec'[next].pages # 1
    <3>1. sec[next].pages # 0
      BY <1>2, <1>5, <2>5 DEF Neat, Filled, USED, FREE
    <3>2. sec[next].pages \in Nat
      BY <1>2, <2>2, <2>5, GoodEnd
    <3> QED
      BY <3>1, <3>2, <2>5
  <2>8. DeadFrom(sec', head')
    BY <1>2, <2>1, <2>5 DEF Moved, DeadFrom
  <2>9. Dealt(sec', head', r)
    BY <1>2, <2>1, <2>5, <2>8 DEF Dealt, Moved
  <2> HIDE DEF next
  <2>10. /\ selected' # NULL /\ sec'[selected'].free = USED /\ sec'[selected'].start = page
         /\ sec'[selected'].pages # 1 /\ selected' \in Lives(sec')
    BY <2>5, <2>6, <2>7
  <2> QED
    BY <1>1, <1>4, <2>5, <2>9, <2>10, LockContinues
<1>6. CASE sec[next].free # USED
  <2>1. SetList([cut EXCEPT !.sec = new]) /\ selected' = sec'[mid].next
    BY Zenon, <1>1, <1>6 DEF Continue
  <2>2. IsList(cut)
    BY Zenon, ThisList, SplitIsList
  <2>3. sec' = new /\ head' = cut.head
    BY Zenon, <2>1, <2>2, ListFields DEF SetList
  <2>4. Cuttable(List, sec, r, selected, page)
    BY <1>1, <1>2 DEF Cuttable, AtStart
  <2>5. LET cut_ == Split(List, selected, page)
            mid_ == cut_.sec[selected].next
            new_ == Mark(cut_.sec, mid_, USED)
        IN  Turned(List, sec, new_, cut_.head, page, USED, 1) /\ StartsAt(new_, mid_, page)
    BY Zenon, <1>2, <1>3, <2>4, TakeLast
  <2>6. Turned(List, sec, new, cut.head, page, USED, 1) /\ StartsAt(new, mid, page)
    BY Zenon, <2>5
  <2> HIDE DEF new, mid, cut, next
  <2>7. Turned(List, sec, sec', head', page, USED, 1) /\ StartsAt(sec', mid, page)
    BY Zenon, <2>3, <2>6
  <2>8. 1 \in 0 .. 2
    OBVIOUS
  <2> QED
    BY <1>1, <1>4, <2>1, <2>7, <2>8, LockTurned
<1> QED
  BY <1>5, <1>6

(* A page in the middle of a section is cut out by two splits. *)
LEMMA LockMiddleStep ==
  ASSUME NEW r, IInv(r), LockMiddle
  PROVE  \E q : IInv(q)' /\ SameOthers(sec, sec', page)
<1> DEFINE cut  == Split(List, selected, page)
           mid  == cut.sec[selected].next
           m    == Split(cut, mid, (cut.sec[mid].start + PAGE_SIZE) % W)
           new  == Mark(m.sec, mid, USED)
<1>1. /\ Visiting("lock") /\ ~AtStart /\ Inside /\ sec[selected].free # USED /\ pc = "lock"
      /\ SetList([m EXCEPT !.sec = new]) /\ Continue(mid)
  BY Zenon DEF LockMiddle, Visiting
<1>2. /\ selected \in Lives(sec) /\ sec[selected].free = FREE /\ Plain(sec, selected)
      /\ Within(sec, selected, page) /\ Fine(sec, r) /\ Neat(sec, r)
      /\ Ready(List, sec, 1) /\ Ready(List, sec, 2)
  BY <1>1, LockReady
<1>3. UNCHANGED <<mapVars, pc, callVars, in_use>> /\ selected' = sec'[mid].next
  BY Zenon, <1>1 DEF Continue, historyVars
<1>4. IsList(m)
  BY Zenon, ThisList, SplitIsList
<1>5. sec' = new /\ head' = m.head
  BY Zenon, <1>1, <1>4, ListFields DEF SetList
<1>6. Cuttable(List, sec, r, selected, page)
  BY <1>1, <1>2 DEF Cuttable, AtStart
<1>7. LET cut_ == Split(List, selected, page)
          mid_ == cut_.sec[selected].next
          two_ == Split(cut_, mid_, (cut_.sec[mid_].start + PAGE_SIZE) % W)
          new_ == Mark(two_.sec, mid_, USED)
      IN  Turned(List, sec, new_, two_.head, page, USED, 2) /\ StartsAt(new_, mid_, page)
  BY Zenon, <1>2, <1>6, TakeMiddle
<1>8. Turned(List, sec, new, m.head, page, USED, 2) /\ StartsAt(new, mid, page)
  BY Zenon, <1>7
<1> HIDE DEF new, m, mid, cut
<1>9. Turned(List, sec, sec', head', page, USED, 2) /\ StartsAt(sec', mid, page)
  BY Zenon, <1>5, <1>8
<1>10. 2 \in 0 .. 2
  OBVIOUS
<1> QED
  BY <1>1, <1>3, <1>9, <1>10, LockTurned

(* A section the page is not in. *)
LEMMA LockSkipStep ==
  ASSUME NEW r, IInv(r), LockSkip
  PROVE  IInv(r)' /\ SameOthers(sec, sec', page)
<1>1. /\ ~AtStart /\ ~Inside /\ pc = "lock" /\ selected # NULL
      /\ sec' = sec /\ head' = head /\ selected' = sec[selected].next
      /\ UNCHANGED <<mapVars, listVars, pc, callVars, in_use>>
  BY DEF LockSkip, Visiting, Continue, listVars, historyVars
<1>2. /\ Fine(sec, r) /\ Neat(sec, r) /\ selected \in Lives(sec) /\ LockInv(r) /\ Started
  BY <1>1, CallFacts DEF Started, Fine
<1>3. page \in Nat
  BY <1>2 DEF LockInv, Due
<1>4. CASE Seeking(sec, r, selected, FREE, page) /\ Room(SPARE_SLOTS * (count - 1) + 2)
  <2>1. PICK f \in Lives(sec) : sec[f].free = FREE /\ Within(sec, f, page) /\ r[selected] <= r[f]
    BY <1>4 DEF Seeking
  <2>2. Plain(sec, f) /\ sec[selected].start # page /\ ~(sec[selected].start < page /\ sec[sec[selected].next].start > page)
    BY <2>1, <1>1 DEF Plain, AtStart, Inside
  <2>3. sec[selected].next # NULL /\ sec[selected].next \in Lives(sec) /\ r[sec[selected].next] <= r[f]
    BY <1>2, <2>1, <2>2, NotFound
  <2>4. Seeking(sec, r, selected', FREE, page) /\ selected' \in Lives(sec)
    BY <1>1, <2>1, <2>3 DEF Seeking
  <2> QED
    BY <1>1, <1>4, <2>4, LockSeeks
<1>5. CASE ~(Seeking(sec, r, selected, FREE, page) /\ Room(SPARE_SLOTS * (count - 1) + 2))
  <2>1. Beyond(sec, selected, page) /\ Held(sec, USED, page)
    BY <1>1, <1>2, <1>5 DEF LockInv, AtStart
  <2>2. sec[selected].start > page
    BY <2>1, <1>1 DEF Beyond
  <2>3. Beyond(sec, sec[selected].next, page) /\ (sec[selected].next # NULL => sec[selected].next \in Lives(sec))
    BY <1>2, <1>3, <2>2, GoesBeyond
  <2>4. Beyond(sec', selected', page) /\ selected' \in Lives(sec') \cup {NULL} /\ Held(sec', USED, page)
    BY <1>1, <2>1, <2>3
  <2>5. Dealt(sec', head', r)
    <3>1. Dealt(sec, head, r)
      BY <1>1, <1>2, LockRoom, SameDealt
    <3> QED
      BY Zenon, <1>1, <3>1
  <2>6. UNCHANGED <<mapVars, pc, callVars, in_use>>
    BY <1>1
  <2> QED
    BY <1>1, <2>4, <2>5, <2>6, LockContinues
<1> QED
  BY <1>4, <1>5

-----------------------------------------------------------------------------
(* The steps of a call to allocate a page. *)
AllocInv(r) ==
  /\ count = 1 /\ Room(2)
  /\ \A i \in Lives(sec) :
       selected = NULL \/ r[i] < r[selected] => sec[i].free # FREE \/ sec[i].pages = 0

(* What holds while pmm_alloc_page runs. *)
LEMMA AllocFacts ==
  ASSUME NEW r, IInv(r), pc = "alloc"
  PROVE  AllocInv(r) /\ Started
BY DEF IInv, CallInv, AllocInv, Started

(* pmm_alloc_page goes on; the sections behind it have no free page. *)
LEMMA AllocContinues ==
  ASSUME NEW r, IInv(r), pc = "alloc", UNCHANGED <<mapVars, head, pc, callVars, in_use>>,
         Fine(sec', r), SameLow(sec, sec'), SameHeld(sec, sec'), Lives(sec') \subseteq Lives(sec),
         selected' \in Lives(sec') \cup {NULL},
         \A i \in Lives(sec') : selected' = NULL \/ r[i] < r[selected'] => sec'[i].free # FREE \/ sec'[i].pages = 0
  PROVE  IInv(r)'
<1>1. AllocInv(r) /\ Started
  BY AllocFacts
<1>2. /\ head \in Nat /\ DeadFrom(sec, head) /\ head * SECTION_SIZE <= data_size
      /\ \A p \in in_use : Held(sec, USED, p)
  BY <1>1, CallFacts
<1>3. /\ UNCHANGED <<answers, entries, data_size>> /\ head' = head /\ pc' = "alloc" /\ in_use' = in_use
      /\ count' = count
  BY DEF mapVars, callVars
<1>4. DeadFrom(sec', head')
  BY <1>2, <1>3 DEF DeadFrom
<1>5. \A p \in in_use' : Held(sec', USED, p)
  BY <1>2, <1>3 DEF SameHeld
<1>6. AllocInv(r)'
  BY <1>1, <1>3 DEF AllocInv, Room
<1>7. CallInv(r)'
  BY <1>3, <1>5, <1>6 DEF CallInv, Fine, AllocInv
<1>8. pc' \in {"idle"} \cup (Calls \ {"dump"})
  BY <1>3 DEF IInv, MapInv
<1> QED
  BY <1>1, <1>2, <1>3, <1>4, <1>7, <1>8, CallStep

(* It unlinks an empty section. *)
LEMMA AllocUnlinkStep ==
  ASSUME NEW r, IInv(r), AllocUnlink
  PROVE  IInv(r)' /\ SameHeld(sec, sec')
<1>1. /\ pc = "alloc" /\ selected # NULL /\ sec[selected].pages = 0
      /\ sec' = Dropped(sec, selected) /\ selected' = sec[selected].next
      /\ UNCHANGED <<mapVars, head, pc, callVars, in_use>>
  BY Zenon DEF AllocUnlink, Visiting, Dropped, historyVars
<1>2. AllocInv(r) /\ Started
  BY <1>1, AllocFacts
<1>3. Fine(sec, r) /\ Neat(sec, r) /\ selected \in Lives(sec)
  BY <1>1, <1>2, CallFacts DEF Fine
<1>4. Folded(sec, Dropped(sec, selected), selected, r) /\ Lives(Dropped(sec, selected)) = Lives(sec) \ {selected}
  BY Zenon, <1>1, <1>3, DroppedFolds
<1>5. Folded(sec, sec', selected, r) /\ Lives(sec') = Lives(sec) \ {selected}
  BY Zenon, <1>1, <1>4
<1>6. \A x \in Slots \ {selected} : SameBody(sec, sec', x)
  <2>1. sec[selected].free = FREE
    BY <1>1, <1>3 DEF Neat, Filled
  <2>2. Plain(sec, selected)
    BY <2>1 DEF Plain
  <2>3. \A x \in Slots \ {selected} : SameBody(sec, Dropped(sec, selected), x)
    BY Zenon, <1>3, <1>1, <2>1, <2>2, DropDoes
  <2> QED
    BY Zenon, <1>1, <2>3
<1>7. /\ Lives(sec) \subseteq Slots /\ r \in [Real -> Nat] /\ Lives(sec) \subseteq Real
      /\ \A i, j \in Lives(sec) : r[i] = r[j] => i = j
  BY <1>3, SlotFacts DEF Neat, Ordered
<1>8. selected' # NULL => /\ selected' \in Lives(sec) /\ selected' # selected
                          /\ \A x \in Lives(sec) : r[x] <= r[selected] \/ r[selected'] <= r[x]
  BY <1>1, <1>3, NextOf
<1>9. \A i \in Lives(sec') : selected' = NULL \/ r[i] < r[selected'] => sec'[i].free # FREE \/ sec'[i].pages = 0
  <2> TAKE i \in Lives(sec')
  <2> HAVE selected' = NULL \/ r[i] < r[selected']
  <2>1. i \in Lives(sec) /\ i # selected /\ SameBody(sec, sec', i)
    BY <1>5, <1>6, <1>7
  <2>2. r[i] <= r[selected]
    <3>1. CASE selected' = NULL
      BY <3>1, <1>1, <1>3, <2>1 DEF Neat, Ordered
    <3>2. CASE selected' # NULL
      BY <3>2, <1>3, <1>7, <1>8, <2>1
    <3> QED
      BY <3>1, <3>2
  <2>3. r[i] < r[selected]
    BY <1>3, <1>7, <2>1, <2>2
  <2> QED
    BY <1>2, <2>1, <2>3 DEF AllocInv, SameBody
<1>10. selected' \in Lives(sec') \cup {NULL}
  BY <1>5, <1>8
<1>11. Fine(sec', r) /\ SameLow(sec, sec') /\ SameHeld(sec, sec') /\ Lives(sec') \subseteq Lives(sec)
  BY <1>5 DEF Folded
<1> QED
  BY <1>1, <1>9, <1>10, <1>11, AllocContinues

(* It passes a section that is not free. *)
LEMMA AllocSkipStep ==
  ASSUME NEW r, IInv(r), AllocSkip
  PROVE  IInv(r)'
<1>1. /\ pc = "alloc" /\ selected # NULL /\ sec[selected].free # FREE
      /\ sec' = sec /\ selected' = sec[selected].next
      /\ UNCHANGED <<mapVars, head, pc, callVars, in_use>>
  BY DEF AllocSkip, Visiting, Continue, listVars, historyVars
<1>2. AllocInv(r) /\ Started
  BY <1>1, AllocFacts
<1>3. Fine(sec, r) /\ Neat(sec, r) /\ selected \in Lives(sec)
  BY <1>1, <1>2, CallFacts DEF Fine
<1>4. /\ r \in [Real -> Nat] /\ Lives(sec) \subseteq Real
      /\ \A i, j \in Lives(sec) : r[i] = r[j] => i = j
  BY <1>3, SlotFacts DEF Neat, Ordered
<1>5. selected' # NULL => /\ selected' \in Lives(sec)
                          /\ \A x \in Lives(sec) : r[x] <= r[selected] \/ r[selected'] <= r[x]
  BY <1>1, <1>3, NextOf
<1>6. \A i \in Lives(sec') : selected' = NULL \/ r[i] < r[selected'] => sec'[i].free # FREE \/ sec'[i].pages = 0
  <2> TAKE i \in Lives(sec')
  <2> HAVE selected' = NULL \/ r[i] < r[selected']
  <2>1. i \in Lives(sec) /\ sec'[i] = sec[i]
    BY <1>1
  <2>2. r[i] <= r[selected]
    <3>1. CASE selected' = NULL
      BY <3>1, <1>1, <1>3, <2>1 DEF Neat, Ordered
    <3>2. CASE selected' # NULL
      BY <3>2, <1>3, <1>4, <1>5, <2>1
    <3> QED
      BY <3>1, <3>2
  <2>3. i = selected \/ r[i] < r[selected]
    BY <1>3, <1>4, <2>1, <2>2
  <2> QED
    BY <1>1, <1>2, <2>1, <2>3 DEF AllocInv
<1>7. selected' \in Lives(sec') \cup {NULL}
  BY <1>1, <1>5
<1>8. Fine(sec', r) /\ SameLow(sec, sec') /\ SameHeld(sec, sec') /\ Lives(sec') \subseteq Lives(sec)
  BY <1>1, <1>3 DEF SameLow, SameHeld
<1> QED
  BY <1>1, <1>6, <1>7, <1>8, AllocContinues

(* A part of the table is smaller than the table. *)
LEMMA SmallerTable ==
  ASSUME NEW a \in Nat, NEW b \in Nat, a <= b, NEW d \in Nat, b * SECTION_SIZE <= d
  PROVE  a * SECTION_SIZE <= d
<1>1. SECTION_SIZE \in Nat
  BY NumberFacts
<1>2. b - a \in Nat /\ b = a + (b - a)
  OBVIOUS
<1> DEFINE c == b - a
<1> HIDE DEF c
<1>3. c \in Nat /\ b = a + c
  BY <1>2 DEF c
<1>4. b * SECTION_SIZE = a * SECTION_SIZE + c * SECTION_SIZE
  BY <1>1, <1>3
<1>5. a * SECTION_SIZE \in Nat /\ c * SECTION_SIZE \in Nat
  BY <1>1, <1>3
<1> QED
  BY <1>4, <1>5

(* A call that returns leaves the list in order, and what it hands out used. *)
LEMMA AllocReturns ==
  ASSUME NEW r, NEW q, IInv(r), pc = "alloc", pc' = "idle", selected' = NULL,
         UNCHANGED mapVars, Fine(sec', q), SameLow(sec, sec'),
         \A p \in in_use' : Held(sec', USED, p),
         head' \in Nat, head' <= head + 1, DeadFrom(sec', head')
  PROVE  IInv(q)'
<1>1. AllocInv(r) /\ Started
  BY AllocFacts
<1>2. head \in Nat /\ data_size \in Nat /\ (head + 2) * SECTION_SIZE <= data_size
  BY <1>1, CallFacts DEF AllocInv, Room
<1>3. head' * SECTION_SIZE <= data_size
  <2>1. head' \in Nat /\ head + 2 \in Nat /\ head' <= head + 2
    BY <1>2
  <2> QED
    BY <1>2, <2>1, SmallerTable
<1>4. CallInv(q)'
  BY DEF CallInv, Fine
<1>5. UNCHANGED <<answers, entries, data_size>>
  BY DEF mapVars
<1> QED
  BY <1>1, <1>3, <1>4, <1>5, CallStep

(* It takes the first page of a free section. *)
LEMMA AllocTakeStep ==
  ASSUME NEW r, IInv(r), AllocTake
  PROVE  (\E q : IInv(q)') /\ SameOthers(sec, sec', sec[selected].start)
<1> DEFINE base == sec[selected].start
           m    == Split(List, selected, (base + PAGE_SIZE) % W)
           prev == sec[selected].prev
<1>1. /\ pc = "alloc" /\ selected # NULL /\ sec[selected].pages # 0 /\ sec[selected].free = FREE
      /\ IF sec[prev].free = USED
         THEN sec' = MoveFirstPage(sec, selected, prev) /\ head' = head
         ELSE SetList([m EXCEPT !.sec = Mark(m.sec, selected, USED)])
      /\ in_use' = in_use \cup {base} /\ pc' = "idle" /\ selected' = NULL /\ UNCHANGED mapVars
  BY Zenon DEF AllocTake, Visiting
<1>2. AllocInv(r) /\ Started
  BY <1>1, AllocFacts
<1>3. /\ Fine(sec, r) /\ Neat(sec, r) /\ selected \in Lives(sec) /\ head \in Nat /\ DeadFrom(sec, head)
      /\ \A p \in in_use : Held(sec, USED, p)
      /\ data_size \in Nat /\ data_size <= MAX_SLOTS * SECTION_SIZE
  BY <1>1, <1>2, CallFacts DEF Fine
<1>4. Plain(sec, selected)
  BY <1>1 DEF Plain
<1>5. CASE sec[prev].free = USED
  <2>1. sec' = MoveFirstPage(sec, selected, prev) /\ head' = head
    BY Zenon, <1>1, <1>5
  <2>2. Plain(sec, prev) /\ (sec[selected].free # FREE => sec[selected].pages # 1) /\ prev = sec[selected].prev
    BY <1>1, <1>5 DEF Plain
  <2> HIDE DEF prev
  <2>3. LET new == MoveFirstPage(sec, selected, prev)
        IN  Moved(sec, new, sec[selected].start, r) /\ Held(new, sec[prev].free, sec[selected].start)
    BY Zenon, <1>1, <1>3, <1>4, <2>2, MoveFirstFine
  <2>4. Moved(sec, sec', base, r) /\ Held(sec', USED, base)
    BY Zenon, <1>1, <1>5, <2>1, <2>3
  <2> HIDE DEF base
  <2>5. SameLow(sec, sec') /\ SameOthers(sec, sec', base) /\ Fine(sec', r) /\ Lives(sec') = Lives(sec)
    BY <2>4 DEF Moved
  <2>6. DeadFrom(sec', head') /\ head' \in Nat /\ head' <= head + 1
    BY <1>3, <2>1, <2>5 DEF DeadFrom
  <2>7. \A p \in in_use \cup {base} : Held(sec', USED, p)
    BY Zenon, <1>3, <2>4, <2>5, LockHeld
  <2>8. IInv(r)'
    BY <1>1, <2>5, <2>6, <2>7, AllocReturns
  <2> QED
    BY <2>5, <2>8 DEF base
<1>6. CASE sec[prev].free # USED
  <2>1. SetList([m EXCEPT !.sec = Mark(m.sec, selected, USED)])
    BY Zenon, <1>1, <1>6
  <2>2. IsList(m)
    BY Zenon, ThisList, SplitIsList
  <2>3. sec' = Mark(m.sec, selected, USED) /\ head' = m.head
    BY Zenon, <2>1, <2>2, ListFields DEF SetList
  <2>4. Ready(List, sec, 1)
    <3>1. (head + 1) * SECTION_SIZE <= data_size
      <4>1. (head + 2) * SECTION_SIZE <= data_size
        BY <1>2 DEF AllocInv, Room
      <4>2. head + 1 \in Nat /\ head + 2 \in Nat /\ head + 1 <= head + 2
        BY <1>3
      <4> QED
        BY <1>3, <4>1, <4>2, SmallerTable
    <3> QED
      BY <3>1, <1>3, ThisList DEF Ready
  <2>5. LET cut == Split(List, selected, (sec[selected].start + PAGE_SIZE) % W)
            new == Mark(cut.sec, selected, USED)
        IN  Turned(List, sec, new, cut.head, sec[selected].start, USED, 1) /\ StartsAt(new, selected, sec[selected].start)
    <3>1. Nearly(sec, selected)
      BY Zenon, <1>3, FineNearly
    <3> QED
      BY Zenon, <1>1, <1>3, <1>4, <2>4, <3>1, TakeFirst
  <2>6. Turned(List, sec, sec', head', base, USED, 1)
    BY Zenon, <2>3, <2>5
  <2> HIDE DEF base, m, prev
  <2>7. /\ \E q : Fine(sec', q)
        /\ SameLow(sec, sec') /\ SameOthers(sec, sec', base) /\ Held(sec', USED, base)
        /\ head' \in Nat /\ head' <= head + 1 /\ DeadFrom(sec', head')
    BY Zenon, <2>6, ThisList DEF Turned
  <2>8. PICK q : Fine(sec', q)
    BY <2>7
  <2>9. \A p \in in_use \cup {base} : Held(sec', USED, p)
    BY Zenon, <1>3, <2>7, LockHeld
  <2>10. IInv(q)'
    BY <1>1, <2>7, <2>8, <2>9, AllocReturns
  <2> QED
    BY <2>7, <2>10 DEF base
<1> QED
  BY <1>5, <1>6

(* It found none, and returns 0. *)
LEMMA AllocNoneStep ==
  ASSUME NEW r, IInv(r), AllocNone
  PROVE  IInv(r)'
<1>1. pc = "alloc" /\ PageDone /\ sec' = sec /\ head' = head /\ in_use' = in_use
  BY DEF AllocNone, listVars
<1>2. AllocInv(r) /\ Started
  BY <1>1, AllocFacts
<1>3. pc' = "idle" /\ selected' = NULL /\ UNCHANGED mapVars
  BY <1>1, <1>2 DEF AllocInv, PageDone
<1>4. /\ Fine(sec, r) /\ head \in Nat /\ DeadFrom(sec, head)
      /\ \A p \in in_use : Held(sec, USED, p)
  BY <1>2, CallFacts
<1>5. SameLow(sec, sec')
  BY <1>1 DEF SameLow
<1> QED
  BY <1>1, <1>3, <1>4, <1>5, AllocReturns

-----------------------------------------------------------------------------
(* The calls begin. *)

(* Where the free pages are, and the slots that have them. *)
LEMMA FreeHeld ==
  ASSUME NEW r, Neat(sec, r)
  PROVE  /\ FreeSlots = {i \in Lives(sec) : sec[i].free = FREE}
         /\ \A p : p \in FreePages <=> Held(sec, FREE, p)
<1>1. Slots \ {NULL} = Real /\ Lives(sec) \subseteq Real
  BY SlotFacts
<1>2. \A i \in Real : sec[i].free = FREE => i \in Lives(sec)
  <2> TAKE i \in Real
  <2>1. i \notin Lives(sec) => sec[i].free = USED
    BY DEF Neat, Wired, Unlinked
  <2> QED
    BY <2>1 DEF USED, FREE
<1>3. \A i : i \in FreeSlots <=> i \in Lives(sec) /\ sec[i].free = FREE
  BY <1>1, <1>2 DEF FreeSlots
<1>4. FreeSlots = {i \in Lives(sec) : sec[i].free = FREE}
  BY <1>3
<1>5. \A i : PagesOf(i) = PageRun(sec[i].start, sec[i].pages)
  BY DEF PagesOf, PageRun
<1>6. \A p : p \in FreePages <=> Held(sec, FREE, p)
  BY <1>3, <1>5 DEF FreePages, Held, Within
<1> QED
  BY <1>4, <1>6

(* The room that callers leave for every page of a call. *)
LEMMA RoomBegin ==
  ASSUME NEW h \in Nat, NEW n \in Nat \ {0}, NEW d \in Nat, (h + SPARE_SLOTS * n) * SECTION_SIZE <= d
  PROVE  (h + (SPARE_SLOTS * (n - 1) + 2)) * SECTION_SIZE <= d
<1> DEFINE y == SPARE_SLOTS * (n - 1)
           z == SPARE_SLOTS * n
<1>1. SPARE_SLOTS \in Nat /\ SPARE_SLOTS >= 2 /\ n - 1 \in Nat
  BY NumberFacts
<1>2. z = y + SPARE_SLOTS /\ y \in Nat /\ z \in Nat
  BY <1>1
<1> HIDE DEF y, z
<1>3. h + (y + 2) \in Nat /\ h + z \in Nat /\ h + (y + 2) <= h + z
  BY <1>1, <1>2
<1>4. (h + z) * SECTION_SIZE <= d
  BY DEF z
<1>5. (h + (y + 2)) * SECTION_SIZE <= d
  BY <1>3, <1>4, SmallerTable
<1> QED
  BY <1>5 DEF y

(* The pages of a run, one by one. *)
LEMMA RunPages ==
  ASSUME NEW p, NEW n
  PROVE  \A k \in 0 .. n - 1 : p + k * PAGE_SIZE \in PageRun(p, n)
BY DEF PageRun

(* What a call finds. *)
LEMMA BeginFacts ==
  ASSUME NEW r, IInv(r), NEW call \in {"alloc", "free", "lock"}, NEW p, NEW n \in Nat \ {0}, Begin(call, p, n)
  PROVE  /\ Started /\ pc = "idle" /\ pc' = call /\ call \in Calls \ {"dump"}
         /\ selected' = pmm_sections /\ page' = p /\ count' = n
         /\ sec' = sec /\ head' = head /\ UNCHANGED <<answers, entries, data_size>>
         /\ Fine(sec, r) /\ Neat(sec, r) /\ \A x \in in_use : Held(sec, USED, x)
         /\ head \in Nat /\ DeadFrom(sec, head) /\ head * SECTION_SIZE <= data_size /\ SameLow(sec, sec')
         /\ Room(SPARE_SLOTS * (count - 1) + 2)'
<1>1. /\ pc = "idle" /\ call \in Calls /\ (head + SPARE_SLOTS * n) * SECTION_SIZE <= data_size
      /\ pc' = call /\ selected' = pmm_sections /\ page' = p /\ count' = n
      /\ sec' = sec /\ head' = head /\ UNCHANGED <<answers, entries, data_size>>
  BY DEF Begin, mapVars, listVars
<1>2. Started
  BY <1>1 DEF Started
<1>3. /\ Fine(sec, r) /\ Neat(sec, r) /\ \A x \in in_use : Held(sec, USED, x)
      /\ head \in Nat /\ DeadFrom(sec, head) /\ head * SECTION_SIZE <= data_size /\ data_size \in Nat
  BY <1>2, CallFacts DEF Fine
<1>4. (head + (SPARE_SLOTS * (n - 1) + 2)) * SECTION_SIZE <= data_size
  BY <1>1, <1>3, RoomBegin
<1>5. Room(SPARE_SLOTS * (count - 1) + 2)'
  BY <1>1, <1>4 DEF Room
<1>6. SameLow(sec, sec')
  BY <1>1 DEF SameLow
<1> QED
  BY <1>1, <1>2, <1>3, <1>5, <1>6

(* pmm_alloc_page is called. *)
LEMMA AllocPageStep ==
  ASSUME NEW r, IInv(r), AllocPage
  PROVE  IInv(r)'
<1>1. Begin("alloc", 0, 1) /\ in_use' = in_use
  BY DEF AllocPage
<1>2. /\ Started /\ pc' = "alloc" /\ pc' \in Calls \ {"dump"} /\ selected' = pmm_sections /\ count' = 1
      /\ sec' = sec /\ head' = head /\ UNCHANGED <<answers, entries, data_size>>
      /\ Fine(sec, r) /\ Neat(sec, r) /\ \A x \in in_use : Held(sec, USED, x)
      /\ head \in Nat /\ DeadFrom(sec, head) /\ head * SECTION_SIZE <= data_size /\ SameLow(sec, sec')
      /\ Room(SPARE_SLOTS * (count - 1) + 2)'
  BY <1>1, BeginFacts
<1>3. Room(2)'
  BY <1>2, NumberFacts DEF Room
<1>4. \A i \in Lives(sec) : ~(r[i] < r[pmm_sections])
  BY <1>2, SlotFacts DEF Neat, Ordered
<1>5. pmm_sections # NULL /\ pmm_sections \in Lives(sec)
  BY SlotFacts
<1>6. CallInv(r)'
  BY <1>1, <1>2, <1>3, <1>4, <1>5 DEF CallInv, Fine
<1> QED
  BY <1>2, <1>6, CallStep

(* pmm_unlock_pages is called. *)
LEMMA UnlockPagesStep ==
  ASSUME NEW r, IInv(r), NEW p \in in_use, NEW n \in PageCounts, UnlockPages(p, n)
  PROVE  IInv(r)'
<1>0. n \in Nat \ {0}
  BY PMMAssumption
<1>1. PageRun(p, n) \subseteq in_use /\ Begin("free", p, n) /\ in_use' = in_use \ PageRun(p, n)
  BY DEF UnlockPages
<1>2. /\ Started /\ pc' = "free" /\ pc' \in Calls \ {"dump"} /\ selected' = pmm_sections /\ page' = p /\ count' = n
      /\ sec' = sec /\ head' = head /\ UNCHANGED <<answers, entries, data_size>>
      /\ Fine(sec, r) /\ Neat(sec, r) /\ \A x \in in_use : Held(sec, USED, x)
      /\ head \in Nat /\ DeadFrom(sec, head) /\ head * SECTION_SIZE <= data_size /\ SameLow(sec, sec')
      /\ Room(SPARE_SLOTS * (count - 1) + 2)'
  BY <1>0, <1>1, BeginFacts
<1>3. Held(sec, USED, p)
  BY <1>2
<1>4. p \in Nat
  BY <1>2, <1>3, WithinRange, SlotFacts DEF Held, Neat, Typed
<1>5. Due(sec, USED, p, n)
  <2>1. \A k \in 1 .. n - 1 : k \in 0 .. n - 1
    BY <1>0
  <2>2. \A k \in 0 .. n - 1 : p + k * PAGE_SIZE \in in_use
    BY Zenon, <1>1, RunPages
  <2> QED
    BY <1>0, <1>2, <1>4, <2>1, <2>2 DEF Due
<1>6. Seeking(sec, r, pmm_sections, USED, p)
  BY <1>2, <1>3, SeekFromFirst
<1>7. FreeInv(r)'
  BY <1>1, <1>2, <1>5, <1>6 DEF FreeInv
<1>8. CallInv(r)'
  BY <1>1, <1>2, <1>7, SlotFacts DEF CallInv, Fine
<1> QED
  BY <1>2, <1>8, CallStep

(* pmm_lock_pages is called. *)
LEMMA LockPagesStep ==
  ASSUME NEW r, IInv(r), NEW p \in FreePages, NEW n \in PageCounts, LockPages(p, n)
  PROVE  IInv(r)'
<1>0. n \in Nat \ {0}
  BY PMMAssumption
<1>1. PageRun(p, n) \subseteq FreePages /\ Begin("lock", p, n) /\ in_use' = in_use
  BY DEF LockPages
<1>2. /\ Started /\ pc' = "lock" /\ pc' \in Calls \ {"dump"} /\ selected' = pmm_sections /\ page' = p /\ count' = n
      /\ sec' = sec /\ head' = head /\ UNCHANGED <<answers, entries, data_size>>
      /\ Fine(sec, r) /\ Neat(sec, r) /\ \A x \in in_use : Held(sec, USED, x)
      /\ head \in Nat /\ DeadFrom(sec, head) /\ head * SECTION_SIZE <= data_size /\ SameLow(sec, sec')
      /\ Room(SPARE_SLOTS * (count - 1) + 2)'
  BY <1>0, <1>1, BeginFacts
<1>3. \A x : x \in FreePages <=> Held(sec, FREE, x)
  BY <1>2, FreeHeld
<1>4. p \in Nat /\ Held(sec, FREE, p)
  BY <1>2, <1>3, WithinRange, SlotFacts DEF Held, Neat, Typed
<1>5. Due(sec, FREE, p, n)
  <2>1. \A k \in 1 .. n - 1 : k \in 0 .. n - 1
    BY <1>0
  <2>2. \A k \in 0 .. n - 1 : p + k * PAGE_SIZE \in FreePages
    BY Zenon, <1>1, RunPages
  <2> QED
    BY <1>0, <1>3, <1>4, <2>1, <2>2 DEF Due
<1>6. Seeking(sec, r, pmm_sections, FREE, p)
  BY <1>2, <1>4, SeekFromFirst
<1>7. LockInv(r)'
  BY <1>2, <1>5, <1>6 DEF LockInv
<1>8. CallInv(r)'
  BY <1>1, <1>2, <1>7, SlotFacts DEF CallInv, Fine
<1> QED
  BY <1>2, <1>8, CallStep

(* pmm_dump changes nothing of the list. *)
LEMMA PmmDumpStep ==
  ASSUME NEW r, IInv(r), PmmDump
  PROVE  IInv(r)'
BY CallFacts, CallStep DEF PmmDump, mapVars, listVars, historyVars, Started, IInv, CallInv, SameLow

(* Every step of a call. *)
LEMMA CallSteps ==
  ASSUME NEW r, IInv(r),
         \/ AllocTurn \/ FreeTurn \/ LockTurn \/ AllocPage \/ PmmDump
         \/ \E p \in in_use, n \in PageCounts : UnlockPages(p, n)
         \/ \E p \in FreePages, n \in PageCounts : LockPages(p, n)
  PROVE  \E q : IInv(q)'
<1>1. CASE AllocTurn
  BY <1>1, AllocUnlinkStep, AllocSkipStep, AllocTakeStep, AllocNoneStep DEF AllocTurn
<1>2. CASE FreeTurn
  BY <1>2, FreeAgainStep, FreeSingleStep, FreeFirstStep, FreeLastStep, FreeSkipStep DEF FreeTurn
<1>3. CASE LockTurn
  BY <1>3, LockAgainStep, LockSingleStep, LockFirstStep, LockLastStep, LockMiddleStep, LockSkipStep DEF LockTurn
<1>4. CASE AllocPage \/ PmmDump
  BY <1>4, AllocPageStep, PmmDumpStep
<1>5. CASE \E p \in in_use, n \in PageCounts : UnlockPages(p, n)
  BY <1>5, UnlockPagesStep
<1>6. CASE \E p \in FreePages, n \in PageCounts : LockPages(p, n)
  BY <1>6, LockPagesStep
<1> QED
  BY <1>1, <1>2, <1>3, <1>4, <1>5, <1>6

-----------------------------------------------------------------------------
(* pmm_start builds the list. *)

(* A list whose sections have pages, r being places far enough apart. *)
Strung(s, r) == Typed(s) /\ Wired(s) /\ Ordered(s, r) /\ Counted(s, r)

(* n is a new section behind t, at place v. *)
Inserted(s, new, r, t, n, v) ==
  /\ new \in [Slots -> Section] /\ LinksIn(s, new, t, n)
  /\ \A x \in Slots \ {n} : SameBody(s, new, x)
  /\ new[n].pages # 0 /\ new[n].free \in {USED, FREE, BAD}
  /\ v \in Nat /\ r[t] + s[t].pages <= v
  /\ s[t].next # NULL => v + new[n].pages <= r[s[t].next]

(* The order with slot n at place v. *)
Place(r, n, v) == [r EXCEPT ![n] = v]

(* The list has slot n too, at place v of the order. *)
HasInserted(s, new, r, q, n, v) ==
  /\ Strung(new, q) /\ Lives(new) = Lives(s) \cup {n}
  /\ \A i \in Real : q[i] = IF i = n THEN v ELSE r[i]

(* Linking a slot between two others, or behind the last, makes a list       *)
(* again.                                                                    *)
LEMMA InsertedStrung ==
  ASSUME NEW s, NEW new, NEW r, NEW t \in Lives(s), NEW n \in Real \ Lives(s), NEW v,
         Strung(s, r), Inserted(s, new, r, t, n, v)
  PROVE  HasInserted(s, new, r, Place(r, n, v), n, v)
<1> DEFINE q == Place(r, n, v)
           next == s[t].next
<1>1. /\ s \in [Slots -> Section] /\ Wired(s) /\ Ordered(s, r) /\ Counted(s, r)
      /\ new \in [Slots -> Section] /\ LinksIn(s, new, t, n) /\ v \in Nat
      /\ r[t] + s[t].pages <= v /\ (next # NULL => v + new[n].pages <= r[next])
      /\ new[n].pages # 0 /\ \A x \in Slots \ {n} : SameBody(s, new, x)
  BY DEF Strung, Typed, Inserted
<1>2. /\ Real \subseteq Slots /\ Lives(s) \subseteq Real /\ NULL \notin Real /\ NULL \in Slots
      /\ pmm_sections \in Lives(s) /\ n \in Real /\ n # NULL
  BY SlotFacts
<1>3. r \in [Real -> Nat]
  BY <1>1 DEF Ordered
<1>4. q \in [Real -> Nat] /\ \A i \in Real : q[i] = IF i = n THEN v ELSE r[i]
  BY <1>1, <1>3 DEF Place
<1> HIDE DEF q
<1>5. \A i \in Slots : s[i].pages \in Nat /\ new[i].pages \in Nat
  BY <1>1, NeatNumbers
<1>6. next # NULL => next \in Lives(s) /\ s[next].prev = t
  BY <1>1 DEF Wired
<1>7. \A i \in Lives(s) : q[i] = r[i] /\ r[i] \in Nat /\ i # n
  BY <1>2, <1>3, <1>4
<1>8. q[n] = v
  BY <1>4
<1>9. r[t] < v
  <2>1. s[t].pages # 0 /\ s[t].pages \in Nat /\ r[t] \in Nat
    BY <1>1, <1>2, <1>5, <1>7 DEF Counted
  <2> QED
    BY <2>1, <1>1
<1>10. \A i \in Lives(s) : r[t] < r[i] => v < r[i]
  <2> SUFFICES ASSUME NEW i \in Lives(s), r[t] < r[i]
               PROVE  v < r[i]
    OBVIOUS
  <2>1. next # NULL
    BY <1>1, <1>7 DEF Ordered
  <2>2. r[next] <= r[i]
    BY <2>1, <1>1, <1>7 DEF Ordered
  <2> QED
    BY <2>1, <2>2, <1>1, <1>2, <1>5, <1>6, <1>7
<1>11. Extends(s, r, q, t, n)
  BY <1>4, <1>7, <1>8, <1>9, <1>10 DEF Extends
<1>12. Lives(new) = Lives(s) \cup {n} /\ Wired(new) /\ Ordered(new, q)
  BY <1>1, <1>11, LinkedInWires, LinkedInOrder
<1>13. Typed(new)
  <2>1. new[NULL].free = s[NULL].free
    BY <1>1, <1>2 DEF SameBody
  <2>2. \A i \in Real : new[i].free \in {USED, FREE, BAD}
    BY <1>1, <1>2 DEF SameBody, Strung, Typed, Inserted
  <2>3. new[pmm_sections].free = BAD
    BY <1>1, <1>2 DEF SameBody, Strung, Typed
  <2> QED
    BY <1>1, <2>1, <2>2, <2>3 DEF Strung, Typed
<1>14. Counted(new, q)
  <2>1. \A i \in Lives(new) : new[i].pages # 0
    BY <1>1, <1>2, <1>12 DEF SameBody, Counted
  <2>2. ASSUME NEW i \in Lives(new), new[i].next # NULL
        PROVE  q[i] + new[i].pages <= q[new[i].next]
    <3>1. CASE i = n
      <4>1. new[n].next = next
        BY <1>1 DEF LinksIn
      <4> QED
        BY <4>1, <3>1, <2>2, <1>1, <1>6, <1>7, <1>8
    <3>2. CASE i # n
      <4>1. i \in Lives(s) /\ new[i].pages = s[i].pages
        BY <3>2, <1>1, <1>2, <1>12 DEF SameBody
      <4>2. new[i].next = IF i = t THEN n ELSE s[i].next
        BY <3>2, <4>1, <1>1, <1>2 DEF LinksIn
      <4>3. CASE i = t
        BY <4>1, <4>2, <4>3, <1>1, <1>7, <1>8
      <4>4. CASE i # t
        <5>1. s[i].next \in Lives(s) /\ r[i] + s[i].pages <= r[s[i].next]
          BY <4>1, <4>2, <4>4, <2>2, <1>1 DEF Wired, Counted
        <5> QED
          BY <5>1, <4>1, <4>2, <4>4, <1>7
      <4> QED
        BY <4>3, <4>4
    <3> QED
      BY <3>1, <3>2
  <2> QED
    BY <2>1, <2>2 DEF Counted
<1> QED
  BY <1>4, <1>12, <1>13, <1>14 DEF Strung, q, HasInserted

(* The numbers of pages of the entries, and of the gaps between them. *)
LEMMA PagesRange ==
  ASSUME NEW x \in 1 .. W - 1
  PROVE  Pages(x) \in 1 .. M
<1> DEFINE a == x \div PAGE_SIZE
           b == x % PAGE_SIZE
           c == W \div PAGE_SIZE
           d == W % PAGE_SIZE
<1>1. /\ a \in Int /\ b \in 0 .. PAGE_SIZE - 1 /\ x = b + PAGE_SIZE * a /\ PAGE_SIZE * a \in Int
      /\ c \in Int /\ d \in 0 .. PAGE_SIZE - 1 /\ W = d + PAGE_SIZE * c /\ PAGE_SIZE * c \in Int
  BY NumberFacts, DivMod
<1>2. Pages(x) = a + (IF b # 0 THEN 1 ELSE 0) /\ M = c + 1
  BY DEF Pages, M
<1> HIDE DEF a, b, c, d
<1>3. ~(c < a)
  <2> SUFFICES ASSUME c < a PROVE FALSE
    OBVIOUS
  <2>1. PAGE_SIZE * c + PAGE_SIZE <= PAGE_SIZE * a
    BY <1>1, NumberFacts, TimesOrder
  <2> QED
    BY <2>1, <1>1, NumberFacts
<1>4. ~(a < 0)
  <2> SUFFICES ASSUME a < 0 PROVE FALSE
    OBVIOUS
  <2>1. PAGE_SIZE * a + PAGE_SIZE <= PAGE_SIZE * 0 /\ PAGE_SIZE * 0 = 0
    BY <1>1, NumberFacts, TimesOrder
  <2> QED
    BY <2>1, <1>1, NumberFacts
<1>5. a = 0 => b # 0
  <2> SUFFICES ASSUME a = 0 PROVE b # 0
    OBVIOUS
  <2>1. PAGE_SIZE * a = 0
    BY NumberFacts
  <2> QED
    BY <2>1, <1>1, NumberFacts
<1> QED
  BY <1>1, <1>2, <1>3, <1>4, <1>5

(* The number of entries, and with it the number of pages in the list. *)
LEMMA PlacesFit ==
  ASSUME NEW list, NEW low, Describable(list, low)
  PROVE  /\ Len(list) \in Nat \ {0} /\ M \in Nat \ {0} /\ M < W
         /\ \A h \in Nat : h <= 2 * Len(list) - 1 => M * h \in Nat /\ M * h < W
<1> DEFINE l == Len(list)
<1>1. l \in Nat \ {0} /\ 2 * l * M <= W
  BY DEF Describable, M
<1> HIDE DEF l
<1>2. M \in Nat \ {0}
  <2>1. W \in 1 .. W /\ W \div PAGE_SIZE \in Int
    BY NumberFacts
  <2>2. W \div PAGE_SIZE >= 0
    <3> DEFINE c == W \div PAGE_SIZE
               d == W % PAGE_SIZE
    <3>1. c \in Int /\ d \in 0 .. PAGE_SIZE - 1 /\ W = d + PAGE_SIZE * c /\ PAGE_SIZE * c \in Int
      BY NumberFacts, DivMod
    <3> HIDE DEF c, d
    <3>2. ~(c < 0)
      <4> SUFFICES ASSUME c < 0 PROVE FALSE
        OBVIOUS
      <4>1. PAGE_SIZE * c + PAGE_SIZE <= PAGE_SIZE * 0 /\ PAGE_SIZE * 0 = 0
        BY <3>1, NumberFacts, TimesOrder
      <4> QED
        BY <4>1, <3>1, NumberFacts
    <3> QED
      BY <3>1, <3>2 DEF c
  <2> QED
    BY <2>1, <2>2 DEF M
<1>3. 2 * l * M = M * (2 * l) /\ M * (2 * l) \in Nat
  BY <1>1, <1>2
<1>4. \A h \in Nat : h <= 2 * l - 1 => M * h \in Nat /\ M * h < W
  <2> SUFFICES ASSUME NEW h \in Nat, h <= 2 * l - 1
               PROVE  M * h \in Nat /\ M * h < W
    OBVIOUS
  <2>1. M * h + M <= M * (2 * l)
    <3>1. 2 * l \in Int /\ h < 2 * l
      BY <1>1
    <3> QED
      BY <3>1, <1>2, TimesOrder
  <2>2. M * h \in Nat
    BY <1>2
  <2> QED
    BY <2>1, <2>2, <1>1, <1>2, <1>3, NumberFacts
<1>5. M < W
  <2>1. M * 1 < W /\ M * 1 = M
    <3>1. 1 <= 2 * l - 1 /\ 1 \in Nat
      BY <1>1
    <3> QED
      BY <3>1, <1>2, <1>4
  <2> QED
    BY <2>1
<1> QED
  BY <1>1, <1>2, <1>4, <1>5 DEF l

(* Behind the last section t, a new section n, with or without another, f,   *)
(* between them.  The places up to M * h are taken, and then up to M * k.    *)
Extended(s, new, q, r, t, f, n, h, k) ==
  /\ Lives(new) = Lives(s) \cup {f, n} /\ f \in Real \ Lives(s) /\ n \in Real \ Lives(s)
  /\ SameLow(s, new)
  /\ \A i \in Lives(s) : /\ q[i] = r[i] /\ SameBody(s, new, i) /\ new[i].prev = s[i].prev
                         /\ i # t => new[i].next = s[i].next
  /\ new[t].next = f /\ new[f].prev = t /\ new[n].next = NULL
  /\ f # n => new[f].next = n /\ new[n].prev = f /\ new[f].free = BAD /\ q[f] < q[n]
  /\ \A x \in {f, n} : M * h <= q[x] /\ q[x] + new[x].pages <= M * k
  /\ h \in Nat /\ k \in Nat /\ h <= k

(* The new last section n starts at b and ends by e, and the section f       *)
(* behind t (n, or the filled gap) starts where t ends, if t is good.        *)
Meets(s, new, t, f, n, b, e) ==
  /\ new[n].start = b
  /\ Plain(new, n) => EndOf(new, n) <= s[NULL].start /\ EndOf(new, n) <= e
  /\ Plain(s, t) => new[f].start = EndOf(s, t) /\ (f # n => new[f].start < b)

(* A built list with one or two sections more is built. *)
LEMMA ExtendedBuilt ==
  ASSUME NEW s, NEW new, NEW r, NEW q, NEW t, NEW f, NEW n, NEW h, NEW k,
         NEW a \in Nat, NEW b \in Nat, NEW e,
         Built(s, r, h), AtEnd(s, t, a, b), a < b, Strung(new, q),
         Extended(s, new, q, r, t, f, n, h, k),
         Meets(s, new, t, f, n, b, e),
         M \in Nat
  PROVE  Built(new, q, k) /\ AtEnd(new, n, b, e)
<1>0. /\ new[n].start = b
      /\ Plain(new, n) => EndOf(new, n) <= s[NULL].start /\ EndOf(new, n) <= e
      /\ Plain(s, t) => new[f].start = EndOf(s, t) /\ (f # n => new[f].start < b)
  BY DEF Meets
<1>1. /\ s \in [Slots -> Section] /\ Typed(s) /\ Wired(s) /\ Ordered(s, r) /\ Counted(s, r) /\ Rising(s, r) /\ Close(s)
      /\ \A i \in Lives(s) : r[i] + s[i].pages <= M * h
  BY DEF Built, Draft, Typed
<1>2. new \in [Slots -> Section] /\ Typed(new) /\ Wired(new) /\ Ordered(new, q) /\ Counted(new, q)
  BY DEF Strung, Typed
<1>3. /\ t \in Lives(s) /\ s[t].next = NULL /\ s[t].start = a
      /\ (\A i \in Lives(s) : Firm(s, i) => s[i].start <= a)
      /\ (Plain(s, t) => EndOf(s, t) <= b)
  BY DEF AtEnd
<1>4. /\ Real \subseteq Slots /\ Lives(s) \subseteq Real /\ NULL \notin Real /\ NULL \in Slots
      /\ pmm_sections \in Lives(s) /\ Lives(new) \subseteq Real
  BY SlotFacts
<1>5. /\ Lives(new) = Lives(s) \cup {f, n} /\ f \in Real \ Lives(s) /\ n \in Real \ Lives(s)
      /\ new[NULL].start = s[NULL].start
      /\ (\A i \in Lives(s) : /\ q[i] = r[i] /\ new[i].prev = s[i].prev /\ new[i].start = s[i].start
                              /\ new[i].pages = s[i].pages /\ new[i].free = s[i].free
                              /\ (i # t => new[i].next = s[i].next))
      /\ new[t].next = f /\ new[f].prev = t /\ new[n].next = NULL
      /\ (f # n => new[f].next = n /\ new[n].prev = f /\ new[f].free = BAD /\ q[f] < q[n])
      /\ (\A x \in {f, n} : M * h <= q[x] /\ q[x] + new[x].pages <= M * k)
      /\ h \in Nat /\ k \in Nat /\ h <= k
  BY DEF Extended, SameLow, SameBody
<1>6. /\ (\A i \in Lives(s) : r[i] \in Nat /\ s[i].pages \in Nat /\ s[i].pages # 0 /\ s[i].start \in Nat)
      /\ (\A i \in Lives(new) : q[i] \in Nat)
  BY <1>1, <1>2, <1>4, NeatNumbers DEF Ordered, Counted
<1>7. \A i \in Lives(s) : Plain(new, i) = Plain(s, i) /\ EndOf(new, i) = EndOf(s, i)
  BY <1>5 DEF Plain, EndOf
<1>8. \A i \in Lives(s) : Firm(new, i) => Firm(s, i)
  <2> SUFFICES ASSUME NEW i \in Lives(s), Firm(new, i)
               PROVE  Firm(s, i)
    OBVIOUS
  <2>1. i = pmm_sections \/ s[i].prev \in Lives(s)
    BY <1>1 DEF Wired, Lives
  <2> QED
    BY <2>1, <1>5, <1>7 DEF Firm
<1>9. f # n => ~Plain(new, f)
  BY <1>5 DEF Plain, USED, FREE, BAD
<1>10. f # n /\ Firm(new, f) => Plain(s, t)
  <2>1. f # pmm_sections
    BY <1>4, <1>5
  <2> QED
    BY <2>1, <1>3, <1>5, <1>7, <1>9 DEF Firm
<1>11. Plain(s, t) => new[f].start > a
  <2>1. s[t].pages # 0 => s[t].start < EndOf(s, t)
    BY <1>1, <1>3, <1>4, FieldTypes
  <2> QED
    BY <2>1, <1>0, <1>1, <1>3, <1>4, <1>6, NeatNumbers
<1>12. \A i \in Lives(s), x \in {f, n} : q[i] < q[x]
  BY <1>1, <1>5, <1>6
<1>13. Rising(new, q)
  <2> SUFFICES ASSUME NEW i \in Lives(new), NEW j \in Lives(new), Firm(new, i), Firm(new, j), q[i] < q[j]
               PROVE  new[i].start < new[j].start
    BY DEF Rising
  <2>1. CASE i \in Lives(s) /\ j \in Lives(s)
    BY <2>1, <1>1, <1>5, <1>8 DEF Rising
  <2>2. CASE i \in Lives(s) /\ j \notin Lives(s)
    <3>1. new[i].start <= a /\ new[i].start \in Nat
      BY <2>2, <1>3, <1>5, <1>6, <1>8
    <3>2. CASE j = n
      BY <3>1, <3>2, <1>0
    <3>3. CASE j = f /\ f # n
      <4>1. new[f].start \in Nat /\ new[f].start > a
        BY <3>3, <1>2, <1>4, <1>0, <1>5, <1>10, <1>11, NeatNumbers
      <4> QED
        BY <4>1, <3>1, <3>3
    <3> QED
      BY <3>2, <3>3, <2>2, <1>5
  <2>3. CASE i \notin Lives(s) /\ j \in Lives(s)
    BY <2>3, <1>5, <1>6, <1>12
  <2>4. CASE i \notin Lives(s) /\ j \notin Lives(s)
    BY <2>4, <1>0, <1>5, <1>6, <1>10
  <2> QED
    BY <2>1, <2>2, <2>3, <2>4
<1>14. Close(new)
  <2> SUFFICES ASSUME NEW i \in Lives(new), Plain(new, i)
               PROVE  /\ EndOf(new, i) <= new[NULL].start
                      /\ new[i].next # NULL => EndOf(new, i) = new[new[i].next].start
    BY DEF Close
  <2>1. CASE i = n
    BY <2>1, <1>0, <1>5
  <2>2. CASE i = t
    <3>1. t # n /\ t # f
      BY <1>3, <1>5
    <3> QED
      BY <2>2, <3>1, <1>0, <1>1, <1>3, <1>5, <1>7 DEF Close
  <2>3. CASE i \in Lives(s) /\ i # t
    <3>1. EndOf(s, i) <= s[NULL].start /\ (s[i].next # NULL => EndOf(s, i) = s[s[i].next].start /\ s[i].next \in Lives(s))
      BY <2>3, <1>1, <1>7 DEF Close, Wired
    <3> QED
      BY <2>3, <3>1, <1>5, <1>7
  <2> QED
    BY <2>1, <2>2, <2>3, <1>5, <1>9
<1>15. \A i \in Lives(new) : q[i] + new[i].pages <= M * k
  <2>1. M * h <= M * k /\ M * h \in Nat /\ M * k \in Nat
    <3>1. CASE h = k
      BY <3>1, <1>5
    <3>2. CASE h < k
      BY <3>2, <1>5, TimesOrder
    <3> QED
      BY <3>1, <3>2, <1>5
  <2> QED
    BY <2>1, <1>1, <1>5, <1>6
<1>16. AtEnd(new, n, b, e)
  <2>1. \A i \in Lives(new) : Firm(new, i) => new[i].start <= b
    <3> SUFFICES ASSUME NEW i \in Lives(new), Firm(new, i)
                 PROVE  new[i].start <= b
      OBVIOUS
    <3>1. CASE i \in Lives(s)
      BY <3>1, <1>3, <1>5, <1>6, <1>8
    <3>2. CASE i = n
      BY <3>2, <1>0
    <3>3. CASE i = f /\ f # n
      <4>1. new[f].start \in Nat /\ new[f].start < b
        BY <3>3, <1>2, <1>0, <1>4, <1>5, <1>10, NeatNumbers
      <4> QED
        BY <4>1, <3>3
    <3> QED
      BY <3>1, <3>2, <3>3, <1>5
  <2> QED
    BY <2>1, <1>0, <1>5 DEF AtEnd
<1> QED
  BY <1>2, <1>13, <1>14, <1>15, <1>16 DEF Built, Draft

(* Writes to the fields of a new section. *)
AppendFields(s, t, n, start, pages, free) ==
  [s EXCEPT ![t].next = n,
            ![n] = [prev |-> t, next |-> NULL, start |-> start, pages |-> pages, free |-> free]]

(* The assignments of FillGap to the table. *)
GapFields(s, t, g, n, start, pages) ==
  [s EXCEPT ![t].next = g,
            ![g] = [prev |-> t, next |-> n, start |-> start, pages |-> pages, free |-> BAD],
            ![n].prev = g]

(* A whole section is assigned. *)
SetAll(s, i, v) == [s EXCEPT ![i] = v]

(* What that does. *)
LEMMA SetAllDoes ==
  ASSUME NEW s \in [Slots -> Section], NEW i \in Slots, NEW v \in Section
  PROVE  LET new == SetAll(s, i, v)
         IN  /\ new \in [Slots -> Section] /\ \A j \in Slots \ {i} : new[j] = s[j]
             /\ new[i] = v
BY DEF SetAll

(* n is a section behind t. *)
Appended(s, new, t, n, start, pages, free) ==
  /\ new \in [Slots -> Section]
  /\ \A i \in Slots \ {t, n} : new[i] = s[i]
  /\ new[t].prev = s[t].prev /\ new[t].next = n /\ SameBody(s, new, t)
  /\ new[n].prev = t /\ new[n].next = NULL
  /\ new[n].start = start /\ new[n].pages = pages /\ new[n].free = free

(* The assignments of AppendEntry do that. *)
LEMMA AppendFieldsDo ==
  ASSUME NEW s \in [Slots -> Section], NEW t \in Real, NEW n \in Real, t # n,
         NEW start \in 0 .. W - 1, NEW pages \in 0 .. W - 1, NEW free \in 0 .. W - 1
  PROVE  Appended(s, AppendFields(s, t, n, start, pages, free), t, n, start, pages, free)
<1> DEFINE v == [prev |-> t, next |-> NULL, start |-> start, pages |-> pages, free |-> free]
           x == SetNext(s, t, n)
           new == AppendFields(s, t, n, start, pages, free)
<1>1. new = SetAll(x, n, v)
  BY Zenon DEF AppendFields, SetAll, SetNext
<1>2. t \in Slots /\ n \in Slots /\ NULL \in Slots
  BY SlotFacts
<1>3. /\ v \in Section /\ v.prev = t /\ v.next = NULL /\ v.start = start /\ v.pages = pages /\ v.free = free
  BY <1>2 DEF Section
<1>4. /\ x \in [Slots -> Section] /\ (\A j \in Slots \ {t} : x[j] = s[j])
      /\ x[t].next = n /\ x[t].prev = s[t].prev /\ SameBody(s, x, t)
  BY Zenon, <1>2, SetNextDoes
<1>5. /\ SetAll(x, n, v) \in [Slots -> Section] /\ (\A j \in Slots \ {n} : SetAll(x, n, v)[j] = x[j])
      /\ SetAll(x, n, v)[n] = v
  BY Zenon, <1>2, <1>3, <1>4, SetAllDoes
<1> HIDE DEF x, v, new
<1>6. /\ new \in [Slots -> Section] /\ (\A j \in Slots \ {n} : new[j] = x[j]) /\ new[n] = v
  BY Zenon, <1>1, <1>5
<1>7. \A i \in Slots \ {t, n} : new[i] = s[i]
  BY <1>4, <1>6
<1>8. new[t].prev = s[t].prev /\ new[t].next = n /\ SameBody(s, new, t)
  BY <1>2, <1>4, <1>6 DEF SameBody
<1>9. /\ new[n].prev = t /\ new[n].next = NULL
      /\ new[n].start = start /\ new[n].pages = pages /\ new[n].free = free
  BY <1>3, <1>6
<1> QED
  BY Zenon, <1>6, <1>7, <1>8, <1>9 DEF new, Appended

(* g is a bad section between t and n. *)
Gapped(s, new, t, g, n, start, pages) ==
  /\ new \in [Slots -> Section]
  /\ \A i \in Slots \ {t, g, n} : new[i] = s[i]
  /\ new[t].prev = s[t].prev /\ new[t].next = g /\ SameBody(s, new, t)
  /\ new[n].prev = g /\ new[n].next = s[n].next /\ SameBody(s, new, n)
  /\ new[g].prev = t /\ new[g].next = n
  /\ new[g].start = start /\ new[g].pages = pages /\ new[g].free = BAD

(* The assignments of FillGap do that. *)
LEMMA GapFieldsDo ==
  ASSUME NEW s \in [Slots -> Section], NEW t \in Real, NEW g \in Real, NEW n \in Real,
         t # g, t # n, g # n, BAD \in 0 .. W - 1, NEW start \in 0 .. W - 1, NEW pages \in 0 .. W - 1
  PROVE  Gapped(s, GapFields(s, t, g, n, start, pages), t, g, n, start, pages)
<1> DEFINE v == [prev |-> t, next |-> n, start |-> start, pages |-> pages, free |-> BAD]
           x == SetNext(s, t, g)
           y == SetAll(x, g, v)
           z == SetPrev(y, n, g)
           new == GapFields(s, t, g, n, start, pages)
<1>1. new = z
  BY Zenon DEF GapFields, SetAll, SetNext, SetPrev
<1>2. t \in Slots /\ n \in Slots /\ g \in Slots
  BY SlotFacts
<1>3. /\ (BAD \in 0 .. W - 1 => v \in Section)
      /\ v.prev = t /\ v.next = n /\ v.start = start /\ v.pages = pages /\ v.free = BAD
  BY <1>2 DEF Section
<1>4. /\ x \in [Slots -> Section] /\ (\A j \in Slots \ {t} : x[j] = s[j])
      /\ x[t].next = g /\ x[t].prev = s[t].prev /\ SameBody(s, x, t)
  BY Zenon, <1>2, SetNextDoes
<1>5. /\ y \in [Slots -> Section] /\ (\A j \in Slots \ {g} : y[j] = x[j])
      /\ y[g] = v
  BY Zenon, <1>2, <1>3, <1>4, SetAllDoes
<1>6. /\ z \in [Slots -> Section] /\ (\A j \in Slots \ {n} : z[j] = y[j])
      /\ z[n].prev = g /\ z[n].next = y[n].next /\ SameBody(y, z, n)
  BY Zenon, <1>2, <1>5, SetPrevDoes
<1> HIDE DEF x, y, z, v, new
<1>7. \A i \in Slots \ {t, g, n} : new[i] = s[i]
  BY <1>1, <1>4, <1>5, <1>6
<1>8. new[t].prev = s[t].prev /\ new[t].next = g /\ SameBody(s, new, t)
  <2>1. new[t] = y[t] /\ y[t] = x[t]
    BY <1>1, <1>2, <1>5, <1>6
  <2> QED
    BY <2>1, <1>4 DEF SameBody
<1>9. new[n].prev = g /\ new[n].next = s[n].next /\ SameBody(s, new, n)
  <2>1. y[n] = s[n]
    BY <1>2, <1>4, <1>5
  <2> QED
    BY <2>1, <1>1, <1>6 DEF SameBody
<1>10. /\ new[g].prev = t /\ new[g].next = n
       /\ new[g].start = start /\ new[g].pages = pages /\ new[g].free = BAD
  <2>1. new[g] = v
    BY <1>1, <1>2, <1>5, <1>6
  <2> QED
    BY <2>1, <1>3
<1>11. new \in [Slots -> Section]
  BY <1>1, <1>6
<1> QED
  BY Zenon, <1>7, <1>8, <1>9, <1>10, <1>11 DEF new, Gapped

(* The kinds that entries get. *)
LEMMA InterpretedKind ==
  ASSUME NEW type
  PROVE  InterpretSignal(type) \in {USED, FREE, BAD}
BY DEF InterpretSignal

(* An entry becomes the last section. *)
EntryAppended(m, s, t, entry, x) ==
  /\ m.head \in Real \ Lives(s)
  /\ x.head = m.head + 1 /\ x.slot = m.head
  /\ x.sec = AppendFields(s, t, m.head, entry.base, Pages(entry.length), InterpretSignal(entry.type))

(* AppendEntry takes the next slot. *)
LEMMA AppendEntryDoes ==
  ASSUME NEW m, NEW s, NEW t, NEW entry, Ready(m, s, 1), Wired(s)
  PROVE  EntryAppended(m, s, t, entry, AppendEntry(m, t, entry))
<1>1. /\ m.sec = s /\ m.head \in Nat /\ DeadFrom(m.sec, m.head) /\ Wired(m.sec)
      /\ (m.head + 1) * SECTION_SIZE <= data_size /\ data_size \in Nat /\ data_size <= MAX_SLOTS * SECTION_SIZE
  BY DEF Ready
<1>2. m.head \in Real \ Lives(s) /\ NewSection(m).slot = m.head /\ NewSection(m).head = m.head + 1
  <2>1. PICK size \in Nat : data_size = size
    BY <1>1
  <2> QED
    BY <2>1, <1>1, NewSlot
<1>3. AppendEntry(m, t, entry) =
        [head |-> m.head + 1, slot |-> m.head,
         sec |-> AppendFields(s, t, m.head, entry.base, Pages(entry.length), InterpretSignal(entry.type))]
  BY Zenon, <1>1, <1>2 DEF AppendEntry, AppendFields
<1> DEFINE y == AppendFields(s, t, m.head, entry.base, Pages(entry.length), InterpretSignal(entry.type))
           z == [head |-> m.head + 1, slot |-> m.head, sec |-> y]
<1>4. z.head = m.head + 1 /\ z.slot = m.head /\ z.sec = y
  OBVIOUS
<1>5. AppendEntry(m, t, entry) = z
  BY <1>3
<1> HIDE DEF z, y
<1>6. /\ m.head \in Real \ Lives(s) /\ AppendEntry(m, t, entry).head = m.head + 1
      /\ AppendEntry(m, t, entry).slot = m.head /\ AppendEntry(m, t, entry).sec = y
  BY Zenon, <1>2, <1>4, <1>5
<1> QED
  BY Zenon, <1>6 DEF y, EntryAppended

(* A gap becomes a bad section. *)
GapFilled(m, s, t, n, x) ==
  /\ m.head \in Real \ Lives(s)
  /\ x.head = m.head + 1
  /\ x.sec = GapFields(s, t, m.head, n, End(s[t]), Pages((s[n].start - End(s[t])) % W))

(* So does FillGap. *)
LEMMA FillGapDoes ==
  ASSUME NEW m, NEW s, NEW t, NEW n, Ready(m, s, 1), Wired(s)
  PROVE  GapFilled(m, s, t, n, FillGap(m, t, n))
<1>1. /\ m.sec = s /\ m.head \in Nat /\ DeadFrom(m.sec, m.head) /\ Wired(m.sec)
      /\ (m.head + 1) * SECTION_SIZE <= data_size /\ data_size \in Nat /\ data_size <= MAX_SLOTS * SECTION_SIZE
  BY DEF Ready
<1>2. m.head \in Real \ Lives(s) /\ NewSection(m).slot = m.head /\ NewSection(m).head = m.head + 1
  <2>1. PICK size \in Nat : data_size = size
    BY <1>1
  <2> QED
    BY <2>1, <1>1, NewSlot
<1> DEFINE y == GapFields(s, t, m.head, n, End(s[t]), Pages((s[n].start - End(s[t])) % W))
           z == [head |-> m.head + 1, sec |-> y]
<1>3. FillGap(m, t, n) = z
  BY Zenon, <1>1, <1>2 DEF FillGap, GapFields
<1>4. z.head = m.head + 1 /\ z.sec = y
  OBVIOUS
<1> HIDE DEF z, y
<1>5. /\ m.head \in Real \ Lives(s) /\ FillGap(m, t, n).head = m.head + 1
      /\ FillGap(m, t, n).sec = y
  BY Zenon, <1>2, <1>3, <1>4
<1> QED
  BY Zenon, <1>5 DEF y, GapFilled

(* The list with the entry for a last section. *)
IsEntry(entry) == entry.base \in 0 .. W - 1 /\ entry.length \in 1 .. W - 1

(* The list has a section for the entry behind t, at place v. *)
EntryInserted(s, new, r, t, n, entry, v) ==
  /\ Inserted(s, new, r, t, n, v)
  /\ new[n].prev = t /\ new[n].next = NULL /\ new[n].start = entry.base
  /\ new[n].pages = Pages(entry.length) /\ new[n].pages \in 1 .. M
  /\ new[n].free = InterpretSignal(entry.type)
  /\ new[t].next = n /\ new[t].prev = s[t].prev /\ new[t].start = s[t].start /\ new[t].pages = s[t].pages
  /\ \A i \in Slots \ {t, n} : new[i] = s[i]

(* AppendEntry does that. *)
LEMMA AppendInserted ==
  ASSUME NEW s, NEW new, NEW r, NEW t \in Lives(s), NEW n \in Real \ Lives(s), NEW entry, NEW v \in Nat,
         Strung(s, r), s[t].next = NULL, r[t] + s[t].pages <= v, M \in Nat, M < W,
         IsEntry(entry),
         new = AppendFields(s, t, n, entry.base, Pages(entry.length), InterpretSignal(entry.type))
  PROVE  EntryInserted(s, new, r, t, n, entry, v)
<1>1. /\ Slots = Real \cup {NULL} /\ NULL \notin Real /\ t \in Real /\ n \in Real /\ t # n
      /\ pmm_sections \in Real
  BY SlotFacts
<1>2. s \in [Slots -> Section] /\ Wired(s)
  BY DEF Strung, Typed
<1>3. BAD \in 0 .. W - 1
  <2>1. s[pmm_sections].free \in 0 .. W - 1 /\ s[pmm_sections].free = BAD
    BY <1>1, <1>2, FieldTypes DEF Strung, Typed
  <2> QED
    BY <2>1
<1>4. InterpretSignal(entry.type) \in {USED, FREE, BAD}
  BY InterpretedKind
<1>5. InterpretSignal(entry.type) \in 0 .. W - 1
  BY <1>3, <1>4, NumberFacts DEF USED, FREE, BAD
<1>6. Pages(entry.length) \in 1 .. M /\ entry.base \in 0 .. W - 1
  BY PagesRange DEF IsEntry
<1>7. Pages(entry.length) \in 0 .. W - 1
  BY <1>6, NumberFacts
<1> DEFINE a == entry.base
           l == Pages(entry.length)
           f == InterpretSignal(entry.type)
           x == AppendFields(s, t, n, a, l, f)
<1>8. /\ new \in [Slots -> Section]
      /\ (\A i \in Slots \ {t, n} : new[i] = s[i])
      /\ new[t].prev = s[t].prev /\ new[t].next = n /\ SameBody(s, new, t)
      /\ new[n].prev = t /\ new[n].next = NULL
      /\ new[n].start = entry.base /\ new[n].pages = Pages(entry.length) /\ new[n].free = InterpretSignal(entry.type)
  <2>1. a \in 0 .. W - 1 /\ l \in 0 .. W - 1 /\ f \in 0 .. W - 1
    BY <1>5, <1>6, <1>7
  <2> HIDE DEF a, l, f
  <2>2. Appended(s, x, t, n, a, l, f)
    BY Zenon, <1>1, <1>2, <2>1, AppendFieldsDo
  <2>3. new = x
    BY DEF a, l, f
  <2> HIDE DEF x
  <2> QED
    BY <2>2, <2>3 DEF a, l, f, Appended
<1> HIDE DEF x
<1>9. LinksIn(s, new, t, n)
  BY <1>1, <1>8 DEF LinksIn
<1>10. \A i \in Slots \ {n} : SameBody(s, new, i)
  BY <1>8 DEF SameBody
<1>11. Inserted(s, new, r, t, n, v)
  BY <1>4, <1>6, <1>8, <1>9, <1>10 DEF Inserted
<1> QED
  BY <1>6, <1>8, <1>11 DEF SameBody, EntryInserted

(* The list with a bad section between the last two. *)
GapInside(s, new, r, t, g, n, v) ==
  /\ Inserted(s, new, r, t, g, v)
  /\ new[g].prev = t /\ new[g].next = n /\ new[g].start = End(s[t])
  /\ new[g].pages \in 1 .. M /\ new[g].free = BAD
  /\ new[t].next = g /\ new[t].prev = s[t].prev
  /\ new[n].prev = g /\ new[n].next = s[n].next
  /\ \A i \in Slots \ {t, g, n} : new[i] = s[i]

(* FillGap puts a section between the last two. *)
LEMMA GapInserted ==
  ASSUME NEW s, NEW new, NEW r, NEW t \in Lives(s), NEW g \in Real \ Lives(s), NEW n \in Lives(s),
         NEW v \in Nat, Strung(s, r), s[t].next = n, n # t, r[t] + s[t].pages <= v, v + M <= r[n],
         M \in Nat, M < W, s[n].start # End(s[t]),
         new = GapFields(s, t, g, n, End(s[t]), Pages((s[n].start - End(s[t])) % W))
  PROVE  GapInside(s, new, r, t, g, n, v)
<1>1. /\ Slots = Real \cup {NULL} /\ NULL \notin Real /\ t \in Real /\ n \in Real /\ g \in Real
      /\ t # g /\ n # g /\ pmm_sections \in Real
  BY SlotFacts
<1>2. s \in [Slots -> Section] /\ Wired(s)
  BY DEF Strung, Typed
<1>3. BAD \in 0 .. W - 1
  <2>1. s[pmm_sections].free \in 0 .. W - 1 /\ s[pmm_sections].free = BAD
    BY <1>1, <1>2, FieldTypes DEF Strung, Typed
  <2> QED
    BY <2>1
<1>4. End(s[t]) \in 0 .. W - 1
  <2>1. EndOf(s, t) \in Nat
    BY <1>1, <1>2, FieldTypes
  <2>2. EndOf(s, t) % W \in 0 .. W - 1
    BY <2>1, NumberFacts, DivMod
  <2> QED
    BY <2>2 DEF End, EndOf
<1>5. (s[n].start - End(s[t])) % W \in 1 .. W - 1
  <2> DEFINE a == s[n].start
             b == End(s[t])
             c == (a - b) % W
             d == (a - b) \div W
  <2>1. a \in 0 .. W - 1 /\ b \in 0 .. W - 1 /\ a # b
    BY <1>1, <1>2, <1>4, FieldTypes
  <2> HIDE DEF a, b
  <2>2. c \in 0 .. W - 1 /\ d \in Int /\ a - b = c + W * d /\ W * d \in Int
    BY <2>1, NumberFacts, DivMod
  <2> HIDE DEF c, d
  <2>3. c # 0
    <3> SUFFICES ASSUME c = 0 PROVE FALSE
      OBVIOUS
    <3>1. a - b = W * d
      BY <2>1, <2>2
    <3>2. CASE d < 0
      <4>1. W * d + W <= W * 0 /\ W * 0 = 0
        BY <3>2, <2>2, NumberFacts, TimesOrder
      <4> QED
        BY <4>1, <3>1, <2>1, <2>2, NumberFacts
    <3>3. CASE 0 < d
      <4>1. W * 0 + W <= W * d /\ W * 0 = 0
        BY <3>3, <2>2, NumberFacts, TimesOrder
      <4> QED
        BY <4>1, <3>1, <2>1, <2>2, NumberFacts
    <3>4. CASE d = 0
      <4>1. W * d = 0
        BY <3>4, NumberFacts
      <4> QED
        BY <4>1, <3>1, <2>1
    <3> QED
      BY <3>2, <3>3, <3>4, <2>2
  <2>4. c \in 1 .. W - 1
    BY <2>2, <2>3
  <2> QED
    BY <2>4 DEF a, b, c
<1> DEFINE l == (s[n].start - End(s[t])) % W
<1> HIDE DEF l
<1>6. Pages(l) \in 1 .. M
  BY <1>5, PagesRange DEF l
<1>7. Pages(l) \in 0 .. W - 1
  BY <1>6, NumberFacts
<1>8. /\ new \in [Slots -> Section]
      /\ (\A i \in Slots \ {t, g, n} : new[i] = s[i])
      /\ new[t].prev = s[t].prev /\ new[t].next = g /\ SameBody(s, new, t)
      /\ new[n].prev = g /\ new[n].next = s[n].next /\ SameBody(s, new, n)
      /\ new[g].prev = t /\ new[g].next = n
      /\ new[g].start = End(s[t]) /\ new[g].pages = Pages(l) /\ new[g].free = BAD
  <2> DEFINE a == End(s[t])
             p == Pages(l)
             x == GapFields(s, t, g, n, a, p)
  <2>1. a \in 0 .. W - 1 /\ p \in 0 .. W - 1
    BY <1>4, <1>7
  <2> HIDE DEF a, p
  <2>2. Gapped(s, x, t, g, n, a, p)
    BY Zenon, <1>1, <1>2, <1>3, <2>1, GapFieldsDo
  <2>3. new = x
    BY DEF a, p, l
  <2> HIDE DEF x
  <2> QED
    BY <2>2, <2>3 DEF a, p, Gapped
<1>9. LinksIn(s, new, t, g)
  BY <1>1, <1>8 DEF LinksIn
<1>10. \A x \in Slots \ {g} : SameBody(s, new, x)
  BY <1>8 DEF SameBody
<1>11. v + new[g].pages <= r[n]
  <2>1. r[n] \in Nat
    BY <1>1 DEF Strung, Ordered
  <2> QED
    BY <2>1, <1>6, <1>8
<1>12. Inserted(s, new, r, t, g, v)
  BY <1>6, <1>8, <1>9, <1>10, <1>11 DEF Inserted
<1> QED
  BY <1>6, <1>8, <1>12 DEF GapInside

-----------------------------------------------------------------------------
(* pmm_start adds the entries. *)

(* Places of new sections. *)
LEMMA PlaceSteps ==
  ASSUME NEW h \in Nat, M \in Nat
  PROVE  /\ M * h \in Nat /\ M * (h + 1) = M * h + M /\ M * (h + 2) = M * h + M + M
         /\ M * (h + 1) \in Nat /\ M * (h + 2) \in Nat
OBVIOUS

(* The last section ends where End says, as far as it is good. *)
LEMMA LastEnd ==
  ASSUME NEW s \in [Slots -> Section], NEW t \in Slots, EndOf(s, t) \in 0 .. W - 1
  PROVE  End(s[t]) = EndOf(s, t)
BY ModSmall DEF End, EndOf

(* The pages of an entry that a good section describes. *)
EntryPages(entry) == PageRun(entry.base, Pages(entry.length))

(* An entry adds no pages but its own to those of its kind. *)
EntryHeld(s, new, entry) ==
  \A p : Held(new, FREE, p) =>
    Held(s, FREE, p) \/ (InterpretSignal(entry.type) = FREE /\ p \in EntryPages(entry))

(* A list that has the sections of s with their pages, a section n for the   *)
(* entry, and apart from that only bad ones.                                 *)
LEMMA EntryAddsPages ==
  ASSUME NEW s, NEW new, NEW n, NEW entry,
         new[n].start = entry.base, new[n].pages = Pages(entry.length),
         new[n].free = InterpretSignal(entry.type),
         \A i \in Lives(new) \ {n} : (i \in Lives(s) /\ SameBody(s, new, i)) \/ new[i].free = BAD
  PROVE  EntryHeld(s, new, entry)
<1> SUFFICES ASSUME NEW p, Held(new, FREE, p)
             PROVE  Held(s, FREE, p) \/ (InterpretSignal(entry.type) = FREE /\ p \in EntryPages(entry))
  BY DEF EntryHeld
<1>1. PICK i \in Lives(new) : new[i].free = FREE /\ Within(new, i, p)
  BY DEF Held
<1>2. CASE i = n
  BY <1>1, <1>2 DEF Within, EntryPages
<1>3. CASE i # n
  <2>1. i \in Lives(s) /\ SameBody(s, new, i)
    BY <1>1, <1>3 DEF FREE, BAD
  <2> QED
    BY <1>1, <2>1 DEF Within, Held, SameBody
<1> QED
  BY <1>2, <1>3

(* What one entry makes of the list. *)
Entered(s, new, q, x, h, entry, e) ==
  /\ Built(new, q, h) /\ AtEnd(new, x, entry.base, e)
  /\ h \in Nat /\ DeadFrom(new, h) /\ SameLow(s, new) /\ EntryHeld(s, new, entry)

(* The entry fits into the list behind section t. *)
Fits(s, t, entry, e) ==
  /\ IsEntry(entry)
  /\ \/ InterpretSignal(entry.type) = BAD
     \/ LET end == entry.base + Pages(entry.length) * PAGE_SIZE
        IN  end <= s[NULL].start /\ end <= e

(* An entry that starts where the last section ends. *)
LEMMA AddClose ==
  ASSUME NEW s, NEW r, NEW t, NEW m, NEW a \in Nat, NEW e, NEW entry,
         Ready(m, s, 1), Built(s, r, m.head), AtEnd(s, t, a, entry.base), a < entry.base,
         Fits(s, t, entry, e), M \in Nat, M < W, End(s[t]) = entry.base
  PROVE  LET x == AppendEntry(m, t, entry)
         IN  \E q : Entered(s, x.sec, q, x.slot, x.head, entry, e) /\ x.head <= m.head + 2
<1> DEFINE n == m.head
           b == entry.base
           z == M * n
           new == AppendFields(s, t, n, entry.base, Pages(entry.length), InterpretSignal(entry.type))
           q == Place(r, n, z)
<1>1. /\ Strung(s, r) /\ s \in [Slots -> Section] /\ Wired(s) /\ \A i \in Lives(s) : r[i] + s[i].pages <= M * n
  BY DEF Built, Draft, Strung, Typed
<1>2. /\ t \in Lives(s) /\ s[t].next = NULL /\ s[t].start = a /\ t \in Real
      /\ (Plain(s, t) => EndOf(s, t) <= b) /\ Real \subseteq Slots /\ NULL \in Slots /\ NULL \notin Real
      /\ Lives(s) \subseteq Real
  BY SlotFacts DEF AtEnd
<1>3. n \in Nat /\ DeadFrom(s, n) /\ b \in 0 .. W - 1 /\ entry.length \in 1 .. W - 1
  BY DEF Ready, Fits, IsEntry
<1>4. /\ n \in Real \ Lives(s) /\ AppendEntry(m, t, entry).head = n + 1 /\ AppendEntry(m, t, entry).slot = n
      /\ AppendEntry(m, t, entry).sec = new
  <2>1. EntryAppended(m, s, t, entry, AppendEntry(m, t, entry))
    BY Zenon, <1>1, AppendEntryDoes
  <2> QED
    BY Zenon, <2>1 DEF EntryAppended
<1>5. z \in Nat /\ M * (n + 1) = z + M /\ r[t] + s[t].pages <= z
  BY <1>1, <1>2, <1>3, PlaceSteps
<1> HIDE DEF z, new, q
<1>6. /\ Inserted(s, new, r, t, n, z)
      /\ new[n].prev = t /\ new[n].next = NULL /\ new[n].start = b
      /\ new[n].pages = Pages(entry.length) /\ new[n].pages \in 1 .. M
      /\ new[n].free = InterpretSignal(entry.type)
      /\ new[t].next = n /\ new[t].prev = s[t].prev /\ new[t].start = s[t].start /\ new[t].pages = s[t].pages
      /\ \A i \in Slots \ {t, n} : new[i] = s[i]
  <2>1. new = AppendFields(s, t, n, entry.base, Pages(entry.length), InterpretSignal(entry.type))
    BY DEF new
  <2>2. IsEntry(entry)
    BY DEF Fits
  <2>3. EntryInserted(s, new, r, t, n, entry, z)
    BY Zenon, <1>1, <1>2, <1>4, <1>5, <2>1, <2>2, AppendInserted
  <2> QED
    BY <2>3 DEF EntryInserted
<1>7. /\ Strung(new, q) /\ Lives(new) = Lives(s) \cup {n}
      /\ \A i \in Real : q[i] = IF i = n THEN z ELSE r[i]
  <2>1. HasInserted(s, new, r, Place(r, n, z), n, z)
    BY Zenon, <1>1, <1>2, <1>4, <1>6, InsertedStrung
  <2> QED
    BY <2>1 DEF HasInserted, q
<1>8. SameLow(s, new) /\ \A i \in Slots \ {n} : SameBody(s, new, i)
  BY <1>2, <1>3, <1>4, <1>6 DEF SameLow, SameBody, Inserted
<1>9. Extended(s, new, q, r, t, n, n, n, n + 1)
  <2>1. \A i \in Lives(s) : /\ q[i] = r[i] /\ SameBody(s, new, i) /\ new[i].prev = s[i].prev
                            /\ i # t => new[i].next = s[i].next
    BY <1>2, <1>4, <1>6, <1>7, <1>8
  <2>2. \A x \in {n} : M * n <= q[x] /\ q[x] + new[x].pages <= M * (n + 1)
    BY <1>3, <1>4, <1>5, <1>6, <1>7 DEF z
  <2> QED
    BY <2>1, <2>2, <1>3, <1>4, <1>6, <1>7, <1>8 DEF Extended
<1>10. Plain(new, n) => EndOf(new, n) <= s[NULL].start /\ EndOf(new, n) <= e
  BY <1>6 DEF Plain, EndOf, Fits, USED, FREE, BAD
<1>11. Plain(s, t) => new[n].start = EndOf(s, t)
  <2> SUFFICES ASSUME Plain(s, t)
               PROVE  new[n].start = EndOf(s, t)
    OBVIOUS
  <2>1. EndOf(s, t) \in 0 .. W - 1
    <3>1. EndOf(s, t) \in Nat /\ EndOf(s, t) <= b
      BY <1>1, <1>2, FieldTypes
    <3> QED
      BY <3>1, <1>3, NumberFacts
  <2> QED
    BY <2>1, <1>1, <1>2, <1>6, LastEnd
<1>12. Built(new, q, n + 1) /\ AtEnd(new, n, b, e)
  <2>1. b \in Nat
    BY <1>3
  <2>2. Meets(s, new, t, n, n, b, e)
    BY <1>6, <1>10, <1>11 DEF Meets
  <2>3. Built(s, r, n) /\ AtEnd(s, t, a, b) /\ a < b /\ Strung(new, q)
    BY <1>7
  <2> HIDE DEF n, b
  <2> QED
    BY Zenon, <2>1, <2>2, <2>3, <1>9, ExtendedBuilt
<1>13. DeadFrom(new, n + 1) /\ n + 1 \in Nat
  BY <1>3, <1>7 DEF DeadFrom, Real
<1>14. EntryHeld(s, new, entry)
  <2>1. \A i \in Lives(new) \ {n} : i \in Lives(s) /\ SameBody(s, new, i)
    BY <1>2, <1>7, <1>8
  <2> QED
    BY <2>1, <1>6, EntryAddsPages
<1>15. Entered(s, new, q, n, n + 1, entry, e)
  BY <1>8, <1>12, <1>13, <1>14 DEF Entered
<1>16. n + 1 <= n + 2
  BY <1>3
<1> QED
  BY Zenon, <1>4, <1>15, <1>16

(* An entry that does not: the gap is filled. *)
LEMMA AddApart ==
  ASSUME NEW s, NEW r, NEW t, NEW m, NEW a \in Nat, NEW e, NEW entry,
         Ready(m, s, 2), Ready(m, s, 1), Built(s, r, m.head), AtEnd(s, t, a, entry.base), a < entry.base,
         Fits(s, t, entry, e), M \in Nat, M < W, End(s[t]) # entry.base
  PROVE  LET x == AppendEntry(m, t, entry)
             y == FillGap(x, t, x.slot)
         IN  \E q : Entered(s, y.sec, q, x.slot, y.head, entry, e) /\ y.head <= m.head + 2
<1> DEFINE n == m.head
           g == n + 1
           b == entry.base
           z == M * n
           v == M * (n + 1)
           mid == AppendFields(s, t, n, entry.base, Pages(entry.length), InterpretSignal(entry.type))
           p == Place(r, n, v)
           x == AppendEntry(m, t, entry)
           y == FillGap(x, t, x.slot)
           new == GapFields(mid, t, g, n, End(mid[t]), Pages((mid[n].start - End(mid[t])) % W))
           q == Place(p, g, z)
<1>1. /\ Strung(s, r) /\ s \in [Slots -> Section] /\ Wired(s) /\ \A i \in Lives(s) : r[i] + s[i].pages <= M * n
  BY DEF Built, Draft, Strung, Typed
<1>2. /\ t \in Lives(s) /\ s[t].next = NULL /\ s[t].start = a /\ t \in Real
      /\ (Plain(s, t) => EndOf(s, t) <= b) /\ Real \subseteq Slots /\ NULL \in Slots /\ NULL \notin Real
      /\ Lives(s) \subseteq Real
  BY SlotFacts DEF AtEnd
<1>3. /\ n \in Nat /\ DeadFrom(s, n) /\ b \in 0 .. W - 1 /\ entry.length \in 1 .. W - 1
      /\ (n + 2) * SECTION_SIZE <= data_size /\ data_size \in Nat /\ data_size <= MAX_SLOTS * SECTION_SIZE
  BY DEF Ready, Fits, IsEntry
<1>4. n \in Real \ Lives(s) /\ x.head = n + 1 /\ x.slot = n /\ x.sec = mid
  <2>1. EntryAppended(m, s, t, entry, AppendEntry(m, t, entry))
    BY Zenon, <1>1, AppendEntryDoes
  <2> QED
    BY Zenon, <2>1 DEF EntryAppended
<1>5. z \in Nat /\ v = z + M /\ v \in Nat /\ M * (n + 2) = z + M + M /\ r[t] + s[t].pages <= z
      /\ r[t] + s[t].pages <= v
  <2>1. r[t] \in Nat /\ s[t].pages \in Nat
    BY <1>1, <1>2, FieldTypes DEF Strung, Ordered
  <2> QED
    BY <2>1, <1>1, <1>2, <1>3, PlaceSteps
<1> HIDE DEF z, v, mid, p, x
<1>6. /\ Inserted(s, mid, r, t, n, v)
      /\ mid[n].prev = t /\ mid[n].next = NULL /\ mid[n].start = b
      /\ mid[n].pages = Pages(entry.length) /\ mid[n].pages \in 1 .. M
      /\ mid[n].free = InterpretSignal(entry.type)
      /\ mid[t].next = n /\ mid[t].prev = s[t].prev /\ mid[t].start = s[t].start /\ mid[t].pages = s[t].pages
      /\ \A i \in Slots \ {t, n} : mid[i] = s[i]
  <2>1. mid = AppendFields(s, t, n, entry.base, Pages(entry.length), InterpretSignal(entry.type))
    BY DEF mid
  <2>2. IsEntry(entry)
    BY DEF Fits
  <2>3. EntryInserted(s, mid, r, t, n, entry, v)
    BY Zenon, <1>1, <1>2, <1>4, <1>5, <2>1, <2>2, AppendInserted
  <2> QED
    BY <2>3 DEF EntryInserted
<1>7. /\ Strung(mid, p) /\ Lives(mid) = Lives(s) \cup {n} /\ mid \in [Slots -> Section] /\ Wired(mid)
      /\ \A i \in Real : p[i] = IF i = n THEN v ELSE r[i]
  <2>1. HasInserted(s, mid, r, Place(r, n, v), n, v)
    BY Zenon, <1>1, <1>2, <1>4, <1>6, InsertedStrung
  <2> QED
    BY <2>1 DEF HasInserted, p, Strung, Typed
<1>8. \A i \in Slots \ {n} : SameBody(s, mid, i)
  BY <1>6 DEF Inserted
<1>9. Ready(x, mid, 1)
  <2>1. DeadFrom(mid, n + 1) /\ n + 1 \in Nat
    BY <1>3, <1>7 DEF DeadFrom, Real
  <2>2. (n + 1) + 1 = n + 2
    BY <1>3
  <2> QED
    BY <2>1, <2>2, <1>3, <1>4 DEF Ready
<1>10. g \in Real \ Lives(mid) /\ y.head = g + 1 /\ y.sec = new
  <2>1. GapFilled(x, mid, t, n, FillGap(x, t, n))
    BY Zenon, <1>7, <1>9, FillGapDoes
  <2> QED
    BY Zenon, <2>1, <1>4 DEF GapFilled
<1>11. End(mid[t]) = End(s[t])
  BY <1>6 DEF End
<1>12. mid[n].start # End(mid[t]) /\ n # t /\ n \in Lives(mid) /\ t \in Lives(mid) /\ g # n /\ g # t /\ n \in Real
  BY <1>2, <1>3, <1>4, <1>6, <1>7, <1>10, <1>11
<1>13. p[t] + mid[t].pages <= z /\ z + M <= p[n]
  BY <1>2, <1>4, <1>5, <1>6, <1>7, <1>12
<1> HIDE DEF new, q, y, g
<1>14. /\ Inserted(mid, new, p, t, g, z)
       /\ new[g].prev = t /\ new[g].next = n /\ new[g].start = End(mid[t])
       /\ new[g].pages \in 1 .. M /\ new[g].free = BAD
       /\ new[t].next = g /\ new[t].prev = mid[t].prev
       /\ new[n].prev = g /\ new[n].next = mid[n].next
       /\ \A i \in Slots \ {t, g, n} : new[i] = mid[i]
  <2>1. new = GapFields(mid, t, g, n, End(mid[t]), Pages((mid[n].start - End(mid[t])) % W))
    BY DEF new
  <2>2. GapInside(mid, new, p, t, g, n, z)
    BY Zenon, <1>5, <1>6, <1>7, <1>10, <1>12, <1>13, <2>1, GapInserted
  <2> QED
    BY <2>2 DEF GapInside
<1>15. /\ Strung(new, q) /\ Lives(new) = Lives(mid) \cup {g}
       /\ \A i \in Real : q[i] = IF i = g THEN z ELSE p[i]
  <2>1. HasInserted(mid, new, p, Place(p, g, z), g, z)
    BY Zenon, <1>7, <1>10, <1>12, <1>14, InsertedStrung
  <2> QED
    BY <2>1 DEF HasInserted, q
<1>16. \A i \in Slots \ {g} : SameBody(mid, new, i)
  BY <1>14 DEF Inserted
<1>17. \A i \in Slots \ {g, n} : SameBody(s, new, i)
  BY <1>8, <1>16 DEF SameBody
<1>18. SameLow(s, new)
  <2>1. NULL \in Slots \ {g, n}
    BY <1>2, <1>10, <1>12
  <2> QED
    BY <2>1, <1>17 DEF SameLow, SameBody
<1>19. new[n].start = b /\ new[n].free = InterpretSignal(entry.type) /\ new[n].pages = Pages(entry.length)
  BY <1>2, <1>6, <1>12, <1>16 DEF SameBody
<1>20. Extended(s, new, q, r, t, g, n, n, n + 2)
  <2>1. ASSUME NEW i \in Lives(s)
        PROVE  /\ q[i] = r[i] /\ SameBody(s, new, i) /\ new[i].prev = s[i].prev
               /\ i # t => new[i].next = s[i].next
    <3>1. i # n /\ i # g /\ i \in Real /\ i \in Slots
      BY <1>2, <1>4, <1>7, <1>10
    <3>2. q[i] = r[i] /\ SameBody(s, new, i)
      BY <3>1, <1>7, <1>15, <1>17
    <3>3. CASE i = t
      BY <3>2, <3>3, <1>6, <1>14
    <3>4. CASE i # t
      BY <3>1, <3>2, <3>4, <1>6, <1>14
    <3> QED
      BY <3>3, <3>4
  <2>2. q[g] = z /\ q[n] = v
    BY <1>7, <1>10, <1>12, <1>15
  <2>3. \A i \in {g, n} : M * n <= q[i] /\ q[i] + new[i].pages <= M * (n + 2)
    BY <2>2, <1>5, <1>6, <1>14, <1>19 DEF z
  <2>4. q[g] < q[n]
    BY <2>2, <1>5, <1>14
  <2>5. Lives(new) = Lives(s) \cup {g, n} /\ g \in Real \ Lives(s)
    BY <1>7, <1>10, <1>15
  <2> QED
    BY <2>1, <2>3, <2>4, <2>5, <1>3, <1>4, <1>6, <1>14, <1>18 DEF Extended
<1>21. Plain(new, n) => EndOf(new, n) <= s[NULL].start /\ EndOf(new, n) <= e
  BY <1>19 DEF Plain, EndOf, Fits, USED, FREE, BAD
<1>22. Plain(s, t) => new[g].start = EndOf(s, t) /\ new[g].start < b
  <2> SUFFICES ASSUME Plain(s, t)
               PROVE  new[g].start = EndOf(s, t) /\ new[g].start < b
    OBVIOUS
  <2>1. EndOf(s, t) \in 0 .. W - 1 /\ EndOf(s, t) <= b
    <3>1. EndOf(s, t) \in Nat /\ EndOf(s, t) <= b
      BY <1>1, <1>2, FieldTypes
    <3> QED
      BY <3>1, <1>3, NumberFacts
  <2>2. End(s[t]) = EndOf(s, t)
    BY <2>1, <1>1, <1>2, LastEnd
  <2> QED
    BY <2>1, <2>2, <1>3, <1>11, <1>14
<1>23. Built(new, q, n + 2) /\ AtEnd(new, n, b, e)
  <2>1. b \in Nat
    BY <1>3
  <2>2. Meets(s, new, t, g, n, b, e)
    BY <1>19, <1>21, <1>22 DEF Meets
  <2>3. Built(s, r, n) /\ AtEnd(s, t, a, b) /\ a < b /\ Strung(new, q)
    BY <1>15
  <2> HIDE DEF n, b
  <2> QED
    BY Zenon, <2>1, <2>2, <2>3, <1>20, ExtendedBuilt
<1>24. DeadFrom(new, n + 2) /\ n + 2 \in Nat /\ g + 1 = n + 2
  BY <1>3, <1>7, <1>15 DEF DeadFrom, Real, g
<1>25. EntryHeld(s, new, entry)
  <2>1. \A i \in Lives(new) \ {n} : (i \in Lives(s) /\ SameBody(s, new, i)) \/ new[i].free = BAD
    <3> TAKE i \in Lives(new) \ {n}
    <3>1. i = g \/ (i # g /\ i \in Lives(s) /\ i \in Slots)
      BY <1>2, <1>7, <1>15
    <3> QED
      BY <3>1, <1>14, <1>17
  <2> QED
    BY <2>1, <1>19, EntryAddsPages
<1>26. Entered(s, new, q, n, n + 2, entry, e)
  BY <1>18, <1>23, <1>24, <1>25 DEF Entered
<1>27. \E w : Entered(s, y.sec, w, x.slot, y.head, entry, e) /\ y.head <= m.head + 2
  BY <1>3, <1>4, <1>10, <1>24, <1>26
<1> QED
  BY Zenon, <1>27 DEF x, y

(* Where the current section ends does not change when an entry is added. *)
EndsKept(s, t, entry, x) == End(x.sec[t]) = End(s[t]) /\ x.sec[x.slot].start = entry.base

(* Appending leaves the end of t, and starts the new section at the entry. *)
LEMMA AppendEnds ==
  ASSUME NEW s, NEW r, NEW t \in Lives(s), NEW m, NEW entry, Ready(m, s, 1), Strung(s, r),
         s[t].next = NULL, M \in Nat, M < W, IsEntry(entry)
  PROVE  EndsKept(s, t, entry, AppendEntry(m, t, entry))
<1> DEFINE x == AppendEntry(m, t, entry)
           new == x.sec
           n == x.slot
           v == r[t] + s[t].pages
<1>1. Wired(s) /\ s \in [Slots -> Section] /\ r \in [Real -> Nat] /\ t \in Real /\ t \in Slots
  BY SlotFacts DEF Strung, Typed, Ordered
<1>2. EntryAppended(m, s, t, entry, x)
  BY Zenon, <1>1, AppendEntryDoes
<1>3. n \in Real \ Lives(s) /\ new = AppendFields(s, t, n, entry.base, Pages(entry.length), InterpretSignal(entry.type))
  BY Zenon, <1>2 DEF EntryAppended
<1>4. v \in Nat /\ v <= v
  BY <1>1, FieldTypes
<1> HIDE DEF v
<1>5. r[t] + s[t].pages <= v
  BY <1>4 DEF v
<1> HIDE DEF x, new, n
<1>6. EntryInserted(s, new, r, t, n, entry, v)
  BY Zenon, <1>3, <1>4, <1>5, AppendInserted
<1>7. new[t].start = s[t].start /\ new[t].pages = s[t].pages /\ new[n].start = entry.base
  BY <1>6 DEF EntryInserted
<1>8. End(new[t]) = End(s[t])
  BY <1>7 DEF End
<1> QED
  BY Zenon, <1>7, <1>8 DEF x, new, n, EndsKept

(* One entry is added, and a gap before it filled. *)
LEMMA EntryAdded ==
  ASSUME NEW s, NEW r, NEW t, NEW m, NEW a \in Nat, NEW e, NEW entry,
         Ready(m, s, 2), Ready(m, s, 1), Built(s, r, m.head), AtEnd(s, t, a, entry.base), a < entry.base,
         Fits(s, t, entry, e), M \in Nat, M < W
  PROVE  LET x == AppendEntry(m, t, entry)
             y == IF End(x.sec[t]) # x.sec[x.slot].start THEN FillGap(x, t, x.slot) ELSE x
         IN  \E q : Entered(s, y.sec, q, x.slot, y.head, entry, e) /\ y.head <= m.head + 2
<1> DEFINE x == AppendEntry(m, t, entry)
           z == FillGap(x, t, x.slot)
           y == IF End(x.sec[t]) # x.sec[x.slot].start THEN z ELSE x
<1>1. Strung(s, r) /\ Wired(s) /\ t \in Lives(s) /\ s[t].next = NULL /\ IsEntry(entry) /\ m.head \in Nat
  BY DEF Built, Draft, Strung, AtEnd, Fits, Ready
<1>2. End(x.sec[t]) = End(s[t]) /\ x.sec[x.slot].start = entry.base
  <2>1. EndsKept(s, t, entry, x)
    BY Zenon, <1>1, AppendEnds
  <2> QED
    BY Zenon, <2>1 DEF EndsKept
<1>3. CASE End(s[t]) = entry.base
  <2>1. \E q : Entered(s, x.sec, q, x.slot, x.head, entry, e) /\ x.head <= m.head + 2
    BY Zenon, <1>3, AddClose
  <2>2. y = x
    BY Zenon, <1>2, <1>3
  <2> HIDE DEF x, y
  <2>3. \E q : Entered(s, y.sec, q, x.slot, y.head, entry, e) /\ y.head <= m.head + 2
    BY Zenon, <2>1, <2>2
  <2> QED
    BY Zenon, <2>3 DEF x, y, z
<1>4. CASE End(s[t]) # entry.base
  <2>1. \E q : Entered(s, z.sec, q, x.slot, z.head, entry, e) /\ z.head <= m.head + 2
    BY Zenon, <1>4, AddApart
  <2>2. y = z
    BY Zenon, <1>2, <1>4
  <2> HIDE DEF x, y, z
  <2>3. \E q : Entered(s, y.sec, q, x.slot, y.head, entry, e) /\ y.head <= m.head + 2
    BY Zenon, <2>1, <2>2
  <2> QED
    BY Zenon, <2>3 DEF x, y, z
<1> QED
  BY Zenon, <1>3, <1>4

-----------------------------------------------------------------------------
(* The steps of pmm_start. *)
LEMMA BootStep ==
  ASSUME NEW q, MapInv, pc \in {"entries", "recombine"}, pc' \in {"entries", "recombine", "idle"},
         UNCHANGED <<answers, entries, data_size, in_use>>, SameLow(sec, sec'),
         head' \in Nat, head' * SECTION_SIZE <= data_size, DeadFrom(sec', head'), BootInv(q)', CallInv(q)'
  PROVE  IInv(q)'
<1>1. Low(sec)'
  BY DEF MapInv, Low, SameLow
<1>2. MapInv'
  BY <1>1, PMMAssumption DEF MapInv
<1> QED
  BY <1>2 DEF IInv

(* What the steps of pmm_start may rely on. *)
LEMMA BootFacts ==
  ASSUME NEW r, IInv(r), pc \in {"entries", "recombine"}
  PROVE  /\ MapInv /\ Built(sec, r, head) /\ selected \in Lives(sec) \cup {NULL} /\ NULL \notin Lives(sec)
         /\ Typed(sec) /\ Wired(sec) /\ Ordered(sec, r) /\ sec \in [Slots -> Section]
         /\ head \in Nat /\ DeadFrom(sec, head) /\ head * SECTION_SIZE <= data_size /\ data_size \in Nat
         /\ data_size <= MAX_SLOTS * SECTION_SIZE /\ Len(entries) \in Nat \ {0}
         /\ (2 * Len(entries) - 1) * SECTION_SIZE <= data_size
         /\ M \in Nat \ {0} /\ M < W /\ (head <= 2 * Len(entries) - 1 => M * head < W)
         /\ \E low \in LowMemory : low.start = sec[NULL].start /\ Describable(entries, low)
<1>1. MapInv /\ Built(sec, r, head) /\ selected \in Lives(sec) \cup {NULL}
  BY DEF IInv, BootInv
<1>2. /\ data_size \in Nat /\ data_size <= MAX_SLOTS * SECTION_SIZE
      /\ \E low \in LowMemory : low.start = sec[NULL].start /\ Describable(entries, low)
  BY <1>1, TableFits
<1>3. head \in Nat /\ DeadFrom(sec, head) /\ head * SECTION_SIZE <= data_size /\ data_size = TableSize(entries)
  BY <1>1 DEF MapInv
<1>4. NULL \notin Lives(sec) /\ Typed(sec) /\ Wired(sec) /\ Ordered(sec, r) /\ sec \in [Slots -> Section]
  BY <1>1, SlotFacts DEF Built, Draft, Typed
<1>5. PICK low \in LowMemory : Describable(entries, low)
  BY <1>2
<1>6. /\ Len(entries) \in Nat \ {0} /\ M \in Nat \ {0} /\ M < W
      /\ \A h \in Nat : h <= 2 * Len(entries) - 1 => M * h \in Nat /\ M * h < W
  BY <1>5, PlacesFit
<1>7. (2 * Len(entries) - 1) * SECTION_SIZE <= data_size
  BY <1>3, <1>5 DEF Describable
<1> QED
  BY <1>1, <1>2, <1>3, <1>4, <1>6, <1>7

(* What entry i of the list is like. *)
LEMMA EntryFacts ==
  ASSUME NEW low, NEW list, Describable(list, low), NEW i \in 2 .. Len(list)
  PROVE  /\ list[i].base \in 0 .. W - 1 /\ list[i].length \in 1 .. W - 1
         /\ list[i - 1].base \in Nat /\ list[i - 1].base < list[i].base
         /\ \/ InterpretSignal(list[i].type) = BAD
            \/ LET end == list[i].base + Pages(list[i].length) * PAGE_SIZE
               IN  end <= low.start /\ end <= BaseFrom(list, i + 1, low.start)
BY DEF Describable, BaseFrom

(* Only the first entry is passed over: pmm_start has described the memory   *)
(* from 0 on before it looks at the entries.                                 *)
LEMMA SkipEntryStep ==
  ASSUME NEW r, IInv(r), SkipEntry
  PROVE  IInv(r)'
<1>1. /\ pc = "entries" /\ idx <= Len(entries) /\ entries[idx].base = sec[selected].start
      /\ idx' = idx + 1 /\ pc' = pc /\ selected' = selected /\ sec' = sec /\ head' = head
      /\ detected' = detected /\ in_use' = in_use /\ UNCHANGED <<answers, entries, data_size>>
  BY DEF SkipEntry, mapVars, listVars, historyVars
<1>2. /\ idx \in 1 .. Len(entries) + 1 /\ head <= 2 * idx - 1 /\ (idx = 1 => selected = pmm_sections)
      /\ AtEnd(sec, selected, BaseBefore(entries, idx), BaseFrom(entries, idx, sec[NULL].start))
  BY <1>1 DEF IInv, BootInv
<1>3. MapInv /\ Built(sec, r, head) /\ head \in Nat /\ DeadFrom(sec, head) /\ head * SECTION_SIZE <= data_size
      /\ Typed(sec) /\ Len(entries) \in Nat
  BY <1>1, BootFacts
<1>4. PICK low \in LowMemory : Describable(entries, low)
  BY <1>1, BootFacts
<1>5. idx = 1
  <2> SUFFICES ASSUME idx # 1 PROVE FALSE
    OBVIOUS
  <2>1. idx \in 2 .. Len(entries)
    BY <1>1, <1>2, <1>3
  <2>2. entries[idx - 1].base \in Nat /\ entries[idx - 1].base < entries[idx].base
    BY <2>1, <1>4, EntryFacts
  <2>3. sec[selected].start = entries[idx - 1].base
    BY <2>1, <1>2 DEF AtEnd, BaseBefore
  <2> QED
    BY <2>2, <2>3, <1>1, <2>1, <1>4, EntryFacts
<1>6. selected = pmm_sections /\ idx' = 2 /\ head <= 1
  BY <1>1, <1>2, <1>3, <1>5
<1>7. entries[1].base = 0
  BY <1>4 DEF Describable
<1>8. ~Plain(sec, pmm_sections)
  BY <1>3 DEF Plain, Typed, USED, FREE, BAD
<1>9. BaseBefore(entries, 1) = 0 /\ BaseBefore(entries, 2) = 0
  BY <1>7 DEF BaseBefore
<1>10. AtEnd(sec, selected, BaseBefore(entries, 2), BaseFrom(entries, 2, sec[NULL].start))
  BY <1>2, <1>5, <1>6, <1>8, <1>9 DEF AtEnd
<1>11. BootInv(r)'
  <2>1. selected \in Lives(sec)
    BY <1>2 DEF AtEnd
  <2>2. idx' \in 1 .. Len(entries) + 1 /\ head <= 2 * idx' - 1 /\ head <= 2 * idx' - 3 /\ idx' # 1
    BY <1>1, <1>3, <1>5, <1>6
  <2>3. AtEnd(sec, selected, BaseBefore(entries, idx'), BaseFrom(entries, idx', sec[NULL].start))
    BY <1>6, <1>10
  <2> QED
    BY <2>1, <2>2, <2>3, <1>1, <1>3 DEF BootInv
<1>12. CallInv(r)'
  BY <1>1 DEF CallInv, Started
<1>13. SameLow(sec, sec')
  BY <1>1 DEF SameLow
<1> QED
  BY <1>1, <1>3, <1>11, <1>12, <1>13, BootStep

(* pmm_start adds an entry, and the gap before it. *)
LEMMA AddEntryStep ==
  ASSUME NEW r, IInv(r), AddEntry
  PROVE  (\E q : IInv(q)') /\ idx \in 2 .. Len(entries) /\ EntryHeld(sec, sec', entries[idx])
<1> DEFINE x == AppendEntry([sec |-> sec, head |-> head], selected, entries[idx])
           y == IF End(x.sec[selected]) # x.sec[x.slot].start THEN FillGap(x, selected, x.slot) ELSE x
           entry == entries[idx]
           a == entries[idx - 1].base
           e == BaseFrom(entries, idx + 1, sec[NULL].start)
<1>1. /\ pc = "entries" /\ idx <= Len(entries) /\ entries[idx].base # sec[selected].start
      /\ sec' = y.sec /\ head' = y.head /\ selected' = x.slot
      /\ idx' = idx + 1 /\ pc' = pc
      /\ in_use' = in_use /\ UNCHANGED <<answers, entries, data_size>>
  BY Zenon DEF AddEntry, SetList, mapVars, historyVars
<1>2. /\ idx \in 1 .. Len(entries) + 1 /\ (idx > 1 => head <= 2 * idx - 3) /\ (idx = 1 => selected = pmm_sections)
      /\ AtEnd(sec, selected, BaseBefore(entries, idx), BaseFrom(entries, idx, sec[NULL].start))
  BY <1>1 DEF IInv, BootInv
<1>3. /\ MapInv /\ Built(sec, r, head) /\ head \in Nat /\ DeadFrom(sec, head) /\ data_size \in Nat
      /\ data_size <= MAX_SLOTS * SECTION_SIZE /\ (2 * Len(entries) - 1) * SECTION_SIZE <= data_size
      /\ M \in Nat /\ M < W /\ Len(entries) \in Nat
  BY <1>1, BootFacts
<1>4. PICK low \in LowMemory : low.start = sec[NULL].start /\ Describable(entries, low)
  BY <1>1, BootFacts
<1>5. idx \in 2 .. Len(entries)
  <2>1. idx # 1
    <3> SUFFICES ASSUME idx = 1 PROVE FALSE
      OBVIOUS
    <3>1. entries[1].base = 0
      BY <1>4 DEF Describable
    <3>2. sec[selected].start = 0
      BY <1>2 DEF AtEnd, BaseBefore
    <3> QED
      BY <3>1, <3>2, <1>1
  <2> QED
    BY <2>1, <1>1, <1>2, <1>3
<1>6. /\ entry.base \in 0 .. W - 1 /\ entry.length \in 1 .. W - 1 /\ a \in Nat /\ a < entry.base
      /\ \/ InterpretSignal(entry.type) = BAD
         \/ LET end == entry.base + Pages(entry.length) * PAGE_SIZE
            IN  end <= low.start /\ end <= BaseFrom(entries, idx + 1, low.start)
  BY <1>4, <1>5, EntryFacts
<1>7. Fits(sec, selected, entry, e)
  BY <1>4, <1>6 DEF Fits, IsEntry
<1>8. AtEnd(sec, selected, a, entry.base)
  BY <1>2, <1>5 DEF BaseBefore, BaseFrom
<1>9. head + 2 <= 2 * Len(entries) - 1 /\ 2 * Len(entries) - 1 \in Nat
  BY <1>2, <1>3, <1>5
<1>10. (head + 2) * SECTION_SIZE <= data_size /\ (head + 1) * SECTION_SIZE <= data_size
  <2>1. head + 2 \in Nat /\ head + 1 \in Nat /\ head + 1 <= head + 2 /\ head + 2 <= 2 * Len(entries) - 1
    BY <1>3, <1>9
  <2> QED
    BY <2>1, <1>3, <1>9, SmallerTable
<1> DEFINE m == [sec |-> sec, head |-> head]
<1>11. Ready(m, sec, 2) /\ Ready(m, sec, 1) /\ m.head = head
  BY <1>3, <1>10 DEF Ready
<1>12. \E q : Entered(sec, y.sec, q, x.slot, y.head, entry, e) /\ y.head <= m.head + 2
  <2>1. Built(sec, r, m.head)
    BY <1>3
  <2> HIDE DEF m
  <2> DEFINE xx == AppendEntry(m, selected, entry)
             yy == IF End(xx.sec[selected]) # xx.sec[xx.slot].start THEN FillGap(xx, selected, xx.slot) ELSE xx
  <2>2. \E q : Entered(sec, yy.sec, q, xx.slot, yy.head, entry, e) /\ yy.head <= m.head + 2
    <3> HIDE DEF entry, a, e
    <3> QED
      BY Zenon, <2>1, <1>3, <1>6, <1>7, <1>8, <1>11, EntryAdded
  <2> QED
    BY Zenon, <2>2 DEF m
<1> HIDE DEF x, y, entry, a, e, m
<1>13. PICK q : Entered(sec, y.sec, q, x.slot, y.head, entry, e) /\ y.head <= head + 2
  BY <1>11, <1>12
<1>14. /\ Built(sec', q, head') /\ AtEnd(sec', selected', entry.base, e)
       /\ head' \in Nat /\ DeadFrom(sec', head') /\ SameLow(sec, sec') /\ head' <= head + 2
       /\ EntryHeld(sec, sec', entry)
  BY <1>1, <1>13 DEF Entered
<1>15. head' * SECTION_SIZE <= data_size
  <2>1. head' <= 2 * Len(entries) - 1
    BY <1>3, <1>9, <1>14
  <2> QED
    BY <2>1, <1>3, <1>9, <1>14, SmallerTable
<1>16. BootInv(q)'
  <2>1. selected' \in Lives(sec')
    BY <1>14 DEF AtEnd
  <2>2. idx' \in 1 .. Len(entries) + 1 /\ head' <= 2 * idx' - 1 /\ head' <= 2 * idx' - 3 /\ idx' # 1
    BY <1>1, <1>2, <1>3, <1>5, <1>14
  <2>3. BaseBefore(entries, idx') = entry.base
    BY <1>1, <1>5 DEF BaseBefore, entry
  <2>4. BaseFrom(entries, idx', sec'[NULL].start) = e
    BY <1>1, <1>14 DEF e, SameLow
  <2>5. AtEnd(sec', selected', BaseBefore(entries, idx'), BaseFrom(entries, idx', sec'[NULL].start))
    BY <2>3, <2>4, <1>14
  <2> QED
    BY <2>1, <2>2, <2>5, <1>1, <1>14 DEF BootInv
<1>17. CallInv(q)'
  BY <1>1 DEF CallInv, Started
<1>18. IInv(q)'
  BY <1>1, <1>3, <1>14, <1>15, <1>16, <1>17, BootStep
<1> QED
  BY <1>5, <1>14, <1>18 DEF entry

(* pmm_start is through with the entries. *)
LEMMA StartRecombineStep ==
  ASSUME NEW r, IInv(r), StartRecombine
  PROVE  IInv(r)'
<1>1. /\ pc = "entries" /\ idx > Len(entries) /\ pc' = "recombine" /\ selected' = pmm_sections
      /\ sec' = sec /\ head' = head /\ in_use' = in_use /\ UNCHANGED <<answers, entries, data_size>>
  BY DEF StartRecombine, mapVars, listVars, historyVars
<1>2. idx \in 1 .. Len(entries) + 1 /\ (idx > 1 => head <= 2 * idx - 3)
  BY <1>1 DEF IInv, BootInv
<1>3. MapInv /\ Built(sec, r, head) /\ head \in Nat /\ DeadFrom(sec, head) /\ head * SECTION_SIZE <= data_size
      /\ Ordered(sec, r) /\ Len(entries) \in Nat \ {0}
  BY <1>1, BootFacts
<1>4. head <= 2 * Len(entries) - 1
  BY <1>1, <1>2, <1>3
<1>5. Distinct(sec, r, pmm_sections) /\ pmm_sections \in Lives(sec)
  BY <1>3, SlotFacts DEF Distinct, Ordered
<1>6. BootInv(r)'
  BY <1>1, <1>3, <1>4, <1>5 DEF BootInv
<1>7. CallInv(r)'
  BY <1>1 DEF CallInv, Started
<1>8. SameLow(sec, sec')
  BY <1>1 DEF SameLow
<1> QED
  BY <1>1, <1>3, <1>6, <1>7, <1>8, BootStep

-----------------------------------------------------------------------------
(* pmm_recombine. *)

(* The section behind t, of the same kind, disappears into t. *)
MergedInto(s, new, t) ==
  LET next == s[t].next
  IN  /\ new \in [Slots -> Section] /\ Unlinks(s, new, next)
      /\ new[t].start = s[t].start /\ new[t].free = s[t].free
      /\ new[t].pages = s[t].pages + s[next].pages
      /\ \A x \in Slots \ {t, next} : SameBody(s, new, x)

(* A list in which a section swallowed the next one is built. *)
LEMMA MergedBuilt ==
  ASSUME NEW s, NEW new, NEW r, NEW t \in Lives(s), NEW h \in Nat, M \in Nat, Built(s, r, h),
         s[t].next # NULL, s[t].free = s[s[t].next].free, MergedInto(s, new, t)
  PROVE  Built(new, r, h) /\ Lives(new) = Lives(s) \ {s[t].next}
<1> DEFINE n == s[t].next
           f == s[n].next
<1>1. /\ s \in [Slots -> Section] /\ Typed(s) /\ Wired(s) /\ Ordered(s, r) /\ Counted(s, r) /\ Rising(s, r) /\ Close(s)
      /\ \A i \in Lives(s) : r[i] + s[i].pages <= M * h
  BY DEF Built, Draft, Typed
<1>2. /\ new \in [Slots -> Section] /\ Unlinks(s, new, n)
      /\ new[t].start = s[t].start /\ new[t].free = s[t].free /\ new[t].pages = s[t].pages + s[n].pages
      /\ \A x \in Slots \ {t, n} : SameBody(s, new, x)
  BY DEF MergedInto
<1>3. /\ Real \subseteq Slots /\ Lives(s) \subseteq Real /\ NULL \notin Real /\ NULL \in Slots
      /\ pmm_sections \in Lives(s) /\ Lives(new) \subseteq Real
  BY SlotFacts
<1>4. /\ n \in Lives(s) /\ s[n].prev = t /\ n # NULL /\ s[n].free = s[t].free
      /\ r[t] < r[n] /\ n # t /\ n # pmm_sections
  BY <1>1, <1>3 DEF Wired, Ordered
<1> HIDE DEF n
<1>5. Lives(new) = Lives(s) \ {n} /\ Wired(new) /\ Ordered(new, r)
  BY Zenon, <1>1, <1>2, <1>4, UnlinkedList
<1>6. /\ (\A i \in Lives(s) : r[i] \in Nat /\ s[i].pages \in Nat /\ s[i].pages # 0 /\ s[i].start \in Nat)
  BY <1>1, <1>3, NeatNumbers DEF Ordered, Counted
<1>7. \A i \in Lives(new) : /\ new[i].free = s[i].free /\ new[i].start = s[i].start
                            /\ i # t => new[i].pages = s[i].pages
  BY <1>2, <1>3, <1>5 DEF SameBody
<1>8. \A i \in Lives(new) :
        /\ new[i].prev = IF i = f THEN t ELSE s[i].prev
        /\ new[i].next = IF i = t THEN f ELSE s[i].next
  BY <1>2, <1>3, <1>4, <1>5 DEF Unlinks
<1>9. t \in Lives(new) /\ f # t /\ (f # NULL => f \in Lives(new) /\ s[f].prev = n)
  <2>1. f # NULL => f \in Lives(s) /\ s[f].prev = n /\ r[n] < r[f]
    BY <1>1, <1>4 DEF Wired, Ordered
  <2> QED
    BY <2>1, <1>3, <1>4, <1>5, <1>6
<1> HIDE DEF f
<1>10. Typed(new)
  <2>1. new[NULL].free = s[NULL].free
    BY <1>2, <1>3, <1>4 DEF SameBody
  <2>2. \A i \in Real : new[i].free \in {USED, FREE, BAD}
    <3> TAKE i \in Real
    <3>1. CASE i \in Lives(new)
      BY <3>1, <1>1, <1>7 DEF Typed
    <3>2. CASE i \notin Lives(new)
      BY <3>2, <1>5 DEF Wired, Unlinked
    <3> QED
      BY <3>1, <3>2
  <2>3. new[pmm_sections].free = BAD
    BY <1>1, <1>3, <1>4, <1>5, <1>7 DEF Typed
  <2> QED
    BY <2>1, <2>2, <2>3, <1>1, <1>2 DEF Typed
<1>11. r[n] + s[n].pages <= M * h /\ r[t] + s[t].pages <= r[n]
       /\ (f # NULL => r[n] + s[n].pages <= r[f])
  <2>1. s[t].next = n /\ s[n].next = f
    BY DEF n, f
  <2> QED
    BY <2>1, <1>1, <1>4 DEF Counted
<1>12. Counted(new, r)
  <2>1. \A i \in Lives(new) : new[i].pages # 0
    BY <1>2, <1>4, <1>5, <1>6, <1>7
  <2>2. ASSUME NEW i \in Lives(new), new[i].next # NULL
        PROVE  r[i] + new[i].pages <= r[new[i].next]
    <3>1. CASE i = t
      BY <3>1, <2>2, <1>2, <1>4, <1>5, <1>6, <1>8, <1>9, <1>11
    <3>2. CASE i # t
      BY <3>2, <2>2, <1>1, <1>5, <1>7, <1>8 DEF Counted
    <3> QED
      BY <3>1, <3>2
  <2> QED
    BY <2>1, <2>2 DEF Counted
<1>13. \A i \in Lives(new) : r[i] + new[i].pages <= M * h
  <2> TAKE i \in Lives(new)
  <2>1. CASE i = t
    <3>1. r[t] \in Nat /\ s[t].pages \in Nat /\ s[n].pages \in Nat /\ r[n] \in Nat
      BY <1>4, <1>6
    <3> DEFINE z == M * h
    <3>2. r[n] + s[n].pages <= z /\ z \in Nat
      BY <1>11, PlaceSteps
    <3> HIDE DEF z
    <3>3. r[t] + new[t].pages <= z
      BY <3>1, <3>2, <1>2, <1>11
    <3> QED
      BY <2>1, <3>3 DEF z
  <2>2. CASE i # t
    BY <2>2, <1>1, <1>5, <1>7
  <2> QED
    BY <2>1, <2>2
<1>14. Rising(new, r)
  <2>1. \A i \in Lives(new) : Firm(new, i) => Firm(s, i)
    <3> TAKE i \in Lives(new)
    <3>1. i = pmm_sections \/ (s[i].prev \in Lives(s) /\ new[i].prev \in Lives(new))
      BY <1>1, <1>5 DEF Wired, Lives
    <3>2. CASE i = f
      <4>1. new[i].prev = t /\ s[i].prev = n /\ new[t].free = s[n].free
        BY <3>2, <1>2, <1>3, <1>4, <1>5, <1>8, <1>9
      <4> QED
        BY <4>1, <1>7 DEF Firm, Plain
    <3>3. CASE i # f
      <4>1. new[i].prev = s[i].prev
        BY <3>3, <1>8
      <4> QED
        BY <4>1, <3>1, <1>7 DEF Firm, Plain
    <3> QED
      BY <3>2, <3>3
  <2> QED
    BY <2>1, <1>1, <1>5, <1>7 DEF Rising
<1>15. Close(new)
  <2> SUFFICES ASSUME NEW i \in Lives(new), Plain(new, i)
               PROVE  /\ EndOf(new, i) <= new[NULL].start
                      /\ new[i].next # NULL => EndOf(new, i) = new[new[i].next].start
    BY DEF Close
  <2>1. new[NULL].start = s[NULL].start
    BY <1>2, <1>3, <1>4 DEF SameBody
  <2>2. Plain(s, i) /\ i \in Lives(s)
    BY <1>5, <1>7 DEF Plain
  <2>3. CASE i = t
    <3>1. EndOf(s, t) = s[n].start /\ Plain(s, n)
      BY <2>2, <2>3, <1>1, <1>4 DEF Close, Plain, n
    <3>2. EndOf(s, n) <= s[NULL].start /\ (f # NULL => EndOf(s, n) = s[f].start)
      BY <3>1, <1>1, <1>4 DEF Close, f
    <3>3. EndOf(new, t) = EndOf(s, n)
      <4> DEFINE x == s[t].pages * PAGE_SIZE
                 y == s[n].pages * PAGE_SIZE
      <4>1. (s[t].pages + s[n].pages) * PAGE_SIZE = x + y /\ x \in Int /\ y \in Int
        BY <1>4, <1>6, NumberFacts
      <4>2. s[t].start + x = s[n].start /\ EndOf(s, n) = s[n].start + y
        BY <3>1 DEF EndOf
      <4>3. EndOf(new, t) = s[t].start + (x + y)
        BY <4>1, <1>2 DEF EndOf
      <4> HIDE DEF x, y
      <4> QED
        BY <4>1, <4>2, <4>3, <1>4, <1>6
    <3> QED
      BY <3>2, <3>3, <2>1, <2>3, <1>7, <1>8, <1>9
  <2>4. CASE i # t
    <3>1. EndOf(new, i) = EndOf(s, i) /\ new[i].next = s[i].next
      BY <2>4, <1>7, <1>8 DEF EndOf
    <3>2. EndOf(s, i) <= s[NULL].start /\ (s[i].next # NULL => EndOf(s, i) = s[s[i].next].start)
      BY <2>2, <1>1 DEF Close
    <3>3. new[i].next # NULL => new[i].next \in Lives(new)
      BY <1>5 DEF Wired
    <3> QED
      BY <3>1, <3>2, <3>3, <2>1, <1>7
  <2> QED
    BY <2>3, <2>4
<1>16. Built(new, r, h)
  BY <1>5, <1>10, <1>12, <1>13, <1>14, <1>15 DEF Built, Draft
<1> QED
  BY <1>5, <1>16 DEF n

(* Both had the pages that the section has that swallowed the other one. *)
LEMMA MergedHeld ==
  ASSUME NEW s, NEW new, NEW r, NEW t \in Lives(s), NEW h, Built(s, r, h),
         s[t].next # NULL, s[t].free = s[s[t].next].free, MergedInto(s, new, t),
         Lives(new) = Lives(s) \ {s[t].next}
  PROVE  \A p : Held(new, FREE, p) => Held(s, FREE, p)
<1> DEFINE n == s[t].next
<1>1. s \in [Slots -> Section] /\ Wired(s) /\ Close(s) /\ Lives(s) \subseteq Slots
  BY SlotFacts DEF Built, Draft, Typed
<1>2. /\ new[t].start = s[t].start /\ new[t].free = s[t].free /\ new[t].pages = s[t].pages + s[n].pages
      /\ \A x \in Slots \ {t, n} : SameBody(s, new, x)
  BY DEF MergedInto
<1>3. n \in Lives(s) /\ s[n].free = s[t].free
  BY <1>1 DEF Wired
<1> HIDE DEF n
<1> SUFFICES ASSUME NEW p, Held(new, FREE, p)
             PROVE  Held(s, FREE, p)
  OBVIOUS
<1>4. PICK i \in Lives(new) : new[i].free = FREE /\ Within(new, i, p)
  BY DEF Held
<1>5. i \in Lives(s) /\ i # n
  BY <1>4 DEF n
<1>6. CASE i = t
  <2>1. s[t].free = FREE /\ s[n].free = FREE
    BY <1>2, <1>3, <1>4, <1>6
  <2>2. EndOf(s, t) = s[n].start
    BY <2>1, <1>1 DEF Close, Plain, n
  <2>3. /\ s[t].start \in Nat /\ s[t].pages \in Nat /\ s[n].start \in Nat /\ s[n].pages \in Nat
        /\ s[n].start = s[t].start + s[t].pages * PAGE_SIZE
    BY <2>2, <1>1, <1>3, NeatNumbers DEF EndOf
  <2>4. PageRun(s[t].start, s[t].pages + s[n].pages) = PageRun(s[t].start, s[t].pages) \cup PageRun(s[n].start, s[n].pages)
    <3> DEFINE a == s[t].start
               k == s[t].pages
               b == s[n].start
               l == s[n].pages
    <3>1. a \in Nat /\ k \in Nat /\ b \in Nat /\ l \in Nat /\ b = a + k * PAGE_SIZE
      BY <2>3
    <3> HIDE DEF a, k, b, l
    <3>2. PageRun(a, k + l) = PageRun(a, k) \cup PageRun(b, l)
      BY <3>1, RunJoin
    <3> QED
      BY <3>2 DEF a, k, b, l
  <2>5. p \in PageRun(s[t].start, s[t].pages + s[n].pages)
    BY <1>2, <1>4, <1>6 DEF Within
  <2>6. Within(s, t, p) \/ Within(s, n, p)
    BY <2>4, <2>5 DEF Within
  <2> QED
    BY <2>1, <2>6, <1>3 DEF Held
<1>7. CASE i # t
  BY <1>1, <1>2, <1>4, <1>5, <1>7 DEF SameBody, Within, Held
<1> QED
  BY <1>6, <1>7

(* What the code of pmm_recombine writes. *)
MergeFields(s, t) ==
  LET next  == s[t].next
      after == s[next].next
      grown == [s EXCEPT ![t].pages = (@ + s[next].pages) % W,
                         ![t].next = after]
  IN  IF after # NULL
      THEN [Delete(grown, s[after].prev) EXCEPT ![after].prev = t]
      ELSE Delete(grown, next)

(* The assignments of a turn of pmm_recombine do that. *)
LEMMA MergeDoes ==
  ASSUME NEW s, NEW r, NEW t \in Lives(s), NEW h \in Nat, M \in Nat, Built(s, r, h),
         s[t].next # NULL, M * h < W
  PROVE  MergedInto(s, MergeFields(s, t), t)
<1> DEFINE n == s[t].next
           f == s[n].next
           v == (s[t].pages + s[n].pages) % W
           a == SetPages(s, t, v)
           b == SetNext(a, t, f)
           c == SetAll(b, n, Unlinked)
           d == SetPrev(c, f, t)
           new == MergeFields(s, t)
<1>1. /\ s \in [Slots -> Section] /\ Wired(s) /\ Ordered(s, r) /\ Counted(s, r)
      /\ \A i \in Lives(s) : r[i] + s[i].pages <= M * h
  BY DEF Built, Draft, Typed
<1>2. /\ Real \subseteq Slots /\ Lives(s) \subseteq Real /\ NULL \notin Real /\ NULL \in Slots
      /\ Slots = Real \cup {NULL}
  BY SlotFacts
<1>3. n \in Lives(s) /\ s[n].prev = t /\ n # NULL /\ r[t] < r[n] /\ n # t /\ r[t] + s[t].pages <= r[n]
  BY <1>1, <1>2 DEF Wired, Ordered, Counted
<1>4. f \in Slots /\ f # t /\ f # n /\ (f # NULL => f \in Lives(s) /\ s[f].prev = n)
  <2>1. f \in Slots
    BY <1>1, <1>2, <1>3, FieldTypes
  <2>2. f # NULL => f \in Lives(s) /\ s[f].prev = n /\ r[n] < r[f]
    BY <1>1, <1>3 DEF Wired, Ordered
  <2>3. r[t] \in Nat /\ r[n] \in Nat /\ NULL \notin Lives(s)
    BY <1>1, <1>2, <1>3 DEF Ordered
  <2> QED
    BY <2>1, <2>2, <2>3, <1>3
<1>5. v = s[t].pages + s[n].pages /\ v \in 0 .. W - 1
  <2>1. s[t].pages \in Nat /\ s[n].pages \in Nat /\ r[t] \in Nat /\ r[n] \in Nat
    BY <1>1, <1>2, <1>3, NeatNumbers DEF Ordered
  <2> DEFINE z == M * h
  <2>2. r[n] + s[n].pages <= z /\ z < W /\ z \in Nat
    BY <1>1, <1>3, PlaceSteps
  <2> HIDE DEF z
  <2>3. s[t].pages + s[n].pages < W
    BY <2>1, <2>2, <1>3, NumberFacts
  <2>4. s[t].pages + s[n].pages \in 0 .. W - 1
    BY <2>1, <2>3, NumberFacts
  <2> QED
    BY <2>4, ModSmall
<1>6. new = IF f # NULL THEN SetPrev(SetAll(b, s[f].prev, Unlinked), f, t) ELSE c
  BY Zenon DEF MergeFields, Delete, SetAll, SetPrev, SetNext, SetPages
<1> HIDE DEF v, a, b, c, d, new, f, n
<1>7. Unlinked \in Section /\ Unlinked.prev = NULL /\ Unlinked.next = NULL
  <2>1. 0 \in 0 .. W - 1
    BY NumberFacts
  <2> QED
    BY <2>1, <1>2 DEF Unlinked, Section, USED
<1>8. t \in Slots /\ n \in Slots
  BY <1>2, <1>3
<1>9. /\ a \in [Slots -> Section] /\ (\A j \in Slots \ {t} : a[j] = s[j])
      /\ a[t].pages = v /\ a[t].prev = s[t].prev
      /\ a[t].start = s[t].start /\ a[t].free = s[t].free
  BY <1>1, <1>5, <1>8, SetPagesDoes DEF a
<1>10. /\ b \in [Slots -> Section] /\ (\A j \in Slots \ {t} : b[j] = a[j])
       /\ b[t].next = f /\ b[t].prev = a[t].prev /\ SameBody(a, b, t)
  BY <1>4, <1>8, <1>9, SetNextDoes DEF b
<1>11. c \in [Slots -> Section] /\ (\A j \in Slots \ {n} : c[j] = b[j]) /\ c[n] = Unlinked
  BY <1>7, <1>8, <1>10, SetAllDoes DEF c
<1>12. f # NULL => /\ new \in [Slots -> Section] /\ (\A j \in Slots \ {f} : new[j] = c[j])
                   /\ new[f].prev = t /\ new[f].next = c[f].next /\ SameBody(c, new, f)
  <2> SUFFICES ASSUME f # NULL
               PROVE  /\ new \in [Slots -> Section] /\ (\A j \in Slots \ {f} : new[j] = c[j])
                      /\ new[f].prev = t /\ new[f].next = c[f].next /\ SameBody(c, new, f)
    OBVIOUS
  <2>1. new = d
    BY <1>4, <1>6 DEF c, d
  <2>2. /\ d \in [Slots -> Section] /\ (\A j \in Slots \ {f} : d[j] = c[j])
        /\ d[f].prev = t /\ d[f].next = c[f].next /\ SameBody(c, d, f)
    BY <1>4, <1>8, <1>11, SetPrevDoes DEF d
  <2> QED
    BY <2>1, <2>2
<1>13. f = NULL => new = c
  BY <1>6
<1>14. /\ new \in [Slots -> Section] /\ new[n] = Unlinked
       /\ new[t].start = s[t].start /\ new[t].free = s[t].free /\ new[t].pages = v
       /\ new[t].prev = s[t].prev /\ new[t].next = f
       /\ \A j \in Slots \ {t, n, f} : new[j] = s[j]
  <2>1. c[t] = b[t] /\ b[t].pages = v /\ b[t].start = s[t].start /\ b[t].free = s[t].free
        /\ b[t].prev = s[t].prev /\ b[t].next = f
    BY <1>3, <1>8, <1>9, <1>10, <1>11 DEF SameBody
  <2>2. new[t] = c[t] /\ new[n] = c[n]
    BY <1>4, <1>8, <1>12, <1>13
  <2>3. \A j \in Slots \ {t, n, f} : new[j] = s[j]
    BY <1>9, <1>10, <1>11, <1>12, <1>13
  <2> QED
    BY <2>1, <2>2, <2>3, <1>11, <1>12, <1>13
<1>15. SameBody(s, new, f) /\ new[f].next = s[f].next /\ (f # NULL => new[f].prev = t)
       /\ (f = NULL => new[f] = s[f])
  <2>1. c[f] = s[f]
    BY <1>4, <1>9, <1>10, <1>11
  <2> QED
    BY <2>1, <1>4, <1>12, <1>13 DEF SameBody
<1>16. Unlinks(s, new, n)
  <2>1. \A i \in Real : i # n =>
         /\ new[i].prev = IF i = f THEN t ELSE s[i].prev
         /\ new[i].next = IF i = t THEN f ELSE s[i].next
         /\ i \notin Lives(s) => new[i] = s[i]
    BY <1>2, <1>4, <1>14, <1>15
  <2>2. s[n].next = f
    BY DEF f
  <2> QED
    BY <2>1, <2>2, <1>3, <1>14 DEF Unlinks
<1>17. \A x \in Slots \ {t, n} : SameBody(s, new, x)
  BY <1>14, <1>15 DEF SameBody
<1> QED
  BY <1>5, <1>14, <1>16, <1>17 DEF MergedInto, n, new

(* A turn of pmm_recombine that merges. *)
LEMMA RecombineMergeStep ==
  ASSUME NEW r, IInv(r), RecombineMerge
  PROVE  IInv(r)' /\ \A p : Held(sec', FREE, p) => Held(sec, FREE, p)
<1> DEFINE t == selected
<1>1. /\ pc = "recombine" /\ t # NULL /\ sec[t].next # NULL /\ sec[t].free = sec[sec[t].next].free
      /\ sec' = MergeFields(sec, t) /\ detected' = TRUE /\ selected' = sec[sec[t].next].next
      /\ head' = head /\ pc' = pc /\ in_use' = in_use /\ UNCHANGED <<answers, entries, data_size>>
  BY Zenon DEF RecombineMerge, MergeFields, mapVars, historyVars
<1>2. /\ MapInv /\ Built(sec, r, head) /\ t \in Lives(sec) /\ Wired(sec)
      /\ head \in Nat /\ DeadFrom(sec, head) /\ head * SECTION_SIZE <= data_size
      /\ M \in Nat /\ (head <= 2 * Len(entries) - 1 => M * head < W)
  BY <1>1, BootFacts
<1>3. head <= 2 * Len(entries) - 1
  BY <1>1 DEF IInv, BootInv
<1>4. MergedInto(sec, sec', t)
  <2>1. MergedInto(sec, MergeFields(sec, t), t)
    BY <1>1, <1>2, <1>3, MergeDoes
  <2> QED
    BY Zenon, <2>1, <1>1
<1>5. Built(sec', r, head) /\ Lives(sec') = Lives(sec) \ {sec[t].next}
  BY <1>1, <1>2, <1>4, MergedBuilt
<1>6. /\ sec[t].next \in Lives(sec) /\ sec[sec[t].next].prev = t
      /\ sec[sec[t].next].next # NULL => /\ sec[sec[t].next].next \in Lives(sec)
                                         /\ sec[sec[sec[t].next].next].prev = sec[t].next
  BY <1>1, <1>2 DEF Wired
<1>7. selected' \in Lives(sec') \cup {NULL}
  <2>1. CASE selected' = NULL
    BY <2>1
  <2>2. CASE selected' # NULL
    <3>1. selected' \in Lives(sec) /\ r[sec[t].next] < r[selected'] /\ r[selected'] \in Nat
      BY <2>2, <1>1, <1>2, <1>6, SlotFacts DEF Built, Draft, Ordered
    <3> QED
      BY <3>1, <1>5
  <2> QED
    BY <2>1, <2>2
<1>8. BootInv(r)'
  BY <1>1, <1>3, <1>5, <1>7 DEF BootInv
<1>9. CallInv(r)'
  BY <1>1 DEF CallInv, Started
<1>10. SameLow(sec, sec')
  <2>1. NULL \in Slots \ {t, sec[t].next}
    BY <1>2, <1>6, SlotFacts
  <2> QED
    BY <2>1, <1>4 DEF MergedInto, SameLow, SameBody
<1>11. DeadFrom(sec', head')
  BY <1>1, <1>2, <1>5 DEF DeadFrom
<1>12. head' \in Nat /\ head' * SECTION_SIZE <= data_size
  BY <1>1, <1>2
<1>13. pc \in {"entries", "recombine"} /\ pc' \in {"entries", "recombine", "idle"}
  BY <1>1
<1>14. \A p : Held(sec', FREE, p) => Held(sec, FREE, p)
  BY Zenon, <1>1, <1>2, <1>4, <1>5, MergedHeld
<1> HIDE DEF t
<1>15. IInv(r)'
  BY Zenon, <1>1, <1>2, <1>8, <1>9, <1>10, <1>11, <1>12, <1>13, BootStep
<1> QED
  BY <1>14, <1>15

(* A turn that does not. *)
LEMMA RecombineSkipStep ==
  ASSUME NEW r, IInv(r), RecombineSkip
  PROVE  IInv(r)'
<1>1. /\ pc = "recombine" /\ selected # NULL /\ sec[selected].next # NULL
      /\ sec[selected].free # sec[sec[selected].next].free
      /\ sec' = sec /\ detected' = detected /\ selected' = sec[selected].next
      /\ head' = head /\ pc' = pc /\ in_use' = in_use /\ UNCHANGED <<answers, entries, data_size>>
  BY DEF RecombineSkip, mapVars, listVars, bootVars, historyVars
<1>2. /\ MapInv /\ Built(sec, r, head) /\ selected \in Lives(sec) /\ Wired(sec) /\ Ordered(sec, r)
      /\ head \in Nat /\ DeadFrom(sec, head) /\ head * SECTION_SIZE <= data_size
  BY <1>1, BootFacts
<1>3. head <= 2 * Len(entries) - 1 /\ (~detected => Distinct(sec, r, selected))
  BY <1>1 DEF IInv, BootInv
<1>4. selected' \in Lives(sec) /\ selected' # NULL
  BY <1>1, <1>2 DEF Wired
<1>5. ~detected => Distinct(sec, r, selected')
  <2> SUFFICES ASSUME ~detected, NEW i \in Lives(sec), r[i] < r[selected'], sec[i].next # NULL
               PROVE  sec[i].free # sec[sec[i].next].free
    BY <1>4 DEF Distinct
  <2>1. r[i] <= r[selected] /\ r[i] \in Nat /\ r[selected] \in Nat /\ r[selected'] \in Nat
    BY <1>1, <1>2, <1>4, SlotFacts DEF Ordered
  <2>2. i = selected \/ r[i] < r[selected]
    BY <2>1, <1>2 DEF Ordered
  <2> QED
    BY <2>2, <1>1, <1>3 DEF Distinct
<1>6. BootInv(r)'
  BY <1>1, <1>2, <1>3, <1>4, <1>5 DEF BootInv
<1>7. CallInv(r)'
  BY <1>1 DEF CallInv, Started
<1>8. SameLow(sec, sec')
  BY <1>1 DEF SameLow
<1> QED
  BY <1>1, <1>2, <1>6, <1>7, <1>8, BootStep

(* A list that no two sections of a kind are next to each other in is in the *)
(* order that calls rely on.                                                 *)
LEMMA DistinctFine ==
  ASSUME NEW s, NEW r, NEW h, NEW x \in Lives(s), Built(s, r, h), Distinct(s, r, x), s[x].next = NULL
  PROVE  /\ Fine(s, r)
         /\ \A i \in Lives(s) : s[i].next # NULL => s[i].free # s[s[i].next].free
<1>1. /\ s \in [Slots -> Section] /\ Typed(s) /\ Wired(s) /\ Ordered(s, r) /\ Counted(s, r) /\ Rising(s, r) /\ Close(s)
  BY DEF Built, Draft, Typed
<1>2. /\ Real \subseteq Slots /\ Lives(s) \subseteq Real /\ NULL \notin Real /\ pmm_sections \in Lives(s)
  BY SlotFacts
<1>3. \A i \in Lives(s) : r[i] \in Nat /\ s[i].start \in Nat
  BY <1>1, <1>2, NeatNumbers DEF Ordered
<1>4. \A i \in Lives(s) : s[i].next # NULL => s[i].free # s[s[i].next].free
  <2> TAKE i \in Lives(s)
  <2> HAVE s[i].next # NULL
  <2>1. r[i] <= r[x]
    BY <1>1 DEF Ordered
  <2>2. i # x
    OBVIOUS
  <2>3. r[i] < r[x]
    BY <2>1, <2>2, <1>1, <1>3 DEF Ordered
  <2> QED
    BY <2>3 DEF Distinct
<1>5. \A i \in Lives(s) : Firm(s, i)
  <2> TAKE i \in Lives(s)
  <2>1. CASE i = pmm_sections
    BY <2>1 DEF Firm
  <2>2. CASE i # pmm_sections
    <3>1. s[i].prev # NULL
      BY <2>2 DEF Lives
    <3>2. s[i].prev \in Lives(s) /\ s[s[i].prev].next = i
      BY <3>1, <1>1 DEF Wired
    <3>3. i # NULL
      BY <1>2
    <3>4. s[s[i].prev].free # s[i].free
      BY <3>2, <3>3, <1>4
    <3>5. s[s[i].prev].free \in {USED, FREE, BAD} /\ s[i].free \in {USED, FREE, BAD}
      BY <3>2, <1>1, <1>2 DEF Typed
    <3> QED
      BY <3>4, <3>5 DEF Firm, Plain
  <2> QED
    BY <2>1, <2>2
<1>6. Placed(s, r)
  <2> SUFFICES ASSUME NEW i \in Lives(s), NEW j \in Lives(s), r[i] < r[j]
               PROVE  IF Plain(s, i) THEN EndOf(s, i) <= s[j].start ELSE s[i].start < s[j].start
    BY DEF Placed
  <2>1. s[i].start < s[j].start
    BY <1>1, <1>5 DEF Rising
  <2>2. CASE Plain(s, i)
    <3>1. s[i].next # NULL
      BY <1>1, <1>3 DEF Ordered
    <3>2. s[i].next \in Lives(s) /\ EndOf(s, i) = s[s[i].next].start
      BY <3>1, <2>2, <1>1 DEF Wired, Close
    <3>3. r[s[i].next] <= r[j]
      BY <3>1, <1>1, <1>3 DEF Ordered
    <3>4. s[i].next = j \/ r[s[i].next] < r[j]
      BY <3>2, <3>3, <1>1, <1>3 DEF Ordered
    <3>5. s[s[i].next].start <= s[j].start
      BY <3>2, <3>4, <1>1, <1>3, <1>5 DEF Rising
    <3> QED
      BY <3>2, <3>5, <2>2
  <2> QED
    BY <2>1, <2>2
<1>7. Filled(s)
  BY <1>1 DEF Filled, Counted
<1>8. Apart(s)
  BY <1>4 DEF Apart
<1> QED
  BY <1>1, <1>4, <1>6, <1>7, <1>8 DEF Fine, Neat

(* The end of a pass: of the last one, the list is as the calls need it. *)
LEMMA RecombineEndStep ==
  ASSUME NEW r, IInv(r), RecombineEnd
  PROVE  IInv(r)'
<1>1. /\ pc = "recombine" /\ (selected = NULL \/ sec[selected].next = NULL)
      /\ sec' = sec /\ detected' = FALSE
      /\ head' = head /\ in_use' = in_use /\ UNCHANGED <<answers, entries, data_size>>
  BY DEF RecombineEnd, mapVars, listVars, historyVars
<1>2. /\ MapInv /\ Built(sec, r, head) /\ selected \in Lives(sec) \cup {NULL} /\ Ordered(sec, r)
      /\ head \in Nat /\ DeadFrom(sec, head) /\ head * SECTION_SIZE <= data_size
  BY <1>1, BootFacts
<1>3. head <= 2 * Len(entries) - 1 /\ (~detected => Distinct(sec, r, selected))
  BY <1>1 DEF IInv, BootInv
<1>4. SameLow(sec, sec')
  BY <1>1 DEF SameLow
<1>5. CASE detected
  <2>1. pc' = pc /\ selected' = pmm_sections
    BY <1>5 DEF RecombineEnd
  <2>2. Distinct(sec, r, pmm_sections) /\ pmm_sections \in Lives(sec)
    BY <1>2, SlotFacts DEF Distinct, Ordered
  <2>3. BootInv(r)'
    BY <1>1, <1>2, <1>3, <2>1, <2>2 DEF BootInv
  <2>4. CallInv(r)'
    BY <1>1, <2>1 DEF CallInv, Started
  <2> QED
    BY <1>1, <1>2, <1>4, <2>1, <2>3, <2>4, BootStep
<1>6. CASE ~detected
  <2>1. pc' = "idle" /\ selected' = NULL
    BY <1>6 DEF RecombineEnd
  <2>2. selected \in Lives(sec) /\ sec[selected].next = NULL
    BY <1>1, <1>2, <1>3, <1>6 DEF Distinct
  <2>3. Fine(sec, r)
    BY <2>2, <1>2, <1>3, <1>6, DistinctFine
  <2>4. BootInv(r)'
    BY <2>1 DEF BootInv
  <2>5. in_use = {}
    BY <1>1, <1>2 DEF MapInv
  <2>6. CallInv(r)'
    BY <1>1, <2>1, <2>3, <2>5 DEF CallInv, Fine
  <2> QED
    BY <1>1, <1>2, <1>4, <2>1, <2>4, <2>6, BootStep
<1> QED
  BY <1>5, <1>6

-----------------------------------------------------------------------------
(* The list starts with the section of the first megabyte. *)
Origin == [prev |-> NULL, next |-> NULL, start |-> 0, pages |-> MEGABYTE \div PAGE_SIZE, free |-> BAD]

(* The pages of the first megabyte can be counted. *)
LEMMA OriginPages ==
  ASSUME M \in Nat, M < W, BAD \in 0 .. W - 1
  PROVE  /\ MEGABYTE \div PAGE_SIZE \in 1 .. M /\ Origin \in Section
         /\ Origin.prev = NULL /\ Origin.next = NULL /\ Origin.start = 0
         /\ Origin.pages = MEGABYTE \div PAGE_SIZE /\ Origin.free = BAD
<1> DEFINE a == MEGABYTE \div PAGE_SIZE
           b == MEGABYTE % PAGE_SIZE
<1>1. a \in Int /\ b \in 0 .. PAGE_SIZE - 1 /\ MEGABYTE = b + PAGE_SIZE * a /\ PAGE_SIZE * a \in Int
  BY NumberFacts, DivMod
<1>2. MEGABYTE \in 1 .. W - 1 /\ PAGE_SIZE <= MEGABYTE
  BY NumberFacts, PMMAssumption
<1>3. Pages(MEGABYTE) \in 1 .. M /\ Pages(MEGABYTE) = a + (IF b # 0 THEN 1 ELSE 0)
  BY <1>2, PagesRange DEF Pages
<1> HIDE DEF a, b
<1>4. a # 0
  <2> SUFFICES ASSUME a = 0 PROVE FALSE
    OBVIOUS
  <2>1. PAGE_SIZE * a = 0
    BY NumberFacts
  <2> QED
    BY <2>1, <1>1, <1>2, NumberFacts
<1>5. a \in 1 .. M
  BY <1>1, <1>3, <1>4
<1>6. a \in 0 .. W - 1 /\ 0 \in 0 .. W - 1 /\ NULL \in Slots
  BY <1>5, NumberFacts, SlotFacts
<1>7. Origin = [prev |-> NULL, next |-> NULL, start |-> 0, pages |-> a, free |-> BAD]
  BY DEF Origin, a
<1>8. Origin \in Section /\ Origin.prev = NULL /\ Origin.next = NULL /\ Origin.start = 0
      /\ Origin.pages = a /\ Origin.free = BAD
  BY <1>6, <1>7 DEF Section
<1> QED
  BY <1>5, <1>8 DEF a

(* The list of that one section is built. *)
LEMMA OriginBuilt ==
  ASSUME NEW s \in [Slots -> Section], \A i \in Real : s[i] = Unlinked, s[NULL].free \notin {USED, FREE},
         NEW e, M \in Nat, M < W, NEW new, new = SetAll(s, pmm_sections, Origin)
  PROVE  /\ Built(new, [i \in Real |-> 0], 1) /\ AtEnd(new, pmm_sections, 0, e)
         /\ Lives(new) = {pmm_sections} /\ SameLow(s, new)
<1> DEFINE o == pmm_sections
           r == [i \in Real |-> 0]
<1>1. Slots = Real \cup {NULL} /\ NULL \notin Real /\ o \in Real
  BY SlotFacts
<1>2. BAD \in 0 .. W - 1
  <2>1. s[NULL].free \in 0 .. W - 1
    BY <1>1, FieldTypes
  <2> QED
    BY <2>1, NumberFacts DEF USED, FREE, BAD
<1>3. /\ Origin \in Section /\ Origin.prev = NULL /\ Origin.next = NULL /\ Origin.start = 0
      /\ Origin.pages \in 1 .. M /\ Origin.free = BAD
  BY <1>2, OriginPages
<1>4. new \in [Slots -> Section] /\ (\A j \in Slots \ {o} : new[j] = s[j]) /\ new[o] = Origin
  <2>1. pmm_sections \in Slots /\ Origin \in Section
    BY <1>1, <1>3
  <2> QED
    BY <2>1 DEF SetAll
<1>5. Lives(new) = {o}
  <2>1. \A i \in Real : i # o => new[i].prev = NULL
    BY <1>1, <1>4 DEF Unlinked
  <2> QED
    BY <2>1, <1>1 DEF Lives
<1>6. new[o].prev = NULL /\ new[o].next = NULL /\ new[o].start = 0 /\ new[o].pages \in 1 .. M /\ new[o].free = BAD
  BY <1>3, <1>4
<1>7. r \in [Real -> Nat] /\ r[o] = 0
  BY <1>1
<1> HIDE DEF r
<1>8. Typed(new)
  <2>1. \A i \in Real : new[i].free \in {USED, FREE, BAD}
    BY <1>1, <1>4, <1>6 DEF Unlinked
  <2> QED
    BY <2>1, <1>1, <1>4, <1>6 DEF Typed
<1>9. Wired(new)
  BY <1>1, <1>4, <1>5, <1>6 DEF Wired
<1>10. Ordered(new, r)
  BY <1>5, <1>6, <1>7 DEF Ordered
<1>11. Counted(new, r)
  BY <1>5, <1>6 DEF Counted
<1>12. Rising(new, r)
  BY <1>5, <1>7 DEF Rising
<1>13. ~Plain(new, o)
  BY <1>6 DEF Plain, USED, FREE, BAD
<1>14. Close(new)
  BY <1>5, <1>13 DEF Close
<1>15. \A i \in Lives(new) : r[i] + new[i].pages <= M * 1
  BY <1>5, <1>6, <1>7
<1>16. AtEnd(new, o, 0, e)
  BY <1>5, <1>6, <1>13 DEF AtEnd
<1>17. SameLow(s, new)
  BY <1>1, <1>4 DEF SameLow
<1>18. Built(new, r, 1)
  BY <1>8, <1>9, <1>10, <1>11, <1>12, <1>14, <1>15 DEF Built, Draft
<1> QED
  BY <1>5, <1>16, <1>17, <1>18 DEF r

(* pmm_start makes it. *)
LEMMA StartTableStep ==
  ASSUME NEW r, IInv(r), StartTable
  PROVE  \E q : IInv(q)'
<1> DEFINE q == [i \in Real |-> 0]
<1>1. /\ pc = "boot" /\ entries' = Made(answers).entries
      /\ data_size' = TableSize(Made(answers).entries) /\ sec' = SetAll(sec, pmm_sections, Origin)
      /\ head' = 1 /\ pc' = "entries" /\ selected' = pmm_sections /\ idx' = 1
      /\ answers' = answers /\ in_use' = in_use
  BY Zenon DEF StartTable, SetAll, Origin, historyVars
<1>2. /\ sec \in [Slots -> Section] /\ \A i \in Real : sec[i] = Unlinked
  BY <1>1 DEF IInv, BootInv
<1>3. answers \in BiosAnswers /\ Low(sec) /\ in_use = {}
  BY <1>1 DEF IInv, MapInv
<1>4. PICK low \in LowMemory : sec[NULL].start = low.start /\ sec[NULL].free = low.free
  BY <1>3 DEF Low
<1>5. low.free \notin {USED, FREE} /\ Describable(Made(answers).entries, low)
  BY <1>3, BootAssumption
<1>6. Describable(entries', low)
  BY Zenon, <1>1, <1>5
<1>7. Len(entries') \in Nat \ {0} /\ M \in Nat \ {0} /\ M < W
  BY <1>6, PlacesFit
<1>8. sec[NULL].free \notin {USED, FREE}
  BY <1>4, <1>5
<1> DEFINE e == BaseFrom(entries', 1, sec[NULL].start)
<1> HIDE DEF q, e
<1>9. /\ Built(sec', q, 1) /\ AtEnd(sec', pmm_sections, 0, e)
      /\ Lives(sec') = {pmm_sections} /\ SameLow(sec, sec')
  <2>1. M \in Nat
    BY <1>7
  <2> QED
    BY Zenon, <2>1, <1>1, <1>2, <1>7, <1>8, OriginBuilt DEF q
<1>10. data_size' = TableSize(entries')
  BY Zenon, <1>1
<1>11. head' * SECTION_SIZE <= data_size'
  <2>1. TableSize(entries') \in Nat /\ (2 * Len(entries') - 1) * SECTION_SIZE <= TableSize(entries')
    BY <1>6 DEF Describable
  <2>2. 2 * Len(entries') - 1 \in Nat /\ 1 <= 2 * Len(entries') - 1 /\ 1 \in Nat
    BY <1>7
  <2>3. 1 * SECTION_SIZE <= TableSize(entries')
    BY Zenon, <2>1, <2>2, SmallerTable
  <2> QED
    BY <2>3, <1>1, <1>10
<1>12. DeadFrom(sec', head')
  BY <1>1, <1>9 DEF DeadFrom, pmm_sections, Real
<1>13. Low(sec')
  BY <1>4, <1>9 DEF Low, SameLow
<1>14. MapInv'
  BY <1>1, <1>3, <1>10, <1>11, <1>12, <1>13 DEF MapInv
<1>15. BootInv(q)'
  <2>1. BaseBefore(entries', idx') = 0
    BY <1>1 DEF BaseBefore
  <2>2. BaseFrom(entries', idx', sec'[NULL].start) = e
    BY <1>1, <1>9 DEF e, SameLow
  <2>3. AtEnd(sec', selected', BaseBefore(entries', idx'), BaseFrom(entries', idx', sec'[NULL].start))
    BY <2>1, <2>2, <1>1, <1>9
  <2>4. idx' \in 1 .. Len(entries') + 1 /\ head' <= 2 * idx' - 1 /\ ~(idx' > 1)
    BY <1>1, <1>7
  <2>5. selected' \in Lives(sec') /\ Built(sec', q, head')
    BY <1>1, <1>9
  <2> QED
    BY <2>3, <2>4, <2>5, <1>1 DEF BootInv
<1>16. CallInv(q)'
  BY <1>1 DEF CallInv, Started
<1> QED
  BY <1>14, <1>15, <1>16 DEF IInv

(* The steps of pmm_start keep the invariant. *)
LEMMA StartSteps ==
  ASSUME NEW r, IInv(r), Start
  PROVE  \E q : IInv(q)'
BY StartTableStep, SkipEntryStep, AddEntryStep, StartRecombineStep, RecombineMergeStep,
   RecombineSkipStep, RecombineEndStep DEF Start

(* It holds when the machine starts. *)
LEMMA Initially ==
  ASSUME Init
  PROVE  \E r : IInv(r)
<1>1. /\ answers \in BiosAnswers /\ data_size = 0 /\ head = 0 /\ pc = "boot" /\ in_use = {} /\ selected = NULL
  BY DEF Init
<1>2. PICK low \in LowMemory : sec = [i \in Slots |-> IF i = NULL THEN low ELSE Unlinked]
  BY DEF Init
<1>3. low \in Section
  BY BootAssumption
<1>4. Slots = Real \cup {NULL} /\ NULL \notin Real
  BY SlotFacts
<1>5. Unlinked \in Section
  <2>1. 0 \in 0 .. W - 1
    BY NumberFacts
  <2> QED
    BY <2>1, <1>4 DEF Unlinked, Section, USED
<1>6. sec \in [Slots -> Section] /\ (\A i \in Real : sec[i] = Unlinked) /\ sec[NULL] = low
  BY <1>2, <1>3, <1>4, <1>5
<1>7. Low(sec)
  BY <1>6 DEF Low
<1>8. head * SECTION_SIZE <= data_size
  BY <1>1, NumberFacts
<1>9. MapInv
  BY <1>1, <1>7, <1>8 DEF MapInv
<1>10. BootInv(0)
  BY <1>1, <1>6 DEF BootInv
<1>11. CallInv(0)
  BY <1>1 DEF CallInv, Started
<1> QED
  BY <1>9, <1>10, <1>11 DEF IInv

-----------------------------------------------------------------------------
(* What pmm_recalculate_free_memory counts. *)
LEMMA RecalculatedNumber ==
  ASSUME sec \in [Slots -> Section]
  PROVE  Recalculated \in 0 .. W - 1
<1> DEFINE S == FreeSlots
           c(s) == CHOOSE y \in s : TRUE
           p == [i \in S |-> sec[i].pages * PAGE_SIZE]
           x == [s \in SUBSET S |-> c(s)]
           F == CHOOSE f : f = [s \in SUBSET S |-> IF s = {} THEN 0
                                                   ELSE sec[c(s)].pages * PAGE_SIZE + f[s \ {c(s)}]]
<1>1. Recalculated = F[S] % W
  BY DEF Recalculated, MapThenSumSet, MapThenFoldSet
<1>2. S \subseteq Real
  BY SlotFacts DEF FreeSlots
<1>3. IsFiniteSet(S)
  <2>1. IsFiniteSet(Real)
    BY NumberFacts, FS_Interval DEF Real
  <2> QED
    BY <2>1, <1>2, FS_Subset
<1>4. \A s \in SUBSET S : s # {} => c(s) \in s
  OBVIOUS
<1> HIDE DEF S
<1>5. Chooses(S, x)
  BY <1>4 DEF Chooses
<1>6. \A i \in S : p[i] \in Nat
  <2>1. \A i \in S : sec[i].pages \in Nat
    BY <1>2, SlotFacts, FieldTypes
  <2> QED
    BY <2>1, NumberFacts
<1>7. \A f : IsSum(S, p, x, f) <=>
               f = [s \in SUBSET S |-> IF s = {} THEN 0
                                       ELSE sec[c(s)].pages * PAGE_SIZE + f[s \ {c(s)}]]
  <2> TAKE f
  <2> DEFINE g == [s \in SUBSET S |-> IF s = {} THEN 0 ELSE p[x[s]] + f[s \ {x[s]}]]
             h == [s \in SUBSET S |-> IF s = {} THEN 0
                                      ELSE sec[c(s)].pages * PAGE_SIZE + f[s \ {c(s)}]]
  <2>1. \A s \in SUBSET S : x[s] = c(s)
    OBVIOUS
  <2>2. \A s \in SUBSET S : s # {} => p[x[s]] = sec[c(s)].pages * PAGE_SIZE
    BY <1>4
  <2> HIDE DEF x, p, c
  <2>3. \A s \in SUBSET S : (IF s = {} THEN 0 ELSE p[x[s]] + f[s \ {x[s]}])
                          = (IF s = {} THEN 0 ELSE sec[c(s)].pages * PAGE_SIZE + f[s \ {c(s)}])
    BY <2>1, <2>2
  <2>4. g = h
    BY <2>3
  <2>5. IsSum(S, p, x, f) <=> f = g
    BY DEF IsSum
  <2> HIDE DEF g, h
  <2>6. IsSum(S, p, x, f) <=> f = h
    BY <2>4, <2>5
  <2> QED
    BY <2>6 DEF h
<1>8. \E f : IsSum(S, p, x, f)
  BY <1>3, <1>5, SumExists
<1> DEFINE Q(f) == f = [s \in SUBSET S |-> IF s = {} THEN 0
                                       ELSE sec[c(s)].pages * PAGE_SIZE + f[s \ {c(s)}]]
<1>9. F = CHOOSE f : Q(f)
  OBVIOUS
<1>10. \E f : Q(f)
  <2>1. PICK f : IsSum(S, p, x, f)
    BY <1>8
  <2>2. IsSum(S, p, x, f) <=> Q(f)
    BY <1>7
  <2> HIDE DEF Q
  <2> QED
    BY <2>1, <2>2
<1>11. Q(F)
  <2> HIDE DEF Q, F
  <2> QED
    BY <1>9, <1>10
<1>12. IsSum(S, p, x, F)
  BY <1>7, <1>11
<1> HIDE DEF F, Q, p, x, c
<1>13. F[S] \in Nat
  BY <1>3, <1>5, <1>6, <1>12, SumNumber
<1>14. F[S] % W \in 0 .. W - 1
  BY <1>13, NumberFacts, DivMod
<1> QED
  BY <1>1, <1>14

-----------------------------------------------------------------------------
(* Every step. *)

(* In every state the table holds sections, and those of its slots that hold *)
(* none are cleared.                                                         *)
LEMMA TableTyped ==
  ASSUME NEW r, IInv(r)
  PROVE  /\ sec \in [Slots -> Section] /\ selected \in Slots /\ head \in 0 .. MAX_SLOTS
         /\ \A i \in Slots \ {NULL} : sec[i].free \in {USED, FREE, BAD}
         /\ data_size \in Nat /\ data_size <= MAX_SLOTS * SECTION_SIZE
         /\ pc # "boot" => \A i \in Real \ Lives(sec) : sec[i] = Unlinked
<1>1. Slots \ {NULL} = Real /\ Lives(sec) \subseteq Slots /\ NULL \in Slots
  BY SlotFacts
<1>2. \A h \in Nat : h * SECTION_SIZE <= MAX_SLOTS * SECTION_SIZE => h \in 0 .. MAX_SLOTS
  BY NumberFacts
<1>3. CASE pc = "boot"
  <2>1. sec \in [Slots -> Section] /\ (\A i \in Real : sec[i] = Unlinked) /\ selected = NULL /\ head = 0 /\ data_size = 0
    BY <1>3 DEF IInv, BootInv
  <2>2. 0 <= MAX_SLOTS * SECTION_SIZE /\ head \in 0 .. MAX_SLOTS
    BY <2>1, NumberFacts
  <2>3. \A i \in Slots \ {NULL} : sec[i].free \in {USED, FREE, BAD}
    BY <1>1, <2>1 DEF Unlinked
  <2> QED
    BY <1>1, <1>3, <2>1, <2>2, <2>3
<1>4. CASE pc # "boot"
  <2>1. Typed(sec) /\ Wired(sec) /\ selected \in Lives(sec) \cup {NULL} /\ MapInv
    <3>1. CASE pc \in {"entries", "recombine"}
      BY <3>1, BootFacts
    <3>2. CASE pc \notin {"entries", "recombine"}
      <4>1. Started
        BY <1>4, <3>2 DEF Started
      <4> QED
        BY <4>1, CallFacts DEF Fine, Neat, IInv
    <3> QED
      BY <3>1, <3>2
  <2>2. sec \in [Slots -> Section] /\ (\A i \in Real : sec[i].free \in {USED, FREE, BAD})
        /\ \A i \in Real \ Lives(sec) : sec[i] = Unlinked
    BY <2>1 DEF Typed, Wired
  <2>3. data_size \in Nat /\ data_size <= MAX_SLOTS * SECTION_SIZE
    BY <1>4, <2>1, TableFits
  <2>4. head \in 0 .. MAX_SLOTS
    <3>1. head \in Nat /\ head * SECTION_SIZE <= data_size
      BY <2>1 DEF MapInv
    <3>2. head * SECTION_SIZE \in Nat /\ MAX_SLOTS * SECTION_SIZE \in Nat
      BY <3>1, NumberFacts
    <3>3. head * SECTION_SIZE <= MAX_SLOTS * SECTION_SIZE
      BY <3>1, <3>2, <2>3
    <3> QED
      BY <1>2, <3>1, <3>3
  <2> QED
    BY <1>1, <2>1, <2>2, <2>3, <2>4
<1> QED
  BY <1>3, <1>4

(* The invariant says nothing of the variables a step may change alone. *)
LEMMA StutterStep ==
  ASSUME NEW r, IInv(r), UNCHANGED vars
  PROVE  IInv(r)'
<1>1. UNCHANGED <<answers, entries, data_size, sec, head, pc, selected, page, count, idx, detected, in_use>>
  BY DEF vars, mapVars, listVars, callVars, bootVars, historyVars
<1>2. MapInv'
  BY <1>1 DEF MapInv, IInv
<1>3. BootInv(r)'
  BY <1>1 DEF BootInv, IInv
<1>4. CallInv(r)'
  <2>1. CallInv(r)
    BY DEF IInv
  <2>2. (\A n : Room(n) => Room(n)') /\ (Started => Started') /\ (Started' => Started)
    BY <1>1 DEF Room, Started
  <2>3. FreeInv(r) => FreeInv(r)'
    BY <1>1, <2>2 DEF FreeInv
  <2>4. LockInv(r) => LockInv(r)'
    BY <1>1, <2>2 DEF LockInv
  <2> QED
    BY <1>1, <2>1, <2>2, <2>3, <2>4 DEF CallInv
<1> QED
  BY <1>2, <1>3, <1>4 DEF IInv

(* Every step keeps the invariant. *)
LEMMA EveryStep ==
  ASSUME \E r : IInv(r), [Next]_vars
  PROVE  (\E r : IInv(r))'
<1>1. PICK r : IInv(r)
  OBVIOUS
<1>2. CASE Start
  BY <1>1, <1>2, StartSteps
<1>3. CASE \/ AllocTurn \/ FreeTurn \/ LockTurn \/ AllocPage \/ PmmDump
           \/ \E p \in in_use, n \in PageCounts : UnlockPages(p, n)
           \/ \E p \in FreePages, n \in PageCounts : LockPages(p, n)
  BY <1>1, <1>3, CallSteps
<1>4. CASE UNCHANGED vars
  BY <1>1, <1>4, StutterStep
<1> QED
  BY <1>2, <1>3, <1>4 DEF Next, Turn

(* free_memory keeps its width. *)
LEMMA FreeMemoryStep ==
  ASSUME NEW r, IInv(r), free_memory \in 0 .. W - 1, [Next]_vars
  PROVE  free_memory' \in 0 .. W - 1
<1>1. Recalculated \in 0 .. W - 1
  BY TableTyped, RecalculatedNumber
<1>2. (free_memory - PAGE_SIZE) % W \in 0 .. W - 1 /\ (free_memory + PAGE_SIZE) % W \in 0 .. W - 1
  BY NumberFacts, DivMod
<1>3. CASE Start
  <2>1. CASE RecombineEnd
    BY <1>1, <2>1 DEF RecombineEnd
  <2>2. CASE StartTable \/ SkipEntry \/ AddEntry \/ StartRecombine \/ RecombineMerge \/ RecombineSkip
    BY <2>2 DEF StartTable, SkipEntry, AddEntry, StartRecombine, RecombineMerge, RecombineSkip
  <2> QED
    BY <1>3, <2>1, <2>2 DEF Start
<1>4. CASE AllocTurn
  <2>1. CASE AllocTake
    BY <1>2, <2>1 DEF AllocTake
  <2>2. CASE AllocUnlink \/ AllocSkip \/ AllocNone
    BY <2>2 DEF AllocUnlink, AllocSkip, AllocNone, Continue
  <2> QED
    BY <1>4, <2>1, <2>2 DEF AllocTurn
<1>5. CASE FreeTurn
  <2>1. CASE FreeEnd
    BY <1>2, <2>1 DEF FreeEnd
  <2>2. CASE FreeAgain \/ FreeSingle \/ FreeFirst \/ FreeSkip
    BY <2>2 DEF FreeAgain, FreeSingle, FreeFirst, FreeSkip, Continue
  <2>3. CASE FreeLast
    BY <2>3 DEF FreeLast, Continue
  <2> QED
    BY <1>5, <2>1, <2>2, <2>3 DEF FreeTurn
<1>6. CASE LockTurn
  <2>1. CASE LockSingle \/ LockAgain \/ LockSkip \/ LockEnd
    BY <2>1 DEF LockSingle, LockAgain, LockSkip, LockEnd, Continue
  <2>2. CASE LockFirst
    BY <2>2 DEF LockFirst, Continue
  <2>3. CASE LockLast
    BY <2>3 DEF LockLast, Continue
  <2>4. CASE LockMiddle
    BY <2>4 DEF LockMiddle, Continue
  <2> QED
    BY <1>6, <2>1, <2>2, <2>3, <2>4 DEF LockTurn
<1>7. CASE AllocPage \/ PmmDump
  BY <1>1, <1>7 DEF AllocPage, PmmDump, Begin
<1>8. CASE \E p \in in_use, n \in PageCounts : UnlockPages(p, n)
  BY <1>8 DEF UnlockPages, Begin
<1>9. CASE \E p \in FreePages, n \in PageCounts : LockPages(p, n)
  BY <1>9 DEF LockPages, Begin
<1>10. CASE UNCHANGED vars
  BY <1>10 DEF vars
<1> QED
  BY <1>3, <1>4, <1>5, <1>6, <1>7, <1>8, <1>9, <1>10 DEF Next, Turn

-----------------------------------------------------------------------------
(* What the invariant says. *)

(* In a list that is being built, good sections are apart. *)
LEMMA BuiltPlaced ==
  ASSUME NEW s, NEW r, NEW h, Built(s, r, h),
         NEW i \in Lives(s), NEW j \in Lives(s), Plain(s, i), Plain(s, j), r[i] < r[j]
  PROVE  EndOf(s, i) <= s[j].start
<1>1. /\ s \in [Slots -> Section] /\ Wired(s) /\ Ordered(s, r) /\ Rising(s, r) /\ Close(s)
  BY DEF Built, Draft, Typed
<1>2. Lives(s) \subseteq Real /\ Lives(s) \subseteq Slots
  BY SlotFacts
<1>3. \A k \in Lives(s) : r[k] \in Nat /\ s[k].start \in Nat
  BY <1>1, <1>2, NeatNumbers DEF Ordered
<1> DEFINE k == s[i].next
<1>4. k # NULL
  BY <1>1, <1>3 DEF Ordered
<1>5. k \in Lives(s) /\ s[k].prev = i /\ EndOf(s, i) = s[k].start
  BY <1>4, <1>1 DEF Wired, Close
<1>6. k = j \/ r[k] < r[j]
  BY <1>4, <1>5, <1>1, <1>3 DEF Ordered
<1>7. Firm(s, k) /\ Firm(s, j)
  BY <1>5 DEF Firm
<1>8. s[k].start <= s[j].start
  BY <1>5, <1>6, <1>7, <1>1, <1>3 DEF Rising
<1> QED
  BY <1>5, <1>8

(* No page is in two free sections. *)
LEMMA FreeApart ==
  ASSUME NEW r, IInv(r), NEW i \in FreeSlots, NEW j \in FreeSlots, NEW p, p \in PagesOf(i), p \in PagesOf(j)
  PROVE  i = j
<1>1. /\ sec \in [Slots -> Section] /\ Slots \ {NULL} = Real /\ FreeSlots \subseteq Real
      /\ Lives(sec) \subseteq Real /\ Lives(sec) \subseteq Slots
  BY TableTyped, SlotFacts DEF FreeSlots
<1>2. /\ pc = "boot" => \A k \in Real : sec[k] = Unlinked
      /\ pc # "boot" => \A k \in Real \ Lives(sec) : sec[k] = Unlinked
  BY TableTyped DEF IInv, BootInv
<1>3. Unlinked.free # FREE /\ \A k \in FreeSlots : sec[k].free = FREE
  BY DEF FreeSlots, Unlinked, USED, FREE
<1>4. pc # "boot" /\ i \in Lives(sec) /\ j \in Lives(sec) /\ Plain(sec, i) /\ Plain(sec, j)
  BY <1>1, <1>2, <1>3 DEF Plain
<1>5. Within(sec, i, p) /\ Within(sec, j, p)
  BY DEF PagesOf, Within, PageRun
<1>6. CASE pc \in {"entries", "recombine"}
  <2>1. Built(sec, r, head) /\ Ordered(sec, r)
    BY <1>6, BootFacts
  <2>2. /\ p \in Nat /\ sec[i].start <= p /\ p < EndOf(sec, i)
        /\ sec[j].start <= p /\ p < EndOf(sec, j)
    BY <1>1, <1>4, <1>5, WithinRange
  <2>3. /\ sec[i].start \in Nat /\ EndOf(sec, i) \in Nat /\ sec[j].start \in Nat /\ EndOf(sec, j) \in Nat
        /\ r[i] \in Nat /\ r[j] \in Nat
    BY <1>1, <1>4, <2>1, NeatNumbers DEF Ordered
  <2>4. (r[i] < r[j] => EndOf(sec, i) <= sec[j].start) /\ (r[j] < r[i] => EndOf(sec, j) <= sec[i].start)
    BY <1>4, <2>1, BuiltPlaced
  <2>5. r[i] = r[j]
    BY <2>2, <2>3, <2>4
  <2> QED
    BY <2>1, <2>5, <1>4 DEF Ordered
<1>7. CASE pc \notin {"entries", "recombine"}
  <2>1. Started
    BY <1>4, <1>7 DEF Started
  <2>2. Neat(sec, r)
    BY <2>1, CallFacts DEF Fine
  <2> QED
    BY <1>4, <1>5, <2>2, OneSection
<1> QED
  BY <1>6, <1>7

(* From the invariant the properties follow: types, *)
LEMMA InvTyped ==
  ASSUME NEW r, IInv(r), free_memory \in 0 .. W - 1
  PROVE  TypeOK
BY TableTyped DEF TypeOK, IInv, MapInv

(* links, *)
LEMMA InvLinked ==
  ASSUME NEW r, IInv(r)
  PROVE  Linked
<1> SUFFICES ASSUME Started, NEW i \in TableSlots
             PROVE  LET s == sec[i]
                    IN  /\ s.next # NULL => /\ sec[s.next].prev = i
                                            /\ s.start <= sec[s.next].start
                                            /\ s.free # BAD => s.start + s.pages * PAGE_SIZE <= sec[s.next].start
                        /\ s.prev # NULL => sec[s.prev].next = i
                        /\ InUse(sec, i) => (s.prev = NULL <=> i = pmm_sections)
  BY DEF Linked
<1>1. /\ sec \in [Slots -> Section] /\ Typed(sec) /\ Wired(sec) /\ Ordered(sec, r) /\ Placed(sec, r)
  BY CallFacts DEF Fine, Neat
<1>2. i \in Real /\ i # NULL /\ Lives(sec) \subseteq Real /\ Lives(sec) \subseteq Slots
  BY SlotFacts DEF TableSlots, Real
<1>3. CASE i \notin Lives(sec)
  <2>1. sec[i] = Unlinked
    BY <1>1, <1>2, <1>3 DEF Wired
  <2> QED
    BY <2>1 DEF Unlinked, InUse
<1>4. CASE i \in Lives(sec)
  <2>1. sec[i].prev # NULL => sec[sec[i].prev].next = i
    BY <1>1, <1>4 DEF Wired
  <2>2. sec[i].prev = NULL <=> i = pmm_sections
    BY <1>1, <1>4 DEF Wired, Lives
  <2>3. ASSUME sec[i].next # NULL
        PROVE  /\ sec[sec[i].next].prev = i /\ sec[i].start <= sec[sec[i].next].start
               /\ sec[i].free # BAD => sec[i].start + sec[i].pages * PAGE_SIZE <= sec[sec[i].next].start
    <3> DEFINE k == sec[i].next
    <3>1. k \in Lives(sec) /\ sec[k].prev = i /\ r[i] < r[k]
      BY <2>3, <1>1, <1>4 DEF Wired, Ordered
    <3>2. /\ sec[i].start \in Nat /\ sec[k].start \in Nat
          /\ EndOf(sec, i) \in Nat /\ sec[i].start <= EndOf(sec, i)
      BY <1>1, <1>2, <1>4, <3>1, NeatNumbers
    <3>3. IF Plain(sec, i) THEN EndOf(sec, i) <= sec[k].start ELSE sec[i].start < sec[k].start
      BY <1>1, <1>4, <3>1 DEF Placed
    <3>4. sec[i].free # BAD => Plain(sec, i)
      BY <1>1, <1>2 DEF Typed, Plain
    <3> QED
      BY <3>1, <3>2, <3>3, <3>4 DEF EndOf
  <2> QED
    BY <2>1, <2>2, <2>3
<1> QED
  BY <1>3, <1>4

(* and pages, since a page is in one section only. *)
LEMMA InvUsedNeverFree ==
  ASSUME NEW r, IInv(r)
  PROVE  UsedNeverFree
<1>1. in_use \cap FreePages = {}
  <2>1. CASE Started
    <3> SUFFICES ASSUME NEW p \in in_use, p \in FreePages
                 PROVE  FALSE
      OBVIOUS
    <3>1. Neat(sec, r) /\ Held(sec, USED, p)
      BY <2>1, CallFacts DEF Fine
    <3>2. Held(sec, FREE, p)
      BY <3>1, FreeHeld
    <3>3. PICK i \in Lives(sec) : sec[i].free = USED /\ Within(sec, i, p)
      BY <3>1 DEF Held
    <3>4. PICK j \in Lives(sec) : sec[j].free = FREE /\ Within(sec, j, p)
      BY <3>2 DEF Held
    <3>5. i = j
      BY <3>1, <3>3, <3>4, OneSection DEF Plain
    <3> QED
      BY <3>3, <3>4, <3>5 DEF USED, FREE
  <2>2. CASE ~Started
    BY <2>2 DEF Started, IInv, MapInv
  <2> QED
    BY <2>1, <2>2
<1>2. \A i, j \in FreeSlots : i # j => PagesOf(i) \cap PagesOf(j) = {}
  BY FreeApart
<1> QED
  BY <1>1, <1>2 DEF UsedNeverFree

(* The invariant of the specification. *)
LEMMA Invariant ==
  Spec => []((\E r : IInv(r)) /\ free_memory \in 0 .. W - 1)
<1>1. Init => (\E r : IInv(r)) /\ free_memory \in 0 .. W - 1
  <2>1. Init => free_memory \in 0 .. W - 1
    BY NumberFacts DEF Init
  <2> QED
    BY <2>1, Initially
<1>2. /\ (\E r : IInv(r)) /\ free_memory \in 0 .. W - 1
      /\ [Next]_vars
      => ((\E r : IInv(r)) /\ free_memory \in 0 .. W - 1)'
  BY EveryStep, FreeMemoryStep
<1> QED
  BY <1>1, <1>2, PTL DEF Spec

(* TypeOK: the fields keep their width and every slot of the table holds a   *)
(* section of a known kind, whatever pmm_start is given and callers do.      *)
THEOREM SectionsTyped == Spec => []TypeOK
<1>1. (\E r : IInv(r)) /\ free_memory \in 0 .. W - 1 => TypeOK
  BY InvTyped
<1> QED
  BY <1>1, Invariant, PTL

(* Linked: no sequence of splits, merges and unlinked sections breaks the    *)
(* list of pmm_section_split, pmm_section_combine_next and _prev.            *)
THEOREM ListStaysLinked == Spec => []Linked
<1>1. (\E r : IInv(r)) => Linked
  BY InvLinked
<1> QED
  BY <1>1, Invariant, PTL

(* UsedNeverFree: pmm_alloc_page cannot hand out a page that somebody holds, *)
(* nor one page from two sections.                                           *)
THEOREM UsedIsNeverFree == Spec => []UsedNeverFree
<1>1. (\E r : IInv(r)) => UsedNeverFree
  BY InvUsedNeverFree
<1> QED
  BY <1>1, Invariant, PTL

(* When pmm_start is done, the list has no neighbours alike, and free_memory *)
(* counts the free pages.                                                    *)
THEOREM StartRecombines == Spec => Recombined
<1> DEFINE A == pc = "recombine" /\ pc' = "idle" =>
                  /\ \A i \in TableSlots : sec[i].next # NULL => sec[i].free # sec[sec[i].next].free
                  /\ free_memory' = Recalculated
<1>1. (\E r : IInv(r)) /\ [Next]_vars => [A]_vars
  <2> SUFFICES ASSUME NEW r, IInv(r), [Next]_vars, pc = "recombine", pc' = "idle"
               PROVE  A
    OBVIOUS
  <2>1. RecombineEnd
    <3>1. ~UNCHANGED vars
      BY DEF vars
    <3>2. ~(AllocTurn \/ FreeTurn \/ LockTurn \/ AllocPage \/ PmmDump)
      BY DEF AllocTurn, FreeTurn, LockTurn, AllocPage, PmmDump, Begin, AllocUnlink, AllocSkip, AllocTake,
             AllocNone, FreeAgain, FreeSingle, FreeFirst, FreeLast, FreeSkip, FreeEnd, LockSingle,
             LockAgain, LockFirst, LockLast, LockMiddle, LockSkip, LockEnd, Visiting
    <3>3. ~\E p \in in_use, n \in PageCounts : UnlockPages(p, n)
      BY DEF UnlockPages, Begin
    <3>4. ~\E p \in FreePages, n \in PageCounts : LockPages(p, n)
      BY DEF LockPages, Begin
    <3>5. ~(StartTable \/ SkipEntry \/ AddEntry \/ StartRecombine \/ RecombineMerge \/ RecombineSkip)
      BY DEF StartTable, SkipEntry, AddEntry, StartRecombine, RecombineMerge, RecombineSkip
    <3> QED
      BY <3>1, <3>2, <3>3, <3>4, <3>5 DEF Next, Turn, Start
  <2>2. ~detected /\ (selected = NULL \/ sec[selected].next = NULL) /\ free_memory' = Recalculated
    BY <2>1 DEF RecombineEnd
  <2>3. /\ Built(sec, r, head) /\ Wired(sec) /\ selected \in Lives(sec) \cup {NULL}
    BY BootFacts
  <2>4. Distinct(sec, r, selected)
    BY <2>2 DEF IInv, BootInv
  <2>5. selected \in Lives(sec) /\ sec[selected].next = NULL
    BY <2>2, <2>3, <2>4 DEF Distinct
  <2>6. \A i \in Lives(sec) : sec[i].next # NULL => sec[i].free # sec[sec[i].next].free
    BY <2>3, <2>4, <2>5, DistinctFine
  <2>7. TableSlots \subseteq Real /\ \A i \in Real \ Lives(sec) : sec[i] = Unlinked
    BY <2>3 DEF TableSlots, Real, Wired
  <2>8. Unlinked.next = NULL
    BY DEF Unlinked
  <2> QED
    BY <2>2, <2>6, <2>7, <2>8
<1> QED
  BY <1>1, Invariant, PTL DEF Spec, Recombined

-----------------------------------------------------------------------------
(* The list is a pool of pages. *)

(* What it stands for of the pool of FramePool. *)
PoolFree == IF Started THEN FreePages ELSE {}
PoolCall == IF pc \in Calls THEN pc ELSE IF Started THEN "none" ELSE "start"
PoolMoving == IF pc \in {"free", "lock"} THEN PageRun(page, count) ELSE {}

(* The least page of a set. *)
LEMMA PoolMin ==
  ASSUME NEW S \in SUBSET Nat, NEW m \in S, \A x \in S : m <= x
  PROVE  Pool!Min(S) = m
<1>1. Min(S) \in S /\ Min(S) <= m /\ m <= Min(S)
  BY MinLeast
<1>2. Min(S) = m
  <2>1. Min(S) \in Nat /\ m \in Nat
    BY <1>1
  <2> QED
    BY <1>1, <2>1
<1> QED
  BY <1>2 DEF Min, Pool!Min

(* The pages of a call are dealt with from the lowest on. *)
LEMMA RunHead ==
  ASSUME NEW p \in Nat, NEW n \in Nat \ {0}
  PROVE  /\ p \in PageRun(p, n) /\ Pool!Min(PageRun(p, n)) = p
         /\ PageRun(p, n) \ {p} = IF n > 1 THEN PageRun(p + PAGE_SIZE, n - 1) ELSE {}
         /\ n > 1 => PageRun(p + PAGE_SIZE, n - 1) # {}
<1>1. PAGE_SIZE \in Nat \ {0} /\ 1 * PAGE_SIZE = PAGE_SIZE /\ 0 * PAGE_SIZE = 0
  BY NumberFacts
<1>2. PageRun(p, 1) = {p}
  BY <1>1 DEF PageRun
<1>3. PageRun(p, n) = {p} \cup PageRun(p + PAGE_SIZE, n - 1)
  <2>1. 1 \in 0 .. n
    OBVIOUS
  <2>2. PageRun(p, n) = PageRun(p, 1) \cup PageRun(p + 1 * PAGE_SIZE, n - 1)
    BY <2>1, RunSplit
  <2> QED
    BY <1>1, <1>2, <2>2
<1>4. \A x \in PageRun(p + PAGE_SIZE, n - 1) : x \in Nat /\ p < x
  <2> TAKE x \in PageRun(p + PAGE_SIZE, n - 1)
  <2>1. PICK k \in 0 .. (n - 1) - 1 : x = (p + PAGE_SIZE) + k * PAGE_SIZE
    BY DEF PageRun
  <2>2. k * PAGE_SIZE \in Nat
    BY <1>1, <2>1
  <2> QED
    BY <1>1, <2>1, <2>2
<1>5. Pool!Min(PageRun(p, n)) = p
  <2>1. p \in PageRun(p, n) /\ PageRun(p, n) \in SUBSET Nat /\ \A x \in PageRun(p, n) : p <= x
    BY <1>3, <1>4
  <2> HIDE DEF PageRun
  <2> QED
    BY <2>1, PoolMin
<1>6. n > 1 => PageRun(p + PAGE_SIZE, n - 1) # {}
  <2>1. n > 1 => 0 \in 0 .. (n - 1) - 1
    OBVIOUS
  <2> QED
    BY <2>1 DEF PageRun
<1>7. ~(n > 1) => PageRun(p + PAGE_SIZE, n - 1) = {}
  BY DEF PageRun
<1>8. p \notin PageRun(p + PAGE_SIZE, n - 1)
  BY <1>4
<1> QED
  BY <1>3, <1>5, <1>6, <1>7, <1>8

(* The pages of free sections, of the next state. *)
LEMMA FreeHeldNext ==
  ASSUME NEW q, Neat(sec', q)
  PROVE  \A p : p \in FreePages' <=> Held(sec', FREE, p)
<1>1. Slots \ {NULL} = Real /\ Lives(sec') \subseteq Real
  BY SlotFacts
<1>2. \A i \in Real : sec'[i].free = FREE => i \in Lives(sec')
  <2> TAKE i \in Real
  <2>1. i \notin Lives(sec') => sec'[i].free = USED
    BY DEF Neat, Wired, Unlinked
  <2> QED
    BY <2>1 DEF USED, FREE
<1>3. \A i : i \in FreeSlots' <=> i \in Lives(sec') /\ sec'[i].free = FREE
  BY <1>1, <1>2 DEF FreeSlots
<1>4. \A i : PagesOf(i)' = PageRun(sec'[i].start, sec'[i].pages)
  BY DEF PagesOf, PageRun
<1> QED
  BY <1>3, <1>4 DEF FreePages, Held, Within

(* No page of a used section is of a free one. *)
LEMMA UsedOrFree ==
  ASSUME NEW s, NEW r, Neat(s, r), NEW p, Held(s, USED, p)
  PROVE  ~Held(s, FREE, p)
<1> SUFFICES ASSUME Held(s, FREE, p) PROVE FALSE
  OBVIOUS
<1>1. PICK i \in Lives(s) : s[i].free = USED /\ Within(s, i, p)
  BY DEF Held
<1>2. PICK j \in Lives(s) : s[j].free = FREE /\ Within(s, j, p)
  BY DEF Held
<1>3. i = j
  BY <1>1, <1>2, OneSection DEF Plain
<1> QED
  BY <1>1, <1>2, <1>3 DEF USED, FREE

(* What a call may rely on, of the pool. *)
LEMMA PoolFacts ==
  ASSUME NEW r, IInv(r), Started
  PROVE  /\ Neat(sec, r) /\ PoolFree = FreePages /\ FreePages \in SUBSET Nat
         /\ \A p : p \in FreePages <=> Held(sec, FREE, p)
         /\ pc \in {"free", "lock"} =>
              PoolMoving = PageRun(page, count) /\ page \in Nat /\ count \in Nat \ {0} /\ PoolCall = pc
         /\ pc = "alloc" => PoolMoving = {} /\ PoolCall = pc /\ count = 1
         /\ pc = "idle" => PoolMoving = {} /\ PoolCall = "none"
<1>1. Neat(sec, r) /\ pc \in {"idle", "alloc", "free", "lock"}
  BY CallFacts DEF Fine
<1>2. \A p : p \in FreePages <=> Held(sec, FREE, p)
  BY <1>1, FreeHeld
<1>3. FreePages \in SUBSET Nat
  BY <1>1, <1>2, WithinRange, SlotFacts DEF Held, Neat, Typed
<1>4. (pc \in Calls \/ pc = "idle") /\ "idle" \notin Calls
  BY PMMAssumption DEF IInv, MapInv, Started
<1>5. pc \in {"free", "lock"} => page \in Nat /\ count \in Nat \ {0}
  BY CallFacts DEF FreeInv, LockInv, Due
<1>6. pc = "alloc" => count = 1
  BY AllocFacts DEF AllocInv
<1> QED
  BY <1>1, <1>2, <1>3, <1>4, <1>5, <1>6 DEF PoolFree, PoolMoving, PoolCall

(* The same after a step. *)
LEMMA PoolFactsNext ==
  ASSUME NEW q, IInv(q)', Started'
  PROVE  /\ Neat(sec', q) /\ PoolFree' = FreePages' /\ FreePages' \in SUBSET Nat
         /\ \A p : p \in FreePages' <=> Held(sec', FREE, p)
         /\ \A p \in in_use' : p \notin FreePages'
         /\ pc' \in {"idle", "alloc", "free", "lock"}
         /\ pc' \in {"free", "lock"} => PoolMoving' = PageRun(page', count') /\ PoolCall' = pc'
         /\ pc' = "alloc" => PoolMoving' = {} /\ PoolCall' = pc'
         /\ pc' = "idle" => PoolMoving' = {} /\ PoolCall' = "none"
<1>1. Neat(sec', q) /\ \A p \in in_use' : Held(sec', USED, p)
  BY DEF IInv, CallInv
<1>2. \A p : p \in FreePages' <=> Held(sec', FREE, p)
  BY <1>1, FreeHeldNext
<1>3. FreePages' \in SUBSET Nat
  BY <1>1, <1>2, WithinRange, SlotFacts DEF Held, Neat, Typed
<1>4. (pc' \in Calls \/ pc' = "idle") /\ "idle" \notin Calls /\ pc' \in {"idle", "alloc", "free", "lock"}
  BY PMMAssumption DEF IInv, MapInv, Started
<1>5. \A p \in in_use' : p \notin FreePages'
  BY <1>1, <1>2, UsedOrFree
<1> QED
  BY <1>1, <1>2, <1>3, <1>4, <1>5 DEF PoolFree, PoolMoving, PoolCall

(* A call that is done with a page has one page less to move. *)
LEMMA PoolPassed ==
  ASSUME NEW r, NEW q, IInv(r), IInv(q)', pc \in {"free", "lock"}, PageDone
  PROVE  /\ Pool!Min(PoolMoving) = page
         /\ PoolMoving' = PoolMoving \ {page}
         /\ PoolCall' = IF PoolMoving' = {} THEN "none" ELSE PoolCall
<1>1. Started /\ Started'
  BY DEF Started, PageDone
<1>2. PoolMoving = PageRun(page, count) /\ page \in Nat /\ count \in Nat \ {0} /\ PoolCall = pc
  BY <1>1, PoolFacts
<1>3. /\ Pool!Min(PageRun(page, count)) = page
      /\ PageRun(page, count) \ {page} = IF count > 1 THEN PageRun(page + PAGE_SIZE, count - 1) ELSE {}
      /\ count > 1 => PageRun(page + PAGE_SIZE, count - 1) # {}
  BY <1>2, RunHead
<1>4. CASE count > 1
  <2>1. page' = page + PAGE_SIZE /\ count' = count - 1 /\ pc' = pc
    BY <1>4 DEF PageDone
  <2>2. PoolMoving' = PageRun(page + PAGE_SIZE, count - 1) /\ PoolCall' = pc
    BY Zenon, <1>1, <2>1, PoolFactsNext
  <2> QED
    BY Zenon, <1>2, <1>3, <1>4, <2>2
<1>5. CASE ~(count > 1)
  <2>1. pc' = "idle"
    BY <1>5 DEF PageDone
  <2>2. PoolMoving' = {} /\ PoolCall' = "none"
    BY Zenon, <1>1, <2>1, PoolFactsNext
  <2> QED
    BY Zenon, <1>2, <1>3, <1>5, <2>2
<1> QED
  BY Zenon, <1>4, <1>5

(* A call that goes on has the same pages to move. *)
LEMMA PoolStays ==
  ASSUME NEW r, NEW q, IInv(r), IInv(q)', pc \in {"free", "lock"}, UNCHANGED <<pc, page, count>>
  PROVE  PoolMoving' = PoolMoving /\ PoolCall' = PoolCall /\ Pool!Min(PoolMoving) = page
BY PoolFacts, PoolFactsNext, RunHead DEF Started

(* Which pages are free after a step of such a call. *)
LEMMA PoolOthers ==
  ASSUME NEW r, NEW q, IInv(r), IInv(q)', pc \in {"free", "lock"}, Started', NEW p, SameOthers(sec, sec', p)
  PROVE  /\ \A x : x # p => (x \in PoolFree' <=> x \in PoolFree)
         /\ sec' = sec => PoolFree' = PoolFree
         /\ p \in FreePages <=> p \in PoolFree
<1>1. Started
  BY DEF Started
<1>2. PoolFree = FreePages /\ \A x : x \in FreePages <=> Held(sec, FREE, x)
  BY <1>1, PoolFacts
<1>3. PoolFree' = FreePages' /\ \A x : x \in FreePages' <=> Held(sec', FREE, x)
  BY PoolFactsNext
<1>4. \A x : x # p => (x \in PoolFree' <=> x \in PoolFree)
  BY <1>2, <1>3 DEF SameOthers
<1>5. sec' = sec => PoolFree' = PoolFree
  <2> HAVE sec' = sec
  <2>1. \A x : x \in PoolFree' <=> x \in PoolFree
    BY <1>2, <1>3
  <2> QED
    BY <2>1
<1> QED
  BY <1>2, <1>4, <1>5

(* A step of a call to free pages gives the page of the call back, or leaves *)
(* the pool as it was.                                                       *)
LEMMA PoolFreed ==
  ASSUME NEW r, NEW q, IInv(r), IInv(q)', pc = "free", SameOthers(sec, sec', page),
         sec' = sec \/ page \notin FreePages, in_use' = in_use,
         PageDone \/ UNCHANGED <<pc, page, count>>
  PROVE  Pool!FreePage
<1>1. Started /\ Started' /\ PoolCall = "free"
  BY PoolFacts DEF Started, PageDone
<1>2. /\ \A x : x # page => (x \in PoolFree' <=> x \in PoolFree)
      /\ sec' = sec => PoolFree' = PoolFree
      /\ page \in FreePages <=> page \in PoolFree
  BY <1>1, PoolOthers
<1>3. PoolFree' \in {PoolFree, PoolFree \cup {page}}
  <2>1. CASE sec' = sec
    BY <1>2, <2>1
  <2>2. CASE page \notin FreePages /\ page \in PoolFree'
    <3>1. PoolFree' = PoolFree \cup {page}
      BY <1>2, <2>2
    <3> QED
      BY <3>1
  <2>3. CASE page \notin FreePages /\ page \notin PoolFree'
    <3>1. PoolFree' = PoolFree
      BY <1>2, <2>3
    <3> QED
      BY <3>1
  <2> QED
    BY <2>1, <2>2, <2>3
<1>4. /\ Pool!Min(PoolMoving) = page
      /\ \/ PoolMoving' = PoolMoving \ {page} /\ PoolCall' = IF PoolMoving' = {} THEN "none" ELSE PoolCall
         \/ PoolMoving' = PoolMoving /\ PoolCall' = PoolCall
  <2>1. CASE PageDone
    BY Zenon, <2>1, PoolPassed
  <2>2. CASE UNCHANGED <<pc, page, count>>
    BY Zenon, <2>2, PoolStays
  <2> QED
    BY <2>1, <2>2
<1> HIDE DEF PoolFree, PoolMoving, PoolCall
<1>5. /\ PoolCall = "free"
      /\ PoolFree' \in {PoolFree, PoolFree \cup {Pool!Min(PoolMoving)}}
      /\ \/ /\ PoolMoving' = PoolMoving \ {Pool!Min(PoolMoving)}
            /\ PoolCall' = IF PoolMoving' = {} THEN "none" ELSE PoolCall
         \/ PoolCall' = PoolCall /\ PoolMoving' = PoolMoving
      /\ in_use' = in_use
  BY Zenon, <1>1, <1>3, <1>4
<1> QED
  BY Zenon, <1>5 DEF Pool!FreePage, Pool!Passed, PoolFree, PoolMoving, PoolCall

(* A step of a call to lock pages takes the page of the call out, and when   *)
(* the call is done with the page, it is out.                                *)
LEMMA PoolLocked ==
  ASSUME NEW r, NEW q, IInv(r), IInv(q)', pc = "lock", SameOthers(sec, sec', page),
         sec' = sec \/ page \in FreePages,
         (PageDone /\ Locked) \/ UNCHANGED <<pc, page, count, in_use>>
  PROVE  Pool!LockPage
<1>1. Started /\ Started' /\ PoolCall = "lock"
  BY PoolFacts DEF Started, PageDone
<1>2. /\ \A x : x # page => (x \in PoolFree' <=> x \in PoolFree)
      /\ sec' = sec => PoolFree' = PoolFree
      /\ page \in FreePages <=> page \in PoolFree
  BY <1>1, PoolOthers
<1>3. PoolFree' \in {PoolFree, PoolFree \ {page}}
  <2>1. CASE sec' = sec
    BY <1>2, <2>1
  <2>2. CASE page \in FreePages /\ page \notin PoolFree'
    <3>1. PoolFree' = PoolFree \ {page}
      BY <1>2, <2>2
    <3> QED
      BY <3>1
  <2>3. CASE page \in FreePages /\ page \in PoolFree'
    <3>1. PoolFree' = PoolFree
      BY <1>2, <2>3
    <3> QED
      BY <3>1
  <2> QED
    BY <2>1, <2>2, <2>3
<1>4. /\ Pool!Min(PoolMoving) = page
      /\ \/ /\ PoolMoving' = PoolMoving \ {page} /\ PoolCall' = IF PoolMoving' = {} THEN "none" ELSE PoolCall
            /\ page \notin PoolFree' /\ in_use' = in_use \cup {page}
         \/ PoolMoving' = PoolMoving /\ PoolCall' = PoolCall /\ in_use' = in_use
  <2>1. CASE PageDone /\ Locked
    <3>1. in_use' = in_use \cup {page}
      BY <2>1 DEF Locked
    <3>2. page \notin PoolFree'
      BY <1>1, <3>1, PoolFactsNext
    <3> QED
      BY Zenon, <2>1, <3>1, <3>2, PoolPassed
  <2>2. CASE UNCHANGED <<pc, page, count, in_use>>
    BY Zenon, <2>2, PoolStays
  <2> QED
    BY <2>1, <2>2
<1> HIDE DEF PoolFree, PoolMoving, PoolCall
<1>5. /\ PoolCall = "lock"
      /\ PoolFree' \in {PoolFree, PoolFree \ {Pool!Min(PoolMoving)}}
      /\ \/ /\ PoolMoving' = PoolMoving \ {Pool!Min(PoolMoving)}
            /\ PoolCall' = IF PoolMoving' = {} THEN "none" ELSE PoolCall
            /\ Pool!Min(PoolMoving) \notin PoolFree' /\ in_use' = in_use \cup {Pool!Min(PoolMoving)}
         \/ PoolCall' = PoolCall /\ PoolMoving' = PoolMoving /\ in_use' = in_use
  BY Zenon, <1>1, <1>3, <1>4
<1> QED
  BY Zenon, <1>5 DEF Pool!LockPage, Pool!Passed, PoolFree, PoolMoving, PoolCall

(* A section that is not free and has the page is of a used one: the page is *)
(* not free.                                                                 *)
LEMMA PoolUsedPage ==
  ASSUME NEW r, IInv(r), Visiting("free"), sec[selected].free # FREE, AtStart \/ Inside
  PROVE  page \notin FreePages
<1>1. selected \in Lives(sec) /\ sec[selected].free = USED /\ Within(sec, selected, page)
  BY FreeFinds
<1>2. Started
  BY DEF Started, Visiting
<1>3. Neat(sec, r) /\ (page \in FreePages <=> Held(sec, FREE, page))
  BY <1>2, PoolFacts
<1>4. Held(sec, USED, page)
  BY <1>1 DEF Held
<1> QED
  BY <1>3, <1>4, UsedOrFree

(* A section that is not used and has the page is a free one. *)
LEMMA PoolFreePage ==
  ASSUME NEW r, IInv(r), Visiting("lock"), sec[selected].free # USED, AtStart \/ Inside
  PROVE  page \in FreePages
BY LockReady, PoolFacts DEF Started, Visiting, Held

(* Every turn of pmm_free_page. *)
LEMMA FreeTurnPool ==
  ASSUME NEW r, IInv(r), FreeTurn
  PROVE  Pool!FreePage
<1>1. CASE FreeAgain \/ FreeEnd
  <2>1. pc = "free" /\ sec' = sec /\ in_use' = in_use /\ PageDone
    BY <1>1 DEF FreeAgain, FreeEnd, Visiting, listVars
  <2>2. IInv(r)' /\ SameOthers(sec, sec', page)
    BY <1>1, FreeAgainStep
  <2> QED
    BY Zenon, <2>1, <2>2, PoolFreed
<1>2. CASE FreeSingle
  <2>1. /\ pc = "free" /\ in_use' = in_use /\ PageDone
        /\ Visiting("free") /\ sec[selected].free # FREE /\ AtStart
    BY <1>2 DEF FreeSingle, Visiting
  <2>2. IInv(r)' /\ SameOthers(sec, sec', page)
    BY <1>2, FreeSingleStep
  <2>3. page \notin FreePages
    BY Zenon, <2>1, PoolUsedPage
  <2> QED
    BY Zenon, <2>1, <2>2, <2>3, PoolFreed
<1>3. CASE FreeFirst
  <2>1. /\ pc = "free" /\ in_use' = in_use /\ PageDone
        /\ Visiting("free") /\ sec[selected].free # FREE /\ AtStart
    BY <1>3 DEF FreeFirst, Visiting
  <2>2. PICK q : IInv(q)' /\ SameOthers(sec, sec', page)
    BY <1>3, FreeFirstStep
  <2>3. page \notin FreePages
    BY Zenon, <2>1, PoolUsedPage
  <2> QED
    BY Zenon, <2>1, <2>2, <2>3, PoolFreed
<1>4. CASE FreeLast
  <2>1. /\ pc = "free" /\ in_use' = in_use /\ UNCHANGED <<pc, page, count>>
        /\ Visiting("free") /\ sec[selected].free # FREE /\ Inside
    BY <1>4 DEF FreeLast, Visiting, Continue, callVars, historyVars
  <2>2. PICK q : IInv(q)' /\ SameOthers(sec, sec', page)
    BY <1>4, FreeLastStep
  <2>3. page \notin FreePages
    BY Zenon, <2>1, PoolUsedPage
  <2> QED
    BY Zenon, <2>1, <2>2, <2>3, PoolFreed
<1>5. CASE FreeSkip
  <2>1. pc = "free" /\ in_use' = in_use /\ UNCHANGED <<pc, page, count>> /\ sec' = sec
    BY <1>5 DEF FreeSkip, Visiting, Continue, callVars, historyVars, listVars
  <2>2. IInv(r)' /\ SameOthers(sec, sec', page)
    BY <1>5, FreeSkipStep
  <2> QED
    BY Zenon, <2>1, <2>2, PoolFreed
<1> QED
  BY <1>1, <1>2, <1>3, <1>4, <1>5 DEF FreeTurn

(* Every turn of pmm_lock_page. *)
LEMMA LockTurnPool ==
  ASSUME NEW r, IInv(r), LockTurn
  PROVE  Pool!LockPage
<1>1. CASE LockAgain \/ LockEnd
  <2>1. pc = "lock" /\ sec' = sec /\ PageDone /\ Locked
    BY <1>1 DEF LockAgain, LockEnd, Visiting, listVars
  <2>2. IInv(r)' /\ SameOthers(sec, sec', page)
    BY <1>1, LockAgainStep
  <2> QED
    BY Zenon, <2>1, <2>2, PoolLocked
<1>2. CASE LockSingle
  <2>1. /\ pc = "lock" /\ PageDone /\ Locked
        /\ Visiting("lock") /\ AtStart /\ sec[selected].pages = 1
    BY <1>2 DEF LockSingle, Visiting
  <2>2. IInv(r)' /\ SameOthers(sec, sec', page)
    BY <1>2, LockSingleStep
  <2>3. sec[selected].free # USED
    BY <2>1, LockFinds DEF USED, FREE
  <2>4. page \in FreePages
    BY Zenon, <2>1, <2>3, PoolFreePage
  <2> QED
    BY Zenon, <2>1, <2>2, <2>4, PoolLocked
<1>3. CASE LockFirst
  <2>1. /\ pc = "lock"
        /\ ((PageDone /\ Locked) \/ UNCHANGED <<pc, page, count, in_use>>)
        /\ Visiting("lock") /\ AtStart /\ sec[selected].free # USED
    BY Zenon, <1>3 DEF LockFirst, Visiting, Continue, callVars, historyVars
  <2>2. PICK q : IInv(q)' /\ SameOthers(sec, sec', page)
    BY <1>3, LockFirstStep
  <2>3. page \in FreePages
    BY Zenon, <2>1, PoolFreePage
  <2> QED
    BY Zenon, <2>1, <2>2, <2>3, PoolLocked
<1>4. CASE LockLast
  <2>1. /\ pc = "lock" /\ UNCHANGED <<pc, page, count, in_use>>
        /\ Visiting("lock") /\ Inside /\ sec[selected].free # USED
    BY Zenon, <1>4 DEF LockLast, Visiting, Continue, callVars, historyVars
  <2>2. PICK q : IInv(q)' /\ SameOthers(sec, sec', page)
    BY <1>4, LockLastStep
  <2>3. page \in FreePages
    BY Zenon, <2>1, PoolFreePage
  <2> QED
    BY Zenon, <2>1, <2>2, <2>3, PoolLocked
<1>5. CASE LockMiddle
  <2>1. /\ pc = "lock" /\ UNCHANGED <<pc, page, count, in_use>>
        /\ Visiting("lock") /\ Inside /\ sec[selected].free # USED
    BY Zenon, <1>5 DEF LockMiddle, Visiting, Continue, callVars, historyVars
  <2>2. PICK q : IInv(q)' /\ SameOthers(sec, sec', page)
    BY <1>5, LockMiddleStep
  <2>3. page \in FreePages
    BY Zenon, <2>1, PoolFreePage
  <2> QED
    BY Zenon, <2>1, <2>2, <2>3, PoolLocked
<1>6. CASE LockSkip
  <2>1. pc = "lock" /\ UNCHANGED <<pc, page, count, in_use>> /\ sec' = sec
    BY <1>6 DEF LockSkip, Visiting, Continue, callVars, historyVars, listVars
  <2>2. IInv(r)' /\ SameOthers(sec, sec', page)
    BY <1>6, LockSkipStep
  <2> QED
    BY Zenon, <2>1, <2>2, PoolLocked
<1> QED
  BY <1>1, <1>2, <1>3, <1>4, <1>5, <1>6 DEF LockTurn

(* pmm_alloc_page goes on: it may unlink a section, and the same pages are   *)
(* free.                                                                     *)
LEMMA AllocGoesOn ==
  ASSUME NEW r, IInv(r), AllocUnlink \/ AllocSkip
  PROVE  UNCHANGED Pool!vars
<1>1. pc = "alloc" /\ pc' = pc /\ in_use' = in_use
  BY DEF AllocUnlink, AllocSkip, Visiting, Continue, historyVars
<1>2. IInv(r)' /\ SameHeld(sec, sec')
  <2>1. CASE AllocUnlink
    BY <2>1, AllocUnlinkStep
  <2>2. CASE AllocSkip
    <3>1. sec' = sec
      BY <2>2 DEF AllocSkip, listVars
    <3> QED
      BY <2>2, <3>1, AllocSkipStep DEF SameHeld
  <2> QED
    BY <2>1, <2>2
<1>3. Started /\ Started'
  BY <1>1 DEF Started
<1>4. /\ PoolFree = FreePages /\ PoolMoving = {} /\ PoolCall = pc
      /\ \A p : p \in FreePages <=> Held(sec, FREE, p)
  BY <1>1, <1>3, PoolFacts
<1>5. /\ PoolFree' = FreePages' /\ PoolMoving' = {} /\ PoolCall' = pc'
      /\ \A p : p \in FreePages' <=> Held(sec', FREE, p)
  BY <1>1, <1>2, <1>3, PoolFactsNext
<1>6. \A p : p \in PoolFree' <=> p \in PoolFree
  BY <1>2, <1>4, <1>5 DEF SameHeld
<1>7. PoolFree' = PoolFree /\ PoolMoving' = PoolMoving /\ PoolCall' = PoolCall /\ in_use' = in_use
  BY <1>1, <1>4, <1>5, <1>6
<1> QED
  BY Zenon, <1>7 DEF Pool!vars, PoolFree, PoolMoving, PoolCall

(* The section that pmm_alloc_page stops at starts with the lowest free page.*)
LEMMA LowestFree ==
  ASSUME NEW r, IInv(r), Visiting("alloc"), sec[selected].pages # 0, sec[selected].free = FREE
  PROVE  /\ sec[selected].start \in FreePages
         /\ \A p \in FreePages : sec[selected].start <= p
<1>1. pc = "alloc" /\ Started /\ selected # NULL
  BY DEF Visiting, Started
<1>2. /\ Neat(sec, r) /\ selected \in Lives(sec) /\ Lives(sec) \subseteq Slots /\ Lives(sec) \subseteq Real
      /\ sec \in [Slots -> Section]
  BY <1>1, CallFacts, SlotFacts DEF Fine
<1>3. \A p : p \in FreePages <=> Held(sec, FREE, p)
  BY <1>1, PoolFacts
<1>4. \A i \in Lives(sec) : r[i] < r[selected] => sec[i].free # FREE \/ sec[i].pages = 0
  BY <1>1, AllocFacts DEF AllocInv
<1>5. Within(sec, selected, sec[selected].start)
  <2>1. sec[selected].start \in Nat /\ sec[selected].pages \in Nat
    BY <1>2, FieldTypes, NumberFacts
  <2>2. 0 \in 0 .. sec[selected].pages - 1 /\ 0 * PAGE_SIZE = 0
    BY <2>1, NumberFacts
  <2> QED
    BY <2>1, <2>2 DEF Within, PageRun
<1>6. sec[selected].start \in FreePages
  BY <1>2, <1>3, <1>5 DEF Held
<1>7. \A p \in FreePages : sec[selected].start <= p
  <2> TAKE p \in FreePages
  <2>1. PICK i \in Lives(sec) : sec[i].free = FREE /\ Within(sec, i, p)
    BY <1>3 DEF Held
  <2>2. p \in Nat /\ sec[i].pages # 0 /\ sec[i].start <= p
    BY <1>2, <2>1, WithinRange
  <2>3. ~(r[i] < r[selected])
    BY <1>4, <2>1, <2>2
  <2>4. sec[i].start \in Nat /\ sec[selected].start \in Nat
    BY <1>2, <2>1, FieldTypes, NumberFacts
  <2>5. i # selected => r[selected] < r[i]
    BY <1>2, <2>1, <2>3 DEF Neat, Ordered
  <2>6. i # selected => sec[selected].start <= sec[i].start
    <3>1. Plain(sec, selected) /\ Plain(sec, i)
      BY <2>1 DEF Plain
    <3> QED
      BY <1>2, <2>1, <2>4, <2>5, <3>1, NeatNumbers DEF Neat, Placed
  <2> QED
    BY <2>2, <2>4, <2>6
<1> QED
  BY <1>6, <1>7

(* pmm_alloc_page hands out the lowest free page. *)
LEMMA AllocTakePool ==
  ASSUME NEW r, IInv(r), AllocTake
  PROVE  Pool!Take
<1> DEFINE base == sec[selected].start
<1>1. /\ Visiting("alloc") /\ sec[selected].pages # 0 /\ sec[selected].free = FREE
      /\ pc = "alloc" /\ pc' = "idle" /\ in_use' = in_use \cup {base}
  BY Zenon DEF AllocTake, Visiting
<1>2. PICK q : IInv(q)'
  BY AllocTakeStep
<1>3. SameOthers(sec, sec', base)
  BY AllocTakeStep
<1>4. base \in FreePages /\ \A p \in FreePages : base <= p
  BY <1>1, LowestFree
<1> HIDE DEF base
<1>5. Started /\ Started'
  BY <1>1 DEF Started
<1>6. /\ PoolFree = FreePages /\ FreePages \in SUBSET Nat /\ PoolMoving = {} /\ PoolCall = pc
      /\ \A p : p \in FreePages <=> Held(sec, FREE, p)
  BY <1>1, <1>5, PoolFacts
<1>7. /\ PoolFree' = FreePages' /\ PoolMoving' = {} /\ PoolCall' = "none"
      /\ \A p : p \in FreePages' <=> Held(sec', FREE, p)
      /\ \A p \in in_use' : p \notin FreePages'
  BY <1>1, <1>2, <1>5, PoolFactsNext
<1>8. Pool!Min(FreePages) = base
  BY <1>4, <1>6, PoolMin
<1>9. PoolFree' = PoolFree \ {base}
  <2>1. base \notin FreePages'
    BY <1>1, <1>7
  <2>2. \A p : p # base => (p \in FreePages' <=> p \in FreePages)
    BY <1>3, <1>6, <1>7 DEF SameOthers
  <2> HIDE DEF FreePages, PoolFree
  <2>3. \A p : p \in PoolFree' <=> p \in PoolFree \ {base}
    BY <1>6, <1>7, <2>1, <2>2
  <2> QED
    BY <2>3
<1>10. (IF PoolFree = {} THEN {} ELSE {Pool!Min(PoolFree)}) = {base}
  BY <1>4, <1>6, <1>8
<1> HIDE DEF PoolFree, PoolMoving, PoolCall
<1>11. LET taken == IF PoolFree = {} THEN {} ELSE {Pool!Min(PoolFree)}
       IN  /\ PoolCall = "alloc" /\ PoolCall' = "none"
           /\ PoolFree' = PoolFree \ taken /\ in_use' = in_use \cup taken
           /\ PoolMoving' = PoolMoving
  BY Zenon, <1>1, <1>6, <1>7, <1>9, <1>10
<1> QED
  BY Zenon, <1>11 DEF Pool!Take, PoolFree, PoolMoving, PoolCall

(* It hands out none when none is free. *)
LEMMA AllocNonePool ==
  ASSUME NEW r, IInv(r), AllocNone
  PROVE  Pool!Take
<1>1. pc = "alloc" /\ selected = NULL /\ PageDone /\ sec' = sec /\ in_use' = in_use
  BY DEF AllocNone, listVars
<1>2. AllocInv(r) /\ Started
  BY <1>1, AllocFacts
<1>3. pc' = "idle"
  BY <1>1, <1>2 DEF AllocInv, PageDone
<1>4. IInv(r)' /\ Started'
  BY <1>3, AllocNoneStep DEF Started
<1>5. /\ Neat(sec, r) /\ PoolFree = FreePages /\ PoolMoving = {} /\ PoolCall = pc
      /\ \A p : p \in FreePages <=> Held(sec, FREE, p)
  BY <1>1, <1>2, PoolFacts
<1>6. /\ PoolFree' = FreePages' /\ PoolMoving' = {} /\ PoolCall' = "none"
      /\ \A p : p \in FreePages' <=> Held(sec', FREE, p)
  BY <1>3, <1>4, PoolFactsNext
<1>7. \A p : ~Held(sec, FREE, p)
  <2> SUFFICES ASSUME NEW p, Held(sec, FREE, p) PROVE FALSE
    OBVIOUS
  <2>1. PICK i \in Lives(sec) : sec[i].free = FREE /\ Within(sec, i, p)
    BY DEF Held
  <2>2. sec[i].pages # 0
    BY <1>5, <2>1, WithinRange, SlotFacts DEF Neat, Typed
  <2> QED
    BY <1>1, <1>2, <2>1, <2>2 DEF AllocInv
<1>8. PoolFree = {} /\ PoolFree' = {}
  <2>1. \A p : p \notin FreePages /\ p \notin FreePages'
    BY <1>1, <1>5, <1>6, <1>7
  <2> HIDE DEF FreePages, PoolFree
  <2>2. FreePages = {} /\ FreePages' = {}
    BY <2>1
  <2> QED
    BY <1>5, <1>6, <2>2
<1> HIDE DEF PoolFree, PoolMoving, PoolCall
<1>9. LET taken == IF PoolFree = {} THEN {} ELSE {Pool!Min(PoolFree)}
      IN  /\ PoolCall = "alloc" /\ PoolCall' = "none"
          /\ PoolFree' = PoolFree \ taken /\ in_use' = in_use \cup taken
          /\ PoolMoving' = PoolMoving
  BY <1>1, <1>5, <1>6, <1>8
<1> QED
  BY Zenon, <1>9 DEF Pool!Take, PoolFree, PoolMoving, PoolCall

-----------------------------------------------------------------------------
(* What the beginning of a call changes of the pool. *)
LEMMA BeginPool ==
  ASSUME NEW r, IInv(r), IInv(r)', NEW call \in {"alloc", "free", "lock"}, NEW p, NEW n \in Nat \ {0},
         Begin(call, p, n)
  PROVE  /\ PoolCall = "none" /\ PoolCall' = call /\ PoolFree' = PoolFree /\ PoolMoving = {}
         /\ PoolMoving' = IF call = "alloc" THEN {} ELSE PageRun(p, n)
         /\ PoolFree = FreePages
<1>1. /\ Started /\ pc = "idle" /\ pc' = call /\ page' = p /\ count' = n /\ sec' = sec
  BY BeginFacts
<1>2. Started'
  BY <1>1 DEF Started
<1>3. PoolFree = FreePages /\ PoolMoving = {} /\ PoolCall = "none"
  BY <1>1, PoolFacts
<1>4. /\ PoolFree' = FreePages'
      /\ pc' \in {"free", "lock"} => PoolMoving' = PageRun(page', count') /\ PoolCall' = pc'
      /\ pc' = "alloc" => PoolMoving' = {} /\ PoolCall' = pc'
  BY <1>2, PoolFactsNext
<1>5. FreePages' = FreePages
  BY <1>1 DEF FreePages, FreeSlots, PagesOf
<1> HIDE DEF PoolFree, PoolMoving, PoolCall, FreePages
<1>6. PoolMoving' = IF call = "alloc" THEN {} ELSE PageRun(p, n)
  <2>1. CASE call = "alloc"
    BY <1>1, <1>4, <2>1
  <2>2. CASE call # "alloc"
    <3>1. pc' \in {"free", "lock"}
      BY <1>1, <2>2
    <3>2. PoolMoving' = PageRun(page', count') /\ page' = p /\ count' = n
      BY Zenon, <1>1, <1>4, <3>1
    <3>3. PoolMoving' = PageRun(p, n)
      BY Zenon, <3>2
    <3> QED
      BY Zenon, <2>2, <3>3
  <2> QED
    BY <2>1, <2>2
<1>7. PoolCall' = call
  BY <1>1, <1>4
<1> QED
  BY Zenon, <1>3, <1>4, <1>5, <1>6, <1>7

(* A run of pages has pages. *)
LEMMA RunNotEmpty ==
  ASSUME NEW p, NEW n \in Nat \ {0}
  PROVE  PageRun(p, n) # {}
<1>1. 0 \in 0 .. n - 1
  OBVIOUS
<1> QED
  BY <1>1, RunPages

(* A call to hand out a page. *)
LEMMA AllocPagePool ==
  ASSUME NEW r, IInv(r), AllocPage
  PROVE  Pool!BeginTake
<1>1. Begin("alloc", 0, 1) /\ in_use' = in_use /\ IInv(r)'
  BY AllocPageStep DEF AllocPage
<1>2. PoolCall = "none" /\ PoolCall' = "alloc" /\ PoolFree' = PoolFree /\ PoolMoving = {} /\ PoolMoving' = {}
  BY <1>1, BeginPool
<1> HIDE DEF PoolFree, PoolMoving, PoolCall
<1>3. PoolCall = "none" /\ PoolCall' = "alloc" /\ PoolFree' = PoolFree /\ in_use' = in_use /\ PoolMoving' = PoolMoving
  BY <1>1, <1>2
<1> QED
  BY Zenon, <1>3 DEF Pool!BeginTake, PoolFree, PoolMoving, PoolCall

(* A call to free pages is about pages that are held. *)
LEMMA UnlockPagesPool ==
  ASSUME NEW r, IInv(r), NEW p \in in_use, NEW n \in PageCounts, UnlockPages(p, n)
  PROVE  Pool!BeginFree
<1>1. n \in Nat \ {0} /\ IInv(r)'
  BY PMMAssumption, UnlockPagesStep
<1>2. PageRun(p, n) \subseteq in_use /\ Begin("free", p, n) /\ in_use' = in_use \ PageRun(p, n)
  BY DEF UnlockPages
<1>3. PoolCall = "none" /\ PoolCall' = "free" /\ PoolFree' = PoolFree /\ PoolMoving' = PageRun(p, n)
  <2>1. "free" \in {"alloc", "free", "lock"} /\ "free" # "alloc"
    OBVIOUS
  <2> HIDE DEF PoolFree, PoolMoving, PoolCall
  <2> QED
    BY <1>1, <1>2, <2>1, BeginPool
<1>4. PageRun(p, n) \in (SUBSET in_use) \ {{}}
  BY <1>1, <1>2, RunNotEmpty
<1> HIDE DEF PoolFree, PoolMoving, PoolCall
<1>5. /\ PoolCall = "none" /\ PoolCall' = "free"
      /\ \E pages \in (SUBSET in_use) \ {{}} : PoolMoving' = pages /\ in_use' = in_use \ pages
      /\ PoolFree' = PoolFree
  BY Zenon, <1>2, <1>3, <1>4
<1> QED
  BY Zenon, <1>5 DEF Pool!BeginFree, PoolFree, PoolMoving, PoolCall

(* A call to lock pages is about pages that are free. *)
LEMMA LockPagesPool ==
  ASSUME NEW r, IInv(r), NEW p \in FreePages, NEW n \in PageCounts, LockPages(p, n)
  PROVE  Pool!BeginLock
<1>1. n \in Nat \ {0} /\ IInv(r)'
  BY PMMAssumption, LockPagesStep
<1>2. PageRun(p, n) \subseteq FreePages /\ Begin("lock", p, n) /\ in_use' = in_use
  BY DEF LockPages
<1>3. PoolCall = "none" /\ PoolCall' = "lock" /\ PoolFree' = PoolFree /\ PoolMoving' = PageRun(p, n) /\ PoolFree = FreePages
  <2>1. "lock" \in {"alloc", "free", "lock"} /\ "lock" # "alloc"
    OBVIOUS
  <2> HIDE DEF PoolFree, PoolMoving, PoolCall
  <2> QED
    BY <1>1, <1>2, <2>1, BeginPool
<1> HIDE DEF PoolFree, PoolMoving, PoolCall, FreePages
<1>4. PageRun(p, n) \in (SUBSET PoolFree) \ {{}}
  BY <1>1, <1>2, <1>3, RunNotEmpty
<1>5. /\ PoolCall = "none" /\ PoolCall' = "lock"
      /\ \E pages \in (SUBSET PoolFree) \ {{}} : PoolMoving' = pages
      /\ PoolFree' = PoolFree /\ in_use' = in_use
  BY Zenon, <1>2, <1>3, <1>4
<1> QED
  BY Zenon, <1>5 DEF Pool!BeginLock, PoolFree, PoolMoving, PoolCall

(* pmm_dump moves no page. *)
LEMMA PmmDumpPool ==
  ASSUME PmmDump
  PROVE  UNCHANGED Pool!vars
<1>1. pc' = pc /\ sec' = sec /\ in_use' = in_use /\ page' = page /\ count' = count
  BY DEF PmmDump, listVars, callVars, historyVars
<1> QED
  BY <1>1 DEF Pool!vars, Started, FreePages, FreeSlots, PagesOf, PageRun

-----------------------------------------------------------------------------
(* pmm_start leaves the pool closed until it returns. *)
LEMMA StartPool ==
  ASSUME NEW r, IInv(r), NEW q, IInv(q)', Start
  PROVE  Pool!Start \/ UNCHANGED Pool!vars
<1>1. in_use' = in_use /\ page' = page /\ count' = count
  BY Zenon DEF Start, StartTable, SkipEntry, AddEntry, StartRecombine, RecombineMerge, RecombineSkip, RecombineEnd,
     callVars, historyVars
<1>2. pc \in {"boot", "entries", "recombine"} /\ pc' \in {"entries", "recombine", "idle"}
  BY DEF Start, StartTable, SkipEntry, AddEntry, StartRecombine, RecombineMerge, RecombineSkip, RecombineEnd
<1>3. "boot" \notin Calls /\ "entries" \notin Calls /\ "recombine" \notin Calls
  BY PMMAssumption
<1>4. PoolFree = {} /\ PoolMoving = {} /\ PoolCall = "start"
  BY <1>2, <1>3 DEF PoolFree, PoolMoving, PoolCall, Started
<1>5. CASE pc' = "idle"
  <2>1. Started'
    BY <1>5 DEF Started
  <2>2. PoolFree' \in SUBSET Nat /\ PoolMoving' = {} /\ PoolCall' = "none"
    BY <1>5, <2>1, PoolFactsNext
  <2> HIDE DEF PoolFree, PoolMoving, PoolCall
  <2>3. /\ PoolCall = "start" /\ PoolCall' = "none" /\ PoolFree' \in SUBSET Nat
        /\ in_use' = in_use /\ PoolMoving' = PoolMoving
    BY <1>1, <1>4, <2>2
  <2> QED
    BY Zenon, <2>3 DEF Pool!Start, PoolFree, PoolMoving, PoolCall
<1>6. CASE pc' \in {"entries", "recombine"}
  <2>1. PoolFree' = {} /\ PoolMoving' = {} /\ PoolCall' = "start"
    BY <1>3, <1>6 DEF PoolFree, PoolMoving, PoolCall, Started
  <2> HIDE DEF PoolFree, PoolMoving, PoolCall
  <2>2. PoolFree' = PoolFree /\ PoolMoving' = PoolMoving /\ PoolCall' = PoolCall /\ in_use' = in_use
    BY <1>1, <1>4, <2>1
  <2> QED
    BY Zenon, <2>2 DEF Pool!vars, PoolFree, PoolMoving, PoolCall
<1> QED
  BY <1>2, <1>5, <1>6

(* No page is free before pmm_start has returned. *)
LEMMA InitPool ==
  ASSUME Init
  PROVE  Pool!Init
BY PMMAssumption DEF Init, PoolFree, PoolMoving, PoolCall, Started, Pool!Init

(* Every step is one of the pool, or none. *)
LEMMA StepPool ==
  ASSUME \E r : IInv(r), [Next]_vars
  PROVE  [Pool!Next]_(Pool!vars)
<1>1. PICK r : IInv(r)
  OBVIOUS
<1>2. PICK q : IInv(q)'
  BY EveryStep
<1>3. CASE Start
  <2>1. Pool!Start \/ UNCHANGED Pool!vars
    BY Zenon, <1>1, <1>2, <1>3, StartPool
  <2> QED
    BY Zenon, <2>1 DEF Pool!Next
<1>4. CASE AllocTurn
  <2>1. Pool!Take \/ UNCHANGED Pool!vars
    BY Zenon, <1>1, <1>4, AllocGoesOn, AllocTakePool, AllocNonePool DEF AllocTurn
  <2> QED
    BY Zenon, <2>1 DEF Pool!Next
<1>5. CASE FreeTurn
  <2>1. Pool!FreePage
    BY Zenon, <1>1, <1>5, FreeTurnPool
  <2> QED
    BY Zenon, <2>1 DEF Pool!Next
<1>6. CASE LockTurn
  <2>1. Pool!LockPage
    BY Zenon, <1>1, <1>6, LockTurnPool
  <2> QED
    BY Zenon, <2>1 DEF Pool!Next
<1>7. CASE AllocPage
  <2>1. Pool!BeginTake
    BY Zenon, <1>1, <1>7, AllocPagePool
  <2> QED
    BY Zenon, <2>1 DEF Pool!Next
<1>8. CASE PmmDump
  <2>1. UNCHANGED Pool!vars
    BY Zenon, <1>8, PmmDumpPool
  <2> QED
    BY Zenon, <2>1
<1>9. CASE \E p \in in_use, n \in PageCounts : UnlockPages(p, n)
  <2>1. Pool!BeginFree
    BY Zenon, <1>1, <1>9, UnlockPagesPool
  <2> QED
    BY Zenon, <2>1 DEF Pool!Next
<1>10. CASE \E p \in FreePages, n \in PageCounts : LockPages(p, n)
  <2>1. Pool!BeginLock
    BY Zenon, <1>1, <1>10, LockPagesPool
  <2> QED
    BY Zenon, <2>1 DEF Pool!Next
<1>11. CASE UNCHANGED vars
  <2>1. pc' = pc /\ sec' = sec /\ in_use' = in_use /\ page' = page /\ count' = count
    BY <1>11 DEF vars, listVars, callVars, historyVars
  <2>2. UNCHANGED Pool!vars
    BY <2>1 DEF Pool!vars, Started, FreePages, FreeSlots, PagesOf, PageRun
  <2> QED
    BY Zenon, <2>2
<1> QED
  BY Zenon, <1>3, <1>4, <1>5, <1>6, <1>7, <1>8, <1>9, <1>10, <1>11 DEF Next, Turn

(* PoolSpec: the list of sections behaves like a pool of pages, whatever the *)
(* sections are split from and merged with: pmm_alloc_page hands out the     *)
(* lowest free page, and none only when none is left, and pmm_free_page and  *)
(* pmm_lock_page move nothing but the pages they were called with.           *)
THEOREM SectionsAreAPool == Spec => PoolSpec
<1>1. Init => Pool!Init
  BY InitPool
<1>2. (\E r : IInv(r)) /\ [Next]_vars => [Pool!Next]_(Pool!vars)
  BY StepPool
<1> QED
  BY <1>1, <1>2, Invariant, PTL DEF Spec, PoolSpec, Pool!Spec

-----------------------------------------------------------------------------
(* The entries that pmm_start is given, and those the BIOS reported. *)

(* The answers that load_mmap stores. *)
Kept(bios) == {bios[i] : i \in {j \in 1 .. Len(bios) : Stores(bios[j])}}

(* load_mmap stores nothing else. *)
LEMMA Loaded ==
  ASSUME NEW B, NEW bios \in Seq(B)
  PROVE  LoadMmap(bios) \in Seq(Kept(bios))
<1> DEFINE n == Len(bios)
           T == Kept(bios)
           Is(f) == f = [k \in 0 .. n |-> IF k = 0 THEN << >>
                                           ELSE IF Stores(bios[k]) THEN Append(f[k - 1], bios[k]) ELSE f[k - 1]]
           S == [k \in 0 .. n |-> Seq(T)]
           step == [k \in 1 .. n |-> [x \in Seq(T) |-> IF Stores(bios[k]) THEN Append(x, bios[k]) ELSE x]]
<1>1. n \in Nat
  OBVIOUS
<1>2. \A k \in 1 .. n : Stores(bios[k]) => bios[k] \in T
  BY DEF Kept
<1> HIDE DEF T
<1>3. << >> \in Seq(T) /\ \A k \in 1 .. n, x \in Seq(T) : Stores(bios[k]) => Append(x, bios[k]) \in Seq(T)
  BY <1>2
<1>4. \A k \in 1 .. n, x \in Seq(T) : step[k][x] = (IF Stores(bios[k]) THEN Append(x, bios[k]) ELSE x)
  BY Zenon
<1>5. \A k \in 0 .. n : S[k] = Seq(T)
  BY Zenon
<1> HIDE DEF step, S, n
<1>6. StaysIn(n, S, << >>, step)
  <2>1. 0 \in 0 .. n /\ \A k \in 1 .. n : k \in 0 .. n /\ k - 1 \in 0 .. n
    BY <1>1
  <2>2. << >> \in S[0]
    BY <2>1, <1>3, <1>5
  <2>3. ASSUME NEW k \in 1 .. n, NEW x \in S[k - 1] PROVE step[k][x] \in S[k]
    <3>1. x \in Seq(T) /\ S[k] = Seq(T)
      BY <2>1, <1>5
    <3>2. step[k][x] = IF Stores(bios[k]) THEN Append(x, bios[k]) ELSE x
      BY <3>1, <1>4
    <3> QED
      BY <3>1, <3>2, <1>3
  <2> QED
    BY <2>2, <2>3 DEF StaysIn
<1>7. PICK f : IsRecursive(n, S, << >>, step, f)
  BY <1>1, <1>6, RecursiveFunction
<1>8. Is(f)
  <2> DEFINE g == [k \in 0 .. n |-> IF k = 0 THEN << >>
                                     ELSE IF Stores(bios[k]) THEN Append(f[k - 1], bios[k]) ELSE f[k - 1]]
  <2>1. f = [k \in 0 .. n |-> f[k]] /\ f[0] = << >>
    BY <1>7 DEF IsRecursive
  <2>2. ASSUME NEW k \in 1 .. n
        PROVE  f[k] = IF Stores(bios[k]) THEN Append(f[k - 1], bios[k]) ELSE f[k - 1]
    <3>1. k - 1 \in 0 .. n
      BY <1>1
    <3>2. f[k] = step[k][f[k - 1]] /\ f[k - 1] \in Seq(T)
      BY <3>1, <1>5, <1>7 DEF IsRecursive
    <3> QED
      BY <3>2, <1>4
  <2>3. \A k \in 0 .. n : f[k] = g[k]
    <3> TAKE k \in 0 .. n
    <3>1. k = 0 \/ k \in 1 .. n
      BY <1>1
    <3> QED
      BY <3>1, <2>1, <2>2
  <2>4. g = [k \in 0 .. n |-> g[k]]
    OBVIOUS
  <2> HIDE DEF g
  <2>5. f = g
    BY <2>1, <2>3, <2>4
  <2> QED
    BY <2>5 DEF g
<1> DEFINE stored == CHOOSE g : Is(g)
<1>9. Is(stored)
  <2> HIDE DEF Is
  <2> QED
    BY Zenon, <1>8
<1>10. LoadMmap(bios) = stored[n]
  BY DEF LoadMmap, n
<1> HIDE DEF stored
<1> DEFINE U == {k \in 0 .. n : stored[k] \in Seq(T)}
<1>11. 0 \in U
  BY <1>1, <1>3, <1>9
<1>12. \A k \in 0 .. n - 1 : k \in U => k + 1 \in U
  <2> SUFFICES ASSUME NEW k \in 0 .. n - 1, k \in U PROVE k + 1 \in U
    OBVIOUS
  <2>1. k + 1 \in 1 .. n /\ k + 1 \in 0 .. n /\ (k + 1) - 1 = k /\ k + 1 # 0
    BY <1>1
  <2>2. stored[k + 1] = IF Stores(bios[k + 1]) THEN Append(stored[k], bios[k + 1]) ELSE stored[k]
    BY <2>1, <1>9
  <2> QED
    BY <2>1, <2>2, <1>3
<1> HIDE DEF U, Is
<1>13. \A k \in 0 .. n : k \in U
  BY <1>1, <1>11, <1>12, UpTo
<1>14. n \in U
  BY <1>1, <1>13
<1> QED
  BY <1>10, <1>14 DEF U, T

(* The first entry of the BIOS that load_mmap stores and alloc() takes from. *)
TakenFrom(mmap) == Chosen(mmap, PAGE_SIZE)

(* alloc() finds an entry, if one is long enough. *)
LEMMA TakenSuits ==
  ASSUME NEW B, NEW mmap \in Seq(B), Suitable(mmap, PAGE_SIZE) # {}
  PROVE  /\ TakenFrom(mmap) \in 1 .. Len(mmap) /\ mmap[TakenFrom(mmap)].type = TYPE_USABLE
         /\ mmap[TakenFrom(mmap)].length > PAGE_SIZE
<1> DEFINE S == Suitable(mmap, PAGE_SIZE)
<1>1. S \in SUBSET (0 .. Len(mmap)) /\ Len(mmap) \in Nat
  BY DEF Suitable
<1>2. \E i \in S : \A j \in S : j <= i
  <2> HIDE DEF S
  <2> QED
    BY <1>1, MaxGreatest DEF S
<1>3. TakenFrom(mmap) = CHOOSE i \in S : \A j \in S : j <= i
  BY DEF TakenFrom, Chosen
<1> HIDE DEF S
<1>4. TakenFrom(mmap) \in S
  BY Zenon, <1>2, <1>3
<1> QED
  BY <1>4 DEF S, Suitable

(* What ALIGN makes of a number. *)
LEMMA AlignUp ==
  ASSUME NEW x \in Nat
  PROVE  /\ ALIGN(x, PAGE_SIZE) \in Nat
         /\ x <= ALIGN(x, PAGE_SIZE) /\ ALIGN(x, PAGE_SIZE) < x + PAGE_SIZE
<1>1. x % PAGE_SIZE \in 0 .. PAGE_SIZE - 1 /\ PAGE_SIZE \in Nat
  BY NumberFacts, DivMod
<1> DEFINE m == x % PAGE_SIZE
<1> HIDE DEF m
<1>2. ALIGN(x, PAGE_SIZE) = IF m = 0 THEN x ELSE (x - m) + PAGE_SIZE
  BY DEF ALIGN, m
<1>3. m \in 0 .. PAGE_SIZE - 1
  BY <1>1 DEF m
<1> QED
  BY <1>1, <1>2, <1>3, NumberFacts

(* The list takes one page. *)
LEMMA ListTakesPage == ALIGN(LIST_SIZE, PAGE_SIZE) = PAGE_SIZE
<1>1. CASE PAGE_SIZE = 1
  BY <1>1 DEF ALIGN, LIST_SIZE
<1>2. CASE PAGE_SIZE # 1
  <2>1. 1 \in 0 .. PAGE_SIZE - 1
    BY <1>2, NumberFacts
  <2>2. (1 + PAGE_SIZE * 0) % PAGE_SIZE = 1
    BY <2>1, NumberFacts, DivModUnique
  <2>3. 1 % PAGE_SIZE = 1
    BY <2>2, NumberFacts
  <2> QED
    BY <2>3, NumberFacts DEF ALIGN, LIST_SIZE
<1> QED
  BY <1>1, <1>2

(* The pages of a length that is a number of pages. *)
LEMMA WholePages ==
  ASSUME NEW l \in 1 .. W - 1, l % PAGE_SIZE = 0
  PROVE  Pages(l) \in Nat /\ Pages(l) * PAGE_SIZE = l
<1>1. l \div PAGE_SIZE \in Int /\ l = (l % PAGE_SIZE) + PAGE_SIZE * (l \div PAGE_SIZE)
  BY NumberFacts, DivMod
<1>2. Pages(l) = l \div PAGE_SIZE
  BY <1>1 DEF Pages
<1>3. Pages(l) \in Nat
  BY PagesRange
<1> QED
  BY <1>1, <1>2, <1>3, NumberFacts

(* The same length less a page. *)
LEMMA OnePageLess ==
  ASSUME NEW l \in Nat, l % PAGE_SIZE = 0
  PROVE  (l - PAGE_SIZE) % PAGE_SIZE = 0
<1> DEFINE q == l \div PAGE_SIZE
<1>1. q \in Int /\ l = (l % PAGE_SIZE) + PAGE_SIZE * q
  BY NumberFacts, DivMod
<1> HIDE DEF q
<1>2. q - 1 \in Int /\ 0 \in 0 .. PAGE_SIZE - 1
  BY <1>1, NumberFacts
<1>3. (0 + PAGE_SIZE * (q - 1)) % PAGE_SIZE = 0
  BY <1>2, NumberFacts, DivModUnique
<1>4. 0 + PAGE_SIZE * (q - 1) = l - PAGE_SIZE
  BY <1>1, NumberFacts
<1> QED
  BY <1>3, <1>4

(* The answers of the BIOS. *)
Answered == [base : Nat, length : Nat, type : Nat, size : Nat, valid : BOOLEAN]

(* The entries that pages may come from, of a BIOS that answers so. *)
OfferedBy(bios) == {LAST_ENTRY} \cup {bios[i] : i \in {j \in 1 .. Len(bios) : bios[j].valid}}

(* The map that load_mmap makes of a tidy one. *)
LEMMA TidyMap ==
  ASSUME NEW bios, Tidy(bios)
  PROVE  /\ LoadMmap(bios) \in Seq(Answered)
         /\ \A k \in 1 .. Len(LoadMmap(bios)) : LoadMmap(bios)[k] \in OfferedBy(bios)
<1>1. bios \in Seq(Answered) /\ \A i \in 1 .. Len(bios) : bios[i].size <= SHORT_ENTRY => bios[i].valid
  BY DEF Tidy, Answered
<1>2. LoadMmap(bios) \in Seq(Kept(bios))
  BY <1>1, Loaded
<1>3. Kept(bios) \subseteq Answered
  <2> HIDE DEF Answered
  <2> QED
    BY <1>1 DEF Kept
<1>4. Kept(bios) \subseteq OfferedBy(bios)
  BY <1>1 DEF Kept, OfferedBy, Stores
<1> DEFINE mmap == LoadMmap(bios)
<1> HIDE DEF mmap
<1>5. mmap \in Seq(Kept(bios))
  BY <1>2 DEF mmap
<1>6. Len(mmap) \in Nat /\ \A k \in 1 .. Len(mmap) : mmap[k] \in Kept(bios)
  BY <1>5
<1>7. mmap \in Seq(Answered)
  <2> HIDE DEF Answered
  <2> QED
    BY <1>3, <1>5
<1> QED
  BY <1>4, <1>6, <1>7 DEF mmap

(* What make_entries_list makes of a map: the entry that alloc() took from   *)
(* is a page shorter.                                                        *)
Listed(mmap, made, c) ==
  /\ made.address = ALIGN(mmap[c].base + mmap[c].length - PAGE_SIZE, PAGE_SIZE)
  /\ Len(made.entries) = LIST_ENTRIES + 1 /\ made.entries[LIST_ENTRIES + 1] = LAST_ENTRY
  /\ \A k \in 1 .. LIST_ENTRIES :
       /\ made.entries[k].base = mmap[k].base /\ made.entries[k].type = mmap[k].type
       /\ made.entries[k].length = IF k = c THEN mmap[k].length - PAGE_SIZE ELSE mmap[k].length

(* It does that. *)
LEMMA ListMade ==
  ASSUME NEW mmap \in Seq(Answered), Suitable(mmap, PAGE_SIZE) # {}, LIST_ENTRIES <= Len(mmap)
  PROVE  Listed(mmap, MakeEntriesList(mmap), TakenFrom(mmap))
<1> DEFINE c == TakenFrom(mmap)
           new == [mmap EXCEPT ![c].length = @ - PAGE_SIZE]
           sub == SubSeq(new, 1, LIST_ENTRIES)
           made == MakeEntriesList(mmap)
           address == ALIGN(mmap[c].base + mmap[c].length - PAGE_SIZE, PAGE_SIZE)
<1>1. c \in 1 .. Len(mmap) /\ mmap[c].length > PAGE_SIZE
  BY TakenSuits
<1>2. Chosen(mmap, ALIGN(LIST_SIZE, PAGE_SIZE)) = c /\ ALIGN(LIST_SIZE, PAGE_SIZE) = PAGE_SIZE
  BY ListTakesPage DEF TakenFrom
<1>3. made = [address |-> address, entries |-> Append(sub, LAST_ENTRY)]
  BY Zenon, <1>2 DEF MakeEntriesList, Alloc
<1> HIDE DEF c
<1>4. \A k \in 1 .. Len(mmap) : mmap[k] \in Answered
  <2> HIDE DEF Answered
  <2> QED
    OBVIOUS
<1>5. mmap[c].length - PAGE_SIZE \in Nat
  BY <1>1, <1>4, NumberFacts DEF Answered
<1>6. /\ new \in Seq(Answered) /\ Len(new) = Len(mmap)
      /\ \A k \in 1 .. Len(mmap) :
           /\ new[k].base = mmap[k].base /\ new[k].type = mmap[k].type
           /\ new[k].length = IF k = c THEN mmap[k].length - PAGE_SIZE ELSE mmap[k].length
  <2> DEFINE x == [mmap[c] EXCEPT !.length = @ - PAGE_SIZE]
  <2>1. /\ x \in Answered /\ x.base = mmap[c].base /\ x.type = mmap[c].type
        /\ x.length = mmap[c].length - PAGE_SIZE
    BY <1>1, <1>4, <1>5 DEF Answered
  <2>2. new = [mmap EXCEPT ![c] = x]
    OBVIOUS
  <2> HIDE DEF x, new
  <2>3. /\ new \in Seq(Answered) /\ Len(new) = Len(mmap)
        /\ \A k \in 1 .. Len(mmap) : new[k] = IF k = c THEN x ELSE mmap[k]
    <3> HIDE DEF Answered
    <3> QED
      BY <2>1, <2>2, <1>1
  <2> QED
    BY <2>1, <2>3
<1> HIDE DEF new
<1>7. LIST_ENTRIES \in Nat
  BY MapAssumption
<1>8. sub \in Seq(Answered) /\ Len(sub) = LIST_ENTRIES /\ \A k \in 1 .. LIST_ENTRIES : sub[k] = new[k]
  <2> HIDE DEF Answered
  <2> QED
    BY <1>6, <1>7
<1> HIDE DEF sub
<1>9. /\ Len(Append(sub, LAST_ENTRY)) = LIST_ENTRIES + 1
      /\ Append(sub, LAST_ENTRY)[LIST_ENTRIES + 1] = LAST_ENTRY
      /\ \A k \in 1 .. LIST_ENTRIES : Append(sub, LAST_ENTRY)[k] = new[k]
  <2> HIDE DEF Answered
  <2> QED
    BY <1>7, <1>8
<1> HIDE DEF made, address
<1>10. made.address = address /\ made.entries = Append(sub, LAST_ENTRY)
  BY <1>3
<1>11. \A k \in 1 .. LIST_ENTRIES : k \in 1 .. Len(mmap)
  BY <1>7
<1> QED
  BY <1>6, <1>9, <1>10, <1>11 DEF made, address, c, Listed

(* A page inside an entry that is offered as usable, and not the one that    *)
(* the list of entries is in.                                                *)
Provided(bios, p) ==
  /\ p # Made(bios).address
  /\ \E e \in OfferedBy(bios) :
       e.type = TYPE_USABLE /\ e.base <= p /\ p + PAGE_SIZE <= e.base + e.length

(* The pages of a usable section for an entry of the list are such pages. *)
LEMMA EntryProvided ==
  ASSUME NEW bios, NEW low, NEW list, list = Made(bios).entries, Tidy(bios), Describable(list, low),
         NEW k \in 2 .. Len(list), InterpretSignal(list[k].type) = FREE,
         NEW p \in PageRun(list[k].base, Pages(list[k].length))
  PROVE  Provided(bios, p)
<1> DEFINE mmap == LoadMmap(bios)
           all == Append(mmap, LAST_ENTRY)
           c == TakenFrom(mmap)
           made == MakeEntriesList(mmap)
           at == mmap[c].base + mmap[c].length - PAGE_SIZE
<1>1. /\ mmap \in Seq(Answered) /\ \A i \in 1 .. Len(mmap) : mmap[i] \in OfferedBy(bios)
  BY TidyMap
<1>2. /\ Suitable(mmap, PAGE_SIZE) # {} /\ LIST_ENTRIES <= Len(mmap)
      /\ \A i \in {i \in 1 .. Len(all) : all[i].type = TYPE_USABLE} :
           all[i].base # 0 => all[i].length % PAGE_SIZE = 0
      /\ \A i, j \in {i \in 1 .. Len(all) : all[i].type = TYPE_USABLE} :
           i = j \/ all[i].base + all[i].length <= all[j].base
                 \/ all[j].base + all[j].length <= all[i].base
  BY DEF Tidy
<1>3. made = Made(bios)
  BY DEF Made
<1> HIDE DEF mmap, all, c, made
<1>4. Listed(mmap, made, c)
  BY <1>1, <1>2, ListMade DEF made, c
<1>5. c \in 1 .. Len(mmap) /\ mmap[c].type = TYPE_USABLE /\ mmap[c].length > PAGE_SIZE
  BY <1>1, <1>2, TakenSuits DEF c
<1>6. /\ Len(all) = Len(mmap) + 1 /\ Len(mmap) \in Nat /\ all[Len(mmap) + 1] = LAST_ENTRY
      /\ \A i \in 1 .. Len(mmap) : all[i] = mmap[i] /\ mmap[i] \in Answered
  <2> HIDE DEF Answered
  <2> QED
    BY <1>1 DEF all
<1>7. /\ LAST_ENTRY.base \in Nat /\ LAST_ENTRY.length \in Nat /\ LIST_ENTRIES \in Nat
      /\ \A i \in 1 .. Len(mmap) : mmap[i].base \in Nat /\ mmap[i].length \in Nat
  BY <1>6, MapAssumption DEF Entry, Answered
<1>8. /\ at \in Nat /\ made.address \in Nat /\ at <= made.address /\ made.address < at + PAGE_SIZE
      /\ at = mmap[c].base + mmap[c].length - PAGE_SIZE
  <2> DEFINE b == mmap[c].base
             l == mmap[c].length
  <2>1. b \in Nat /\ l \in Nat /\ l > PAGE_SIZE
    BY <1>5, <1>7
  <2>2. made.address = ALIGN(b + l - PAGE_SIZE, PAGE_SIZE)
    BY <1>4 DEF Listed
  <2> HIDE DEF b, l
  <2>3. b + l - PAGE_SIZE \in Nat
    BY <2>1, NumberFacts
  <2>4. at = b + l - PAGE_SIZE
    BY DEF b, l
  <2> HIDE DEF at
  <2> QED
    BY <2>2, <2>3, <2>4, AlignUp DEF b, l
<1>9. /\ list[k].base \in 0 .. W - 1 /\ list[k].base # 0 /\ list[k].length \in 1 .. W - 1
      /\ list[k].type = TYPE_USABLE
  <2>1. list[k].base \in 0 .. W - 1 /\ list[k].length \in 1 .. W - 1 /\ list[k].base # 0
    BY EntryFacts
  <2> QED
    BY <2>1 DEF InterpretSignal, USED, FREE, BAD
<1> DEFINE b == list[k].base
           l == list[k].length
<1>10. ASSUME l % PAGE_SIZE = 0
       PROVE  p \in Nat /\ b <= p /\ p + PAGE_SIZE <= b + l
  <2>1. Pages(l) \in Nat /\ Pages(l) * PAGE_SIZE = l
    BY <1>9, <1>10, WholePages
  <2>2. b \in Nat /\ p \in PageRun(b, Pages(l))
    BY <1>9, NumberFacts
  <2> HIDE DEF b, l
  <2>3. b <= p /\ p + PAGE_SIZE <= b + Pages(l) * PAGE_SIZE /\ p \in Nat
    BY <2>1, <2>2, RunRange
  <2> QED
    BY <2>1, <2>3
<1>11. ASSUME NEW j \in 1 .. Len(all), j # c, all[j].base = b, all[j].length = l, all[j].type = TYPE_USABLE,
              all[j] \in OfferedBy(bios)
       PROVE  Provided(bios, p)
  <2>1. l % PAGE_SIZE = 0
    BY <1>2, <1>9, <1>11
  <2>2. p \in Nat /\ b <= p /\ p + PAGE_SIZE <= b + l
    BY <2>1, <1>10
  <2>3. b + l <= mmap[c].base \/ mmap[c].base + mmap[c].length <= b
    <3>1. c \in 1 .. Len(all) /\ all[c] = mmap[c]
      BY <1>5, <1>6
    <3> QED
      BY <3>1, <1>2, <1>5, <1>11
  <2>4. p # made.address
    <3> DEFINE bc == mmap[c].base
               lc == mmap[c].length
    <3>1. bc \in Nat /\ lc \in Nat /\ lc > PAGE_SIZE /\ at = bc + lc - PAGE_SIZE /\ (b + l <= bc \/ bc + lc <= b)
      BY <1>5, <1>7, <1>8, <2>3
    <3>2. b \in Nat /\ l \in Nat
      BY <1>9, NumberFacts
    <3> HIDE DEF bc, lc, b, l, at
    <3> QED
      BY <1>8, <2>2, <3>1, <3>2, NumberFacts
  <2> QED
    BY <2>2, <2>4, <1>3, <1>11 DEF Provided
<1>12. CASE k = LIST_ENTRIES + 1
  <2>1. list[k] = LAST_ENTRY
    BY <1>3, <1>4, <1>12 DEF Listed
  <2>2. Len(mmap) + 1 \in 1 .. Len(all) /\ Len(mmap) + 1 # c /\ all[Len(mmap) + 1] = LAST_ENTRY
    BY <1>5, <1>6
  <2>3. LAST_ENTRY \in OfferedBy(bios)
    BY DEF OfferedBy
  <2> QED
    BY <2>1, <2>2, <2>3, <1>9, <1>11
<1>13. CASE k # LIST_ENTRIES + 1
  <2>1. k \in 1 .. LIST_ENTRIES /\ k \in 1 .. Len(mmap) /\ k \in 1 .. Len(all)
    <3>1. Len(list) = LIST_ENTRIES + 1
      BY <1>3, <1>4 DEF Listed
    <3> QED
      BY <3>1, <1>2, <1>6, <1>7, <1>13
  <2>2. /\ mmap[k].base = b /\ mmap[k].type = TYPE_USABLE /\ all[k] = mmap[k] /\ mmap[k] \in OfferedBy(bios)
        /\ l = IF k = c THEN mmap[k].length - PAGE_SIZE ELSE mmap[k].length
    BY <2>1, <1>1, <1>3, <1>4, <1>6, <1>9 DEF Listed
  <2>3. CASE k # c
    BY <2>1, <2>2, <2>3, <1>11
  <2>4. CASE k = c
    <3>1. mmap[c].length % PAGE_SIZE = 0
      BY <2>1, <2>2, <2>4, <1>2, <1>9
    <3>2. l = mmap[c].length - PAGE_SIZE
      BY <2>2, <2>4
    <3>3. l % PAGE_SIZE = 0
      BY <3>1, <3>2, <1>5, <1>7, OnePageLess
    <3>4. p \in Nat /\ b <= p /\ p + PAGE_SIZE <= b + l
      BY <3>3, <1>10
    <3>5. p + PAGE_SIZE <= at /\ p + PAGE_SIZE <= mmap[c].base + mmap[c].length /\ mmap[c].base <= p
      <4> DEFINE bc == mmap[c].base
                 lc == mmap[c].length
      <4>1. bc \in Nat /\ lc \in Nat /\ at = bc + lc - PAGE_SIZE /\ b = bc /\ l = lc - PAGE_SIZE
        BY <1>5, <1>7, <1>8, <2>2, <2>4
      <4>2. p + PAGE_SIZE <= at /\ p + PAGE_SIZE <= bc + lc /\ bc <= p
        <5> HIDE DEF bc, lc, b, l, at
        <5> QED
          BY <4>1, <3>4, NumberFacts
      <4> QED
        BY <4>2
    <3>6. p # made.address
      <4> HIDE DEF at
      <4> QED
        BY <3>4, <3>5, <1>8, NumberFacts
    <3> QED
      BY <3>5, <3>6, <2>2, <2>4, <1>3, <1>5 DEF Provided
  <2> QED
    BY <2>3, <2>4
<1> QED
  BY <1>12, <1>13

-----------------------------------------------------------------------------
(* The free pages lie inside usable entries. *)

(* The pages that are free, held or on their way from one to the other. *)
PoolPages == PoolFree \cup in_use \cup PoolMoving

(* A call brings no page into the pool. *)
LEMMA PoolPagesKept ==
  ASSUME NEW r, IInv(r), Started, [Pool!Next]_(Pool!vars)
  PROVE  PoolPages' \subseteq PoolPages
<1>1. /\ PoolFree \in SUBSET Nat
      /\ pc \in {"free", "lock"} =>
           PoolMoving = PageRun(page, count) /\ page \in Nat /\ count \in Nat \ {0} /\ PoolCall = pc
      /\ pc = "alloc" => PoolMoving = {} /\ PoolCall = pc
      /\ pc = "idle" => PoolMoving = {} /\ PoolCall = "none"
  BY PoolFacts
<1>2. pc \in {"idle", "alloc", "free", "lock"}
  BY CallFacts
<1>3. PoolCall # "start"
  BY <1>1, <1>2
<1>4. PoolCall \in {"free", "lock"} => Pool!Min(PoolMoving) \in PoolMoving
  <2> SUFFICES ASSUME PoolCall \in {"free", "lock"}
               PROVE  Pool!Min(PoolMoving) \in PoolMoving
    OBVIOUS
  <2>1. PoolMoving = PageRun(page, count) /\ page \in Nat /\ count \in Nat \ {0}
    BY <1>1, <1>2
  <2>2. page \in PageRun(page, count) /\ Pool!Min(PageRun(page, count)) = page
    BY <2>1, RunHead
  <2> QED
    BY Zenon, <2>1, <2>2
<1>5. PoolFree # {} => Pool!Min(PoolFree) \in PoolFree
  <2> HIDE DEF PoolFree
  <2> SUFFICES ASSUME PoolFree # {}
               PROVE  Pool!Min(PoolFree) \in PoolFree
    OBVIOUS
  <2>1. Min(PoolFree) \in PoolFree /\ \A x \in PoolFree : Min(PoolFree) <= x
    BY <1>1, MinLeast
  <2>2. Pool!Min(PoolFree) = Min(PoolFree)
    BY <1>1, <2>1, PoolMin
  <2> QED
    BY Zenon, <2>1, <2>2
<1> HIDE DEF PoolFree, PoolCall, PoolMoving
<1>6. CASE Pool!Start
  <2>1. PoolCall = "start"
    BY Zenon, <1>6 DEF Pool!Start, PoolCall
  <2> QED
    BY <1>3, <2>1
<1>7. CASE Pool!BeginTake \/ UNCHANGED Pool!vars
  <2>1. PoolFree' = PoolFree /\ in_use' = in_use /\ PoolMoving' = PoolMoving
    BY Zenon, <1>7 DEF Pool!BeginTake, Pool!vars, PoolFree, PoolMoving
  <2> QED
    BY <2>1 DEF PoolPages
<1>8. CASE Pool!Take
  <2>1. PICK taken : /\ taken = IF PoolFree = {} THEN {} ELSE {Pool!Min(PoolFree)}
                     /\ PoolFree' = PoolFree \ taken /\ in_use' = in_use \cup taken
                     /\ PoolMoving' = PoolMoving
    BY Zenon, <1>8 DEF Pool!Take, PoolFree, PoolMoving
  <2> QED
    BY <2>1, <1>5 DEF PoolPages
<1>9. CASE Pool!BeginFree
  <2>1. PICK pages \in (SUBSET in_use) \ {{}} :
          PoolMoving' = pages /\ in_use' = in_use \ pages /\ PoolFree' = PoolFree
    BY Zenon, <1>9 DEF Pool!BeginFree, PoolFree, PoolMoving
  <2> QED
    BY <2>1 DEF PoolPages
<1>10. CASE Pool!BeginLock
  <2>1. PICK pages \in (SUBSET PoolFree) \ {{}} :
          PoolMoving' = pages /\ in_use' = in_use /\ PoolFree' = PoolFree
    BY Zenon, <1>10 DEF Pool!BeginLock, PoolFree, PoolMoving
  <2> QED
    BY <2>1 DEF PoolPages
<1>11. CASE Pool!FreePage
  <2>1. /\ PoolCall = "free" /\ in_use' = in_use
        /\ PoolFree' \in {PoolFree, PoolFree \cup {Pool!Min(PoolMoving)}}
        /\ PoolMoving' = PoolMoving \ {Pool!Min(PoolMoving)} \/ PoolMoving' = PoolMoving
    BY Zenon, <1>11 DEF Pool!FreePage, Pool!Passed, PoolFree, PoolMoving, PoolCall
  <2> QED
    BY <2>1, <1>4 DEF PoolPages
<1>12. CASE Pool!LockPage
  <2>1. /\ PoolCall = "lock"
        /\ PoolFree' \in {PoolFree, PoolFree \ {Pool!Min(PoolMoving)}}
        /\ in_use' = in_use \cup {Pool!Min(PoolMoving)} \/ in_use' = in_use
        /\ PoolMoving' = PoolMoving \ {Pool!Min(PoolMoving)} \/ PoolMoving' = PoolMoving
    BY Zenon, <1>12 DEF Pool!LockPage, Pool!Passed, PoolFree, PoolMoving, PoolCall
  <2> QED
    BY <2>1, <1>4 DEF PoolPages
<1> QED
  BY Zenon, <1>6, <1>7, <1>8, <1>9, <1>10, <1>11, <1>12 DEF Pool!Next

(* A call leaves the map, and what was made of it, as they are, and does not *)
(* start anew.                                                               *)
LEMMA MapKept ==
  ASSUME Started, Next
  PROVE  Started' /\ UNCHANGED mapVars
<1>1. pc \notin {"boot", "entries", "recombine"}
  BY DEF Started
<1>2. ASSUME UNCHANGED mapVars, pc' = pc \/ pc' = "idle" \/ (pc' \in Calls)
      PROVE  Started' /\ UNCHANGED mapVars
  BY <1>1, <1>2, PMMAssumption DEF Started
<1>3. ~Start
  BY Zenon, <1>1 DEF Start, StartTable, SkipEntry, AddEntry, StartRecombine, RecombineMerge, RecombineSkip, RecombineEnd
<1>4. CASE AllocTurn
  <2>1. UNCHANGED mapVars /\ (pc' = pc \/ pc' = "idle")
    BY Zenon, <1>4 DEF AllocTurn, AllocUnlink, AllocSkip, AllocTake, AllocNone, Continue, PageDone
  <2> QED
    BY Zenon, <2>1, <1>2
<1>5. CASE FreeTurn
  <2>1. UNCHANGED mapVars /\ (pc' = pc \/ pc' = "idle")
    BY Zenon, <1>5 DEF FreeTurn, FreeAgain, FreeSingle, FreeFirst, FreeLast, FreeSkip, FreeEnd, Continue, PageDone
  <2> QED
    BY Zenon, <2>1, <1>2
<1>6. CASE LockTurn
  <2>1. UNCHANGED mapVars /\ (pc' = pc \/ pc' = "idle")
    BY Zenon, <1>6
       DEF LockTurn, LockSingle, LockAgain, LockFirst, LockLast, LockMiddle, LockSkip, LockEnd, Continue, PageDone
  <2> QED
    BY Zenon, <2>1, <1>2
<1>7. CASE PmmDump
  <2>1. UNCHANGED mapVars /\ pc' = pc
    BY Zenon, <1>7 DEF PmmDump
  <2> QED
    BY Zenon, <2>1, <1>2
<1>8. CASE \/ AllocPage
           \/ \E p \in in_use, n \in PageCounts : UnlockPages(p, n)
           \/ \E p \in FreePages, n \in PageCounts : LockPages(p, n)
  <2>1. \E call \in Calls : \E p, n : Begin(call, p, n)
    BY Zenon, <1>8 DEF AllocPage, UnlockPages, LockPages, Begin
  <2>2. UNCHANGED mapVars /\ pc' \in Calls
    BY Zenon, <2>1 DEF Begin
  <2> QED
    BY Zenon, <2>2, <1>2
<1> QED
  BY Zenon, <1>3, <1>4, <1>5, <1>6, <1>7, <1>8 DEF Next, Turn

(* The pages that are in the pool, or will be once pmm_start returns, are    *)
(* inside usable entries, and none of them is the page of the list.          *)
PagesProvided ==
  /\ \A p \in in_use \cup PoolMoving : Provided(answers, p)
  /\ pc # "boot" =>
       /\ list_page = Made(answers).address
       /\ \A p : Held(sec, FREE, p) => Provided(answers, p)

(* No page is held when the machine starts. *)
LEMMA InitProvided ==
  ASSUME Init
  PROVE  PagesProvided
<1>1. pc = "boot" /\ in_use = {}
  BY DEF Init
<1>2. in_use \cup PoolMoving = {}
  BY <1>1 DEF PoolMoving
<1> QED
  BY <1>1, <1>2 DEF PagesProvided

(* The first section is bad. *)
LEMMA TableHoldsNone ==
  ASSUME NEW r, IInv(r), StartTable
  PROVE  \A p : ~Held(sec', FREE, p)
BY SlotFacts DEF StartTable, SetAll, Origin, IInv, BootInv, Lives, Unlinked, Held, FREE, BAD

(* pmm_start makes free pages of those of the entries only. *)
LEMMA StartProvided ==
  ASSUME NEW r, IInv(r), TidyMaps, PagesProvided, Start
  PROVE  PagesProvided'
<1>1. answers' = answers /\ in_use' = in_use /\ pc' \in {"entries", "recombine", "idle"}
  BY DEF Start, StartTable, SkipEntry, AddEntry, StartRecombine, RecombineMerge, RecombineSkip, RecombineEnd,
     mapVars, historyVars
<1>2. answers \in BiosAnswers /\ (pc # "boot" => entries = Made(answers).entries)
  BY DEF IInv, MapInv
<1>3. in_use = {} /\ PoolMoving' = {}
  <2>1. pc \in {"boot", "entries", "recombine"}
    BY Zenon DEF Start, StartTable, SkipEntry, AddEntry, StartRecombine, RecombineMerge, RecombineSkip, RecombineEnd
  <2> QED
    BY <2>1, <1>1 DEF IInv, MapInv, PoolMoving
<1>4. SUFFICES list_page' = Made(answers).address /\ \A p : Held(sec', FREE, p) => Provided(answers, p)
  BY <1>1, <1>3 DEF PagesProvided
<1>5. CASE StartTable
  <2>1. list_page' = Made(answers).address
    BY Zenon, <1>5 DEF StartTable
  <2>2. \A p : ~Held(sec', FREE, p)
    BY <1>5, TableHoldsNone
  <2> QED
    BY Zenon, <2>1, <2>2
<1>6. CASE AddEntry
  <2>1. pc = "entries" /\ list_page' = list_page
    BY Zenon, <1>6 DEF AddEntry, mapVars
  <2>2. idx \in 2 .. Len(entries) /\ EntryHeld(sec, sec', entries[idx])
    BY <1>6, AddEntryStep
  <2>3. PICK low \in LowMemory : Describable(entries, low)
    BY <2>1, BootFacts
  <2>4. Tidy(answers) /\ entries = Made(answers).entries
    BY <2>1, <1>2 DEF TidyMaps
  <2>5. ASSUME NEW p, Held(sec', FREE, p) PROVE Provided(answers, p)
    <3>1. CASE Held(sec, FREE, p)
      BY <2>1, <3>1 DEF PagesProvided
    <3>2. CASE InterpretSignal(entries[idx].type) = FREE /\ p \in EntryPages(entries[idx])
      BY <2>2, <2>3, <2>4, <3>2, EntryProvided DEF EntryPages
    <3> QED
      BY <2>2, <2>5, <3>1, <3>2 DEF EntryHeld
  <2> QED
    BY <2>1, <2>5 DEF PagesProvided
<1>7. CASE RecombineMerge
  <2>1. pc = "recombine" /\ list_page' = list_page
    BY Zenon, <1>7 DEF RecombineMerge, mapVars
  <2>2. \A p : Held(sec', FREE, p) => Held(sec, FREE, p)
    BY <1>7, RecombineMergeStep
  <2> QED
    BY <2>1, <2>2 DEF PagesProvided
<1>8. CASE SkipEntry \/ StartRecombine \/ RecombineSkip \/ RecombineEnd
  <2>1. pc # "boot" /\ list_page' = list_page /\ sec' = sec
    BY <1>8 DEF SkipEntry, StartRecombine, RecombineSkip, RecombineEnd, mapVars, listVars
  <2> QED
    BY <2>1 DEF PagesProvided
<1> QED
  BY Zenon, <1>5, <1>6, <1>7, <1>8 DEF Start

(* Calls move pages inside the pool only. *)
LEMMA CallProvided ==
  ASSUME NEW r, IInv(r), NEW q, IInv(q)', Started, PagesProvided, Next
  PROVE  PagesProvided'
<1>1. Started' /\ answers' = answers /\ list_page' = list_page
  BY MapKept DEF mapVars
<1>2. [Pool!Next]_(Pool!vars)
  <2>1. [Next]_vars
    OBVIOUS
  <2> QED
    BY Zenon, <2>1, StepPool
<1>3. PoolPages' \subseteq PoolPages
  BY Zenon, <1>2, PoolPagesKept
<1>4. \A p : p \in FreePages' <=> Held(sec', FREE, p)
  BY <1>1, PoolFactsNext
<1>5. PoolFree' = FreePages'
  BY <1>1, PoolFactsNext
<1>6. PoolFree = FreePages /\ \A p : p \in FreePages <=> Held(sec, FREE, p)
  BY PoolFacts
<1>7. pc # "boot"
  BY DEF Started
<1> HIDE DEF PoolFree, PoolMoving
<1>8. \A p \in PoolPages : Provided(answers, p)
  BY <1>6, <1>7 DEF PagesProvided, PoolPages
<1>9. \A p \in in_use' \cup PoolMoving' : Provided(answers, p)
  BY <1>3, <1>8 DEF PoolPages
<1>10. \A p : Held(sec', FREE, p) => Provided(answers, p)
  BY <1>3, <1>4, <1>5, <1>8 DEF PoolPages
<1>11. list_page' = Made(answers).address
  BY <1>1, <1>7 DEF PagesProvided
<1> QED
  BY <1>1, <1>9, <1>10, <1>11 DEF PagesProvided

(* Every step keeps it. *)
LEMMA StepProvided ==
  ASSUME TidyMaps, \E r : IInv(r), PagesProvided, [Next]_vars
  PROVE  PagesProvided'
<1>1. PICK r : IInv(r)
  OBVIOUS
<1>2. PICK q : IInv(q)'
  BY EveryStep
<1>3. CASE Start
  BY <1>1, <1>3, StartProvided
<1>4. CASE Next /\ ~Start
  <2>1. pc \in {"alloc", "free", "lock", "idle"}
    BY <1>4
       DEF Next, Turn, AllocTurn, AllocUnlink, AllocSkip, AllocTake, AllocNone, FreeTurn, FreeAgain, FreeSingle,
           FreeFirst, FreeLast, FreeSkip, FreeEnd, LockTurn, LockSingle, LockAgain, LockFirst, LockLast, LockMiddle,
           LockSkip, LockEnd, Visiting, AllocPage, UnlockPages, LockPages, Begin, PmmDump
  <2>2. Started
    BY <2>1 DEF Started
  <2> QED
    BY <2>2, <1>1, <1>2, <1>4, CallProvided
<1>5. CASE UNCHANGED vars
  BY <1>5 DEF vars, mapVars, listVars, callVars, historyVars, PagesProvided, PoolMoving
<1> QED
  BY <1>3, <1>4, <1>5

(* FreeUsable, of the invariant. *)
LEMMA ProvidedUsable ==
  ASSUME NEW r, IInv(r), PagesProvided
  PROVE  FreeUsable
<1> SUFFICES ASSUME Started, NEW p \in FreePages
             PROVE  /\ p # list_page
                    /\ \E entry \in Offered :
                         /\ entry.type = TYPE_USABLE
                         /\ entry.base <= p /\ p + PAGE_SIZE <= entry.base + entry.length
  BY DEF FreeUsable
<1>1. Held(sec, FREE, p) /\ pc # "boot"
  BY PoolFacts DEF Started
<1>2. Provided(answers, p) /\ list_page = Made(answers).address
  BY <1>1 DEF PagesProvided
<1> QED
  BY <1>2 DEF Provided, Offered, OfferedBy

(* FreeUsable: of tidy maps, pmm_alloc_page can hand out only memory that    *)
(* the BIOS reports as usable, and never the page that alloc() put the list  *)
(* of entries in, whatever gaps the entries leave, in whatever order pages   *)
(* are taken, given back and locked.                                         *)
THEOREM FreePagesUsable ==
  ASSUME TidyMaps
  PROVE  Spec => []FreeUsable
<1>1. Init => PagesProvided
  BY InitProvided
<1>2. (\E r : IInv(r)) /\ PagesProvided /\ [Next]_vars => PagesProvided'
  BY StepProvided
<1>3. (\E r : IInv(r)) /\ PagesProvided => FreeUsable
  BY ProvidedUsable
<1> QED
  BY <1>1, <1>2, <1>3, Invariant, PTL DEF Spec
=============================================================================
