----------------------------- MODULE HeapProofs -----------------------------
(***************************************************************************)
(* Proofs about module Heap, for every size of grain, header, page and     *)
(* heap and for every set of requests.                                     *)
(***************************************************************************)
EXTENDS Heap, TLAPS

(* A list of well-typed headers that tiles the heap up to end. *)
Shape(l, end) ==
  /\ l.hdr \in [DOMAIN l.hdr -> Header]
  /\ \A a \in DOMAIN l.hdr : a \in Nat /\ HEAP_BASE <= a /\ l.hdr[a].length >= GRAIN
  /\ end \in Nat
  /\ Tiles(l, end)

(* The headers at S are as long and as free in m as they are in l. *)
Same(l, m, S) ==
  \A a \in S : /\ m.hdr[a].free = l.hdr[a].free
               /\ m.hdr[a].length = l.hdr[a].length

(* The headers of a list that are marked used. *)
Used(l) == {a \in DOMAIN l.hdr : ~l.hdr[a].free}

(* If the segment at a and the next one are both free, they meet at one of   *)
(* the addresses S.                                                          *)
ApartAt(l, S, a) ==
  LET next == l.hdr[a].next
  IN  l.hdr[a].free /\ next # NULL /\ l.hdr[next].free => next \in S

-----------------------------------------------------------------------------
(* Rounding up never shortens a length. *)
LEMMA RoundUpBounds ==
  ASSUME NEW n \in Nat, NEW g \in Nat \ {0}
  PROVE  /\ RoundUp(n, g) \in Nat
         /\ RoundUp(n, g) >= n
         /\ n > 0 => RoundUp(n, g) >= g
<1>1. n % g \in 0 .. g - 1
  OBVIOUS
<1>2. n % g <= n
  OBVIOUS
<1>3. n % g = 0 /\ n > 0 => n >= g
  OBVIOUS
<1>4. n - (n % g) \in Nat
  BY <1>1, <1>2
<1> QED
  BY <1>1, <1>2, <1>3, <1>4 DEF RoundUp

(* Changing the free mark of a header leaves the list as it is. *)
LEMMA SetFreeShape ==
  ASSUME NEW l, NEW end, Shape(l, end), NEW seg \in DOMAIN l.hdr, NEW value \in BOOLEAN
  PROVE  LET m == SetFree(l, seg, value)
         IN  /\ Shape(m, end)
             /\ DOMAIN m.hdr = DOMAIN l.hdr /\ m.last = l.last
             /\ m.hdr[seg].free = value
             /\ m.hdr[seg].length = l.hdr[seg].length
             /\ Same(l, m, DOMAIN l.hdr \ {seg})
             /\ \A a \in DOMAIN l.hdr : /\ m.hdr[a].next = l.hdr[a].next
                                        /\ m.hdr[a].prev = l.hdr[a].prev
<1> DEFINE m == SetFree(l, seg, value)
<1>1. /\ DOMAIN m.hdr = DOMAIN l.hdr /\ m.last = l.last
      /\ m.hdr = [a \in DOMAIN l.hdr |-> IF a = seg THEN [l.hdr[a] EXCEPT !.free = value] ELSE l.hdr[a]]
  BY DEF SetFree, List, Shape
<1>2. \A a \in DOMAIN l.hdr :
        /\ m.hdr[a] \in Header
        /\ m.hdr[a].next = l.hdr[a].next
        /\ m.hdr[a].prev = l.hdr[a].prev
        /\ m.hdr[a].length = l.hdr[a].length
        /\ m.hdr[a].free = IF a = seg THEN value ELSE l.hdr[a].free
  BY <1>1 DEF Shape, Header
<1> HIDE DEF m
<1>3. m.hdr \in [DOMAIN m.hdr -> Header]
  BY <1>1, <1>2
<1>4. Tiles(m, end)
  BY <1>1, <1>2 DEF Shape, Tiles, Linked, EndOf
<1> QED
  BY <1>1, <1>2, <1>3, <1>4 DEF Shape, Same, m

(* Merging with the next segment keeps the list in shape, and takes away at  *)
(* most the next segment, which is free.                                     *)
LEMMA CombineWithNextShape ==
  ASSUME NEW l, NEW end, Shape(l, end), NEW seg \in DOMAIN l.hdr
  PROVE  LET m == CombineWithNext(l, seg)
             next == l.hdr[seg].next
         IN  /\ Shape(m, end)
             /\ \/ m = l /\ (next # NULL => ~l.hdr[next].free)
                \/ /\ next \in DOMAIN l.hdr /\ l.hdr[next].free
                   /\ DOMAIN m.hdr = DOMAIN l.hdr \ {next}
                   /\ m.hdr[seg].next = l.hdr[next].next
                   /\ \A a \in DOMAIN m.hdr \ {seg} : m.hdr[a].next = l.hdr[a].next
             /\ seg \in DOMAIN m.hdr
             /\ m.hdr[seg].free = l.hdr[seg].free
             /\ m.hdr[seg].prev = l.hdr[seg].prev
             /\ m.hdr[seg].length >= l.hdr[seg].length
             /\ Same(l, m, DOMAIN m.hdr \ {seg})
<1> DEFINE m == CombineWithNext(l, seg)
           next == l.hdr[seg].next
           after == l.hdr[next].next
           grown == [l.hdr[seg] EXCEPT !.length = @ + l.hdr[next].length + HDR,
                                       !.next = after]
<1>1. CASE next = NULL \/ ~l.hdr[next].free
  <2>1. m = l
    BY <1>1 DEF CombineWithNext
  <2>2. l.hdr[seg].length \in Nat
    BY DEF Shape, Header
  <2> QED
    BY <1>1, <2>1, <2>2 DEF Same
<1>2. CASE next # NULL /\ l.hdr[next].free
  <2>1. /\ m.hdr = [a \in DOMAIN l.hdr \ {next} |->
                      CASE a = seg   -> grown
                        [] a = after -> [l.hdr[a] EXCEPT !.prev = seg]
                        [] OTHER     -> l.hdr[a]]
        /\ m.last = IF next = l.last THEN seg ELSE l.last
    BY <1>2 DEF CombineWithNext, List
  <2>0. next = l.hdr[seg].next /\ after = l.hdr[next].next /\ m = CombineWithNext(l, seg)
    OBVIOUS
  <2> HIDE DEF m, next, after, grown
  <2>2. /\ next \in DOMAIN l.hdr /\ next \in Nat /\ seg \in Nat /\ HDR \in Nat /\ HDR > 0 /\ GRAIN \in Nat
        /\ GRAIN > 0 /\ l.hdr[seg] \in Header /\ l.hdr[next] \in Header
        /\ next = seg + HDR + l.hdr[seg].length
        /\ l.hdr[next].prev = seg
    BY <1>2, <2>0, SizesAssumption DEF Shape, Tiles, Linked, EndOf
  <2>3. /\ next > seg
        /\ after # NULL => /\ after \in DOMAIN l.hdr /\ after \in Nat
                           /\ after = next + HDR + l.hdr[next].length
                           /\ l.hdr[after].prev = next
                           /\ after # seg /\ after # next
    BY <2>0, <2>2, <1>2 DEF Shape, Tiles, Linked, EndOf, Header
  <2>4. NULL \notin DOMAIN l.hdr
    BY SizesAssumption DEF Shape, NULL
  <2>5. /\ DOMAIN m.hdr = DOMAIN l.hdr \ {next}
        /\ seg \in DOMAIN m.hdr
    BY <2>1, <2>3, <2>2
  <2>6. /\ m.hdr[seg] \in Header
        /\ m.hdr[seg].length = l.hdr[seg].length + l.hdr[next].length + HDR
        /\ m.hdr[seg].next = after
        /\ m.hdr[seg].prev = l.hdr[seg].prev
        /\ m.hdr[seg].free = l.hdr[seg].free
    <3>1. m.hdr[seg] = grown
      BY <2>1, <2>3, <2>4, <2>5
    <3>2. after \in Nat /\ l.hdr[seg].length + l.hdr[next].length + HDR \in Nat
      BY <2>0, <2>2 DEF Header
    <3> QED
      BY <2>2, <3>1, <3>2 DEF Header, grown
  <2>7. \A a \in DOMAIN m.hdr \ {seg} :
          /\ a \in DOMAIN l.hdr
          /\ m.hdr[a] \in Header
          /\ m.hdr[a].length = l.hdr[a].length
          /\ m.hdr[a].next = l.hdr[a].next
          /\ m.hdr[a].prev = IF a = after THEN seg ELSE l.hdr[a].prev
          /\ m.hdr[a].free = l.hdr[a].free
    <3> SUFFICES ASSUME NEW a \in DOMAIN m.hdr \ {seg}
                 PROVE  /\ a \in DOMAIN l.hdr
                        /\ m.hdr[a] \in Header
                        /\ m.hdr[a].length = l.hdr[a].length
                        /\ m.hdr[a].next = l.hdr[a].next
                        /\ m.hdr[a].prev = IF a = after THEN seg ELSE l.hdr[a].prev
                        /\ m.hdr[a].free = l.hdr[a].free
      OBVIOUS
    <3>1. a \in DOMAIN l.hdr /\ l.hdr[a] \in Header
      BY <2>5 DEF Shape
    <3>2. m.hdr[a] = IF a = after THEN [l.hdr[a] EXCEPT !.prev = seg] ELSE l.hdr[a]
      BY <2>1, <2>5, <3>1
    <3> QED
      BY <2>0, <2>2, <3>1, <3>2 DEF Header
  <2>8. m.hdr \in [DOMAIN m.hdr -> Header]
    <3>1. \A a \in DOMAIN m.hdr : m.hdr[a] \in Header
      BY <2>6, <2>7
    <3>2. m.hdr = [a \in DOMAIN m.hdr |-> m.hdr[a]]
      BY <2>1, <2>5
    <3> QED
      BY <3>1, <3>2
  <2>9. \A a \in DOMAIN m.hdr : a \in Nat /\ HEAP_BASE <= a /\ m.hdr[a].length >= GRAIN
    BY <2>2, <2>5, <2>6, <2>7 DEF Shape, Header
  <2>10. Tiles(m, end)
    <3>1. HEAP_BASE \in DOMAIN m.hdr /\ m.last \in DOMAIN m.hdr
      BY <2>1, <2>2, <2>3, <2>5 DEF Shape, Tiles
    <3>2. EndOf(m.hdr, seg) = EndOf(l.hdr, next)
      BY <2>2, <2>6 DEF EndOf, Header
    <3>3. \A a \in DOMAIN m.hdr \ {seg} : EndOf(m.hdr, a) = EndOf(l.hdr, a)
      BY <2>7 DEF EndOf
    <3>4. EndOf(m.hdr, m.last) = end
      <4>1. EndOf(l.hdr, l.last) = end
        BY DEF Shape, Tiles
      <4>2. l.last = seg => after = NULL /\ next = NULL
        BY <2>0, <2>2, <1>2 DEF Shape, Tiles, Linked
      <4> QED
        BY <1>2, <2>1, <3>1, <3>2, <3>3, <4>1, <4>2
    <3>5. ASSUME NEW a \in DOMAIN m.hdr
          PROVE  Linked(m, a)
      <4>1. Linked(l, a) /\ Linked(l, next) /\ Linked(l, seg)
        BY <2>2, <2>5 DEF Shape, Tiles
      <4>2. CASE a = seg
        <5>1. a = m.last <=> m.hdr[a].next = NULL
          <6>1. next = l.last <=> after = NULL
            BY <4>1, <2>0 DEF Linked
          <6>2. seg # l.last
            BY <4>1, <2>0, <1>2 DEF Linked
          <6> QED
            BY <6>1, <6>2, <4>2, <2>1, <2>6
        <5>2. a = HEAP_BASE <=> m.hdr[a].prev = NULL
          BY <4>1, <4>2, <2>6 DEF Linked
        <5>3. ASSUME m.hdr[a].next # NULL
              PROVE  /\ m.hdr[a].next \in DOMAIN m.hdr
                     /\ m.hdr[a].next = EndOf(m.hdr, a)
                     /\ m.hdr[m.hdr[a].next].prev = a
          <6>1. after # NULL /\ m.hdr[a].next = after /\ after \in DOMAIN m.hdr \ {seg}
            BY <5>3, <4>2, <2>3, <2>5, <2>6
          <6>2. EndOf(m.hdr, a) = after
            BY <6>1, <4>2, <3>2, <2>3 DEF EndOf
          <6> QED
            BY <6>1, <6>2, <4>2, <2>7
        <5>4. ASSUME m.hdr[a].prev # NULL
              PROVE  /\ m.hdr[a].prev \in DOMAIN m.hdr
                     /\ m.hdr[m.hdr[a].prev].next = a
          <6>1. /\ l.hdr[seg].prev # NULL /\ l.hdr[seg].prev \in DOMAIN l.hdr
                /\ l.hdr[l.hdr[seg].prev].next = seg
            BY <5>4, <4>1, <4>2, <2>6 DEF Linked
          <6>2. l.hdr[seg].prev # next /\ l.hdr[seg].prev # seg
            BY <6>1, <2>0, <2>2, <2>3, <2>4
          <6> QED
            BY <6>1, <6>2, <4>2, <2>5, <2>6, <2>7
        <5> QED
          BY <5>1, <5>2, <5>3, <5>4 DEF Linked
      <4>3. CASE a # seg
        <5>1. /\ a \in DOMAIN l.hdr /\ a # next /\ m.hdr[a].next = l.hdr[a].next
              /\ m.hdr[a].prev = IF a = after THEN seg ELSE l.hdr[a].prev
              /\ m.hdr[a].length = l.hdr[a].length
          BY <4>3, <2>5, <2>7
        <5>2. a = m.last <=> m.hdr[a].next = NULL
          BY <5>1, <4>1, <4>3, <2>1 DEF Linked
        <5>3. a = HEAP_BASE <=> m.hdr[a].prev = NULL
          BY <5>1, <4>1, <2>2, <2>3, <2>4 DEF Linked
        <5>4. ASSUME m.hdr[a].next # NULL
              PROVE  /\ m.hdr[a].next \in DOMAIN m.hdr
                     /\ m.hdr[a].next = EndOf(m.hdr, a)
                     /\ m.hdr[m.hdr[a].next].prev = a
          <6> DEFINE n == l.hdr[a].next
          <6>1. n \in DOMAIN l.hdr /\ l.hdr[n].prev = a /\ n = EndOf(l.hdr, a)
            BY <5>1, <5>4, <4>1 DEF Linked
          <6>2. n # next /\ n # after
            BY <6>1, <5>1, <4>3, <2>2, <2>3, <2>4
          <6>3. m.hdr[n].prev = a
            BY <6>1, <6>2, <2>5, <2>6, <2>7
          <6> QED
            BY <6>1, <6>2, <6>3, <5>1, <4>3, <3>3, <2>5
        <5>5. ASSUME m.hdr[a].prev # NULL
              PROVE  /\ m.hdr[a].prev \in DOMAIN m.hdr
                     /\ m.hdr[m.hdr[a].prev].next = a
          <6>1. CASE a = after
            BY <6>1, <5>1, <2>5, <2>6
          <6>2. CASE a # after
            <7> DEFINE p == l.hdr[a].prev
            <7>1. p \in DOMAIN l.hdr /\ l.hdr[p].next = a /\ m.hdr[a].prev = p
              BY <6>2, <5>1, <5>5, <4>1 DEF Linked
            <7>2. p # next /\ p # seg
              BY <7>1, <6>2, <5>1, <2>0
            <7> QED
              BY <7>1, <7>2, <2>5, <2>7
          <6> QED
            BY <6>1, <6>2
        <5> QED
          BY <5>2, <5>3, <5>4, <5>5 DEF Linked
      <4> QED
        BY <4>2, <4>3
    <3>6. ASSUME NEW a \in DOMAIN m.hdr, NEW b \in DOMAIN m.hdr, a < b
          PROVE  EndOf(m.hdr, a) <= b
      <4>1. a \in DOMAIN l.hdr /\ b \in DOMAIN l.hdr /\ a \in Nat /\ b \in Nat /\ b # next
        BY <2>5, <2>9
      <4>2. EndOf(l.hdr, a) <= b
        BY <4>1, <3>6 DEF Shape, Tiles
      <4>3. CASE a = seg
        <5>1. next < b
          BY <4>1, <4>2, <4>3, <2>2 DEF EndOf
        <5> QED
          BY <5>1, <4>1, <4>3, <3>2, <2>2 DEF Shape, Tiles
      <4> QED
        BY <4>2, <4>3, <3>3
    <3>7. \A a \in DOMAIN m.hdr : EndOf(m.hdr, a) <= end
      BY <3>2, <3>3, <2>2, <2>5 DEF Shape, Tiles
    <3> QED
      BY <3>1, <3>4, <3>5, <3>6, <3>7 DEF Tiles
  <2>11. Shape(m, end)
    BY <2>8, <2>9, <2>10 DEF Shape
  <2>12. m.hdr[seg].length >= l.hdr[seg].length
    BY <2>2, <2>6 DEF Header
  <2> QED
    BY <1>2, <2>0, <2>2, <2>5, <2>6, <2>7, <2>11, <2>12 DEF Same
<1> QED
  BY <1>1, <1>2

(* Cutting a segment keeps the list in shape.  At most one header is added,  *)
(* with the free mark of the segment that was cut.                           *)
LEMMA SplitHeaderShape ==
  ASSUME NEW l, NEW end, Shape(l, end), NEW seg \in DOMAIN l.hdr,
         NEW split_at \in Nat, l.hdr[seg].length >= split_at
  PROVE  LET m == SplitHeader(l, seg, split_at)
             new == seg + split_at + HDR
         IN  /\ Shape(m, end)
             /\ \/ m = l
                \/ /\ new \notin DOMAIN l.hdr
                   /\ DOMAIN m.hdr = DOMAIN l.hdr \cup {new}
                   /\ m.hdr[seg].next = new
                   /\ m.hdr[new].free = l.hdr[seg].free
                   /\ m.hdr[new].next = l.hdr[seg].next
                   /\ \A a \in DOMAIN l.hdr \ {seg} : m.hdr[a].next = l.hdr[a].next
             /\ seg \in DOMAIN m.hdr
             /\ m.hdr[seg].free = l.hdr[seg].free
             /\ m.hdr[seg].length >= split_at
             /\ Same(l, m, DOMAIN l.hdr \ {seg})
<1> DEFINE m == SplitHeader(l, seg, split_at)
           length == l.hdr[seg].length - split_at - HDR
           new == seg + split_at + HDR
           next == l.hdr[seg].next
           rest == [length |-> length, prev |-> seg, next |-> next, free |-> l.hdr[seg].free]
           cut == [l.hdr[seg] EXCEPT !.length = split_at, !.next = new]
<1>1. CASE split_at < GRAIN \/ length < GRAIN
  <2>1. m = l
    BY <1>1 DEF SplitHeader
  <2> QED
    BY <2>1 DEF Same
<1>2. CASE ~(split_at < GRAIN \/ length < GRAIN)
  <2>1. /\ m.hdr = [a \in DOMAIN l.hdr \cup {new} |->
                      CASE a = new  -> rest
                        [] a = seg  -> cut
                        [] a = next -> [l.hdr[a] EXCEPT !.prev = new]
                        [] OTHER    -> l.hdr[a]]
        /\ m.last = IF l.last = seg THEN new ELSE l.last
    BY <1>2 DEF SplitHeader, List
  <2>0. next = l.hdr[seg].next /\ m = SplitHeader(l, seg, split_at)
    OBVIOUS
  <2>2. /\ seg \in Nat /\ HDR \in Nat /\ HDR > 0 /\ GRAIN \in Nat /\ GRAIN > 0
        /\ l.hdr[seg] \in Header
        /\ length \in Nat /\ length >= GRAIN /\ split_at >= GRAIN
        /\ new \in Nat /\ new > seg /\ new # NULL
        /\ new + HDR + length = EndOf(l.hdr, seg)
        /\ EndOf(l.hdr, seg) \in Nat /\ EndOf(l.hdr, seg) > new
    BY <1>2, SizesAssumption DEF Shape, Header, EndOf, NULL
  <2> HIDE DEF m, next, rest, cut, length
  <2>3. new \notin DOMAIN l.hdr
    BY <2>2 DEF Shape, Tiles
  <2>4. NULL \notin DOMAIN l.hdr
    BY SizesAssumption DEF Shape, NULL
  <2>5. next # NULL => /\ next \in DOMAIN l.hdr /\ next # seg /\ next # new
                       /\ next = EndOf(l.hdr, seg)
                       /\ l.hdr[next].prev = seg
    BY <2>0, <2>2 DEF Shape, Tiles, Linked
  <2>6. DOMAIN m.hdr = DOMAIN l.hdr \cup {new}
    BY <2>1
  <2>7. /\ m.hdr[new] \in Header
        /\ m.hdr[new].length = length
        /\ m.hdr[new].prev = seg
        /\ m.hdr[new].next = next
        /\ m.hdr[new].free = l.hdr[seg].free
    <3>1. m.hdr[new] = rest
      BY <2>1, <2>2, <2>3, <2>5
    <3>2. next \in Nat /\ l.hdr[seg].free \in BOOLEAN
      BY <2>0, <2>2 DEF Header
    <3> QED
      BY <2>2, <3>1, <3>2 DEF Header, rest
  <2>8. /\ m.hdr[seg] \in Header
        /\ m.hdr[seg].length = split_at
        /\ m.hdr[seg].prev = l.hdr[seg].prev
        /\ m.hdr[seg].next = new
        /\ m.hdr[seg].free = l.hdr[seg].free
    <3>1. m.hdr[seg] = cut
      BY <2>1, <2>2, <2>4, <2>5
    <3> QED
      BY <2>2, <3>1 DEF Header, cut
  <2>9. ASSUME NEW a \in DOMAIN l.hdr \ {seg}
        PROVE  /\ a \in DOMAIN m.hdr /\ a # new
               /\ m.hdr[a] \in Header
               /\ m.hdr[a].length = l.hdr[a].length
               /\ m.hdr[a].next = l.hdr[a].next
               /\ m.hdr[a].prev = IF a = next THEN new ELSE l.hdr[a].prev
               /\ m.hdr[a].free = l.hdr[a].free
    <3>1. a \in DOMAIN m.hdr /\ a # new /\ l.hdr[a] \in Header
      BY <2>3, <2>6 DEF Shape
    <3>2. m.hdr[a] = IF a = next THEN [l.hdr[a] EXCEPT !.prev = new] ELSE l.hdr[a]
      BY <2>1, <2>6, <3>1
    <3> QED
      BY <2>2, <3>1, <3>2 DEF Header
  <2>10. m.hdr \in [DOMAIN m.hdr -> Header]
    <3>1. \A a \in DOMAIN m.hdr : m.hdr[a] \in Header
      BY <2>6, <2>7, <2>8, <2>9
    <3>2. m.hdr = [a \in DOMAIN m.hdr |-> m.hdr[a]]
      BY <2>1, <2>6
    <3> QED
      BY <3>1, <3>2
  <2>11. \A a \in DOMAIN m.hdr : a \in Nat /\ HEAP_BASE <= a /\ m.hdr[a].length >= GRAIN
    <3>1. HEAP_BASE <= seg /\ HEAP_BASE \in Nat
      BY SizesAssumption DEF Shape
    <3> QED
      BY <3>1, <2>2, <2>6, <2>7, <2>8, <2>9 DEF Shape
  <2>12. Tiles(m, end)
    <3>1. HEAP_BASE \in DOMAIN m.hdr /\ m.last \in DOMAIN m.hdr
      BY <2>1, <2>6 DEF Shape, Tiles
    <3>2. EndOf(m.hdr, new) = EndOf(l.hdr, seg) /\ EndOf(m.hdr, seg) = new
      BY <2>2, <2>7, <2>8 DEF EndOf
    <3>3. \A a \in DOMAIN l.hdr \ {seg} : EndOf(m.hdr, a) = EndOf(l.hdr, a)
      BY <2>9 DEF EndOf
    <3>4. EndOf(m.hdr, m.last) = end
      BY <2>1, <3>2, <3>3 DEF Shape, Tiles
    <3>5. ASSUME NEW a \in DOMAIN m.hdr
          PROVE  Linked(m, a)
      <4>1. Linked(l, seg) /\ seg # new
        BY <2>2 DEF Shape, Tiles
      <4>2. CASE a = new
        <5>1. new = m.last <=> next = NULL
          BY <4>1, <2>0, <2>1, <2>3 DEF Linked, Shape, Tiles
        <5>2. new # HEAP_BASE
          BY <2>3 DEF Shape, Tiles
        <5>3. next # NULL => /\ next \in DOMAIN m.hdr
                             /\ next = EndOf(m.hdr, new)
                             /\ m.hdr[next].prev = new
          BY <2>5, <2>9, <3>2
        <5>4. seg # NULL /\ seg \in DOMAIN m.hdr /\ m.hdr[seg].next = new
          BY <2>4, <2>6, <2>8
        <5> QED
          BY <4>2, <5>1, <5>2, <5>3, <5>4, <2>7 DEF Linked
      <4>3. CASE a = seg
        <5>1. seg # m.last /\ new # NULL
          BY <4>1, <2>1, <2>2
        <5>2. seg = HEAP_BASE <=> m.hdr[seg].prev = NULL
          BY <4>1, <2>8 DEF Linked
        <5>3. m.hdr[new].prev = seg /\ new \in DOMAIN m.hdr
          BY <2>6, <2>7
        <5>4. m.hdr[seg].prev # NULL => /\ m.hdr[seg].prev \in DOMAIN m.hdr
                                        /\ m.hdr[m.hdr[seg].prev].next = seg
          <6>1. l.hdr[seg].prev # NULL => /\ l.hdr[seg].prev \in DOMAIN l.hdr
                                          /\ l.hdr[l.hdr[seg].prev].next = seg
            BY <4>1 DEF Linked
          <6>2. l.hdr[seg].next # seg
            BY <2>0, <2>4, <2>5
          <6> QED
            BY <6>1, <6>2, <2>8, <2>9
        <5> QED
          BY <4>3, <5>1, <5>2, <5>3, <5>4, <3>2, <2>8 DEF Linked
      <4>4. CASE a \in DOMAIN l.hdr \ {seg}
        <5>1. Linked(l, a) /\ a # new
          BY <4>4, <2>3 DEF Shape, Tiles
        <5>2. a = m.last <=> m.hdr[a].next = NULL
          BY <4>4, <5>1, <2>1, <2>9 DEF Linked
        <5>3. a = HEAP_BASE <=> m.hdr[a].prev = NULL
          BY <4>4, <5>1, <2>2, <2>4, <2>5, <2>9 DEF Linked
        <5>4. ASSUME m.hdr[a].next # NULL
              PROVE  /\ m.hdr[a].next \in DOMAIN m.hdr
                     /\ m.hdr[a].next = EndOf(m.hdr, a)
                     /\ m.hdr[m.hdr[a].next].prev = a
          <6> DEFINE n == l.hdr[a].next
          <6>1. n \in DOMAIN l.hdr /\ l.hdr[n].prev = a /\ n = EndOf(l.hdr, a)
            BY <4>4, <5>1, <5>4, <2>9 DEF Linked
          <6>2. n # next
            BY <6>1, <4>4, <2>4, <2>5
          <6>3. m.hdr[n].prev = a /\ n \in DOMAIN m.hdr
            BY <6>1, <6>2, <2>6, <2>8, <2>9
          <6> QED
            BY <6>1, <6>3, <4>4, <3>3, <2>9
        <5>5. ASSUME m.hdr[a].prev # NULL
              PROVE  /\ m.hdr[a].prev \in DOMAIN m.hdr
                     /\ m.hdr[m.hdr[a].prev].next = a
          <6>1. CASE a = next
            BY <6>1, <4>4, <2>6, <2>7, <2>9
          <6>2. CASE a # next
            <7> DEFINE p == l.hdr[a].prev
            <7>1. p \in DOMAIN l.hdr /\ l.hdr[p].next = a /\ m.hdr[a].prev = p
              BY <6>2, <4>4, <5>1, <5>5, <2>9 DEF Linked
            <7>2. p # seg
              BY <7>1, <6>2, <2>0
            <7> QED
              BY <7>1, <7>2, <2>6, <2>9
          <6> QED
            BY <6>1, <6>2
        <5> QED
          BY <5>2, <5>3, <5>4, <5>5 DEF Linked
      <4> QED
        BY <4>2, <4>3, <4>4, <2>6
    <3>6. ASSUME NEW a \in DOMAIN m.hdr, NEW b \in DOMAIN m.hdr, a < b
          PROVE  EndOf(m.hdr, a) <= b
      <4>1. \A x, y \in DOMAIN l.hdr : x < y => EndOf(l.hdr, x) <= y
        BY DEF Shape, Tiles
      <4>2. a \in Nat /\ b \in Nat /\ \A x \in DOMAIN l.hdr : EndOf(l.hdr, x) \in Nat /\ x \in Nat
        BY <2>2, <2>11 DEF EndOf, Shape, Header
      <4>3. CASE a = new
        <5>1. b \in DOMAIN l.hdr /\ seg < b
          BY <4>2, <4>3, <3>6, <2>2, <2>6
        <5> QED
          BY <5>1, <4>1, <4>3, <3>2
      <4>4. CASE b = new
        <5>1. a \in DOMAIN l.hdr
          BY <4>4, <3>6, <4>2, <2>6
        <5>2. a = seg \/ a < seg \/ a > seg
          BY <4>2, <2>2
        <5>3. CASE a < seg
          BY <5>1, <5>3, <4>1, <4>2, <4>4, <3>3, <2>2
        <5>4. CASE a > seg
          BY <5>1, <5>4, <4>1, <4>2, <4>4, <3>6, <2>2
        <5> QED
          BY <5>2, <5>3, <5>4, <4>4, <3>2, <4>2
      <4>5. CASE a # new /\ b # new
        <5>1. a \in DOMAIN l.hdr /\ b \in DOMAIN l.hdr /\ EndOf(l.hdr, a) <= b
          BY <4>1, <4>5, <3>6, <2>6
        <5>2. CASE a = seg
          BY <5>1, <5>2, <3>2, <2>2, <4>2
        <5> QED
          BY <5>1, <5>2, <3>3
      <4> QED
        BY <4>3, <4>4, <4>5
    <3>7. \A a \in DOMAIN m.hdr : EndOf(m.hdr, a) <= end
      <4>1. new <= end
        BY <2>2 DEF Shape, Tiles
      <4> QED
        BY <4>1, <3>2, <3>3, <2>6 DEF Shape, Tiles
    <3> QED
      BY <3>1, <3>4, <3>5, <3>6, <3>7 DEF Tiles
  <2>13. Shape(m, end)
    BY <2>10, <2>11, <2>12 DEF Shape
  <2>14. m.hdr[seg].length >= split_at
    BY <2>8
  <2> QED
    BY <2>0, <2>3, <2>6, <2>7, <2>8, <2>9, <2>13, <2>14 DEF Same
<1> QED
  BY <1>1, <1>2

(* Extending the heap keeps the list in shape and adds one free segment at   *)
(* the old end.                                                              *)
LEMMA AppendSegmentShape ==
  ASSUME NEW l, NEW end, Shape(l, end), NEW length \in Nat, length >= HDR + GRAIN
  PROVE  LET m == AppendSegment(l, end, length)
         IN  /\ Shape(m, end + length)
             /\ end \notin DOMAIN l.hdr
             /\ DOMAIN m.hdr = DOMAIN l.hdr \cup {end}
             /\ m.hdr[end].free /\ m.hdr[end].length = length - HDR
             /\ m.hdr[end].next = NULL
             /\ m.hdr[l.last].next = end
             /\ \A a \in DOMAIN l.hdr \ {l.last} : m.hdr[a].next = l.hdr[a].next
             /\ Same(l, m, DOMAIN l.hdr)
<1> DEFINE m == AppendSegment(l, end, length)
           seg == l.last
           new == [length |-> length - HDR, prev |-> seg, next |-> NULL, free |-> TRUE]
           linked == [l.hdr[seg] EXCEPT !.next = end]
           headers == [a \in DOMAIN l.hdr \cup {end} |->
                         CASE a = end -> new
                           [] a = seg -> linked
                           [] OTHER   -> l.hdr[a]]
<1>1. /\ seg \in DOMAIN l.hdr /\ seg \in Nat /\ l.hdr[seg] \in Header
      /\ end \in Nat /\ EndOf(l.hdr, seg) = end /\ seg < end /\ end # NULL /\ seg # NULL
      /\ HDR \in Nat /\ HDR > 0 /\ GRAIN \in Nat /\ GRAIN > 0
      /\ HEAP_BASE \in Nat /\ HEAP_BASE <= end /\ HEAP_BASE \in DOMAIN l.hdr
  BY SizesAssumption DEF Shape, Tiles, EndOf, Header, NULL
<1>2. \A a \in DOMAIN l.hdr : a \in Nat /\ EndOf(l.hdr, a) \in Nat /\ a < EndOf(l.hdr, a)
  BY <1>1 DEF Shape, EndOf, Header
<1>3. \A a \in DOMAIN l.hdr : a <= seg
  <2>1. \A a \in DOMAIN l.hdr : EndOf(l.hdr, a) <= end /\ (seg < a => end <= a)
    BY <1>1 DEF Shape, Tiles
  <2> QED
    BY <2>1, <1>1, <1>2
<1>4. end \notin DOMAIN l.hdr
  BY <1>1, <1>3
<1>5. m.hdr = headers /\ m.last = end
  <2>1. headers[end] = new
    BY <1>1
  <2>2. m = CombineWithNext(List(headers, end), end)
    BY DEF AppendSegment
  <2>3. List(headers, end).hdr[end].next = NULL
    BY <2>1 DEF List
  <2> QED
    BY <2>2, <2>3 DEF CombineWithNext, List
<1> HIDE DEF m, new, linked
<1>6. DOMAIN m.hdr = DOMAIN l.hdr \cup {end}
  BY <1>5
<1>7. /\ m.hdr[end] \in Header
      /\ m.hdr[end].length = length - HDR
      /\ m.hdr[end].prev = seg
      /\ m.hdr[end].next = NULL
      /\ m.hdr[end].free
  <2>1. m.hdr[end] = new
    BY <1>1, <1>5
  <2> QED
    BY <1>1, <2>1 DEF new, Header, NULL
<1>8. /\ m.hdr[seg] \in Header
      /\ m.hdr[seg].length = l.hdr[seg].length
      /\ m.hdr[seg].prev = l.hdr[seg].prev
      /\ m.hdr[seg].next = end
      /\ m.hdr[seg].free = l.hdr[seg].free
  <2>1. m.hdr[seg] = linked
    BY <1>1, <1>5
  <2> QED
    BY <1>1, <2>1 DEF linked, Header
<1>9. \A a \in DOMAIN l.hdr \ {seg} : m.hdr[a] = l.hdr[a] /\ m.hdr[a] \in Header /\ a # end
  BY <1>1, <1>4, <1>5 DEF Shape
<1>10. m.hdr \in [DOMAIN m.hdr -> Header]
  <2>1. \A a \in DOMAIN m.hdr : m.hdr[a] \in Header
    BY <1>6, <1>7, <1>8, <1>9
  <2>2. m.hdr = [a \in DOMAIN m.hdr |-> m.hdr[a]]
    BY <1>5, <1>6
  <2> QED
    BY <2>1, <2>2
<1>11. \A a \in DOMAIN m.hdr : a \in Nat /\ HEAP_BASE <= a /\ m.hdr[a].length >= GRAIN
  BY <1>1, <1>6, <1>7, <1>8, <1>9 DEF Shape
<1>12. Tiles(m, end + length)
  <2>1. EndOf(m.hdr, end) = end + length
    BY <1>1, <1>7 DEF EndOf
  <2>2. \A a \in DOMAIN l.hdr : EndOf(m.hdr, a) = EndOf(l.hdr, a)
    BY <1>8, <1>9 DEF EndOf
  <2>3. ASSUME NEW a \in DOMAIN m.hdr
        PROVE  Linked(m, a)
    <3>1. CASE a = end
      <4>1. end # HEAP_BASE /\ seg # NULL
        BY <1>1, <1>4, SizesAssumption DEF Shape, NULL
      <4> QED
        BY <3>1, <4>1, <1>1, <1>5, <1>6, <1>7, <1>8 DEF Linked
    <3>2. CASE a = seg
      <4>1. Linked(l, seg)
        BY <1>1 DEF Shape, Tiles
      <4>2. l.hdr[seg].prev # seg /\ l.hdr[seg].prev # NULL => m.hdr[l.hdr[seg].prev].next = seg
        BY <4>1, <1>9 DEF Linked
      <4>3. l.hdr[seg].next = NULL
        BY <4>1 DEF Linked
      <4>4. l.hdr[seg].prev # seg
        BY <4>1, <4>3, <1>1 DEF Linked
      <4>5. /\ m.hdr[seg].next = EndOf(m.hdr, seg) /\ m.hdr[end].prev = seg
            /\ end \in DOMAIN m.hdr /\ seg # m.last /\ end # NULL
        BY <1>1, <1>5, <1>6, <1>7, <1>8, <2>2
      <4>6. l.hdr[seg].prev # NULL => l.hdr[seg].prev \in DOMAIN m.hdr
        BY <4>1, <1>6 DEF Linked
      <4>7. seg = HEAP_BASE <=> m.hdr[seg].prev = NULL
        BY <4>1, <1>8 DEF Linked
      <4> QED
        BY <3>2, <4>2, <4>4, <4>5, <4>6, <4>7, <1>8 DEF Linked
    <3>3. CASE a \in DOMAIN l.hdr \ {seg}
      <4>1. Linked(l, a) /\ a # end /\ m.hdr[a] = l.hdr[a]
        BY <3>3, <1>9 DEF Shape, Tiles
      <4>2. a # m.last /\ l.hdr[a].next # NULL /\ a # l.last
        BY <4>1, <3>3, <1>5 DEF Linked
      <4>3. l.hdr[a].next # NULL => /\ l.hdr[a].next \in DOMAIN m.hdr
                                    /\ m.hdr[l.hdr[a].next].prev = a
                                    /\ l.hdr[a].next = EndOf(m.hdr, a)
        BY <4>1, <3>3, <1>6, <1>8, <1>9, <2>2 DEF Linked
      <4>4. l.hdr[a].prev # NULL => /\ l.hdr[a].prev \in DOMAIN m.hdr
                                    /\ m.hdr[l.hdr[a].prev].next = a
        <5>1. l.hdr[a].prev # seg
          <6>1. l.hdr[seg].next = NULL
            BY <1>1 DEF Shape, Tiles, Linked
          <6>2. a # NULL
            BY <3>3, SizesAssumption DEF Shape, NULL
          <6> QED
            BY <6>1, <6>2, <4>1, <3>3, <1>1 DEF Linked
        <5> QED
          BY <5>1, <4>1, <1>6, <1>9 DEF Linked
      <4>5. a = HEAP_BASE <=> l.hdr[a].prev = NULL
        BY <4>1 DEF Linked
      <4> QED
        BY <4>1, <4>2, <4>3, <4>4, <4>5 DEF Linked
    <3> QED
      BY <3>1, <3>2, <3>3, <1>6
  <2>4. ASSUME NEW a \in DOMAIN m.hdr, NEW b \in DOMAIN m.hdr, a < b
        PROVE  EndOf(m.hdr, a) <= b
    <3>1. a \in DOMAIN l.hdr
      <4>1. a # end
        BY <2>4, <1>1, <1>2, <1>3, <1>6
      <4> QED
        BY <4>1, <1>6
    <3>2. CASE b \in DOMAIN l.hdr
      BY <3>1, <3>2, <2>2, <2>4 DEF Shape, Tiles
    <3>3. CASE b = end
      <4>1. CASE a = seg
        BY <4>1, <3>3, <2>2, <1>1
      <4>2. CASE a < seg
        <5>1. EndOf(l.hdr, a) <= seg
          BY <3>1, <4>2, <1>1 DEF Shape, Tiles
        <5> QED
          BY <5>1, <3>1, <3>3, <2>2, <1>1, <1>2
      <4> QED
        BY <4>1, <4>2, <3>1, <1>1, <1>2, <1>3
    <3> QED
      BY <3>2, <3>3, <1>6
  <2>5. HEAP_BASE \in DOMAIN m.hdr /\ m.last \in DOMAIN m.hdr
    BY <1>1, <1>5, <1>6
  <2>6. \A a \in DOMAIN m.hdr : EndOf(m.hdr, a) <= end + length
    <3>1. \A a \in DOMAIN l.hdr : EndOf(l.hdr, a) <= end
      BY DEF Shape, Tiles
    <3> QED
      BY <3>1, <2>1, <2>2, <1>1, <1>2, <1>6
  <2> QED
    BY <2>1, <2>3, <2>4, <2>5, <2>6, <1>5 DEF Tiles
<1>13. Shape(m, end + length)
  BY <1>1, <1>10, <1>11, <1>12 DEF Shape
<1>14. Same(l, m, DOMAIN l.hdr)
  BY <1>8, <1>9 DEF Same
<1> QED
  BY <1>4, <1>6, <1>7, <1>8, <1>9, <1>13, <1>14 DEF m

-----------------------------------------------------------------------------
(* In a well-shaped list links stay inside the list and point upwards.       *)
LEMMA NeighboursOf ==
  ASSUME NEW l, NEW end, Shape(l, end), NEW seg \in DOMAIN l.hdr
  PROVE  LET next == l.hdr[seg].next
             prev == l.hdr[seg].prev
         IN  /\ seg # NULL
             /\ next # NULL => next \in DOMAIN l.hdr /\ next > seg /\ l.hdr[next].prev = seg
             /\ prev # NULL => prev \in DOMAIN l.hdr /\ prev < seg /\ l.hdr[prev].next = seg
<1>1. /\ seg # NULL /\ Linked(l, seg)
      /\ \A a \in DOMAIN l.hdr : a \in Nat /\ EndOf(l.hdr, a) > a
  BY SizesAssumption DEF Shape, Tiles, NULL, EndOf, Header
<1>2. ASSUME l.hdr[seg].prev # NULL
      PROVE  l.hdr[seg].prev < seg
  <2> DEFINE p == l.hdr[seg].prev
  <2>1. p \in DOMAIN l.hdr /\ l.hdr[p].next = seg
    BY <1>1, <1>2 DEF Linked
  <2>2. Linked(l, p)
    BY <2>1 DEF Shape, Tiles
  <2>3. seg = EndOf(l.hdr, p)
    BY <1>1, <2>1, <2>2 DEF Linked
  <2> QED
    BY <1>1, <2>1, <2>3
<1> QED
  BY <1>1, <1>2 DEF Linked

(* Merging seg with its next segment cures a pair of adjacent free segments  *)
(* at seg and makes no new one.                                              *)
LEMMA CombineWithNextApart ==
  ASSUME NEW l, NEW end, Shape(l, end), NEW seg \in DOMAIN l.hdr, NEW S, NEW E,
         l.hdr[seg].next # NULL => l.hdr[seg].next \notin E,
         \A a \in DOMAIN l.hdr \ E : ApartAt(l, S, a)
  PROVE  LET m == CombineWithNext(l, seg)
         IN  \A a \in DOMAIN m.hdr \ (E \ {seg}) : ApartAt(m, S, a)
<1> DEFINE m == CombineWithNext(l, seg)
           next == l.hdr[seg].next
<1>1. /\ Shape(m, end)
      /\ \/ m = l /\ (next # NULL => ~l.hdr[next].free)
         \/ /\ next \in DOMAIN l.hdr /\ l.hdr[next].free
            /\ DOMAIN m.hdr = DOMAIN l.hdr \ {next}
            /\ m.hdr[seg].next = l.hdr[next].next
            /\ \A a \in DOMAIN m.hdr \ {seg} : m.hdr[a].next = l.hdr[a].next
      /\ seg \in DOMAIN m.hdr
      /\ \A a \in DOMAIN m.hdr : m.hdr[a].free = l.hdr[a].free
  BY CombineWithNextShape DEF Same
<1> HIDE DEF m
<1>2. CASE m = l /\ (next # NULL => ~l.hdr[next].free)
  <2>1. ApartAt(l, S, seg)
    BY <1>2 DEF ApartAt
  <2> QED
    BY <1>2, <2>1 DEF m
<1>3. CASE /\ next \in DOMAIN l.hdr /\ l.hdr[next].free
           /\ DOMAIN m.hdr = DOMAIN l.hdr \ {next}
           /\ m.hdr[seg].next = l.hdr[next].next
           /\ \A a \in DOMAIN m.hdr \ {seg} : m.hdr[a].next = l.hdr[a].next
  <2> SUFFICES ASSUME NEW a \in DOMAIN m.hdr \ (E \ {seg}),
                      m.hdr[a].free, m.hdr[a].next # NULL, m.hdr[m.hdr[a].next].free
               PROVE  m.hdr[a].next \in S
    BY DEF ApartAt, m
  <2>1. m.hdr[a].next \in DOMAIN m.hdr
    BY <1>1 DEF Shape, Tiles, Linked
  <2>2. CASE a = seg
    <3>1. ApartAt(l, S, next)
      BY <1>3, NeighboursOf
    <3> QED
      BY <1>1, <1>3, <2>1, <2>2, <3>1 DEF ApartAt
  <2>3. CASE a # seg
    <3>1. ApartAt(l, S, a)
      BY <1>3, <2>3
    <3> QED
      BY <1>1, <1>3, <2>1, <2>3, <3>1 DEF ApartAt
  <2> QED
    BY <2>2, <2>3
<1> QED
  BY <1>1, <1>2, <1>3

(* free gives back one segment and touches no other in use; it keeps the     *)
(* list in shape and leaves no new pair of adjacent free segments.           *)
LEMMA FreeSegmentShape ==
  ASSUME NEW l, NEW end, Shape(l, end), NEW seg \in DOMAIN l.hdr, NEW S
  PROVE  LET m == FreeSegment(l, seg)
         IN  /\ Shape(m, end)
             /\ Used(m) = Used(l) \ {seg}
             /\ \A a \in Used(m) : a \in DOMAIN m.hdr /\ m.hdr[a].length = l.hdr[a].length
             /\ (\A a \in DOMAIN l.hdr : ApartAt(l, S, a))
                   => \A a \in DOMAIN m.hdr : ApartAt(m, S, a)
<1> DEFINE mark == TRUE
           k == SetFree(l, seg, mark)
           n == CombineWithNext(k, seg)
           m == FreeSegment(l, seg)
           prev == k.hdr[seg].prev
<1>1. /\ Shape(k, end) /\ DOMAIN k.hdr = DOMAIN l.hdr
      /\ k.hdr[seg].free
      /\ \A a \in DOMAIN l.hdr \ {seg} : k.hdr[a].free = l.hdr[a].free /\ k.hdr[a].length = l.hdr[a].length
      /\ \A a \in DOMAIN l.hdr : k.hdr[a].next = l.hdr[a].next /\ k.hdr[a].prev = l.hdr[a].prev
  <2>0. mark \in BOOLEAN
    OBVIOUS
  <2> HIDE DEF mark
  <2>1. /\ Shape(k, end) /\ DOMAIN k.hdr = DOMAIN l.hdr
        /\ k.hdr[seg].free = mark
        /\ Same(l, k, DOMAIN l.hdr \ {seg})
        /\ \A a \in DOMAIN l.hdr : k.hdr[a].next = l.hdr[a].next /\ k.hdr[a].prev = l.hdr[a].prev
    BY <2>0, SetFreeShape
  <2> QED
    BY <2>1 DEF Same, mark
<1> HIDE DEF k
<1>2. /\ Shape(n, end) /\ seg \in DOMAIN n.hdr /\ n.hdr[seg].free /\ n.hdr[seg].prev = prev
      /\ DOMAIN n.hdr \subseteq DOMAIN k.hdr
      /\ \A a \in DOMAIN k.hdr \ DOMAIN n.hdr : k.hdr[a].free
      /\ \A a \in DOMAIN n.hdr \ {seg} : n.hdr[a].free = k.hdr[a].free /\ n.hdr[a].length = k.hdr[a].length
  BY <1>1, CombineWithNextShape DEF Same
<1>3. m = CombineWithPrev(n, seg)
  BY DEF FreeSegment, k
<1>4. Used(n) = Used(l) \ {seg} /\ \A a \in Used(n) : n.hdr[a].length = l.hdr[a].length
  BY <1>1, <1>2 DEF Used
<1>5. ASSUME \A a \in DOMAIN l.hdr : ApartAt(l, S, a)
      PROVE  \A a \in DOMAIN n.hdr \ ({seg, prev} \ {seg}) : ApartAt(n, S, a)
  <2>1. k.hdr[seg].next # NULL => k.hdr[seg].next \notin {seg, prev}
    <3>1. \A a \in DOMAIN k.hdr : a \in Nat /\ a # NULL
      BY <1>1, SizesAssumption DEF Shape, NULL
    <3>2. /\ k.hdr[seg].next # NULL => k.hdr[seg].next \in Nat /\ k.hdr[seg].next > seg
          /\ prev # NULL => prev \in Nat /\ prev < seg
      BY <1>1, <3>1, NeighboursOf
    <3> QED
      BY <1>1, <3>1, <3>2 DEF NULL
  <2>2. \A a \in DOMAIN k.hdr \ {seg, prev} : ApartAt(k, S, a)
    <3> SUFFICES ASSUME NEW a \in DOMAIN k.hdr \ {seg, prev},
                        k.hdr[a].free, k.hdr[a].next # NULL, k.hdr[k.hdr[a].next].free
                 PROVE  k.hdr[a].next \in S
      BY DEF ApartAt
    <3>1. k.hdr[a].next \in DOMAIN k.hdr /\ k.hdr[k.hdr[a].next].prev = a
      BY <1>1, NeighboursOf
    <3>2. k.hdr[a].next # seg
      BY <3>1
    <3> QED
      BY <1>1, <1>5, <3>1, <3>2 DEF ApartAt
  <2> QED
    BY <1>1, <2>1, <2>2, CombineWithNextApart
<1> HIDE DEF n
<1>6. CASE prev # NULL /\ n.hdr[prev].free
  <2>1. m = CombineWithNext(n, prev)
    BY <1>2, <1>3, <1>6 DEF CombineWithPrev
  <2>2. prev \in DOMAIN n.hdr /\ n.hdr[prev].next = seg /\ prev # seg
    <3>1. prev \in DOMAIN n.hdr /\ n.hdr[prev].next = seg /\ prev < seg
      BY <1>2, <1>6, NeighboursOf
    <3>2. prev \in Nat /\ seg \in Nat
      BY <1>2, <3>1 DEF Shape
    <3> QED
      BY <3>1, <3>2
  <2>3. /\ Shape(m, end) /\ prev \in DOMAIN m.hdr
        /\ m.hdr[prev].free
        /\ DOMAIN m.hdr \subseteq DOMAIN n.hdr
        /\ \A a \in DOMAIN n.hdr \ DOMAIN m.hdr : n.hdr[a].free
        /\ \A a \in DOMAIN m.hdr \ {prev} : m.hdr[a].free = n.hdr[a].free /\ m.hdr[a].length = n.hdr[a].length
    BY <1>2, <1>6, <2>1, <2>2, CombineWithNextShape DEF Same
  <2>4. Used(m) = Used(n) /\ \A a \in Used(m) : a \in DOMAIN m.hdr /\ m.hdr[a].length = n.hdr[a].length
    BY <1>6, <2>2, <2>3 DEF Used
  <2>5. ASSUME \A a \in DOMAIN l.hdr : ApartAt(l, S, a)
        PROVE  \A a \in DOMAIN m.hdr : ApartAt(m, S, a)
    <3>1. \A a \in DOMAIN n.hdr \ {prev} : ApartAt(n, S, a)
      BY <1>5, <2>5
    <3> DEFINE E == {prev}
    <3>2. n.hdr[prev].next \notin E
      BY <2>2
    <3>3. \A a \in DOMAIN CombineWithNext(n, prev).hdr \ (E \ {prev}) :
            ApartAt(CombineWithNext(n, prev), S, a)
      <4> HIDE DEF E, m
      <4>1. \A a \in DOMAIN n.hdr \ E : ApartAt(n, S, a)
        BY <3>1 DEF E
      <4> QED
        BY <1>2, <2>2, <3>2, <4>1, CombineWithNextApart
    <3> QED
      BY <3>3, <2>1
  <2> QED
    BY <1>4, <2>3, <2>4, <2>5
<1>7. CASE ~(prev # NULL /\ n.hdr[prev].free)
  <2>1. m = n
    BY <1>2, <1>3, <1>7 DEF CombineWithPrev
  <2>2. ASSUME \A a \in DOMAIN l.hdr : ApartAt(l, S, a)
        PROVE  \A a \in DOMAIN n.hdr : ApartAt(n, S, a)
    <3>1. \A a \in DOMAIN n.hdr \ {prev} : ApartAt(n, S, a)
      BY <1>5, <2>2
    <3>2. prev \in DOMAIN n.hdr => ApartAt(n, S, prev)
      <4>1. prev \in DOMAIN n.hdr => prev # NULL
        BY <1>2, SizesAssumption DEF Shape, NULL
      <4> QED
        BY <1>7, <4>1 DEF ApartAt
    <3> QED
      BY <3>1, <3>2
  <2> QED
    BY <1>2, <1>4, <2>1, <2>2 DEF Used
<1> QED
  BY <1>6, <1>7

(* malloc's last steps take one free segment that is long enough and touch   *)
(* no other in use.                                                          *)
LEMMA TakeSegmentShape ==
  ASSUME NEW l, NEW end, Shape(l, end), NEW seg \in DOMAIN l.hdr, NEW S,
         l.hdr[seg].free, NEW length \in Nat, l.hdr[seg].length >= length
  PROVE  LET m == TakeSegment(l, seg, length)
         IN  /\ Shape(m, end)
             /\ seg \in DOMAIN m.hdr /\ m.hdr[seg].length >= length
             /\ DOMAIN l.hdr \subseteq DOMAIN m.hdr
             /\ Used(m) = Used(l) \cup {seg}
             /\ \A a \in Used(l) : m.hdr[a].length = l.hdr[a].length
             /\ (\A a \in DOMAIN l.hdr : ApartAt(l, S, a))
                   => \A a \in DOMAIN m.hdr : ApartAt(m, S, a)
<1> DEFINE mark == FALSE
           k == IF l.hdr[seg].length > length THEN SplitHeader(l, seg, length) ELSE l
           m == TakeSegment(l, seg, length)
           new == seg + length + HDR
<1>1. m = SetFree(k, seg, mark)
  BY DEF TakeSegment
<1>2. /\ Shape(k, end)
      /\ \/ k = l
         \/ /\ new \notin DOMAIN l.hdr
            /\ DOMAIN k.hdr = DOMAIN l.hdr \cup {new}
            /\ k.hdr[seg].next = new
            /\ k.hdr[new].free
            /\ k.hdr[new].next = l.hdr[seg].next
            /\ \A a \in DOMAIN l.hdr \ {seg} : k.hdr[a].next = l.hdr[a].next
      /\ seg \in DOMAIN k.hdr /\ k.hdr[seg].length >= length
      /\ \A a \in DOMAIN l.hdr \ {seg} : k.hdr[a].free = l.hdr[a].free /\ k.hdr[a].length = l.hdr[a].length
  BY SplitHeaderShape DEF Same
<1> HIDE DEF k, m, new
<1>3. /\ Shape(m, end) /\ DOMAIN m.hdr = DOMAIN k.hdr
      /\ m.hdr[seg].free = FALSE
      /\ m.hdr[seg].length = k.hdr[seg].length
      /\ \A a \in DOMAIN k.hdr \ {seg} : m.hdr[a].free = k.hdr[a].free /\ m.hdr[a].length = k.hdr[a].length
      /\ \A a \in DOMAIN k.hdr : m.hdr[a].next = k.hdr[a].next
  <2> DEFINE j == SetFree(k, seg, mark)
  <2>0. mark \in BOOLEAN /\ Shape(k, end) /\ seg \in DOMAIN k.hdr
    BY <1>2
  <2> HIDE DEF mark
  <2>1. Shape(j, end)
    <3>1. \A q, a : Shape(q, end) /\ a \in DOMAIN q.hdr => Shape(SetFree(q, a, mark), end)
      BY <2>0, SetFreeShape
    <3> QED
      BY <2>0, <3>1
  <2>2. /\ j.hdr = [a \in DOMAIN k.hdr |->
                     IF a = seg THEN [k.hdr[a] EXCEPT !.free = mark] ELSE k.hdr[a]]
        /\ \A a \in DOMAIN k.hdr : k.hdr[a] \in Header
    BY <2>0 DEF SetFree, List, Shape
  <2> HIDE DEF j
  <2>3. \A a \in DOMAIN k.hdr :
          /\ j.hdr[a].next = k.hdr[a].next
          /\ j.hdr[a].length = k.hdr[a].length
          /\ j.hdr[a].free = IF a = seg THEN mark ELSE k.hdr[a].free
    BY <2>0, <2>2 DEF Header
  <2>4. DOMAIN j.hdr = DOMAIN k.hdr /\ m = j
    BY <1>1, <2>2 DEF j
  <2>5. m.hdr[seg].free = mark
    BY <2>0, <2>3, <2>4
  <2> QED
    BY <2>0, <2>1, <2>3, <2>4, <2>5 DEF mark
<1>4. Used(m) = Used(l) \cup {seg} /\ DOMAIN l.hdr \subseteq DOMAIN m.hdr
  BY <1>2, <1>3 DEF Used
<1>5. \A a \in Used(l) : m.hdr[a].length = l.hdr[a].length
  BY <1>2, <1>3 DEF Used
<1>6. ASSUME \A a \in DOMAIN l.hdr : ApartAt(l, S, a)
      PROVE  \A a \in DOMAIN m.hdr : ApartAt(m, S, a)
  <2> SUFFICES ASSUME NEW a \in DOMAIN m.hdr,
                      m.hdr[a].free, m.hdr[a].next # NULL, m.hdr[m.hdr[a].next].free
               PROVE  m.hdr[a].next \in S
    BY DEF ApartAt
  <2>1. a # seg /\ m.hdr[a].next \in DOMAIN m.hdr /\ m.hdr[a].next # seg
    BY <1>3, NeighboursOf
  <2>2. CASE k = l
    BY <1>3, <1>6, <2>1, <2>2 DEF ApartAt
  <2>3. CASE k # l
    <3>1. CASE a = new
      <4>1. ApartAt(l, S, seg) /\ l.hdr[seg].next # NULL /\ l.hdr[seg].next \in DOMAIN l.hdr
        BY <1>2, <1>3, <1>6, <2>3, <3>1, NeighboursOf
      <4> QED
        BY <1>2, <1>3, <2>1, <2>3, <3>1, <4>1 DEF ApartAt
    <3>2. CASE a # new
      <4>1. a \in DOMAIN l.hdr \ {seg} /\ ApartAt(l, S, a)
        BY <1>2, <1>3, <1>6, <2>1, <2>3, <3>2
      <4>2. m.hdr[a].next = l.hdr[a].next /\ l.hdr[a].next \in DOMAIN l.hdr
        BY <1>2, <1>3, <2>3, <4>1, NeighboursOf
      <4> QED
        BY <1>2, <1>3, <2>1, <2>3, <4>1, <4>2 DEF ApartAt
    <3> QED
      BY <3>1, <3>2
  <2> QED
    BY <2>2, <2>3
<1> QED
  BY <1>2, <1>3, <1>4, <1>5, <1>6 DEF m

-----------------------------------------------------------------------------
(* The inductive invariant.  Its parts speak of the list of headers, of who  *)
(* owns the used segments, and of the call in progress.                      *)
L == List(hdr, last)

TypesInv ==
  /\ heap_initialized \in BOOLEAN
  /\ pc \in {"idle", "scan", "copy"}
  /\ want \in Nat /\ asked \in Nat /\ grows \in 0 .. 2
  /\ held \in [DOMAIN held -> Nat]
  /\ seams \subseteq Nat

ListInv ==
  IF heap_initialized
  THEN /\ Shape(L, heap_end)
       /\ \A a \in DOMAIN hdr : ApartAt(L, seams, a)
  ELSE /\ hdr = [a \in {} |-> InitialHeader] /\ last = NULL /\ heap_end = NULL
       /\ pc = "idle" /\ DOMAIN held = {} /\ lost = {}

OwnersInv ==
  /\ Used(L) = DOMAIN held \cup lost \cup (IF pc = "copy" THEN {selected} ELSE {})
  /\ DOMAIN held \cap lost = {}
  /\ \A a \in DOMAIN held : held[a] > 0 /\ hdr[a].length >= held[a]

(* A segment that the loop of malloc would take. *)
Takes(a) == hdr[a].free /\ hdr[a].length >= want

CallInv ==
  /\ pc = "idle" => selected = NULL /\ old = NULL
  /\ pc # "idle" => /\ heap_initialized /\ selected \in DOMAIN hdr
                    /\ asked > 0 /\ want >= asked
                    /\ old \in DOMAIN held \cup {NULL}
                    /\ old # NULL => hdr[old].length <= asked
  /\ pc = "scan" => \A a \in DOMAIN hdr : a < selected => ~Takes(a)
  /\ pc = "copy" => /\ old \in DOMAIN held
                    /\ selected \notin DOMAIN held \cup lost
                    /\ hdr[selected].length >= want

(* After an extension, either the last segment fits and will be taken, or    *)
(* no segment fits.                                                          *)
GrowthInv ==
  pc = "scan" /\ grows > 0 =>
    IF Serviceable(want) THEN grows = 1 /\ Takes(last)
                         ELSE \A a \in DOMAIN hdr : ~Takes(a)

HeapInv == TypesInv /\ ListInv /\ OwnersInv /\ CallInv /\ GrowthInv

-----------------------------------------------------------------------------
(* The list that init_heap builds has one free segment and is in shape.      *)
LEMMA InitialShape ==
  ASSUME NEW h, h = [a \in {HEAP_BASE} |-> InitialHeader]
  PROVE  /\ Shape(List(h, HEAP_BASE), HEAP_BASE + INIT_PAGES * PAGE_SIZE)
         /\ Used(List(h, HEAP_BASE)) = {}
         /\ \A S : \A a \in DOMAIN h : ApartAt(List(h, HEAP_BASE), S, a)
<1>1. /\ INIT_PAGES * PAGE_SIZE \in Nat
      /\ INIT_PAGES * PAGE_SIZE >= PAGE_SIZE
  <2>1. INIT_PAGES \in Nat /\ INIT_PAGES >= 1 /\ PAGE_SIZE \in Nat
    BY SizesAssumption
  <2> QED
    BY <2>1
<1> DEFINE size == INIT_PAGES * PAGE_SIZE
           l == List(h, HEAP_BASE)
<1>2. InitialHeader = [length |-> size - HDR, prev |-> NULL, next |-> NULL, free |-> TRUE]
  BY DEF InitialHeader
<1> HIDE DEF size
<1>3. size \in Nat /\ size >= HDR + GRAIN /\ HDR \in Nat /\ GRAIN \in Nat /\ HEAP_BASE \in Nat
  BY <1>1, SizesAssumption DEF size
<1>4. /\ DOMAIN l.hdr = {HEAP_BASE} /\ l.last = HEAP_BASE
      /\ l.hdr[HEAP_BASE] \in Header
      /\ l.hdr[HEAP_BASE].length = size - HDR
      /\ l.hdr[HEAP_BASE].next = NULL /\ l.hdr[HEAP_BASE].prev = NULL
      /\ l.hdr[HEAP_BASE].free
      /\ l.hdr \in [DOMAIN l.hdr -> Header]
  BY <1>2, <1>3 DEF List, Header, NULL
<1>5. Tiles(l, HEAP_BASE + size)
  BY <1>3, <1>4 DEF Tiles, Linked, EndOf
<1> HIDE DEF l
<1>6. Shape(l, HEAP_BASE + size)
  BY <1>3, <1>4, <1>5 DEF Shape
<1>7. Used(l) = {} /\ \A S : \A a \in DOMAIN l.hdr : ApartAt(l, S, a)
  BY <1>4 DEF Used, ApartAt
<1> QED
  BY <1>6, <1>7 DEF l, size, List

(* No heap, no call and no block satisfies the invariant. *)
LEMMA InitInv == Init => HeapInv
<1> SUFFICES ASSUME Init PROVE HeapInv
  OBVIOUS
<1> USE DEF Init
<1>1. TypesInv
  <2>1. held \in [DOMAIN held -> Nat] /\ seams \subseteq Nat
    OBVIOUS
  <2>2. heap_initialized \in BOOLEAN
    OBVIOUS
  <2>3. pc \in {"idle", "scan", "copy"} /\ want \in Nat /\ asked \in Nat /\ grows \in 0 .. 2
    OBVIOUS
  <2> QED
    BY <2>1, <2>2, <2>3 DEF TypesInv
<1>2. ListInv
  BY DEF ListInv
<1>3. OwnersInv
  BY DEF OwnersInv, Used, L, List
<1>4. CallInv /\ GrowthInv
  BY DEF CallInv, GrowthInv
<1> QED
  BY <1>1, <1>2, <1>3, <1>4 DEF HeapInv

(* What the invariant says of the list once there is a heap. *)
LEMMA ListFacts ==
  ASSUME HeapInv, heap_initialized
  PROVE  /\ Shape(L, heap_end) /\ L.hdr = hdr /\ L.last = last
         /\ \A a \in DOMAIN hdr : /\ ApartAt(L, seams, a)
                                  /\ a \in Nat /\ a # NULL /\ hdr[a] \in Header
         /\ HEAP_BASE \in DOMAIN hdr /\ \A a \in DOMAIN hdr : HEAP_BASE <= a
         /\ DOMAIN held \subseteq DOMAIN hdr
         /\ \A a \in DOMAIN held : ~hdr[a].free
<1>1. L.hdr = hdr /\ L.last = last
  BY DEF L, List
<1>2. Shape(L, heap_end) /\ \A a \in DOMAIN hdr : ApartAt(L, seams, a)
  BY DEF HeapInv, ListInv
<1>3. \A a \in DOMAIN hdr : a \in Nat /\ HEAP_BASE <= a /\ a # NULL /\ hdr[a] \in Header
  BY <1>1, <1>2, SizesAssumption DEF Shape, NULL
<1>4. HEAP_BASE \in DOMAIN hdr
  BY <1>1, <1>2 DEF Shape, Tiles
<1>5. \A a \in DOMAIN held : a \in DOMAIN hdr /\ ~hdr[a].free
  BY <1>1 DEF HeapInv, OwnersInv, Used
<1> QED
  BY <1>1, <1>2, <1>3, <1>4, <1>5

(* The start of a call keeps the invariant. *)
LEMMA BeginMallocInv ==
  ASSUME HeapInv, NEW n \in Nat, NEW o,
         o = NULL \/ (o \in DOMAIN held /\ hdr[o].length <= n),
         BeginMalloc(n, o)
  PROVE  HeapInv'
<1>1. CASE heap_initialized
  <2>1. hdr' = hdr /\ last' = last /\ heap_end' = heap_end /\ heap_initialized' = heap_initialized
    BY <1>1 DEF BeginMalloc, InitHeap, listVars
  <2>2. L' = L
    BY <2>1 DEF L, List
  <2>3. CASE n = 0
    <3>1. UNCHANGED callVars /\ UNCHANGED <<held, lost, seams>> /\ pc = "idle"
      BY <2>3 DEF BeginMalloc
    <3> QED
      BY <2>1, <2>2, <3>1 DEF HeapInv, TypesInv, ListInv, OwnersInv, CallInv, GrowthInv, Takes, callVars
  <2>4. CASE n # 0
    <3>1. /\ pc = "idle" /\ pc' = "scan" /\ selected' = HEAP_BASE
          /\ want' = RoundUp(n, GRAIN) /\ old' = o /\ asked' = n /\ grows' = 0
          /\ UNCHANGED <<held, lost, seams>>
      BY <2>4 DEF BeginMalloc
    <3>2. RoundUp(n, GRAIN) \in Nat /\ RoundUp(n, GRAIN) >= n
      BY RoundUpBounds, SizesAssumption
    <3>3. TypesInv'
      BY <2>1, <3>1, <3>2 DEF HeapInv, TypesInv
    <3>4. ListInv'
      BY <1>1, <2>1, <2>2, <3>1 DEF HeapInv, ListInv
    <3>5. OwnersInv'
      BY <2>1, <2>2, <3>1 DEF HeapInv, OwnersInv
    <3>6. CallInv'
      <4>1. /\ HEAP_BASE \in DOMAIN hdr /\ HEAP_BASE \in Nat
            /\ \A a \in DOMAIN hdr : a \in Nat /\ HEAP_BASE <= a
        BY <1>1, ListFacts
      <4> QED
        BY <1>1, <2>1, <2>4, <3>1, <3>2, <4>1 DEF CallInv
    <3>7. GrowthInv'
      BY <3>1 DEF GrowthInv
    <3> QED
      BY <3>3, <3>4, <3>5, <3>6, <3>7 DEF HeapInv
  <2> QED
    BY <2>3, <2>4
<1>2. CASE ~heap_initialized
  <2>1. /\ heap_initialized' = TRUE
        /\ hdr' = [a \in {HEAP_BASE} |-> InitialHeader]
        /\ last' = HEAP_BASE
        /\ heap_end' = HEAP_BASE + INIT_PAGES * PAGE_SIZE
        /\ UNCHANGED <<held, lost, seams>>
    BY <1>2 DEF BeginMalloc, InitHeap
  <2>2. pc = "idle" /\ DOMAIN held = {} /\ lost = {} /\ o = NULL
    BY <1>2 DEF HeapInv, ListInv
  <2>3. L' = List(hdr', HEAP_BASE)
    BY <2>1 DEF L
  <2>4. /\ Shape(L', heap_end') /\ Used(L') = {}
        /\ \A a \in DOMAIN hdr' : ApartAt(L', seams', a)
    BY <2>1, <2>3, InitialShape
  <2>5. CASE n = 0
    <3>1. UNCHANGED callVars
      BY <2>5 DEF BeginMalloc
    <3>2. TypesInv'
      BY <2>1, <3>1 DEF HeapInv, TypesInv, callVars
    <3>3. ListInv'
      BY <2>1, <2>4 DEF ListInv
    <3>4. OwnersInv'
      BY <2>1, <2>2, <2>4, <3>1 DEF OwnersInv, callVars
    <3>5. CallInv' /\ GrowthInv'
      BY <2>2, <3>1 DEF HeapInv, CallInv, GrowthInv, callVars
    <3> QED
      BY <3>2, <3>3, <3>4, <3>5 DEF HeapInv
  <2>6. CASE n # 0
    <3>1. /\ pc' = "scan" /\ selected' = HEAP_BASE
          /\ want' = RoundUp(n, GRAIN) /\ old' = o /\ asked' = n /\ grows' = 0
      BY <2>6 DEF BeginMalloc
    <3>2. RoundUp(n, GRAIN) \in Nat /\ RoundUp(n, GRAIN) >= n
      BY RoundUpBounds, SizesAssumption
    <3>3. TypesInv'
      BY <2>1, <3>1, <3>2 DEF HeapInv, TypesInv
    <3>4. ListInv'
      BY <2>1, <2>4 DEF ListInv
    <3>5. OwnersInv'
      BY <2>1, <2>2, <2>4, <3>1 DEF OwnersInv
    <3>6. CallInv'
      <4>1. HEAP_BASE \in Nat /\ DOMAIN hdr' = {HEAP_BASE}
        BY <2>1, SizesAssumption
      <4> QED
        BY <2>1, <2>2, <2>6, <3>1, <3>2, <4>1 DEF CallInv
    <3>7. GrowthInv'
      BY <3>1 DEF GrowthInv
    <3> QED
      BY <3>3, <3>4, <3>5, <3>6, <3>7 DEF HeapInv
  <2> QED
    BY <2>5, <2>6
<1> QED
  BY <1>1, <1>2

(* Taking a segment keeps the invariant: the segment goes to the caller, or  *)
(* to realloc, and was nobody's before.                                      *)
LEMMA ScanTakeInv == HeapInv /\ ScanTake => HeapInv'
<1> SUFFICES ASSUME HeapInv, ScanTake PROVE HeapInv'
  OBVIOUS
<1> DEFINE m == TakeSegment(L, selected, want)
<1>1. /\ pc = "scan" /\ heap_initialized /\ selected \in DOMAIN hdr
      /\ hdr[selected].free /\ hdr[selected].length >= want
      /\ want \in Nat /\ asked \in Nat /\ asked > 0 /\ want >= asked
      /\ hdr' = m.hdr /\ last' = m.last
      /\ UNCHANGED <<heap_end, heap_initialized, lost, seams>>
  BY DEF HeapInv, TypesInv, CallInv, ScanTake, Fits, SetList, L
<1>2. /\ Shape(L, heap_end) /\ L.hdr = hdr /\ selected \in DOMAIN L.hdr
      /\ \A a \in DOMAIN L.hdr : ApartAt(L, seams, a)
  BY <1>1, ListFacts
<1>3. /\ Shape(m, heap_end)
      /\ selected \in DOMAIN m.hdr /\ m.hdr[selected].length >= want
      /\ DOMAIN L.hdr \subseteq DOMAIN m.hdr
      /\ Used(m) = Used(L) \cup {selected}
      /\ \A a \in Used(L) : m.hdr[a].length = L.hdr[a].length
      /\ \A a \in DOMAIN m.hdr : ApartAt(m, seams, a)
  BY <1>1, <1>2, TakeSegmentShape
<1> HIDE DEF m
<1>4. Shape(L', heap_end') /\ Used(L') = Used(m) /\ \A a \in DOMAIN hdr' : ApartAt(L', seams', a)
  <2>1. L'.hdr = m.hdr /\ L'.last = m.last
    BY <1>1 DEF L, List
  <2> QED
    BY <1>1, <1>3, <2>1 DEF Shape, Used, ApartAt, Tiles, Linked, EndOf
<1>5. ListInv'
  BY <1>1, <1>4 DEF ListInv
<1>6. /\ Used(L) = DOMAIN held \cup lost
      /\ selected \notin Used(L)
      /\ DOMAIN held \cap lost = {}
      /\ \A a \in DOMAIN held : held[a] > 0 /\ hdr'[a].length >= held[a]
      /\ \A a \in DOMAIN held : hdr'[a].length = hdr[a].length
  BY <1>1, <1>2, <1>3 DEF HeapInv, OwnersInv, Used
<1>7. CASE old = NULL
  <2>1. /\ EndCall
        /\ held' = [a \in DOMAIN held \cup {selected} |-> IF a = selected THEN asked ELSE held[a]]
    BY <1>7 DEF ScanTake
  <2>2. TypesInv'
    <3>1. held' \in [DOMAIN held' -> Nat]
      BY <1>1, <2>1 DEF HeapInv, TypesInv
    <3> QED
      BY <1>1, <2>1, <3>1 DEF HeapInv, TypesInv, EndCall
  <2>3. OwnersInv'
    <3>1. Used(L') = DOMAIN held' \cup lost' \cup (IF pc' = "copy" THEN {selected'} ELSE {})
      BY <1>1, <1>3, <1>4, <1>6, <2>1 DEF EndCall
    <3>2. DOMAIN held' \cap lost' = {}
      BY <1>1, <1>6, <2>1
    <3>3. hdr'[selected].length >= asked
      <4>1. m.hdr[selected].length \in Nat
        BY <1>3 DEF Shape, Header
      <4> QED
        BY <1>1, <1>3, <4>1
    <3>4. \A a \in DOMAIN held' : held'[a] > 0 /\ hdr'[a].length >= held'[a]
      BY <1>1, <1>6, <2>1, <3>3
    <3> QED
      BY <3>1, <3>2, <3>4 DEF OwnersInv
  <2>4. CallInv' /\ GrowthInv'
    BY <2>1 DEF EndCall, CallInv, GrowthInv
  <2> QED
    BY <1>5, <2>2, <2>3, <2>4 DEF HeapInv
<1>8. CASE old # NULL
  <2>1. pc' = "copy" /\ UNCHANGED <<want, selected, old, asked, grows, held>>
    BY <1>8 DEF ScanTake
  <2>2. TypesInv'
    BY <1>1, <2>1 DEF HeapInv, TypesInv
  <2>3. OwnersInv'
    BY <1>1, <1>3, <1>4, <1>6, <2>1 DEF OwnersInv
  <2>4. CallInv'
    <3>1. old \in DOMAIN held /\ hdr[old].length <= asked
      BY <1>1, <1>8 DEF HeapInv, CallInv
    <3> QED
      BY <1>1, <1>3, <1>6, <2>1, <3>1 DEF CallInv
  <2>5. GrowthInv'
    BY <2>1 DEF GrowthInv
  <2> QED
    BY <1>5, <2>2, <2>3, <2>4, <2>5 DEF HeapInv
<1> QED
  BY <1>7, <1>8

(* Going to the next segment keeps the invariant: none was skipped. *)
LEMMA ScanNextInv == HeapInv /\ ScanNext => HeapInv'
<1> SUFFICES ASSUME HeapInv, ScanNext PROVE HeapInv'
  OBVIOUS
<1>1. /\ pc = "scan" /\ heap_initialized /\ selected \in DOMAIN hdr
      /\ ~Takes(selected)
      /\ hdr[selected].next # NULL /\ selected' = hdr[selected].next
      /\ UNCHANGED <<listVars, pc, want, old, asked, grows, held, lost, seams>>
  BY DEF HeapInv, CallInv, ScanNext, Fits, Takes
<1>2. L' = L
  BY <1>1 DEF listVars, L
<1>3. TypesInv' /\ ListInv' /\ GrowthInv'
  BY <1>1, <1>2 DEF HeapInv, TypesInv, ListInv, GrowthInv, Takes, listVars
<1>4. OwnersInv'
  BY <1>1, <1>2 DEF HeapInv, OwnersInv, listVars
<1>5. /\ selected' \in DOMAIN hdr
      /\ selected' = EndOf(hdr, selected)
      /\ \A a \in DOMAIN hdr : a \in Nat
      /\ \A a \in DOMAIN hdr : selected < a => EndOf(hdr, selected) <= a
  BY <1>1, ListFacts DEF Shape, Tiles, Linked
<1>6. \A a \in DOMAIN hdr : a < selected' => ~Takes(a)
  <2> SUFFICES ASSUME NEW a \in DOMAIN hdr, a < selected' PROVE ~Takes(a)
    OBVIOUS
  <2>1. a < selected \/ a = selected
    BY <1>1, <1>5
  <2> QED
    BY <1>1, <2>1 DEF HeapInv, CallInv
<1>7. CallInv'
  BY <1>1, <1>5, <1>6 DEF HeapInv, CallInv, listVars, Takes
<1> QED
  BY <1>3, <1>4, <1>7 DEF HeapInv

(* Extending the heap keeps the invariant.  When no segment fits, the new    *)
(* one is the only one that may; when it does not, no later one will.        *)
LEMMA ScanGrowInv == HeapInv /\ ScanGrow => HeapInv'
<1> SUFFICES ASSUME HeapInv, ScanGrow PROVE HeapInv'
  OBVIOUS
<1> DEFINE length == RoundUp(want, PAGE_SIZE)
           m == AppendSegment(L, heap_end, length)
<1>1. /\ pc = "scan" /\ heap_initialized /\ selected \in DOMAIN hdr
      /\ ~Takes(selected) /\ want \in Nat /\ want > 0 /\ asked > 0 /\ want >= asked
      /\ hdr[selected].next = NULL
      /\ hdr' = m.hdr /\ last' = m.last
      /\ heap_end' = heap_end + length
      /\ seams' = seams \cup {heap_end}
      /\ selected' = HEAP_BASE
      /\ grows' = IF grows = 0 THEN 1 ELSE 2
      /\ UNCHANGED <<heap_initialized, pc, want, old, asked, held, lost>>
  BY DEF HeapInv, TypesInv, CallInv, ScanGrow, Fits, Takes, SetList, L
<1>2. /\ Shape(L, heap_end) /\ L.hdr = hdr /\ L.last = last
      /\ \A a \in DOMAIN hdr : ApartAt(L, seams, a) /\ a \in Nat
      /\ HEAP_BASE \in DOMAIN hdr /\ \A a \in DOMAIN hdr : HEAP_BASE <= a
      /\ DOMAIN held \subseteq DOMAIN hdr
  BY <1>1, ListFacts
<1>3. length \in Nat /\ length >= HDR + GRAIN /\ HDR \in Nat /\ GRAIN \in Nat
  BY <1>1, RoundUpBounds, SizesAssumption
<1>4. /\ Shape(m, heap_end + length)
      /\ heap_end \notin DOMAIN hdr
      /\ DOMAIN m.hdr = DOMAIN hdr \cup {heap_end}
      /\ m.hdr[heap_end].free /\ m.hdr[heap_end].length = length - HDR
      /\ m.hdr[heap_end].next = NULL
      /\ m.hdr[last].next = heap_end
      /\ \A a \in DOMAIN hdr \ {last} : m.hdr[a].next = hdr[a].next
      /\ \A a \in DOMAIN hdr : m.hdr[a].free = hdr[a].free /\ m.hdr[a].length = hdr[a].length
  BY <1>2, <1>3, AppendSegmentShape DEF Same
<1>5. m.last = heap_end
  <2>1. heap_end \in DOMAIN m.hdr /\ m.hdr[heap_end].next = NULL
    BY <1>4
  <2> QED
    BY <1>4, <2>1 DEF Shape, Tiles, Linked
<1> HIDE DEF m, length
<1>6. L'.hdr = m.hdr /\ L'.last = m.last
  BY <1>1 DEF L, List
<1>7. Shape(L', heap_end')
  BY <1>1, <1>4, <1>6 DEF Shape, Tiles, Linked, EndOf
<1>8. \A a \in DOMAIN hdr' : ApartAt(L', seams', a)
  <2> SUFFICES ASSUME NEW a \in DOMAIN m.hdr,
                      m.hdr[a].free, m.hdr[a].next # NULL, m.hdr[m.hdr[a].next].free
               PROVE  m.hdr[a].next \in seams'
    BY <1>1, <1>6 DEF ApartAt
  <2>1. CASE a = last \/ a = heap_end
    BY <1>1, <1>4, <2>1
  <2>2. CASE a \in DOMAIN hdr \ {last}
    <3>1. m.hdr[a].next = hdr[a].next /\ hdr[a].next \in DOMAIN hdr /\ ApartAt(L, seams, a)
      BY <1>2, <1>4, <2>2, NeighboursOf
    <3> QED
      BY <1>1, <1>2, <1>4, <2>2, <3>1 DEF ApartAt
  <2> QED
    BY <1>4, <2>1, <2>2
<1>9. TypesInv'
  <2>1. heap_end \in Nat
    BY <1>2 DEF Shape
  <2> QED
    BY <1>1, <2>1 DEF HeapInv, TypesInv
<1>10. ListInv'
  BY <1>1, <1>7, <1>8 DEF ListInv
<1>11. OwnersInv'
  <2>1. Used(L') = Used(L)
    BY <1>2, <1>4, <1>6 DEF Used
  <2> QED
    BY <1>1, <1>2, <1>4, <2>1 DEF HeapInv, OwnersInv
<1>12. CallInv'
  <2>1. HEAP_BASE \in DOMAIN hdr' /\ \A a \in DOMAIN hdr' : ~(a < HEAP_BASE)
    <3>1. HEAP_BASE \in Nat /\ heap_end \in Nat /\ \A a \in DOMAIN m.hdr : a \in Nat /\ HEAP_BASE <= a
      BY <1>2, <1>4, SizesAssumption DEF Shape
    <3> QED
      BY <1>1, <1>2, <1>4, <3>1
  <2>2. old # NULL => old \in DOMAIN hdr /\ hdr'[old].length = hdr[old].length
    BY <1>1, <1>2, <1>4 DEF HeapInv, CallInv
  <2> QED
    BY <1>1, <2>1, <2>2 DEF HeapInv, CallInv
<1>13. GrowthInv'
  <2>1. selected = last
    BY <1>1, <1>2 DEF Shape, Tiles, Linked
  <2>2. \A a \in DOMAIN hdr : ~Takes(a)
    <3> SUFFICES ASSUME NEW a \in DOMAIN hdr PROVE ~Takes(a)
      OBVIOUS
    <3>1. a < selected \/ a = selected
      <4>1. /\ EndOf(hdr, last) = heap_end /\ EndOf(hdr, a) <= heap_end
            /\ last < a => EndOf(hdr, last) <= a
        BY <1>2 DEF Shape, Tiles
      <4>2. EndOf(hdr, a) \in Nat /\ a < EndOf(hdr, a) /\ a \in Nat /\ last \in Nat /\ heap_end \in Nat
        BY <1>1, <1>2, <1>3, <2>1, SizesAssumption DEF EndOf, Shape, Header
      <4> QED
        BY <2>1, <4>1, <4>2
    <3> QED
      BY <1>1, <3>1 DEF HeapInv, CallInv
  <2>3. (~Takes(last))
    BY <1>1, <2>1
  <2>4. /\ Serviceable(want)' <=> Serviceable(want)
        /\ Serviceable(want) <=> length - HDR >= want
    <3>1. Serviceable(want)' <=> Serviceable(want)
      BY <1>1 DEF Serviceable
    <3>2. Serviceable(want) <=> length - want >= HDR
      BY DEF Serviceable, length
    <3> QED
      BY <1>1, <1>3, <3>1, <3>2
  <2>5. CASE Serviceable(want)
    <3>1. grows = 0
      BY <1>1, <2>3, <2>5 DEF HeapInv, GrowthInv, TypesInv
    <3>2. Takes(last)'
      BY <1>1, <1>4, <1>5, <2>4, <2>5 DEF Takes
    <3> QED
      BY <1>1, <2>4, <2>5, <3>1, <3>2 DEF GrowthInv
  <2>6. CASE ~Serviceable(want)
    <3>1. ASSUME NEW a \in DOMAIN hdr'
          PROVE  ~Takes(a)'
      <4>1. CASE a = heap_end
        BY <1>1, <1>3, <1>4, <2>4, <2>6, <4>1 DEF Takes
      <4>2. CASE a \in DOMAIN hdr
        BY <1>1, <1>4, <2>2, <4>2 DEF Takes
      <4> QED
        BY <1>1, <1>4, <4>1, <4>2
    <3> QED
      BY <2>4, <2>6, <3>1 DEF GrowthInv
  <2> QED
    BY <2>5, <2>6
<1> QED
  BY <1>9, <1>10, <1>11, <1>12, <1>13 DEF HeapInv

(* The steps that give a block back share this argument: seg is a block that *)
(* a caller holds, and its segment is freed.                                 *)
LEMMA ReleaseSegment ==
  ASSUME HeapInv, NEW seg \in DOMAIN held,
         SetList(FreeSegment(L, seg)),
         held' = Restrict(held, DOMAIN held \ {seg}),
         UNCHANGED <<heap_end, heap_initialized, seams>>
  PROVE  /\ heap_initialized
         /\ Shape(L', heap_end') /\ L'.hdr = hdr'
         /\ \A a \in DOMAIN hdr' : ApartAt(L', seams', a)
         /\ Used(L') = Used(L) \ {seg}
         /\ DOMAIN held' = DOMAIN held \ {seg}
         /\ held' \in [DOMAIN held' -> Nat]
         /\ \A a \in DOMAIN held' : held'[a] > 0 /\ hdr'[a].length >= held'[a]
<1> DEFINE m == FreeSegment(L, seg)
<1>1. heap_initialized
  BY DEF HeapInv, ListInv
<1>2. /\ Shape(L, heap_end) /\ L.hdr = hdr /\ seg \in DOMAIN L.hdr
      /\ \A a \in DOMAIN L.hdr : ApartAt(L, seams, a)
  BY <1>1, ListFacts
<1>3. /\ Shape(m, heap_end) /\ Used(m) = Used(L) \ {seg}
      /\ \A a \in Used(m) : m.hdr[a].length = L.hdr[a].length
      /\ \A a \in DOMAIN m.hdr : ApartAt(m, seams, a)
  BY <1>2, FreeSegmentShape
<1>4. hdr' = m.hdr /\ last' = m.last
  BY DEF SetList
<1> HIDE DEF m
<1>5. L'.hdr = m.hdr /\ L'.last = m.last
  BY <1>4 DEF L, List
<1>6. /\ Shape(L', heap_end') /\ Used(L') = Used(m)
      /\ \A a \in DOMAIN hdr' : ApartAt(L', seams', a)
  BY <1>3, <1>4, <1>5 DEF Shape, Used, ApartAt, Tiles, Linked, EndOf
<1>7. held' = [a \in DOMAIN held \ {seg} |-> held[a]]
  BY DEF Restrict
<1>8. \A a \in DOMAIN held' : a \in Used(m) /\ hdr'[a].length = hdr[a].length
  BY <1>2, <1>3, <1>4, <1>7 DEF HeapInv, OwnersInv
<1> QED
  BY <1>1, <1>3, <1>4, <1>5, <1>6, <1>7, <1>8 DEF HeapInv, TypesInv, OwnersInv

(* free keeps the invariant. *)
LEMMA FreeInv == ASSUME HeapInv, NEW p \in DOMAIN held, Free(p) PROVE HeapInv'
<1>1. /\ pc = "idle" /\ pc' = "idle" /\ UNCHANGED <<want, selected, old, asked, grows>>
      /\ lost' = lost /\ heap_initialized' = heap_initialized /\ seams' = seams
  BY DEF Free, callVars
<1>2. /\ heap_initialized
      /\ Shape(L', heap_end') /\ L'.hdr = hdr'
      /\ \A a \in DOMAIN hdr' : ApartAt(L', seams', a)
      /\ Used(L') = Used(L) \ {p}
      /\ DOMAIN held' = DOMAIN held \ {p}
      /\ held' \in [DOMAIN held' -> Nat]
      /\ \A a \in DOMAIN held' : held'[a] > 0 /\ hdr'[a].length >= held'[a]
  BY ReleaseSegment DEF Free, L
<1>3. TypesInv' /\ ListInv'
  BY <1>1, <1>2 DEF HeapInv, TypesInv, ListInv
<1>4. OwnersInv'
  BY <1>1, <1>2 DEF HeapInv, OwnersInv
<1>5. CallInv' /\ GrowthInv'
  BY <1>1 DEF HeapInv, CallInv, GrowthInv
<1> QED
  BY <1>3, <1>4, <1>5 DEF HeapInv

(* The end of realloc keeps the invariant: the new block is lost. *)
LEMMA ReallocFinishInv == HeapInv /\ ReallocFinish => HeapInv'
<1> SUFFICES ASSUME HeapInv, ReallocFinish PROVE HeapInv'
  OBVIOUS
<1>1. /\ pc = "copy" /\ EndCall /\ lost' = lost \cup {selected}
      /\ UNCHANGED <<heap_end, heap_initialized, seams>>
      /\ old \in DOMAIN held /\ selected \notin DOMAIN held \cup lost
  BY DEF ReallocFinish, HeapInv, CallInv
<1>2. /\ heap_initialized
      /\ Shape(L', heap_end') /\ L'.hdr = hdr'
      /\ \A a \in DOMAIN hdr' : ApartAt(L', seams', a)
      /\ Used(L') = Used(L) \ {old}
      /\ DOMAIN held' = DOMAIN held \ {old}
      /\ held' \in [DOMAIN held' -> Nat]
      /\ \A a \in DOMAIN held' : held'[a] > 0 /\ hdr'[a].length >= held'[a]
  BY <1>1, ReleaseSegment DEF ReallocFinish, L
<1>3. TypesInv' /\ ListInv'
  BY <1>1, <1>2 DEF HeapInv, TypesInv, ListInv, EndCall
<1>4. OwnersInv'
  BY <1>1, <1>2 DEF HeapInv, OwnersInv, EndCall
<1>5. CallInv' /\ GrowthInv'
  BY <1>1 DEF CallInv, GrowthInv, EndCall
<1> QED
  BY <1>3, <1>4, <1>5 DEF HeapInv

(* Every step keeps the invariant. *)
LEMMA NextInv == HeapInv /\ [Next]_vars => HeapInv'
<1> SUFFICES ASSUME HeapInv, [Next]_vars PROVE HeapInv'
  OBVIOUS
<1>1. ASSUME NEW n \in Requests, Malloc(n)
      PROVE  HeapInv'
  BY <1>1, BeginMallocInv, BoundsAssumption DEF Malloc
<1>2. ASSUME NEW num \in Elements, NEW size \in Elements, Calloc(num, size)
      PROVE  HeapInv'
  <2>1. num \in Nat /\ size \in Nat /\ num * size \in Nat
    BY BoundsAssumption
  <2> QED
    BY <1>2, <2>1, BeginMallocInv DEF Calloc, Malloc
<1>3. ASSUME NEW p \in DOMAIN held, NEW n \in Requests, Realloc(p, n)
      PROVE  HeapInv'
  BY <1>3, BeginMallocInv, BoundsAssumption DEF Realloc
<1>4. ASSUME NEW p \in DOMAIN held, Free(p)
      PROVE  HeapInv'
  BY <1>4, FreeInv
<1>5. CASE Scan
  BY <1>5, ScanTakeInv, ScanNextInv, ScanGrowInv, ReallocFinishInv DEF Scan
<1>6. CASE UNCHANGED vars
  <2>1. L' = L
    BY <1>6 DEF vars, listVars, L
  <2> QED
    BY <1>6, <2>1 DEF vars, listVars, callVars, HeapInv, TypesInv, ListInv, OwnersInv,
                      CallInv, GrowthInv, Takes
<1> QED
  BY <1>1, <1>2, <1>3, <1>4, <1>5, <1>6 DEF Next

(* The invariant holds in every reachable state. *)
THEOREM Invariance == Spec => []HeapInv
<1> QED
  BY InitInv, NextInv, PTL DEF Spec

-----------------------------------------------------------------------------
(* Type correctness follows. *)
LEMMA InvTypeOK == HeapInv => TypeOK
<1> SUFFICES ASSUME HeapInv PROVE TypeOK
  OBVIOUS
<1>1. CASE ~heap_initialized
  <2>1. DOMAIN hdr = {} /\ last = NULL /\ heap_end = NULL /\ pc = "idle"
        /\ DOMAIN held = {} /\ lost = {} /\ selected = NULL /\ old = NULL
    BY <1>1 DEF HeapInv, ListInv, CallInv
  <2>2. hdr \in [DOMAIN hdr -> Header]
    BY <1>1 DEF HeapInv, ListInv
  <2> QED
    BY <2>1, <2>2 DEF HeapInv, TypesInv, TypeOK, NULL
<1>2. CASE heap_initialized
  <2>1. /\ Shape(L, heap_end) /\ L.hdr = hdr /\ L.last = last
    BY <1>2, ListFacts
  <2>2. /\ hdr \in [DOMAIN hdr -> Header]
        /\ \A a \in DOMAIN hdr : a \in Nat /\ HEAP_BASE <= a /\ hdr[a].length >= GRAIN
        /\ last \in Nat /\ heap_end \in Nat
    BY <2>1 DEF Shape, Tiles
  <2>3. DOMAIN held \subseteq DOMAIN hdr /\ lost \subseteq DOMAIN hdr
    BY <2>1 DEF HeapInv, OwnersInv, Used
  <2>4. selected \in DOMAIN hdr \cup {NULL} /\ old \in DOMAIN held \cup {NULL}
    BY DEF HeapInv, CallInv
  <2> QED
    BY <2>2, <2>3, <2>4 DEF HeapInv, TypesInv, TypeOK
<1> QED
  BY <1>1, <1>2

(* The variables keep their types, and headers lie in the heap. *)
THEOREM TypeCorrect == Spec => []TypeOK
<1> QED
  BY Invariance, InvTypeOK, PTL

(* The segments tile the heap and the list's links agree, whatever sequence  *)
(* of calls combine_with_next, split_header and expand_heap serve.           *)
THEOREM HeapTiles == Spec => []Tiling
<1>1. HeapInv => Tiling
  BY DEF HeapInv, ListInv, Tiling, Shape, L
<1> QED
  BY <1>1, Invariance, PTL

(* A block stays with its holder and is as long as asked for, and what is    *)
(* marked used is held, lost by realloc or being copied to.                  *)
THEOREM HeapOwned == Spec => []Owned
<1>1. HeapInv => Owned
  BY DEF HeapInv, OwnersInv, Owned, Used, UsedSegments, L, List
<1> QED
  BY <1>1, Invariance, PTL

(* The copy of realloc stays inside its two blocks. *)
THEOREM HeapCopyFits == Spec => []CopyFits
<1>1. HeapInv => CopyFits
  <2> SUFFICES ASSUME HeapInv, pc = "copy"
               PROVE  /\ old \in DOMAIN held /\ selected \in UsedSegments \ DOMAIN held
                      /\ hdr[selected].length >= hdr[old].length
    BY DEF CopyFits
  <2>1. /\ heap_initialized /\ old \in DOMAIN held /\ selected \notin DOMAIN held
        /\ selected \in DOMAIN hdr
        /\ hdr[selected].length >= want /\ want >= asked
        /\ old # NULL => hdr[old].length <= asked
    BY DEF HeapInv, CallInv
  <2>2. /\ old # NULL /\ old \in DOMAIN hdr
        /\ hdr[old].length \in Nat /\ hdr[selected].length \in Nat
    BY <2>1, ListFacts DEF Header
  <2>3. selected \in UsedSegments
    BY <2>1 DEF HeapInv, OwnersInv, Used, UsedSegments, L, List
  <2> QED
    BY <2>1, <2>2, <2>3 DEF HeapInv, TypesInv
<1> QED
  BY <1>1, Invariance, PTL

(* Adjacent free segments meet only where the heap was extended. *)
THEOREM HeapCoalesced == Spec => []Coalesced
<1>1. HeapInv => Coalesced
  <2> SUFFICES ASSUME HeapInv PROVE Coalesced
    OBVIOUS
  <2>1. CASE heap_initialized
    BY <2>1, ListFacts DEF Coalesced, ApartAt
  <2>2. CASE ~heap_initialized
    BY <2>2 DEF HeapInv, ListInv, Coalesced
  <2> QED
    BY <2>1, <2>2
<1> QED
  BY <1>1, Invariance, PTL

(* malloc leaves its loop only at ScanTake. *)
LEMMA LeavesLoop ==
  ASSUME HeapInv, Next, pc = "scan", pc' # "scan"
  PROVE  ScanTake /\ Takes(selected) /\ selected \in DOMAIN hdr
<1>1. ScanTake
  BY DEF Next, Malloc, Calloc, Realloc, BeginMalloc, Free, Scan, ScanNext, ScanGrow, ReallocFinish
<1> QED
  BY <1>1 DEF ScanTake, Fits, Takes, HeapInv, CallInv

(* malloc takes the segment with the lowest address of those that fit. *)
THEOREM HeapFirstFit == Spec => FirstFit
<1>1. HeapInv /\ [Next]_vars =>
        [pc = "scan" /\ pc' # "scan" =>
           \A a \in DOMAIN hdr :
             hdr[a].free /\ hdr[a].length >= want => selected <= a]_vars
  <2> SUFFICES ASSUME HeapInv, Next, pc = "scan", pc' # "scan",
                      NEW a \in DOMAIN hdr, hdr[a].free, hdr[a].length >= want
               PROVE  selected <= a
    OBVIOUS
  <2>1. selected \in DOMAIN hdr /\ heap_initialized
    BY LeavesLoop DEF HeapInv, CallInv
  <2>2. selected \in Nat /\ a \in Nat
    BY <2>1, ListFacts
  <2>3. ~(a < selected)
    BY DEF HeapInv, CallInv, Takes
  <2> QED
    BY <2>2, <2>3
<1> QED
  BY <1>1, Invariance, PTL DEF Spec, FirstFit

(* A call that extended the heap returns after one extension, or never. *)
THEOREM HeapGrowthDecides == Spec => GrowthDecides
<1>1. HeapInv /\ [Next]_vars =>
        [pc = "scan" /\ pc' # "scan" /\ grows > 0 => Serviceable(want) /\ grows = 1]_vars
  <2> SUFFICES ASSUME HeapInv, Next, pc = "scan", pc' # "scan", grows > 0
               PROVE  Serviceable(want) /\ grows = 1
    OBVIOUS
  <2>1. Takes(selected) /\ selected \in DOMAIN hdr
    BY LeavesLoop
  <2> QED
    BY <2>1 DEF HeapInv, GrowthInv
<1> QED
  BY <1>1, Invariance, PTL DEF Spec, GrowthDecides

-----------------------------------------------------------------------------
(* The heap implements the abstract allocator.                               *)
Block(h, a) == [base |-> a + HDR, size |-> h[a].length]
Blocks == {Block(hdr, a) : a \in UsedSegments}
Limit == IF heap_initialized THEN heap_end ELSE HEAP_BASE

(* What a step that takes a segment does to the used ones. *)
LEMMA TakeEffect ==
  ASSUME HeapInv, ScanTake
  PROVE  /\ heap_initialized /\ heap_initialized' /\ heap_end' = heap_end
         /\ selected \in DOMAIN hdr /\ selected \notin UsedSegments
         /\ UsedSegments' = UsedSegments \cup {selected}
         /\ \A a \in UsedSegments : hdr'[a].length = hdr[a].length
<1> DEFINE m == TakeSegment(L, selected, want)
<1>1. /\ heap_initialized /\ selected \in DOMAIN hdr
      /\ hdr[selected].free /\ hdr[selected].length >= want /\ want \in Nat
      /\ hdr' = m.hdr
      /\ UNCHANGED <<heap_end, heap_initialized>>
  BY DEF HeapInv, TypesInv, CallInv, ScanTake, Fits, SetList, L
<1>2. /\ Shape(L, heap_end) /\ L.hdr = hdr /\ selected \in DOMAIN L.hdr
  BY <1>1, ListFacts
<1>3. /\ Used(m) = Used(L) \cup {selected}
      /\ \A a \in Used(L) : m.hdr[a].length = L.hdr[a].length
  BY <1>1, <1>2, TakeSegmentShape
<1> HIDE DEF m
<1>4. UsedSegments = Used(L) /\ UsedSegments' = Used(m)
  BY <1>1, <1>2 DEF UsedSegments, Used
<1> QED
  BY <1>1, <1>2, <1>3, <1>4 DEF UsedSegments

(* What a step that frees a segment does to the used ones. *)
LEMMA ReleaseEffect ==
  ASSUME HeapInv, NEW seg \in DOMAIN held,
         SetList(FreeSegment(L, seg)), UNCHANGED <<heap_end, heap_initialized>>
  PROVE  /\ heap_initialized
         /\ seg \in UsedSegments
         /\ UsedSegments' = UsedSegments \ {seg}
         /\ \A a \in UsedSegments' : hdr'[a].length = hdr[a].length
<1> DEFINE m == FreeSegment(L, seg)
<1>1. heap_initialized
  BY DEF HeapInv, ListInv
<1>2. /\ Shape(L, heap_end) /\ L.hdr = hdr /\ seg \in DOMAIN L.hdr /\ hdr' = m.hdr
      /\ ~hdr[seg].free
  BY <1>1, ListFacts DEF SetList
<1>3. /\ Used(m) = Used(L) \ {seg}
      /\ \A a \in Used(m) : m.hdr[a].length = L.hdr[a].length
  BY <1>2, FreeSegmentShape
<1> HIDE DEF m
<1>4. UsedSegments = Used(L) /\ UsedSegments' = Used(m)
  BY <1>2 DEF UsedSegments, Used
<1> QED
  BY <1>1, <1>2, <1>3, <1>4 DEF UsedSegments

(* What an extension does to the used segments and to the end. *)
LEMMA GrowEffect ==
  ASSUME HeapInv, ScanGrow
  PROVE  /\ heap_initialized /\ heap_initialized' /\ heap_end \in Nat /\ heap_end' > heap_end
         /\ UsedSegments' = UsedSegments
         /\ \A a \in UsedSegments : hdr'[a].length = hdr[a].length
<1> DEFINE length == RoundUp(want, PAGE_SIZE)
           m == AppendSegment(L, heap_end, length)
<1>1. /\ heap_initialized /\ want \in Nat /\ want > 0
      /\ hdr' = m.hdr /\ heap_end' = heap_end + length
      /\ UNCHANGED heap_initialized
  BY DEF HeapInv, TypesInv, CallInv, ScanGrow, SetList, L
<1>2. Shape(L, heap_end) /\ L.hdr = hdr
  BY <1>1, ListFacts
<1>3. length \in Nat /\ length >= HDR + GRAIN /\ length > 0
  BY <1>1, RoundUpBounds, SizesAssumption
<1>4. /\ DOMAIN m.hdr = DOMAIN hdr \cup {heap_end} /\ m.hdr[heap_end].free
      /\ \A a \in DOMAIN hdr : m.hdr[a].free = hdr[a].free /\ m.hdr[a].length = hdr[a].length
  BY <1>2, <1>3, AppendSegmentShape DEF Same
<1>5. heap_end \in Nat
  BY <1>2 DEF Shape
<1> HIDE DEF m, length
<1>6. UsedSegments' = UsedSegments
  BY <1>1, <1>4 DEF UsedSegments
<1> QED
  BY <1>1, <1>3, <1>4, <1>5, <1>6 DEF UsedSegments

(* A step of the heap is a step of the allocator or changes nothing of it.   *)
LEMMA StepRefines ==
  HeapInv /\ HeapInv' /\ [Next]_vars => [Allocator!Next]_<<Blocks, Limit>>
<1> SUFFICES ASSUME HeapInv, HeapInv', [Next]_vars
             PROVE  Allocator!Next \/ UNCHANGED <<Blocks, Limit>>
  OBVIOUS
<1> USE DEF Blocks, Limit, Block
<1>1. ASSUME UNCHANGED listVars
      PROVE  UNCHANGED <<Blocks, Limit>>
  BY <1>1 DEF listVars, UsedSegments
<1>2. ASSUME NEW n, NEW o, BeginMalloc(n, o)
      PROVE  Allocator!Next \/ UNCHANGED <<Blocks, Limit>>
  <2>1. CASE heap_initialized
    BY <1>1, <1>2, <2>1 DEF BeginMalloc, InitHeap
  <2>2. CASE ~heap_initialized
    <3>1. /\ heap_initialized' = TRUE
          /\ hdr' = [a \in {HEAP_BASE} |-> InitialHeader]
          /\ last' = HEAP_BASE
          /\ heap_end' = HEAP_BASE + INIT_PAGES * PAGE_SIZE
      BY <1>2, <2>2 DEF BeginMalloc, InitHeap
    <3>2. UsedSegments = {} /\ UsedSegments' = {}
      BY <2>2, <3>1 DEF HeapInv, ListInv, UsedSegments, InitialHeader
    <3>3. INIT_PAGES * PAGE_SIZE \in Nat /\ INIT_PAGES * PAGE_SIZE > 0 /\ HEAP_BASE \in Nat
      <4>1. INIT_PAGES \in Nat /\ INIT_PAGES >= 1 /\ PAGE_SIZE \in Nat /\ PAGE_SIZE >= 1 /\ HEAP_BASE \in Nat
        BY SizesAssumption
      <4> QED
        BY <4>1
    <3>4. Limit = HEAP_BASE /\ Limit' = heap_end' /\ heap_end' > HEAP_BASE
      BY <2>2, <3>1, <3>3
    <3>5. Allocator!Extend
      BY <3>2, <3>4 DEF Allocator!Extend
    <3> QED
      BY <3>5 DEF Allocator!Next
  <2> QED
    BY <2>1, <2>2
<1>3. ASSUME NEW seg \in DOMAIN held, SetList(FreeSegment(L, seg)),
             UNCHANGED <<heap_end, heap_initialized>>
      PROVE  Allocator!Next
  <2>1. /\ heap_initialized /\ seg \in UsedSegments
        /\ UsedSegments' = UsedSegments \ {seg}
        /\ \A a \in UsedSegments' : hdr'[a].length = hdr[a].length
    BY <1>3, ReleaseEffect
  <2>2. \A a \in UsedSegments : a \in Nat /\ HDR \in Nat
    BY <2>1, ListFacts, SizesAssumption DEF UsedSegments
  <2>3. \A a, c \in UsedSegments : a # c => Block(hdr, a) # Block(hdr, c)
    <3> SUFFICES ASSUME NEW a \in UsedSegments, NEW c \in UsedSegments, a # c
                 PROVE  Block(hdr, a).base # Block(hdr, c).base
      OBVIOUS
    <3>1. Block(hdr, a).base = a + HDR /\ Block(hdr, c).base = c + HDR
      OBVIOUS
    <3> QED
      BY <2>2, <3>1
  <2>4. Blocks' = Blocks \ {Block(hdr, seg)} /\ Block(hdr, seg) \in Blocks
    <3> HIDE DEF Block
    <3>1. \A a \in UsedSegments' : Block(hdr', a) = Block(hdr, a)
      BY <2>1 DEF Block
    <3>2. Blocks' = {Block(hdr', a) : a \in UsedSegments'}
      OBVIOUS
    <3> QED
      BY <2>1, <2>3, <3>1, <3>2
  <2>5. Limit' = Limit
    BY <1>3
  <2>6. Allocator!Release
    BY <2>4, <2>5 DEF Allocator!Release
  <2> QED
    BY <2>6 DEF Allocator!Next
<1>4. CASE ScanTake
  <2> DEFINE b == Block(hdr', selected)
  <2>1. /\ heap_initialized /\ heap_initialized' /\ heap_end' = heap_end
        /\ selected \in DOMAIN hdr /\ selected \notin UsedSegments
        /\ UsedSegments' = UsedSegments \cup {selected}
        /\ \A a \in UsedSegments : hdr'[a].length = hdr[a].length
    BY <1>4, TakeEffect
  <2>2. /\ Shape(L', heap_end') /\ L'.hdr = hdr'
    BY <2>1 DEF HeapInv, ListInv, L, List
  <2>3. /\ selected \in DOMAIN hdr' /\ UsedSegments \subseteq DOMAIN hdr'
        /\ \A a \in DOMAIN hdr' : /\ a \in Nat /\ HEAP_BASE <= a
                                  /\ hdr'[a].length \in Nat /\ hdr'[a].length >= GRAIN
                                  /\ a + HDR + hdr'[a].length <= heap_end
        /\ \A a, c \in DOMAIN hdr' : a < c => a + HDR + hdr'[a].length <= c
    <3>1. selected \in DOMAIN hdr' /\ UsedSegments \subseteq DOMAIN hdr'
      BY <2>1 DEF UsedSegments
    <3> QED
      BY <2>1, <2>2, <3>1 DEF Shape, Tiles, EndOf, Header
  <2>4. HDR \in Nat /\ HDR > 0 /\ GRAIN \in Nat /\ GRAIN > 0 /\ HEAP_BASE \in Nat
    BY SizesAssumption
  <2>5. b.base = selected + HDR /\ b.size = hdr'[selected].length
    OBVIOUS
  <2>6. \A c \in Blocks : \E a \in UsedSegments :
          c = Block(hdr, a) /\ c.base = a + HDR /\ c.size = hdr'[a].length /\ a # selected
    BY <2>1
  <2>7. Blocks' = Blocks \cup {b}
    <3> HIDE DEF Block
    <3>1. \A a \in UsedSegments : Block(hdr', a) = Block(hdr, a)
      BY <2>1 DEF Block
    <3>2. Blocks' = {Block(hdr', a) : a \in UsedSegments'}
      OBVIOUS
    <3> QED
      BY <2>1, <3>1, <3>2
  <2> HIDE DEF b, Blocks, Limit, Block
  <2>8. \A c \in Blocks : Allocator!Disjoint(b, c) /\ c # b
    <3> SUFFICES ASSUME NEW c \in Blocks
                 PROVE  Allocator!Disjoint(b, c) /\ c # b
      OBVIOUS
    <3>1. PICK a \in UsedSegments : c.base = a + HDR /\ c.size = hdr'[a].length /\ a # selected
      BY <2>6
    <3>2. a \in Nat /\ selected \in Nat /\ hdr'[a].length \in Nat /\ hdr'[selected].length \in Nat
      BY <2>3
    <3>3. c.base # b.base
      BY <2>4, <2>5, <3>1, <3>2
    <3>4. \/ a + HDR + hdr'[a].length <= selected
          \/ selected + HDR + hdr'[selected].length <= a
      BY <2>3, <3>1, <3>2
    <3>5. Allocator!Disjoint(b, c)
      BY <2>4, <2>5, <3>1, <3>2, <3>4 DEF Allocator!Disjoint
    <3> QED
      BY <3>3, <3>5
  <2>9. b.size > 0 /\ HEAP_BASE <= b.base /\ b.base + b.size <= Limit /\ Limit' = Limit
    <3>1. Limit = heap_end /\ Limit' = heap_end
      BY <2>1 DEF Limit
    <3> QED
      BY <2>3, <2>4, <2>5, <3>1
  <2>10. Allocator!Allocate
    BY <2>7, <2>8, <2>9 DEF Allocator!Allocate, Blocks, Limit, Block
  <2> QED
    BY <2>10 DEF Allocator!Next
<1>5. CASE ScanGrow
  <2>1. /\ heap_initialized /\ heap_initialized' /\ heap_end \in Nat /\ heap_end' > heap_end
        /\ UsedSegments' = UsedSegments
        /\ \A a \in UsedSegments : hdr'[a].length = hdr[a].length
    BY <1>5, GrowEffect
  <2>2. Allocator!Extend
    BY <2>1 DEF Allocator!Extend
  <2> QED
    BY <2>2 DEF Allocator!Next
<1>6. CASE ScanNext
  BY <1>1, <1>6 DEF ScanNext
<1>7. CASE ReallocFinish
  BY <1>3, <1>7 DEF ReallocFinish, HeapInv, CallInv, L
<1>8. ASSUME NEW p \in DOMAIN held, Free(p)
      PROVE  Allocator!Next
  BY <1>3, <1>8 DEF Free, L
<1>9. CASE UNCHANGED vars
  BY <1>1, <1>9 DEF vars
<1> QED
  BY <1>2, <1>4, <1>5, <1>6, <1>7, <1>8, <1>9 DEF Next, Malloc, Calloc, Realloc, Scan

(* Every behaviour of the heap is one of the abstract allocator: blocks that *)
(* are out never overlap, move, change size or leave the heap.               *)
THEOREM HeapImplementsAllocator == Spec => AllocatorSpec
<1>1. Init => Allocator!Init
  BY DEF Init, Allocator!Init, UsedSegments
<1>2. HeapInv /\ HeapInv' /\ [Next]_vars => [Allocator!Next]_Allocator!avars
  BY StepRefines DEF Allocator!avars, Blocks, Limit, Block
<1> QED
  BY <1>1, <1>2, Invariance, PTL DEF Spec, AllocatorSpec, Allocator!Spec
=============================================================================
