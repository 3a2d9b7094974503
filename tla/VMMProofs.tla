----------------------------- MODULE VMMProofs -----------------------------
(***************************************************************************)
(* Theorems about VMM.  The lemmas about paths and trees are about any     *)
(* root and any tables, so that they can be applied to the tables before   *)
(* and after a step.                                                       *)
(***************************************************************************)
EXTENDS VMM, NaturalFacts, SequenceTheorems, FunctionTheorems, FiniteSetTheorems, TLAPS

-----------------------------------------------------------------------------
(* Numbers of pages and indexes.                                             *)

(* The spans of the levels are the powers of the fan-out.                    *)
LEMMA SpanFacts ==
  /\ Span[0] = 1
  /\ \A n \in 0 .. LEVELS : Span[n] \in Nat \ {0}
  /\ \A n \in 1 .. LEVELS : Span[n] = FANOUT * Span[n - 1]
<1> DEFINE start == 1
           S == [i \in 0 .. LEVELS |-> Nat \ {0}]
           step == [i \in 1 .. LEVELS |-> [x \in Nat \ {0} |-> FANOUT * x]]
<1>1. LEVELS \in Nat /\ FANOUT \in Nat \ {0}
  BY PagingAssumption
<1>2. start \in S[0]
  BY <1>1
<1>3. \A i \in 1 .. LEVELS : \A x \in S[i - 1] : step[i][x] \in S[i]
  <2> SUFFICES ASSUME NEW i \in 1 .. LEVELS, NEW x \in S[i - 1] PROVE step[i][x] \in S[i]
    OBVIOUS
  <2>1. x \in Nat \ {0} /\ S[i] = Nat \ {0} /\ step[i][x] = FANOUT * x
    BY <1>1
  <2>2. FANOUT * x \in Nat \ {0}
    BY <1>1, <2>1
  <2> QED
    BY <2>1, <2>2
<1> HIDE DEF S, step, start
<1>4. PICK f : IsRecursive(LEVELS, S, start, step, f)
  <2>1. StaysIn(LEVELS, S, start, step)
    BY Zenon, <1>2, <1>3 DEF StaysIn
  <2> QED
    BY <1>1, <2>1, RecursiveFunction
<1>5. f[0] = 1 /\ \A i \in 0 .. LEVELS : f[i] \in Nat \ {0}
  BY <1>1, <1>4 DEF S, start, IsRecursive
<1>6. \A i \in 1 .. LEVELS : f[i] = FANOUT * f[i - 1]
  <2> SUFFICES ASSUME NEW i \in 1 .. LEVELS PROVE f[i] = FANOUT * f[i - 1]
    OBVIOUS
  <2>1. i - 1 \in 0 .. LEVELS
    BY <1>1
  <2>2. f[i - 1] \in Nat \ {0}
    BY <1>5, <2>1
  <2> QED
    BY <1>4, <2>2 DEF step, IsRecursive
<1>7. f = [n \in 0 .. LEVELS |-> IF n = 0 THEN 1 ELSE FANOUT * f[n - 1]]
  <2>1. \A n \in 0 .. LEVELS : f[n] = IF n = 0 THEN 1 ELSE FANOUT * f[n - 1]
    BY <1>1, <1>5, <1>6
  <2> QED
    BY Zenon, <1>4, <2>1 DEF IsRecursive
<1>8. Span = [n \in 0 .. LEVELS |-> IF n = 0 THEN 1 ELSE FANOUT * Span[n - 1]]
  BY Zenon, <1>7 DEF Span
<1> DEFINE T == {n \in 0 .. LEVELS : Span[n] = f[n]}
<1>9. 0 \in T
  BY <1>1, <1>5, <1>8
<1>10. ASSUME NEW n \in 0 .. LEVELS - 1, n \in T PROVE n + 1 \in T
  <2>1. n + 1 \in 1 .. LEVELS /\ (n + 1) - 1 = n /\ n + 1 # 0 /\ n + 1 \in 0 .. LEVELS
    BY <1>1
  <2>2. Span[n + 1] = FANOUT * Span[n]
    BY <1>8, <2>1
  <2> QED
    BY <1>6, <1>10, <2>1, <2>2
<1> HIDE DEF T
<1>11. \A n \in 0 .. LEVELS : n \in T
  BY <1>1, <1>9, <1>10, UpTo
<1>12. \A n \in 0 .. LEVELS : Span[n] = f[n]
  BY <1>11 DEF T
<1>13. \A n \in 1 .. LEVELS : n - 1 \in 0 .. LEVELS /\ n \in 0 .. LEVELS
  BY <1>1
<1> QED
  BY <1>1, <1>5, <1>6, <1>12, <1>13

(* The index of a page at every level is one of a table's entries.           *)
LEMMA IndexRange ==
  ASSUME NEW v \in Virtual, NEW level \in 1 .. LEVELS
  PROVE  Index(v, level) \in 0 .. FANOUT - 1
<1>1. LEVELS \in Nat /\ FANOUT \in Nat \ {0} /\ level - 1 \in 0 .. LEVELS
  BY PagingAssumption
<1>2. Span[level - 1] \in Nat \ {0}
  BY <1>1, SpanFacts
<1>3. v \in Int
  <2>1. Span[LEVELS] \in Nat
    BY <1>1, SpanFacts
  <2> QED
    BY <2>1 DEF Virtual
<1>4. v \div Span[level - 1] \in Int
  BY <1>2, <1>3, DivMod
<1> QED
  BY <1>1, <1>4, DivMod DEF Index

(* Dividing by c and then by d is dividing by d * c.                         *)
LEMMA DivTwice ==
  ASSUME NEW c \in Nat \ {0}, NEW d \in Nat \ {0}, NEW n \in Nat
  PROVE  n \div (d * c) = (n \div c) \div d
<1> DEFINE q == n \div c
           r == n % c
           p == q \div d
           s == q % d
<1>1. q \in Int /\ r \in 0 .. c - 1 /\ n = r + c * q
  BY DivMod
<1>2. p \in Int /\ s \in 0 .. d - 1 /\ q = s + d * p
  BY <1>1, DivMod
<1> HIDE DEF q, r, p, s
<1>3. d * c \in Nat \ {0} /\ c * s \in Int
  BY <1>2
<1>4. n = (r + c * s) + (d * c) * p
  <2>1. c * (s + d * p) = c * s + (d * c) * p
    BY <1>2
  <2> QED
    BY <1>1, <1>2, <2>1
<1>5. r + c * s \in 0 .. (d * c) - 1
  <2>1. c * s + c <= d * c
    <3>1. c * s + c <= c * d
      BY <1>2, TimesOrder
    <3> QED
      BY <3>1
  <2>2. 0 <= c * s
    BY <1>2
  <2> QED
    BY <1>1, <1>3, <2>1, <2>2
<1>6. n \div (d * c) = p
  BY <1>2, <1>3, <1>4, <1>5, DivModUnique
<1> QED
  BY <1>6 DEF p, q

(* A page is told from every other by its indexes.                           *)
LEMMA IndexesTell ==
  ASSUME NEW u \in Virtual, NEW v \in Virtual,
         \A level \in 1 .. LEVELS : Index(u, level) = Index(v, level)
  PROVE  u = v
<1>1. LEVELS \in Nat \ {0} /\ FANOUT \in Nat \ {0}
  BY PagingAssumption
<1>2. Span[LEVELS] \in Nat \ {0} /\ u \in 0 .. Span[LEVELS] - 1 /\ v \in 0 .. Span[LEVELS] - 1
  BY <1>1, SpanFacts DEF Virtual
<1>3. u \in Nat /\ v \in Nat
  BY <1>2
<1> DEFINE T == {n \in 1 .. LEVELS : u \div Span[n - 1] = v \div Span[n - 1]}
<1>4. ASSUME NEW n \in 1 .. LEVELS, u \div Span[n] = v \div Span[n] PROVE n \in T
  <2>1. Span[n] = FANOUT * Span[n - 1] /\ Span[n - 1] \in Nat \ {0}
    <3>1. n - 1 \in 0 .. LEVELS
      BY <1>1
    <3> QED
      BY <3>1, SpanFacts
  <2> DEFINE a == u \div Span[n - 1]
             b == v \div Span[n - 1]
  <2>2. a \in Int /\ b \in Int
    BY <1>3, <2>1, DivMod
  <2>3. a \div FANOUT = u \div Span[n] /\ b \div FANOUT = v \div Span[n]
    BY <1>1, <1>3, <2>1, DivTwice
  <2>4. a % FANOUT = b % FANOUT
    BY DEF Index
  <2> HIDE DEF a, b
  <2>5. a = (a % FANOUT) + FANOUT * (a \div FANOUT) /\ b = (b % FANOUT) + FANOUT * (b \div FANOUT)
    BY <1>1, <2>2, DivMod
  <2>6. a = b
    BY Zenon, <1>4, <2>3, <2>4, <2>5
  <2> QED
    BY <2>6 DEF a, b
<1>5. LEVELS \in T
  <2>1. u \div Span[LEVELS] = 0 /\ v \div Span[LEVELS] = 0
    <3>1. ASSUME NEW c \in Nat \ {0}, NEW x \in 0 .. c - 1 PROVE x \div c = 0
      <4>1. (x + c * 0) \div c = 0
        BY DivModUnique
      <4>2. x + c * 0 = x
        OBVIOUS
      <4> QED
        BY <4>1, <4>2
    <3> QED
      BY <1>2, <3>1
  <2> QED
    BY <1>1, <1>4, <2>1
<1>6. ASSUME NEW n \in 1 .. LEVELS - 1, n + 1 \in T PROVE n \in T
  <2>1. n \in 1 .. LEVELS /\ (n + 1) - 1 = n
    BY <1>1
  <2>2. u \div Span[n] = v \div Span[n]
    BY <1>6, <2>1
  <2> QED
    BY <1>4, <2>1, <2>2
<1>7. 1 \in T
  <2> HIDE DEF T
  <2>1. \A n \in 1 .. LEVELS : n \in T
    BY <1>1, <1>5, <1>6, DownFrom
  <2> QED
    BY <1>1, <2>1
<1>8. u \div 1 = v \div 1
  BY <1>7, SpanFacts
<1> QED
  BY <1>3, <1>8

-----------------------------------------------------------------------------
(* Trees of tables.                                                          *)

Slots == 0 .. FANOUT - 1

Present(tabs, t, i) == PRESENT \in tabs[t][i].flags

(* An entry that leads to a table.                                           *)
Leads(tabs, rank, t, i) == rank[t] > 1 /\ Present(tabs, t, i)

(* The tables are a tree whose root has the highest rank: the entries that   *)
(* lead to tables lead one rank down, no two to the same table, and one to   *)
(* every table but the root.                                                 *)
Topped(root, tabs, rank) ==
  /\ rank \in [DOMAIN tabs -> 1 .. LEVELS]
  /\ root \in DOMAIN tabs /\ NULL \notin DOMAIN tabs
  /\ \A t \in DOMAIN tabs : rank[t] = LEVELS <=> t = root

Falls(tabs, rank) ==
  \A t \in DOMAIN tabs, i \in Slots : Leads(tabs, rank, t, i) =>
    tabs[t][i].addr \in DOMAIN tabs /\ rank[tabs[t][i].addr] = rank[t] - 1

Once(tabs, rank) ==
  \A s, t \in DOMAIN tabs, i, j \in Slots :
    Leads(tabs, rank, s, i) /\ Leads(tabs, rank, t, j) /\ tabs[s][i].addr = tabs[t][j].addr
      => s = t /\ i = j

Hangs(root, tabs, rank) ==
  \A t \in DOMAIN tabs \ {root} :
    \E s \in DOMAIN tabs, i \in Slots : Leads(tabs, rank, s, i) /\ tabs[s][i].addr = t

Ranked(root, tabs, rank) ==
  Topped(root, tabs, rank) /\ Falls(tabs, rank) /\ Once(tabs, rank) /\ Hangs(root, tabs, rank)

(* Path of VMM, in any tables.                                               *)
PathIn(root, tabs, v) ==
  LET at[level \in 1 .. LEVELS] ==
        IF level = LEVELS THEN root
        ELSE LET above == at[level + 1]
                 pde   == tabs[above][Index(v, level + 1)]
             IN  IF above = NULL THEN NULL
                 ELSE IF HasFlag(pde, {PRESENT}) THEN pde.addr ELSE NULL
  IN  at

(* What a walk finds at a level, given what it found at the level above.     *)
Below(tabs, v, level, above) ==
  IF above # NULL /\ Present(tabs, above, Index(v, level + 1))
  THEN tabs[above][Index(v, level + 1)].addr ELSE NULL

IsWalk(root, tabs, v, f) ==
  f = [level \in 1 .. LEVELS |->
         IF level = LEVELS THEN root ELSE Below(tabs, v, level, f[level + 1])]

(* If there is a walk at all, the path is one.                               *)
LEMMA PathUnfolds ==
  ASSUME NEW root, NEW tabs, NEW v, NEW f, IsWalk(root, tabs, v, f)
  PROVE  IsWalk(root, tabs, v, PathIn(root, tabs, v))
<1>1. \A pde : HasFlag(pde, {PRESENT}) <=> PRESENT \in pde.flags
  BY DEF HasFlag
<1>2. \A level, above :
        Below(tabs, v, level, above) =
          LET pde == tabs[above][Index(v, level + 1)]
          IN  IF above = NULL THEN NULL
              ELSE IF HasFlag(pde, {PRESENT}) THEN pde.addr ELSE NULL
  BY Zenon, <1>1 DEF Below, Present
<1>3. \A g : [level \in 1 .. LEVELS |->
                IF level = LEVELS THEN root ELSE Below(tabs, v, level, g[level + 1])] =
             [level \in 1 .. LEVELS |->
                IF level = LEVELS THEN root
                ELSE LET above == g[level + 1]
                         pde   == tabs[above][Index(v, level + 1)]
                     IN  IF above = NULL THEN NULL
                         ELSE IF HasFlag(pde, {PRESENT}) THEN pde.addr ELSE NULL]
  BY Zenon, <1>2
<1>4. f = [level \in 1 .. LEVELS |->
                IF level = LEVELS THEN root
                ELSE LET above == f[level + 1]
                         pde   == tabs[above][Index(v, level + 1)]
                     IN  IF above = NULL THEN NULL
                         ELSE IF HasFlag(pde, {PRESENT}) THEN pde.addr ELSE NULL]
  BY Zenon, <1>3 DEF IsWalk
<1>5. PathIn(root, tabs, v) =
             [level \in 1 .. LEVELS |->
                IF level = LEVELS THEN root
                ELSE LET above == PathIn(root, tabs, v)[level + 1]
                         pde   == tabs[above][Index(v, level + 1)]
                     IN  IF above = NULL THEN NULL
                         ELSE IF HasFlag(pde, {PRESENT}) THEN pde.addr ELSE NULL]
  BY Zenon, <1>4 DEF PathIn
<1> QED
  BY Zenon, <1>3, <1>5 DEF IsWalk

(* What is known of a walk: level by level it follows the entries, and it    *)
(* finds at a level a table of that rank or none.                            *)
Walked(root, tabs, rank, v) ==
  /\ PathIn(root, tabs, v)[LEVELS] = root
  /\ \A level \in 1 .. LEVELS - 1 :
       PathIn(root, tabs, v)[level] = Below(tabs, v, level, PathIn(root, tabs, v)[level + 1])
  /\ \A level \in 1 .. LEVELS :
       LET t == PathIn(root, tabs, v)[level]
       IN  t # NULL => t \in DOMAIN tabs /\ rank[t] = level

(* From a table of one rank the walk goes to a table of the next, or ends.   *)
LEMMA BelowRank ==
  ASSUME NEW root, NEW tabs, NEW rank, Ranked(root, tabs, rank), NEW v \in Virtual,
         NEW level \in 1 .. LEVELS - 1, NEW above,
         above # NULL => above \in DOMAIN tabs /\ rank[above] = level + 1
  PROVE  Below(tabs, v, level, above) # NULL =>
           /\ Below(tabs, v, level, above) \in DOMAIN tabs
           /\ rank[Below(tabs, v, level, above)] = level
<1>1. LEVELS \in Nat \ {0}
  BY PagingAssumption
<1>2. Index(v, level + 1) \in Slots
  <2>1. level + 1 \in 1 .. LEVELS
    BY <1>1
  <2> QED
    BY <2>1, IndexRange DEF Slots
<1>3. level + 1 > 1 /\ (level + 1) - 1 = level
  BY <1>1
<1> DEFINE i == Index(v, level + 1)
<1>4. ASSUME above # NULL, Present(tabs, above, i)
      PROVE  tabs[above][i].addr \in DOMAIN tabs /\ rank[tabs[above][i].addr] = level
  <2>1. above \in DOMAIN tabs /\ rank[above] = level + 1 /\ i \in Slots
    BY <1>2, <1>4
  <2> HIDE DEF i
  <2>2. Leads(tabs, rank, above, i) =>
          tabs[above][i].addr \in DOMAIN tabs /\ rank[tabs[above][i].addr] = rank[above] - 1
    BY Zenon, <2>1 DEF Ranked, Falls
  <2> QED
    BY <1>3, <1>4, <2>1, <2>2 DEF Leads
<1> QED
  BY <1>4 DEF Below

(* In a tree every walk is of that kind: by induction over the levels, from  *)
(* the highest to the lowest.                                                *)
LEMMA PathFacts ==
  ASSUME NEW root, NEW tabs, NEW rank, Ranked(root, tabs, rank), NEW v \in Virtual
  PROVE  Walked(root, tabs, rank, v)
<1> DEFINE n == LEVELS - 1
           S == [i \in 0 .. n |-> {NULL} \cup {t \in DOMAIN tabs : rank[t] = LEVELS - i}]
           step == [i \in 1 .. n |-> [x \in {NULL} \cup DOMAIN tabs |-> Below(tabs, v, LEVELS - i, x)]]
<1>1. LEVELS \in Nat \ {0} /\ n \in Nat
  BY PagingAssumption
<1>2. root \in S[0]
  BY <1>1 DEF Ranked, Topped
<1>3. \A i \in 1 .. n : \A x \in S[i - 1] : step[i][x] \in S[i]
  <2> SUFFICES ASSUME NEW i \in 1 .. n, NEW x \in S[i - 1] PROVE step[i][x] \in S[i]
    OBVIOUS
  <2> DEFINE level == LEVELS - i
  <2>1. level \in 1 .. LEVELS - 1 /\ i - 1 \in 0 .. n /\ i \in 0 .. n /\ LEVELS - (i - 1) = level + 1
    BY <1>1
  <2>2. x # NULL => x \in DOMAIN tabs /\ rank[x] = level + 1
    BY <2>1
  <2>3. step[i][x] = Below(tabs, v, level, x)
    BY <2>2
  <2> HIDE DEF level
  <2>4. Below(tabs, v, level, x) # NULL =>
           /\ Below(tabs, v, level, x) \in DOMAIN tabs
           /\ rank[Below(tabs, v, level, x)] = level
    BY <2>1, <2>2, BelowRank
  <2> QED
    BY <2>1, <2>3, <2>4 DEF level
<1>4. PICK f : IsRecursive(n, S, root, step, f)
  <2> HIDE DEF n, S, step
  <2>1. StaysIn(n, S, root, step)
    BY Zenon, <1>2, <1>3 DEF StaysIn
  <2> QED
    BY <1>1, <2>1, RecursiveFunction
<1> DEFINE g == [level \in 1 .. LEVELS |-> f[LEVELS - level]]
           P == PathIn(root, tabs, v)
<1>5. IsWalk(root, tabs, v, g)
  <2>1. g[LEVELS] = root
    BY <1>1, <1>4 DEF IsRecursive
  <2>2. ASSUME NEW level \in 1 .. LEVELS, level # LEVELS
        PROVE  g[level] = Below(tabs, v, level, g[level + 1])
    <3> DEFINE i == LEVELS - level
    <3>1. i \in 1 .. n /\ i \in 0 .. n /\ i - 1 \in 0 .. n /\ LEVELS - i = level
             /\ LEVELS - (level + 1) = i - 1 /\ level + 1 \in 1 .. LEVELS
      BY <1>1, <2>2
    <3>2. f[i] = step[i][f[i - 1]] /\ f[i - 1] \in S[i - 1]
      BY <1>4, <3>1 DEF IsRecursive
    <3>3. f[i - 1] \in {NULL} \cup DOMAIN tabs
      BY <3>1, <3>2
    <3>4. step[i][f[i - 1]] = Below(tabs, v, LEVELS - i, f[i - 1])
      BY <3>1, <3>3
    <3>5. g[level + 1] = f[i - 1] /\ g[level] = f[i]
      BY <3>1
    <3> QED
      BY <3>1, <3>2, <3>4, <3>5
  <2>3. \A level \in 1 .. LEVELS :
          g[level] = IF level = LEVELS THEN root ELSE Below(tabs, v, level, g[level + 1])
    BY <2>1, <2>2
  <2>4. g = [level \in 1 .. LEVELS |-> g[level]]
    OBVIOUS
  <2> HIDE DEF g
  <2> QED
    BY Zenon, <2>3, <2>4 DEF IsWalk
<1> HIDE DEF g, n, S, step
<1>6. P = [level \in 1 .. LEVELS |->
             IF level = LEVELS THEN root ELSE Below(tabs, v, level, P[level + 1])]
  <2>1. IsWalk(root, tabs, v, P)
    BY <1>5, PathUnfolds
  <2> QED
    BY Zenon, <2>1 DEF IsWalk
<1> HIDE DEF P
<1>7. P[LEVELS] = root
  BY <1>1, <1>6
<1>8. \A level \in 1 .. LEVELS - 1 : P[level] = Below(tabs, v, level, P[level + 1])
  <2> SUFFICES ASSUME NEW level \in 1 .. LEVELS - 1
               PROVE  P[level] = Below(tabs, v, level, P[level + 1])
    OBVIOUS
  <2>1. level \in 1 .. LEVELS /\ level # LEVELS
    BY <1>1
  <2> QED
    BY <1>6, <2>1
<1> DEFINE T == {level \in 1 .. LEVELS :
                   P[level] # NULL => P[level] \in DOMAIN tabs /\ rank[P[level]] = level}
<1>9. LEVELS \in T
  BY <1>1, <1>7 DEF Ranked, Topped
<1>10. ASSUME NEW level \in 1 .. LEVELS - 1, level + 1 \in T PROVE level \in T
  <2>1. P[level + 1] # NULL => P[level + 1] \in DOMAIN tabs /\ rank[P[level + 1]] = level + 1
    BY <1>10
  <2>2. Below(tabs, v, level, P[level + 1]) # NULL =>
           /\ Below(tabs, v, level, P[level + 1]) \in DOMAIN tabs
           /\ rank[Below(tabs, v, level, P[level + 1])] = level
    BY <2>1, BelowRank
  <2> QED
    BY <1>1, <1>8, <2>2
<1> HIDE DEF T
<1>11. \A level \in 1 .. LEVELS : level \in T
  BY <1>1, <1>9, <1>10, DownFrom
<1> QED
  BY <1>7, <1>8, <1>11 DEF Walked, P, T

-----------------------------------------------------------------------------
(* What the steps do to the tables.                                          *)

(* No entry above the lowest rank leads elsewhere, appears or goes away, and *)
(* none loses a flag.                                                        *)
Similar(tabs, tabs2, rank) ==
  /\ DOMAIN tabs2 = DOMAIN tabs
  /\ \A t \in DOMAIN tabs, i \in Slots : rank[t] > 1 =>
       /\ Present(tabs2, t, i) <=> Present(tabs, t, i)
       /\ tabs2[t][i].addr = tabs[t][i].addr
       /\ tabs[t][i].flags \subseteq tabs2[t][i].flags

(* Such a change leaves the tables a tree, with the same ranks.              *)
LEMMA SimilarRanked ==
  ASSUME NEW root, NEW tabs, NEW tabs2, NEW rank,
         Ranked(root, tabs, rank), Similar(tabs, tabs2, rank)
  PROVE  Ranked(root, tabs2, rank)
<1>1. DOMAIN tabs2 = DOMAIN tabs
  BY DEF Similar
<1>2. \A t \in DOMAIN tabs, i \in Slots :
        /\ Leads(tabs2, rank, t, i) <=> Leads(tabs, rank, t, i)
        /\ Leads(tabs, rank, t, i) => tabs2[t][i].addr = tabs[t][i].addr
  BY Zenon DEF Similar, Leads
<1>3. Topped(root, tabs2, rank)
  BY Zenon, <1>1 DEF Ranked, Topped
<1>4. Falls(tabs2, rank)
  BY Zenon, <1>1, <1>2 DEF Ranked, Falls
<1>5. Once(tabs2, rank)
  BY <1>1, <1>2 DEF Ranked, Once
<1>6. Hangs(root, tabs2, rank)
  BY <1>1, <1>2 DEF Ranked, Hangs
<1> QED
  BY Zenon, <1>3, <1>4, <1>5, <1>6 DEF Ranked

(* It leaves every walk as it was, level by level.                           *)
LEMMA SimilarPath ==
  ASSUME NEW root, NEW tabs, NEW tabs2, NEW rank,
         Ranked(root, tabs, rank), Similar(tabs, tabs2, rank), NEW v \in Virtual
  PROVE  \A level \in 1 .. LEVELS : PathIn(root, tabs2, v)[level] = PathIn(root, tabs, v)[level]
<1> DEFINE P == PathIn(root, tabs, v)
           P2 == PathIn(root, tabs2, v)
           T == {level \in 1 .. LEVELS : P2[level] = P[level]}
<1>1. LEVELS \in Nat \ {0}
  BY PagingAssumption
<1>2. Walked(root, tabs, rank, v) /\ Walked(root, tabs2, rank, v)
  BY PathFacts, SimilarRanked
<1>3. /\ P[LEVELS] = root /\ P2[LEVELS] = root
      /\ \A level \in 1 .. LEVELS - 1 :
           P[level] = Below(tabs, v, level, P[level + 1]) /\ P2[level] = Below(tabs2, v, level, P2[level + 1])
      /\ \A level \in 1 .. LEVELS : P[level] # NULL => P[level] \in DOMAIN tabs /\ rank[P[level]] = level
  BY Zenon, <1>2 DEF Walked
<1> HIDE DEF P, P2
<1>4. LEVELS \in T
  BY <1>1, <1>3
<1>5. ASSUME NEW level \in 1 .. LEVELS - 1, level + 1 \in T PROVE level \in T
  <2> DEFINE above == P[level + 1]
             i == Index(v, level + 1)
  <2>1. level + 1 \in 1 .. LEVELS /\ level \in 1 .. LEVELS /\ level + 1 > 1
    BY <1>1
  <2>2. P2[level + 1] = above
    BY <1>5
  <2>3. P[level] = Below(tabs, v, level, above) /\ P2[level] = Below(tabs2, v, level, above)
    BY <1>3, <2>2
  <2>4. i \in Slots
    BY <2>1, IndexRange DEF Slots
  <2>5. above # NULL => above \in DOMAIN tabs /\ rank[above] > 1
    BY <1>3, <2>1
  <2> HIDE DEF above
  <2>6. above # NULL => /\ Present(tabs2, above, i) <=> Present(tabs, above, i)
                        /\ tabs2[above][i].addr = tabs[above][i].addr
    BY Zenon, <2>4, <2>5 DEF Similar
  <2>7. Below(tabs, v, level, above) = Below(tabs2, v, level, above)
    BY Zenon, <2>6 DEF Below
  <2> QED
    BY <2>1, <2>3, <2>7
<1> HIDE DEF T
<1>6. \A level \in 1 .. LEVELS : level \in T
  BY <1>1, <1>4, <1>5, DownFrom
<1> QED
  BY <1>6 DEF T, P, P2

(* A new, empty table is linked to an entry that was empty.                  *)
Linked(tabs, tabs2, t, slot, new) ==
  /\ new \notin DOMAIN tabs /\ new # NULL
  /\ DOMAIN tabs2 = DOMAIN tabs \cup {new}
  /\ \A i \in Slots : ~ Present(tabs2, new, i)
  /\ t \in DOMAIN tabs /\ slot \in Slots
  /\ tabs[t][slot].flags = {}
  /\ Present(tabs2, t, slot) /\ tabs2[t][slot].addr = new
  /\ \A x \in DOMAIN tabs, i \in Slots : x # t \/ i # slot => tabs2[x][i] = tabs[x][i]

LinkedRank(tabs2, rank, t, new) ==
  [x \in DOMAIN tabs2 |-> IF x = new THEN rank[t] - 1 ELSE rank[x]]

(* With a new table linked one rank down, the tables are a tree again.       *)
LEMMA LinkedRanked ==
  ASSUME NEW root, NEW tabs, NEW tabs2, NEW rank, NEW t, NEW slot, NEW new,
         Ranked(root, tabs, rank), Linked(tabs, tabs2, t, slot, new), rank[t] > 1
  PROVE  Ranked(root, tabs2, LinkedRank(tabs2, rank, t, new))
<1> DEFINE r == LinkedRank(tabs2, rank, t, new)
<1>1. LEVELS \in Nat \ {0}
  BY PagingAssumption
<1>2. /\ rank \in [DOMAIN tabs -> 1 .. LEVELS] /\ t \in DOMAIN tabs /\ slot \in Slots
      /\ new \notin DOMAIN tabs /\ DOMAIN tabs2 = DOMAIN tabs \cup {new}
      /\ root \in DOMAIN tabs /\ NULL \notin DOMAIN tabs /\ new # NULL
      /\ \A x \in DOMAIN tabs : rank[x] = LEVELS <=> x = root
  BY Zenon DEF Ranked, Topped, Linked
<1>3. /\ r \in [DOMAIN tabs2 -> 1 .. LEVELS] /\ r[new] = rank[t] - 1 /\ r[new] # LEVELS
      /\ \A x \in DOMAIN tabs : r[x] = rank[x]
  BY <1>1, <1>2 DEF LinkedRank
<1> HIDE DEF r
<1>4. ~ Present(tabs, t, slot)
  BY DEF Linked, Present
<1>5. \A x \in DOMAIN tabs, i \in Slots : x # t \/ i # slot =>
        (Leads(tabs2, r, x, i) <=> Leads(tabs, rank, x, i)) /\ tabs2[x][i].addr = tabs[x][i].addr
  <2>1. \A x \in DOMAIN tabs, i \in Slots : x # t \/ i # slot => tabs2[x][i] = tabs[x][i]
    BY Zenon DEF Linked
  <2> QED
    BY <1>3, <2>1 DEF Leads, Present
<1>6. /\ \A i \in Slots : ~ Leads(tabs2, r, new, i)
      /\ Leads(tabs2, r, t, slot) /\ tabs2[t][slot].addr = new
  BY <1>2, <1>3 DEF Linked, Leads
<1>7. \A x \in DOMAIN tabs2, i \in Slots : Leads(tabs2, r, x, i) =>
        \/ x = t /\ i = slot
        \/ /\ x \in DOMAIN tabs /\ (x # t \/ i # slot) /\ Leads(tabs, rank, x, i)
           /\ tabs2[x][i].addr = tabs[x][i].addr
  BY <1>2, <1>5, <1>6
<1>8. \A x \in DOMAIN tabs, i \in Slots : Leads(tabs, rank, x, i) =>
        tabs[x][i].addr \in DOMAIN tabs /\ rank[tabs[x][i].addr] = rank[x] - 1
  BY Zenon DEF Ranked, Falls
<1>9. Topped(root, tabs2, r)
  BY <1>2, <1>3 DEF Topped
<1>10. Falls(tabs2, r)
  <2> SUFFICES ASSUME NEW x \in DOMAIN tabs2, NEW i \in Slots, Leads(tabs2, r, x, i)
               PROVE  tabs2[x][i].addr \in DOMAIN tabs2 /\ r[tabs2[x][i].addr] = r[x] - 1
    BY DEF Falls
  <2>1. CASE x = t /\ i = slot
    BY <1>2, <1>3, <1>6, <2>1
  <2>2. CASE ~(x = t /\ i = slot)
    <3>1. x \in DOMAIN tabs /\ Leads(tabs, rank, x, i) /\ tabs2[x][i].addr = tabs[x][i].addr
      BY <1>7, <2>2
    <3>2. tabs[x][i].addr \in DOMAIN tabs /\ rank[tabs[x][i].addr] = rank[x] - 1
      BY <1>8, <3>1
    <3> QED
      BY <1>2, <1>3, <3>1, <3>2
  <2> QED
    BY <2>1, <2>2
<1>11. Once(tabs2, r)
  <2> SUFFICES ASSUME NEW x \in DOMAIN tabs2, NEW y \in DOMAIN tabs2, NEW i \in Slots, NEW j \in Slots,
                      Leads(tabs2, r, x, i), Leads(tabs2, r, y, j),
                      tabs2[x][i].addr = tabs2[y][j].addr
               PROVE  x = y /\ i = j
    BY DEF Once
  <2>1. CASE x = t /\ i = slot
    <3>1. tabs2[y][j].addr = new
      BY <1>6, <2>1
    <3> QED
      BY <1>2, <1>7, <1>8, <2>1, <3>1
  <2>2. CASE y = t /\ j = slot
    <3>1. tabs2[x][i].addr = new
      BY <1>6, <2>2
    <3> QED
      BY <1>2, <1>7, <1>8, <2>2, <3>1
  <2>3. CASE ~(x = t /\ i = slot) /\ ~(y = t /\ j = slot)
    <3>1. /\ x \in DOMAIN tabs /\ Leads(tabs, rank, x, i) /\ tabs2[x][i].addr = tabs[x][i].addr
          /\ y \in DOMAIN tabs /\ Leads(tabs, rank, y, j) /\ tabs2[y][j].addr = tabs[y][j].addr
      BY <1>7, <2>3
    <3>2. tabs[x][i].addr = tabs[y][j].addr
      BY <3>1
    <3>3. Once(tabs, rank)
      BY DEF Ranked
    <3> QED
      BY Zenon, <3>1, <3>2, <3>3 DEF Once
  <2> QED
    BY <2>1, <2>2, <2>3
<1>12. Hangs(root, tabs2, r)
  <2> SUFFICES ASSUME NEW y \in DOMAIN tabs2 \ {root}
               PROVE  \E s \in DOMAIN tabs2, i \in Slots :
                        Leads(tabs2, r, s, i) /\ tabs2[s][i].addr = y
    BY DEF Hangs
  <2>1. CASE y = new
    BY <1>2, <1>6, <2>1
  <2>2. CASE y # new
    <3>1. y \in DOMAIN tabs \ {root}
      BY <1>2, <2>2
    <3>2. PICK s \in DOMAIN tabs, i \in Slots : Leads(tabs, rank, s, i) /\ tabs[s][i].addr = y
      BY Zenon, <3>1 DEF Ranked, Hangs
    <3>3. s # t \/ i # slot
      BY <1>4, <3>2 DEF Leads
    <3>4. Leads(tabs2, r, s, i) /\ tabs2[s][i].addr = y /\ s \in DOMAIN tabs2
      BY <1>2, <1>5, <3>2, <3>3
    <3> QED
      BY <3>4
  <2> QED
    BY <2>1, <2>2
<1>13. Ranked(root, tabs2, r)
  BY Zenon, <1>9, <1>10, <1>11, <1>12 DEF Ranked
<1> QED
  BY Zenon, <1>13 DEF r

(* A walk finds what it found before, but for the new table at the end of    *)
(* the walks that stopped where it is linked.                                *)
LEMMA LinkedPath ==
  ASSUME NEW root, NEW tabs, NEW tabs2, NEW rank, NEW t, NEW slot, NEW new,
         Ranked(root, tabs, rank), Linked(tabs, tabs2, t, slot, new), rank[t] > 1,
         NEW v \in Virtual
  PROVE  \A level \in 1 .. LEVELS :
           \/ PathIn(root, tabs2, v)[level] = PathIn(root, tabs, v)[level]
           \/ PathIn(root, tabs, v)[level] = NULL /\ PathIn(root, tabs2, v)[level] = new
<1> DEFINE P == PathIn(root, tabs, v)
           P2 == PathIn(root, tabs2, v)
           T == {level \in 1 .. LEVELS : P2[level] = P[level] \/ (P[level] = NULL /\ P2[level] = new)}
           r == LinkedRank(tabs2, rank, t, new)
<1>1. LEVELS \in Nat \ {0}
  BY PagingAssumption
<1>2. Walked(root, tabs, rank, v) /\ Walked(root, tabs2, r, v)
  BY PathFacts, LinkedRanked
<1>3. /\ P[LEVELS] = root /\ P2[LEVELS] = root
      /\ \A level \in 1 .. LEVELS - 1 :
           P[level] = Below(tabs, v, level, P[level + 1]) /\ P2[level] = Below(tabs2, v, level, P2[level + 1])
      /\ \A level \in 1 .. LEVELS : P[level] # NULL => P[level] \in DOMAIN tabs /\ rank[P[level]] = level
  BY Zenon, <1>2 DEF Walked
<1>4. /\ \A i \in Slots : ~ Present(tabs2, new, i)
      /\ ~ Present(tabs, t, slot) /\ tabs2[t][slot].addr = new
  BY DEF Linked, Present
<1>5. \A x \in DOMAIN tabs, i \in Slots : x # t \/ i # slot => tabs2[x][i] = tabs[x][i]
  BY Zenon DEF Linked
<1> HIDE DEF P, P2
<1>6. LEVELS \in T
  BY <1>1, <1>3
<1>7. ASSUME NEW level \in 1 .. LEVELS - 1, level + 1 \in T PROVE level \in T
  <2> DEFINE above == P[level + 1]
             i == Index(v, level + 1)
  <2>1. level + 1 \in 1 .. LEVELS /\ level \in 1 .. LEVELS
    BY <1>1
  <2>2. P[level] = Below(tabs, v, level, above) /\ P2[level] = Below(tabs2, v, level, P2[level + 1])
    BY <1>3
  <2>3. i \in Slots
    BY <2>1, IndexRange DEF Slots
  <2>4. above # NULL => above \in DOMAIN tabs
    BY <1>3, <2>1
  <2>5. P2[level + 1] = above \/ (above = NULL /\ P2[level + 1] = new)
    BY <1>7
  <2> HIDE DEF above, i
  <2>6. CASE P2[level + 1] = above
    <3>1. CASE above = t /\ i = slot
      <4>1. Below(tabs, v, level, above) = NULL
        BY <1>4, <3>1 DEF Below, i
      <4>2. Below(tabs2, v, level, above) \in {NULL, new}
        BY <1>4, <3>1 DEF Below, i
      <4> QED
        BY <2>1, <2>2, <2>6, <4>1, <4>2
    <3>2. CASE above # NULL /\ ~(above = t /\ i = slot)
      <4>1. tabs2[above][i] = tabs[above][i]
        BY <1>5, <2>3, <2>4, <3>2
      <4>2. Below(tabs2, v, level, above) = Below(tabs, v, level, above)
        BY Zenon, <4>1 DEF Below, Present, i
      <4> QED
        BY <2>1, <2>2, <2>6, <4>2
    <3>3. CASE above = NULL
      <4>1. Below(tabs2, v, level, above) = Below(tabs, v, level, above)
        BY Zenon, <3>3 DEF Below
      <4> QED
        BY <2>1, <2>2, <2>6, <4>1
    <3> QED
      BY <3>1, <3>2, <3>3
  <2>7. CASE above = NULL /\ P2[level + 1] = new
    <3>1. Below(tabs, v, level, above) = NULL
      BY <2>7 DEF Below
    <3>2. Below(tabs2, v, level, new) = NULL
      BY <1>4, <2>3 DEF Below, i
    <3> QED
      BY <2>1, <2>2, <2>7, <3>1, <3>2
  <2> QED
    BY <2>5, <2>6, <2>7
<1> HIDE DEF T
<1>8. \A level \in 1 .. LEVELS : level \in T
  BY <1>1, <1>6, <1>7, DownFrom
<1> QED
  BY <1>8 DEF T, P, P2

(* Two pages whose walks end in the same table have different entries in it. *)
LEMMA OwnEntry ==
  ASSUME NEW root, NEW tabs, NEW rank, Ranked(root, tabs, rank),
         NEW u \in Virtual, NEW v \in Virtual, u # v,
         PathIn(root, tabs, u)[1] # NULL,
         PathIn(root, tabs, u)[1] = PathIn(root, tabs, v)[1]
  PROVE  Index(u, 1) # Index(v, 1)
<1> DEFINE P == PathIn(root, tabs, u)
           Q == PathIn(root, tabs, v)
           Same(n) == /\ P[n] = Q[n] /\ P[n] # NULL
                      /\ \A level \in 2 .. n : Index(u, level) = Index(v, level)
           T == {n \in 0 .. LEVELS - 1 : Same(n + 1)}
<1>1. LEVELS \in Nat \ {0}
  BY PagingAssumption
<1>2. Walked(root, tabs, rank, u) /\ Walked(root, tabs, rank, v)
  BY PathFacts
<1>3. /\ \A level \in 1 .. LEVELS - 1 :
           P[level] = Below(tabs, u, level, P[level + 1]) /\ Q[level] = Below(tabs, v, level, Q[level + 1])
      /\ \A level \in 1 .. LEVELS :
           /\ P[level] # NULL => P[level] \in DOMAIN tabs /\ rank[P[level]] = level
           /\ Q[level] # NULL => Q[level] \in DOMAIN tabs /\ rank[Q[level]] = level
  BY Zenon, <1>2 DEF Walked
<1>4. P[1] = Q[1] /\ P[1] # NULL
  OBVIOUS
<1>5. Once(tabs, rank)
  BY DEF Ranked
<1> HIDE DEF P, Q
<1>6. Same(1)
  BY <1>4
<1>7. 0 \in T
  BY <1>1, <1>6
<1>8. ASSUME NEW n \in 0 .. (LEVELS - 1) - 1, n \in T PROVE n + 1 \in T
  <2> DEFINE level == n + 1
             i == Index(u, level + 1)
             j == Index(v, level + 1)
  <2>1. level \in 1 .. LEVELS - 1 /\ level + 1 \in 1 .. LEVELS /\ level + 1 > 1 /\ level + 1 = (n + 1) + 1
    BY <1>1
  <2>2. Same(level)
    BY <1>8
  <2> HIDE DEF level
  <2>3. P[level] = Below(tabs, u, level, P[level + 1]) /\ Q[level] = Below(tabs, v, level, Q[level + 1])
    BY <1>3, <2>1
  <2>4. i \in Slots /\ j \in Slots
    BY <2>1, IndexRange DEF Slots
  <2>5. /\ P[level + 1] # NULL /\ Present(tabs, P[level + 1], i) /\ P[level] = tabs[P[level + 1]][i].addr
        /\ Q[level + 1] # NULL /\ Present(tabs, Q[level + 1], j) /\ Q[level] = tabs[Q[level + 1]][j].addr
    BY <2>2, <2>3 DEF Below
  <2>6. /\ P[level + 1] \in DOMAIN tabs /\ rank[P[level + 1]] > 1
        /\ Q[level + 1] \in DOMAIN tabs /\ rank[Q[level + 1]] > 1
    BY <1>3, <2>1, <2>5
  <2>7. P[level + 1] = Q[level + 1] /\ i = j
    <3>1. Leads(tabs, rank, P[level + 1], i) /\ Leads(tabs, rank, Q[level + 1], j)
      BY <2>5, <2>6 DEF Leads
    <3>2. tabs[P[level + 1]][i].addr = tabs[Q[level + 1]][j].addr
      BY <2>2, <2>5
    <3> HIDE DEF i, j
    <3> QED
      BY Zenon, <1>5, <2>4, <2>6, <3>1, <3>2 DEF Once
  <2>8. Same(level + 1)
    <3>1. \A k \in 2 .. level + 1 : k \in 2 .. level \/ k = level + 1
      BY <2>1
    <3> QED
      BY <2>2, <2>5, <2>7, <3>1
  <2> HIDE DEF Same
  <2> QED
    BY <1>1, <2>1, <2>8 DEF level
<1>9. LEVELS - 1 \in Nat
  BY <1>1
<1> HIDE DEF T
<1>10. \A n \in 0 .. LEVELS - 1 : n \in T
  BY <1>7, <1>8, <1>9, UpTo
<1>11. LEVELS - 1 \in T
  BY <1>9, <1>10
<1>12. Same(LEVELS)
  BY <1>1, <1>11 DEF T
<1> SUFFICES ASSUME Index(u, 1) = Index(v, 1) PROVE FALSE
  OBVIOUS
<1>13. \A level \in 1 .. LEVELS : Index(u, level) = Index(v, level)
  <2>1. \A level \in 1 .. LEVELS : level = 1 \/ level \in 2 .. LEVELS
    BY <1>1
  <2> QED
    BY <1>12, <2>1
<1> QED
  BY <1>13, IndexesTell

-----------------------------------------------------------------------------
(* Translations in any tables, and what steps leave of them.                 *)

EntryIn(root, tabs, v) == tabs[PathIn(root, tabs, v)[1]][Index(v, 1)]

MappedIn(root, tabs, v) ==
  PathIn(root, tabs, v)[1] # NULL /\ PRESENT \in EntryIn(root, tabs, v).flags

TranslateIn(root, tabs, v) ==
  IF MappedIn(root, tabs, v) THEN EntryIn(root, tabs, v).addr ELSE NULL

(* They are those of VMM, before a step and after it.                        *)
LEMMA InTables ==
  /\ \A v : /\ Path(v) = PathIn(pml4, tables, v) /\ Leaf(v) = EntryIn(pml4, tables, v)
            /\ Mapped(v) = MappedIn(pml4, tables, v) /\ Translate(v) = TranslateIn(pml4, tables, v)
  /\ \A v : /\ Path(v)' = PathIn(pml4', tables', v) /\ Leaf(v)' = EntryIn(pml4', tables', v)
            /\ Mapped(v)' = MappedIn(pml4', tables', v)
            /\ Translate(v)' = TranslateIn(pml4', tables', v)
<1>1. \A v : Path(v) = PathIn(pml4, tables, v)
  BY Zenon DEF Path, PathIn
<1>2. \A v : Path(v)' = PathIn(pml4', tables', v)
  BY Zenon DEF Path, PathIn
<1>3. \A v : Leaf(v) = EntryIn(pml4, tables, v)
  BY Zenon, <1>1 DEF Leaf, EntryIn
<1>4. \A v : Leaf(v)' = EntryIn(pml4', tables', v)
  BY Zenon, <1>2 DEF Leaf, EntryIn
<1>5. \A v : Mapped(v) = MappedIn(pml4, tables, v)
  BY Zenon, <1>1, <1>3 DEF Mapped, MappedIn
<1>6. \A v : Mapped(v)' = MappedIn(pml4', tables', v)
  BY Zenon, <1>2, <1>4 DEF Mapped, MappedIn
<1>7. \A v : Translate(v) = TranslateIn(pml4, tables, v)
  BY Zenon, <1>3, <1>5 DEF Translate, TranslateIn
<1>8. \A v : Translate(v)' = TranslateIn(pml4', tables', v)
  BY Zenon, <1>4, <1>6 DEF Translate, TranslateIn
<1> QED
  BY Zenon, <1>1, <1>2, <1>3, <1>4, <1>5, <1>6, <1>7, <1>8

(* A walk that gets to a level has got to all levels above.                  *)
LEMMA PathAbove ==
  ASSUME NEW root, NEW tabs, NEW rank, Ranked(root, tabs, rank), NEW v \in Virtual,
         NEW low \in 1 .. LEVELS, PathIn(root, tabs, v)[low] # NULL
  PROVE  \A level \in 1 .. LEVELS : level >= low => PathIn(root, tabs, v)[level] # NULL
<1> DEFINE P == PathIn(root, tabs, v)
           T == {n \in 0 .. LEVELS - low : P[low + n] # NULL}
<1>1. LEVELS \in Nat \ {0} /\ LEVELS - low \in Nat
  BY PagingAssumption
<1>2. \A level \in 1 .. LEVELS - 1 : P[level] = Below(tabs, v, level, P[level + 1])
  <2>1. Walked(root, tabs, rank, v)
    BY PathFacts
  <2> QED
    BY Zenon, <2>1 DEF Walked
<1>3. 0 \in T
  BY <1>1
<1>4. ASSUME NEW n \in 0 .. (LEVELS - low) - 1, n \in T PROVE n + 1 \in T
  <2> DEFINE level == low + n
  <2>1. level \in 1 .. LEVELS - 1 /\ level + 1 = low + (n + 1) /\ n + 1 \in 0 .. LEVELS - low
    BY <1>1
  <2>2. P[level] # NULL
    BY <1>4
  <2> HIDE DEF level, P
  <2>3. P[level + 1] # NULL
    BY <1>2, <2>1, <2>2 DEF Below
  <2> QED
    BY <2>1, <2>3
<1> HIDE DEF T, P
<1>5. \A n \in 0 .. LEVELS - low : n \in T
  BY <1>1, <1>3, <1>4, UpTo
<1> SUFFICES ASSUME NEW level \in 1 .. LEVELS, level >= low PROVE P[level] # NULL
  BY DEF P
<1>6. level - low \in 0 .. LEVELS - low /\ low + (level - low) = level
  BY <1>1
<1> QED
  BY <1>5, <1>6 DEF T

(* Whatever a walk has found, it finds again, with no fewer flags above the  *)
(* page's own entry.                                                         *)
Extends(root, tabs, tabs2) ==
  \A v \in Virtual, level \in 1 .. LEVELS :
    LET t == PathIn(root, tabs, v)[level]
    IN  t # NULL =>
          /\ PathIn(root, tabs2, v)[level] = t
          /\ level > 1 => tabs[t][Index(v, level)].flags \subseteq tabs2[t][Index(v, level)].flags

(* A change of that kind takes away nothing that a walk has found.           *)
LEMMA SimilarExtends ==
  ASSUME NEW root, NEW tabs, NEW tabs2, NEW rank,
         Ranked(root, tabs, rank), Similar(tabs, tabs2, rank)
  PROVE  Extends(root, tabs, tabs2)
<1> SUFFICES ASSUME NEW v \in Virtual, NEW level \in 1 .. LEVELS,
                    NEW t, t = PathIn(root, tabs, v)[level], t # NULL
             PROVE  /\ PathIn(root, tabs2, v)[level] = t
                    /\ level > 1 => tabs[t][Index(v, level)].flags \subseteq tabs2[t][Index(v, level)].flags
  BY Zenon DEF Extends
<1>1. PathIn(root, tabs2, v)[level] = t
  BY SimilarPath
<1>2. t \in DOMAIN tabs /\ rank[t] = level
  <2>1. Walked(root, tabs, rank, v)
    BY PathFacts
  <2> QED
    BY Zenon, <2>1 DEF Walked
<1>3. Index(v, level) \in Slots
  BY IndexRange DEF Slots
<1>4. rank[t] > 1 => tabs[t][Index(v, level)].flags \subseteq tabs2[t][Index(v, level)].flags
  BY Zenon, <1>2, <1>3 DEF Similar
<1> QED
  BY <1>1, <1>2, <1>4

(* A new table takes away nothing that a walk has found.                     *)
LEMMA LinkedExtends ==
  ASSUME NEW root, NEW tabs, NEW tabs2, NEW rank, NEW t, NEW slot, NEW new,
         Ranked(root, tabs, rank), Linked(tabs, tabs2, t, slot, new), rank[t] > 1
  PROVE  Extends(root, tabs, tabs2)
<1> SUFFICES ASSUME NEW v \in Virtual, NEW level \in 1 .. LEVELS,
                    NEW x, x = PathIn(root, tabs, v)[level], x # NULL
             PROVE  /\ PathIn(root, tabs2, v)[level] = x
                    /\ level > 1 => tabs[x][Index(v, level)].flags \subseteq tabs2[x][Index(v, level)].flags
  BY Zenon DEF Extends
<1>1. PathIn(root, tabs2, v)[level] = x
  <2>1. \/ PathIn(root, tabs2, v)[level] = PathIn(root, tabs, v)[level]
        \/ PathIn(root, tabs, v)[level] = NULL /\ PathIn(root, tabs2, v)[level] = new
    BY LinkedPath
  <2> QED
    BY <2>1
<1>2. x \in DOMAIN tabs
  <2>1. Walked(root, tabs, rank, v)
    BY PathFacts
  <2> QED
    BY Zenon, <2>1 DEF Walked
<1>3. Index(v, level) \in Slots
  BY IndexRange DEF Slots
<1>4. CASE x = t /\ Index(v, level) = slot
  BY <1>1, <1>4 DEF Linked
<1>5. CASE ~(x = t /\ Index(v, level) = slot)
  <2>1. tabs2[x][Index(v, level)] = tabs[x][Index(v, level)]
    BY Zenon, <1>2, <1>3, <1>5 DEF Linked
  <2> QED
    BY <1>1, <2>1
<1> QED
  BY <1>4, <1>5

(* The page's entry is the same, or is mapped in neither.                    *)
SameLeaf(root, tabs, tabs2, v) ==
  /\ MappedIn(root, tabs2, v) <=> MappedIn(root, tabs, v)
  /\ MappedIn(root, tabs, v) => EntryIn(root, tabs2, v) = EntryIn(root, tabs, v)

(* What the processor makes of such a page has not changed.                  *)
LEMMA SameTranslation ==
  ASSUME NEW root, NEW tabs, NEW tabs2, NEW v, SameLeaf(root, tabs, tabs2, v)
  PROVE  TranslateIn(root, tabs2, v) = TranslateIn(root, tabs, v)
BY Zenon DEF SameLeaf, TranslateIn

(* A page whose own entry is left alone is mapped as before.                 *)
LEMMA SimilarLeaf ==
  ASSUME NEW root, NEW tabs, NEW tabs2, NEW rank,
         Ranked(root, tabs, rank), Similar(tabs, tabs2, rank), NEW v \in Virtual,
         LET t == PathIn(root, tabs, v)[1]
         IN  t # NULL => tabs2[t][Index(v, 1)] = tabs[t][Index(v, 1)]
  PROVE  SameLeaf(root, tabs, tabs2, v)
<1>1. 1 \in 1 .. LEVELS
  BY PagingAssumption
<1>2. PathIn(root, tabs2, v)[1] = PathIn(root, tabs, v)[1]
  BY <1>1, SimilarPath
<1> QED
  BY Zenon, <1>2 DEF SameLeaf, MappedIn, EntryIn

(* Linking an empty table maps no page and unmaps none.                      *)
LEMMA LinkedLeaf ==
  ASSUME NEW root, NEW tabs, NEW tabs2, NEW rank, NEW t, NEW slot, NEW new,
         Ranked(root, tabs, rank), Linked(tabs, tabs2, t, slot, new), rank[t] > 1,
         NEW v \in Virtual
  PROVE  SameLeaf(root, tabs, tabs2, v)
<1> DEFINE x == PathIn(root, tabs, v)[1]
           y == PathIn(root, tabs2, v)[1]
           i == Index(v, 1)
<1>1. 1 \in 1 .. LEVELS /\ i \in Slots
  <2>1. 1 \in 1 .. LEVELS
    BY PagingAssumption
  <2> QED
    BY <2>1, IndexRange DEF Slots
<1>2. y = x \/ (x = NULL /\ y = new)
  BY <1>1, LinkedPath
<1>3. x # NULL => x \in DOMAIN tabs /\ rank[x] = 1
  <2>1. Walked(root, tabs, rank, v)
    BY PathFacts
  <2> QED
    BY Zenon, <1>1, <2>1 DEF Walked
<1>4. x # NULL => x # t
  BY <1>3
<1>5. x # NULL => tabs2[x][i] = tabs[x][i]
  BY Zenon, <1>1, <1>3, <1>4 DEF Linked
<1>6. ~ Present(tabs2, new, i)
  BY Zenon, <1>1 DEF Linked
<1>7. MappedIn(root, tabs, v) <=> x # NULL /\ PRESENT \in tabs[x][i].flags
  BY Zenon DEF MappedIn, EntryIn
<1>8. MappedIn(root, tabs2, v) <=> y # NULL /\ PRESENT \in tabs2[y][i].flags
  BY Zenon DEF MappedIn, EntryIn
<1>9. EntryIn(root, tabs, v) = tabs[x][i] /\ EntryIn(root, tabs2, v) = tabs2[y][i]
  BY Zenon DEF EntryIn
<1> HIDE DEF x, y, i
<1> QED
  BY Zenon, <1>2, <1>5, <1>6, <1>7, <1>8, <1>9 DEF SameLeaf, Present

(* The flags of a page are on every entry above it: FlagsReach for a page.   *)
Reaches(root, tabs, v) ==
  MappedIn(root, tabs, v) =>
    \A level \in 2 .. LEVELS :
      EntryIn(root, tabs, v).flags \subseteq tabs[PathIn(root, tabs, v)[level]][Index(v, level)].flags

(* If the flags of a page were on every entry above it, and a step leaves    *)
(* its own entry alone, they still are.                                      *)
LEMMA ReachesStill ==
  ASSUME NEW root, NEW tabs, NEW tabs2, NEW rank, Ranked(root, tabs, rank),
         Extends(root, tabs, tabs2), NEW v \in Virtual, SameLeaf(root, tabs, tabs2, v),
         Reaches(root, tabs, v)
  PROVE  Reaches(root, tabs2, v)
<1> SUFFICES ASSUME MappedIn(root, tabs2, v), NEW level \in 2 .. LEVELS
             PROVE  EntryIn(root, tabs2, v).flags \subseteq
                      tabs2[PathIn(root, tabs2, v)[level]][Index(v, level)].flags
  BY DEF Reaches
<1>1. 1 \in 1 .. LEVELS /\ level \in 1 .. LEVELS /\ level >= 1 /\ level > 1
  BY PagingAssumption
<1>2. MappedIn(root, tabs, v) /\ EntryIn(root, tabs2, v) = EntryIn(root, tabs, v)
  BY Zenon DEF SameLeaf
<1>3. PathIn(root, tabs, v)[1] # NULL
  BY Zenon, <1>2 DEF MappedIn
<1>4. PathIn(root, tabs, v)[level] # NULL
  BY <1>1, <1>3, PathAbove
<1> DEFINE t == PathIn(root, tabs, v)[level]
<1>5. /\ PathIn(root, tabs2, v)[level] = t
      /\ tabs[t][Index(v, level)].flags \subseteq tabs2[t][Index(v, level)].flags
  BY Zenon, <1>1, <1>4 DEF Extends
<1>6. EntryIn(root, tabs, v).flags \subseteq tabs[t][Index(v, level)].flags
  BY Zenon, <1>2 DEF Reaches
<1> QED
  BY <1>2, <1>5, <1>6

-----------------------------------------------------------------------------
(* Calls in progress.                                                        *)

(* A call has got to the table of its level on its page's walk, and the      *)
(* entries above have the flags it asks for.                                 *)
Walks(root, tabs, f) ==
  /\ PRESENT \in f.flags
  /\ f.table # NULL /\ PathIn(root, tabs, f.virtual)[f.level] = f.table
  /\ \A level \in 2 .. LEVELS : level > f.level =>
       f.flags \subseteq tabs[PathIn(root, tabs, f.virtual)[level]][Index(f.virtual, level)].flags

(* A call in progress has still got to where it was after a step that        *)
(* extends the tables: the calls inside it do not lead it astray.            *)
LEMMA WalksStill ==
  ASSUME NEW root, NEW tabs, NEW tabs2, NEW rank, Ranked(root, tabs, rank),
         Extends(root, tabs, tabs2), NEW f \in Frame, Walks(root, tabs, f)
  PROVE  Walks(root, tabs2, f)
<1>1. f.virtual \in Virtual /\ f.level \in 1 .. LEVELS
  BY DEF Frame
<1>2. PRESENT \in f.flags /\ f.table # NULL /\ PathIn(root, tabs, f.virtual)[f.level] = f.table
  BY Zenon DEF Walks
<1>3. PathIn(root, tabs2, f.virtual)[f.level] = f.table
  BY Zenon, <1>1, <1>2 DEF Extends
<1>4. ASSUME NEW level \in 2 .. LEVELS, level > f.level
      PROVE  f.flags \subseteq tabs2[PathIn(root, tabs2, f.virtual)[level]][Index(f.virtual, level)].flags
  <2> DEFINE t == PathIn(root, tabs, f.virtual)[level]
  <2>1. level \in 1 .. LEVELS /\ level >= f.level /\ level > 1
    BY <1>1, <1>4, PagingAssumption
  <2>2. t # NULL
    BY <1>1, <1>2, <2>1, PathAbove
  <2>3. /\ PathIn(root, tabs2, f.virtual)[level] = t
        /\ tabs[t][Index(f.virtual, level)].flags \subseteq tabs2[t][Index(f.virtual, level)].flags
    BY Zenon, <1>1, <2>1, <2>2 DEF Extends
  <2>4. f.flags \subseteq tabs[t][Index(f.virtual, level)].flags
    BY Zenon, <1>4 DEF Walks
  <2> QED
    BY <2>3, <2>4
<1> QED
  BY Zenon, <1>2, <1>3, <1>4 DEF Walks

(* The innermost call goes one level down, to table t.                       *)
Moved(s, t) == [s EXCEPT ![Len(s)].level = @ - 1, ![Len(s)].table = t]

(* What the calls in progress then are.                                      *)
LEMMA MovedIs ==
  ASSUME NEW s \in Seq(Frame), s # << >>, NEW t \in Nat, s[Len(s)].level > 1
  PROVE  /\ Moved(s, t) \in Seq(Frame) /\ Len(Moved(s, t)) = Len(s)
         /\ \A i \in 1 .. Len(s) - 1 : Moved(s, t)[i] = s[i]
         /\ LET f == s[Len(s)] g == Moved(s, t)[Len(s)]
            IN  /\ g.virtual = f.virtual /\ g.physical = f.physical /\ g.flags = f.flags
                /\ g.level = f.level - 1 /\ g.table = t
<1> DEFINE n == Len(s)
           f == s[n]
           g == [[f EXCEPT !.level = @ - 1] EXCEPT !.table = t]
           m == Moved(s, t)
<1>1. n \in Nat \ {0} /\ n \in 1 .. Len(s) /\ f \in Frame
  OBVIOUS
<1>2. /\ g.virtual = f.virtual /\ g.physical = f.physical /\ g.flags = f.flags
      /\ g.level = f.level - 1 /\ g.table = t
  BY <1>1 DEF Frame
<1>3. g \in Frame
  <2>1. f.level - 1 \in 1 .. LEVELS
    BY <1>1, PagingAssumption DEF Frame
  <2>2. [f EXCEPT !.level = @ - 1] \in Frame
    BY <1>1, <2>1 DEF Frame
  <2> QED
    BY <2>2 DEF Frame
<1> HIDE DEF g
<1>4. m = [s EXCEPT ![n] = g]
  BY DEF Moved, g
<1> HIDE DEF m
<1>5. m \in Seq(Frame) /\ Len(m) = n /\ m[n] = g /\ \A i \in 1 .. n - 1 : m[i] = s[i]
  BY <1>1, <1>3, <1>4
<1> QED
  BY <1>2, <1>5 DEF m

-----------------------------------------------------------------------------
(* The kernel's map.                                                         *)

(* The first n of some sequences, one behind the other.                      *)
Joined(seqs) ==
  LET flatten[i \in 1 .. Len(seqs)] ==
        IF i = 1 THEN seqs[i] ELSE flatten[i - 1] \o seqs[i]
  IN  flatten

IsJoined(seqs, f) ==
  f = [i \in 1 .. Len(seqs) |-> IF i = 1 THEN seqs[i] ELSE f[i - 1] \o seqs[i]]

(* If there is a function that joins them step by step, Joined is one.       *)
LEMMA JoinedUnfolds ==
  ASSUME NEW seqs, NEW f, IsJoined(seqs, f)
  PROVE  IsJoined(seqs, Joined(seqs))
BY Zenon DEF IsJoined, Joined

(* The first is the first sequence, and each is the one before with the next *)
(* sequence behind it.                                                       *)
LEMMA JoinedFacts ==
  ASSUME NEW A, NEW seqs \in Seq(Seq(A)), seqs # << >>
  PROVE  /\ Joined(seqs)[1] = seqs[1]
         /\ \A i \in 1 .. Len(seqs) : Joined(seqs)[i] \in Seq(A)
         /\ \A i \in 2 .. Len(seqs) : Joined(seqs)[i] = Joined(seqs)[i - 1] \o seqs[i]
<1> DEFINE n == Len(seqs) - 1
           S == [i \in 0 .. n |-> Seq(A)]
           step == [i \in 1 .. n |-> [x \in Seq(A) |-> x \o seqs[i + 1]]]
           J == Joined(seqs)
<1>1. n \in Nat /\ Len(seqs) = n + 1 /\ \A i \in 1 .. n + 1 : seqs[i] \in Seq(A)
  OBVIOUS
<1>2. PICK f : IsRecursive(n, S, seqs[1], step, f)
  <2>1. seqs[1] \in S[0]
    BY <1>1
  <2>2. \A i \in 1 .. n : \A x \in S[i - 1] : step[i][x] \in S[i]
    <3> SUFFICES ASSUME NEW i \in 1 .. n, NEW x \in S[i - 1] PROVE step[i][x] \in S[i]
      OBVIOUS
    <3>1. x \in Seq(A) /\ S[i] = Seq(A) /\ seqs[i + 1] \in Seq(A)
      BY <1>1
    <3>2. step[i][x] = x \o seqs[i + 1]
      BY <3>1
    <3>3. x \o seqs[i + 1] \in Seq(A)
      BY <3>1
    <3> QED
      BY <3>1, <3>2, <3>3
  <2> HIDE DEF n, S, step
  <2>3. StaysIn(n, S, seqs[1], step)
    BY Zenon, <2>1, <2>2 DEF StaysIn
  <2> QED
    BY <1>1, <2>3, RecursiveFunction
<1> DEFINE g == [i \in 1 .. Len(seqs) |-> f[i - 1]]
<1>3. g[1] = seqs[1] /\ \A i \in 1 .. Len(seqs) : g[i] \in Seq(A)
  <2>1. f[0] = seqs[1] /\ \A i \in 0 .. n : f[i] \in S[i]
    BY <1>2 DEF IsRecursive
  <2> QED
    BY <1>1, <2>1
<1>4. \A i \in 2 .. Len(seqs) : g[i] = g[i - 1] \o seqs[i]
  <2> SUFFICES ASSUME NEW i \in 2 .. Len(seqs) PROVE g[i] = g[i - 1] \o seqs[i]
    OBVIOUS
  <2>1. i - 1 \in 1 .. n /\ i - 1 \in 1 .. Len(seqs) /\ (i - 1) + 1 = i /\ i \in 1 .. Len(seqs)
    BY <1>1
  <2>2. f[i - 1] = step[i - 1][f[(i - 1) - 1]]
    BY <1>2, <2>1 DEF IsRecursive
  <2>3. g[i - 1] = f[(i - 1) - 1] /\ g[i] = f[i - 1]
    BY <2>1
  <2>4. g[i - 1] \in Seq(A)
    BY <1>3, <2>1
  <2> HIDE DEF g
  <2>5. step[i - 1][g[i - 1]] = g[i - 1] \o seqs[(i - 1) + 1]
    BY <2>1, <2>4
  <2> HIDE DEF step
  <2> QED
    BY <2>1, <2>2, <2>3, <2>5
<1>5. IsJoined(seqs, g)
  <2>1. g = [i \in 1 .. Len(seqs) |-> g[i]]
    OBVIOUS
  <2> HIDE DEF g
  <2>2. \A i \in 1 .. Len(seqs) : g[i] = IF i = 1 THEN seqs[i] ELSE g[i - 1] \o seqs[i]
    <3>1. \A i \in 1 .. Len(seqs) : i = 1 \/ i \in 2 .. Len(seqs)
      BY <1>1
    <3>2. \A i \in 2 .. Len(seqs) : i # 1
      OBVIOUS
    <3> HIDE DEF n
    <3> QED
      BY Zenon, <1>3, <1>4, <3>1, <3>2
  <2> QED
    BY Zenon, <2>1, <2>2 DEF IsJoined
<1>6. J = [i \in 1 .. Len(seqs) |-> IF i = 1 THEN seqs[i] ELSE J[i - 1] \o seqs[i]]
  <2>1. IsJoined(seqs, J)
    BY <1>5, JoinedUnfolds
  <2> QED
    BY Zenon, <2>1 DEF IsJoined
<1> HIDE DEF J, n, S, step, g
<1>7. /\ J[1] = seqs[1]
      /\ \A i \in 2 .. Len(seqs) : J[i] = J[i - 1] \o seqs[i]
  <2>1. 1 \in 1 .. Len(seqs) /\ \A i \in 2 .. Len(seqs) : i \in 1 .. Len(seqs) /\ i # 1
    BY <1>1
  <2> QED
    BY Zenon, <1>6, <2>1
<1>8. ASSUME NEW i \in 0 .. n PROVE J[i + 1] \in Seq(A)
  <2> DEFINE U == {k \in 0 .. n : J[k + 1] \in Seq(A)}
  <2>1. 0 \in U
    BY <1>1, <1>7
  <2>2. ASSUME NEW k \in 0 .. n - 1, k \in U PROVE k + 1 \in U
    <3>1. (k + 1) + 1 \in 2 .. Len(seqs) /\ ((k + 1) + 1) - 1 = k + 1 /\ k + 1 \in 0 .. n
      BY <1>1
    <3>2. J[(k + 1) + 1] = J[k + 1] \o seqs[(k + 1) + 1]
      BY <1>7, <3>1
    <3>3. J[k + 1] \in Seq(A)
      BY <2>2
    <3>4. seqs[(k + 1) + 1] \in Seq(A)
      BY <1>1, <3>1
    <3>5. J[k + 1] \o seqs[(k + 1) + 1] \in Seq(A)
      BY <3>3, <3>4
    <3>6. J[(k + 1) + 1] \in Seq(A)
      BY Zenon, <3>2, <3>5
    <3> QED
      BY <3>1, <3>6
  <2> HIDE DEF U
  <2>3. \A k \in 0 .. n : k \in U
    BY <1>1, <2>1, <2>2, UpTo
  <2> QED
    BY <2>3 DEF U
<1>9. \A i \in 1 .. Len(seqs) : J[i] \in Seq(A)
  <2> SUFFICES ASSUME NEW i \in 1 .. Len(seqs) PROVE J[i] \in Seq(A)
    OBVIOUS
  <2>1. i - 1 \in 0 .. n /\ (i - 1) + 1 = i
    BY <1>1
  <2> QED
    BY <1>8, <2>1
<1> QED
  BY Zenon, <1>7, <1>9 DEF J

Values(s) == {s[i] : i \in 1 .. Len(s)}

(* One sequence behind another holds what both hold.                         *)
LEMMA ValuesJoin ==
  ASSUME NEW A, NEW s \in Seq(A), NEW t \in Seq(A)
  PROVE  Values(s \o t) = Values(s) \cup Values(t)
<1>1. /\ s \o t \in Seq(A) /\ Len(s \o t) = Len(s) + Len(t) /\ Len(s) \in Nat /\ Len(t) \in Nat
      /\ \A i \in 1 .. Len(s) + Len(t) : (s \o t)[i] = IF i <= Len(s) THEN s[i] ELSE t[i - Len(s)]
  OBVIOUS
<1>2. ASSUME NEW i \in 1 .. Len(s \o t) PROVE (s \o t)[i] \in Values(s) \cup Values(t)
  <2>1. CASE i <= Len(s)
    <3>1. i \in 1 .. Len(s) /\ (s \o t)[i] = s[i]
      BY <1>1, <2>1
    <3> QED
      BY <3>1 DEF Values
  <2>2. CASE ~(i <= Len(s))
    <3>1. i - Len(s) \in 1 .. Len(t) /\ (s \o t)[i] = t[i - Len(s)]
      BY <1>1, <2>2
    <3> QED
      BY <3>1 DEF Values
  <2> QED
    BY <2>1, <2>2
<1>3. ASSUME NEW i \in 1 .. Len(s) PROVE s[i] \in Values(s \o t)
  <2>1. i \in 1 .. Len(s \o t) /\ (s \o t)[i] = s[i]
    BY <1>1
  <2> QED
    BY <2>1 DEF Values
<1>4. ASSUME NEW i \in 1 .. Len(t) PROVE t[i] \in Values(s \o t)
  <2>1. Len(s) + i \in 1 .. Len(s \o t) /\ (s \o t)[Len(s) + i] = t[i]
    BY <1>1
  <2> QED
    BY <2>1 DEF Values
<1>5. Values(s \o t) \subseteq Values(s) \cup Values(t)
  <2> SUFFICES ASSUME NEW x \in Values(s \o t) PROVE x \in Values(s) \cup Values(t)
    OBVIOUS
  <2>1. PICK i \in 1 .. Len(s \o t) : x = (s \o t)[i]
    BY DEF Values
  <2> QED
    BY <1>2, <2>1
<1>6. Values(s) \cup Values(t) \subseteq Values(s \o t)
  <2> SUFFICES ASSUME NEW x, x \in Values(s) \/ x \in Values(t) PROVE x \in Values(s \o t)
    OBVIOUS
  <2>1. (\E i \in 1 .. Len(s) : x = s[i]) \/ (\E i \in 1 .. Len(t) : x = t[i])
    BY DEF Values
  <2> QED
    BY <1>3, <1>4, <2>1
<1> QED
  BY <1>5, <1>6

(* FlattenSeq has the members of the sequences that it joins.                *)
LEMMA FlattenFacts ==
  ASSUME NEW A, NEW seqs \in Seq(Seq(A))
  PROVE  /\ FlattenSeq(seqs) \in Seq(A)
         /\ Values(FlattenSeq(seqs)) = UNION {Values(seqs[i]) : i \in 1 .. Len(seqs)}
<1>1. CASE seqs = << >>
  <2>1. FlattenSeq(seqs) = << >> /\ Len(seqs) = 0
    BY <1>1 DEF FlattenSeq
  <2>2. \A i : i \notin 1 .. 0
    OBVIOUS
  <2>3. Values(FlattenSeq(seqs)) = {}
    BY <2>1, <2>2 DEF Values
  <2>4. FlattenSeq(seqs) \in Seq(A)
    BY <2>1
  <2> QED
    BY <2>1, <2>2, <2>3, <2>4
<1>2. CASE seqs # << >>
  <2> DEFINE J == Joined(seqs)
             n == Len(seqs)
             All(k) == UNION {Values(seqs[i]) : i \in 1 .. k}
             T == {k \in 0 .. n - 1 : Values(J[k + 1]) = All(k + 1)}
  <2>1. n \in Nat \ {0} /\ \A i \in 1 .. n : seqs[i] \in Seq(A)
    BY <1>2
  <2>2. FlattenSeq(seqs) = J[n]
    BY <2>1 DEF FlattenSeq, Joined
  <2>3. /\ J[1] = seqs[1] /\ \A i \in 1 .. n : J[i] \in Seq(A)
        /\ \A i \in 2 .. n : J[i] = J[i - 1] \o seqs[i]
    BY <1>2, JoinedFacts
  <2> HIDE DEF J, n
  <2>4. 0 \in T
    BY <2>1, <2>3
  <2>5. ASSUME NEW k \in 0 .. (n - 1) - 1, k \in T PROVE k + 1 \in T
    <3>1. /\ (k + 1) + 1 \in 2 .. n /\ ((k + 1) + 1) - 1 = k + 1 /\ k + 1 \in 0 .. n - 1
          /\ k + 1 \in 1 .. n /\ (k + 1) + 1 \in 1 .. n
      BY <2>1
    <3>2. J[(k + 1) + 1] = J[k + 1] \o seqs[(k + 1) + 1]
      BY <2>3, <3>1
    <3>3. J[k + 1] \in Seq(A) /\ seqs[(k + 1) + 1] \in Seq(A)
      BY <2>1, <2>3, <3>1
    <3>4. Values(J[(k + 1) + 1]) = Values(J[k + 1]) \cup Values(seqs[(k + 1) + 1])
      BY <3>2, <3>3, ValuesJoin
    <3>5. All((k + 1) + 1) = All(k + 1) \cup Values(seqs[(k + 1) + 1])
      <4>1. \A i : i \in 1 .. (k + 1) + 1 <=> i \in 1 .. k + 1 \/ i = (k + 1) + 1
        BY <3>1
      <4> DEFINE m == (k + 1) + 1
                 M == 1 .. m
                 K == 1 .. k + 1
      <4>2. \A i : i \in M <=> i \in K \/ i = m
        BY <4>1
      <4> HIDE DEF M, K, m
      <4>3. \A x : (\E i \in M : x \in Values(seqs[i])) <=>
                    (\E i \in K : x \in Values(seqs[i])) \/ x \in Values(seqs[m])
        BY Zenon, <4>2
      <4>4. UNION {Values(seqs[i]) : i \in M} = (UNION {Values(seqs[i]) : i \in K}) \cup Values(seqs[m])
        <5>1. ASSUME NEW I
              PROVE  \A x : x \in UNION {Values(seqs[i]) : i \in I} <=> \E i \in I : x \in Values(seqs[i])
          OBVIOUS
        <5> DEFINE U(I) == UNION {Values(seqs[i]) : i \in I}
        <5>2. /\ \A x : x \in U(M) <=> \E i \in M : x \in Values(seqs[i])
              /\ \A x : x \in U(K) <=> \E i \in K : x \in Values(seqs[i])
          BY <5>1
        <5> HIDE DEF U
        <5>3. U(M) = U(K) \cup Values(seqs[m])
          BY Zenon, <4>3, <5>2
        <5> QED
          BY Zenon, <5>3 DEF U
      <4> QED
        BY <4>4 DEF M, K, m
    <3>6. Values(J[k + 1]) = All(k + 1)
      BY <2>5
    <3> HIDE DEF All
    <3> QED
      BY <3>1, <3>4, <3>5, <3>6
  <2>6. n - 1 \in Nat
    BY <2>1
  <2> HIDE DEF T
  <2>7. \A k \in 0 .. n - 1 : k \in T
    BY <2>4, <2>5, <2>6, UpTo
  <2>8. n - 1 \in T /\ (n - 1) + 1 = n
    BY <2>1, <2>6, <2>7
  <2>9. Values(J[n]) = All(n)
    BY <2>8 DEF T
  <2>10. J[n] \in Seq(A)
    BY <2>1, <2>3
  <2> QED
    BY Zenon, <2>2, <2>9, <2>10 DEF n
<1> QED
  BY <1>1, <1>2

(* The pages of an entry, of all entries, and the calls that map them.       *)
EntryPages(e) ==
  IF e.type = ACPI_RECLAIMABLE THEN << >> ELSE [i \in 1 .. e.length |-> e.base + i - 1]

ListedPages == FlattenSeq([i \in 1 .. Len(Entries) |-> EntryPages(Entries[i])])

BothHalves(p) == <<<<p, p>>, <<p + OFFSET, p>>>>

ListedCalls == FlattenSeq([i \in 1 .. Len(ListedPages) |-> BothHalves(ListedPages[i])])

(* They make up KernelMap of VMM.                                            *)
LEMMA KernelMapIs ==
  KernelMap = ListedCalls \o <<<<SCREEN, SCREEN>>>>
BY Zenon DEF KernelMap, ListedCalls, ListedPages, EntryPages, BothHalves

(* The pages of an entry are those between its ends, but for ACPI tables.    *)
LEMMA EntryPagesFacts ==
  ASSUME NEW e \in [base : Nat, length : Nat, type : Nat]
  PROVE  /\ EntryPages(e) \in Seq(Nat)
         /\ Values(EntryPages(e)) =
              IF e.type = ACPI_RECLAIMABLE THEN {} ELSE e.base .. e.base + e.length - 1
<1>1. e.base \in Nat /\ e.length \in Nat
  OBVIOUS
<1>2. CASE e.type = ACPI_RECLAIMABLE
  <2>1. EntryPages(e) = << >>
    BY <1>2 DEF EntryPages
  <2>2. Values(<< >>) = {}
    BY DEF Values
  <2> QED
    BY <1>2, <2>1, <2>2
<1>3. CASE e.type # ACPI_RECLAIMABLE
  <2> DEFINE s == [i \in 1 .. e.length |-> e.base + i - 1]
  <2>1. s \in Seq(Nat) /\ Len(s) = e.length /\ \A i \in 1 .. e.length : s[i] = e.base + i - 1
    <3>1. \A i \in 1 .. e.length : e.base + i - 1 \in Nat
      BY <1>1
    <3> QED
      BY <1>1, <3>1
  <2>2. EntryPages(e) = s
    BY <1>3 DEF EntryPages
  <2> HIDE DEF s
  <2>3. Values(s) = e.base .. e.base + e.length - 1
    <3>1. ASSUME NEW x \in Values(s) PROVE x \in e.base .. e.base + e.length - 1
      BY <1>1, <2>1 DEF Values
    <3>2. ASSUME NEW x \in e.base .. e.base + e.length - 1 PROVE x \in Values(s)
      <4> DEFINE i == x - e.base + 1
      <4>1. i \in 1 .. e.length /\ e.base + i - 1 = x
        BY <1>1
      <4> HIDE DEF i
      <4>2. s[i] = x
        BY <2>1, <4>1
      <4> QED
        BY <2>1, <4>1, <4>2 DEF Values
    <3> QED
      BY <3>1, <3>2
  <2> QED
    BY <1>3, <2>1, <2>2, <2>3
<1> QED
  BY <1>2, <1>3

(* The pages of all entries are those that the memory map lists.             *)
LEMMA ListedPagesFacts ==
  ListedPages \in Seq(Nat) /\ Values(ListedPages) = Listed
<1> DEFINE seqs == [i \in 1 .. Len(Entries) |-> EntryPages(Entries[i])]
<1>1. /\ Len(Entries) \in Nat
      /\ \A i \in 1 .. Len(Entries) : Entries[i] \in [base : Nat, length : Nat, type : Nat]
  <2> DEFINE E == [base : Nat, length : Nat, type : Nat]
  <2>1. Entries \in Seq(E)
    BY PagingAssumption
  <2> HIDE DEF E
  <2>2. Len(Entries) \in Nat /\ \A i \in 1 .. Len(Entries) : Entries[i] \in E
    BY <2>1
  <2> QED
    BY <2>2 DEF E
<1>2. \A i \in 1 .. Len(Entries) : EntryPages(Entries[i]) \in Seq(Nat)
  BY <1>1, EntryPagesFacts
<1>3. /\ seqs \in Seq(Seq(Nat)) /\ Len(seqs) = Len(Entries)
      /\ \A i \in 1 .. Len(Entries) : seqs[i] = EntryPages(Entries[i])
  BY <1>1, <1>2
<1>4. ListedPages = FlattenSeq(seqs)
  BY Zenon DEF ListedPages
<1> HIDE DEF seqs
<1>5. /\ ListedPages \in Seq(Nat)
      /\ Values(ListedPages) = UNION {Values(seqs[i]) : i \in 1 .. Len(seqs)}
  BY <1>3, <1>4, FlattenFacts
<1>6. ASSUME NEW x
      PROVE  x \in Listed <=> \E i \in 1 .. Len(Entries) : x \in Values(EntryPages(Entries[i]))
  <2>1. x \in Listed <=>
          \E i \in 1 .. Len(Entries) : /\ Entries[i].type # ACPI_RECLAIMABLE
                                       /\ x \in Entries[i].base .. Entries[i].base + Entries[i].length - 1
    BY Zenon DEF Listed
  <2>2. \A i \in 1 .. Len(Entries) :
          Values(EntryPages(Entries[i])) =
            IF Entries[i].type = ACPI_RECLAIMABLE THEN {}
            ELSE Entries[i].base .. Entries[i].base + Entries[i].length - 1
    BY <1>1, EntryPagesFacts
  <2> QED
    BY Zenon, <2>1, <2>2
<1>7. \A x : x \in Values(ListedPages) <=> \E i \in 1 .. Len(Entries) : x \in Values(EntryPages(Entries[i]))
  BY <1>3, <1>5
<1>8. \A x : x \in Values(ListedPages) <=> x \in Listed
  BY <1>6, <1>7
<1> QED
  BY <1>5, <1>8

(* The calls for them map each page twice: at its address and in the upper   *)
(* half.                                                                     *)
LEMMA ListedCallsFacts ==
  /\ ListedCalls \in Seq(Nat \X Nat)
  /\ \A c : c \in Values(ListedCalls) <=> \E p \in Listed : c = <<p, p>> \/ c = <<p + OFFSET, p>>
<1> DEFINE all == ListedPages
           seqs == [i \in 1 .. Len(all) |-> BothHalves(all[i])]
<1>1. OFFSET \in Nat
  BY PagingAssumption, SpanFacts DEF Virtual
<1>2. all \in Seq(Nat) /\ Values(all) = Listed
  BY ListedPagesFacts
<1> HIDE DEF all
<1>3. \A p \in Nat : /\ BothHalves(p) \in Seq(Nat \X Nat)
                     /\ Values(BothHalves(p)) = {<<p, p>>, <<p + OFFSET, p>>}
  <2> SUFFICES ASSUME NEW p \in Nat
               PROVE  /\ BothHalves(p) \in Seq(Nat \X Nat)
                      /\ Values(BothHalves(p)) = {<<p, p>>, <<p + OFFSET, p>>}
    OBVIOUS
  <2> DEFINE a == <<p, p>>
             b == <<p + OFFSET, p>>
  <2>1. a \in Nat \X Nat /\ b \in Nat \X Nat
    BY <1>1
  <2>2. BothHalves(p) = <<a, b>>
    BY Zenon DEF BothHalves
  <2> HIDE DEF a, b
  <2>3. /\ <<a, b>> \in Seq(Nat \X Nat) /\ Len(<<a, b>>) = 2
        /\ <<a, b>>[1] = a /\ <<a, b>>[2] = b
    BY <2>1
  <2>4. \A i : i \in 1 .. 2 <=> i = 1 \/ i = 2
    OBVIOUS
  <2>5. Values(<<a, b>>) = {a, b}
    BY <2>3, <2>4 DEF Values
  <2> QED
    BY <2>2, <2>3, <2>5 DEF a, b
<1>4. \A i \in 1 .. Len(all) : all[i] \in Nat /\ BothHalves(all[i]) \in Seq(Nat \X Nat)
  BY <1>2, <1>3
<1>5. /\ seqs \in Seq(Seq(Nat \X Nat)) /\ Len(seqs) = Len(all)
      /\ \A i \in 1 .. Len(all) : seqs[i] = BothHalves(all[i])
  BY <1>2, <1>4
<1>6. ListedCalls = FlattenSeq(seqs)
  BY Zenon DEF ListedCalls, all
<1> HIDE DEF seqs
<1>7. /\ ListedCalls \in Seq(Nat \X Nat)
      /\ Values(ListedCalls) = UNION {Values(seqs[i]) : i \in 1 .. Len(seqs)}
  BY <1>5, <1>6, FlattenFacts
<1>8. \A c : c \in Values(ListedCalls) <=> \E i \in 1 .. Len(all) : c \in Values(BothHalves(all[i]))
  BY <1>5, <1>7
<1>9. \A c : \A i \in 1 .. Len(all) :
        c \in Values(BothHalves(all[i])) <=> c = <<all[i], all[i]>> \/ c = <<all[i] + OFFSET, all[i]>>
  BY <1>3, <1>4
<1>10. \A p : p \in Listed <=> \E i \in 1 .. Len(all) : p = all[i]
  BY <1>2 DEF Values
<1>11. \A c : c \in Values(ListedCalls) <=> \E p \in Listed : c = <<p, p>> \/ c = <<p + OFFSET, p>>
  BY Zenon, <1>8, <1>9, <1>10
<1> QED
  BY <1>7, <1>11

(* Where the kernel's map puts a page.                                       *)
Home(v) == IF v < OFFSET THEN v ELSE v - OFFSET

(* The pages that it maps.                                                   *)
Needed == {SCREEN} \cup Listed \cup {p + OFFSET : p \in Listed}

(* Every call of the kernel's map puts a page where it belongs, and every    *)
(* page that the memory map lists, and the screen, has a call.               *)
LEMMA KernelMapFacts ==
  /\ Len(KernelMap) \in Nat
  /\ \A k \in 1 .. Len(KernelMap) :
       KernelMap[k][1] \in Virtual /\ KernelMap[k][2] \in Nat /\ KernelMap[k][2] = Home(KernelMap[k][1])
  /\ \A v \in Needed : \E k \in 1 .. Len(KernelMap) : KernelMap[k][1] = v
<1> DEFINE c == <<SCREEN, SCREEN>>
           s == ListedCalls
<1>1. OFFSET \in Virtual /\ SCREEN \in Virtual /\ Virtual \subseteq Nat
  BY PagingAssumption, SpanFacts DEF Virtual
<1>2. c \in Nat \X Nat /\ c[1] = SCREEN /\ c[2] = SCREEN
  BY <1>1
<1>3. /\ s \in Seq(Nat \X Nat)
      /\ \A d : d \in Values(s) <=> \E p \in Listed : d = <<p, p>> \/ d = <<p + OFFSET, p>>
  BY ListedCallsFacts
<1>4. KernelMap = s \o <<c>>
  BY KernelMapIs
<1>5. Listed \subseteq Nat
  <2>1. ListedPages \in Seq(Nat) /\ Values(ListedPages) = Listed
    BY ListedPagesFacts
  <2> QED
    BY <2>1 DEF Values
<1>6. \A p \in Listed : p < OFFSET /\ p + OFFSET \in Virtual /\ p \in Virtual
  <2>1. \A p \in Nat : p < OFFSET => p \in Virtual
    <3>1. Span[LEVELS] \in Nat /\ OFFSET \in 0 .. Span[LEVELS] - 1
      BY <1>1, SpanFacts, PagingAssumption DEF Virtual
    <3> QED
      BY <3>1 DEF Virtual
  <2> QED
    BY <1>5, <2>1, KernelMapAssumption
<1>7. SCREEN < OFFSET
  BY KernelMapAssumption
<1>8. \A d \in Values(s) : d[1] \in Virtual /\ d[2] \in Nat /\ d[2] = Home(d[1])
  <2> SUFFICES ASSUME NEW p \in Listed, NEW d, d = <<p, p>> \/ d = <<p + OFFSET, p>>
               PROVE  d[1] \in Virtual /\ d[2] \in Nat /\ d[2] = Home(d[1])
    BY <1>3
  <2>1. p \in Nat /\ p < OFFSET /\ p + OFFSET \in Virtual /\ p \in Virtual /\ ~(p + OFFSET < OFFSET)
          /\ (p + OFFSET) - OFFSET = p
    BY <1>1, <1>5, <1>6
  <2>2. CASE d = <<p, p>>
    <3>1. d[1] = p /\ d[2] = p
      BY <2>2
    <3> QED
      BY <2>1, <3>1 DEF Home
  <2>3. CASE d = <<p + OFFSET, p>>
    <3>1. d[1] = p + OFFSET /\ d[2] = p
      BY <2>3
    <3> QED
      BY <2>1, <3>1 DEF Home
  <2> QED
    BY <2>2, <2>3
<1>9. c[1] \in Virtual /\ c[2] \in Nat /\ c[2] = Home(c[1])
  BY <1>1, <1>2, <1>7 DEF Home
<1> HIDE DEF c, s
<1>10. /\ Len(KernelMap) = Len(s) + 1 /\ Len(s) \in Nat /\ KernelMap[Len(s) + 1] = c
       /\ \A k \in 1 .. Len(s) : KernelMap[k] = s[k]
  <2>1. <<c>> \in Seq(Nat \X Nat) /\ Len(<<c>>) = 1 /\ <<c>>[1] = c
    BY <1>2
  <2> QED
    BY <1>3, <1>4, <2>1
<1>11. ASSUME NEW k \in 1 .. Len(KernelMap)
       PROVE  KernelMap[k][1] \in Virtual /\ KernelMap[k][2] \in Nat /\ KernelMap[k][2] = Home(KernelMap[k][1])
  <2>1. CASE k = Len(s) + 1
    BY <1>9, <1>10, <2>1
  <2>2. CASE k # Len(s) + 1
    <3>1. k \in 1 .. Len(s) /\ KernelMap[k] = s[k]
      BY <1>10, <2>2
    <3>2. s[k] \in Values(s)
      BY <3>1 DEF Values
    <3> QED
      BY <1>8, <3>1, <3>2
  <2> QED
    BY <2>1, <2>2
<1>12. ASSUME NEW v \in Needed PROVE \E k \in 1 .. Len(KernelMap) : KernelMap[k][1] = v
  <2>1. CASE v = SCREEN
    BY <1>2, <1>10, <2>1
  <2>2. CASE v # SCREEN
    <3>1. PICK p \in Listed : v = p \/ v = p + OFFSET
      BY <2>2 DEF Needed
    <3>2. PICK d \in Values(s) : d[1] = v
      <4>1. <<p, p>> \in Values(s) /\ <<p + OFFSET, p>> \in Values(s)
        BY <1>3
      <4>2. <<p, p>>[1] = p /\ <<p + OFFSET, p>>[1] = p + OFFSET
        OBVIOUS
      <4> QED
        BY Zenon, <3>1, <4>1, <4>2
    <3>3. PICK k \in 1 .. Len(s) : d = s[k]
      BY DEF Values
    <3> QED
      BY <1>10, <3>2, <3>3
  <2> QED
    BY <2>1, <2>2
<1> QED
  BY <1>10, <1>11, <1>12

-----------------------------------------------------------------------------
(* The effect of each step on well-formed tables.                            *)

TypedTables(tabs) == \A t \in DOMAIN tabs : tabs[t] \in [Slots -> Descriptor]

(* An entry that is not present has neither flags nor an address.            *)
Blank(pde) == pde.flags = {} /\ pde.addr = 0

Marked(tabs) == \A t \in DOMAIN tabs, i \in Slots : Present(tabs, t, i) \/ Blank(tabs[t][i])

WellFormed(root, tabs) ==
  TypedTables(tabs) /\ Marked(tabs) /\ \E rank : Ranked(root, tabs, rank)

(* The tables stay well formed, walks find what they found, and the entries  *)
(* of all pages but those of c are what they were.                           *)
Changes(root, tabs, tabs2, c) ==
  /\ WellFormed(root, tabs) /\ WellFormed(root, tabs2)
  /\ DOMAIN tabs \subseteq DOMAIN tabs2
  /\ Extends(root, tabs, tabs2)
  /\ \A v \in Virtual \ c : SameLeaf(root, tabs, tabs2, v)

FlagsAdded(tabs, t, i, flags) == [tabs EXCEPT ![t][i].flags = @ \cup flags]
EntrySet(tabs, t, i, pde) == [tabs EXCEPT ![t][i] = pde]

(* One entry differs, and no table changes its type.                         *)
LEMMA EntrySetIs ==
  ASSUME NEW tabs, TypedTables(tabs),
         NEW t \in DOMAIN tabs, NEW i \in Slots, NEW pde \in Descriptor
  PROVE  /\ DOMAIN EntrySet(tabs, t, i, pde) = DOMAIN tabs
         /\ TypedTables(EntrySet(tabs, t, i, pde))
         /\ EntrySet(tabs, t, i, pde)[t][i] = pde
         /\ \A x \in DOMAIN tabs, j \in Slots : x # t \/ j # i =>
              EntrySet(tabs, t, i, pde)[x][j] = tabs[x][j]
<1> DEFINE row == [tabs[t] EXCEPT ![i] = pde]
           new == EntrySet(tabs, t, i, pde)
<1>1. tabs[t] \in [Slots -> Descriptor]
  BY DEF TypedTables
<1>2. row \in [Slots -> Descriptor] /\ row[i] = pde /\ \A j \in Slots : j # i => row[j] = tabs[t][j]
  BY <1>1
<1>3. new = [tabs EXCEPT ![t] = row]
  BY DEF EntrySet
<1> HIDE DEF row, new
<1>4. DOMAIN new = DOMAIN tabs /\ new[t] = row /\ \A x \in DOMAIN tabs : x # t => new[x] = tabs[x]
  BY <1>3
<1>5. TypedTables(new)
  BY <1>2, <1>4 DEF TypedTables
<1>6. \A x \in DOMAIN tabs, j \in Slots : x # t \/ j # i => new[x][j] = tabs[x][j]
  BY <1>2, <1>4
<1> QED
  BY <1>2, <1>4, <1>5, <1>6 DEF new

(* To add flags to an entry is to set it to one with the same address.       *)
LEMMA FlagsAddedIs ==
  ASSUME NEW tabs, TypedTables(tabs), NEW t \in DOMAIN tabs, NEW i \in Slots,
         NEW flags \in SUBSET USER_PAGE
  PROVE  \E pde \in Descriptor : /\ pde.addr = tabs[t][i].addr /\ pde.flags = tabs[t][i].flags \cup flags
                                 /\ FlagsAdded(tabs, t, i, flags) = EntrySet(tabs, t, i, pde)
<1> DEFINE pde == [tabs[t][i] EXCEPT !.flags = @ \cup flags]
<1>1. tabs[t][i] \in Descriptor
  BY DEF TypedTables
<1>2. pde \in Descriptor /\ pde.addr = tabs[t][i].addr /\ pde.flags = tabs[t][i].flags \cup flags
  BY <1>1 DEF Descriptor
<1>3. FlagsAdded(tabs, t, i, flags) = EntrySet(tabs, t, i, pde)
  BY DEF FlagsAdded, EntrySet
<1> QED
  BY <1>2, <1>3

(* Entries change their flags, or leaves their contents: what is needed of   *)
(* the new tables to be as well formed as the old ones.                      *)
LEMMA SimilarChanges ==
  ASSUME NEW root, NEW tabs, NEW tabs2, NEW rank,
         TypedTables(tabs), Marked(tabs), Ranked(root, tabs, rank), Similar(tabs, tabs2, rank),
         TypedTables(tabs2), Marked(tabs2), NEW c,
         \A u \in Virtual \ c : LET t == PathIn(root, tabs, u)[1]
                               IN  t # NULL => tabs2[t][Index(u, 1)] = tabs[t][Index(u, 1)]
  PROVE  Changes(root, tabs, tabs2, c)
<1>1. Ranked(root, tabs2, rank)
  BY SimilarRanked
<1>2. Extends(root, tabs, tabs2)
  BY SimilarExtends
<1>3. \A u \in Virtual \ c : SameLeaf(root, tabs, tabs2, u)
  <2> SUFFICES ASSUME NEW u \in Virtual \ c PROVE SameLeaf(root, tabs, tabs2, u)
    OBVIOUS
  <2>1. LET t == PathIn(root, tabs, u)[1]
        IN  t # NULL => tabs2[t][Index(u, 1)] = tabs[t][Index(u, 1)]
    OBVIOUS
  <2> QED
    BY <2>1, SimilarLeaf
<1>4. DOMAIN tabs \subseteq DOMAIN tabs2
  BY DEF Similar
<1> QED
  BY Zenon, <1>1, <1>2, <1>3, <1>4 DEF Changes, WellFormed

(* Flags are added to an entry that leads down.                              *)
LEMMA FlagsAddedChanges ==
  ASSUME NEW root, NEW tabs, WellFormed(root, tabs), NEW v \in Virtual, NEW level \in 2 .. LEVELS,
         NEW t, t = PathIn(root, tabs, v)[level], t # NULL,
         NEW i, i = Index(v, level), Present(tabs, t, i),
         NEW flags \in SUBSET USER_PAGE
  PROVE  /\ Changes(root, tabs, FlagsAdded(tabs, t, i, flags), {})
         /\ DOMAIN FlagsAdded(tabs, t, i, flags) = DOMAIN tabs
         /\ PathIn(root, FlagsAdded(tabs, t, i, flags), v)[level] = t
         /\ PathIn(root, FlagsAdded(tabs, t, i, flags), v)[level - 1] = tabs[t][i].addr
         /\ tabs[t][i].addr \in DOMAIN tabs
         /\ flags \subseteq FlagsAdded(tabs, t, i, flags)[t][i].flags
<1> DEFINE tabs2 == FlagsAdded(tabs, t, i, flags)
<1>1. PICK rank : Ranked(root, tabs, rank)
  BY DEF WellFormed
<1>2. TypedTables(tabs) /\ Marked(tabs)
  BY DEF WellFormed
<1>3. level \in 1 .. LEVELS /\ level - 1 \in 1 .. LEVELS - 1 /\ (level - 1) + 1 = level /\ level > 1
        /\ level - 1 \in 1 .. LEVELS /\ 1 \in 1 .. LEVELS
  BY PagingAssumption
<1>4. Walked(root, tabs, rank, v)
  BY <1>1, PathFacts
<1>5. t \in DOMAIN tabs /\ rank[t] = level
  BY Zenon, <1>3, <1>4 DEF Walked
<1>6. i \in Slots
  BY <1>3, IndexRange DEF Slots
<1>7. PICK pde \in Descriptor : /\ pde.addr = tabs[t][i].addr /\ pde.flags = tabs[t][i].flags \cup flags
                                /\ tabs2 = EntrySet(tabs, t, i, pde)
  BY <1>2, <1>5, <1>6, FlagsAddedIs
<1> HIDE DEF tabs2
<1>8. /\ DOMAIN tabs2 = DOMAIN tabs /\ TypedTables(tabs2) /\ tabs2[t][i] = pde
      /\ \A x \in DOMAIN tabs, j \in Slots : x # t \/ j # i => tabs2[x][j] = tabs[x][j]
  BY <1>2, <1>5, <1>6, <1>7, EntrySetIs
<1>9. \A x \in DOMAIN tabs, j \in Slots :
        /\ Present(tabs2, x, j) <=> Present(tabs, x, j)
        /\ tabs2[x][j].addr = tabs[x][j].addr
        /\ tabs[x][j].flags \subseteq tabs2[x][j].flags
  <2> SUFFICES ASSUME NEW x \in DOMAIN tabs, NEW j \in Slots
               PROVE  /\ Present(tabs2, x, j) <=> Present(tabs, x, j)
                      /\ tabs2[x][j].addr = tabs[x][j].addr
                      /\ tabs[x][j].flags \subseteq tabs2[x][j].flags
    OBVIOUS
  <2>1. CASE x = t /\ j = i
    BY <1>7, <1>8, <2>1 DEF Present
  <2>2. CASE ~(x = t /\ j = i)
    <3>1. tabs2[x][j] = tabs[x][j]
      BY <1>8, <2>2
    <3> QED
      BY <3>1 DEF Present
  <2> QED
    BY <2>1, <2>2
<1>10. Similar(tabs, tabs2, rank)
  BY Zenon, <1>8, <1>9 DEF Similar
<1>11. Marked(tabs2)
  <2> SUFFICES ASSUME NEW x \in DOMAIN tabs, NEW j \in Slots
               PROVE  Present(tabs2, x, j) \/ Blank(tabs2[x][j])
    BY <1>8 DEF Marked
  <2>1. CASE x = t /\ j = i
    BY <1>5, <1>6, <1>9, <2>1
  <2>2. CASE ~(x = t /\ j = i)
    <3>1. tabs2[x][j] = tabs[x][j]
      BY <1>8, <2>2
    <3> QED
      BY <1>2, <3>1 DEF Present, Marked
  <2> QED
    BY <2>1, <2>2
<1>12. ASSUME NEW u \in Virtual, PathIn(root, tabs, u)[1] # NULL
       PROVE  tabs2[PathIn(root, tabs, u)[1]][Index(u, 1)] = tabs[PathIn(root, tabs, u)[1]][Index(u, 1)]
  <2>1. Walked(root, tabs, rank, u)
    BY <1>1, PathFacts
  <2>2. PathIn(root, tabs, u)[1] \in DOMAIN tabs /\ rank[PathIn(root, tabs, u)[1]] = 1
    BY Zenon, <1>3, <1>12, <2>1 DEF Walked
  <2>3. Index(u, 1) \in Slots
    BY <1>3, IndexRange DEF Slots
  <2> QED
    BY <1>3, <1>5, <1>8, <2>2, <2>3
<1>13. Changes(root, tabs, tabs2, {})
  BY <1>1, <1>2, <1>8, <1>10, <1>11, <1>12, SimilarChanges
<1>14. PathIn(root, tabs2, v)[level] = t /\ PathIn(root, tabs2, v)[level - 1] = tabs[t][i].addr
  <2>1. PathIn(root, tabs, v)[level - 1] = Below(tabs, v, level - 1, t)
    BY <1>3, <1>4 DEF Walked
  <2>2. PathIn(root, tabs, v)[level - 1] = tabs[t][i].addr
    BY <1>3, <2>1 DEF Below
  <2> QED
    BY <1>1, <1>3, <1>10, <2>2, SimilarPath
<1>15. tabs[t][i].addr \in DOMAIN tabs
  <2>1. Leads(tabs, rank, t, i)
    BY <1>3, <1>5 DEF Leads
  <2> QED
    BY Zenon, <1>1, <1>5, <1>6, <2>1 DEF Ranked, Falls
<1>16. flags \subseteq tabs2[t][i].flags
  BY <1>7, <1>8
<1> QED
  BY Zenon, <1>8, <1>13, <1>14, <1>15, <1>16 DEF tabs2

(* The entry of page v becomes pde.                                          *)
Becomes(root, tabs, tabs2, v, pde) ==
  /\ Changes(root, tabs, tabs2, {v}) /\ DOMAIN tabs2 = DOMAIN tabs
  /\ PathIn(root, tabs2, v)[1] = PathIn(root, tabs, v)[1]
  /\ EntryIn(root, tabs2, v) = pde

(* The entry of a page is set.                                               *)
LEMMA EntrySetChanges ==
  ASSUME NEW root, NEW tabs, WellFormed(root, tabs), NEW v \in Virtual,
         NEW t, t = PathIn(root, tabs, v)[1], t # NULL,
         NEW i, i = Index(v, 1),
         NEW pde \in Descriptor, PRESENT \in pde.flags \/ Blank(pde)
  PROVE  Becomes(root, tabs, EntrySet(tabs, t, i, pde), v, pde)
<1> DEFINE tabs2 == EntrySet(tabs, t, i, pde)
<1>1. PICK rank : Ranked(root, tabs, rank)
  BY DEF WellFormed
<1>2. TypedTables(tabs) /\ Marked(tabs)
  BY DEF WellFormed
<1>3. 1 \in 1 .. LEVELS
  BY PagingAssumption
<1>4. Walked(root, tabs, rank, v)
  BY <1>1, PathFacts
<1>5. t \in DOMAIN tabs /\ rank[t] = 1
  BY Zenon, <1>3, <1>4 DEF Walked
<1>6. i \in Slots
  BY <1>3, IndexRange DEF Slots
<1>7. /\ DOMAIN tabs2 = DOMAIN tabs /\ TypedTables(tabs2) /\ tabs2[t][i] = pde
      /\ \A x \in DOMAIN tabs, j \in Slots : x # t \/ j # i => tabs2[x][j] = tabs[x][j]
  BY <1>2, <1>5, <1>6, EntrySetIs
<1> HIDE DEF tabs2
<1>8. Similar(tabs, tabs2, rank)
  <2> SUFFICES ASSUME NEW x \in DOMAIN tabs, NEW j \in Slots, rank[x] > 1
               PROVE  /\ Present(tabs2, x, j) <=> Present(tabs, x, j)
                      /\ tabs2[x][j].addr = tabs[x][j].addr
                      /\ tabs[x][j].flags \subseteq tabs2[x][j].flags
    BY <1>7 DEF Similar
  <2>1. tabs2[x][j] = tabs[x][j]
    BY <1>5, <1>7
  <2> QED
    BY <2>1 DEF Present
<1>9. Marked(tabs2)
  <2> SUFFICES ASSUME NEW x \in DOMAIN tabs, NEW j \in Slots
               PROVE  Present(tabs2, x, j) \/ Blank(tabs2[x][j])
    BY <1>7 DEF Marked
  <2>1. CASE x = t /\ j = i
    BY <1>7, <2>1 DEF Present
  <2>2. CASE ~(x = t /\ j = i)
    <3>1. tabs2[x][j] = tabs[x][j]
      BY <1>7, <2>2
    <3> QED
      BY <1>2, <3>1 DEF Present, Marked
  <2> QED
    BY <2>1, <2>2
<1>10. ASSUME NEW u \in Virtual \ {v}, PathIn(root, tabs, u)[1] # NULL
       PROVE  tabs2[PathIn(root, tabs, u)[1]][Index(u, 1)] = tabs[PathIn(root, tabs, u)[1]][Index(u, 1)]
  <2>1. Walked(root, tabs, rank, u)
    BY <1>1, PathFacts
  <2>2. PathIn(root, tabs, u)[1] \in DOMAIN tabs
    BY Zenon, <1>3, <1>10, <2>1 DEF Walked
  <2>3. Index(u, 1) \in Slots
    BY <1>3, IndexRange DEF Slots
  <2>4. PathIn(root, tabs, u)[1] # t \/ Index(u, 1) # i
    BY <1>1, <1>10, OwnEntry
  <2> QED
    BY Zenon, <1>7, <2>2, <2>3, <2>4
<1>11. Changes(root, tabs, tabs2, {v})
  BY <1>1, <1>2, <1>7, <1>8, <1>9, <1>10, SimilarChanges
<1>12. PathIn(root, tabs2, v)[1] = t
  BY <1>1, <1>3, <1>8, SimilarPath
<1>13. EntryIn(root, tabs2, v) = pde
  BY <1>7, <1>12 DEF EntryIn
<1> QED
  BY Zenon, <1>7, <1>11, <1>12, <1>13 DEF tabs2, Becomes

-----------------------------------------------------------------------------
(* An entry gets the address and the flags of a new, empty table.            *)
Grown(tabs, t, i, new, pde) ==
  [x \in DOMAIN tabs \cup {new} |->
     CASE x = new -> EmptyTable
       [] x = t   -> [tabs[x] EXCEPT ![i] = pde]
       [] OTHER   -> tabs[x]]

IsGrown(tabs, g, t, i, new, pde) ==
  /\ DOMAIN g = DOMAIN tabs \cup {new} /\ TypedTables(g)
  /\ g[t][i] = pde
  /\ \A j \in Slots : Blank(g[new][j])
  /\ \A x \in DOMAIN tabs, j \in Slots : x # t \/ j # i => g[x][j] = tabs[x][j]

(* What the tables then hold.                                                *)
LEMMA GrownIs ==
  ASSUME NEW tabs, TypedTables(tabs), NEW t \in DOMAIN tabs, NEW i \in Slots,
         NEW new, new \notin DOMAIN tabs, NEW pde \in Descriptor
  PROVE  IsGrown(tabs, Grown(tabs, t, i, new, pde), t, i, new, pde)
<1> DEFINE row == [tabs[t] EXCEPT ![i] = pde]
           g == Grown(tabs, t, i, new, pde)
<1>1. tabs[t] \in [Slots -> Descriptor]
  BY DEF TypedTables
<1>2. row \in [Slots -> Descriptor] /\ row[i] = pde /\ \A j \in Slots : j # i => row[j] = tabs[t][j]
  BY <1>1
<1>3. /\ EmptyTable \in [Slots -> Descriptor]
      /\ \A j \in Slots : Blank(EmptyTable[j])
  <2>1. Empty \in Descriptor /\ Blank(Empty)
    BY DEF Empty, Descriptor, Blank
  <2> HIDE DEF Descriptor
  <2> QED
    BY <2>1 DEF EmptyTable, Slots
<1>4. t # new
  OBVIOUS
<1>5. g = [x \in DOMAIN tabs \cup {new} |->
             IF x = new THEN EmptyTable ELSE IF x = t THEN row ELSE tabs[x]]
  BY DEF Grown
<1> HIDE DEF g, row
<1>6. /\ DOMAIN g = DOMAIN tabs \cup {new} /\ g[new] = EmptyTable /\ g[t] = row
      /\ \A x \in DOMAIN tabs : x # t => g[x] = tabs[x]
  BY <1>4, <1>5
<1>7. TypedTables(g)
  <2> SUFFICES ASSUME NEW x \in DOMAIN g PROVE g[x] \in [Slots -> Descriptor]
    BY Zenon DEF TypedTables
  <2>1. x = new \/ x = t \/ (x \in DOMAIN tabs /\ g[x] = tabs[x])
    BY <1>6
  <2>2. x \in DOMAIN tabs => tabs[x] \in [Slots -> Descriptor]
    BY Zenon DEF TypedTables
  <2> QED
    BY Zenon, <1>2, <1>3, <1>6, <2>1, <2>2
<1>8. g[t][i] = pde /\ \A j \in Slots : Blank(g[new][j])
  BY Zenon, <1>2, <1>3, <1>6
<1>9. \A x \in DOMAIN tabs, j \in Slots : x # t \/ j # i => g[x][j] = tabs[x][j]
  BY Zenon, <1>2, <1>6
<1> QED
  BY Zenon, <1>6, <1>7, <1>8, <1>9 DEF g, IsGrown

(* The walk for a page goes on to a new table.                               *)
GoesOn(root, tabs, g, v, level, t, i, new, pde) ==
  /\ Changes(root, tabs, g, {})
  /\ DOMAIN g = DOMAIN tabs \cup {new}
  /\ PathIn(root, g, v)[level] = t
  /\ PathIn(root, g, v)[level - 1] = new
  /\ g[t][i] = pde

(* A table is linked where a walk ends.                                      *)
LEMMA GrownChanges ==
  ASSUME NEW root, NEW tabs, WellFormed(root, tabs), NEW v \in Virtual, NEW level \in 2 .. LEVELS,
         NEW t, t = PathIn(root, tabs, v)[level], t # NULL,
         NEW i, i = Index(v, level), ~ Present(tabs, t, i),
         NEW new \in Nat, new \notin DOMAIN tabs,
         NEW pde \in Descriptor, pde.addr = new, PRESENT \in pde.flags
  PROVE  GoesOn(root, tabs, Grown(tabs, t, i, new, pde), v, level, t, i, new, pde)
<1> DEFINE g == Grown(tabs, t, i, new, pde)
<1>1. PICK rank : Ranked(root, tabs, rank)
  BY DEF WellFormed
<1>2. TypedTables(tabs) /\ Marked(tabs)
  BY DEF WellFormed
<1>3. level \in 1 .. LEVELS /\ level - 1 \in 1 .. LEVELS - 1 /\ (level - 1) + 1 = level /\ level > 1
  BY PagingAssumption
<1>4. t \in DOMAIN tabs /\ rank[t] = level
  <2>1. Walked(root, tabs, rank, v)
    BY <1>1, PathFacts
  <2> QED
    BY Zenon, <1>3, <2>1 DEF Walked
<1>5. i \in Slots
  BY <1>3, IndexRange DEF Slots
<1>6. /\ DOMAIN g = DOMAIN tabs \cup {new} /\ TypedTables(g) /\ g[t][i] = pde
      /\ \A j \in Slots : Blank(g[new][j])
      /\ \A x \in DOMAIN tabs, j \in Slots : x # t \/ j # i => g[x][j] = tabs[x][j]
  <2>1. IsGrown(tabs, g, t, i, new, pde)
    BY <1>2, <1>4, <1>5, GrownIs
  <2> QED
    BY Zenon, <2>1 DEF IsGrown
<1> HIDE DEF g
<1>7. tabs[t][i].flags = {}
  BY Zenon, <1>2, <1>4, <1>5 DEF Marked, Blank
<1>8. Linked(tabs, g, t, i, new)
  <2>1. new # NULL
    BY DEF NULL
  <2>2. \A j \in Slots : ~ Present(g, new, j)
    BY <1>6 DEF Present, Blank
  <2>3. Present(g, t, i) /\ g[t][i].addr = new
    BY <1>6 DEF Present
  <2> QED
    BY Zenon, <1>4, <1>5, <1>6, <1>7, <2>1, <2>2, <2>3 DEF Linked
<1> DEFINE r == LinkedRank(g, rank, t, new)
<1>9. rank[t] > 1
  BY <1>3, <1>4
<1>10. Ranked(root, g, r)
  BY <1>1, <1>8, <1>9, LinkedRanked
<1> HIDE DEF r
<1>11. Marked(g)
  <2> SUFFICES ASSUME NEW x \in DOMAIN g, NEW j \in Slots
               PROVE  Present(g, x, j) \/ Blank(g[x][j])
    BY DEF Marked
  <2>1. CASE x = new
    BY <1>6, <2>1
  <2>2. CASE x = t /\ j = i
    BY <1>6, <2>2 DEF Present
  <2>3. CASE x # new /\ ~(x = t /\ j = i)
    <3>1. x \in DOMAIN tabs /\ g[x][j] = tabs[x][j]
      BY <1>6, <2>3
    <3> QED
      BY <1>2, <3>1 DEF Present, Marked
  <2> QED
    BY <2>1, <2>2, <2>3
<1>12. Extends(root, tabs, g)
  BY <1>1, <1>8, <1>9, LinkedExtends
<1>13. \A u \in Virtual \ {} : SameLeaf(root, tabs, g, u)
  BY <1>1, <1>8, <1>9, LinkedLeaf
<1>14. Changes(root, tabs, g, {})
  <2>1. DOMAIN tabs \subseteq DOMAIN g
    BY <1>6
  <2> QED
    BY Zenon, <1>6, <1>10, <1>11, <1>12, <1>13, <2>1 DEF Changes, WellFormed
<1>15. PathIn(root, g, v)[level] = t
  BY Zenon, <1>3, <1>12 DEF Extends
<1>16. PathIn(root, g, v)[level - 1] = new
  <2>1. Walked(root, g, r, v)
    BY <1>10, PathFacts
  <2>2. PathIn(root, g, v)[level - 1] = Below(g, v, level - 1, PathIn(root, g, v)[(level - 1) + 1])
    BY Zenon, <1>3, <2>1 DEF Walked
  <2>3. PathIn(root, g, v)[level - 1] = Below(g, v, level - 1, t)
    BY <1>3, <1>15, <2>2
  <2>4. Present(g, t, i) /\ g[t][i].addr = new
    BY <1>6 DEF Present
  <2> QED
    BY <1>3, <2>3, <2>4 DEF Below
<1> QED
  BY Zenon, <1>6, <1>14, <1>15, <1>16 DEF g, GoesOn

(* What paging_edit_page does to the tables.                                 *)
Edited(root, tabs, v, flags) ==
  [t \in DOMAIN tabs |->
     [i \in 0 .. FANOUT - 1 |->
        CASE t = PathIn(root, tabs, v)[1] /\ i = Index(v, 1) -> [tabs[t][i] EXCEPT !.flags = flags]
          [] \E level \in 2 .. LEVELS : t = PathIn(root, tabs, v)[level] /\ i = Index(v, level) ->
               [tabs[t][i] EXCEPT !.flags = @ \cup flags]
          [] OTHER -> tabs[t][i]]]

(* An entry of the page's walk above its last.                               *)
Above(root, tabs, v, t, i) ==
  \E level \in 2 .. LEVELS : t = PathIn(root, tabs, v)[level] /\ i = Index(v, level)

IsEdited(root, tabs, e, v, flags) ==
  /\ DOMAIN e = DOMAIN tabs /\ TypedTables(e)
  /\ \A t \in DOMAIN tabs, i \in Slots :
       /\ e[t][i].addr = tabs[t][i].addr
       /\ t = PathIn(root, tabs, v)[1] /\ i = Index(v, 1) => e[t][i].flags = flags
       /\ ~(t = PathIn(root, tabs, v)[1] /\ i = Index(v, 1)) /\ Above(root, tabs, v, t, i) =>
            e[t][i].flags = tabs[t][i].flags \cup flags
       /\ ~(t = PathIn(root, tabs, v)[1] /\ i = Index(v, 1)) /\ ~ Above(root, tabs, v, t, i) =>
            e[t][i] = tabs[t][i]

(* What the tables then hold, if the walk's last table is not one of those   *)
(* above it.                                                                 *)
LEMMA EditedIs ==
  ASSUME NEW root, NEW tabs, TypedTables(tabs), NEW v, NEW flags \in SUBSET USER_PAGE,
         \A level \in 2 .. LEVELS : PathIn(root, tabs, v)[level] # PathIn(root, tabs, v)[1]
  PROVE  IsEdited(root, tabs, Edited(root, tabs, v, flags), v, flags)
<1> DEFINE e == Edited(root, tabs, v, flags)
           A(t, i) == t = PathIn(root, tabs, v)[1] /\ i = Index(v, 1)
           B(t, i) == Above(root, tabs, v, t, i)
           one(t, i) == [tabs[t][i] EXCEPT !.flags = flags]
           more(t, i) == [tabs[t][i] EXCEPT !.flags = @ \cup flags]
           entry(t, i) == IF A(t, i) THEN one(t, i) ELSE IF B(t, i) THEN more(t, i) ELSE tabs[t][i]
<1>0. \A t, i : A(t, i) => ~ B(t, i)
  BY DEF Above
<1>1. e = [t \in DOMAIN tabs |-> [i \in Slots |-> entry(t, i)]]
  <2>1. ASSUME NEW t, NEW i
        PROVE  entry(t, i) =
                 CASE t = PathIn(root, tabs, v)[1] /\ i = Index(v, 1) -> [tabs[t][i] EXCEPT !.flags = flags]
                   [] \E level \in 2 .. LEVELS : t = PathIn(root, tabs, v)[level] /\ i = Index(v, level) ->
                        [tabs[t][i] EXCEPT !.flags = @ \cup flags]
                   [] OTHER -> tabs[t][i]
    <3>1. CASE A(t, i)
      BY Zenon, <3>1, <1>0 DEF Above
    <3>2. CASE ~A(t, i) /\ B(t, i)
      BY Zenon, <3>2 DEF Above
    <3>3. CASE ~A(t, i) /\ ~B(t, i)
      BY Zenon, <3>3 DEF Above
    <3> QED
      BY Zenon, <3>1, <3>2, <3>3
  <2> HIDE DEF entry
  <2> QED
    BY <2>1 DEF Edited, Slots
<1>2. \A t \in DOMAIN tabs, i \in Slots : tabs[t][i] \in Descriptor
  BY DEF TypedTables
<1>3. \A d \in Descriptor :
        /\ [d EXCEPT !.flags = flags] \in Descriptor
        /\ [d EXCEPT !.flags = flags].addr = d.addr /\ [d EXCEPT !.flags = flags].flags = flags
        /\ [d EXCEPT !.flags = @ \cup flags] \in Descriptor
        /\ [d EXCEPT !.flags = @ \cup flags].addr = d.addr
        /\ [d EXCEPT !.flags = @ \cup flags].flags = d.flags \cup flags
  BY DEF Descriptor
<1>4. \A t \in DOMAIN tabs, i \in Slots :
        /\ one(t, i) \in Descriptor /\ one(t, i).addr = tabs[t][i].addr /\ one(t, i).flags = flags
        /\ more(t, i) \in Descriptor /\ more(t, i).addr = tabs[t][i].addr
        /\ more(t, i).flags = tabs[t][i].flags \cup flags
  BY <1>2, <1>3
<1> HIDE DEF e, A, B, one, more
<1>5. DOMAIN e = DOMAIN tabs /\ \A t \in DOMAIN tabs, i \in Slots : e[t][i] = entry(t, i)
  BY <1>1
<1>6. \A t \in DOMAIN tabs, i \in Slots : entry(t, i) \in Descriptor
  BY Zenon, <1>2, <1>4
<1>7. TypedTables(e)
  <2> HIDE DEF entry
  <2>1. \A t \in DOMAIN e : e[t] \in [Slots -> Descriptor]
    BY <1>1, <1>6
  <2> QED
    BY Zenon, <2>1 DEF TypedTables
<1>8. \A t \in DOMAIN tabs, i \in Slots :
        /\ e[t][i].addr = tabs[t][i].addr
        /\ A(t, i) => e[t][i].flags = flags
        /\ ~A(t, i) /\ B(t, i) => e[t][i].flags = tabs[t][i].flags \cup flags
        /\ ~A(t, i) /\ ~B(t, i) => e[t][i] = tabs[t][i]
  <2> SUFFICES ASSUME NEW t \in DOMAIN tabs, NEW i \in Slots
               PROVE  /\ e[t][i].addr = tabs[t][i].addr
                      /\ A(t, i) => e[t][i].flags = flags
                      /\ ~A(t, i) /\ B(t, i) => e[t][i].flags = tabs[t][i].flags \cup flags
                      /\ ~A(t, i) /\ ~B(t, i) => e[t][i] = tabs[t][i]
    OBVIOUS
  <2>1. CASE A(t, i)
    BY <1>4, <1>5, <2>1
  <2>2. CASE ~A(t, i) /\ B(t, i)
    BY <1>4, <1>5, <2>2
  <2>3. CASE ~A(t, i) /\ ~B(t, i)
    BY <1>5, <2>3
  <2> QED
    BY Zenon, <2>1, <2>2, <2>3
<1> QED
  BY Zenon, <1>5, <1>7, <1>8 DEF e, A, B, IsEdited

(* The entry of page v gets the flags, and so does all that is above it.     *)
GetsFlags(root, tabs, e, v, flags) ==
  /\ Changes(root, tabs, e, {v}) /\ DOMAIN e = DOMAIN tabs
  /\ PathIn(root, e, v)[1] = PathIn(root, tabs, v)[1]
  /\ EntryIn(root, e, v).addr = EntryIn(root, tabs, v).addr
  /\ EntryIn(root, e, v).flags = flags
  /\ Reaches(root, e, v)

(* A page's flags are edited, on all levels.                                 *)
LEMMA EditedChanges ==
  ASSUME NEW root, NEW tabs, WellFormed(root, tabs), NEW v \in Virtual,
         PathIn(root, tabs, v)[1] # NULL,
         NEW flags \in SUBSET USER_PAGE, PRESENT \in flags
  PROVE  GetsFlags(root, tabs, Edited(root, tabs, v, flags), v, flags)
<1> DEFINE e == Edited(root, tabs, v, flags)
           P == PathIn(root, tabs, v)
           A(t, i) == t = P[1] /\ i = Index(v, 1)
           B(t, i) == Above(root, tabs, v, t, i)
<1>1. PICK rank : Ranked(root, tabs, rank)
  BY DEF WellFormed
<1>2. TypedTables(tabs) /\ Marked(tabs)
  BY DEF WellFormed
<1>3. 1 \in 1 .. LEVELS /\ LEVELS \in Nat
  BY PagingAssumption
<1>4. Walked(root, tabs, rank, v)
  BY <1>1, PathFacts
<1>5. \A level \in 1 .. LEVELS : P[level] # NULL /\ P[level] \in DOMAIN tabs /\ rank[P[level]] = level
  <2>1. \A level \in 1 .. LEVELS : level >= 1 => P[level] # NULL
    BY <1>1, <1>3, PathAbove
  <2>2. \A level \in 1 .. LEVELS : P[level] # NULL
    BY <1>3, <2>1
  <2> QED
    BY Zenon, <1>4, <2>2 DEF Walked
<1>6. \A level \in 1 .. LEVELS : Index(v, level) \in Slots
  BY IndexRange DEF Slots
<1>7. /\ DOMAIN e = DOMAIN tabs /\ TypedTables(e)
      /\ \A t \in DOMAIN tabs, i \in Slots :
           /\ e[t][i].addr = tabs[t][i].addr
           /\ A(t, i) => e[t][i].flags = flags
           /\ ~A(t, i) /\ B(t, i) => e[t][i].flags = tabs[t][i].flags \cup flags
           /\ ~A(t, i) /\ ~B(t, i) => e[t][i] = tabs[t][i]
  <2>1. \A level \in 2 .. LEVELS : P[level] # P[1]
    <3>1. \A level \in 2 .. LEVELS : level \in 1 .. LEVELS /\ level # 1
      BY <1>3
    <3> QED
      BY <1>3, <1>5, <3>1
  <2>2. IsEdited(root, tabs, e, v, flags)
    BY <1>2, <2>1, EditedIs
  <2> QED
    BY Zenon, <2>2 DEF IsEdited
<1>8. \A t \in DOMAIN tabs, i \in Slots : B(t, i) => Present(tabs, t, i)
  <2> SUFFICES ASSUME NEW t \in DOMAIN tabs, NEW i \in Slots, NEW level \in 2 .. LEVELS,
                      t = P[level], i = Index(v, level)
               PROVE  Present(tabs, t, i)
    BY DEF Above
  <2>1. level - 1 \in 1 .. LEVELS - 1 /\ level - 1 \in 1 .. LEVELS /\ (level - 1) + 1 = level
    BY <1>3
  <2>2. P[level - 1] = Below(tabs, v, level - 1, P[(level - 1) + 1])
    BY Zenon, <1>4, <2>1 DEF Walked
  <2>3. P[level - 1] # NULL
    BY <1>5, <2>1
  <2> HIDE DEF P
  <2> QED
    BY <2>1, <2>2, <2>3 DEF Below
<1>9. \A level \in 2 .. LEVELS : B(P[level], Index(v, level)) /\ ~A(P[level], Index(v, level))
  <2> SUFFICES ASSUME NEW level \in 2 .. LEVELS
               PROVE  B(P[level], Index(v, level)) /\ ~A(P[level], Index(v, level))
    OBVIOUS
  <2>1. level \in 1 .. LEVELS /\ level # 1
    BY <1>3
  <2>2. B(P[level], Index(v, level))
    BY Zenon DEF Above
  <2>3. P[level] # P[1]
    BY <1>3, <1>5, <2>1
  <2> QED
    BY <2>2, <2>3
<1> HIDE DEF e, B
<1>10. Similar(tabs, e, rank)
  <2> SUFFICES ASSUME NEW t \in DOMAIN tabs, NEW i \in Slots, rank[t] > 1
               PROVE  /\ Present(e, t, i) <=> Present(tabs, t, i)
                      /\ e[t][i].addr = tabs[t][i].addr
                      /\ tabs[t][i].flags \subseteq e[t][i].flags
    BY <1>7 DEF Similar
  <2>1. ~A(t, i)
    BY <1>3, <1>5
  <2>2. CASE B(t, i)
    <3>1. e[t][i].flags = tabs[t][i].flags \cup flags /\ Present(tabs, t, i)
      BY <1>7, <1>8, <2>1, <2>2
    <3> QED
      BY <1>7, <3>1 DEF Present
  <2>3. CASE ~B(t, i)
    <3>1. e[t][i] = tabs[t][i]
      BY <1>7, <2>1, <2>3
    <3> QED
      BY <3>1 DEF Present
  <2> QED
    BY <2>2, <2>3
<1>11. Marked(e)
  <2> SUFFICES ASSUME NEW t \in DOMAIN tabs, NEW i \in Slots
               PROVE  Present(e, t, i) \/ Blank(e[t][i])
    BY <1>7 DEF Marked
  <2>1. CASE A(t, i) \/ B(t, i)
    <3>1. flags \subseteq e[t][i].flags
      BY <1>7, <2>1
    <3> QED
      BY <3>1 DEF Present
  <2>2. CASE ~A(t, i) /\ ~B(t, i)
    <3>1. e[t][i] = tabs[t][i]
      BY <1>7, <2>2
    <3> QED
      BY <1>2, <3>1 DEF Present, Marked
  <2> QED
    BY <2>1, <2>2
<1>12. ASSUME NEW u \in Virtual \ {v}, PathIn(root, tabs, u)[1] # NULL
       PROVE  e[PathIn(root, tabs, u)[1]][Index(u, 1)] = tabs[PathIn(root, tabs, u)[1]][Index(u, 1)]
  <2> DEFINE t == PathIn(root, tabs, u)[1]
             i == Index(u, 1)
  <2>1. Walked(root, tabs, rank, u)
    BY <1>1, PathFacts
  <2>2. t \in DOMAIN tabs /\ rank[t] = 1
    BY Zenon, <1>3, <1>12, <2>1 DEF Walked
  <2>3. i \in Slots
    BY <1>3, IndexRange DEF Slots
  <2>4. ~A(t, i)
    BY <1>1, <1>12, OwnEntry
  <2>5. ~B(t, i)
    <3> SUFFICES ASSUME NEW level \in 2 .. LEVELS, t = P[level] PROVE FALSE
      BY DEF Above, B
    <3>1. level \in 1 .. LEVELS /\ level # 1
      BY <1>3
    <3> QED
      BY <1>5, <2>2, <3>1
  <2> HIDE DEF t, i, A
  <2>6. e[t][i] = tabs[t][i]
    BY Zenon, <1>7, <2>2, <2>3, <2>4, <2>5
  <2> QED
    BY <2>6 DEF t, i
<1>13. Changes(root, tabs, e, {v})
  BY <1>1, <1>2, <1>7, <1>10, <1>11, <1>12, SimilarChanges
<1>14. \A level \in 1 .. LEVELS : PathIn(root, e, v)[level] = P[level]
  BY <1>1, <1>10, SimilarPath
<1>15. EntryIn(root, e, v).addr = EntryIn(root, tabs, v).addr /\ EntryIn(root, e, v).flags = flags
  BY <1>3, <1>5, <1>6, <1>7, <1>14 DEF EntryIn
<1>16. Reaches(root, e, v)
  <2> SUFFICES ASSUME NEW level \in 2 .. LEVELS
               PROVE  flags \subseteq e[PathIn(root, e, v)[level]][Index(v, level)].flags
    BY Zenon, <1>15 DEF Reaches
  <2>1. level \in 1 .. LEVELS
    BY <1>3
  <2>2. PathIn(root, e, v)[level] = P[level] /\ P[level] \in DOMAIN tabs /\ Index(v, level) \in Slots
    BY <1>5, <1>6, <1>14, <2>1
  <2>3. B(P[level], Index(v, level)) /\ ~A(P[level], Index(v, level))
    BY <1>9
  <2> HIDE DEF P, A
  <2>4. e[P[level]][Index(v, level)].flags = tabs[P[level]][Index(v, level)].flags \cup flags
    BY Zenon, <1>7, <2>2, <2>3
  <2> QED
    BY <2>2, <2>4
<1> QED
  BY Zenon, <1>3, <1>7, <1>13, <1>14, <1>15, <1>16 DEF e, P, GetsFlags

-----------------------------------------------------------------------------
(* The tables are changed by a step: what becomes of calls, of translations  *)
(* and of flags.                                                             *)
LEMMA ChangesKeep ==
  ASSUME NEW root, NEW tabs, NEW tabs2, NEW c, Changes(root, tabs, tabs2, c)
  PROVE  /\ \A f \in Frame : Walks(root, tabs, f) => Walks(root, tabs2, f)
         /\ \A v \in Virtual \ c : Reaches(root, tabs, v) => Reaches(root, tabs2, v)
         /\ \A v \in Virtual \ c : TranslateIn(root, tabs2, v) = TranslateIn(root, tabs, v)
<1>1. PICK rank : Ranked(root, tabs, rank)
  BY Zenon DEF Changes, WellFormed
<1>2. Extends(root, tabs, tabs2) /\ \A v \in Virtual \ c : SameLeaf(root, tabs, tabs2, v)
  BY Zenon DEF Changes
<1>3. \A f \in Frame : Walks(root, tabs, f) => Walks(root, tabs2, f)
  BY <1>1, <1>2, WalksStill
<1>4. \A v \in Virtual \ c : Reaches(root, tabs, v) => Reaches(root, tabs2, v)
  BY <1>1, <1>2, ReachesStill
<1>5. \A v \in Virtual \ c : TranslateIn(root, tabs2, v) = TranslateIn(root, tabs, v)
  BY <1>2, SameTranslation
<1> QED
  BY <1>3, <1>4, <1>5

(* Memory is part of the address space.                                      *)
LEMMA PageNumbers ==
  /\ LEVELS \in Nat \ {0} /\ FANOUT \in Nat \ {0} /\ 1 \in 1 .. LEVELS /\ LEVELS \in 1 .. LEVELS
  /\ Virtual \subseteq Nat /\ OFFSET \in Nat /\ PAGES \in Nat /\ FIRST_PAGE \in 1 .. PAGES - 1
  /\ 1 .. PAGES - 1 \subseteq Virtual
BY PagingAssumption, SpanFacts DEF Virtual

-----------------------------------------------------------------------------
(* The state.                                                                *)

(* Tables are in pages that pmm_alloc_page() has returned.                   *)
Allotted == pml4 = FIRST_PAGE /\ DOMAIN tables \subseteq FIRST_PAGE .. next_page - 1

CallsWalk == \A i \in 1 .. Len(stack) : Walks(pml4, tables, stack[i])

Base == TypeOK /\ Allotted /\ WellFormed(pml4, tables) /\ CallsWalk

(* The innermost call, and the others.                                       *)
LEMMA TopIs ==
  ASSUME TypeOK, stack # << >>
  PROVE  /\ Len(stack) \in Nat \ {0} /\ Top = stack[Len(stack)] /\ Top \in Frame
         /\ Front(stack) \in Seq(Frame) /\ Len(Front(stack)) = Len(stack) - 1
         /\ \A i \in 1 .. Len(stack) - 1 : Front(stack)[i] = stack[i]
<1>1. stack \in Seq(Frame)
  BY DEF TypeOK
<1>2. Len(stack) \in Nat \ {0} /\ \A i \in 1 .. Len(stack) : stack[i] \in Frame
  BY <1>1
<1>3. Top = stack[Len(stack)]
  BY DEF Top, Last
<1>4. Front(stack) = SubSeq(stack, 1, Len(stack) - 1)
  BY DEF Front
<1>5. Front(stack) = [i \in 1 .. Len(stack) - 1 |-> stack[i]]
  BY <1>1, <1>2, <1>4
<1>6. Front(stack) \in Seq(Frame) /\ Len(Front(stack)) = Len(stack) - 1
  BY <1>2, <1>5
<1> QED
  BY <1>2, <1>3, <1>5, <1>6

(* Where the innermost call is.                                              *)
LEMMA TopWalks ==
  ASSUME Base, stack # << >>
  PROVE  /\ Top.virtual \in Virtual /\ Top.level \in 1 .. LEVELS /\ Top.physical \in Nat
         /\ Top.flags \in SUBSET USER_PAGE /\ PRESENT \in Top.flags
         /\ Top.table = PathIn(pml4, tables, Top.virtual)[Top.level] /\ Top.table # NULL
         /\ Top.table \in DOMAIN tables
         /\ Slot = Index(Top.virtual, Top.level) /\ Slot \in Slots
         /\ Pde = tables[Top.table][Slot]
         /\ HasFlag(Pde, Top.flags) <=> Present(tables, Top.table, Slot)
<1>1. TypeOK /\ WellFormed(pml4, tables) /\ CallsWalk
  BY DEF Base
<1>2. Len(stack) \in Nat \ {0} /\ Top = stack[Len(stack)] /\ Top \in Frame
  BY <1>1, TopIs
<1>3. /\ Top.virtual \in Virtual /\ Top.level \in 1 .. LEVELS /\ Top.physical \in Nat
      /\ Top.flags \in SUBSET USER_PAGE
  BY <1>2 DEF Frame
<1>4. Walks(pml4, tables, Top)
  BY <1>1, <1>2 DEF CallsWalk
<1>5. /\ PRESENT \in Top.flags /\ Top.table # NULL
      /\ PathIn(pml4, tables, Top.virtual)[Top.level] = Top.table
  BY Zenon, <1>4 DEF Walks
<1>6. PICK rank : Ranked(pml4, tables, rank)
  BY Zenon, <1>1 DEF WellFormed
<1>7. Top.table \in DOMAIN tables
  <2>1. Walked(pml4, tables, rank, Top.virtual)
    BY <1>3, <1>6, PathFacts
  <2> QED
    BY Zenon, <1>3, <1>5, <2>1 DEF Walked
<1>8. Slot = Index(Top.virtual, Top.level) /\ Slot \in Slots
  BY <1>3, IndexRange DEF Slot, Slots
<1>9. Pde = tables[Top.table][Slot]
  BY DEF Pde
<1>10. HasFlag(Pde, Top.flags) <=> Present(tables, Top.table, Slot)
  <2>1. Marked(tables)
    BY <1>1 DEF WellFormed
  <2>2. tables[Top.table][Slot].flags # {} => Present(tables, Top.table, Slot)
    BY Zenon, <1>7, <1>8, <2>1 DEF Marked, Blank
  <2> QED
    BY <1>5, <1>9, <2>2 DEF HasFlag, Present
<1> QED
  BY <1>3, <1>5, <1>7, <1>8, <1>9, <1>10

(* A new call is at the first table.                                         *)
LEMMA CallWalks ==
  ASSUME pml4 \in Nat, NEW tabs, WellFormed(pml4, tabs), NEW v \in Virtual, NEW p \in Nat,
         NEW flags \in SUBSET USER_PAGE, PRESENT \in flags
  PROVE  /\ Call(v, p, flags) \in Frame /\ Walks(pml4, tabs, Call(v, p, flags))
         /\ Call(v, p, flags).virtual = v /\ Call(v, p, flags).physical = p
<1> DEFINE f == Call(v, p, flags)
<1>1. /\ f \in Frame /\ f.virtual = v /\ f.physical = p /\ f.flags = flags
      /\ f.level = LEVELS /\ f.table = pml4
  BY PageNumbers DEF Call, Frame
<1> HIDE DEF f
<1>2. PICK rank : Ranked(pml4, tabs, rank)
  BY Zenon DEF WellFormed
<1>3. PathIn(pml4, tabs, v)[LEVELS] = pml4
  <2>1. Walked(pml4, tabs, rank, v)
    BY <1>2, PathFacts
  <2> QED
    BY Zenon, <2>1 DEF Walked
<1>4. pml4 # NULL
  BY DEF NULL
<1>5. \A level \in 2 .. LEVELS : ~(level > LEVELS)
  BY PageNumbers
<1>6. Walks(pml4, tabs, f)
  BY Zenon, <1>1, <1>3, <1>4, <1>5 DEF Walks
<1> QED
  BY Zenon, <1>1, <1>6 DEF f

-----------------------------------------------------------------------------
(* What each action does to the tables and to the calls.                     *)

(* Descend changes no page's entry, and the call has got one level down.     *)
LEMMA DescendStep ==
  ASSUME Base, Descend
  PROVE  /\ Changes(pml4, tables, tables', {}) /\ DOMAIN tables' = DOMAIN tables
         /\ \E t \in DOMAIN tables : stack' = Moved(stack, t)
         /\ Walks(pml4, tables', stack'[Len(stack)])
         /\ stack # << >> /\ Top.level > 1
<1> DEFINE t == Top.table
           next == Pde.addr
           t2 == FlagsAdded(tables, t, Slot, Top.flags)
<1>1. stack # << >> /\ Top.level > 1 /\ HasFlag(Pde, Top.flags)
  BY DEF Descend
<1>2. tables' = t2 /\ stack' = Moved(stack, next)
  BY Zenon DEF Descend, FlagsAdded, Moved
<1>3. /\ Top.virtual \in Virtual /\ Top.level \in 1 .. LEVELS
      /\ Top.flags \in SUBSET USER_PAGE /\ PRESENT \in Top.flags
      /\ Top.table = PathIn(pml4, tables, Top.virtual)[Top.level] /\ Top.table # NULL
      /\ Top.table \in DOMAIN tables
      /\ Slot = Index(Top.virtual, Top.level) /\ Slot \in Slots
      /\ Pde = tables[Top.table][Slot]
      /\ HasFlag(Pde, Top.flags) <=> Present(tables, Top.table, Slot)
  BY <1>1, TopWalks
<1>4. TypeOK /\ WellFormed(pml4, tables) /\ CallsWalk
  BY DEF Base
<1>5. Top.level \in 2 .. LEVELS
  BY <1>1, <1>3
<1>6. /\ Changes(pml4, tables, t2, {}) /\ DOMAIN t2 = DOMAIN tables
      /\ PathIn(pml4, t2, Top.virtual)[Top.level] = t
      /\ PathIn(pml4, t2, Top.virtual)[Top.level - 1] = tables[t][Slot].addr
      /\ tables[t][Slot].addr \in DOMAIN tables
      /\ Top.flags \subseteq t2[t][Slot].flags
  BY <1>1, <1>3, <1>4, <1>5, FlagsAddedChanges
<1> HIDE DEF t2
<1>7. /\ stack \in Seq(Frame) /\ Len(stack) \in Nat \ {0} /\ Top = stack[Len(stack)] /\ Top \in Frame
  BY <1>1, <1>4, TopIs DEF TypeOK
<1>8. next \in DOMAIN tables /\ next \in Nat /\ next # NULL
  <2>1. next \in DOMAIN tables
    BY <1>3, <1>6
  <2>2. DOMAIN tables \subseteq 1 .. PAGES - 1
    BY <1>4 DEF TypeOK
  <2> QED
    BY <2>1, <2>2 DEF NULL
<1> DEFINE g == stack'[Len(stack)]
<1>9. /\ g.virtual = Top.virtual /\ g.flags = Top.flags
      /\ g.level = Top.level - 1 /\ g.table = next
  BY <1>1, <1>2, <1>7, <1>8, MovedIs
<1> HIDE DEF g
<1>10. Walks(pml4, t2, g)
  <2>1. Walks(pml4, t2, Top)
    <3>1. Walks(pml4, tables, Top)
      BY <1>4, <1>7 DEF CallsWalk
    <3> QED
      BY <1>6, <1>7, <3>1, ChangesKeep
  <2>2. \A level \in 2 .. LEVELS : level > Top.level =>
          Top.flags \subseteq t2[PathIn(pml4, t2, Top.virtual)[level]][Index(Top.virtual, level)].flags
    BY Zenon, <2>1 DEF Walks
  <2>3. \A level \in 2 .. LEVELS : level > Top.level - 1 => level = Top.level \/ level > Top.level
    BY <1>3
  <2>4. Top.flags \subseteq t2[PathIn(pml4, t2, Top.virtual)[Top.level]][Index(Top.virtual, Top.level)].flags
    BY <1>3, <1>6
  <2>5. \A level \in 2 .. LEVELS : level > g.level =>
          g.flags \subseteq t2[PathIn(pml4, t2, g.virtual)[level]][Index(g.virtual, level)].flags
    BY Zenon, <1>9, <2>2, <2>3, <2>4
  <2>6. g.table # NULL /\ PathIn(pml4, t2, g.virtual)[g.level] = g.table /\ PRESENT \in g.flags
    BY <1>3, <1>6, <1>8, <1>9
  <2> QED
    BY Zenon, <2>5, <2>6 DEF Walks
<1> QED
  BY Zenon, <1>1, <1>2, <1>6, <1>8, <1>10 DEF g

(* Grow adds one table, changes no page's entry, and the call has got to the *)
(* new table, which a call of its own is to map.                             *)
LEMMA GrowStep ==
  ASSUME Base, Grow
  PROVE  /\ Changes(pml4, tables, tables', {})
         /\ DOMAIN tables' = DOMAIN tables \cup {next_page}
         /\ next_page \in FIRST_PAGE .. PAGES - 1 /\ next_page \in Virtual /\ next_page \in Nat
         /\ stack' = Append(Moved(stack, next_page), Call(next_page, next_page, KERNEL_PAGE))
         /\ Walks(pml4, tables', Moved(stack, next_page)[Len(stack)])
         /\ stack # << >> /\ Top.level > 1
<1> DEFINE t == Top.table
           new == next_page
           pde == [addr |-> new, flags |-> {PRESENT} \cup Top.flags]
           g == Grown(tables, t, Slot, new, pde)
<1>1. stack # << >> /\ Top.level > 1 /\ ~ HasFlag(Pde, Top.flags) /\ new < PAGES
  BY DEF Grow
<1>2. tables' = g /\ stack' = Append(Moved(stack, new), Call(new, new, KERNEL_PAGE))
  BY Zenon DEF Grow, Grown, Moved
<1>3. /\ Top.virtual \in Virtual /\ Top.level \in 1 .. LEVELS
      /\ Top.flags \in SUBSET USER_PAGE /\ PRESENT \in Top.flags
      /\ Top.table = PathIn(pml4, tables, Top.virtual)[Top.level] /\ Top.table # NULL
      /\ Top.table \in DOMAIN tables
      /\ Slot = Index(Top.virtual, Top.level) /\ Slot \in Slots
      /\ HasFlag(Pde, Top.flags) <=> Present(tables, Top.table, Slot)
  BY <1>1, TopWalks
<1>4. TypeOK /\ WellFormed(pml4, tables) /\ CallsWalk /\ Allotted
  BY DEF Base
<1>5. Top.level \in 2 .. LEVELS
  BY <1>1, <1>3
<1>6. new \in Nat /\ new \notin DOMAIN tables /\ new \in FIRST_PAGE .. PAGES - 1 /\ new \in Virtual
  <2>1. new \in 1 .. PAGES /\ pml4 \in DOMAIN tables
    BY <1>4 DEF TypeOK
  <2>2. DOMAIN tables \subseteq FIRST_PAGE .. new - 1 /\ pml4 = FIRST_PAGE
    BY <1>4 DEF Allotted
  <2>3. new \notin DOMAIN tables /\ FIRST_PAGE <= new - 1
    BY <2>1, <2>2, PageNumbers
  <2> QED
    BY <1>1, <2>1, <2>3, PageNumbers
<1>7. pde \in Descriptor /\ pde.addr = new /\ PRESENT \in pde.flags /\ Top.flags \subseteq pde.flags
  BY <1>3, <1>6 DEF Descriptor, USER_PAGE
<1> HIDE DEF pde
<1>8. /\ Changes(pml4, tables, g, {}) /\ DOMAIN g = DOMAIN tables \cup {new}
      /\ PathIn(pml4, g, Top.virtual)[Top.level] = t
      /\ PathIn(pml4, g, Top.virtual)[Top.level - 1] = new
      /\ g[t][Slot] = pde
  <2>1. ~ Present(tables, t, Slot)
    BY <1>1, <1>3
  <2>2. GoesOn(pml4, tables, g, Top.virtual, Top.level, t, Slot, new, pde)
    BY <1>3, <1>4, <1>5, <1>6, <1>7, <2>1, GrownChanges
  <2> QED
    BY Zenon, <2>2 DEF GoesOn
<1> HIDE DEF g
<1>9. /\ stack \in Seq(Frame) /\ Len(stack) \in Nat \ {0} /\ Top = stack[Len(stack)] /\ Top \in Frame
  BY <1>1, <1>4, TopIs DEF TypeOK
<1> DEFINE f == Moved(stack, new)[Len(stack)]
<1>10. /\ f.virtual = Top.virtual /\ f.flags = Top.flags
       /\ f.level = Top.level - 1 /\ f.table = new
  BY <1>1, <1>6, <1>9, MovedIs
<1> HIDE DEF f
<1>11. Walks(pml4, g, f)
  <2>1. Walks(pml4, g, Top)
    <3>1. Walks(pml4, tables, Top)
      BY <1>4, <1>9 DEF CallsWalk
    <3> QED
      BY <1>8, <1>9, <3>1, ChangesKeep
  <2>2. \A level \in 2 .. LEVELS : level > Top.level =>
          Top.flags \subseteq g[PathIn(pml4, g, Top.virtual)[level]][Index(Top.virtual, level)].flags
    BY Zenon, <2>1 DEF Walks
  <2>3. \A level \in 2 .. LEVELS : level > Top.level - 1 => level = Top.level \/ level > Top.level
    BY <1>3
  <2>4. Top.flags \subseteq g[PathIn(pml4, g, Top.virtual)[Top.level]][Index(Top.virtual, Top.level)].flags
    BY <1>3, <1>7, <1>8
  <2>5. \A level \in 2 .. LEVELS : level > f.level =>
          f.flags \subseteq g[PathIn(pml4, g, f.virtual)[level]][Index(f.virtual, level)].flags
    BY Zenon, <1>10, <2>2, <2>3, <2>4
  <2>6. f.table # NULL /\ PathIn(pml4, g, f.virtual)[f.level] = f.table /\ PRESENT \in f.flags
    BY <1>3, <1>6, <1>8, <1>10 DEF NULL
  <2> QED
    BY Zenon, <2>5, <2>6 DEF Walks
<1> QED
  BY Zenon, <1>1, <1>2, <1>6, <1>8, <1>11 DEF f

(* MapLeaf changes the entry of its own page alone, as its call asked for.   *)
LEMMA MapLeafStep ==
  ASSUME Base, MapLeaf
  PROVE  /\ Changes(pml4, tables, tables', {Top.virtual}) /\ DOMAIN tables' = DOMAIN tables
         /\ TranslateIn(pml4, tables', Top.virtual) = Top.physical
         /\ Reaches(pml4, tables', Top.virtual)
         /\ stack # << >> /\ stack' = Front(stack) /\ Top.virtual \in Virtual
<1> DEFINE v == Top.virtual
           t == PathIn(pml4, tables, v)[1]
           pde == [addr |-> Top.physical, flags |-> Top.flags]
           e == EntrySet(tables, t, Index(v, 1), pde)
<1>1. stack # << >> /\ Top.level = 1
  BY DEF MapLeaf
<1>2. tables' = EntrySet(tables, Top.table, Slot, pde) /\ stack' = Front(stack)
  BY Zenon DEF MapLeaf, EntrySet
<1>3. /\ v \in Virtual /\ Top.physical \in Nat
      /\ Top.flags \in SUBSET USER_PAGE /\ PRESENT \in Top.flags
      /\ Top.table = t /\ t # NULL /\ Slot = Index(v, 1)
  BY <1>1, TopWalks
<1>4. TypeOK /\ WellFormed(pml4, tables) /\ CallsWalk
  BY DEF Base
<1>5. pde \in Descriptor /\ pde.addr = Top.physical /\ pde.flags = Top.flags /\ PRESENT \in pde.flags
  BY <1>3 DEF Descriptor
<1> HIDE DEF pde
<1>9. tables' = e
  BY Zenon, <1>2, <1>3
<1>6. /\ Changes(pml4, tables, e, {v}) /\ DOMAIN e = DOMAIN tables
      /\ PathIn(pml4, e, v)[1] = t /\ EntryIn(pml4, e, v) = pde
  <2>2. Becomes(pml4, tables, e, v, pde)
    BY <1>3, <1>4, <1>5, EntrySetChanges
  <2> QED
    BY Zenon, <2>2 DEF Becomes
<1> HIDE DEF e
<1>7. TranslateIn(pml4, e, v) = Top.physical
  BY Zenon, <1>3, <1>5, <1>6 DEF TranslateIn, MappedIn
<1>8. Reaches(pml4, e, v)
  <2>1. Len(stack) \in Nat \ {0} /\ Top = stack[Len(stack)] /\ Top \in Frame
    BY <1>1, <1>4, TopIs
  <2>2. Walks(pml4, tables, Top)
    BY <1>4, <2>1 DEF CallsWalk
  <2>3. Walks(pml4, e, Top)
    BY <1>6, <2>1, <2>2, ChangesKeep
  <2>4. \A level \in 2 .. LEVELS : level > Top.level =>
          Top.flags \subseteq e[PathIn(pml4, e, v)[level]][Index(v, level)].flags
    BY Zenon, <2>3 DEF Walks
  <2>5. \A level \in 2 .. LEVELS : level > Top.level
    BY <1>1, PageNumbers
  <2> QED
    BY Zenon, <1>5, <1>6, <2>4, <2>5 DEF Reaches
<1> QED
  BY Zenon, <1>1, <1>2, <1>3, <1>9, <1>6, <1>7, <1>8 DEF v

(* Tables that do not change are well formed as before.                      *)
LEMMA ChangesNothing ==
  ASSUME NEW root, NEW tabs, WellFormed(root, tabs), NEW c
  PROVE  Changes(root, tabs, tabs, c)
<1>1. Extends(root, tabs, tabs)
  BY DEF Extends
<1>2. \A v \in Virtual \ c : SameLeaf(root, tabs, tabs, v)
  BY DEF SameLeaf
<1> QED
  BY <1>1, <1>2 DEF Changes

(* paging_unmap_page changes the entry of its own page alone.                *)
LEMMA ClearedStep ==
  ASSUME Base, NEW v \in Virtual
  PROVE  /\ Changes(pml4, tables, Cleared(v), {v}) /\ DOMAIN Cleared(v) = DOMAIN tables
         /\ TranslateIn(pml4, Cleared(v), v) = NULL
         /\ Reaches(pml4, Cleared(v), v)
         /\ PathIn(pml4, tables, v)[1] = NULL => Cleared(v) = tables
<1> DEFINE t == PathIn(pml4, tables, v)[1]
           i == Index(v, 1)
           e == EntrySet(tables, t, i, Empty)
<1>1. WellFormed(pml4, tables)
  BY DEF Base
<1>2. Cleared(v) = IF t = NULL THEN tables ELSE e
  BY Zenon, InTables DEF Cleared, EntrySet
<1>3. CASE t = NULL
  <2>1. Cleared(v) = tables
    BY <1>2, <1>3
  <2>2. Changes(pml4, tables, tables, {v})
    BY <1>1, ChangesNothing
  <2>3. ~ MappedIn(pml4, tables, v)
    BY <1>3 DEF MappedIn
  <2> QED
    BY Zenon, <2>1, <2>2, <2>3 DEF Reaches, TranslateIn
<1>4. CASE t # NULL
  <2>1. Cleared(v) = e
    BY Zenon, <1>2, <1>4
  <2>2. Empty \in Descriptor /\ Empty.flags = {} /\ Blank(Empty)
    BY DEF Empty, Descriptor, Blank
  <2>3. /\ Changes(pml4, tables, e, {v}) /\ DOMAIN e = DOMAIN tables
        /\ PathIn(pml4, e, v)[1] = t /\ EntryIn(pml4, e, v) = Empty
    <3>1. Becomes(pml4, tables, e, v, Empty)
      BY <1>1, <1>4, <2>2, EntrySetChanges
    <3> QED
      BY Zenon, <3>1 DEF Becomes
  <2> HIDE DEF e
  <2>4. ~ MappedIn(pml4, e, v)
    BY <2>2, <2>3 DEF MappedIn
  <2> QED
    BY Zenon, <1>4, <2>1, <2>3, <2>4 DEF Reaches, TranslateIn
<1> QED
  BY <1>3, <1>4

(* paging_edit_page changes the entry of its own page alone, and all the     *)
(* entries above it get the flags.                                           *)
LEMMA EditStep ==
  ASSUME Base, NEW v \in Virtual, NEW flags \in SUBSET USER_PAGE, PRESENT \in flags, Edit(v, flags)
  PROVE  /\ Changes(pml4, tables, tables', {v}) /\ DOMAIN tables' = DOMAIN tables
         /\ TranslateIn(pml4, tables', v) = EntryIn(pml4, tables, v).addr
         /\ Reaches(pml4, tables', v)
         /\ PathIn(pml4, tables, v)[1] # NULL
<1> DEFINE e == Edited(pml4, tables, v, flags)
<1>1. WellFormed(pml4, tables)
  BY DEF Base
<1>2. PathIn(pml4, tables, v)[1] # NULL /\ tables' = e
  <2> DEFINE of(P) ==
               [t \in DOMAIN tables |->
                  [i \in 0 .. FANOUT - 1 |->
                     CASE t = P[1] /\ i = Index(v, 1) -> [tables[t][i] EXCEPT !.flags = flags]
                       [] \E level \in 2 .. LEVELS : t = P[level] /\ i = Index(v, level) ->
                            [tables[t][i] EXCEPT !.flags = @ \cup flags]
                       [] OTHER -> tables[t][i]]]
  <2>1. tables' = of(Path(v)) /\ Path(v)[1] # NULL
    BY Zenon DEF Edit
  <2>2. e = of(PathIn(pml4, tables, v))
    BY Zenon DEF Edited
  <2> HIDE DEF of, e
  <2>3. Path(v) = PathIn(pml4, tables, v)
    BY InTables
  <2> QED
    BY Zenon, <2>1, <2>2, <2>3
<1>3. /\ Changes(pml4, tables, e, {v}) /\ DOMAIN e = DOMAIN tables
      /\ PathIn(pml4, e, v)[1] = PathIn(pml4, tables, v)[1]
      /\ EntryIn(pml4, e, v).addr = EntryIn(pml4, tables, v).addr
      /\ EntryIn(pml4, e, v).flags = flags
      /\ Reaches(pml4, e, v)
  <2>1. GetsFlags(pml4, tables, e, v, flags)
    BY <1>1, <1>2, EditedChanges
  <2> QED
    BY Zenon, <2>1 DEF GetsFlags
<1> HIDE DEF e
<1>4. MappedIn(pml4, e, v)
  BY <1>2, <1>3 DEF MappedIn
<1>5. TranslateIn(pml4, e, v) = EntryIn(pml4, tables, v).addr
  BY <1>3, <1>4 DEF TranslateIn
<1> QED
  BY Zenon, <1>2, <1>3, <1>5

-----------------------------------------------------------------------------
(* The first inductive invariant: types, tables, calls, flags and what the   *)
(* processor has kept.                                                       *)
Memory ==
  /\ pml4 \in DOMAIN tables /\ DOMAIN tables \subseteq 1 .. PAGES - 1
  /\ next_page \in 1 .. PAGES
  /\ Allotted /\ WellFormed(pml4, tables)

Calls == stack \in Seq(Frame) /\ CallsWalk

Others ==
  /\ pc \in {"load", "ready"} /\ loaded \in 0 .. Len(KernelMap)
  /\ cr3 \in {NULL} \cup Nat
  /\ remapping \in Windows \cup {NULL}
  /\ DOMAIN tlb \subseteq Windows /\ stale \subseteq Virtual

Reached == \A v \in Virtual : Reaches(pml4, tables, v)

Fresh == \A v \in DOMAIN tlb \ stale : tlb[v] = TranslateIn(pml4, tables, v)

(* The parts make up the invariant.                                          *)
LEMMA BaseParts == Base <=> Memory /\ Calls /\ Others
<1>1. TypedTables(tables) <=> \A t \in DOMAIN tables : tables[t] \in [0 .. FANOUT - 1 -> Descriptor]
  BY DEF TypedTables, Slots
<1>2. WellFormed(pml4, tables) => TypedTables(tables)
  BY DEF WellFormed
<1> QED
  BY Zenon, <1>1, <1>2 DEF Base, TypeOK, Memory, Calls, Others

(* The same after a step.                                                    *)
LEMMA BasePartsNext == Memory' /\ Calls' /\ Others' => Base'
<1>1. TypedTables(tables') => \A t \in DOMAIN tables' : tables'[t] \in [0 .. FANOUT - 1 -> Descriptor]
  BY DEF TypedTables, Slots
<1>2. WellFormed(pml4', tables') => TypedTables(tables')
  BY DEF WellFormed
<1> QED
  BY Zenon, <1>1, <1>2 DEF Base, TypeOK, Memory, Calls, Others

(* The entry of a page that is mapped.                                       *)
LEMMA LeafTyped ==
  ASSUME Base, NEW v \in Virtual, PathIn(pml4, tables, v)[1] # NULL
  PROVE  EntryIn(pml4, tables, v) \in Descriptor
<1>1. WellFormed(pml4, tables)
  BY DEF Base
<1>2. PICK rank : Ranked(pml4, tables, rank)
  BY Zenon, <1>1 DEF WellFormed
<1>3. Walked(pml4, tables, rank, v)
  BY <1>2, PathFacts
<1>4. PathIn(pml4, tables, v)[1] \in DOMAIN tables
  BY Zenon, <1>3, PageNumbers DEF Walked
<1>5. Index(v, 1) \in Slots
  BY PageNumbers, IndexRange DEF Slots
<1>6. TypedTables(tables)
  BY <1>1 DEF WellFormed
<1> QED
  BY <1>4, <1>5, <1>6 DEF EntryIn, TypedTables

(* A step that allocates no table.                                           *)
LEMMA MemoryStays ==
  ASSUME Base, NEW c, Changes(pml4, tables, tables', c), DOMAIN tables' = DOMAIN tables,
         pml4' = pml4, next_page' = next_page
  PROVE  Memory'
<1>1. Memory
  BY BaseParts
<1>2. WellFormed(pml4, tables')
  BY Zenon DEF Changes
<1>3. WellFormed(pml4', tables')
  BY Zenon, <1>2
<1> QED
  BY <1>1, <1>3 DEF Memory, Allotted

(* Calls in progress, where no call moves.                                   *)
LEMMA CallsStay ==
  ASSUME Base, NEW c, Changes(pml4, tables, tables', c), pml4' = pml4, stack' = stack
  PROVE  Calls'
<1>1. stack \in Seq(Frame) /\ CallsWalk
  BY DEF Base, TypeOK
<1>2. \A f \in Frame : Walks(pml4, tables, f) => Walks(pml4, tables', f)
  BY ChangesKeep
<1>3. \A i \in 1 .. Len(stack) : stack[i] \in Frame /\ Walks(pml4, tables, stack[i])
  BY <1>1 DEF CallsWalk
<1>4. \A i \in 1 .. Len(stack) : Walks(pml4, tables', stack[i])
  BY Zenon, <1>2, <1>3
<1> QED
  BY Zenon, <1>1, <1>4 DEF Calls, CallsWalk

(* Calls in progress, where there is one, just begun.                        *)
LEMMA CallsBegin ==
  ASSUME Base, WellFormed(pml4, tables'), pml4' = pml4,
         NEW v \in Virtual, NEW p \in Nat, NEW flags \in SUBSET USER_PAGE, PRESENT \in flags,
         stack' = <<Call(v, p, flags)>>
  PROVE  Calls'
<1> DEFINE f == Call(v, p, flags)
<1>1. pml4 \in Nat
  BY DEF Base, TypeOK
<1>2. f \in Frame /\ Walks(pml4, tables', f)
  BY <1>1, CallWalks
<1> HIDE DEF f
<1>3. <<f>> \in Seq(Frame) /\ Len(<<f>>) = 1 /\ <<f>>[1] = f
  BY <1>2
<1>4. \A i \in 1 .. Len(<<f>>) : Walks(pml4, tables', <<f>>[i])
  BY <1>2, <1>3
<1>5. stack' = <<f>>
  BY DEF f
<1> QED
  BY Zenon, <1>3, <1>4, <1>5 DEF Calls, CallsWalk

(* The flags of pages, where a step sees to those that it changes.           *)
LEMMA ReachedStays ==
  ASSUME Reached, NEW c, Changes(pml4, tables, tables', c), pml4' = pml4,
         \A v \in c : Reaches(pml4, tables', v)
  PROVE  Reached'
<1>1. \A v \in Virtual \ c : Reaches(pml4, tables, v) => Reaches(pml4, tables', v)
  BY ChangesKeep
<1> QED
  BY <1>1 DEF Reached

(* What the processor has kept, where a step sees to the pages it changes.   *)
LEMMA FreshStays ==
  ASSUME Fresh, NEW c, Changes(pml4, tables, tables', c), pml4' = pml4,
         DOMAIN tlb \subseteq Virtual,
         \A v \in DOMAIN tlb' \ stale' : v \in DOMAIN tlb \ stale /\ tlb'[v] = tlb[v] /\ v \notin c
  PROVE  Fresh'
<1>1. \A v \in Virtual \ c : TranslateIn(pml4, tables', v) = TranslateIn(pml4, tables, v)
  BY ChangesKeep
<1>2. \A v \in DOMAIN tlb' \ stale' : tlb'[v] = TranslateIn(pml4, tables', v)
  BY <1>1 DEF Fresh
<1> QED
  BY Zenon, <1>2 DEF Fresh

-----------------------------------------------------------------------------
(* The calls of paging_map_page.                                             *)
Inv == Base /\ Reached /\ Fresh

(* paging_map_page goes down one level.                                      *)
LEMMA DescendInv == ASSUME Inv, Descend PROVE Inv'
<1> USE DEF Inv
<1>1. /\ Changes(pml4, tables, tables', {}) /\ DOMAIN tables' = DOMAIN tables
      /\ \E t \in DOMAIN tables : stack' = Moved(stack, t)
      /\ Walks(pml4, tables', stack'[Len(stack)])
      /\ stack # << >> /\ Top.level > 1
  BY DescendStep
<1>2. UNCHANGED <<pml4, next_page, pc, loaded, cr3, remapping, tlb, stale>>
  BY Zenon DEF Descend, loadVars, tlbVars
<1>3. Memory /\ Calls /\ Others /\ DOMAIN tlb \subseteq Virtual
  BY BaseParts, PagingAssumption DEF Others
<1>4. Memory'
  BY <1>1, <1>2, MemoryStays
<1>5. Others'
  BY <1>2, <1>3 DEF Others
<1>6. Calls'
  <2>1. PICK t \in DOMAIN tables : stack' = Moved(stack, t)
    BY <1>1
  <2>2. t \in Nat
    BY <1>3 DEF Memory
  <2>3. /\ stack \in Seq(Frame) /\ Len(stack) \in Nat \ {0} /\ stack[Len(stack)] = Top
        /\ \A i \in 1 .. Len(stack) : stack[i] \in Frame /\ Walks(pml4, tables, stack[i])
    BY <1>1, TopIs DEF Base, TypeOK, CallsWalk
  <2>4. /\ stack' \in Seq(Frame) /\ Len(stack') = Len(stack)
        /\ \A i \in 1 .. Len(stack) - 1 : stack'[i] = stack[i]
    BY <1>1, <2>1, <2>2, <2>3, MovedIs
  <2>5. \A f \in Frame : Walks(pml4, tables, f) => Walks(pml4, tables', f)
    BY <1>1, ChangesKeep
  <2>6. \A i \in 1 .. Len(stack') : i = Len(stack) \/ i \in 1 .. Len(stack) - 1
    BY <2>3, <2>4
  <2>7. \A i \in 1 .. Len(stack) - 1 : i \in 1 .. Len(stack)
    OBVIOUS
  <2>8. \A i \in 1 .. Len(stack') : Walks(pml4, tables', stack'[i])
    BY Zenon, <1>1, <2>3, <2>4, <2>5, <2>6, <2>7
  <2> QED
    BY Zenon, <1>2, <2>4, <2>8 DEF Calls, CallsWalk
<1>7. Reached'
  BY <1>1, <1>2, ReachedStays
<1>8. Fresh'
  BY <1>1, <1>2, <1>3, FreshStays
<1> QED
  BY <1>4, <1>5, <1>6, <1>7, <1>8, BasePartsNext

(* paging_map_page links a new table and calls itself to map it.             *)
LEMMA GrowInv == ASSUME Inv, Grow PROVE Inv'
<1> USE DEF Inv
<1> DEFINE moved == Moved(stack, next_page)
           f == Call(next_page, next_page, KERNEL_PAGE)
<1>1. /\ Changes(pml4, tables, tables', {})
      /\ DOMAIN tables' = DOMAIN tables \cup {next_page}
      /\ next_page \in FIRST_PAGE .. PAGES - 1 /\ next_page \in Virtual /\ next_page \in Nat
      /\ stack' = Append(moved, f)
      /\ Walks(pml4, tables', moved[Len(stack)])
      /\ stack # << >> /\ Top.level > 1
  BY GrowStep
<1>2. UNCHANGED <<pml4, pc, loaded, cr3, remapping, tlb, stale>> /\ next_page' = next_page + 1
  BY Zenon DEF Grow, loadVars, tlbVars
<1>3. Memory /\ Calls /\ Others /\ DOMAIN tlb \subseteq Virtual
  BY BaseParts, PagingAssumption DEF Others
<1>4. Memory'
  <2>1. WellFormed(pml4, tables')
    BY Zenon, <1>1 DEF Changes
  <2>2. WellFormed(pml4', tables')
    BY Zenon, <1>2, <2>1
  <2>3. pml4' \in DOMAIN tables' /\ DOMAIN tables' \subseteq 1 .. PAGES - 1 /\ next_page' \in 1 .. PAGES
    BY <1>1, <1>2, <1>3, PageNumbers DEF Memory
  <2>4. Allotted'
    BY <1>1, <1>2, <1>3, PageNumbers DEF Memory, Allotted
  <2> QED
    BY Zenon, <2>2, <2>3, <2>4 DEF Memory
<1>5. Others'
  BY <1>2, <1>3 DEF Others
<1>6. Calls'
  <2>1. /\ stack \in Seq(Frame) /\ Len(stack) \in Nat \ {0} /\ stack[Len(stack)] = Top
        /\ \A i \in 1 .. Len(stack) : stack[i] \in Frame /\ Walks(pml4, tables, stack[i])
    BY <1>1, TopIs DEF Base, TypeOK, CallsWalk
  <2>2. /\ moved \in Seq(Frame) /\ Len(moved) = Len(stack)
        /\ \A i \in 1 .. Len(stack) - 1 : moved[i] = stack[i]
    BY <1>1, <2>1, MovedIs
  <2>3. f \in Frame /\ Walks(pml4, tables', f)
    <3>1. WellFormed(pml4, tables')
      BY Zenon, <1>1 DEF Changes
    <3>2. KERNEL_PAGE \in SUBSET USER_PAGE /\ PRESENT \in KERNEL_PAGE /\ pml4 \in Nat
      BY <1>3 DEF KERNEL_PAGE, USER_PAGE, Memory
    <3> QED
      BY <1>1, <3>1, <3>2, CallWalks
  <2>4. \A g \in Frame : Walks(pml4, tables, g) => Walks(pml4, tables', g)
    BY <1>1, ChangesKeep
  <2> HIDE DEF moved, f
  <2>5. /\ stack' \in Seq(Frame) /\ Len(stack') = Len(stack) + 1 /\ stack'[Len(stack) + 1] = f
        /\ \A i \in 1 .. Len(stack) : stack'[i] = moved[i]
    BY <1>1, <2>1, <2>2, <2>3
  <2>6. \A i \in 1 .. Len(stack') :
          i = Len(stack) + 1 \/ (i = Len(stack) /\ i \in 1 .. Len(stack))
            \/ (i \in 1 .. Len(stack) - 1 /\ i \in 1 .. Len(stack))
    BY <2>1, <2>5
  <2>7. \A i \in 1 .. Len(stack') : Walks(pml4, tables', stack'[i])
    BY Zenon, <1>1, <2>1, <2>2, <2>3, <2>4, <2>5, <2>6
  <2> QED
    BY Zenon, <1>2, <2>5, <2>7 DEF Calls, CallsWalk
<1>7. Reached'
  BY <1>1, <1>2, ReachedStays
<1>8. Fresh'
  BY <1>1, <1>2, <1>3, FreshStays
<1> QED
  BY <1>4, <1>5, <1>6, <1>7, <1>8, BasePartsNext

(* paging_map_page writes its page's entry and returns.                      *)
LEMMA MapLeafInv == ASSUME Inv, MapLeaf PROVE Inv'
<1> USE DEF Inv
<1>1. /\ Changes(pml4, tables, tables', {Top.virtual}) /\ DOMAIN tables' = DOMAIN tables
      /\ Reaches(pml4, tables', Top.virtual)
      /\ stack # << >> /\ stack' = Front(stack) /\ Top.virtual \in Virtual
  BY MapLeafStep
<1>2. /\ UNCHANGED <<pml4, next_page, pc, loaded, cr3>>
      /\ IF Len(stack) = 1 /\ remapping # NULL
         THEN /\ tlb' = [u \in DOMAIN tlb \ {remapping} |-> tlb[u]]
              /\ stale' = (stale \cup {Top.virtual}) \ {remapping}
              /\ remapping' = NULL
         ELSE stale' = stale \cup {Top.virtual} /\ tlb' = tlb /\ remapping' = remapping
  BY Zenon DEF MapLeaf, loadVars
<1>3. Memory /\ Calls /\ Others /\ DOMAIN tlb \subseteq Virtual
  BY BaseParts, PagingAssumption DEF Others
<1>4. Memory'
  BY <1>1, <1>2, MemoryStays
<1>5. Others'
  BY <1>1, <1>2, <1>3 DEF Others
<1>6. Calls'
  <2>1. /\ stack \in Seq(Frame) /\ Len(stack) \in Nat \ {0}
        /\ stack' \in Seq(Frame) /\ Len(stack') = Len(stack) - 1
        /\ \A i \in 1 .. Len(stack) - 1 : stack'[i] = stack[i]
        /\ \A i \in 1 .. Len(stack) : stack[i] \in Frame /\ Walks(pml4, tables, stack[i])
    BY <1>1, TopIs DEF Base, TypeOK, CallsWalk
  <2>2. \A f \in Frame : Walks(pml4, tables, f) => Walks(pml4, tables', f)
    BY <1>1, ChangesKeep
  <2>3. \A i \in 1 .. Len(stack') : i \in 1 .. Len(stack) - 1 /\ i \in 1 .. Len(stack)
    BY <2>1
  <2>4. \A i \in 1 .. Len(stack') : Walks(pml4, tables', stack'[i])
    BY Zenon, <2>1, <2>2, <2>3
  <2> QED
    BY Zenon, <1>2, <2>1, <2>4 DEF Calls, CallsWalk
<1>7. Reached'
  BY <1>1, <1>2, ReachedStays
<1>8. Fresh'
  <2>1. \A v \in DOMAIN tlb' \ stale' : v \in DOMAIN tlb \ stale /\ tlb'[v] = tlb[v] /\ v \notin {Top.virtual}
    BY <1>2
  <2> QED
    BY <1>1, <1>2, <1>3, <2>1, FreshStays
<1> QED
  BY <1>4, <1>5, <1>6, <1>7, <1>8, BasePartsNext

-----------------------------------------------------------------------------
(* The kernel's map and its callers.                                         *)

(* The loop that maps the kernel makes its next call.                        *)
LEMMA LoadInv == ASSUME Inv, Load PROVE Inv'
<1> USE DEF Inv
<1> DEFINE k == loaded + 1
<1>1. /\ UNCHANGED <<pml4, tables, next_page, pc, cr3, remapping, tlb, stale>>
      /\ loaded < Len(KernelMap) /\ loaded' = k
      /\ stack' = <<Call(KernelMap[k][1], KernelMap[k][2], KERNEL_PAGE)>>
  BY Zenon DEF Load, memVars, tlbVars
<1>2. Memory /\ Calls /\ Others /\ DOMAIN tlb \subseteq Virtual
  BY BaseParts, PagingAssumption DEF Others
<1>3. k \in 1 .. Len(KernelMap) /\ Len(KernelMap) \in Nat
  BY <1>1, <1>2, KernelMapFacts DEF Others
<1>4. WellFormed(pml4, tables)
  BY <1>2 DEF Memory
<1>5. Changes(pml4, tables, tables', {}) /\ DOMAIN tables' = DOMAIN tables /\ WellFormed(pml4, tables')
  BY Zenon, <1>1, <1>4, ChangesNothing
<1>6. Memory'
  BY <1>1, <1>5, MemoryStays
<1>7. Others'
  BY <1>1, <1>2, <1>3 DEF Others
<1>8. Calls'
  <2>1. KernelMap[k][1] \in Virtual /\ KernelMap[k][2] \in Nat
    BY <1>3, KernelMapFacts
  <2>2. KERNEL_PAGE \in SUBSET USER_PAGE /\ PRESENT \in KERNEL_PAGE
    BY DEF KERNEL_PAGE, USER_PAGE
  <2> QED
    BY <1>1, <1>5, <2>1, <2>2, CallsBegin
<1>9. Reached'
  BY <1>1, <1>5, ReachedStays
<1>10. Fresh'
  BY <1>1, <1>2, <1>5, FreshStays
<1> QED
  BY <1>6, <1>7, <1>8, <1>9, <1>10, BasePartsNext

(* A caller maps a page.                                                     *)
LEMMA MapInv ==
  ASSUME Inv, NEW v \in Windows, NEW p \in DataPages, NEW flags \in CallerFlags, Map(v, p, flags)
  PROVE  Inv'
<1> USE DEF Inv
<1>1. /\ UNCHANGED <<pml4, tables, next_page, pc, loaded, cr3, remapping, tlb, stale>>
      /\ stack' = <<Call(v, p, flags)>>
  BY Zenon DEF Map, memVars, loadVars, tlbVars
<1>2. Memory /\ Calls /\ Others /\ DOMAIN tlb \subseteq Virtual
  BY BaseParts, PagingAssumption DEF Others
<1>3. WellFormed(pml4, tables)
  BY <1>2 DEF Memory
<1>4. Changes(pml4, tables, tables', {}) /\ DOMAIN tables' = DOMAIN tables /\ WellFormed(pml4, tables')
  BY Zenon, <1>1, <1>3, ChangesNothing
<1>5. Memory'
  BY <1>1, <1>4, MemoryStays
<1>6. Others'
  BY <1>1, <1>2 DEF Others
<1>7. Calls'
  <2>1. v \in Virtual /\ p \in Nat /\ flags \in SUBSET USER_PAGE /\ PRESENT \in flags
    BY PagingAssumption
  <2> QED
    BY <1>1, <1>4, <2>1, CallsBegin
<1>8. Reached'
  BY <1>1, <1>4, ReachedStays
<1>9. Fresh'
  BY <1>1, <1>2, <1>4, FreshStays
<1> QED
  BY <1>5, <1>6, <1>7, <1>8, <1>9, BasePartsNext

(* cr3 is loaded.                                                            *)
LEMMA SyncInv == ASSUME Inv, Sync PROVE Inv'
<1> USE DEF Inv
<1>1. /\ UNCHANGED <<pml4, tables, next_page, loaded, stack, remapping>>
      /\ pc' = "ready" /\ cr3' = Walk(pml4) /\ tlb' = [v \in {} |-> NULL] /\ stale' = {}
  BY Zenon DEF Sync, memVars
<1>2. Memory /\ Calls /\ Others /\ DOMAIN tlb \subseteq Virtual
  BY BaseParts, PagingAssumption DEF Others
<1>3. WellFormed(pml4, tables)
  BY <1>2 DEF Memory
<1>4. Changes(pml4, tables, tables', {}) /\ DOMAIN tables' = DOMAIN tables
  BY Zenon, <1>1, <1>3, ChangesNothing
<1>5. Memory'
  BY <1>1, <1>4, MemoryStays
<1>6. Others'
  <2>1. Walk(pml4) \in Nat
    <3>1. pml4 \in Virtual
      BY <1>2, PageNumbers DEF Memory
    <3>2. Walk(pml4) = IF PathIn(pml4, tables, pml4)[1] = NULL THEN 0 ELSE EntryIn(pml4, tables, pml4).addr
      BY InTables DEF Walk
    <3>3. PathIn(pml4, tables, pml4)[1] # NULL => EntryIn(pml4, tables, pml4) \in Descriptor
      BY <3>1, LeafTyped
    <3> QED
      BY <3>2, <3>3 DEF Descriptor
  <2> QED
    BY <1>1, <1>2, <2>1 DEF Others
<1>7. Calls'
  BY <1>1, <1>4, CallsStay
<1>8. Reached'
  BY <1>1, <1>4, ReachedStays
<1>9. Fresh'
  BY <1>1 DEF Fresh
<1> QED
  BY <1>5, <1>6, <1>7, <1>8, <1>9, BasePartsNext

(* A caller unmaps a page.                                                   *)
LEMMA UnmapInv == ASSUME Inv, NEW v \in Windows, Unmap(v) PROVE Inv'
<1> USE DEF Inv
<1>1. /\ UNCHANGED <<pml4, next_page, pc, loaded, cr3, stack, remapping>>
      /\ tables' = Cleared(v)
      /\ IF PathIn(pml4, tables, v)[1] = NULL THEN tlb' = tlb /\ stale' = stale
         ELSE tlb' = [u \in DOMAIN tlb \ {v} |-> tlb[u]] /\ stale' = stale \ {v}
  BY Zenon, InTables DEF Unmap, loadVars, tlbVars, Invlpg
<1>2. Memory /\ Calls /\ Others /\ DOMAIN tlb \subseteq Virtual /\ v \in Virtual
  BY BaseParts, PagingAssumption DEF Others
<1>3. /\ Changes(pml4, tables, tables', {v}) /\ DOMAIN tables' = DOMAIN tables
      /\ Reaches(pml4, tables', v)
      /\ PathIn(pml4, tables, v)[1] = NULL => tables' = tables
  BY Zenon, <1>1, <1>2, ClearedStep
<1>4. Memory'
  BY <1>1, <1>3, MemoryStays
<1>5. Others'
  BY <1>1, <1>2 DEF Others
<1>6. Calls'
  BY <1>1, <1>3, CallsStay
<1>7. Reached'
  BY <1>1, <1>3, ReachedStays
<1>8. Fresh'
  <2>1. CASE PathIn(pml4, tables, v)[1] = NULL
    <3>1. tables' = tables /\ tlb' = tlb /\ stale' = stale
      BY <1>1, <1>3, <2>1
    <3>2. pml4' = pml4
      BY <1>1
    <3> QED
      BY Zenon, <3>1, <3>2 DEF Fresh
  <2>2. CASE PathIn(pml4, tables, v)[1] # NULL
    <3>1. tlb' = [u \in DOMAIN tlb \ {v} |-> tlb[u]] /\ stale' = stale \ {v}
      BY <1>1, <2>2
    <3>2. \A u \in DOMAIN tlb' \ stale' : u \in DOMAIN tlb \ stale /\ tlb'[u] = tlb[u] /\ u \notin {v}
      BY <3>1
    <3> QED
      BY <1>1, <1>2, <1>3, <3>2, FreshStays
  <2> QED
    BY <2>1, <2>2
<1> QED
  BY <1>4, <1>5, <1>6, <1>7, <1>8, BasePartsNext

(* A caller edits the flags of a page.                                       *)
LEMMA EditInv ==
  ASSUME Inv, NEW v \in Windows, NEW flags \in CallerFlags, Edit(v, flags) PROVE Inv'
<1> USE DEF Inv
<1>1. /\ UNCHANGED <<pml4, next_page, pc, loaded, cr3, stack, remapping>>
      /\ tlb' = [u \in DOMAIN tlb \ {v} |-> tlb[u]] /\ stale' = stale \ {v}
  BY Zenon DEF Edit, loadVars, Invlpg
<1>2. Memory /\ Calls /\ Others /\ DOMAIN tlb \subseteq Virtual /\ v \in Virtual
  BY BaseParts, PagingAssumption DEF Others
<1>3. /\ Changes(pml4, tables, tables', {v}) /\ DOMAIN tables' = DOMAIN tables
      /\ Reaches(pml4, tables', v)
  <2>1. flags \in SUBSET USER_PAGE /\ PRESENT \in flags
    BY PagingAssumption
  <2> QED
    BY <1>2, <2>1, EditStep
<1>4. Memory'
  BY <1>1, <1>3, MemoryStays
<1>5. Others'
  BY <1>1, <1>2 DEF Others
<1>6. Calls'
  BY <1>1, <1>3, CallsStay
<1>7. Reached'
  BY <1>1, <1>3, ReachedStays
<1>8. Fresh'
  <2>1. \A u \in DOMAIN tlb' \ stale' : u \in DOMAIN tlb \ stale /\ tlb'[u] = tlb[u] /\ u \notin {v}
    BY <1>1
  <2> QED
    BY <1>1, <1>2, <1>3, <2>1, FreshStays
<1> QED
  BY <1>4, <1>5, <1>6, <1>7, <1>8, BasePartsNext

(* A caller moves a page.                                                    *)
LEMMA RemapInv == ASSUME Inv, NEW old \in Windows, NEW new \in Windows, Remap(old, new) PROVE Inv'
<1> USE DEF Inv
<1> DEFINE leaf == EntryIn(pml4, tables, old)
<1>1. /\ UNCHANGED <<pml4, next_page, pc, loaded, cr3>>
      /\ MappedIn(pml4, tables, old) /\ tables' = Cleared(old)
      /\ tlb' = [u \in DOMAIN tlb \ {old} |-> tlb[u]] /\ stale' = stale \ {old}
      /\ \E p \in {leaf.addr, 0} : stack' = <<Call(new, p, leaf.flags)>>
      /\ remapping' = old
  BY Zenon, InTables DEF Remap, loadVars, Invlpg
<1>2. Memory /\ Calls /\ Others /\ DOMAIN tlb \subseteq Virtual /\ old \in Virtual /\ new \in Virtual
  BY BaseParts, PagingAssumption DEF Others
<1>3. /\ Changes(pml4, tables, tables', {old}) /\ DOMAIN tables' = DOMAIN tables
      /\ Reaches(pml4, tables', old)
  BY Zenon, <1>1, <1>2, ClearedStep
<1>4. Memory'
  BY <1>1, <1>3, MemoryStays
<1>5. Others'
  BY <1>1, <1>2 DEF Others
<1>6. Calls'
  <2>1. PathIn(pml4, tables, old)[1] # NULL /\ PRESENT \in leaf.flags
    BY Zenon, <1>1 DEF MappedIn
  <2>2. leaf \in Descriptor
    BY <1>2, <2>1, LeafTyped
  <2> HIDE DEF leaf
  <2>3. PICK p \in {leaf.addr, 0} : stack' = <<Call(new, p, leaf.flags)>>
    BY <1>1
  <2>4. p \in Nat /\ leaf.flags \in SUBSET USER_PAGE
    BY <2>2 DEF Descriptor
  <2>5. WellFormed(pml4, tables')
    BY Zenon, <1>3 DEF Changes
  <2> QED
    BY <1>1, <1>2, <2>1, <2>3, <2>4, <2>5, CallsBegin
<1>7. Reached'
  BY <1>1, <1>3, ReachedStays
<1>8. Fresh'
  <2>1. \A u \in DOMAIN tlb' \ stale' : u \in DOMAIN tlb \ stale /\ tlb'[u] = tlb[u] /\ u \notin {old}
    BY <1>1
  <2> QED
    BY <1>1, <1>2, <1>3, <2>1, FreshStays
<1> QED
  BY <1>4, <1>5, <1>6, <1>7, <1>8, BasePartsNext

(* A caller invalidates a page, or the processor translates one.             *)
LEMMA ProcessorInv ==
  ASSUME Inv, NEW v \in Windows, Invalidate(v) \/ Fill(v) PROVE Inv'
<1> USE DEF Inv
<1>1. UNCHANGED <<pml4, tables, next_page, pc, loaded, cr3, stack, remapping>>
  BY Zenon DEF Invalidate, Fill, memVars, loadVars
<1>2. Memory /\ Calls /\ Others /\ DOMAIN tlb \subseteq Virtual /\ v \in Virtual
  BY BaseParts, PagingAssumption DEF Others
<1>3. WellFormed(pml4, tables)
  BY <1>2 DEF Memory
<1>4. Changes(pml4, tables, tables', {}) /\ DOMAIN tables' = DOMAIN tables
  BY Zenon, <1>1, <1>3, ChangesNothing
<1>5. Memory'
  BY <1>1, <1>4, MemoryStays
<1>6. Calls'
  BY <1>1, <1>4, CallsStay
<1>7. Reached'
  BY <1>1, <1>4, ReachedStays
<1>8. Others' /\ Fresh'
  <2>1. CASE Invalidate(v)
    <3>1. tlb' = [u \in DOMAIN tlb \ {v} |-> tlb[u]] /\ stale' = stale \ {v}
      BY Zenon, <2>1 DEF Invalidate, Invlpg
    <3>2. Others'
      BY <1>1, <1>2, <3>1 DEF Others
    <3>3. \A u \in DOMAIN tlb' \ stale' : u \in DOMAIN tlb \ stale /\ tlb'[u] = tlb[u] /\ u \notin {}
      BY <3>1
    <3>4. Fresh'
      BY <1>1, <1>2, <1>4, <3>3, FreshStays
    <3> QED
      BY <3>2, <3>4
  <2>2. CASE Fill(v)
    <3>1. /\ v \notin DOMAIN tlb /\ stale' = stale
          /\ tlb' = [u \in DOMAIN tlb \cup {v} |-> IF u = v THEN TranslateIn(pml4, tables, v) ELSE tlb[u]]
      BY Zenon, <2>2, InTables DEF Fill
    <3>2. Others'
      BY <1>1, <1>2, <3>1 DEF Others
    <3>3. \A u \in DOMAIN tlb' \ stale' : tlb'[u] = TranslateIn(pml4, tables, u)
      BY <3>1 DEF Fresh
    <3>4. Fresh'
      BY Zenon, <1>1, <3>3 DEF Fresh
    <3> QED
      BY <3>2, <3>4
  <2> QED
    BY <2>1, <2>2
<1> QED
  BY <1>5, <1>6, <1>7, <1>8, BasePartsNext

(* The first table alone is a tree.                                          *)
LEMMA InitInv == ASSUME Init PROVE Inv
<1> DEFINE rank == [t \in {FIRST_PAGE} |-> LEVELS]
<1>1. /\ pml4 = FIRST_PAGE /\ next_page = FIRST_PAGE + 1
      /\ tables = [t \in {FIRST_PAGE} |-> EmptyTable]
      /\ pc = "load" /\ loaded = 0 /\ cr3 = NULL
      /\ stack = << >> /\ remapping = NULL
      /\ tlb = [v \in {} |-> NULL] /\ stale = {}
  BY DEF Init
<1>2. /\ TypedTables(tables) /\ DOMAIN tables = {FIRST_PAGE}
      /\ \A t \in DOMAIN tables, i \in Slots : Blank(tables[t][i])
  <2>1. Empty \in Descriptor /\ Blank(Empty)
    BY DEF Empty, Descriptor, Blank
  <2> HIDE DEF Descriptor
  <2>2. EmptyTable \in [Slots -> Descriptor] /\ \A i \in Slots : Blank(EmptyTable[i])
    BY <2>1 DEF EmptyTable, Slots
  <2> QED
    BY <1>1, <2>2 DEF TypedTables
<1>3. \A t \in DOMAIN tables, i \in Slots : ~ Present(tables, t, i)
  BY <1>2 DEF Present, Blank
<1>4. Ranked(pml4, tables, rank)
  <2>1. Topped(pml4, tables, rank)
    BY <1>1, <1>2, PageNumbers DEF Topped, NULL
  <2>2. Falls(tables, rank) /\ Once(tables, rank)
    BY <1>3 DEF Falls, Once, Leads
  <2>3. Hangs(pml4, tables, rank)
    BY <1>1, <1>2 DEF Hangs
  <2> QED
    BY <2>1, <2>2, <2>3 DEF Ranked
<1>5. Marked(tables)
  BY <1>2 DEF Marked
<1>6. WellFormed(pml4, tables)
  BY Zenon, <1>2, <1>4, <1>5 DEF WellFormed
<1>7. Memory
  BY <1>1, <1>2, <1>6, PageNumbers DEF Memory, Allotted
<1>8. Calls
  BY <1>1 DEF Calls, CallsWalk
<1>9. Others
  BY <1>1, KernelMapFacts DEF Others
<1>10. Reached
  <2> SUFFICES ASSUME NEW v \in Virtual PROVE ~ MappedIn(pml4, tables, v)
    BY DEF Reached, Reaches
  <2>1. Walked(pml4, tables, rank, v)
    BY <1>4, PathFacts
  <2>2. PathIn(pml4, tables, v)[1] # NULL => PathIn(pml4, tables, v)[1] \in DOMAIN tables
    BY Zenon, <2>1, PageNumbers DEF Walked
  <2>3. Index(v, 1) \in Slots
    BY PageNumbers, IndexRange DEF Slots
  <2> QED
    BY <1>3, <2>2, <2>3 DEF MappedIn, EntryIn, Present
<1>11. Fresh
  BY <1>1 DEF Fresh
<1> QED
  BY <1>7, <1>8, <1>9, <1>10, <1>11, BaseParts DEF Inv

(* Nothing happens.                                                          *)
LEMMA StutterInv == ASSUME Inv, UNCHANGED vars PROVE Inv'
<1>1. UNCHANGED <<pml4, tables, next_page, pc, loaded, cr3, stack, remapping, tlb, stale>>
  BY Zenon DEF vars, memVars, loadVars, tlbVars
<1>2. Memory /\ Calls /\ Others
  BY BaseParts DEF Inv
<1>3. Memory'
  BY Zenon, <1>1, <1>2 DEF Memory, Allotted
<1>4. Calls'
  BY Zenon, <1>1, <1>2 DEF Calls, CallsWalk
<1>5. Others'
  BY Zenon, <1>1, <1>2 DEF Others
<1>6. Reached'
  BY Zenon, <1>1 DEF Inv, Reached
<1>7. Fresh'
  BY Zenon, <1>1 DEF Inv, Fresh
<1> QED
  BY <1>3, <1>4, <1>5, <1>6, <1>7, BasePartsNext DEF Inv

(* Every step keeps the invariant.                                           *)
LEMMA NextInv == Inv /\ [Next]_vars => Inv'
<1> SUFFICES ASSUME Inv, [Next]_vars PROVE Inv'
  OBVIOUS
<1>1. CASE MapStep
  BY <1>1, DescendInv, GrowInv, MapLeafInv DEF MapStep
<1>2. CASE Load
  BY <1>2, LoadInv
<1>3. CASE Sync
  BY <1>3, SyncInv
<1>4. ASSUME NEW v \in Windows, NEW p \in DataPages, NEW flags \in CallerFlags, Map(v, p, flags)
      PROVE  Inv'
  BY <1>4, MapInv
<1>5. ASSUME NEW v \in Windows, Unmap(v) \/ Invalidate(v) \/ Fill(v) PROVE Inv'
  BY <1>5, UnmapInv, ProcessorInv
<1>6. ASSUME NEW v \in Windows, NEW flags \in CallerFlags, Edit(v, flags) PROVE Inv'
  BY <1>6, EditInv
<1>7. ASSUME NEW old \in Windows, NEW new \in Windows, Remap(old, new) PROVE Inv'
  BY <1>7, RemapInv
<1>8. CASE UNCHANGED vars
  BY <1>8, StutterInv
<1> QED
  BY Zenon, <1>1, <1>2, <1>3, <1>4, <1>5, <1>6, <1>7, <1>8 DEF Next

(* The invariant holds in every behaviour.                                   *)
LEMMA Invariant == Spec => []Inv
<1>1. Init => Inv
  BY InitInv
<1> QED
  BY <1>1, NextInv, PTL DEF Spec

(* Tables, calls and what the processor keeps are of their types: the calls  *)
(* of paging_map_page, inside one another, never name a table that is not    *)
(* one, and pmm_alloc_page()'s pages are never beyond memory.                *)
THEOREM PagingTyped == Spec => []TypeOK
<1>1. Inv => TypeOK
  BY DEF Inv, Base
<1> QED
  BY <1>1, Invariant, PTL

(* What a page's own entry grants, every entry above it grants, whichever    *)
(* calls of paging_map_page and paging_edit_page made them.                  *)
THEOREM FlagsAlwaysReach == Spec => []FlagsReach
<1>1. Inv => FlagsReach
  <2> SUFFICES ASSUME Inv PROVE FlagsReach
    OBVIOUS
  <2>1. \A v \in Virtual : Reaches(pml4, tables, v)
    BY DEF Inv, Reached
  <2> QED
    BY Zenon, <2>1, InTables DEF FlagsReach, Reaches
<1> QED
  BY <1>1, Invariant, PTL

(* The processor keeps no translation that the tables have not, but for      *)
(* pages that paging_map_page has mapped anew.                               *)
THEOREM TlbAlwaysFresh == Spec => []TlbFresh
<1>1. Inv => TlbFresh
  <2> SUFFICES ASSUME Inv PROVE TlbFresh
    OBVIOUS
  <2>1. \A v \in DOMAIN tlb \ stale : tlb[v] = TranslateIn(pml4, tables, v)
    BY DEF Inv, Fresh
  <2> QED
    BY Zenon, <2>1, InTables DEF TlbFresh
<1> QED
  BY <1>1, Invariant, PTL

-----------------------------------------------------------------------------
(* The second inductive invariant: what has been asked for is mapped, or a   *)
(* call that will map it is in progress.                                     *)
Awaited(s, v) == \E i \in 1 .. Len(s) : s[i].virtual = v

Settled(root, tabs, s, v) == TranslateIn(root, tabs, v) = Home(v) \/ Awaited(s, v)

MayBeTables == FIRST_PAGE .. PAGES - 1

(* The kernel's map, and the pages of tables, are mapped at home.            *)
Homes ==
  \A i \in 1 .. Len(stack) : pc = "load" \/ stack[i].virtual \in MayBeTables =>
    stack[i].physical = Home(stack[i].virtual)

TablesSettled ==
  \A t \in DOMAIN tables : t # pml4 \/ pc = "ready" => Settled(pml4, tables, stack, t)

LoadSettled ==
  pc = "load" => \A k \in 1 .. loaded : Settled(pml4, tables, stack, KernelMap[k][1])

Settling ==
  Homes /\ TablesSettled /\ LoadSettled /\ (pc = "ready" => cr3 = pml4)

(* Pages that may become tables are at home at their own address, and no     *)
(* caller has them.                                                          *)
LEMMA TablePages ==
  /\ \A t \in MayBeTables : Home(t) = t /\ t \in Virtual /\ t \notin Windows
  /\ Inv => DOMAIN tables \subseteq MayBeTables
<1>1. \A t \in MayBeTables : Home(t) = t /\ t \in Virtual /\ t \notin Windows
  <2> SUFFICES ASSUME NEW t \in MayBeTables PROVE Home(t) = t /\ t \in Virtual /\ t \notin Windows
    OBVIOUS
  <2>1. t \in 1 .. PAGES - 1 /\ t < PAGES /\ t \in Nat
    BY PageNumbers DEF MayBeTables
  <2>2. t < OFFSET
    BY <2>1, PageNumbers, KernelMapAssumption
  <2>3. t \notin Windows
    BY KernelMapAssumption DEF MayBeTables
  <2>4. t \in Virtual
    BY <2>1, PageNumbers
  <2> QED
    BY <2>2, <2>3, <2>4 DEF Home
<1>2. ASSUME Inv PROVE DOMAIN tables \subseteq MayBeTables
  <2>1. DOMAIN tables \subseteq FIRST_PAGE .. next_page - 1 /\ DOMAIN tables \subseteq 1 .. PAGES - 1
    BY <1>2 DEF Inv, Base, Allotted, TypeOK
  <2> QED
    BY <2>1, PageNumbers DEF MayBeTables
<1> QED
  BY <1>1, <1>2

(* Without calls in progress, what is settled is mapped.                     *)
LEMMA SettledMapped ==
  ASSUME NEW root, NEW tabs, NEW v, Settled(root, tabs, << >>, v)
  PROVE  TranslateIn(root, tabs, v) = Home(v)
BY DEF Settled, Awaited

(* A step that leaves settled what matters.                                  *)
LEMMA SettlingStays ==
  ASSUME Inv, Settling, UNCHANGED <<pml4, pc, loaded, cr3>>, Homes',
         \A v \in Virtual : pc = "load" \/ v \in MayBeTables =>
           (Settled(pml4, tables, stack, v) => Settled(pml4, tables', stack', v)),
         \A t \in DOMAIN tables' \ DOMAIN tables : Settled(pml4, tables', stack', t)
  PROVE  Settling'
<1>1. TablesSettled'
  <2> SUFFICES ASSUME NEW t \in DOMAIN tables', t # pml4 \/ pc = "ready"
               PROVE  Settled(pml4, tables', stack', t)
    BY Zenon DEF TablesSettled
  <2>1. CASE t \in DOMAIN tables
    <3>1. t \in MayBeTables /\ t \in Virtual
      BY <2>1, TablePages
    <3>2. Settled(pml4, tables, stack, t)
      BY Zenon, <2>1 DEF Settling, TablesSettled
    <3> QED
      BY Zenon, <3>1, <3>2
  <2>2. CASE t \notin DOMAIN tables
    BY <2>2
  <2> QED
    BY <2>1, <2>2
<1>2. LoadSettled'
  <2> SUFFICES ASSUME pc = "load", NEW k \in 1 .. loaded
               PROVE  Settled(pml4, tables', stack', KernelMap[k][1])
    BY Zenon DEF LoadSettled
  <2>1. k \in 1 .. Len(KernelMap) /\ Len(KernelMap) \in Nat
    BY KernelMapFacts DEF Inv, Base, TypeOK
  <2>2. KernelMap[k][1] \in Virtual
    BY <2>1, KernelMapFacts
  <2>3. Settled(pml4, tables, stack, KernelMap[k][1])
    BY Zenon DEF Settling, LoadSettled
  <2> QED
    BY Zenon, <2>2, <2>3
<1>3. (pc = "ready" => cr3 = pml4)'
  BY DEF Settling
<1> QED
  BY Zenon, <1>1, <1>2, <1>3 DEF Settling

(* The innermost call moves: no page changes.                                *)
LEMMA MovedKeeps ==
  ASSUME NEW s \in Seq(Frame), s # << >>, NEW t \in Nat, s[Len(s)].level > 1
  PROVE  \A i \in 1 .. Len(s) :
           /\ Moved(s, t)[i].virtual = s[i].virtual
           /\ Moved(s, t)[i].physical = s[i].physical
<1>1. /\ Moved(s, t) \in Seq(Frame) /\ Len(Moved(s, t)) = Len(s)
      /\ \A i \in 1 .. Len(s) - 1 : Moved(s, t)[i] = s[i]
      /\ LET f == s[Len(s)] g == Moved(s, t)[Len(s)]
         IN  g.virtual = f.virtual /\ g.physical = f.physical
  BY MovedIs
<1>2. \A i \in 1 .. Len(s) : i = Len(s) \/ i \in 1 .. Len(s) - 1
  OBVIOUS
<1> QED
  BY Zenon, <1>1, <1>2

(* Going down one level maps and unmaps nothing.                             *)
LEMMA DescendSettles == ASSUME Inv, Settling, Descend PROVE Settling'
<1>1. /\ Changes(pml4, tables, tables', {}) /\ DOMAIN tables' = DOMAIN tables
      /\ \E t \in DOMAIN tables : stack' = Moved(stack, t)
      /\ stack # << >> /\ Top.level > 1
  BY DescendStep DEF Inv
<1>2. UNCHANGED <<pml4, pc, loaded, cr3>>
  BY Zenon DEF Descend, loadVars
<1>3. /\ stack \in Seq(Frame) /\ Len(stack) \in Nat \ {0} /\ stack[Len(stack)] = Top
  BY <1>1, TopIs DEF Inv, Base, TypeOK
<1>4. /\ Len(stack') = Len(stack)
      /\ \A i \in 1 .. Len(stack) : /\ stack'[i].virtual = stack[i].virtual
                                    /\ stack'[i].physical = stack[i].physical
  <2>1. PICK t \in DOMAIN tables : stack' = Moved(stack, t)
    BY <1>1
  <2>2. t \in Nat
    BY DEF Inv, Base, TypeOK
  <2> QED
    BY <1>1, <1>3, <2>1, <2>2, MovedIs, MovedKeeps
<1>5. Homes'
  <2>1. \A i \in 1 .. Len(stack') : pc' = "load" \/ stack'[i].virtual \in MayBeTables =>
          stack'[i].physical = Home(stack'[i].virtual)
    BY <1>2, <1>4 DEF Settling, Homes
  <2> QED
    BY Zenon, <2>1 DEF Homes
<1>6. \A v \in Virtual : Settled(pml4, tables, stack, v) => Settled(pml4, tables', stack', v)
  <2>1. \A v \in Virtual \ {} : TranslateIn(pml4, tables', v) = TranslateIn(pml4, tables, v)
    BY <1>1, ChangesKeep
  <2>2. \A v : Awaited(stack, v) => Awaited(stack', v)
    BY <1>4 DEF Awaited
  <2> QED
    BY <2>1, <2>2 DEF Settled
<1> QED
  BY <1>1, <1>2, <1>5, <1>6, SettlingStays

(* The new table is not mapped yet, but the call that will do it is in       *)
(* progress.                                                                 *)
LEMMA GrowSettles == ASSUME Inv, Settling, Grow PROVE Settling'
<1> DEFINE new == next_page
           moved == Moved(stack, new)
           f == Call(new, new, KERNEL_PAGE)
<1>1. /\ Changes(pml4, tables, tables', {})
      /\ DOMAIN tables' = DOMAIN tables \cup {new}
      /\ new \in FIRST_PAGE .. PAGES - 1 /\ new \in Nat
      /\ stack' = Append(moved, f)
      /\ stack # << >> /\ Top.level > 1
  BY GrowStep DEF Inv
<1>2. UNCHANGED <<pml4, pc, loaded, cr3>>
  BY Zenon DEF Grow, loadVars
<1>3. /\ stack \in Seq(Frame) /\ Len(stack) \in Nat \ {0} /\ stack[Len(stack)] = Top
  BY <1>1, TopIs DEF Inv, Base, TypeOK
<1>4. f.virtual = new /\ f.physical = new
  BY DEF Call
<1>5. /\ moved \in Seq(Frame) /\ Len(moved) = Len(stack)
      /\ \A i \in 1 .. Len(stack) : /\ moved[i].virtual = stack[i].virtual
                                    /\ moved[i].physical = stack[i].physical
  BY <1>1, <1>3, MovedIs, MovedKeeps
<1> HIDE DEF moved, f
<1>6. /\ Len(stack') = Len(stack) + 1 /\ stack'[Len(stack) + 1] = f
      /\ \A i \in 1 .. Len(stack) : stack'[i] = moved[i]
  BY <1>1, <1>3, <1>5
<1>7. \A i \in 1 .. Len(stack') : i = Len(stack) + 1 \/ i \in 1 .. Len(stack)
  BY <1>3, <1>6
<1>8. new \in MayBeTables /\ Home(new) = new
  BY <1>1, TablePages DEF MayBeTables
<1>9. Homes'
  <2>1. \A i \in 1 .. Len(stack') : pc' = "load" \/ stack'[i].virtual \in MayBeTables =>
          stack'[i].physical = Home(stack'[i].virtual)
    BY <1>2, <1>4, <1>5, <1>6, <1>7, <1>8 DEF Settling, Homes
  <2> QED
    BY Zenon, <2>1 DEF Homes
<1>10. \A v : Awaited(stack, v) \/ v = new => Awaited(stack', v)
  <2>1. Len(stack) + 1 \in 1 .. Len(stack')
    BY <1>3, <1>6
  <2>2. \A i \in 1 .. Len(stack) : i \in 1 .. Len(stack')
    BY <1>3, <1>6
  <2> QED
    BY <1>4, <1>5, <1>6, <2>1, <2>2 DEF Awaited
<1>11. \A v \in Virtual : Settled(pml4, tables, stack, v) => Settled(pml4, tables', stack', v)
  <2>1. \A v \in Virtual \ {} : TranslateIn(pml4, tables', v) = TranslateIn(pml4, tables, v)
    BY <1>1, ChangesKeep
  <2> QED
    BY <2>1, <1>10 DEF Settled
<1>12. \A t \in DOMAIN tables' \ DOMAIN tables : Settled(pml4, tables', stack', t)
  BY <1>1, <1>10 DEF Settled
<1> QED
  BY <1>2, <1>9, <1>11, <1>12, SettlingStays

(* The call that ends has mapped its page where it belongs.                  *)
LEMMA MapLeafSettles == ASSUME Inv, Settling, MapLeaf PROVE Settling'
<1> DEFINE u == Top.virtual
<1>1. /\ Changes(pml4, tables, tables', {u}) /\ DOMAIN tables' = DOMAIN tables
      /\ TranslateIn(pml4, tables', u) = Top.physical
      /\ stack # << >> /\ stack' = Front(stack) /\ u \in Virtual
  BY MapLeafStep DEF Inv
<1>2. UNCHANGED <<pml4, pc, loaded, cr3>>
  BY Zenon DEF MapLeaf, loadVars
<1>3. /\ stack \in Seq(Frame) /\ Len(stack) \in Nat \ {0} /\ stack[Len(stack)] = Top
      /\ Len(stack') = Len(stack) - 1
      /\ \A i \in 1 .. Len(stack) - 1 : stack'[i] = stack[i]
  BY <1>1, TopIs DEF Inv, Base, TypeOK
<1>4. \A i \in 1 .. Len(stack') : i \in 1 .. Len(stack) - 1 /\ i \in 1 .. Len(stack)
  BY <1>3
<1>5. Homes'
  <2>1. \A i \in 1 .. Len(stack') : pc' = "load" \/ stack'[i].virtual \in MayBeTables =>
          stack'[i].physical = Home(stack'[i].virtual)
    BY <1>2, <1>3, <1>4 DEF Settling, Homes
  <2> QED
    BY Zenon, <2>1 DEF Homes
<1>6. pc = "load" \/ u \in MayBeTables => TranslateIn(pml4, tables', u) = Home(u)
  <2>1. Len(stack) \in 1 .. Len(stack)
    BY <1>3
  <2>2. pc = "load" \/ u \in MayBeTables => Top.physical = Home(u)
    BY Zenon, <1>3, <2>1 DEF Settling, Homes
  <2> QED
    BY <1>1, <2>2
<1>7. \A v : v # u /\ Awaited(stack, v) => Awaited(stack', v)
  <2>1. \A i \in 1 .. Len(stack) : i = Len(stack) \/ (i \in 1 .. Len(stack) - 1 /\ i \in 1 .. Len(stack'))
    BY <1>3
  <2> QED
    BY <1>3, <2>1 DEF Awaited
<1>8. \A v \in Virtual : pc = "load" \/ v \in MayBeTables =>
        (Settled(pml4, tables, stack, v) => Settled(pml4, tables', stack', v))
  <2>1. \A v \in Virtual \ {u} : TranslateIn(pml4, tables', v) = TranslateIn(pml4, tables, v)
    BY <1>1, ChangesKeep
  <2> HIDE DEF u
  <2> QED
    BY <1>6, <1>7, <2>1 DEF Settled
<1> QED
  BY <1>1, <1>2, <1>5, <1>8, SettlingStays

(* The loop's next page is awaited from now on.                              *)
LEMMA LoadSettles == ASSUME Inv, Settling, Load PROVE Settling'
<1> DEFINE k == loaded + 1
           f == Call(KernelMap[k][1], KernelMap[k][2], KERNEL_PAGE)
<1>1. /\ UNCHANGED <<pml4, tables, pc, cr3>>
      /\ pc = "load" /\ stack = << >> /\ loaded < Len(KernelMap) /\ loaded' = k /\ stack' = <<f>>
  BY Zenon DEF Load, memVars
<1>2. k \in 1 .. Len(KernelMap) /\ loaded \in Nat
  BY <1>1, KernelMapFacts DEF Inv, Base, TypeOK
<1>3. f.virtual = KernelMap[k][1] /\ f.physical = KernelMap[k][2] /\ KernelMap[k][2] = Home(KernelMap[k][1])
  BY <1>2, KernelMapFacts DEF Call
<1> HIDE DEF f
<1>4. Len(stack') = 1 /\ stack'[1] = f /\ \A i : i \in 1 .. 1 <=> i = 1
  BY <1>1
<1>5. Homes'
  <2>1. \A i \in 1 .. Len(stack') : stack'[i].physical = Home(stack'[i].virtual)
    BY <1>3, <1>4
  <2> QED
    BY Zenon, <2>1 DEF Homes
<1>6. \A v : Settled(pml4, tables, stack, v) \/ v = KernelMap[k][1] => Settled(pml4', tables', stack', v)
  <2>1. \A v : ~ Awaited(<< >>, v)
    BY DEF Awaited
  <2>2. Awaited(stack', KernelMap[k][1])
    BY <1>3, <1>4 DEF Awaited
  <2> QED
    BY <1>1, <2>1, <2>2 DEF Settled
<1>7. TablesSettled'
  <2>1. \A t \in DOMAIN tables : t # pml4 \/ pc = "ready" => Settled(pml4, tables, stack, t)
    BY DEF Settling, TablesSettled
  <2>2. \A t \in DOMAIN tables' : t # pml4' \/ pc' = "ready" => Settled(pml4', tables', stack', t)
    BY Zenon, <1>1, <1>6, <2>1
  <2> QED
    BY Zenon, <2>2 DEF TablesSettled
<1>8. LoadSettled'
  <2>1. \A j \in 1 .. loaded : Settled(pml4, tables, stack, KernelMap[j][1])
    BY Zenon, <1>1 DEF Settling, LoadSettled
  <2>2. \A j \in 1 .. loaded' : j = k \/ j \in 1 .. loaded
    BY <1>1, <1>2
  <2>3. \A j \in 1 .. loaded' : Settled(pml4', tables', stack', KernelMap[j][1])
    BY Zenon, <1>6, <2>1, <2>2
  <2> QED
    BY Zenon, <2>3 DEF LoadSettled
<1>9. (pc = "ready" => cr3 = pml4)'
  BY <1>1
<1> QED
  BY Zenon, <1>5, <1>7, <1>8, <1>9 DEF Settling

(* When all calls have been made, the kernel's map is as it should be.       *)
LEMMA LoadedMaps ==
  ASSUME Inv, Settling, pc = "load", stack = << >>, loaded = Len(KernelMap)
  PROVE  /\ \A v \in Needed : TranslateIn(pml4, tables, v) = Home(v)
         /\ Walk(pml4) = pml4
<1>1. \A v \in Needed : TranslateIn(pml4, tables, v) = Home(v)
  <2> SUFFICES ASSUME NEW v \in Needed PROVE TranslateIn(pml4, tables, v) = Home(v)
    OBVIOUS
  <2>1. PICK k \in 1 .. Len(KernelMap) : KernelMap[k][1] = v
    BY KernelMapFacts
  <2>2. Settled(pml4, tables, stack, KernelMap[k][1])
    BY Zenon DEF Settling, LoadSettled
  <2> QED
    BY <2>1, <2>2, SettledMapped
<1>2. pml4 = FIRST_PAGE /\ pml4 \in MayBeTables /\ Home(pml4) = pml4 /\ pml4 # NULL
  BY TablePages, PageNumbers DEF Inv, Base, Allotted, MayBeTables, NULL
<1>3. TranslateIn(pml4, tables, pml4) = pml4
  <2>1. pml4 \in Needed
    BY <1>2, KernelMapAssumption DEF Needed
  <2> QED
    BY <1>1, <1>2, <2>1
<1>4. MappedIn(pml4, tables, pml4) /\ EntryIn(pml4, tables, pml4).addr = pml4
  BY Zenon, <1>2, <1>3 DEF TranslateIn
<1>5. Walk(pml4) = IF PathIn(pml4, tables, pml4)[1] = NULL THEN 0 ELSE EntryIn(pml4, tables, pml4).addr
  BY Zenon, InTables DEF Walk
<1>6. Walk(pml4) = pml4
  BY Zenon, <1>4, <1>5 DEF MappedIn
<1> QED
  BY <1>1, <1>6

(* When cr3 is loaded, the first table is mapped too, by the memory map.     *)
LEMMA SyncSettles == ASSUME Inv, Settling, Sync PROVE Settling'
<1>1. /\ UNCHANGED <<pml4, tables, stack>> /\ stack = << >> /\ pc' = "ready" /\ cr3' = Walk(pml4)
      /\ pc = "load" /\ loaded = Len(KernelMap)
  BY Zenon DEF Sync, memVars
<1>2. cr3' = pml4'
  BY <1>1, LoadedMaps
<1>3. TablesSettled'
  <2>1. \A t \in DOMAIN tables : Settled(pml4, tables, stack, t)
    <3> SUFFICES ASSUME NEW t \in DOMAIN tables PROVE Settled(pml4, tables, stack, t)
      OBVIOUS
    <3>1. CASE t = pml4
      <4>1. pml4 \in Needed
        BY KernelMapAssumption DEF Needed, Inv, Base, Allotted
      <4> QED
        BY <1>1, <3>1, <4>1, LoadedMaps DEF Settled
    <3>2. CASE t # pml4
      BY Zenon, <3>2 DEF Settling, TablesSettled
    <3> QED
      BY <3>1, <3>2
  <2>2. \A t \in DOMAIN tables' : Settled(pml4', tables', stack', t)
    BY Zenon, <1>1, <2>1
  <2> QED
    BY Zenon, <2>2 DEF TablesSettled
<1>4. LoadSettled'
  BY <1>1 DEF LoadSettled
<1>5. Homes'
  BY <1>1 DEF Homes
<1> QED
  BY Zenon, <1>2, <1>3, <1>4, <1>5 DEF Settling

-----------------------------------------------------------------------------
(* Callers change only their own pages, when no call is in progress.         *)
LEMMA CallersSettle ==
  ASSUME Inv, Settling, UNCHANGED <<pml4, pc, loaded, cr3>>, Ready,
         NEW v \in Windows, Changes(pml4, tables, tables', {v}), DOMAIN tables' = DOMAIN tables,
         Homes'
  PROVE  Settling'
<1>1. pc = "ready" /\ stack = << >>
  BY DEF Ready
<1>2. \A u \in Virtual \ {v} : TranslateIn(pml4, tables', u) = TranslateIn(pml4, tables, u)
  BY ChangesKeep
<1>3. \A u \in Virtual : pc = "load" \/ u \in MayBeTables =>
        (Settled(pml4, tables, stack, u) => Settled(pml4, tables', stack', u))
  <2> SUFFICES ASSUME NEW u \in Virtual, u \in MayBeTables, Settled(pml4, tables, stack, u)
               PROVE  Settled(pml4, tables', stack', u)
    BY <1>1
  <2>1. u # v
    BY TablePages
  <2>2. TranslateIn(pml4, tables, u) = Home(u)
    BY <1>1, SettledMapped
  <2> QED
    BY <1>2, <2>1, <2>2 DEF Settled
<1> QED
  BY <1>3, SettlingStays

(* The call that a caller makes is not for a page that may become a table.   *)
LEMMA CallersHomes ==
  ASSUME pc' = "ready", NEW v \in Windows, NEW p, NEW flags, stack' = <<Call(v, p, flags)>>
  PROVE  Homes'
<1> DEFINE f == Call(v, p, flags)
<1>1. f.virtual = v /\ v \notin MayBeTables
  BY TablePages DEF Call
<1> HIDE DEF f
<1>2. Len(stack') = 1 /\ stack'[1] = f /\ \A i : i \in 1 .. 1 <=> i = 1
  BY DEF f
<1>3. \A i \in 1 .. Len(stack') : ~(pc' = "load" \/ stack'[i].virtual \in MayBeTables)
  BY <1>1, <1>2
<1> QED
  BY Zenon, <1>3 DEF Homes

(* A caller's call is for none of the pages that matter.                     *)
LEMMA MapSettles ==
  ASSUME Inv, Settling, NEW v \in Windows, NEW p \in DataPages, NEW flags \in CallerFlags,
         Map(v, p, flags)
  PROVE  Settling'
<1>1. UNCHANGED <<pml4, tables, pc, loaded, cr3>> /\ Ready /\ stack' = <<Call(v, p, flags)>>
  BY Zenon DEF Map, memVars, loadVars
<1>2. WellFormed(pml4, tables)
  BY DEF Inv, Base
<1>3. Changes(pml4, tables, tables', {v}) /\ DOMAIN tables' = DOMAIN tables
  BY Zenon, <1>1, <1>2, ChangesNothing
<1>4. pc' = "ready"
  BY <1>1 DEF Ready
<1>5. Homes'
  BY <1>1, <1>4, CallersHomes
<1> QED
  BY <1>1, <1>3, <1>5, CallersSettle

(* A caller unmaps none of the pages that matter.                            *)
LEMMA UnmapSettles == ASSUME Inv, Settling, NEW v \in Windows, Unmap(v) PROVE Settling'
<1>1. UNCHANGED <<pml4, pc, loaded, cr3, stack>> /\ Ready /\ tables' = Cleared(v)
  BY Zenon DEF Unmap, loadVars
<1>2. v \in Virtual
  BY PagingAssumption
<1>3. Changes(pml4, tables, tables', {v}) /\ DOMAIN tables' = DOMAIN tables
  BY Zenon, <1>1, <1>2, ClearedStep DEF Inv
<1>4. Homes'
  BY Zenon, <1>1 DEF Homes, Settling
<1> QED
  BY <1>1, <1>3, <1>4, CallersSettle

(* A caller edits none of the pages that matter.                             *)
LEMMA EditSettles ==
  ASSUME Inv, Settling, NEW v \in Windows, NEW flags \in CallerFlags, Edit(v, flags) PROVE Settling'
<1>1. UNCHANGED <<pml4, pc, loaded, cr3, stack>> /\ Ready
  BY Zenon DEF Edit, loadVars
<1>2. v \in Virtual /\ flags \in SUBSET USER_PAGE /\ PRESENT \in flags
  BY PagingAssumption
<1>3. Changes(pml4, tables, tables', {v}) /\ DOMAIN tables' = DOMAIN tables
  BY <1>2, EditStep DEF Inv
<1>4. Homes'
  BY Zenon, <1>1 DEF Homes, Settling
<1> QED
  BY <1>1, <1>3, <1>4, CallersSettle

(* A caller moves none of the pages that matter.                             *)
LEMMA RemapSettles ==
  ASSUME Inv, Settling, NEW old \in Windows, NEW new \in Windows, Remap(old, new) PROVE Settling'
<1>1. /\ UNCHANGED <<pml4, pc, loaded, cr3>> /\ Ready /\ tables' = Cleared(old)
      /\ \E p : stack' = <<Call(new, p, Leaf(old).flags)>>
  BY Zenon DEF Remap, loadVars
<1>2. old \in Virtual
  BY PagingAssumption
<1>3. Changes(pml4, tables, tables', {old}) /\ DOMAIN tables' = DOMAIN tables
  BY Zenon, <1>1, <1>2, ClearedStep DEF Inv
<1>4. pc' = "ready"
  BY <1>1 DEF Ready
<1>5. Homes'
  BY <1>1, <1>4, CallersHomes
<1> QED
  BY <1>1, <1>3, <1>5, CallersSettle

(* Neither tables nor calls change.                                          *)
LEMMA StaysSettled ==
  ASSUME Settling, UNCHANGED <<pml4, tables, pc, loaded, cr3, stack>> PROVE Settling'
<1>1. Homes'
  BY Zenon DEF Homes, Settling
<1>2. TablesSettled'
  BY Zenon DEF TablesSettled, Settling
<1>3. LoadSettled'
  BY Zenon DEF LoadSettled, Settling
<1>4. (pc = "ready" => cr3 = pml4)'
  BY DEF Settling
<1> QED
  BY Zenon, <1>1, <1>2, <1>3, <1>4 DEF Settling

(* Every step keeps both invariants.                                         *)
LEMMA NextSettles == Inv /\ Settling /\ [Next]_vars => Inv' /\ Settling'
<1> SUFFICES ASSUME Inv, Settling, [Next]_vars PROVE Settling'
  BY NextInv
<1>1. CASE MapStep
  BY <1>1, DescendSettles, GrowSettles, MapLeafSettles DEF MapStep
<1>2. CASE Load
  BY <1>2, LoadSettles
<1>3. CASE Sync
  BY <1>3, SyncSettles
<1>4. ASSUME NEW v \in Windows, NEW p \in DataPages, NEW flags \in CallerFlags, Map(v, p, flags)
      PROVE  Settling'
  BY <1>4, MapSettles
<1>5. ASSUME NEW v \in Windows, Unmap(v) \/ Invalidate(v) \/ Fill(v) PROVE Settling'
  <2>1. CASE Unmap(v)
    BY <2>1, UnmapSettles
  <2>2. CASE Invalidate(v) \/ Fill(v)
    <3>1. UNCHANGED <<pml4, tables, pc, loaded, cr3, stack>>
      BY Zenon, <2>2 DEF Invalidate, Fill, memVars, loadVars
    <3> QED
      BY <3>1, StaysSettled
  <2> QED
    BY <1>5, <2>1, <2>2
<1>6. ASSUME NEW v \in Windows, NEW flags \in CallerFlags, Edit(v, flags) PROVE Settling'
  BY <1>6, EditSettles
<1>7. ASSUME NEW old \in Windows, NEW new \in Windows, Remap(old, new) PROVE Settling'
  BY <1>7, RemapSettles
<1>8. CASE UNCHANGED vars
  <2>1. UNCHANGED <<pml4, tables, pc, loaded, cr3, stack>>
    BY Zenon, <1>8 DEF vars, memVars, loadVars
  <2> QED
    BY <2>1, StaysSettled
<1> QED
  BY Zenon, <1>1, <1>2, <1>3, <1>4, <1>5, <1>6, <1>7, <1>8 DEF Next

(* At first nothing has been asked for.                                      *)
LEMMA InitSettles == ASSUME Init PROVE Settling
<1>1. /\ pml4 = FIRST_PAGE /\ tables = [t \in {FIRST_PAGE} |-> EmptyTable]
      /\ pc = "load" /\ loaded = 0 /\ stack = << >>
  BY DEF Init
<1>2. Homes
  BY <1>1 DEF Homes
<1>3. TablesSettled
  BY <1>1 DEF TablesSettled
<1>4. LoadSettled
  BY <1>1 DEF LoadSettled
<1> QED
  BY <1>1, <1>2, <1>3, <1>4 DEF Settling

(* Both invariants hold in every behaviour.                                  *)
LEMMA BothInvariants == Spec => [](Inv /\ Settling)
<1>1. Init => Inv /\ Settling
  BY InitInv, InitSettles
<1> QED
  BY <1>1, NextSettles, PTL DEF Spec

(* Without calls in progress, the tables are mapped.                         *)
LEMMA SettledTables == Inv /\ Settling => TablesMapped
<1> SUFFICES ASSUME Inv, Settling, stack = << >>,
                    NEW t \in DOMAIN tables, t # pml4 \/ pc = "ready"
             PROVE  Translate(t) = t
  BY DEF TablesMapped
<1>1. Settled(pml4, tables, stack, t)
  BY Zenon DEF Settling, TablesSettled
<1>2. TranslateIn(pml4, tables, t) = Home(t)
  BY <1>1, SettledMapped
<1>3. Home(t) = t
  BY TablePages
<1>4. Translate(t) = TranslateIn(pml4, tables, t)
  BY InTables
<1> QED
  BY <1>2, <1>3, <1>4

(* Between calls of paging_map_page, each table is mapped at its own         *)
(* address, so that the kernel can go on to change it: also those that the   *)
(* calls themselves have allocated, and the first one once cr3 is loaded.    *)
THEOREM TablesStayMapped == Spec => []TablesMapped
BY SettledTables, BothInvariants, PTL

-----------------------------------------------------------------------------
(* The tree of the tables.                                                   *)

(* The tables that the present entries of some tables point to.              *)
NextDown(S) ==
  {pde.addr : pde \in {d \in UNION {{tables[t][i] : i \in 0 .. FANOUT - 1} : t \in S} :
                         PRESENT \in d.flags}}

OfRank(rank, level) == {t \in DOMAIN tables : rank[t] = level}

(* What unfolds as TablesAt does.                                            *)
IsTower(f) ==
  f = [level \in 1 .. LEVELS |-> IF level = LEVELS THEN {pml4} ELSE NextDown(f[level + 1])]

(* TablesAt is such a tower if there is one.                                 *)
LEMMA TowerUnfolds == ASSUME NEW f, IsTower(f) PROVE IsTower(TablesAt)
BY Zenon DEF IsTower, TablesAt, NextDown

(* From the tables of one rank down to those of the next.                    *)
LEMMA NextDownRank ==
  ASSUME NEW rank, Ranked(pml4, tables, rank), NEW level \in 1 .. LEVELS - 1
  PROVE  NextDown(OfRank(rank, level + 1)) = OfRank(rank, level)
<1> DEFINE A == OfRank(rank, level + 1)
<1>1. \A x : x \in NextDown(A) <=>
        \E t \in A, i \in Slots : PRESENT \in tables[t][i].flags /\ x = tables[t][i].addr
  <2>1. \A x : x \in NextDown(A) <=>
          \E pde \in {d \in UNION {{tables[t][i] : i \in Slots} : t \in A} : PRESENT \in d.flags} :
            x = pde.addr
    BY Zenon DEF NextDown, Slots
  <2> DEFINE U == UNION {{tables[t][i] : i \in Slots} : t \in A}
  <2>2. ASSUME NEW d \in U PROVE \E t \in A, i \in Slots : d = tables[t][i]
    OBVIOUS
  <2>3. ASSUME NEW t \in A, NEW i \in Slots PROVE tables[t][i] \in U
    OBVIOUS
  <2> HIDE DEF U, A
  <2>4. ASSUME NEW x, NEW pde \in {d \in U : PRESENT \in d.flags}, x = pde.addr
        PROVE  \E t \in A, i \in Slots : PRESENT \in tables[t][i].flags /\ x = tables[t][i].addr
    BY Zenon, <2>2, <2>4
  <2>5. ASSUME NEW x, NEW t \in A, NEW i \in Slots,
               PRESENT \in tables[t][i].flags, x = tables[t][i].addr
        PROVE  \E pde \in {d \in U : PRESENT \in d.flags} : x = pde.addr
    BY Zenon, <2>3, <2>5
  <2>6. \A x : x \in NextDown(A) <=> \E pde \in {d \in U : PRESENT \in d.flags} : x = pde.addr
    BY Zenon, <2>1 DEF U
  <2> QED
    BY Zenon, <2>4, <2>5, <2>6
<1>2. /\ rank \in [DOMAIN tables -> 1 .. LEVELS]
      /\ \A t \in DOMAIN tables : rank[t] = LEVELS <=> t = pml4
  BY Zenon DEF Ranked, Topped
<1>3. level \in 1 .. LEVELS /\ level + 1 \in 1 .. LEVELS /\ level + 1 > 1 /\ level # LEVELS /\ level \in Int
  BY PageNumbers
<1>4. ASSUME NEW t \in A, NEW i \in Slots, PRESENT \in tables[t][i].flags
      PROVE  tables[t][i].addr \in OfRank(rank, level)
  <2>1. t \in DOMAIN tables /\ rank[t] = level + 1
    BY DEF OfRank
  <2>2. Leads(tables, rank, t, i)
    BY <1>3, <1>4, <2>1 DEF Leads, Present
  <2>3. tables[t][i].addr \in DOMAIN tables /\ rank[tables[t][i].addr] = rank[t] - 1
    BY Zenon, <2>1, <2>2 DEF Ranked, Falls
  <2> QED
    BY <1>3, <2>1, <2>3 DEF OfRank
<1>5. ASSUME NEW x \in OfRank(rank, level)
      PROVE  \E t \in A, i \in Slots : PRESENT \in tables[t][i].flags /\ x = tables[t][i].addr
  <2>1. x \in DOMAIN tables \ {pml4} /\ rank[x] = level
    BY <1>2, <1>3 DEF OfRank
  <2>2. PICK t \in DOMAIN tables, i \in Slots : Leads(tables, rank, t, i) /\ tables[t][i].addr = x
    BY Zenon, <2>1 DEF Ranked, Hangs
  <2>3. rank[x] = rank[t] - 1
    BY Zenon, <2>2 DEF Ranked, Falls
  <2>4. t \in A
    BY <1>2, <1>3, <2>1, <2>3 DEF OfRank
  <2> QED
    BY <2>2, <2>4 DEF Leads, Present
<1> HIDE DEF A
<1>6. \A x : x \in NextDown(A) <=> x \in OfRank(rank, level)
  <2>1. ASSUME NEW x \in NextDown(A) PROVE x \in OfRank(rank, level)
    <3>1. PICK t \in A, i \in Slots : PRESENT \in tables[t][i].flags /\ x = tables[t][i].addr
      BY <1>1
    <3>2. tables[t][i].addr \in OfRank(rank, level)
      BY <1>4, <3>1
    <3> QED
      BY <3>1, <3>2
  <2>2. ASSUME NEW x \in OfRank(rank, level) PROVE x \in NextDown(A)
    BY <1>1, <1>5
  <2> QED
    BY <2>1, <2>2
<1>7. NextDown(A) = OfRank(rank, level)
  BY Zenon, <1>6
<1> QED
  BY <1>7 DEF A

(* The tables of a level are those of that rank.                             *)
LEMMA TablesAtRank ==
  ASSUME NEW rank, Ranked(pml4, tables, rank)
  PROVE  \A level \in 1 .. LEVELS : TablesAt[level] = OfRank(rank, level)
<1> DEFINE f == [level \in 1 .. LEVELS |-> OfRank(rank, level)]
           T == {level \in 1 .. LEVELS : TablesAt[level] = OfRank(rank, level)}
<1>1. OfRank(rank, LEVELS) = {pml4}
  BY PageNumbers DEF Ranked, Topped, OfRank
<1>2. \A level \in 1 .. LEVELS : level # LEVELS => level \in 1 .. LEVELS - 1 /\ level + 1 \in 1 .. LEVELS
  BY PageNumbers
<1>3. IsTower(f)
  <2>1. \A level \in 1 .. LEVELS :
          OfRank(rank, level) = IF level = LEVELS THEN {pml4} ELSE NextDown(OfRank(rank, level + 1))
    BY <1>1, <1>2, NextDownRank
  <2>2. \A level \in 1 .. LEVELS :
          f[level] = IF level = LEVELS THEN {pml4} ELSE NextDown(f[level + 1])
    BY Zenon, <1>2, <2>1
  <2>3. f = [level \in 1 .. LEVELS |-> f[level]]
    OBVIOUS
  <2> HIDE DEF f
  <2> QED
    BY Zenon, <2>2, <2>3 DEF IsTower
<1>4. \A level \in 1 .. LEVELS :
        TablesAt[level] = IF level = LEVELS THEN {pml4} ELSE NextDown(TablesAt[level + 1])
  <2>1. IsTower(TablesAt)
    BY <1>3, TowerUnfolds
  <2> QED
    BY <2>1 DEF IsTower
<1>5. LEVELS \in T
  BY <1>1, <1>4, PageNumbers
<1>6. ASSUME NEW level \in 1 .. LEVELS - 1, level + 1 \in T PROVE level \in T
  <2>1. level \in 1 .. LEVELS /\ level # LEVELS
    BY PageNumbers
  <2>2. TablesAt[level] = NextDown(TablesAt[level + 1])
    BY <1>4, <2>1
  <2>3. TablesAt[level + 1] = OfRank(rank, level + 1)
    BY <1>6
  <2> QED
    BY <2>1, <2>2, <2>3, NextDownRank
<1> HIDE DEF T
<1>7. \A level \in 1 .. LEVELS : level \in T
  BY <1>5, <1>6, PageNumbers, DownFrom
<1> QED
  BY <1>7 DEF T

(* As many entries of a level are present as the next has tables.            *)
LEMMA OneEntryEach ==
  ASSUME Inv, NEW rank, Ranked(pml4, tables, rank), NEW level \in 2 .. LEVELS
  PROVE  Cardinality({s \in OfRank(rank, level) \X Slots : PRESENT \in tables[s[1]][s[2]].flags})
           = Cardinality(OfRank(rank, level - 1))
<1> DEFINE S == {s \in OfRank(rank, level) \X Slots : PRESENT \in tables[s[1]][s[2]].flags}
           T == OfRank(rank, level - 1)
           f == [s \in S |-> tables[s[1]][s[2]].addr]
<1>1. rank \in [DOMAIN tables -> 1 .. LEVELS] /\ \A t \in DOMAIN tables : rank[t] = LEVELS <=> t = pml4
  BY Zenon DEF Ranked, Topped
<1>2. level \in Int /\ level > 1 /\ level - 1 # LEVELS
  BY PageNumbers
<1>3. \A s \in S : /\ s[1] \in DOMAIN tables /\ s[2] \in Slots /\ rank[s[1]] = level
                   /\ Leads(tables, rank, s[1], s[2]) /\ s = <<s[1], s[2]>>
  BY <1>2 DEF OfRank, Leads, Present
<1>4. f \in [S -> T]
  <2> SUFFICES ASSUME NEW s \in S PROVE tables[s[1]][s[2]].addr \in T
    OBVIOUS
  <2> DEFINE t == s[1]
             i == s[2]
  <2>1. t \in DOMAIN tables /\ i \in Slots /\ rank[t] = level /\ Leads(tables, rank, t, i)
    BY <1>3
  <2> HIDE DEF t, i
  <2>2. tables[t][i].addr \in DOMAIN tables /\ rank[tables[t][i].addr] = rank[t] - 1
    BY Zenon, <2>1 DEF Ranked, Falls
  <2>3. tables[t][i].addr \in T
    BY <2>1, <2>2 DEF OfRank
  <2> QED
    BY <2>3 DEF t, i
<1>5. \A a, b \in S : f[a] = f[b] => a = b
  <2> SUFFICES ASSUME NEW a \in S, NEW b \in S, f[a] = f[b] PROVE a = b
    OBVIOUS
  <2>1. tables[a[1]][a[2]].addr = tables[b[1]][b[2]].addr
    OBVIOUS
  <2> DEFINE s == a[1]
             i == a[2]
             t == b[1]
             j == b[2]
  <2>2. /\ s \in DOMAIN tables /\ i \in Slots /\ Leads(tables, rank, s, i)
        /\ t \in DOMAIN tables /\ j \in Slots /\ Leads(tables, rank, t, j)
        /\ a = <<s, i>> /\ b = <<t, j>>
    BY Zenon, <1>3
  <2>3. tables[s][i].addr = tables[t][j].addr
    BY <2>1
  <2> HIDE DEF s, i, t, j
  <2>4. Once(tables, rank)
    BY Zenon DEF Ranked
  <2>5. s = t /\ i = j
    BY Zenon, <2>2, <2>3, <2>4 DEF Once
  <2> QED
    BY Zenon, <2>2, <2>5
<1>6. \A x \in T : \E s \in S : f[s] = x
  <2> SUFFICES ASSUME NEW x \in T PROVE \E s \in S : f[s] = x
    OBVIOUS
  <2>1. x \in DOMAIN tables \ {pml4} /\ rank[x] = level - 1
    BY <1>1, <1>2 DEF OfRank
  <2>2. PICK t \in DOMAIN tables, i \in Slots : Leads(tables, rank, t, i) /\ tables[t][i].addr = x
    BY Zenon, <2>1 DEF Ranked, Hangs
  <2>3. rank[x] = rank[t] - 1
    BY Zenon, <2>2 DEF Ranked, Falls
  <2>4. <<t, i>> \in S /\ <<t, i>>[1] = t /\ <<t, i>>[2] = i
    BY <1>1, <1>2, <2>1, <2>2, <2>3 DEF OfRank, Leads, Present
  <2>5. f[<<t, i>>] = x
    BY <2>2, <2>4
  <2> QED
    BY <2>4, <2>5
<1> HIDE DEF f, S
<1>7. f \in Bijection(S, T)
  BY Zenon, <1>4, <1>5, <1>6, Fun_IsBij
<1>8. ExistsBijection(S, T)
  BY <1>7 DEF ExistsBijection
<1>9. ExistsBijection(T, S)
  BY Zenon, <1>8, Fun_ExistsBijSymmetric
<1>10. IsFiniteSet(T)
  <2>1. IsFiniteSet(1 .. PAGES - 1)
    BY PageNumbers, FS_Interval
  <2>2. T \in SUBSET (1 .. PAGES - 1)
    BY DEF Inv, Base, TypeOK, OfRank
  <2> QED
    BY <2>1, <2>2, FS_Subset
<1> HIDE DEF T
<1>11. Cardinality(S) = Cardinality(T)
  BY Zenon, <1>9, <1>10, FS_Bijection
<1> QED
  BY <1>11 DEF S, T

(* Every table that has been allocated hangs in one entry, and no two        *)
(* entries lead to one table, although calls of paging_map_page inside other *)
(* calls extend the tables; and cr3 points to the first of them.             *)
THEOREM TablesAreTree == Spec => []Tree
<1>1. ASSUME Inv, Settling PROVE Tree
  <2>1. PICK rank : Ranked(pml4, tables, rank)
    BY Zenon, <1>1 DEF Inv, Base, WellFormed
  <2>2. \A level \in 1 .. LEVELS : TablesAt[level] = OfRank(rank, level)
    BY <2>1, TablesAtRank
  <2>3. rank \in [DOMAIN tables -> 1 .. LEVELS]
    BY Zenon, <2>1 DEF Ranked, Topped
  <2>4. pc = "ready" => cr3 = pml4
    BY <1>1 DEF Settling
  <2>5. UNION {TablesAt[level] : level \in 1 .. LEVELS} = DOMAIN tables
    <3>1. \A x : x \in UNION {TablesAt[level] : level \in 1 .. LEVELS} <=>
            \E level \in 1 .. LEVELS : x \in OfRank(rank, level)
      BY Zenon, <2>2
    <3>2. \A x : x \in DOMAIN tables <=> \E level \in 1 .. LEVELS : x \in OfRank(rank, level)
      BY <2>3 DEF OfRank
    <3> QED
      BY Zenon, <3>1, <3>2
  <2>6. \A a, b \in 1 .. LEVELS : a # b => TablesAt[a] \cap TablesAt[b] = {}
    BY <2>2 DEF OfRank
  <2>7. ASSUME NEW level \in 2 .. LEVELS
        PROVE  Cardinality({s \in TablesAt[level] \X (0 .. FANOUT - 1) : PRESENT \in tables[s[1]][s[2]].flags})
                 = Cardinality(TablesAt[level - 1])
    <3>1. level \in 1 .. LEVELS /\ level - 1 \in 1 .. LEVELS
      BY PageNumbers
    <3>2. TablesAt[level] = OfRank(rank, level) /\ TablesAt[level - 1] = OfRank(rank, level - 1)
      BY Zenon, <2>2, <3>1
    <3>3. Cardinality({s \in OfRank(rank, level) \X Slots : PRESENT \in tables[s[1]][s[2]].flags})
            = Cardinality(OfRank(rank, level - 1))
      BY <1>1, <2>1, OneEntryEach
    <3> QED
      BY Zenon, <3>2, <3>3 DEF Slots
  <2> QED
    BY Zenon, <2>4, <2>5, <2>6, <2>7 DEF Tree
<1> QED
  BY <1>1, BothInvariants, PTL

-----------------------------------------------------------------------------
(* The tables are an address space.                                          *)

Request == [page : Virtual, frame : Nat]

(* The requests that calls stand for.                                        *)
LEMMA RequestsAre ==
  ASSUME NEW s \in Seq(Frame)
  PROVE  /\ Requests(s) \in Seq(Request) /\ Len(Requests(s)) = Len(s)
         /\ \A i \in 1 .. Len(s) : Requests(s)[i] = [page |-> s[i].virtual, frame |-> s[i].physical]
<1>1. Len(s) \in Nat /\ \A i \in 1 .. Len(s) : s[i] \in Frame
  OBVIOUS
<1>2. \A i \in 1 .. Len(s) : [page |-> s[i].virtual, frame |-> s[i].physical] \in Request
  BY <1>1 DEF Frame, Request
<1> HIDE DEF Request
<1> QED
  BY <1>1, <1>2 DEF Requests

(* Calls of the same pages are the same requests.                            *)
LEMMA SameRequests ==
  ASSUME NEW s \in Seq(Frame), NEW r \in Seq(Frame), Len(r) = Len(s),
         \A i \in 1 .. Len(s) : r[i].virtual = s[i].virtual /\ r[i].physical = s[i].physical
  PROVE  Requests(r) = Requests(s)
BY DEF Requests

(* The innermost call is the last request.                                   *)
LEMMA LastRequest ==
  ASSUME NEW s \in Seq(Frame), s # << >>
  PROVE  /\ Requests(s) # << >> /\ Requests(Front(s)) = Space!Front(Requests(s))
         /\ Space!Last(Requests(s)).page = s[Len(s)].virtual
         /\ Space!Last(Requests(s)).frame = s[Len(s)].physical
<1>1. Len(s) \in Nat \ {0}
  OBVIOUS
<1>2. Front(s) = [i \in 1 .. Len(s) - 1 |-> s[i]] /\ Len(Front(s)) = Len(s) - 1
  <2>1. Front(s) = SubSeq(s, 1, Len(s) - 1)
    BY DEF Front
  <2>2. Front(s) = [i \in 1 .. Len(s) - 1 |-> s[i]]
    BY <1>1, <2>1
  <2> QED
    BY <1>1, <2>2
<1>3. /\ Requests(s) \in Seq(Request) /\ Len(Requests(s)) = Len(s)
      /\ \A i \in 1 .. Len(s) : Requests(s)[i] = [page |-> s[i].virtual, frame |-> s[i].physical]
  BY RequestsAre
<1> DEFINE R == Requests(s)
<1> HIDE DEF R
<1>4. Space!Front(R) = SubSeq(R, 1, Len(R) - 1) /\ Space!Last(R) = R[Len(R)]
  BY DEF Space!Front, Space!Last
<1>5. Space!Front(R) = [i \in 1 .. Len(s) - 1 |-> R[i]]
  BY <1>1, <1>3, <1>4 DEF R
<1>6. Requests(Front(s)) = [i \in 1 .. Len(s) - 1 |-> [page |-> s[i].virtual, frame |-> s[i].physical]]
  BY <1>1, <1>2 DEF Requests
<1>7. Requests(Front(s)) = Space!Front(R)
  BY <1>1, <1>3, <1>5, <1>6 DEF R
<1>8. R # << >> /\ Len(s) \in 1 .. Len(s)
  BY <1>1, <1>3 DEF R
<1>9. R[Len(R)] = [page |-> s[Len(s)].virtual, frame |-> s[Len(s)].physical]
  BY Zenon, <1>3, <1>8 DEF R
<1>10. R[Len(R)].page = s[Len(s)].virtual /\ R[Len(R)].frame = s[Len(s)].physical
  BY <1>9
<1> QED
  BY Zenon, <1>4, <1>7, <1>8, <1>10 DEF R

(* A new call is a new last request.                                         *)
LEMMA NewRequest ==
  ASSUME NEW s \in Seq(Frame), NEW r \in Seq(Frame), NEW f \in Frame, Len(r) = Len(s),
         \A i \in 1 .. Len(s) : r[i].virtual = s[i].virtual /\ r[i].physical = s[i].physical
  PROVE  LET R == Requests(Append(r, f))
         IN  /\ Len(R) = Len(Requests(s)) + 1 /\ Space!Front(R) = Requests(s)
             /\ Space!Last(R).page = f.virtual /\ Space!Last(R).frame = f.physical
<1> DEFINE a == Append(r, f)
<1>1. /\ a \in Seq(Frame) /\ a # << >> /\ Len(a) = Len(s) + 1 /\ a[Len(a)] = f
      /\ \A i \in 1 .. Len(s) : a[i] = r[i]
  <2>1. Len(s) \in Nat
    OBVIOUS
  <2>2. /\ a \in Seq(Frame) /\ Len(a) = Len(s) + 1 /\ a[Len(s) + 1] = f
        /\ \A i \in 1 .. Len(s) : a[i] = r[i]
    BY <2>1, AppendProperties
  <2> QED
    BY <2>1, <2>2
<1> HIDE DEF a
<1>2. Len(s) \in Nat /\ Front(a) \in Seq(Frame) /\ Len(Front(a)) = Len(s)
        /\ \A i \in 1 .. Len(s) : Front(a)[i] = r[i]
  <2>1. Len(s) \in Nat
    OBVIOUS
  <2>2. Front(a) = SubSeq(a, 1, Len(s))
    BY <1>1, <2>1 DEF Front
  <2> QED
    BY <1>1, <2>1, <2>2
<1>3. Requests(Front(a)) = Requests(s)
  BY <1>2, SameRequests
<1>4. Len(Requests(a)) = Len(a) /\ Len(Requests(s)) = Len(s)
  BY <1>1, RequestsAre
<1>5. /\ Requests(Front(a)) = Space!Front(Requests(a))
      /\ Space!Last(Requests(a)).page = f.virtual /\ Space!Last(Requests(a)).frame = f.physical
  BY <1>1, LastRequest
<1> QED
  BY <1>1, <1>3, <1>4, <1>5 DEF a

(* What the processor makes of pages.                                        *)
LEMMA TranslationIs ==
  /\ \A v \in Virtual : Translation[v] = TranslateIn(pml4, tables, v)
  /\ \A v \in Virtual : Translation'[v] = TranslateIn(pml4', tables', v)
<1>1. \A v \in Virtual : Translation[v] = TranslateIn(pml4, tables, v)
  BY Zenon, InTables DEF Translation
<1>2. \A v \in Virtual : Translation'[v] = TranslateIn(pml4', tables', v)
  BY Zenon, InTables DEF Translation
<1> QED
  BY <1>1, <1>2

(* A step that changes the entries of some pages alone.                      *)
LEMMA FewChanged ==
  ASSUME NEW c, Changes(pml4, tables, tables', c), pml4' = pml4
  PROVE  /\ Space!Changed \subseteq c
         /\ c = {} => Space!Changed = {} /\ Translation' = Translation
<1>1. \A v \in Virtual \ c : TranslateIn(pml4, tables', v) = TranslateIn(pml4, tables, v)
  BY ChangesKeep
<1>2. \A v \in Virtual \ c : Translation'[v] = Translation[v]
  BY <1>1, TranslationIs
<1>3. Space!Changed \subseteq c
  BY <1>2 DEF Space!Changed
<1>4. ASSUME c = {} PROVE Translation' = Translation
  <2>1. \A v \in Virtual : Translation'[v] = Translation[v]
    BY <1>2, <1>4
  <2>2. /\ Translation = [v \in Virtual |-> Translation[v]]
        /\ Translation' = [v \in Virtual |-> Translation'[v]]
    BY DEF Translation
  <2> QED
    BY <2>1, <2>2
<1> QED
  BY <1>3, <1>4

-----------------------------------------------------------------------------
(* Every step is one of the address space, or none.                          *)

SpaceStays == UNCHANGED <<Translation, Requests(stack), pc = "ready">>

(* What makes a step an Ask.                                                 *)
LEMMA StepAsks ==
  ASSUME Changes(pml4, tables, tables', {}), pml4' = pml4, pc' = pc,
         stack \in Seq(Frame), NEW r \in Seq(Frame), NEW f \in Frame, Len(r) = Len(stack),
         \A i \in 1 .. Len(stack) : r[i].virtual = stack[i].virtual /\ r[i].physical = stack[i].physical,
         stack' = Append(r, f), stack # << >> => f.virtual = f.physical
  PROVE  Space!Ask
<1>1. Space!Changed = {}
  BY FewChanged
<1>2. /\ Len(Requests(stack')) = Len(Requests(stack)) + 1
      /\ Space!Front(Requests(stack')) = Requests(stack)
      /\ Space!Last(Requests(stack')).page = f.virtual
      /\ Space!Last(Requests(stack')).frame = f.physical
  BY NewRequest
<1>3. Requests(stack) # << >> => stack # << >>
  BY DEF Requests
<1>4. Requests(stack) # << >> =>
        Space!Last(Requests(stack')).page = Space!Last(Requests(stack')).frame
  BY <1>2, <1>3
<1>5. (pc' = "ready") = (pc = "ready")
  OBVIOUS
<1> QED
  BY Zenon, <1>1, <1>2, <1>4, <1>5 DEF Space!Ask

(* The first call of a stack.                                                *)
LEMMA FirstCallAsks ==
  ASSUME Inv, UNCHANGED <<pml4, tables, pc>>, stack = << >>,
         NEW v \in Virtual, NEW p \in Nat, NEW flags \in SUBSET USER_PAGE, PRESENT \in flags,
         stack' = <<Call(v, p, flags)>>
  PROVE  Space!Ask
<1> DEFINE f == Call(v, p, flags)
<1>1. WellFormed(pml4, tables) /\ pml4 \in Nat
  BY DEF Inv, Base, TypeOK
<1>2. Changes(pml4, tables, tables', {})
  BY Zenon, <1>1, ChangesNothing
<1>3. f \in Frame
  BY <1>1, CallWalks
<1> HIDE DEF f
<1>4. stack' = Append(<< >>, f)
  BY DEF f
<1>5. stack \in Seq(Frame) /\ << >> \in Seq(Frame) /\ Len(<< >>) = Len(stack)
        /\ \A i \in 1 .. Len(stack) : FALSE
  OBVIOUS
<1> QED
  BY <1>2, <1>3, <1>4, <1>5, StepAsks

(* Going down one level is no step of the address space.                     *)
LEMMA DescendSpace == ASSUME Inv, Descend PROVE SpaceStays
<1>1. /\ Changes(pml4, tables, tables', {})
      /\ \E t \in DOMAIN tables : stack' = Moved(stack, t)
      /\ stack # << >> /\ Top.level > 1
  BY DescendStep DEF Inv
<1>2. pml4' = pml4 /\ pc' = pc
  BY Zenon DEF Descend, loadVars
<1>3. Translation' = Translation
  BY <1>1, <1>2, FewChanged
<1>4. stack \in Seq(Frame) /\ Len(stack) \in Nat \ {0} /\ stack[Len(stack)] = Top
  BY <1>1, TopIs DEF Inv, Base, TypeOK
<1>5. PICK t \in DOMAIN tables : stack' = Moved(stack, t)
  BY <1>1
<1>6. t \in Nat
  BY DEF Inv, Base, TypeOK
<1>7. stack' \in Seq(Frame) /\ Len(stack') = Len(stack)
  BY <1>1, <1>4, <1>5, <1>6, MovedIs
<1>8. \A i \in 1 .. Len(stack) : stack'[i].virtual = stack[i].virtual /\ stack'[i].physical = stack[i].physical
  BY <1>1, <1>4, <1>5, <1>6, MovedKeeps
<1>9. Requests(stack') = Requests(stack)
  BY <1>4, <1>7, <1>8, SameRequests
<1> QED
  BY Zenon, <1>2, <1>3, <1>9 DEF SpaceStays

(* The call for a new table is a request for memory mapped to itself.        *)
LEMMA GrowSpace == ASSUME Inv, Grow PROVE Space!Ask
<1> DEFINE new == next_page
           moved == Moved(stack, new)
           f == Call(new, new, KERNEL_PAGE)
<1>1. /\ Changes(pml4, tables, tables', {}) /\ new \in Virtual /\ new \in Nat
      /\ stack' = Append(moved, f)
      /\ stack # << >> /\ Top.level > 1
  BY GrowStep DEF Inv
<1>2. pml4' = pml4 /\ pc' = pc
  BY Zenon DEF Grow, loadVars
<1>3. stack \in Seq(Frame) /\ Len(stack) \in Nat \ {0} /\ stack[Len(stack)] = Top
  BY <1>1, TopIs DEF Inv, Base, TypeOK
<1>4. f \in Frame /\ f.virtual = f.physical
  <2>1. KERNEL_PAGE \in SUBSET USER_PAGE /\ PRESENT \in KERNEL_PAGE
    BY DEF KERNEL_PAGE, USER_PAGE
  <2>2. WellFormed(pml4, tables) /\ pml4 \in Nat
    BY DEF Inv, Base, TypeOK
  <2>3. f \in Frame /\ f.virtual = new /\ f.physical = new
    BY <1>1, <2>1, <2>2, CallWalks
  <2> QED
    BY Zenon, <2>3
<1>5. moved \in Seq(Frame) /\ Len(moved) = Len(stack)
  BY <1>1, <1>3, MovedIs
<1>6. \A i \in 1 .. Len(stack) : moved[i].virtual = stack[i].virtual /\ moved[i].physical = stack[i].physical
  BY <1>1, <1>3, MovedKeeps
<1> HIDE DEF moved, f
<1> QED
  BY <1>1, <1>2, <1>3, <1>4, <1>5, <1>6, StepAsks

(* The call that ends serves the last request.                               *)
LEMMA MapLeafSpace == ASSUME Inv, MapLeaf PROVE Space!Serve
<1> DEFINE u == Top.virtual
<1>1. /\ Changes(pml4, tables, tables', {u})
      /\ TranslateIn(pml4, tables', u) = Top.physical
      /\ stack # << >> /\ stack' = Front(stack) /\ u \in Virtual
  BY MapLeafStep DEF Inv
<1>2. pml4' = pml4 /\ pc' = pc
  BY Zenon DEF MapLeaf, loadVars
<1>3. stack \in Seq(Frame) /\ stack[Len(stack)] = Top
  BY <1>1, TopIs DEF Inv, Base, TypeOK
<1>4. /\ Requests(stack) # << >> /\ Requests(stack') = Space!Front(Requests(stack))
      /\ Space!Last(Requests(stack)).page = u
      /\ Space!Last(Requests(stack)).frame = Top.physical
  BY <1>1, <1>3, LastRequest
<1>5. Space!Changed \subseteq {u}
  BY <1>1, <1>2, FewChanged
<1>6. Translation'[u] = Top.physical
  BY <1>1, <1>2, TranslationIs
<1>7. (pc' = "ready") = (pc = "ready")
  BY <1>2
<1> HIDE DEF u
<1> QED
  BY Zenon, <1>4, <1>5, <1>6, <1>7 DEF Space!Serve

(* Each call of the kernel's map is a request.                               *)
LEMMA LoadSpace == ASSUME Inv, Load PROVE Space!Ask
<1> DEFINE k == loaded + 1
<1>1. /\ UNCHANGED <<pml4, tables, pc>> /\ stack = << >> /\ loaded < Len(KernelMap)
      /\ stack' = <<Call(KernelMap[k][1], KernelMap[k][2], KERNEL_PAGE)>>
  BY Zenon DEF Load, memVars
<1>2. k \in 1 .. Len(KernelMap)
  BY <1>1, KernelMapFacts DEF Inv, Base, TypeOK
<1>3. KernelMap[k][1] \in Virtual /\ KernelMap[k][2] \in Nat
  BY <1>2, KernelMapFacts
<1>4. KERNEL_PAGE \in SUBSET USER_PAGE /\ PRESENT \in KERNEL_PAGE
  BY DEF KERNEL_PAGE, USER_PAGE
<1> QED
  BY <1>1, <1>3, <1>4, FirstCallAsks

(* A caller's call is a request.                                             *)
LEMMA MapSpace ==
  ASSUME Inv, NEW v \in Windows, NEW p \in DataPages, NEW flags \in CallerFlags, Map(v, p, flags)
  PROVE  Space!Ask
<1>1. UNCHANGED <<pml4, tables, pc>> /\ stack = << >> /\ stack' = <<Call(v, p, flags)>>
  BY Zenon DEF Map, memVars, loadVars, Ready
<1>2. v \in Virtual /\ p \in Nat /\ flags \in SUBSET USER_PAGE /\ PRESENT \in flags
  BY PagingAssumption
<1> QED
  BY <1>1, <1>2, FirstCallAsks

(* A page is taken away.                                                     *)
LEMMA StepUnmaps ==
  ASSUME Inv, NEW v \in Virtual, tables' = Cleared(v), pml4' = pml4, pc' = pc, stack = << >>,
         stack' \in Seq(Frame), Len(stack') <= 1
  PROVE  Space!Unmap
<1>1. Changes(pml4, tables, tables', {v}) /\ TranslateIn(pml4, tables', v) = NULL
  BY Zenon, ClearedStep DEF Inv
<1>2. Space!Changed \subseteq {v}
  BY <1>1, FewChanged
<1>4. Translation'[v] = NULL
  BY <1>1, TranslationIs
<1>5. \A page \in Space!Changed : Space!Changed = {page} /\ Translation'[page] = NULL
  BY <1>2, <1>4
<1>6. Requests(stack) = << >>
  BY DEF Requests
<1>7. Len(Requests(stack')) <= 1
  BY RequestsAre
<1>8. (pc' = "ready") = (pc = "ready")
  OBVIOUS
<1> QED
  BY Zenon, <1>5, <1>6, <1>7, <1>8 DEF Space!Unmap

(* paging_unmap_page unmaps a page.                                          *)
LEMMA UnmapSpace == ASSUME Inv, NEW v \in Windows, Unmap(v) PROVE Space!Unmap
<1>1. pml4' = pml4 /\ pc' = pc /\ stack = << >> /\ stack' = stack /\ tables' = Cleared(v)
  BY Zenon DEF Unmap, loadVars, Ready
<1>2. v \in Virtual
  BY PagingAssumption
<1>3. stack' \in Seq(Frame) /\ Len(stack') <= 1
  BY <1>1
<1> QED
  BY <1>1, <1>2, <1>3, StepUnmaps

(* paging_remap_page unmaps a page and makes a request at once.              *)
LEMMA RemapSpace ==
  ASSUME Inv, NEW old \in Windows, NEW new \in Windows, Remap(old, new) PROVE Space!Unmap
<1>1. /\ pml4' = pml4 /\ pc' = pc /\ stack = << >> /\ tables' = Cleared(old)
      /\ \E p : stack' = <<Call(new, p, Leaf(old).flags)>>
  BY Zenon DEF Remap, loadVars, Ready
<1>2. old \in Virtual
  BY PagingAssumption
<1>3. stack' \in Seq(Frame)
  BY RemapInv DEF Inv, Base, TypeOK
<1>4. Len(stack') <= 1
  BY <1>1
<1> QED
  BY <1>1, <1>2, <1>3, <1>4, StepUnmaps

(* An entry that is not present has address 0: it is what the page is mapped *)
(* to when its flags are set.                                                *)
LEMMA EditSpace ==
  ASSUME Inv, NEW v \in Windows, NEW flags \in CallerFlags, Edit(v, flags)
  PROVE  Space!Edit \/ SpaceStays
<1>1. pml4' = pml4 /\ pc' = pc /\ stack = << >> /\ stack' = stack
  BY Zenon DEF Edit, loadVars, Ready
<1>2. v \in Virtual /\ flags \in SUBSET USER_PAGE /\ PRESENT \in flags
  BY PagingAssumption
<1>3. /\ Changes(pml4, tables, tables', {v})
      /\ TranslateIn(pml4, tables', v) = EntryIn(pml4, tables, v).addr
      /\ PathIn(pml4, tables, v)[1] # NULL
  BY <1>2, EditStep DEF Inv
<1>4. Space!Changed \subseteq {v}
  BY <1>1, <1>3, FewChanged
<1>5. /\ Translation[v] = TranslateIn(pml4, tables, v)
      /\ Translation'[v] = EntryIn(pml4, tables, v).addr
  <2>1. Translation[v] = TranslateIn(pml4, tables, v) /\ Translation'[v] = TranslateIn(pml4', tables', v)
    BY Zenon, <1>2, TranslationIs
  <2> QED
    BY Zenon, <1>1, <1>3, <2>1
<1>6. CASE MappedIn(pml4, tables, v)
  <2>1. Translation'[v] = Translation[v]
    BY <1>5, <1>6 DEF TranslateIn
  <2>2. \A u \in Virtual : Translation'[u] = Translation[u]
    BY <1>4, <2>1 DEF Space!Changed
  <2>3. Translation' = Translation
    <3>1. /\ Translation = [u \in Virtual |-> Translation[u]]
          /\ Translation' = [u \in Virtual |-> Translation'[u]]
      BY DEF Translation
    <3> QED
      BY <2>2, <3>1
  <2> QED
    BY Zenon, <1>1, <2>3 DEF SpaceStays
<1>7. CASE ~ MappedIn(pml4, tables, v)
  <2>1. Translation[v] = NULL
    BY <1>5, <1>7 DEF TranslateIn
  <2>2. EntryIn(pml4, tables, v).addr = 0
    <3>1. PICK rank : Ranked(pml4, tables, rank)
      BY Zenon DEF Inv, Base, WellFormed
    <3>2. Walked(pml4, tables, rank, v)
      BY <1>2, <3>1, PathFacts
    <3>3. PathIn(pml4, tables, v)[1] \in DOMAIN tables
      BY Zenon, <1>3, <3>2, PageNumbers DEF Walked
    <3>4. Index(v, 1) \in Slots
      BY <1>2, PageNumbers, IndexRange DEF Slots
    <3>5. Marked(tables)
      BY DEF Inv, Base, WellFormed
    <3>6. PRESENT \in EntryIn(pml4, tables, v).flags \/ Blank(EntryIn(pml4, tables, v))
      BY Zenon, <3>3, <3>4, <3>5 DEF Marked, EntryIn, Present
    <3> QED
      BY Zenon, <1>3, <1>7, <3>6 DEF MappedIn, Blank
  <2>3. Translation'[v] = 0
    BY <1>5, <2>2
  <2>4. Space!Changed = {v}
    BY <1>2, <1>4, <2>1, <2>3 DEF Space!Changed, NULL
  <2>5. v \in Space!Changed
    BY <2>4
  <2>7. Requests(stack) = << >> /\ Requests(stack') = << >>
    BY <1>1 DEF Requests
  <2>8. (pc' = "ready") = (pc = "ready")
    BY <1>1
  <2> QED
    BY Zenon, <2>1, <2>3, <2>4, <2>5, <2>7, <2>8 DEF Space!Edit
<1> QED
  BY <1>6, <1>7

(* cr3 is loaded when all that the kernel needs is mapped.                   *)
LEMMA SyncSpace == ASSUME Inv, Settling, Sync PROVE Space!Start
<1>1. /\ UNCHANGED <<pml4, tables, stack>> /\ stack = << >> /\ pc' = "ready"
      /\ pc = "load" /\ loaded = Len(KernelMap)
  BY Zenon DEF Sync, memVars
<1>2. WellFormed(pml4, tables)
  BY DEF Inv, Base
<1>3. Changes(pml4, tables, tables', {})
  BY Zenon, <1>1, <1>2, ChangesNothing
<1>4. Translation' = Translation
  BY <1>1, <1>3, FewChanged
<1>5. Requests(stack) = << >> /\ Requests(stack') = Requests(stack)
  BY <1>1 DEF Requests
<1>6. pc # "ready" /\ pc' = "ready"
  BY <1>1
<1>7. DOMAIN KernelHomes = Needed /\ \A v \in Needed : KernelHomes[v] = Home(v)
  <2>1. \A v \in {SCREEN} \cup Listed : v < OFFSET
    BY KernelMapAssumption
  <2>2. \A p \in Listed : p \in Nat
    <3>1. \A v \in Needed : v \in Virtual
      BY KernelMapFacts
    <3> QED
      BY <3>1, PageNumbers DEF Needed
  <2>3. \A p \in Listed : ~(p + OFFSET < OFFSET)
    BY <2>2, PageNumbers
  <2>4. \A v \in Needed : v \in {SCREEN} \cup Listed <=> v < OFFSET
    BY <2>1, <2>3 DEF Needed
  <2>5. DOMAIN KernelHomes = Needed
    BY DEF KernelHomes, Needed
  <2>6. \A v \in Needed : KernelHomes[v] = IF v \in {SCREEN} \cup Listed THEN v ELSE v - OFFSET
    BY DEF KernelHomes, Needed
  <2> QED
    BY <2>4, <2>5, <2>6 DEF Home
<1>8. \A v \in Needed : TranslateIn(pml4, tables, v) = Home(v) /\ v \in Virtual
  BY <1>1, LoadedMaps, KernelMapFacts
<1>9. \A v \in Needed : Translation[v] = Home(v)
  BY <1>8, TranslationIs
<1>10. \A page \in DOMAIN KernelHomes : Translation[page] = KernelHomes[page]
  BY <1>7, <1>9
<1> QED
  BY Zenon, <1>4, <1>5, <1>6, <1>10 DEF Space!Start

(* Neither tables nor calls change.                                          *)
LEMMA SpaceSame ==
  ASSUME Inv, UNCHANGED <<pml4, tables, pc, stack>> PROVE SpaceStays
<1>1. WellFormed(pml4, tables)
  BY DEF Inv, Base
<1>2. Changes(pml4, tables, tables', {})
  BY Zenon, <1>1, ChangesNothing
<1>3. Translation' = Translation
  BY <1>2, FewChanged
<1> QED
  BY Zenon, <1>3 DEF SpaceStays

(* Every step of the tables is a step of the address space, or none.         *)
LEMMA StepIsSpaceStep == Inv /\ Settling /\ [Next]_vars => [Space!Next]_Space!vars
<1> SUFFICES ASSUME Inv, Settling, [Next]_vars PROVE Space!Next \/ SpaceStays
  BY Zenon DEF SpaceStays, Space!vars
<1> USE DEF Space!Next
<1>1. CASE MapStep
  BY <1>1, DescendSpace, GrowSpace, MapLeafSpace DEF MapStep
<1>2. CASE Load
  BY <1>2, LoadSpace
<1>3. CASE Sync
  BY <1>3, SyncSpace
<1>4. ASSUME NEW v \in Windows, NEW p \in DataPages, NEW flags \in CallerFlags, Map(v, p, flags)
      PROVE  Space!Next
  BY <1>4, MapSpace
<1>5. ASSUME NEW v \in Windows, Unmap(v) \/ Invalidate(v) \/ Fill(v) PROVE Space!Next \/ SpaceStays
  <2>1. CASE Unmap(v)
    BY <2>1, UnmapSpace
  <2>2. CASE Invalidate(v) \/ Fill(v)
    <3>1. UNCHANGED <<pml4, tables, pc, stack>>
      BY Zenon, <2>2 DEF Invalidate, Fill, memVars, loadVars
    <3> QED
      BY <3>1, SpaceSame
  <2> QED
    BY <1>5, <2>1, <2>2
<1>6. ASSUME NEW v \in Windows, NEW flags \in CallerFlags, Edit(v, flags) PROVE Space!Next \/ SpaceStays
  BY <1>6, EditSpace
<1>7. ASSUME NEW old \in Windows, NEW new \in Windows, Remap(old, new) PROVE Space!Next
  BY <1>7, RemapSpace
<1>8. CASE UNCHANGED vars
  <2>1. UNCHANGED <<pml4, tables, pc, stack>>
    BY Zenon, <1>8 DEF vars, memVars, loadVars
  <2> QED
    BY <2>1, SpaceSame
<1> QED
  BY Zenon, <1>1, <1>2, <1>3, <1>4, <1>5, <1>6, <1>7, <1>8 DEF Next

(* At first nothing is mapped.                                               *)
LEMMA InitIsSpaceInit == ASSUME Init PROVE Space!Init
<1>1. /\ pml4 = FIRST_PAGE /\ tables = [t \in {FIRST_PAGE} |-> EmptyTable]
      /\ pc = "load" /\ stack = << >>
  BY DEF Init
<1>2. \A t \in DOMAIN tables, i \in Slots : ~ Present(tables, t, i)
  <2>1. EmptyTable = [i \in Slots |-> Empty] /\ Empty.flags = {}
    BY DEF EmptyTable, Empty, Slots
  <2> QED
    BY <1>1, <2>1 DEF Present
<1>3. Inv
  BY InitInv
<1>4. ASSUME NEW v \in Virtual PROVE Translation[v] = NULL
  <2>1. PICK rank : Ranked(pml4, tables, rank)
    BY Zenon, <1>3 DEF Inv, Base, WellFormed
  <2>2. Walked(pml4, tables, rank, v)
    BY <2>1, PathFacts
  <2>3. PathIn(pml4, tables, v)[1] # NULL => PathIn(pml4, tables, v)[1] \in DOMAIN tables
    BY Zenon, <2>2, PageNumbers DEF Walked
  <2>4. Index(v, 1) \in Slots
    BY PageNumbers, IndexRange DEF Slots
  <2>5. ~ MappedIn(pml4, tables, v)
    BY Zenon, <1>2, <2>3, <2>4 DEF MappedIn, EntryIn, Present
  <2> QED
    BY <2>5, TranslationIs DEF TranslateIn
<1>5. Translation = [page \in Virtual |-> NULL]
  <2>1. Translation = [v \in Virtual |-> Translation[v]]
    BY DEF Translation
  <2> QED
    BY <1>4, <2>1
<1>6. Requests(stack) = << >> /\ (pc = "ready") = FALSE
  BY <1>1 DEF Requests
<1> QED
  BY Zenon, <1>5, <1>6 DEF Space!Init

(* The tables implement the address space that paging promises: whatever     *)
(* calls of paging_map_page run inside one another, each maps its own page   *)
(* as asked for and no other, and cr3 is loaded when the memory map, ACPI    *)
(* tables apart, is mapped at its addresses and in the upper half.           *)
THEOREM TablesAreSpace == Spec => AddressSpaceSpec
<1>1. Init => Space!Init
  BY InitIsSpaceInit
<1> QED
  BY <1>1, StepIsSpaceStep, BothInvariants, PTL DEF Spec, AddressSpaceSpec, Space!Spec
=============================================================================
