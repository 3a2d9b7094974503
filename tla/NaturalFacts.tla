---------------------------- MODULE NaturalFacts ----------------------------
(***************************************************************************)
(* Facts about sets of natural numbers that the proofs about the           *)
(* components share.  The least member of a set is what induction needs: a *)
(* set of counterexamples, if there are any, has a least one.              *)
(***************************************************************************)
EXTENDS Integers, FiniteSetsExt, FiniteSetTheorems, WellFoundedInduction, TLAPS

(* In a well-founded set every set with a member has a minimal one.          *)
LEMMA MinimalMember ==
  \A R, S, T : IsWellFoundedOn(R, S) /\ T \subseteq S /\ T # {}
                 => \E x \in T : \A y \in T : ~ (<<y, x>> \in R)
BY WFMin

(* Every set of natural numbers that has a member has a least one.           *)
LEMMA LeastNatural ==
  ASSUME NEW T \in SUBSET Nat, T # {}
  PROVE  \E m \in T : \A k \in T : m <= k
<1>1. PICK R : IsWellFoundedOn(R, Nat) /\ \A k, m \in Nat : k < m => <<k, m>> \in R
  <2>1. IsWellFoundedOn({pair \in Nat \X Nat : pair[1] < pair[2]}, Nat)
    BY Zenon, NatLessThanWellFounded DEF OpToRel
  <2>2. \A k, m \in Nat : k < m => <<k, m>> \in {pair \in Nat \X Nat : pair[1] < pair[2]}
    OBVIOUS
  <2> QED
    BY Zenon, <2>1, <2>2
<1>2. IsWellFoundedOn(R, Nat)
  BY <1>1
<1>3. T \subseteq Nat /\ T # {}
  OBVIOUS
<1>4. \E m \in T : \A k \in T : ~ (<<k, m>> \in R)
  <2> DEFINE N == Nat
  <2>1. IsWellFoundedOn(R, N) /\ T \subseteq N /\ T # {}
    BY <1>2, <1>3
  <2> HIDE DEF N
  <2> QED
    BY <2>1, MinimalMember
<1>5. PICK m \in T : \A k \in T : ~ (<<k, m>> \in R)
  BY Zenon, <1>4
<1>6. \A k \in T : ~ (k < m)
  BY Zenon, <1>1, <1>3, <1>5
<1> QED
  BY <1>6

(* Induction over 0 .. n, for a set instead of a predicate.                  *)
LEMMA UpTo ==
  ASSUME NEW n \in Nat, NEW T, 0 \in T,
         \A k \in 0 .. n - 1 : k \in T => k + 1 \in T
  PROVE  \A k \in 0 .. n : k \in T
<1> DEFINE Out == {k \in 0 .. n : k \notin T}
<1>1. SUFFICES ASSUME Out # {} PROVE FALSE
  OBVIOUS
<1>2. PICK m \in Out : \A k \in Out : m <= k
  <2>1. Out \in SUBSET Nat
    OBVIOUS
  <2> QED
    BY <1>1, <2>1, LeastNatural
<1>3. m - 1 \in 0 .. n - 1 /\ m - 1 \notin Out
  BY <1>2
<1> QED
  BY <1>2, <1>3

(* Induction from n down to 1.                                               *)
LEMMA DownFrom ==
  ASSUME NEW n \in Nat \ {0}, NEW T, n \in T,
         \A k \in 1 .. n - 1 : k + 1 \in T => k \in T
  PROVE  \A k \in 1 .. n : k \in T
<1> DEFINE U == {k \in 0 .. n - 1 : n - k \in T}
<1>1. 0 \in U
  OBVIOUS
<1>2. \A k \in 0 .. (n - 1) - 1 : k \in U => k + 1 \in U
  <2> SUFFICES ASSUME NEW k \in 0 .. n - 2, k \in U PROVE k + 1 \in U
    OBVIOUS
  <2>1. n - (k + 1) \in 1 .. n - 1 /\ (n - (k + 1)) + 1 = n - k /\ n - k \in T
    OBVIOUS
  <2>2. n - (k + 1) \in T
    BY <2>1
  <2> QED
    BY <2>2
<1>3. n - 1 \in Nat
  OBVIOUS
<1> HIDE DEF U
<1>4. \A k \in 0 .. n - 1 : k \in U
  BY <1>1, <1>2, <1>3, UpTo
<1> SUFFICES ASSUME NEW k \in 1 .. n PROVE k \in T
  OBVIOUS
<1>5. n - k \in U
  BY <1>4
<1> QED
  BY <1>5 DEF U

(* The functions on 0 .. n that begin with a value, take each further one    *)
(* from the one before, and stay in the sets S[0], S[1] and so on.           *)
StaysIn(n, S, start, step) ==
  start \in S[0] /\ \A i \in 1 .. n : \A x \in S[i - 1] : step[i][x] \in S[i]

IsRecursive(n, S, start, step, f) ==
  /\ f = [i \in 0 .. n |-> f[i]] /\ f[0] = start
  /\ \A i \in 0 .. n : f[i] \in S[i]
  /\ \A i \in 1 .. n : f[i] = step[i][f[i - 1]]

(* There is one, if the steps stay in the sets.                              *)
LEMMA RecursiveFunction ==
  ASSUME NEW n \in Nat, NEW S, NEW start, NEW step, StaysIn(n, S, start, step)
  PROVE  \E f : IsRecursive(n, S, start, step, f)
<1> USE DEF StaysIn
<1> DEFINE Good(k, f) == /\ f = [i \in 0 .. k |-> f[i]] /\ f[0] = start
                         /\ \A i \in 0 .. k : f[i] \in S[i]
                         /\ \A i \in 1 .. k : f[i] = step[i][f[i - 1]]
           T == {k \in 0 .. n : \E f : Good(k, f)}
<1>1. 0 \in T
  <2> DEFINE f == [i \in 0 .. 0 |-> start]
  <2>1. Good(0, f)
    OBVIOUS
  <2> HIDE DEF Good, f
  <2> QED
    BY <2>1
<1>2. ASSUME NEW k \in 0 .. n - 1, k \in T PROVE k + 1 \in T
  <2>1. PICK f : Good(k, f)
    BY <1>2
  <2> DEFINE g == [i \in 0 .. k + 1 |-> IF i = k + 1 THEN step[k + 1][f[k]] ELSE f[i]]
  <2>2. k + 1 \in 0 .. n /\ k + 1 \in 1 .. n /\ k \in Nat /\ (k + 1) - 1 = k
    OBVIOUS
  <2>3. step[k + 1][f[k]] \in S[k + 1]
    BY <2>1, <2>2
  <2>4. \A i \in 0 .. k : g[i] = f[i]
    BY <2>2
  <2>5. g[k + 1] = step[k + 1][f[k]]
    BY <2>2
  <2>6. g = [i \in 0 .. k + 1 |-> g[i]]
    OBVIOUS
  <2> HIDE DEF g
  <2>7. g[0] = start
    BY <2>1, <2>2, <2>4
  <2>8. \A i \in 0 .. k + 1 : g[i] \in S[i]
    BY <2>1, <2>2, <2>3, <2>4, <2>5
  <2>9. \A i \in 1 .. k + 1 : g[i] = step[i][g[i - 1]]
    <3> SUFFICES ASSUME NEW i \in 1 .. k + 1 PROVE g[i] = step[i][g[i - 1]]
      OBVIOUS
    <3>1. CASE i = k + 1
      BY <3>1, <2>2, <2>4, <2>5
    <3>2. CASE i # k + 1
      <4>1. i \in 1 .. k /\ i \in 0 .. k /\ i - 1 \in 0 .. k
        BY <3>2, <2>2
      <4> QED
        BY <4>1, <2>1, <2>4
    <3> QED
      BY <3>1, <3>2
  <2>10. Good(k + 1, g)
    BY <2>6, <2>7, <2>8, <2>9
  <2> HIDE DEF Good
  <2> QED
    BY <2>2, <2>10
<1> HIDE DEF T
<1>3. \A k \in 0 .. n : k \in T
  BY <1>1, <1>2, UpTo
<1>4. n \in T
  BY <1>3
<1> QED
  BY <1>4 DEF T, IsRecursive

(* Min is a member of the set, and a lower bound of it.                      *)
LEMMA MinLeast ==
  ASSUME NEW T \in SUBSET Nat, T # {}
  PROVE  Min(T) \in T /\ \A k \in T : Min(T) <= k
BY LeastNatural DEF Min

(* Max is a member of a bounded set, and an upper bound of it.               *)
LEMMA MaxGreatest ==
  ASSUME NEW n \in Nat, NEW T \in SUBSET (0 .. n), T # {}
  PROVE  Max(T) \in T /\ \A k \in T : k <= Max(T)
<1> DEFINE D == {d \in 0 .. n : n - d \in T}
<1>1. D \in SUBSET Nat /\ D # {}
  <2>1. PICK t \in T : TRUE
    OBVIOUS
  <2>2. n - t \in D
    BY <2>1
  <2> QED
    BY <2>2
<1>2. PICK d \in D : \A e \in D : d <= e
  BY <1>1, LeastNatural
<1>3. \A k \in T : n - k \in D
  OBVIOUS
<1>4. n - d \in T /\ \A k \in T : k <= n - d
  BY <1>2, <1>3
<1> QED
  BY <1>4 DEF Max

(* Multiples of a number keep their order, and its distance.                 *)
LEMMA TimesOrder ==
  ASSUME NEW c \in Nat, NEW a \in Int, NEW b \in Int, a < b
  PROVE  c * a + c <= c * b
<1>1. b - a - 1 \in Nat
  OBVIOUS
<1>2. c * (b - a - 1) \in Nat
  BY <1>1
<1>3. c * (b - a - 1) = c * b - c * a - c
  OBVIOUS
<1> QED
  BY <1>2, <1>3

(* A number is made of its quotient and its remainder.                       *)
LEMMA DivMod ==
  ASSUME NEW c \in Nat \ {0}, NEW n \in Int
  PROVE  n \div c \in Int /\ n % c \in 0 .. c - 1 /\ n = (n % c) + c * (n \div c)
OBVIOUS

(* Quotient and remainder are the only ones.                                 *)
LEMMA DivModUnique ==
  ASSUME NEW c \in Nat \ {0}, NEW x \in 0 .. c - 1, NEW y \in Int
  PROVE  (x + c * y) % c = x /\ (x + c * y) \div c = y
<1> DEFINE n == x + c * y
           q == n \div c
           r == n % c
<1>1. n \in Int /\ c * y \in Int
  OBVIOUS
<1>2. q \in Int /\ r \in 0 .. c - 1 /\ n = r + c * q
  BY <1>1, DivMod
<1>3. c * q \in Int
  BY <1>2
<1> HIDE DEF q, r
<1>4. ~(q < y)
  <2> SUFFICES ASSUME q < y PROVE FALSE
    OBVIOUS
  <2>1. c * q + c <= c * y
    BY <1>2, TimesOrder
  <2> QED
    BY <2>1, <1>1, <1>2, <1>3
<1>5. ~(y < q)
  <2> SUFFICES ASSUME y < q PROVE FALSE
    OBVIOUS
  <2>1. c * y + c <= c * q
    BY <1>2, TimesOrder
  <2> QED
    BY <2>1, <1>1, <1>2, <1>3
<1>6. q = y
  BY <1>2, <1>4, <1>5
<1>7. r = x
  BY <1>1, <1>2, <1>3, <1>6
<1> QED
  BY <1>6, <1>7 DEF q, r

(* f gives for each subset of S the sum of p over it, taken member by      *)
(* member as x picks them.                                                   *)
IsSum(S, p, x, f) ==
  f = [s \in SUBSET S |-> IF s = {} THEN 0 ELSE p[x[s]] + f[s \ {x[s]}]]

(* x picks a member of every set that has one.                               *)
Chooses(S, x) == \A s \in SUBSET S : s # {} => x[s] \in s

(* Without that member the set is smaller.                                   *)
LEMMA Smaller ==
  ASSUME NEW S, IsFiniteSet(S), NEW x, Chooses(S, x), NEW s \in SUBSET S, s # {}
  PROVE  /\ s \ {x[s]} \in SUBSET S /\ Cardinality(s) \in Nat
         /\ Cardinality(s \ {x[s]}) = Cardinality(s) - 1 /\ Cardinality(s) # 0
<1>1. IsFiniteSet(s) /\ x[s] \in s
  BY FS_Subset DEF Chooses
<1>2. Cardinality(s) \in Nat /\ Cardinality(s \ {x[s]}) = Cardinality(s) - 1
  BY <1>1, FS_CardinalityType, FS_RemoveElement
<1>3. Cardinality(s) # 0
  BY <1>1, FS_EmptySet
<1> QED
  BY <1>2, <1>3

(* The sum over a finite set is defined.                                     *)
LEMMA SumExists ==
  ASSUME NEW S, IsFiniteSet(S), NEW p, NEW x, Chooses(S, x)
  PROVE  \E f : IsSum(S, p, x, f)
<1> DEFINE n == Cardinality(S)
           Good(k, f) == /\ f = [s \in SUBSET S |-> f[s]]
                         /\ \A s \in SUBSET S : Cardinality(s) <= k =>
                               f[s] = IF s = {} THEN 0 ELSE p[x[s]] + f[s \ {x[s]}]
           T == {k \in 0 .. n : \E f : Good(k, f)}
<1>1. n \in Nat
  BY FS_CardinalityType
<1>2. \A s \in SUBSET S : Cardinality(s) \in 0 .. n /\ (s = {} <=> Cardinality(s) = 0)
  BY FS_Subset, FS_CardinalityType, FS_EmptySet
<1>3. 0 \in T
  <2> DEFINE f == [s \in SUBSET S |-> 0]
  <2>1. f = [s \in SUBSET S |-> f[s]]
    OBVIOUS
  <2>2. \A s \in SUBSET S : Cardinality(s) <= 0 =>
              f[s] = IF s = {} THEN 0 ELSE p[x[s]] + f[s \ {x[s]}]
    BY <1>1, <1>2
  <2> HIDE DEF f
  <2>3. Good(0, f)
    BY <2>1, <2>2
  <2> HIDE DEF Good
  <2> QED
    BY <1>1, <2>3
<1>4. ASSUME NEW k \in 0 .. n - 1, k \in T PROVE k + 1 \in T
  <2>1. PICK f : Good(k, f)
    BY <1>4
  <2> DEFINE g == [s \in SUBSET S |-> IF Cardinality(s) <= k THEN f[s]
                                      ELSE p[x[s]] + f[s \ {x[s]}]]
  <2>2. g = [s \in SUBSET S |-> g[s]]
    OBVIOUS
  <2>3. \A s \in SUBSET S : Cardinality(s) <= k => g[s] = f[s]
    OBVIOUS
  <2>4. \A s \in SUBSET S : ~(Cardinality(s) <= k) => g[s] = p[x[s]] + f[s \ {x[s]}]
    OBVIOUS
  <2> HIDE DEF g
  <2>5. ASSUME NEW s \in SUBSET S, Cardinality(s) <= k + 1
        PROVE  g[s] = IF s = {} THEN 0 ELSE p[x[s]] + g[s \ {x[s]}]
    <3>1. CASE s = {}
      <4>1. Cardinality(s) <= k
        BY <3>1, <1>2
      <4> QED
        BY <4>1, <3>1, <2>1, <2>3
    <3>2. CASE s # {}
      <4>1. /\ s \ {x[s]} \in SUBSET S /\ Cardinality(s) \in Nat
            /\ Cardinality(s \ {x[s]}) = Cardinality(s) - 1
        BY <3>2, Smaller
      <4>2. Cardinality(s \ {x[s]}) <= k
        BY <4>1, <2>5
      <4>3. g[s \ {x[s]}] = f[s \ {x[s]}]
        BY <4>1, <4>2, <2>3
      <4>4. CASE Cardinality(s) <= k
        <5>1. g[s] = f[s] /\ f[s] = p[x[s]] + f[s \ {x[s]}]
          BY <4>4, <3>2, <2>1, <2>3
        <5> QED
          BY <5>1, <4>3, <3>2
      <4>5. CASE ~(Cardinality(s) <= k)
        BY <4>5, <4>3, <3>2, <2>4
      <4> QED
        BY <4>4, <4>5
    <3> QED
      BY <3>1, <3>2
  <2>6. Good(k + 1, g)
    BY <2>2, <2>5
  <2>7. k + 1 \in 0 .. n
    BY <1>1
  <2> HIDE DEF Good
  <2> QED
    BY <2>6, <2>7
<1> HIDE DEF T, n
<1>5. n \in T
  <2>1. \A k \in 0 .. n : k \in T
    BY <1>1, <1>3, <1>4, UpTo
  <2> QED
    BY <2>1, <1>1
<1>6. PICK f : Good(n, f)
  BY <1>5 DEF T
<1>7. \A s \in SUBSET S : f[s] = IF s = {} THEN 0 ELSE p[x[s]] + f[s \ {x[s]}]
  <2>1. \A s \in SUBSET S : Cardinality(s) <= n
    BY <1>1, <1>2
  <2> QED
    BY <2>1, <1>6
<1>8. f = [s \in SUBSET S |-> f[s]]
  BY <1>6
<1>9. IsSum(S, p, x, f)
  BY Zenon, <1>7, <1>8 DEF IsSum
<1> QED
  BY <1>9

(* The sum of numbers is a number.                                           *)
LEMMA SumNumber ==
  ASSUME NEW S, IsFiniteSet(S), NEW p, NEW x, Chooses(S, x), NEW f, IsSum(S, p, x, f),
         \A i \in S : p[i] \in Nat
  PROVE  f[S] \in Nat
<1> DEFINE n == Cardinality(S)
           T == {k \in 0 .. n : \A s \in SUBSET S : Cardinality(s) = k => f[s] \in Nat}
<1>1. n \in Nat
  BY FS_CardinalityType
<1>2. \A s \in SUBSET S : f[s] = IF s = {} THEN 0 ELSE p[x[s]] + f[s \ {x[s]}]
  <2> DEFINE F == [s \in SUBSET S |-> IF s = {} THEN 0 ELSE p[x[s]] + f[s \ {x[s]}]]
  <2>1. \A s \in SUBSET S : F[s] = IF s = {} THEN 0 ELSE p[x[s]] + f[s \ {x[s]}]
    OBVIOUS
  <2>2. f = F
    BY DEF IsSum
  <2> HIDE DEF F
  <2> QED
    BY <2>1, <2>2
<1>3. 0 \in T
  <2>1. \A s \in SUBSET S : Cardinality(s) = 0 => s = {}
    BY FS_Subset, FS_EmptySet
  <2> QED
    BY <2>1, <1>1, <1>2
<1>4. ASSUME NEW k \in 0 .. n - 1, k \in T PROVE k + 1 \in T
  <2>1. ASSUME NEW s \in SUBSET S, Cardinality(s) = k + 1
        PROVE  f[s] \in Nat
    <3>1. s # {}
      BY <2>1, <1>1, FS_EmptySet
    <3>2. /\ s \ {x[s]} \in SUBSET S /\ Cardinality(s) \in Nat
          /\ Cardinality(s \ {x[s]}) = Cardinality(s) - 1
      BY <3>1, Smaller
    <3>3. Cardinality(s \ {x[s]}) = k
      BY <3>2, <2>1
    <3>4. f[s \ {x[s]}] \in Nat
      BY <3>2, <3>3, <1>4
    <3>5. x[s] \in S
      BY <3>1 DEF Chooses
    <3>6. p[x[s]] \in Nat
      BY <3>5
    <3>7. f[s] = p[x[s]] + f[s \ {x[s]}]
      BY <3>1, <1>2
    <3> QED
      BY <3>4, <3>6, <3>7
  <2>2. k + 1 \in 0 .. n
    BY <1>1
  <2> QED
    BY <2>1, <2>2
<1> HIDE DEF T, n
<1>5. \A k \in 0 .. n : k \in T
  BY <1>1, <1>3, <1>4, UpTo
<1>6. n \in T
  BY <1>5, <1>1
<1> QED
  BY <1>6 DEF T, n
=============================================================================
