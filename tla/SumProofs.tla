----------------------------- MODULE SumProofs -----------------------------
(***************************************************************************)
(* Sums over finite sets, for the proofs about money: MapThenSumSet of the *)
(* community modules folds a set in an order nobody knows, and what the    *)
(* proofs need of it is that the order does not matter.                    *)
(*                                                                         *)
(* Induction over a finite set is by a smallest counterexample: the strict *)
(* subset order on the subsets of a finite set is well founded.            *)
(***************************************************************************)
EXTENDS Integers, FiniteSetsExt, FiniteSetTheorems, WellFoundedInduction, TLAPS

SumOf(v, S) == LET value(x) == v[x] IN MapThenSumSet(value, S)

(* t is the table of partial sums that MapThenSumSet builds for v.         *)
IsSumTable(t, v, S) ==
    t = [s \in SUBSET S |->
           IF s = {} THEN 0
           ELSE v[CHOOSE x \in s : TRUE] + t[s \ {CHOOSE x \in s : TRUE}]]

(* t gives every subset its sum: taking any one element away takes its     *)
(* value away, not only the one CHOOSE picks.                              *)
IsAdditive(t, v, S) ==
    /\ t \in [SUBSET S -> Int]
    /\ t[{}] = 0
    /\ \A s \in SUBSET S : \A x \in s : t[s] = v[x] + t[s \ {x}]

(* A non-empty set of subsets of a finite set has one that contains no     *)
(* other.                                                                  *)
LEMMA SmallestSubset ==
  ASSUME NEW S, IsFiniteSet(S), NEW B \in SUBSET SUBSET S, B # {}
  PROVE  \E s \in B : \A x \in s : s \ {x} \notin B
<1>1. FiniteSubsetsOf(S) = SUBSET S
  BY FS_FiniteSubsetsOfFinite
<1>2. IsWellFoundedOn(StrictSubsetOrdering(S), SUBSET S)
  BY <1>1, FS_StrictSubsetOrderingWellFounded
<1>3. PICK s \in B : \A r \in B : ~ (<<r, s>> \in StrictSubsetOrdering(S))
  BY <1>2, WFMin
<1>4. ASSUME NEW x \in s, s \ {x} \in B PROVE FALSE
  <2>1. <<s \ {x}, s>> \in StrictSubsetOrdering(S)
    BY <1>4 DEF StrictSubsetOrdering
  <2> QED BY <1>3, <1>4, <2>1
<1> QED BY <1>4

(* Every valuation of a finite set has a table that is additive.           *)
LEMMA AdditiveTableExists ==
  ASSUME NEW S, IsFiniteSet(S), NEW v, \A x \in S : v[x] \in Int
  PROVE  \E t : IsAdditive(t, v, S)
<1> DEFINE B == {s \in SUBSET S : ~ \E t : IsAdditive(t, v, s)}
<1> SUFFICES ASSUME B # {} PROVE FALSE
  BY Zenon
<1>1. PICK s \in B : \A x \in s : s \ {x} \notin B
  BY SmallestSubset
<1>2. IsAdditive([r \in SUBSET {} |-> 0], v, {})
  BY DEF IsAdditive
<1>3. s # {} /\ s \in SUBSET S
  BY <1>1, <1>2
<1>4. PICK a : a \in s
  BY <1>3
<1>5. PICK t : IsAdditive(t, v, s \ {a})
  BY <1>1, <1>3, <1>4
<1> DEFINE u == [r \in SUBSET s |-> IF a \in r THEN v[a] + t[r \ {a}] ELSE t[r]]
<1>6. \A r \in SUBSET s : r \ {a} \in SUBSET (s \ {a}) /\ (a \notin r => r \in SUBSET (s \ {a}))
  OBVIOUS
<1>7. \A r \in SUBSET (s \ {a}) : t[r] \in Int
  BY <1>5 DEF IsAdditive
<1>8. u \in [SUBSET s -> Int] /\ u[{}] = 0
  <2>1. v[a] \in Int
    BY <1>3, <1>4
  <2>2. \A r \in SUBSET s : (IF a \in r THEN v[a] + t[r \ {a}] ELSE t[r]) \in Int
    BY <1>6, <1>7, <2>1
  <2>3. t[{}] = 0
    BY <1>5 DEF IsAdditive
  <2> QED BY <2>2, <2>3
<1>9. ASSUME NEW r \in SUBSET s, NEW x \in r
      PROVE  u[r] = v[x] + u[r \ {x}]
  <2>1. v[a] \in Int /\ v[x] \in Int
    BY <1>3, <1>4
  <2>2. CASE x = a
    BY <2>2
  <2>3. CASE x # a /\ a \in r
    <3>1. t[r \ {a}] = v[x] + t[(r \ {a}) \ {x}]
      BY <1>5, <1>6, <2>3 DEF IsAdditive
    <3>2. (r \ {a}) \ {x} = (r \ {x}) \ {a} /\ (r \ {x}) \ {a} \in SUBSET (s \ {a})
      OBVIOUS
    <3>3. t[(r \ {x}) \ {a}] \in Int
      BY <1>7, <3>2
    <3>4. u[r] = v[a] + t[r \ {a}] /\ u[r \ {x}] = v[a] + t[(r \ {x}) \ {a}]
      BY <2>3
    <3>5. t[r \ {a}] = v[x] + t[(r \ {x}) \ {a}]
      BY <3>1, <3>2
    <3> HIDE DEF u
    <3> QED BY <2>1, <3>3, <3>4, <3>5
  <2>4. CASE x # a /\ a \notin r
    <3>1. t[r] = v[x] + t[r \ {x}]
      BY <1>5, <1>6, <2>4 DEF IsAdditive
    <3> QED BY <2>4, <3>1
  <2> QED BY <2>2, <2>3, <2>4
<1>10. IsAdditive(u, v, s)
  BY <1>8, <1>9 DEF IsAdditive
<1> QED BY <1>1, <1>10

(* An additive table satisfies the equation MapThenSumSet recurs on.       *)
LEMMA AdditiveIsTable ==
  ASSUME NEW S, NEW v, NEW t, IsAdditive(t, v, S)
  PROVE  IsSumTable(t, v, S)
<1>1. \A s \in SUBSET S : s # {} => (CHOOSE x \in s : TRUE) \in s
  OBVIOUS
<1>2. \A s \in SUBSET S :
        t[s] = IF s = {} THEN 0
               ELSE v[CHOOSE x \in s : TRUE] + t[s \ {CHOOSE x \in s : TRUE}]
  BY <1>1 DEF IsAdditive
<1> QED BY <1>2 DEF IsAdditive, IsSumTable

(* And no other function does.                                             *)
LEMMA TableIsUnique ==
  ASSUME NEW S, IsFiniteSet(S), NEW v, NEW t, IsAdditive(t, v, S), NEW g, IsSumTable(g, v, S)
  PROVE  g = t
<1> DEFINE B == {s \in SUBSET S : g[s] # t[s]}
<1>1. CASE B = {}
  BY <1>1 DEF IsAdditive, IsSumTable
<1>2. CASE B # {}
  <2>1. PICK s \in B : \A x \in s : s \ {x} \notin B
    BY <1>2, SmallestSubset
  <2>2. s \in SUBSET S /\ g[s] # t[s]
    BY <2>1
  <2>3. CASE s = {}
    BY <2>2, <2>3 DEF IsAdditive, IsSumTable
  <2>4. CASE s # {}
    <3>1. PICK x \in s : x = CHOOSE y \in s : TRUE
      BY <2>4
    <3>2. g[s] = v[x] + g[s \ {x}]
      BY <2>2, <2>4, <3>1 DEF IsSumTable
    <3>3. t[s] = v[x] + t[s \ {x}]
      BY <2>2 DEF IsAdditive
    <3>4. g[s \ {x}] = t[s \ {x}]
      BY <2>1, <2>2
    <3> QED BY <2>2, <3>2, <3>3, <3>4
  <2> QED BY <2>3, <2>4
<1> QED BY <1>1, <1>2

(* So the sum of a finite set is what any additive table says it is.       *)
LEMMA SumOfTable ==
  ASSUME NEW S, IsFiniteSet(S), NEW v, NEW t, IsAdditive(t, v, S)
  PROVE  SumOf(v, S) = t[S]
<1> DEFINE T == CHOOSE g : IsSumTable(g, v, S)
<1>1. IsSumTable(T, v, S)
  BY AdditiveIsTable, Zenon
<1>2. T = t
  BY <1>1, TableIsUnique
<1>3. SumOf(v, S) = T[S]
  BY DEF SumOf, MapThenSumSet, MapThenFoldSet, IsSumTable
<1> QED BY <1>2, <1>3

LEMMA SumIsInt ==
  ASSUME NEW S, IsFiniteSet(S), NEW v, \A x \in S : v[x] \in Int
  PROVE  SumOf(v, S) \in Int
<1>1. PICK t : IsAdditive(t, v, S)
  BY AdditiveTableExists
<1>2. SumOf(v, S) = t[S]
  BY <1>1, SumOfTable
<1> QED BY <1>1, <1>2 DEF IsAdditive

(* A sum over values that are all zero.                                    *)
LEMMA SumOfZeros ==
  ASSUME NEW S, IsFiniteSet(S), NEW v, \A x \in S : v[x] = 0
  PROVE  SumOf(v, S) = 0
<1>1. IsAdditive([s \in SUBSET S |-> 0], v, S)
  BY DEF IsAdditive
<1> QED BY <1>1, SumOfTable

(* Only the values of the elements matter.                                 *)
LEMMA SumAgrees ==
  ASSUME NEW S, IsFiniteSet(S), NEW v, NEW u, \A x \in S : v[x] \in Int /\ u[x] = v[x]
  PROVE  SumOf(u, S) = SumOf(v, S)
<1>1. PICK t : IsAdditive(t, v, S)
  BY AdditiveTableExists
<1>2. IsAdditive(t, u, S)
  BY <1>1 DEF IsAdditive
<1> QED BY <1>1, <1>2, SumOfTable

(* An element may be taken out first.                                      *)
LEMMA SumSplit ==
  ASSUME NEW S, IsFiniteSet(S), NEW v, \A x \in S : v[x] \in Int, NEW a \in S
  PROVE  SumOf(v, S) = v[a] + SumOf(v, S \ {a})
<1>1. PICK t : IsAdditive(t, v, S)
  BY AdditiveTableExists
<1> DEFINE R == S \ {a}
           u == [s \in SUBSET R |-> t[s]]
<1>2. R \in SUBSET S /\ IsFiniteSet(R)
  BY FS_Subset
<1>3. IsAdditive(u, v, R)
  <2>1. u \in [SUBSET R -> Int] /\ u[{}] = 0
    BY <1>1, <1>2 DEF IsAdditive
  <2>2. ASSUME NEW s \in SUBSET R, NEW x \in s
        PROVE  u[s] = v[x] + u[s \ {x}]
    <3>1. s \in SUBSET S /\ s \ {x} \in SUBSET R
      OBVIOUS
    <3>2. t[s] = v[x] + t[s \ {x}]
      BY <1>1, <3>1 DEF IsAdditive
    <3> QED BY <3>1, <3>2
  <2> QED BY <2>1, <2>2 DEF IsAdditive
<1>4. SumOf(v, R) = u[R]
  BY <1>2, <1>3, SumOfTable
<1>5. SumOf(v, S) = t[S]
  BY <1>1, SumOfTable
<1>6. t[S] = v[a] + t[R] /\ u[R] = t[R]
  BY <1>1 DEF IsAdditive
<1> QED BY <1>4, <1>5, <1>6

(* When one value changes, the sum changes by as much.                     *)
AgreeBut(v, u, a, S) == \A x \in S : v[x] \in Int /\ u[x] \in Int /\ (x # a => u[x] = v[x])

LEMMA SumOfOneChange ==
  ASSUME NEW S, IsFiniteSet(S), NEW v, NEW u, NEW a \in S, AgreeBut(v, u, a, S)
  PROVE  SumOf(u, S) = SumOf(v, S) + u[a] - v[a]
<1>1. IsFiniteSet(S \ {a})
  BY FS_RemoveElement
<1>2. SumOf(u, S \ {a}) = SumOf(v, S \ {a}) /\ SumOf(v, S \ {a}) \in Int
  BY <1>1, SumAgrees, SumIsInt DEF AgreeBut
<1>3. SumOf(v, S) = v[a] + SumOf(v, S \ {a}) /\ SumOf(u, S) = u[a] + SumOf(u, S \ {a})
  BY SumSplit DEF AgreeBut
<1>4. v[a] \in Int /\ u[a] \in Int
  BY DEF AgreeBut
<1> QED BY <1>2, <1>3, <1>4

LEMMA SumOfChange ==
  ASSUME NEW S, IsFiniteSet(S), NEW v, NEW u, NEW a \in S,
         \A x \in S : v[x] \in Int /\ u[x] \in Int /\ (x # a => u[x] = v[x])
  PROVE  SumOf(u, S) = SumOf(v, S) + u[a] - v[a]
<1>1. AgreeBut(v, u, a, S)
  BY DEF AgreeBut
<1> QED BY <1>1, SumOfOneChange

(* A sum of numbers that are not negative is none, and is zero only if all *)
(* of them are.                                                            *)
LEMMA SumIsNat ==
  ASSUME NEW S, IsFiniteSet(S), NEW v, \A x \in S : v[x] \in Nat
  PROVE  SumOf(v, S) \in Nat /\ \A x \in S : v[x] <= SumOf(v, S)
<1>1. PICK t : IsAdditive(t, v, S)
  BY AdditiveTableExists
<1> DEFINE B == {s \in SUBSET S : t[s] \notin Nat}
<1>2. B = {}
  <2> SUFFICES ASSUME B # {} PROVE FALSE
    OBVIOUS
  <2>1. PICK s \in B : \A x \in s : s \ {x} \notin B
    BY SmallestSubset
  <2>2. PICK x : x \in s
    <3>1. t[{}] = 0 /\ t[s] \notin Nat
      BY <1>1, <2>1 DEF IsAdditive
    <3> QED BY <3>1
  <2>3. t[s] = v[x] + t[s \ {x}] /\ t[s \ {x}] \in Nat /\ v[x] \in Nat
    BY <1>1, <2>1, <2>2 DEF IsAdditive
  <2> QED BY <2>1, <2>3
<1>3. ASSUME NEW x \in S PROVE v[x] <= t[S]
  <2>1. t[S] = v[x] + t[S \ {x}] /\ t[S \ {x}] \in Nat
    BY <1>1, <1>2 DEF IsAdditive
  <2> QED BY <2>1
<1>4. SumOf(v, S) = t[S] /\ t[S] \in Nat
  BY <1>1, <1>2, SumOfTable
<1> QED BY <1>3, <1>4

(* Sums of sums, and sums of values that are not smaller.                  *)
LEMMA SumsAdd ==
  ASSUME NEW S, IsFiniteSet(S), NEW v, NEW u, NEW w,
         \A x \in S : v[x] \in Int /\ u[x] \in Int /\ w[x] = v[x] + u[x]
  PROVE  SumOf(w, S) = SumOf(v, S) + SumOf(u, S)
<1>1. PICK t : IsAdditive(t, v, S)
  BY AdditiveTableExists
<1>2. PICK r : IsAdditive(r, u, S)
  BY AdditiveTableExists
<1> DEFINE q == [s \in SUBSET S |-> t[s] + r[s]]
<1>3. q \in [SUBSET S -> Int] /\ q[{}] = 0
  BY <1>1, <1>2 DEF IsAdditive
<1>4. ASSUME NEW s \in SUBSET S, NEW x \in s
      PROVE  q[s] = w[x] + q[s \ {x}]
  <2>1. t[s] = v[x] + t[s \ {x}] /\ t[s \ {x}] \in Int
    BY <1>1 DEF IsAdditive
  <2>2. r[s] = u[x] + r[s \ {x}] /\ r[s \ {x}] \in Int
    BY <1>2 DEF IsAdditive
  <2>3. v[x] \in Int /\ u[x] \in Int /\ w[x] = v[x] + u[x]
    OBVIOUS
  <2> QED BY <2>1, <2>2, <2>3
<1>5. IsAdditive(q, w, S)
  BY <1>3, <1>4 DEF IsAdditive
<1>6. SumOf(w, S) = q[S]
  BY <1>5, SumOfTable
<1> QED BY <1>1, <1>2, <1>6, SumOfTable

LEMMA SumIsMonotone ==
  ASSUME NEW S, IsFiniteSet(S), NEW v, NEW w, \A x \in S : v[x] \in Int /\ w[x] \in Int /\ v[x] <= w[x]
  PROVE  SumOf(v, S) <= SumOf(w, S)
<1> DEFINE u == [x \in S |-> w[x] - v[x]]
<1>1. \A x \in S : u[x] \in Nat /\ w[x] = v[x] + u[x]
  OBVIOUS
<1> HIDE DEF u
<1>2. SumOf(w, S) = SumOf(v, S) + SumOf(u, S)
  BY <1>1, SumsAdd
<1>3. SumOf(u, S) \in Nat /\ SumOf(v, S) \in Int
  BY <1>1, SumIsNat, SumIsInt
<1> QED BY <1>2, <1>3
=============================================================================
