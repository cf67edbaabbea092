------------------------------ MODULE ReportsProofs ------------------------------
(***************************************************************************)
(* Proofs about Reports.  The first half is about sums: the library's      *)
(* SumFunction adds a set up element by element, in an order of its own,   *)
(* and what the reports rely on is that the order does not matter.         *)
(***************************************************************************)
EXTENDS Reports, FiniteSetTheorems, LargestElements, TLAPS

USE SessionsAssumption, ItemsAssumption, BoundsAssumption

------------------------------------------------------------------------------
(* Sums. *)

\* The element a sum takes first, and what makes a function a table of its partial sums:
\* of the subsets of S with at most k elements.
First(s) == CHOOSE x \in s : TRUE
Small(S, k) == {s \in SUBSET S : Cardinality(s) <= k}
PartialSums(h, f, S, k) ==
  h = [s \in Small(S, k) |-> IF s = {} THEN 0 ELSE f[First(s)] + h[s \ {First(s)}]]
AllSums(h, f, S) ==
  h = [s \in SUBSET S |-> IF s = {} THEN 0 ELSE f[First(s)] + h[s \ {First(s)}]]

LEMMA FirstIsIn == ASSUME NEW s, s # {} PROVE First(s) \in s
BY DEF First

LEMMA OneLess ==
  ASSUME NEW S, IsFiniteSet(S), NEW s \in SUBSET S, s # {}
  PROVE  /\ First(s) \in s
         /\ s \ {First(s)} \in SUBSET S
         /\ IsFiniteSet(s) /\ Cardinality(s) \in Nat
         /\ IsFiniteSet(s \ {First(s)}) /\ Cardinality(s \ {First(s)}) = Cardinality(s) - 1
<1>1. First(s) \in s
  BY FirstIsIn
<1>2. IsFiniteSet(s)
  BY FS_Subset
<1> QED BY <1>1, <1>2, FS_RemoveElement, FS_CardinalityType

\* Of the subsets of a finite set that have a property there is one none of whose
\* proper parts has it.
LEMMA SmallestSet ==
  ASSUME NEW S, IsFiniteSet(S), NEW B \in SUBSET (SUBSET S), B # {}
  PROVE  \E T \in B : IsFiniteSet(T) /\ \A U \in SUBSET T : U \in B => U = T
<1> DEFINE Cards == {Cardinality(T) : T \in B}
<1>1. \A T \in SUBSET S : IsFiniteSet(T) /\ Cardinality(T) \in Nat
  BY FS_Subset, FS_CardinalityType
<1>2. Cards \subseteq Nat /\ Cards # {}
  BY <1>1
<1>3. PICK m \in Cards : \A n \in Cards : m <= n
  <2> HIDE DEF Cards
  <2> QED BY <1>2, SmallestElement
<1>4. PICK T \in B : Cardinality(T) = m
  OBVIOUS
<1>5. ASSUME NEW U \in SUBSET T, U \in B PROVE U = T
  <2>1. Cardinality(U) <= Cardinality(T) /\ (Cardinality(T) = Cardinality(U) => T = U)
    BY <1>1, <1>4, FS_Subset
  <2>2. m <= Cardinality(U) /\ Cardinality(U) \in Nat /\ Cardinality(T) \in Nat
    BY <1>1, <1>3, <1>5
  <2> QED BY <2>1, <2>2, <1>4
<1> QED BY <1>1, <1>4, <1>5

LEMMA PartialSumsExist ==
  ASSUME NEW f, NEW S, IsFiniteSet(S)
  PROVE  \A k \in Nat : \E h : PartialSums(h, f, S, k)
<1> DEFINE B == {k \in Nat : ~ \E h : PartialSums(h, f, S, k)}
<1> SUFFICES ASSUME B # {} PROVE FALSE
  OBVIOUS
<1>1. PICK m \in B : \A n \in B : m <= n
  <2>1. B \subseteq Nat
    OBVIOUS
  <2> HIDE DEF B
  <2> QED BY <2>1, SmallestElement
<1>2. \A s \in SUBSET S : IsFiniteSet(s) /\ Cardinality(s) \in Nat
  BY FS_Subset, FS_CardinalityType
<1>3. CASE m = 0
  <2> DEFINE h == [s \in Small(S, 0) |-> 0]
  <2>1. \A s \in Small(S, 0) : s = {}
    BY <1>2, FS_EmptySet DEF Small
  <2>2. \A s \in Small(S, 0) :
          h[s] = IF s = {} THEN 0 ELSE f[First(s)] + h[s \ {First(s)}]
    BY <2>1
  <2>3. h = [s \in Small(S, 0) |-> h[s]]
    OBVIOUS
  <2>4. PartialSums(h, f, S, 0)
    <3> HIDE DEF h
    <3> QED BY <2>2, <2>3 DEF PartialSums
  <2> QED BY <2>4, <1>3
<1>4. CASE m > 0
  <2>0. m \in Nat
    OBVIOUS
  <2>1. m - 1 \in Nat /\ m - 1 \notin B
    BY <2>0, <1>1, <1>4
  <2>2. PICK g : PartialSums(g, f, S, m - 1)
    BY <2>1
  <2> DEFINE h == [s \in Small(S, m) |-> IF s = {} THEN 0 ELSE f[First(s)] + g[s \ {First(s)}]]
  <2>3. \A s \in Small(S, m - 1) :
          /\ s \in Small(S, m)
          /\ g[s] = IF s = {} THEN 0 ELSE f[First(s)] + g[s \ {First(s)}]
    <3>1. \A s \in Small(S, m - 1) : s \in SUBSET S /\ Cardinality(s) <= m - 1
      BY DEF Small
    <3>2. \A s \in Small(S, m - 1) : s \in Small(S, m)
      BY <3>1, <1>2, <2>0 DEF Small
    <3> HIDE DEF h, B
    <3> QED BY <3>2, <2>2 DEF PartialSums
  <2>4. \A s \in Small(S, m - 1) : h[s] = g[s]
    BY <2>3
  <2>5. ASSUME NEW s \in Small(S, m), s # {}
        PROVE  s \ {First(s)} \in Small(S, m - 1)
    <3>1. s \in SUBSET S /\ Cardinality(s) <= m
      BY DEF Small
    <3>2. /\ s \ {First(s)} \in SUBSET S
          /\ Cardinality(s \ {First(s)}) = Cardinality(s) - 1 /\ Cardinality(s) \in Nat
      BY <3>1, <2>5, OneLess
    <3> QED BY <3>1, <3>2, <2>0 DEF Small
  <2>6. \A s \in Small(S, m) :
          h[s] = IF s = {} THEN 0 ELSE f[First(s)] + h[s \ {First(s)}]
    BY <2>4, <2>5
  <2>7. h = [s \in Small(S, m) |-> h[s]]
    OBVIOUS
  <2>8. PartialSums(h, f, S, m)
    <3> HIDE DEF h
    <3> QED BY <2>6, <2>7 DEF PartialSums
  <2> QED BY <2>8, <1>1
<1> QED BY <1>1, <1>3, <1>4

LEMMA AllSumsExist ==
  ASSUME NEW f, NEW S, IsFiniteSet(S)
  PROVE  \E h : AllSums(h, f, S)
<1> DEFINE k == Cardinality(S)
<1>1. k \in Nat
  BY FS_CardinalityType
<1>2. \A s \in SUBSET S : Cardinality(s) <= k
  BY FS_Subset
<1>3. Small(S, k) = SUBSET S
  BY <1>2 DEF Small
<1>4. PICK h : PartialSums(h, f, S, k)
  BY <1>1, PartialSumsExist
<1> QED BY <1>3, <1>4 DEF PartialSums, AllSums

\* Tables of a set and of a part of it agree.
LEMMA SumsAgree ==
  ASSUME NEW f, NEW S, IsFiniteSet(S), NEW T \in SUBSET S, NEW g, NEW h,
         AllSums(g, f, S), AllSums(h, f, T)
  PROVE  \A s \in SUBSET T : g[s] = h[s]
<1> DEFINE B == {s \in SUBSET T : g[s] # h[s]}
<1> SUFFICES ASSUME B # {} PROVE FALSE
  OBVIOUS
<1>1. IsFiniteSet(T) /\ B \in SUBSET (SUBSET T)
  BY FS_Subset
<1>2. PICK s \in B : \A u \in SUBSET s : u \in B => u = s
  <2> HIDE DEF B
  <2> QED BY <1>1, SmallestSet
<1>3. s \in SUBSET T /\ s \in SUBSET S /\ g[s] # h[s]
  OBVIOUS
<1>4. /\ g[s] = IF s = {} THEN 0 ELSE f[First(s)] + g[s \ {First(s)}]
      /\ h[s] = IF s = {} THEN 0 ELSE f[First(s)] + h[s \ {First(s)}]
  BY <1>3 DEF AllSums
<1>5. s # {}
  BY <1>3, <1>4
<1>6. First(s) \in s
  BY <1>5, FirstIsIn
<1>7. g[s \ {First(s)}] = h[s \ {First(s)}]
  <2>1. s \ {First(s)} \in SUBSET s /\ s \ {First(s)} # s
    BY <1>6
  <2> QED BY <1>2, <1>3, <2>1
<1> QED BY <1>3, <1>4, <1>5, <1>7

\* A sum is the entry of such a table.
LEMMA SumIsInTable ==
  ASSUME NEW f, NEW S, IsFiniteSet(S)
  PROVE  \E h : AllSums(h, f, S) /\ SumFunctionOnSet(f, S) = h[S]
<1>1. SumFunctionOnSet(f, S) =
        (CHOOSE h : h = [s \in SUBSET S |->
             IF s = {} THEN 0 ELSE f[CHOOSE x \in s : TRUE] + h[s \ {CHOOSE x \in s : TRUE}]])[S]
  BY Zenon DEF SumFunctionOnSet, FoldFunctionOnSet, MapThenFoldSet
<1>2. SumFunctionOnSet(f, S) = (CHOOSE h : AllSums(h, f, S))[S]
  BY <1>1, Zenon DEF AllSums, First
<1>3. AllSums(CHOOSE h : AllSums(h, f, S), f, S)
  BY AllSumsExist, Zenon
<1> QED BY <1>2, <1>3

LEMMA SumEmpty == ASSUME NEW f PROVE SumFunctionOnSet(f, {}) = 0
<1>1. IsFiniteSet({})
  BY FS_EmptySet
<1>2. PICK h : AllSums(h, f, {}) /\ SumFunctionOnSet(f, {}) = h[{}]
  BY <1>1, SumIsInTable
<1> QED BY <1>2 DEF AllSums

LEMMA SumFirst ==
  ASSUME NEW f, NEW S, IsFiniteSet(S), S # {}
  PROVE  SumFunctionOnSet(f, S) = f[First(S)] + SumFunctionOnSet(f, S \ {First(S)})
<1> DEFINE T == S \ {First(S)}
<1>1. IsFiniteSet(T) /\ T \in SUBSET S /\ First(S) \in S
  BY OneLess
<1>2. PICK g : AllSums(g, f, S) /\ SumFunctionOnSet(f, S) = g[S]
  BY SumIsInTable
<1>3. PICK h : AllSums(h, f, T) /\ SumFunctionOnSet(f, T) = h[T]
  BY <1>1, SumIsInTable
<1>4. g[T] = h[T]
  <2> HIDE DEF T
  <2> QED BY <1>1, <1>2, <1>3, SumsAgree
<1>5. g[S] = f[First(S)] + g[T]
  <2>1. S \in SUBSET S
    OBVIOUS
  <2> QED BY <1>2, <2>1 DEF AllSums
<1> QED BY <1>2, <1>3, <1>4, <1>5

\* Any element may be taken first, and sums of naturals are naturals.
LEMMA SumElement ==
  ASSUME NEW f, NEW S, IsFiniteSet(S), \A x \in S : f[x] \in Nat
  PROVE  /\ SumFunctionOnSet(f, S) \in Nat
         /\ \A x \in S : SumFunctionOnSet(f, S) = f[x] + SumFunctionOnSet(f, S \ {x})
<1> DEFINE Good(T) == /\ SumFunctionOnSet(f, T) \in Nat
                      /\ \A x \in T : SumFunctionOnSet(f, T) = f[x] + SumFunctionOnSet(f, T \ {x})
           B == {T \in SUBSET S : ~Good(T)}
<1> SUFFICES ASSUME B # {} PROVE FALSE
  OBVIOUS
<1>1. B \in SUBSET (SUBSET S)
  OBVIOUS
<1>2. PICK T \in B : IsFiniteSet(T) /\ \A U \in SUBSET T : U \in B => U = T
  <2> HIDE DEF B
  <2> QED BY <1>1, SmallestSet
<1>3. T \in SUBSET S /\ ~Good(T)
  OBVIOUS
<1>4. \A U \in SUBSET T : U # T => Good(U)
  <2>1. \A U \in SUBSET T : U \in SUBSET S
    BY <1>3
  <2> HIDE DEF Good
  <2> QED BY <1>2, <2>1
<1>5. T # {}
  <2> SUFFICES ASSUME T = {} PROVE FALSE
    OBVIOUS
  <2> QED BY SumEmpty, <1>3
<1> DEFINE p == First(T)
<1>6. p \in T /\ SumFunctionOnSet(f, T) = f[p] + SumFunctionOnSet(f, T \ {p})
  BY <1>2, <1>5, SumFirst, FirstIsIn
<1> HIDE DEF p
<1>7. ASSUME NEW x \in T PROVE Good(T \ {x}) /\ f[x] \in Nat
  <2>1. T \ {x} \in SUBSET T /\ T \ {x} # T
    OBVIOUS
  <2> HIDE DEF Good
  <2> QED BY <1>3, <1>4, <2>1
<1>8. SumFunctionOnSet(f, T) \in Nat
  BY <1>6, <1>7
<1>9. ASSUME NEW x \in T PROVE SumFunctionOnSet(f, T) = f[x] + SumFunctionOnSet(f, T \ {x})
  <2>1. CASE x = p
    BY <2>1, <1>6
  <2>2. CASE x # p
    <3>1. SumFunctionOnSet(f, T \ {p}) = f[x] + SumFunctionOnSet(f, (T \ {p}) \ {x})
      BY <1>6, <1>7, <2>2
    <3>2. SumFunctionOnSet(f, T \ {x}) = f[p] + SumFunctionOnSet(f, (T \ {x}) \ {p})
      BY <1>6, <1>7, <2>2
    <3>3. (T \ {p}) \ {x} = (T \ {x}) \ {p}
      OBVIOUS
    <3>4. PICK R \in Nat : SumFunctionOnSet(f, (T \ {p}) \ {x}) = R
      <4>1. (T \ {p}) \ {x} \in SUBSET T /\ (T \ {p}) \ {x} # T
        BY <1>6
      <4> QED BY <1>4, <4>1
    <3>5. PICK a \in Nat, b \in Nat : f[x] = a /\ f[p] = b
      BY <1>6, <1>7
    <3>6. SumFunctionOnSet(f, T) = b + (a + R) /\ SumFunctionOnSet(f, T \ {x}) = b + R
      BY <1>6, <3>1, <3>2, <3>3, <3>4, <3>5
    <3> QED BY <3>5, <3>6
  <2> QED BY <2>1, <2>2
<1> QED BY <1>3, <1>8, <1>9

\* What holds of the empty set, and of a set if of the set without one of its
\* elements, holds of every finite set: with the sets it holds of as a set.
LEMMA SetInduction ==
  ASSUME NEW S, IsFiniteSet(S), NEW G, {} \in G,
         \A T \in SUBSET S : \A x \in T : IsFiniteSet(T) /\ T \ {x} \in G => T \in G
  PROVE  S \in G
<1> DEFINE B == (SUBSET S) \ G
<1> SUFFICES ASSUME B # {} PROVE FALSE
  OBVIOUS
<1>1. PICK T \in B : IsFiniteSet(T) /\ \A U \in SUBSET T : U \in B => U = T
  <2>1. B \in SUBSET (SUBSET S)
    OBVIOUS
  <2> HIDE DEF B
  <2> QED BY <2>1, SmallestSet
<1>2. T \in SUBSET S /\ T \notin G /\ T # {}
  OBVIOUS
<1>3. PICK x \in T : TRUE
  BY <1>2
<1>4. T \ {x} \in SUBSET T /\ T \ {x} # T /\ T \ {x} \in SUBSET S
  BY <1>2
<1>5. T \ {x} \in G
  BY <1>1, <1>4
<1> QED BY <1>1, <1>2, <1>5

\* Of larger numbers the sum is larger.
LEMMA SumMonotone ==
  ASSUME NEW f, NEW g, NEW S, IsFiniteSet(S),
         \A x \in S : f[x] \in Nat /\ g[x] \in Nat /\ f[x] <= g[x]
  PROVE  SumFunctionOnSet(f, S) <= SumFunctionOnSet(g, S)
<1> DEFINE G == {T \in SUBSET S : SumFunctionOnSet(f, T) <= SumFunctionOnSet(g, T)}
<1>1. {} \in G
  BY SumEmpty
<1>2. ASSUME NEW T \in SUBSET S, NEW x \in T, IsFiniteSet(T), T \ {x} \in G
      PROVE  T \in G
  <2>1. \A y \in T : f[y] \in Nat /\ g[y] \in Nat
    OBVIOUS
  <2>2. IsFiniteSet(T \ {x}) /\ \A y \in T \ {x} : f[y] \in Nat /\ g[y] \in Nat
    BY <1>2, <2>1, FS_RemoveElement
  <2>3. /\ SumFunctionOnSet(f, T) = f[x] + SumFunctionOnSet(f, T \ {x})
        /\ SumFunctionOnSet(g, T) = g[x] + SumFunctionOnSet(g, T \ {x})
    BY <1>2, <2>1, SumElement
  <2>4. SumFunctionOnSet(f, T \ {x}) \in Nat /\ SumFunctionOnSet(g, T \ {x}) \in Nat
    BY <2>2, SumElement
  <2>5. f[x] \in Nat /\ g[x] \in Nat /\ f[x] <= g[x]
    OBVIOUS
  <2> QED BY <1>2, <2>3, <2>4, <2>5
<1>3. S \in G
  <2> HIDE DEF G
  <2> QED BY <1>1, <1>2, SetInduction
<1> QED BY <1>3

LEMMA SumSame ==
  ASSUME NEW f, NEW g, NEW S, IsFiniteSet(S), \A x \in S : f[x] \in Nat /\ f[x] = g[x]
  PROVE  SumFunctionOnSet(f, S) = SumFunctionOnSet(g, S)
<1>1. /\ SumFunctionOnSet(f, S) <= SumFunctionOnSet(g, S)
      /\ SumFunctionOnSet(g, S) <= SumFunctionOnSet(f, S)
  BY SumMonotone
<1>2. SumFunctionOnSet(f, S) \in Nat /\ SumFunctionOnSet(g, S) \in Nat
  BY SumElement
<1> QED BY <1>1, <1>2

\* The sum of sums.
LEMMA SumPlus ==
  ASSUME NEW f, NEW g, NEW h, NEW S, IsFiniteSet(S),
         \A x \in S : f[x] \in Nat /\ g[x] \in Nat /\ h[x] = f[x] + g[x]
  PROVE  SumFunctionOnSet(h, S) = SumFunctionOnSet(f, S) + SumFunctionOnSet(g, S)
<1> DEFINE G == {T \in SUBSET S :
                   SumFunctionOnSet(h, T) = SumFunctionOnSet(f, T) + SumFunctionOnSet(g, T)}
<1>1. {} \in G
  BY SumEmpty
<1>2. ASSUME NEW T \in SUBSET S, NEW x \in T, IsFiniteSet(T), T \ {x} \in G
      PROVE  T \in G
  <2>1. \A y \in T : f[y] \in Nat /\ g[y] \in Nat /\ h[y] \in Nat
    OBVIOUS
  <2>2. IsFiniteSet(T \ {x}) /\ \A y \in T \ {x} : f[y] \in Nat /\ g[y] \in Nat /\ h[y] \in Nat
    BY <1>2, <2>1, FS_RemoveElement
  <2>3. /\ SumFunctionOnSet(f, T) = f[x] + SumFunctionOnSet(f, T \ {x})
        /\ SumFunctionOnSet(g, T) = g[x] + SumFunctionOnSet(g, T \ {x})
        /\ SumFunctionOnSet(h, T) = h[x] + SumFunctionOnSet(h, T \ {x})
    BY <1>2, <2>1, SumElement
  <2>4. SumFunctionOnSet(f, T \ {x}) \in Nat /\ SumFunctionOnSet(g, T \ {x}) \in Nat
    BY <2>2, SumElement
  <2>5. f[x] \in Nat /\ g[x] \in Nat /\ h[x] = f[x] + g[x]
    OBVIOUS
  <2> QED BY <1>2, <2>3, <2>4, <2>5
<1>3. S \in G
  <2> HIDE DEF G
  <2> QED BY <1>1, <1>2, SetInduction
<1> QED BY <1>3

LEMMA SumZero ==
  ASSUME NEW f, NEW S, IsFiniteSet(S), \A x \in S : f[x] = 0
  PROVE  SumFunctionOnSet(f, S) = 0
<1>1. SumFunctionOnSet(f, S) = SumFunctionOnSet(f, S) + SumFunctionOnSet(f, S)
  BY SumPlus
<1>2. PICK k \in Nat : SumFunctionOnSet(f, S) = k
  BY SumElement
<1>3. k = k + k
  BY <1>1, <1>2
<1> QED BY <1>2, <1>3

\* Rows and columns of a table come to the same.
LEMMA SumExchange ==
  ASSUME NEW A, IsFiniteSet(A), NEW B, IsFiniteSet(B), NEW F \in [A -> [B -> Nat]]
  PROVE  SumFunction([a \in A |-> SumFunction(F[a])])
           = SumFunction([b \in B |-> SumFunction([a \in A |-> F[a][b]])])
<1> DEFINE Row == [a \in A |-> SumFunctionOnSet(F[a], B)]
           Column(T) == [b \in B |-> SumFunctionOnSet([a \in A |-> F[a][b]], T)]
           G == {T \in SUBSET A : SumFunctionOnSet(Row, T) = SumFunctionOnSet(Column(T), B)}
<1>1. \A a \in A : \A b \in B : F[a][b] \in Nat
  OBVIOUS
<1>2. \A a \in A : Row[a] \in Nat
  BY <1>1, SumElement
<1>3. {} \in G
  <2>1. \A b \in B : Column({})[b] = 0
    BY SumEmpty
  <2>2. SumFunctionOnSet(Column({}), B) = 0
    <3> HIDE DEF Column
    <3> QED BY <2>1, SumZero
  <2>3. SumFunctionOnSet(Row, {}) = 0
    BY SumEmpty
  <2> QED BY <2>2, <2>3
<1>4. ASSUME NEW T \in SUBSET A, NEW x \in T, IsFiniteSet(T), T \ {x} \in G
      PROVE  T \in G
  <2>1. IsFiniteSet(T \ {x}) /\ T \ {x} \in SUBSET A /\ x \in A
    BY <1>4, FS_RemoveElement
  <2>2. SumFunctionOnSet(Row, T) = Row[x] + SumFunctionOnSet(Row, T \ {x})
    <3>1. \A y \in T : Row[y] \in Nat
      BY <1>2
    <3> HIDE DEF Row, Column, G
    <3> QED BY <1>4, <3>1, SumElement
  <2>3. ASSUME NEW b \in B
        PROVE  /\ Column(T \ {x})[b] \in Nat
               /\ Column(T)[b] = F[x][b] + Column(T \ {x})[b]
    <3> DEFINE g == [a \in A |-> F[a][b]]
    <3>1. \A a \in A : g[a] \in Nat
      BY <1>1
    <3>2. (\A a \in T : g[a] \in Nat) /\ \A a \in T \ {x} : g[a] \in Nat
      BY <3>1
    <3>3. /\ SumFunctionOnSet(g, T \ {x}) \in Nat
          /\ SumFunctionOnSet(g, T) = g[x] + SumFunctionOnSet(g, T \ {x})
      <4> HIDE DEF g, Row, Column, G
      <4> QED BY <1>4, <2>1, <3>2, SumElement
    <3> QED BY <2>1, <3>3
  <2>4. SumFunctionOnSet(Column(T), B)
          = SumFunctionOnSet(F[x], B) + SumFunctionOnSet(Column(T \ {x}), B)
    <3> HIDE DEF Column, Row, G
    <3>1. PICK h, g, f : h = Column(T) /\ g = Column(T \ {x}) /\ f = F[x]
      OBVIOUS
    <3>2. \A b \in B : f[b] \in Nat /\ g[b] \in Nat /\ h[b] = f[b] + g[b]
      BY <1>1, <2>1, <2>3, <3>1
    <3>3. SumFunctionOnSet(h, B) = SumFunctionOnSet(f, B) + SumFunctionOnSet(g, B)
      BY <3>2, SumPlus
    <3> QED BY <3>1, <3>3
  <2>5. Row[x] = SumFunctionOnSet(F[x], B)
    BY <2>1
  <2> QED BY <1>4, <2>2, <2>4, <2>5
<1>5. A \in G
  <2> HIDE DEF G
  <2> QED BY <1>3, <1>4, SetInduction
<1>6. SumFunctionOnSet(Row, A) = SumFunctionOnSet(Column(A), B)
  BY <1>5
<1>7. [a \in A |-> SumFunction(F[a])] = Row
  <2>1. \A a \in A : SumFunction(F[a]) = SumFunctionOnSet(F[a], B)
    BY DEF SumFunction
  <2> QED BY <2>1
<1>8. [b \in B |-> SumFunction([a \in A |-> F[a][b]])] = Column(A)
  BY DEF SumFunction
<1>9. DOMAIN Row = A /\ DOMAIN Column(A) = B
  OBVIOUS
<1> HIDE DEF Row, Column
<1> QED BY <1>6, <1>7, <1>8, <1>9 DEF SumFunction

\* Shares of a whole, each rounded down, are not more than the whole.
LEMMA SharesBounded ==
  ASSUME NEW p, NEW t, NEW S, IsFiniteSet(S), NEW r \in Nat, NEW c \in Nat,
         \A x \in S : p[x] \in Nat /\ t[x] \in Nat /\ p[x] * r <= c * t[x]
  PROVE  SumFunctionOnSet(p, S) * r <= c * SumFunctionOnSet(t, S)
<1> DEFINE G == {T \in SUBSET S : SumFunctionOnSet(p, T) * r <= c * SumFunctionOnSet(t, T)}
<1>1. {} \in G
  BY SumEmpty
<1>2. ASSUME NEW T \in SUBSET S, NEW x \in T, IsFiniteSet(T), T \ {x} \in G
      PROVE  T \in G
  <2>1. \A y \in T : p[y] \in Nat /\ t[y] \in Nat
    OBVIOUS
  <2>2. IsFiniteSet(T \ {x}) /\ \A y \in T \ {x} : p[y] \in Nat /\ t[y] \in Nat
    BY <1>2, <2>1, FS_RemoveElement
  <2>3. /\ SumFunctionOnSet(p, T) = p[x] + SumFunctionOnSet(p, T \ {x})
        /\ SumFunctionOnSet(t, T) = t[x] + SumFunctionOnSet(t, T \ {x})
    BY <1>2, <2>1, SumElement
  <2>4. PICK P \in Nat, Q \in Nat : /\ SumFunctionOnSet(p, T \ {x}) = P
                                  /\ SumFunctionOnSet(t, T \ {x}) = Q
    BY <2>2, SumElement
  <2>5. p[x] \in Nat /\ t[x] \in Nat /\ p[x] * r <= c * t[x]
    OBVIOUS
  <2>6. P * r <= c * Q
    BY <1>2, <2>4
  <2>7. (p[x] + P) * r <= c * (t[x] + Q)
    BY <2>5, <2>6
  <2> QED BY <2>3, <2>4, <2>7
<1>3. S \in G
  <2> HIDE DEF G
  <2> QED BY <1>1, <1>2, SetInduction
<1> QED BY <1>3

\* Of sets apart from each other the elements are counted once.
LEMMA CountApart ==
  ASSUME NEW S, IsFiniteSet(S), NEW O, NEW U, IsFiniteSet(U), NEW f,
         \A x \in S : O[x] \in SUBSET U /\ f[x] = Cardinality(O[x]),
         \A x, y \in S : x # y => O[x] \cap O[y] = {}
  PROVE  SumFunctionOnSet(f, S) <= Cardinality(U)
<1> DEFINE All(T) == UNION {O[x] : x \in T}
           G == {T \in SUBSET S : SumFunctionOnSet(f, T) = Cardinality(All(T))}
<1>1. {} \in G
  <2>1. All({}) = {}
    OBVIOUS
  <2> HIDE DEF All
  <2> QED BY <2>1, SumEmpty, FS_EmptySet
<1>2. \A x \in S : IsFiniteSet(O[x]) /\ f[x] \in Nat
  BY FS_Subset, FS_CardinalityType
<1>3. \A T \in SUBSET S : All(T) \in SUBSET U
  OBVIOUS
<1>4. \A T \in SUBSET S : IsFiniteSet(All(T))
  <2> HIDE DEF All
  <2> QED BY <1>3, FS_Subset
<1>5. ASSUME NEW T \in SUBSET S, NEW x \in T, IsFiniteSet(T), T \ {x} \in G
      PROVE  T \in G
  <2>1. x \in S /\ T \ {x} \in SUBSET S
    OBVIOUS
  <2>2. All(T) = O[x] \cup All(T \ {x})
    OBVIOUS
  <2>3. O[x] \cap All(T \ {x}) = {}
    BY <2>1
  <2>4. SumFunctionOnSet(f, T) = f[x] + SumFunctionOnSet(f, T \ {x})
    BY <1>2, <1>5, SumElement
  <2>5. IsFiniteSet(O[x]) /\ IsFiniteSet(All(T \ {x}))
    <3> HIDE DEF All
    <3> QED BY <1>2, <1>4, <2>1
  <2>6. SumFunctionOnSet(f, T \ {x}) = Cardinality(All(T \ {x}))
    BY <1>5
  <2> HIDE DEF All
  <2>7. Cardinality(All(T)) = Cardinality(O[x]) + Cardinality(All(T \ {x}))
    <3>1. /\ Cardinality(All(T)) = Cardinality(O[x]) + Cardinality(All(T \ {x})) - 0
      <4>1. PICK a, b : a = O[x] /\ b = All(T \ {x})
        OBVIOUS
      <4>2. /\ IsFiniteSet(a) /\ IsFiniteSet(b)
            /\ Cardinality(a \cap b) = 0
        BY <2>3, <2>5, <4>1, FS_EmptySet
      <4>3. Cardinality(a \cup b) = Cardinality(a) + Cardinality(b) - Cardinality(a \cap b)
        BY <4>2, FS_Union
      <4> QED BY <2>2, <4>1, <4>2, <4>3
    <3>2. Cardinality(O[x]) \in Nat /\ Cardinality(All(T \ {x})) \in Nat
      BY <2>5, FS_CardinalityType
    <3> QED BY <3>1, <3>2
  <2> QED BY <2>1, <2>4, <2>6, <2>7
<1>6. S \in G
  <2> HIDE DEF G
  <2> QED BY <1>1, <1>5, SetInduction
<1>7. Cardinality(All(S)) <= Cardinality(U)
  <2> HIDE DEF All
  <2> QED BY <1>3, FS_Subset
<1> QED BY <1>6, <1>7
------------------------------------------------------------------------------
(* What is read from a database. *)

LEMMA OrdersOfFacts ==
  ASSUME NEW db, NEW s
  PROVE  /\ OrdersOf(db, s) \in SUBSET Oids /\ IsFiniteSet(Oids)
         /\ IsFiniteSet(OrdersOf(db, s)) /\ CountOf(db, s) \in Nat
<1>1. OrdersOf(db, s) \in SUBSET Oids
  BY DEF OrdersOf
<1>2. IsFiniteSet(Oids)
  BY FS_Interval DEF Oids
<1>3. IsFiniteSet(OrdersOf(db, s))
  BY <1>1, <1>2, FS_Subset
<1> QED BY <1>1, <1>2, <1>3, FS_CardinalityType DEF CountOf

LEMMA TotalType == ASSUME NEW lines \in [Items -> Nat] PROVE Total(lines) \in Nat
<1>1. DOMAIN lines = Items /\ \A i \in Items : lines[i] \in Nat
  OBVIOUS
<1>2. SumFunctionOnSet(lines, Items) \in Nat
  BY <1>1, SumElement
<1> QED BY <1>1, <1>2 DEF Total, SumFunction

LEMMA TotalNoLines == Total(NoLines) = 0
<1>1. DOMAIN NoLines = Items /\ \A i \in Items : NoLines[i] = 0
  BY DEF NoLines
<1>2. SumFunctionOnSet(NoLines, Items) = 0
  BY <1>1, SumZero
<1> QED BY <1>1, <1>2 DEF Total, SumFunction

\* The first rows come to no more than all of them.
LEMMA FirstRowsFacts ==
  ASSUME NEW all \in [Items -> Nat], NEW lines \in FirstRows(all)
  PROVE  lines \in [Items -> Nat] /\ Total(lines) <= Total(all)
<1>1. PICK S \in SUBSET Items : lines = [i \in Items |-> IF i \in S THEN all[i] ELSE 0]
  BY DEF FirstRows
<1>2. lines \in [Items -> Nat] /\ DOMAIN lines = Items /\ DOMAIN all = Items
  BY <1>1
<1>3. \A i \in Items : lines[i] \in Nat /\ all[i] \in Nat /\ lines[i] <= all[i]
  BY <1>1
<1>4. SumFunctionOnSet(lines, Items) <= SumFunctionOnSet(all, Items)
  BY <1>3, SumMonotone
<1> QED BY <1>2, <1>4 DEF Total, SumFunction

LEMMA LinesAreNats ==
  ASSUME NEW db \in [Oids -> Order], NEW o \in Oids
  PROVE  db[o].lines \in [Items -> Nat] /\ \A i \in Items : db[o].lines[i] \in Nat
<1>1. db[o].lines \in [Items -> 0..MaxAmount]
  BY DEF Order, Lines
<1>2. 0..MaxAmount \subseteq Nat
  OBVIOUS
<1> QED BY <1>1, <1>2

\* The revenue of a session, added up order by order, is that of its items.
LEMMA RevenueIsOfItems ==
  ASSUME NEW db \in [Oids -> Order], NEW s
  PROVE  /\ ItemsOf(db, s) \in [Items -> Nat]
         /\ RevenueOf(db, s) = Total(ItemsOf(db, s))
         /\ RevenueOf(db, s) \in Nat
<1> DEFINE O == OrdersOf(db, s)
           F == [o \in O |-> db[o].lines]
<1>1. IsFiniteSet(O) /\ O \in SUBSET Oids
  BY OrdersOfFacts
<1> HIDE DEF O
<1>2. \A o \in O : db[o].lines \in [Items -> Nat]
  BY <1>1, LinesAreNats
<1>3. F \in [O -> [Items -> Nat]]
  BY <1>2
<1>4. SumFunction([o \in O |-> SumFunction(F[o])])
        = SumFunction([i \in Items |-> SumFunction([o \in O |-> F[o][i]])])
  <2> HIDE DEF F
  <2> QED BY <1>1, <1>3, SumExchange
<1>5. [o \in O |-> SumFunction(F[o])] = [o \in O |-> Total(db[o].lines)]
  BY DEF Total
<1>6. [i \in Items |-> SumFunction([o \in O |-> F[o][i]])] = ItemsOf(db, s)
  <2>1. \A i \in Items : [o \in O |-> F[o][i]] = [o \in O |-> db[o].lines[i]]
    OBVIOUS
  <2> HIDE DEF F
  <2> QED BY <2>1 DEF ItemsOf, O
<1>7. RevenueOf(db, s) = Total(ItemsOf(db, s))
  BY <1>4, <1>5, <1>6 DEF RevenueOf, Total, O
<1>8. ASSUME NEW i \in Items PROVE SumFunction([o \in O |-> db[o].lines[i]]) \in Nat
  <2> DEFINE g == [o \in O |-> db[o].lines[i]]
  <2>1. DOMAIN g = O /\ \A o \in O : g[o] \in Nat
    BY <1>2
  <2> HIDE DEF g
  <2>2. SumFunctionOnSet(g, O) \in Nat
    BY <1>1, <2>1, SumElement
  <2>3. SumFunction(g) \in Nat
    BY <2>1, <2>2 DEF SumFunction
  <2> QED BY <2>3 DEF g
<1>9. ItemsOf(db, s) \in [Items -> Nat]
  BY <1>8 DEF ItemsOf, O
<1> QED BY <1>7, <1>9, TotalType

------------------------------------------------------------------------------
(* Sequences. *)

LEMMA RestFacts ==
  ASSUME NEW X, NEW s \in Seq(X), s # <<>>
  PROVE  /\ Head(s) \in X /\ 1 \in DOMAIN s /\ Head(s) = s[1]
         /\ Tail(s) \in Seq(X)
         /\ \A n \in DOMAIN Tail(s) : n + 1 \in DOMAIN s /\ Tail(s)[n] = s[n + 1]
OBVIOUS

LEMMA AppendFacts ==
  ASSUME NEW X, NEW s \in Seq(X), NEW x \in X
  PROVE  /\ Append(s, x) \in Seq(X)
         /\ \A n \in DOMAIN Append(s, x) :
              \/ n \in DOMAIN s /\ Append(s, x)[n] = s[n]
              \/ Append(s, x)[n] = x
OBVIOUS

LEMMA EnumerationIsSeq ==
  ASSUME NEW X, NEW S \in SUBSET X, IsFiniteSet(S), NEW list \in SetToSeqs(S)
  PROVE  /\ list \in Seq(X)
         /\ \A n \in DOMAIN list : list[n] \in S
<1>1. PICK k \in Nat : k = Cardinality(S)
  BY FS_CardinalityType
<1>2. list \in [1..k -> S]
  BY <1>1 DEF SetToSeqs
<1> QED BY <1>2

------------------------------------------------------------------------------
(* Records. *)

LEMMA SomeSession == ASSUME TypeOK PROVE Sids # {}
<1>1. 1 \in Oids
  BY DEF Oids
<1> QED BY <1>1 DEF TypeOK, Order

LEMMA NoEntryType ==
  ASSUME NEW id \in Sids \cup Oids
  PROVE  NoEntry(id) \in Entry /\ NoEntry(id).id = id
BY DEF NoEntry, Entry, NoLines

LEMMA BlankFacts ==
  ASSUME Sids # {}
  PROVE  /\ Blank \in Report
         /\ Blank.kind = "none" /\ Blank.pc = "idle" /\ Blank.todo = <<>> /\ Blank.said = <<>>
<1>1. PICK s \in Sids : s = CHOOSE t \in Sids : TRUE
  OBVIOUS
<1>2. NoEntry(s) \in Entry
  BY NoEntryType
<1>3. Blank = [kind |-> "none", pc |-> "idle", todo |-> <<>>, of |-> s,
               entry |-> NoEntry(s), said |-> <<>>]
  BY <1>1, Zenon DEF Blank
<1>4. <<>> \in Seq(Ids \cup Oids) /\ <<>> \in Seq(Entry)
  OBVIOUS
<1> QED BY <1>2, <1>3, <1>4 DEF Report, Kinds

\* Onward changes what is left to read, and where the report is.
HasHead(todo, pc) == todo # <<>> /\ pc # "session" => Head(todo) \in Sids \cup Oids
GoesOn(rec, todo, pc, r) ==
  /\ r \in Report
  /\ r.kind = rec.kind /\ r.of = rec.of /\ r.said = rec.said /\ r.todo = todo
  /\ todo = <<>> => r.pc = "done"
  /\ todo # <<>> => r.pc = pc /\ (pc # "session" => r.entry = NoEntry(Head(todo)))

LEMMA OnwardFacts ==
  ASSUME Sids # {}, NEW rec \in Report, NEW todo \in Seq(Ids \cup Oids),
         NEW pc \in {"session", "stats", "items"}, HasHead(todo, pc),
         NEW r, r = Onward(rec, todo, pc)
  PROVE  GoesOn(rec, todo, pc, r)
<1> DEFINE stage == IF todo = <<>> THEN "done" ELSE pc
           entry == IF todo = <<>> \/ pc = "session" THEN Blank.entry ELSE NoEntry(Head(todo))
<1>1. r = [rec EXCEPT !.todo = todo, !.pc = stage, !.entry = entry]
  BY DEF Onward
<1>2. Blank.entry \in Entry
  BY BlankFacts DEF Report
<1>3. entry \in Entry
  BY <1>2, NoEntryType DEF HasHead
<1>4. stage \in {"idle", "list", "session", "stats", "items", "done", "failed"}
  OBVIOUS
<1>5. /\ r \in Report
      /\ r.kind = rec.kind /\ r.of = rec.of /\ r.said = rec.said /\ r.todo = todo
      /\ r.pc = stage /\ r.entry = entry
  <2> HIDE DEF stage, entry
  <2> QED BY <1>1, <1>3, <1>4 DEF Report
<1> QED BY <1>5 DEF GoesOn

LEMMA OnwardKeeps ==
  ASSUME NEW rec \in Report, NEW todo, NEW pc, NEW r, r = Onward(rec, todo, pc)
  PROVE  r.kind = rec.kind /\ r.of = rec.of /\ r.said = rec.said
BY DEF Onward, Report

\* Say adds an entry and nothing else.
LEMMA SayFacts ==
  ASSUME TypeOK, NEW e \in Entry, NEW r, r = Say(e)
  PROVE  /\ r \in Report
         /\ r.kind = report.kind /\ r.of = report.of /\ r.todo = report.todo /\ r.pc = report.pc
         /\ r.said = Append(report.said, e)
<1>1. report \in Report
  BY DEF TypeOK
<1>2. r = [report EXCEPT !.said = Append(report.said, e)]
  BY DEF Say
<1>3. Append(report.said, e) \in Seq(Entry)
  BY <1>1, AppendFacts DEF Report
<1> QED BY <1>1, <1>2, <1>3 DEF Report

------------------------------------------------------------------------------
(* What was so stays so, as moments are only added and an order that is gone is *)
(* gone for good.                                                              *)

LEMMA StaysSo ==
  ASSUME NEW e, WasSo(e), report.kind' = report.kind, report.of' = report.of,
         moments \subseteq moments', flawed => flawed',
         \A o \in Oids : ~orders[o].there /\ (\E db \in moments : db[o].there) => ~orders'[o].there
  PROVE  WasSo(e)'
<1>1. OfSessions' <=> OfSessions
  BY DEF OfSessions
<1>2. ASSUME StatsWereSo(e) PROVE StatsWereSo(e)'
  BY <1>2 DEF StatsWereSo
<1>3. ASSUME OrderWasSo(e) PROVE OrderWasSo(e)'
  <2>1. PICK db \in moments : e.id \in OrdersOf(db, report.of)
    BY <1>3 DEF OrderWasSo
  <2>2. e.id \in Oids /\ db[e.id].there
    BY <2>1 DEF OrdersOf
  <2>3. \E m \in moments' : e.id \in OrdersOf(m, report.of')
    BY <2>1
  <2>4. ~orders[e.id].there => ~orders'[e.id].there
    BY <2>2
  <2>5. CASE \E m \in moments : m[e.id].there /\ e.revenue = Total(m[e.id].lines)
    BY <2>3, <2>5 DEF OrderWasSo
  <2>6. CASE ~orders[e.id].there /\ e.revenue = 0
    BY <2>3, <2>4, <2>6 DEF OrderWasSo
  <2>7. CASE flawed /\ \E m \in moments : m[e.id].there /\ e.revenue <= Total(m[e.id].lines)
    BY <2>3, <2>7 DEF OrderWasSo
  <2> QED BY <1>3, <2>5, <2>6, <2>7 DEF OrderWasSo
<1>4. report'.kind = "compare" /\ ~flawed' => \E db \in moments' : e.lines = ItemsOf(db, e.id)
  BY DEF WasSo
<1> QED BY <1>1, <1>2, <1>3, <1>4 DEF WasSo

LEMMA SaidSame ==
  ASSUME SaidFits, report.said' = report.said, report.kind' = report.kind, report.of' = report.of,
         moments \subseteq moments', flawed => flawed',
         \A o \in Oids : ~orders[o].there /\ (\E db \in moments : db[o].there) => ~orders'[o].there
  PROVE  SaidFits'
<1> SUFFICES ASSUME NEW n \in DOMAIN report.said PROVE WasSo(report.said[n])'
  BY DEF SaidFits
<1>1. PICK e : e = report.said[n]
  OBVIOUS
<1>2. WasSo(e)
  BY <1>1 DEF SaidFits
<1>3. WasSo(e)'
  BY <1>2, StaysSo
<1>4. e = report'.said[n]
  BY <1>1
<1> QED BY <1>3, <1>4

LEMMA SaidMore ==
  ASSUME SaidFits, TypeOK, NEW e \in Entry, WasSo(e)',
         report.said' = Append(report.said, e), report.kind' = report.kind, report.of' = report.of,
         moments \subseteq moments', flawed => flawed',
         \A o \in Oids : ~orders[o].there /\ (\E db \in moments : db[o].there) => ~orders'[o].there
  PROVE  SaidFits'
<1> SUFFICES ASSUME NEW n \in DOMAIN report'.said PROVE WasSo(report.said[n])'
  BY DEF SaidFits
<1>1. report.said \in Seq(Entry)
  BY DEF TypeOK, Report
<1>2. PICK g : g = report'.said[n]
  OBVIOUS
<1>3. WasSo(g)'
  <2>1. CASE g = e
    BY <2>1
  <2>2. CASE n \in DOMAIN report.said /\ g = report.said[n]
    <3>1. WasSo(g)
      BY <2>2 DEF SaidFits
    <3> QED BY <3>1, StaysSo
  <2>3. g = e \/ (n \in DOMAIN report.said /\ g = report.said[n])
    BY <1>1, <1>2, AppendFacts
  <2> QED BY <2>1, <2>2, <2>3
<1> QED BY <1>2, <1>3

------------------------------------------------------------------------------
(* Steps. *)

\* A step of a report changes no order, and adds no moment but the present one.
LEMMA NothingNew ==
  ASSUME IndInv, orders' = orders, moments' = moments \/ moments' = {orders}
  PROVE  /\ MomentsFit' /\ moments' \subseteq [Oids -> Order]
         /\ \A o \in Oids : ~orders[o].there /\ (\E db \in moments : db[o].there) => ~orders'[o].there
<1>1. MomentsFit /\ TypeOK
  BY DEF IndInv
<1>2. CASE moments' = moments
  BY <1>1, <1>2 DEF MomentsFit, TypeOK
<1>3. CASE moments' = {orders}
  <2>1. IsFiniteSet(moments')
    BY <1>3, FS_Singleton
  <2> QED BY <1>1, <1>3, <2>1 DEF MomentsFit, TypeOK
<1> QED BY <1>2, <1>3

\* A report goes on to what is next, or to its end.
LEMMA OnwardStep ==
  ASSUME IndInv, NEW rec \in Report, NEW todo \in Seq(Ids \cup Oids),
         NEW pc \in {"session", "stats", "items"},
         report' = Onward(rec, todo, pc), orders' = orders, writes' = writes,
         moments' = moments \/ moments' = {orders}, flawed' \in BOOLEAN,
         \/ rec.kind = "compare" /\ pc = "session" /\ todo \in Seq(Ids)
         \/ rec.kind = "history" /\ pc = "stats" /\ todo \in Seq(Sids)
         \/ /\ rec.kind \in {"orders", "current"} /\ pc = "items" /\ todo \in Seq(Oids)
            /\ \A n \in DOMAIN todo : \E db \in moments' : todo[n] \in OrdersOf(db, rec.of),
         SaidFits'
  PROVE  IndInv'
<1>1. TypeOK
  BY DEF IndInv
<1>2. MomentsFit' /\ moments' \subseteq [Oids -> Order]
  BY NothingNew
<1>3. todo # <<>> /\ pc # "session" => Head(todo) \in Sids \cup Oids
  <2>1. rec.kind = "history" /\ todo \in Seq(Sids) /\ todo # <<>> => Head(todo) \in Sids
    BY RestFacts
  <2>2. todo \in Seq(Oids) /\ todo # <<>> => Head(todo) \in Oids
    BY RestFacts
  <2> QED BY <2>1, <2>2
<1>4. PICK r : r = Onward(rec, todo, pc) /\ report' = r
  OBVIOUS
<1>5. /\ r \in Report
      /\ r.kind = rec.kind /\ r.of = rec.of /\ r.said = rec.said /\ r.todo = todo
      /\ todo = <<>> => r.pc = "done"
      /\ todo # <<>> => r.pc = pc /\ (pc # "session" => r.entry = NoEntry(Head(todo)))
  <2>1. Sids # {}
    BY <1>1, SomeSession
  <2>2. HasHead(todo, pc)
    BY <1>3 DEF HasHead
  <2>3. GoesOn(rec, todo, pc, r)
    BY <1>4, <2>1, <2>2, OnwardFacts
  <2> QED BY <2>3 DEF GoesOn
<1>6. TypeOK'
  BY <1>1, <1>2, <1>4, <1>5 DEF TypeOK
<1>7. StatementsInStep'
  BY <1>4, <1>5 DEF StatementsInStep, At
<1>8. TodoFits'
  BY <1>4, <1>5 DEF TodoFits
<1>9. EntryFits'
  <2>1. todo \in Seq(Sids) /\ todo # <<>> => Head(todo) \in Sids
    BY RestFacts
  <2> QED BY <1>4, <1>5, <2>1 DEF EntryFits, At
<1> QED BY <1>2, <1>6, <1>7, <1>8, <1>9 DEF IndInv

LEMMA BeginStep ==
  ASSUME IndInv, NEW kind \in {"compare", "history"}, NEW pc, NEW ids,
         \/ kind = "compare" /\ pc = "session" /\ ids \in Seq(Ids)
         \/ kind = "history" /\ pc = "stats" /\ ids \in Seq(Sids),
         Begin([Blank EXCEPT !.kind = kind], pc, ids)
  PROVE  IndInv'
<1>1. TypeOK
  BY DEF IndInv
<1>2. PICK rec : rec = [Blank EXCEPT !.kind = kind]
  OBVIOUS
<1>3. rec \in Report /\ rec.kind = kind /\ rec.said = <<>>
  BY <1>1, <1>2, SomeSession, BlankFacts DEF Report, Kinds
<1>4. /\ report' = Onward(rec, ids, pc) /\ orders' = orders /\ writes' = writes
      /\ moments' = {orders} /\ flawed' = flawed
  BY <1>2 DEF Begin, Now
<1>5. ids \in Seq(Ids \cup Oids) /\ pc \in {"session", "stats", "items"}
  BY DEF Ids
<1>6. SaidFits'
  <2>1. report'.said = <<>>
    BY <1>3, <1>4, OnwardKeeps
  <2> QED BY <2>1 DEF SaidFits
<1>7. flawed' \in BOOLEAN
  BY <1>1, <1>4 DEF TypeOK
<1> QED BY <1>3, <1>4, <1>5, <1>6, <1>7, OnwardStep

LEMMA BeginCompareStep ==
  ASSUME IndInv, NEW ids \in BoundedSeq(Ids, MaxIds), BeginCompare(ids)
  PROVE  IndInv'
<1>1. ids \in Seq(Ids)
  BY DEF BoundedSeq, SeqOf
<1> QED BY <1>1, BeginStep DEF BeginCompare

LEMMA BeginHistoryStep ==
  ASSUME IndInv, NEW S \in SUBSET Sids, BeginHistory(S)
  PROVE  IndInv'
<1>1. IsFiniteSet(S)
  BY FS_Subset
<1>2. PICK list \in SetToSeqs(S) : Begin([Blank EXCEPT !.kind = "history"], "stats", list)
  BY DEF BeginHistory
<1>4. list \in Seq(Sids)
  BY <1>1, EnumerationIsSeq
<1> QED BY <1>2, <1>4, BeginStep

LEMMA BeginOrdersStep ==
  ASSUME IndInv, NEW s \in Sids, NEW kind \in {"orders", "current"}, BeginOrders(kind, s)
  PROVE  IndInv'
<1>1. TypeOK
  BY DEF IndInv
<1>2. PICK r : r = [Blank EXCEPT !.kind = kind, !.pc = "list", !.of = s]
  OBVIOUS
<1>3. r \in Report /\ r.kind = kind /\ r.pc = "list" /\ r.todo = <<>> /\ r.said = <<>>
  BY <1>1, <1>2, SomeSession, BlankFacts DEF Report, Kinds
<1>4. report' = r /\ orders' = orders /\ writes' = writes /\ moments' = {orders} /\ flawed' = flawed
  BY <1>2 DEF BeginOrders, Now
<1>5. MomentsFit' /\ moments' \subseteq [Oids -> Order]
  BY <1>4, NothingNew
<1>6. TypeOK'
  BY <1>1, <1>3, <1>4, <1>5 DEF TypeOK
<1>7. StatementsInStep'
  BY <1>3, <1>4 DEF StatementsInStep, At
<1>8. TodoFits'
  <2>1. <<>> \in Seq(Oids) /\ DOMAIN <<>> = {}
    OBVIOUS
  <2>2. kind # "compare" /\ kind # "history"
    OBVIOUS
  <2> QED BY <1>3, <1>4, <2>1, <2>2 DEF TodoFits
<1>9. EntryFits'
  BY <1>3, <1>4 DEF EntryFits, At
<1>10. SaidFits'
  BY <1>3, <1>4 DEF SaidFits
<1> QED BY <1>5, <1>6, <1>7, <1>8, <1>9, <1>10 DEF IndInv

LEMMA ReadSessionStep ==
  ASSUME IndInv, ReadSession
  PROVE  IndInv'
<1>1. /\ TypeOK /\ StatementsInStep /\ TodoFits /\ SaidFits
  BY DEF IndInv
<1>2. /\ report.pc = "session" /\ report.kind = "compare" /\ report \in Report
      /\ report.todo # <<>> /\ report.todo \in Seq(Ids)
  <2>1. report.pc = "session"
    BY DEF ReadSession, At
  <2>2. report \in Report
    BY <1>1 DEF TypeOK
  <2>3. report.kind = "compare" /\ report.todo # <<>>
    BY <1>1, <2>1, <2>2 DEF StatementsInStep, At, Report, Kinds
  <2> QED BY <1>1, <2>1, <2>2, <2>3 DEF TodoFits
<1>3. orders' = orders /\ writes' = writes /\ moments' = moments /\ flawed' = flawed
  BY DEF ReadSession, Now
<1>4. flawed' \in BOOLEAN
  BY <1>1, <1>3 DEF TypeOK
<1>5. CASE Found(Head(report.todo))
  <2>1. PICK id : id = Head(report.todo) /\ id \in Sids
    BY <1>5 DEF Found
  <2>2. PICK r : r = [report EXCEPT !.pc = "stats", !.entry = NoEntry(id)]
    OBVIOUS
  <2>3. NoEntry(id) \in Entry
    BY <2>1, NoEntryType
  <2>4. /\ r \in Report /\ r.pc = "stats" /\ r.entry = NoEntry(id)
        /\ r.kind = report.kind /\ r.of = report.of /\ r.todo = report.todo /\ r.said = report.said
    BY <1>2, <2>2, <2>3 DEF Report
  <2>5. report' = r
    BY <1>5, <2>1, <2>2 DEF ReadSession, Now
  <2>6. MomentsFit' /\ moments' \subseteq [Oids -> Order]
    BY <1>3, NothingNew
  <2>7. TypeOK'
    BY <1>1, <1>3, <1>4, <2>4, <2>5 DEF TypeOK
  <2>8. StatementsInStep'
    BY <1>2, <2>4, <2>5 DEF StatementsInStep, At
  <2>9. TodoFits'
    BY <1>2, <2>4, <2>5 DEF TodoFits
  <2>10. EntryFits'
    BY <2>1, <2>4, <2>5 DEF EntryFits, At
  <2>11. SaidFits'
    BY <1>1, <1>3, <2>4, <2>5, SaidSame
  <2> QED BY <2>6, <2>7, <2>8, <2>9, <2>10, <2>11 DEF IndInv
<1>6. CASE ~Found(Head(report.todo))
  <2>1. report' = Onward(report, Tail(report.todo), "session")
    BY <1>6 DEF ReadSession, Now, Further
  <2>2. Tail(report.todo) \in Seq(Ids) /\ Tail(report.todo) \in Seq(Ids \cup Oids)
    BY <1>2, RestFacts
  <2>3. report'.said = report.said /\ report'.kind = report.kind /\ report'.of = report.of
    BY <1>2, <2>1, OnwardKeeps
  <2>4. SaidFits'
    BY <1>1, <1>3, <2>3, SaidSame
  <2> QED BY <1>2, <1>3, <1>4, <2>1, <2>2, <2>4, OnwardStep
<1> QED BY <1>5, <1>6

\* What a report that has something left to read goes on with.
LEMMA RestToRead ==
  ASSUME IndInv, report.todo # <<>>
  PROVE  /\ report.kind = "compare" => Tail(report.todo) \in Seq(Ids)
         /\ report.kind = "history" => Tail(report.todo) \in Seq(Sids)
         /\ report.kind \in {"orders", "current"} =>
              /\ Tail(report.todo) \in Seq(Oids) /\ Head(report.todo) \in Oids
              /\ \A n \in DOMAIN Tail(report.todo) :
                   \E db \in moments : Tail(report.todo)[n] \in OrdersOf(db, report.of)
              /\ \E db \in moments : Head(report.todo) \in OrdersOf(db, report.of)
         /\ Tail(report.todo) \in Seq(Ids \cup Oids)
<1>1. TodoFits /\ report.todo \in Seq(Ids \cup Oids)
  BY DEF IndInv, TypeOK, Report
<1>2. Tail(report.todo) \in Seq(Ids \cup Oids)
  BY <1>1, RestFacts
<1>3. ASSUME report.kind = "compare" PROVE Tail(report.todo) \in Seq(Ids)
  BY <1>1, <1>3, RestFacts DEF TodoFits
<1>4. ASSUME report.kind = "history" PROVE Tail(report.todo) \in Seq(Sids)
  BY <1>1, <1>4, RestFacts DEF TodoFits
<1>5. ASSUME report.kind \in {"orders", "current"}
      PROVE  /\ Tail(report.todo) \in Seq(Oids) /\ Head(report.todo) \in Oids
             /\ \A n \in DOMAIN Tail(report.todo) :
                  \E db \in moments : Tail(report.todo)[n] \in OrdersOf(db, report.of)
             /\ \E db \in moments : Head(report.todo) \in OrdersOf(db, report.of)
  <2>1. /\ report.todo \in Seq(Oids)
        /\ \A n \in DOMAIN report.todo : \E db \in moments : report.todo[n] \in OrdersOf(db, report.of)
    BY <1>1, <1>5 DEF TodoFits
  <2>2. /\ Tail(report.todo) \in Seq(Oids) /\ Head(report.todo) \in Oids
        /\ 1 \in DOMAIN report.todo /\ Head(report.todo) = report.todo[1]
        /\ \A n \in DOMAIN Tail(report.todo) :
             n + 1 \in DOMAIN report.todo /\ Tail(report.todo)[n] = report.todo[n + 1]
    BY <2>1, RestFacts
  <2> QED BY <2>1, <2>2
<1> QED BY <1>2, <1>3, <1>4, <1>5

\* A report goes on with nothing said, or with one entry more that was so.
LEMMA PassOver ==
  ASSUME IndInv, report.todo # <<>>, NEW pc,
         \/ report.kind = "compare" /\ pc = "session"
         \/ report.kind = "history" /\ pc = "stats"
         \/ report.kind \in {"orders", "current"} /\ pc = "items",
         report' = Further(report, pc), orders' = orders, writes' = writes, moments' = moments,
         flawed' \in BOOLEAN, flawed => flawed'
  PROVE  IndInv'
<1>1. TypeOK /\ SaidFits /\ report \in Report /\ pc \in {"session", "stats", "items"}
  BY DEF IndInv, TypeOK
<1>2. report' = Onward(report, Tail(report.todo), pc)
  BY DEF Further
<1>3. report'.said = report.said /\ report'.kind = report.kind /\ report'.of = report.of
  BY <1>1, <1>2, OnwardKeeps
<1>4. SaidFits'
  BY <1>1, <1>3, SaidSame
<1>5. PICK todo : todo = Tail(report.todo)
  OBVIOUS
<1>6. /\ \/ report.kind = "compare" /\ pc = "session" /\ todo \in Seq(Ids)
         \/ report.kind = "history" /\ pc = "stats" /\ todo \in Seq(Sids)
         \/ /\ report.kind \in {"orders", "current"} /\ pc = "items" /\ todo \in Seq(Oids)
            /\ \A n \in DOMAIN todo : \E db \in moments' : todo[n] \in OrdersOf(db, report.of)
      /\ todo \in Seq(Ids \cup Oids)
  BY <1>5, RestToRead
<1> QED BY <1>1, <1>2, <1>4, <1>5, <1>6, OnwardStep

LEMMA SayAndGoOn ==
  ASSUME IndInv, report.todo # <<>>, NEW pc, NEW e \in Entry,
         \/ report.kind = "compare" /\ pc = "session"
         \/ report.kind = "history" /\ pc = "stats"
         \/ report.kind \in {"orders", "current"} /\ pc = "items",
         report' = Further(Say(e), pc), orders' = orders, writes' = writes, moments' = moments,
         flawed' \in BOOLEAN, flawed => flawed',
         report'.kind = report.kind /\ report'.of = report.of => WasSo(e)'
  PROVE  IndInv'
<1>1. TypeOK /\ SaidFits /\ pc \in {"session", "stats", "items"}
  BY DEF IndInv
<1>2. PICK rec : rec = Say(e)
  OBVIOUS
<1>3. /\ rec \in Report
      /\ rec.kind = report.kind /\ rec.of = report.of /\ rec.todo = report.todo
      /\ rec.said = Append(report.said, e)
  BY <1>1, <1>2, SayFacts
<1>4. PICK todo : todo = Tail(report.todo)
  OBVIOUS
<1>5. report' = Onward(rec, todo, pc)
  BY <1>2, <1>3, <1>4 DEF Further
<1>6. report'.said = Append(report.said, e) /\ report'.kind = report.kind /\ report'.of = report.of
  BY <1>3, <1>5, OnwardKeeps
<1>7. SaidFits'
  BY <1>1, <1>6, SaidMore
<1>8. /\ \/ rec.kind = "compare" /\ pc = "session" /\ todo \in Seq(Ids)
         \/ rec.kind = "history" /\ pc = "stats" /\ todo \in Seq(Sids)
         \/ /\ rec.kind \in {"orders", "current"} /\ pc = "items" /\ todo \in Seq(Oids)
            /\ \A n \in DOMAIN todo : \E db \in moments' : todo[n] \in OrdersOf(db, rec.of)
      /\ todo \in Seq(Ids \cup Oids)
  BY <1>3, <1>4, RestToRead
<1> QED BY <1>1, <1>3, <1>5, <1>7, <1>8, OnwardStep

LEMMA ReadStatsStep ==
  ASSUME IndInv, ReadStats
  PROVE  IndInv'
<1>1. /\ TypeOK /\ StatementsInStep /\ TodoFits /\ EntryFits /\ SaidFits /\ MomentsFit
      /\ report \in Report /\ orders \in [Oids -> Order] /\ orders \in moments
  BY DEF IndInv, TypeOK, MomentsFit
<1>2. report.pc = "stats"
  BY DEF ReadStats, At
<1>3. report.kind \in {"compare", "history"} /\ report.todo # <<>>
  BY <1>1, <1>2 DEF StatementsInStep, At, Report, Kinds
<1>4. PICK s \in Sids : s = Head(report.todo) /\ report.entry = NoEntry(s)
  BY <1>1, <1>2 DEF EntryFits, At
<1>5. report.entry.id = s /\ NoEntry(s) \in Entry
  BY <1>4, NoEntryType
<1>6. orders' = orders /\ writes' = writes /\ moments' = moments /\ flawed' = flawed
  BY DEF ReadStats, Now
<1>7. flawed' \in BOOLEAN /\ (flawed => flawed')
  BY <1>1, <1>6 DEF TypeOK
<1>8. PICK e : e = [report.entry EXCEPT !.count = CountOf(orders, s), !.revenue = RevenueOf(orders, s)]
  OBVIOUS
<1>9. e \in Entry /\ e.id = s /\ e.count = CountOf(orders, s) /\ e.revenue = RevenueOf(orders, s)
  <2>1. CountOf(orders, s) \in Nat /\ RevenueOf(orders, s) \in Nat
    BY <1>1, OrdersOfFacts, RevenueIsOfItems
  <2> QED BY <1>4, <1>5, <1>8, <2>1 DEF Entry
<1>10. CASE report.kind = "compare"
  <2>1. PICK r : r = [report EXCEPT !.entry = e, !.pc = "items"]
    OBVIOUS
  <2>2. /\ r \in Report /\ r.pc = "items" /\ r.entry = e
        /\ r.kind = report.kind /\ r.of = report.of /\ r.todo = report.todo /\ r.said = report.said
    BY <1>1, <1>9, <2>1 DEF Report
  <2>3. report' = r
    BY <1>5, <1>8, <1>10, <2>1 DEF ReadStats, Now
  <2>4. MomentsFit' /\ moments' \subseteq [Oids -> Order]
    BY <1>6, NothingNew
  <2>5. TypeOK'
    BY <1>1, <1>6, <1>7, <2>2, <2>3 DEF TypeOK
  <2>6. StatementsInStep'
    BY <1>3, <1>10, <2>2, <2>3 DEF StatementsInStep, At
  <2>7. TodoFits'
    BY <1>1, <1>10, <2>2, <2>3 DEF TodoFits
  <2>8. EntryFits'
    BY <1>1, <1>4, <1>6, <1>9, <1>10, <2>2, <2>3 DEF EntryFits, At
  <2>9. SaidFits'
    BY <1>1, <1>6, <2>2, <2>3, SaidSame
  <2> QED BY <2>4, <2>5, <2>6, <2>7, <2>8, <2>9 DEF IndInv
<1>11. CASE report.kind = "history"
  <2>1. report' = Further(Say(e), "stats")
    BY <1>5, <1>8, <1>11 DEF ReadStats, Now
  <2>2. ASSUME report'.kind = report.kind PROVE WasSo(e)'
    <3>1. StatsWereSo(e)'
      BY <1>1, <1>6, <1>9 DEF StatsWereSo
    <3> QED BY <1>11, <2>2, <3>1 DEF WasSo, OfSessions
  <2> QED BY <1>3, <1>6, <1>7, <1>9, <1>11, <2>1, <2>2, SayAndGoOn
<1> QED BY <1>3, <1>10, <1>11

LEMMA ReadBreakdownStep ==
  ASSUME IndInv, NEW lines \in [Items -> 0..(MaxAmount * MaxOrders)], ReadBreakdown(lines)
  PROVE  IndInv'
<1>1. /\ TypeOK /\ StatementsInStep /\ EntryFits /\ SaidFits /\ MomentsFit
      /\ report \in Report /\ orders \in [Oids -> Order] /\ orders \in moments
  BY DEF IndInv, TypeOK, MomentsFit
<1>2. report.pc = "items" /\ report.kind = "compare"
  BY DEF ReadBreakdown, At
<1>3. report.todo # <<>>
  BY <1>1, <1>2 DEF StatementsInStep
<1>4. /\ report.entry \in Entry /\ report.entry.id \in Sids
      /\ \E db \in moments : /\ report.entry.count = CountOf(db, report.entry.id)
                              /\ report.entry.revenue = RevenueOf(db, report.entry.id)
  BY <1>1, <1>2 DEF EntryFits, At, Report
<1>5. orders' = orders /\ writes' = writes /\ moments' = moments
  BY DEF ReadBreakdown, Now
<1>6. /\ flawed' \in BOOLEAN /\ (flawed => flawed')
      /\ ~flawed' => lines = ItemsOf(orders, report.entry.id)
  BY <1>1 DEF ReadBreakdown, Flaw, TypeOK
<1>7. lines \in [Items -> Nat]
  OBVIOUS
<1>8. PICK e : e = [report.entry EXCEPT !.lines = lines]
  OBVIOUS
<1>9. /\ e \in Entry /\ e.id = report.entry.id /\ e.count = report.entry.count
      /\ e.revenue = report.entry.revenue /\ e.lines = lines
  BY <1>4, <1>7, <1>8 DEF Entry
<1>10. report' = Further(Say(e), "session")
  BY <1>8 DEF ReadBreakdown, Now
<1>11. ASSUME report'.kind = report.kind PROVE WasSo(e)'
  <2>1. StatsWereSo(e)'
    BY <1>4, <1>5, <1>9 DEF StatsWereSo
  <2>2. ~flawed' => \E db \in moments' : e.lines = ItemsOf(db, e.id)
    BY <1>1, <1>5, <1>6, <1>9
  <2> QED BY <1>2, <1>11, <2>1, <2>2 DEF WasSo, OfSessions
<1> QED BY <1>2, <1>3, <1>5, <1>6, <1>9, <1>10, <1>11, SayAndGoOn

LEMMA ReadOrdersStep ==
  ASSUME IndInv, NEW got \in SUBSET Oids, ReadOrders(got)
  PROVE  IndInv'
<1>1. /\ TypeOK /\ StatementsInStep /\ SaidFits /\ MomentsFit
      /\ report \in Report /\ orders \in moments
  BY DEF IndInv, TypeOK, MomentsFit
<1>2. report.pc = "list"
  BY DEF ReadOrders, At
<1>3. report.kind \in {"orders", "current"}
  BY <1>1, <1>2 DEF StatementsInStep, At, Report, Kinds
<1>4. got \subseteq OrdersOf(orders, report.of)
  BY DEF ReadOrders
<1>5. PICK list \in SetToSeqs(got) : Now(Onward(report, list, "items"))
  BY DEF ReadOrders
<1>6. orders' = orders /\ writes' = writes /\ moments' = moments /\ report' = Onward(report, list, "items")
  BY <1>5 DEF ReadOrders, Now
<1>7. flawed' \in BOOLEAN /\ (flawed => flawed')
  BY <1>1 DEF ReadOrders, Flaw, TypeOK
<1>8. list \in Seq(Oids) /\ \A n \in DOMAIN list : list[n] \in got
  <2>1. IsFiniteSet(got)
    BY OrdersOfFacts, FS_Subset
  <2> QED BY <2>1, EnumerationIsSeq
<1>9. \A n \in DOMAIN list : \E db \in moments' : list[n] \in OrdersOf(db, report.of)
  BY <1>1, <1>4, <1>6, <1>8
<1>10. SaidFits'
  <2>1. report'.said = report.said /\ report'.kind = report.kind /\ report'.of = report.of
    BY <1>1, <1>6, OnwardKeeps
  <2> QED BY <1>1, <1>6, <1>7, <2>1, SaidSame
<1>11. list \in Seq(Ids \cup Oids)
  <2>1. Oids \in SUBSET (Ids \cup Oids)
    OBVIOUS
  <2> QED BY <1>8
<1> QED BY <1>1, <1>3, <1>6, <1>7, <1>8, <1>9, <1>10, <1>11, OnwardStep

LEMMA ReadItemsStep ==
  ASSUME IndInv, NEW lines \in Lines, ReadItems(lines)
  PROVE  IndInv'
<1>1. /\ TypeOK /\ StatementsInStep /\ EntryFits /\ SaidFits /\ MomentsFit
      /\ report \in Report /\ orders \in [Oids -> Order] /\ orders \in moments
  BY DEF IndInv, TypeOK, MomentsFit
<1>2. report.pc = "items" /\ report.kind # "compare"
  BY DEF ReadItems, At
<1>3. report.kind \in {"orders", "current"} /\ report.todo # <<>>
  BY <1>1, <1>2 DEF StatementsInStep, At, Report, Kinds
<1>4. PICK o \in Oids : o = Head(report.todo) /\ \E db \in moments : o \in OrdersOf(db, report.of)
  BY <1>3, RestToRead
<1>5. report.entry.id = o
  BY <1>1, <1>2, <1>4, NoEntryType DEF EntryFits, At
<1>6. orders' = orders /\ writes' = writes /\ moments' = moments
  BY DEF ReadItems, Now
<1>7. lines \in FirstRows(LinesNow(o))
  BY <1>5 DEF ReadItems
<1>8. /\ flawed' \in BOOLEAN /\ (flawed => flawed')
      /\ ~flawed' => lines = LinesNow(o)
  BY <1>1, <1>5 DEF ReadItems, Flaw, TypeOK
<1>9. /\ LinesNow(o) \in [Items -> Nat]
      /\ orders[o].there => LinesNow(o) = orders[o].lines
      /\ ~orders[o].there => LinesNow(o) = NoLines
  BY <1>1, LinesAreNats DEF LinesNow, NoLines
<1>10. lines \in [Items -> Nat] /\ Total(lines) \in Nat /\ Total(lines) <= Total(LinesNow(o))
  BY <1>7, <1>9, FirstRowsFacts, TotalType
<1>11. PICK e : e = OrderEntry(o, lines)
  OBVIOUS
<1>12. e \in Entry /\ e.id = o /\ e.revenue = Total(lines)
  BY <1>10, <1>11, NoEntryType DEF OrderEntry, Entry, NoEntry, NoLines
<1>13. report' = Further(Say(e), "items")
  BY <1>5, <1>11 DEF ReadItems, Now
<1>14. ASSUME report'.kind = report.kind, report'.of = report.of PROVE WasSo(e)'
  <2>1. \E db \in moments' : e.id \in OrdersOf(db, report'.of)
    BY <1>4, <1>6, <1>12, <1>14
  <2>2. CASE ~orders[o].there
    <3>1. Total(lines) = 0
      BY <1>9, <1>10, <2>2, TotalNoLines
    <3>2. ~orders'[e.id].there /\ e.revenue = 0
      BY <1>6, <1>12, <2>2, <3>1
    <3>3. OrderWasSo(e)'
      BY <2>1, <3>2 DEF OrderWasSo
    <3> QED BY <1>3, <1>14, <3>3 DEF WasSo, OfSessions
  <2>3. CASE orders[o].there
    <3>1. /\ flawed' => orders \in moments' /\ orders[e.id].there /\ e.revenue <= Total(orders[e.id].lines)
          /\ ~flawed' => orders \in moments' /\ orders[e.id].there /\ e.revenue = Total(orders[e.id].lines)
      BY <1>1, <1>6, <1>8, <1>9, <1>10, <1>12, <2>3
    <3>2. OrderWasSo(e)'
      BY <2>1, <3>1, <1>8 DEF OrderWasSo
    <3> QED BY <1>3, <1>14, <3>2 DEF WasSo, OfSessions
  <2> QED BY <2>2, <2>3
<1> QED BY <1>3, <1>6, <1>8, <1>12, <1>13, <1>14, SayAndGoOn

LEMMA FailStep ==
  ASSUME IndInv, Fail
  PROVE  IndInv'
<1>1. /\ TypeOK /\ StatementsInStep /\ TodoFits /\ EntryFits /\ SaidFits /\ report \in Report
  BY DEF IndInv, TypeOK
<1>2. report.pc \in {"session", "stats", "items", "list"}
  BY DEF Fail
<1>3. orders' = orders /\ writes' = writes /\ moments' = moments /\ flawed' = TRUE
  BY DEF Fail, Now, Flaw
<1>4. CASE report.kind = "compare"
  <2>1. report' = Further(report, "session")
    BY <1>4 DEF Fail, Now
  <2>2. report.todo # <<>>
    BY <1>1, <1>2, <1>4 DEF StatementsInStep
  <2> QED BY <1>3, <1>4, <2>1, <2>2, PassOver
<1>5. CASE report.kind = "history"
  <2>1. report' = Further(Say(report.entry), "stats")
    BY <1>5 DEF Fail, Now, At
  <2>2. report.pc = "stats" /\ report.todo # <<>>
    BY <1>1, <1>2, <1>5 DEF StatementsInStep
  <2>3. PICK e \in Entry : e = report.entry
    BY <1>1 DEF Report
  <2>4. e.id \in Sids /\ e = NoEntry(e.id)
    BY <1>1, <2>2, <2>3, NoEntryType DEF EntryFits, At
  <2>5. ASSUME report'.kind = report.kind PROVE WasSo(e)'
    <3>1. StatsWereSo(e)'
      BY <1>3, <2>4 DEF StatsWereSo
    <3> QED BY <1>5, <2>5, <3>1 DEF WasSo, OfSessions
  <2> QED BY <1>3, <1>5, <2>1, <2>2, <2>3, <2>5, SayAndGoOn
<1>6. CASE report.kind = "orders" /\ report.pc = "items"
  <2>1. report' = Further(report, "items")
    BY <1>6 DEF Fail, Now, At
  <2>2. report.todo # <<>>
    BY <1>1, <1>6 DEF StatementsInStep
  <2> QED BY <1>3, <1>6, <2>1, <2>2, PassOver
<1>7. CASE report.kind \in {"orders", "current"} /\ ~(report.kind = "orders" /\ report.pc = "items")
  <2>1. PICK r : r = [report EXCEPT !.pc = "failed"]
    OBVIOUS
  <2>2. /\ r \in Report /\ r.pc = "failed"
        /\ r.kind = report.kind /\ r.of = report.of /\ r.todo = report.todo /\ r.said = report.said
    BY <1>1, <2>1 DEF Report
  <2>3. report' = r
    BY <1>7, <2>1 DEF Fail, Now, At
  <2>4. MomentsFit' /\ moments' \subseteq [Oids -> Order]
    BY <1>3, NothingNew
  <2>5. TypeOK'
    BY <1>1, <1>3, <2>2, <2>3 DEF TypeOK
  <2>6. StatementsInStep'
    BY <1>7, <2>2, <2>3 DEF StatementsInStep, At
  <2>7. TodoFits'
    BY <1>1, <1>3, <1>7, <2>2, <2>3 DEF TodoFits
  <2>8. EntryFits'
    BY <2>2, <2>3 DEF EntryFits, At
  <2>9. SaidFits'
    <3>1. \A o \in Oids : ~orders[o].there /\ (\E db \in moments : db[o].there) => ~orders'[o].there
      BY <1>3
    <3> QED BY <1>1, <1>3, <2>2, <2>3, <3>1, SaidSame
  <2> QED BY <2>4, <2>5, <2>6, <2>7, <2>8, <2>9 DEF IndInv
<1>8. report.kind \in {"compare", "history", "orders", "current"}
  BY <1>1, <1>2 DEF StatementsInStep, At, Report, Kinds
<1> QED BY <1>4, <1>5, <1>6, <1>7, <1>8

\* A change of the orders is one more moment; orders keep having lines, and what is
\* gone stays so.
ComesAfter(db, o) ==
  /\ db[o].there => db[o].lines # NoLines
  /\ orders[o].lines # NoLines => db[o].lines # NoLines
  /\ orders[o].lines # NoLines /\ ~orders[o].there => ~db[o].there

LEMMA WriteStep ==
  ASSUME IndInv, NEW db \in [Oids -> Order], Write(db), \A o \in Oids : ComesAfter(db, o)
  PROVE  IndInv'
<1>1. /\ TypeOK /\ StatementsInStep /\ TodoFits /\ EntryFits /\ SaidFits /\ MomentsFit
  BY DEF IndInv
<1>2. /\ writes' = writes + 1 /\ writes < MaxWrites /\ orders' = db
      /\ moments' = moments \cup {db} /\ report' = report /\ flawed' = flawed
  BY DEF Write
<1>3. TypeOK'
  BY <1>1, <1>2 DEF TypeOK
<1>4. MomentsFit'
  <2>1. IsFiniteSet(moments')
    BY <1>1, <1>2, FS_AddElement DEF MomentsFit
  <2>2. ASSUME NEW m \in moments', NEW o \in Oids
        PROVE  /\ m[o].there => m[o].lines # NoLines
               /\ m[o].lines # NoLines => orders'[o].lines # NoLines
    BY <1>1, <1>2 DEF MomentsFit, ComesAfter
  <2> QED BY <1>2, <2>1, <2>2 DEF MomentsFit
<1>5. StatementsInStep' /\ TodoFits' /\ EntryFits'
  <2>1. StatementsInStep'
    BY <1>1, <1>2 DEF StatementsInStep, At
  <2>2. TodoFits'
    BY <1>1, <1>2 DEF TodoFits
  <2>3. EntryFits'
    BY <1>1, <1>2 DEF EntryFits, At
  <2> QED BY <2>1, <2>2, <2>3
<1>6. SaidFits'
  <2>1. \A o \in Oids : ~orders[o].there /\ (\E m \in moments : m[o].there) => ~orders'[o].there
    BY <1>1, <1>2 DEF MomentsFit, ComesAfter
  <2> QED BY <1>1, <1>2, <2>1, SaidSame
<1> QED BY <1>3, <1>4, <1>5, <1>6 DEF IndInv

LEMMA PlaceOrderStep ==
  ASSUME IndInv, NEW o \in Oids, NEW s \in Sids, NEW lines \in Lines, PlaceOrder(o, s, lines)
  PROVE  IndInv'
<1>1. orders \in [Oids -> Order] /\ MomentsFit
  BY DEF IndInv, TypeOK
<1>2. PICK rec \in Order : rec = [there |-> TRUE, session |-> s, lines |-> lines]
  BY DEF Order
<1>3. PICK db : db = [orders EXCEPT ![o] = rec]
  OBVIOUS
<1>4. db \in [Oids -> Order] /\ db[o] = rec /\ \A n \in Oids : n # o => db[n] = orders[n]
  BY <1>1, <1>3
<1>5. Write(db) /\ lines # NoLines /\ orders[o].lines = NoLines
  BY <1>2, <1>3 DEF PlaceOrder, Placed
<1>6. \A n \in Oids : orders[n].there => orders[n].lines # NoLines
  BY <1>1 DEF MomentsFit
<1>7. \A n \in Oids : ComesAfter(db, n)
  BY <1>2, <1>4, <1>5, <1>6 DEF ComesAfter
<1> QED BY <1>4, <1>5, <1>7, WriteStep

LEMMA EditOrderStep ==
  ASSUME IndInv, NEW o \in Oids, NEW lines \in Lines, EditOrder(o, lines)
  PROVE  IndInv'
<1>1. orders \in [Oids -> Order] /\ MomentsFit
  BY DEF IndInv, TypeOK
<1>2. PICK rec : rec = [orders[o] EXCEPT !.lines = lines]
  OBVIOUS
<1>3. rec \in Order /\ rec.there = orders[o].there /\ rec.lines = lines
  BY <1>1, <1>2 DEF Order
<1>4. PICK db : db = [orders EXCEPT ![o] = rec]
  OBVIOUS
<1>5. db \in [Oids -> Order] /\ db[o] = rec /\ \A n \in Oids : n # o => db[n] = orders[n]
  BY <1>1, <1>3, <1>4
<1>6. Write(db) /\ lines # NoLines /\ orders[o].there
  BY <1>2, <1>4 DEF EditOrder
<1>7. \A n \in Oids : orders[n].there => orders[n].lines # NoLines
  BY <1>1 DEF MomentsFit
<1>8. \A n \in Oids : ComesAfter(db, n)
  BY <1>3, <1>5, <1>6, <1>7 DEF ComesAfter
<1> QED BY <1>5, <1>6, <1>8, WriteStep

LEMMA PurgeOrdersStep ==
  ASSUME IndInv, NEW first \in Oids, PurgeOrders(first)
  PROVE  IndInv'
<1>1. orders \in [Oids -> Order] /\ MomentsFit
  BY DEF IndInv, TypeOK
<1>2. PICK db : db = [o \in Oids |-> IF o >= first THEN [orders[o] EXCEPT !.there = FALSE] ELSE orders[o]]
  OBVIOUS
<1>3. ASSUME NEW o \in Oids
      PROVE  /\ (IF o >= first THEN [orders[o] EXCEPT !.there = FALSE] ELSE orders[o]) \in Order
             /\ db[o].lines = orders[o].lines /\ (db[o].there => orders[o].there)
  <2>1. orders[o] \in Order
    BY <1>1
  <2>2. PICK rec : rec = [orders[o] EXCEPT !.there = FALSE]
    OBVIOUS
  <2>3. rec \in Order /\ rec.lines = orders[o].lines /\ rec.there = FALSE
    BY <2>1, <2>2 DEF Order
  <2>4. db[o] = IF o >= first THEN rec ELSE orders[o]
    BY <1>2, <2>2
  <2> QED BY <2>1, <2>2, <2>3, <2>4
<1>4. db \in [Oids -> Order]
  BY <1>2, <1>3
<1>5. Write(db)
  BY <1>2 DEF PurgeOrders
<1>6. \A n \in Oids : orders[n].there => orders[n].lines # NoLines
  BY <1>1 DEF MomentsFit
<1>7. \A n \in Oids : ComesAfter(db, n)
  BY <1>3, <1>6 DEF ComesAfter
<1> QED BY <1>4, <1>5, <1>7, WriteStep

LEMMA InitHolds == Init => IndInv
<1> SUFFICES ASSUME Init PROVE IndInv
  OBVIOUS
<1>1. /\ orders \in [Oids -> Order] /\ report = Blank /\ moments = {orders}
      /\ flawed = FALSE /\ writes = 0
      /\ \A o \in Oids : orders[o].there => orders[o].lines # NoLines
  BY DEF Init
<1>2. Sids # {}
  <2>1. 1 \in Oids
    BY DEF Oids
  <2> QED BY <1>1, <2>1 DEF Order
<1>3. /\ report \in Report
      /\ report.kind = "none" /\ report.pc = "idle" /\ report.todo = <<>> /\ report.said = <<>>
  BY <1>1, <1>2, BlankFacts
<1>4. TypeOK
  <2>1. moments \subseteq [Oids -> Order]
    BY <1>1
  <2>2. writes \in 0..MaxWrites
    BY <1>1
  <2>3. flawed \in BOOLEAN
    BY <1>1
  <2> QED BY <1>1, <1>3, <2>1, <2>2, <2>3 DEF TypeOK
<1>5. MomentsFit
  <2>1. IsFiniteSet(moments)
    BY <1>1, FS_Singleton
  <2> QED BY <1>1, <2>1 DEF MomentsFit
<1>6. StatementsInStep
  BY <1>3 DEF StatementsInStep, At
<1>7. TodoFits
  BY <1>3 DEF TodoFits
<1>8. EntryFits
  BY <1>3 DEF EntryFits, At
<1>9. SaidFits
  BY <1>3 DEF SaidFits
<1> QED BY <1>4, <1>5, <1>6, <1>7, <1>8, <1>9 DEF IndInv

LEMMA StutterStep == ASSUME IndInv, UNCHANGED vars PROVE IndInv'
BY DEF vars, IndInv, TypeOK, StatementsInStep, TodoFits, EntryFits, MomentsFit, SaidFits,
       WasSo, StatsWereSo, OrderWasSo, OfSessions, At

LEMMA NextHolds == IndInv /\ [Next]_vars => IndInv'
<1> SUFFICES ASSUME IndInv, [Next]_vars PROVE IndInv'
  OBVIOUS
<1>1. ASSUME NEW o \in Oids, NEW s \in Sids, NEW lines \in Lines, PlaceOrder(o, s, lines) PROVE IndInv'
  BY <1>1, PlaceOrderStep
<1>2. ASSUME NEW o \in Oids, NEW lines \in Lines, EditOrder(o, lines) PROVE IndInv'
  BY <1>2, EditOrderStep
<1>3. ASSUME NEW first \in Oids, PurgeOrders(first) PROVE IndInv'
  BY <1>3, PurgeOrdersStep
<1>4. ASSUME NEW ids \in BoundedSeq(Ids, MaxIds), BeginCompare(ids) PROVE IndInv'
  BY <1>4, BeginCompareStep
<1>5. ASSUME NEW S \in SUBSET Sids, BeginHistory(S) PROVE IndInv'
  BY <1>5, BeginHistoryStep
<1>6. ASSUME NEW s \in Sids, NEW kind \in {"orders", "current"}, BeginOrders(kind, s) PROVE IndInv'
  BY <1>6, BeginOrdersStep
<1>7. ASSUME ReadOn PROVE IndInv'
  <2>1. ASSUME NEW lines \in [Items -> 0..(MaxAmount * MaxOrders)], ReadBreakdown(lines) PROVE IndInv'
    BY <2>1, ReadBreakdownStep
  <2>2. ASSUME NEW got \in SUBSET Oids, ReadOrders(got) PROVE IndInv'
    BY <2>2, ReadOrdersStep
  <2>3. ASSUME NEW lines \in Lines, ReadItems(lines) PROVE IndInv'
    BY <2>3, ReadItemsStep
  <2> QED BY <1>7, <2>1, <2>2, <2>3, ReadSessionStep, ReadStatsStep, FailStep DEF ReadOn
<1>8. CASE UNCHANGED vars
  BY <1>8, StutterStep
<1> QED BY <1>1, <1>2, <1>3, <1>4, <1>5, <1>6, <1>7, <1>8 DEF Next

\* Every report goes from statement to statement as its handler does, and what it has
\* read was so at some moment since it began.
THEOREM Invariance == Spec => []IndInv
<1>1. Init => IndInv
  BY InitHolds
<1>2. IndInv /\ [Next]_vars => IndInv'
  BY NextHolds
<1> QED BY <1>1, <1>2, PTL DEF Spec

THEOREM TypeCorrect == Spec => []TypeOK
<1>1. IndInv => TypeOK
  BY DEF IndInv
<1> QED BY <1>1, Invariance, PTL

------------------------------------------------------------------------------
(* What the answers are worth. *)

\* Count and revenue of a session are what they were at one moment: the count that of
\* its orders, and the revenue that of its items.
THEOREM StatsAreOfOneMoment == Spec => []StatsOfOneMoment
<1>1. IndInv => StatsOfOneMoment
  <2> SUFFICES ASSUME IndInv, OfSessions, NEW n \in DOMAIN report.said,
                      NEW e, e = report.said[n], ~(flawed /\ e = NoEntry(e.id))
               PROVE  \E db \in moments : /\ e.count = Cardinality(OrdersOf(db, e.id))
                                          /\ e.revenue = Total(ItemsOf(db, e.id))
    BY DEF StatsOfOneMoment, Entries
  <2>1. WasSo(e)
    BY DEF IndInv, SaidFits
  <2>2. PICK db \in moments : e.count = CountOf(db, e.id) /\ e.revenue = RevenueOf(db, e.id)
    BY <2>1 DEF WasSo, StatsWereSo
  <2>3. db \in [Oids -> Order]
    BY DEF IndInv, TypeOK
  <2>4. RevenueOf(db, e.id) = Total(ItemsOf(db, e.id))
    BY <2>3, RevenueIsOfItems
  <2> QED BY <2>2, <2>4 DEF CountOf
<1> QED BY <1>1, Invariance, PTL

\* Every order of a list was in the session at some moment, with the total it is listed
\* with, unless it was purged or its rows got lost.
THEOREM ListedTotalsAreTrue == Spec => []ListedTotalsWereTrue
<1>1. IndInv => ListedTotalsWereTrue
  BY DEF IndInv, SaidFits, WasSo, ListedTotalsWereTrue, Entries
<1> QED BY <1>1, Invariance, PTL

\* A comparison that all its statements answered, of orders that did not change.
Quiet(db) == /\ db \in [Oids -> Order]
             /\ report.said \in Seq(Entry)
             /\ \A n \in DOMAIN report.said :
                  LET e == report.said[n]
                  IN  /\ e.id \in Sids
                      /\ e.count = CountOf(db, e.id)
                      /\ e.revenue = RevenueOf(db, e.id)
                      /\ e.lines = ItemsOf(db, e.id)

LEMMA QuietFacts ==
  ASSUME IndInv, report.kind = "compare", ~flawed, Cardinality(moments) = 1
  PROVE  \E db : moments = {db} /\ Quiet(db)
<1>1. TypeOK /\ MomentsFit /\ SaidFits
  BY DEF IndInv
<1>2. PICK db : moments = {db}
  BY <1>1, FS_Singleton DEF MomentsFit
<1>3. db \in [Oids -> Order] /\ report.said \in Seq(Entry)
  BY <1>1, <1>2 DEF TypeOK, Report
<1>4. ASSUME NEW n \in DOMAIN report.said, NEW e, e = report.said[n]
      PROVE  /\ e.id \in Sids
             /\ e.count = CountOf(db, e.id)
             /\ e.revenue = RevenueOf(db, e.id)
             /\ e.lines = ItemsOf(db, e.id)
  <2>1. WasSo(e)
    BY <1>1, <1>4 DEF SaidFits
  <2>2. StatsWereSo(e)
    BY <2>1 DEF WasSo, OfSessions
  <2>3. \E m \in moments : e.count = CountOf(m, e.id) /\ e.revenue = RevenueOf(m, e.id)
    BY <2>2 DEF StatsWereSo
  <2>4. \E m \in moments : e.lines = ItemsOf(m, e.id)
    BY <2>1 DEF WasSo
  <2>5. e.id \in Sids
    BY <2>2 DEF StatsWereSo
  <2> QED BY <1>2, <2>3, <2>4, <2>5
<1> QED BY <1>2, <1>3, <1>4 DEF Quiet

\* The table of the answer: a row for each session, a column for each item.
LEMMA RowsAndColumns ==
  ASSUME NEW db, Quiet(db)
  PROVE  /\ ItemTotals \in [Items -> Nat]
         /\ TotalRevenue \in Nat
         /\ Total(ItemTotals) = TotalRevenue
<1> DEFINE S == DOMAIN report.said
           F == [n \in S |-> report.said[n].lines]
<1>1. IsFiniteSet(S)
  <2>1. PICK k \in Nat : S = 1..k
    BY DEF Quiet
  <2> HIDE DEF S
  <2> QED BY <2>1, FS_Interval
<1>2. ASSUME NEW n \in S
      PROVE  /\ report.said[n].lines \in [Items -> Nat]
             /\ report.said[n].revenue = Total(report.said[n].lines)
             /\ report.said[n].revenue \in Nat
  <2>1. PICK e : e = report.said[n]
    OBVIOUS
  <2>2. db \in [Oids -> Order] /\ e.revenue = RevenueOf(db, e.id) /\ e.lines = ItemsOf(db, e.id)
    BY <2>1 DEF Quiet
  <2> QED BY <2>1, <2>2, RevenueIsOfItems
<1> HIDE DEF S
<1>3. F \in [S -> [Items -> Nat]]
  BY <1>2
<1>4. SumFunction([n \in S |-> SumFunction(F[n])])
        = SumFunction([i \in Items |-> SumFunction([n \in S |-> F[n][i]])])
  <2> HIDE DEF F
  <2> QED BY <1>1, <1>3, SumExchange
<1>5. [n \in S |-> SumFunction(F[n])] = [n \in S |-> report.said[n].revenue]
  BY <1>2 DEF Total
<1>6. [i \in Items |-> SumFunction([n \in S |-> F[n][i]])] = ItemTotals
  <2>1. \A i \in Items : [n \in S |-> F[n][i]] = [n \in S |-> report.said[n].lines[i]]
    OBVIOUS
  <2> HIDE DEF F
  <2> QED BY <2>1 DEF ItemTotals, S
<1>7. Total(ItemTotals) = TotalRevenue
  BY <1>4, <1>5, <1>6 DEF TotalRevenue, Total, S
<1>8. ASSUME NEW i \in Items PROVE SumFunction([n \in S |-> report.said[n].lines[i]]) \in Nat
  <2> DEFINE g == [n \in S |-> report.said[n].lines[i]]
  <2>1. DOMAIN g = S /\ \A n \in S : g[n] \in Nat
    BY <1>2
  <2> HIDE DEF g
  <2>2. SumFunctionOnSet(g, S) \in Nat
    BY <1>1, <2>1, SumElement
  <2>3. SumFunction(g) \in Nat
    BY <2>1, <2>2 DEF SumFunction
  <2> QED BY <2>3 DEF g
<1>9. ItemTotals \in [Items -> Nat]
  BY <1>8 DEF ItemTotals, S
<1> QED BY <1>7, <1>9, TotalType

LEMMA DivFacts ==
  ASSUME NEW a \in Nat, NEW r \in Nat, r > 0
  PROVE  (a \div r) * r <= a /\ a \div r \in Nat
BY Z3

\* The percentages are rounded down, so that each takes no more of the revenue than the
\* item does.
LEMMA PercentFacts ==
  ASSUME NEW db, Quiet(db), NEW i \in Items
  PROVE  Percent(i) \in Nat /\ Percent(i) * TotalRevenue <= 100 * ItemTotals[i]
<1>1. PICK r \in Nat, t \in Nat : r = TotalRevenue /\ t = ItemTotals[i]
  BY RowsAndColumns
<1>2. CASE r = 0
  <2>1. Percent(i) = 0
    BY <1>1, <1>2 DEF Percent
  <2> QED BY <1>1, <1>2, <2>1
<1>3. CASE r > 0
  <2>1. PICK a \in Nat : a = t * 100
    OBVIOUS
  <2>2. PICK q \in Nat : q = a \div r /\ q * r <= a
    BY <1>3, DivFacts
  <2>3. Percent(i) = q
    BY <1>1, <1>3, <2>1, <2>2 DEF Percent
  <2> QED BY <1>1, <2>1, <2>2, <2>3
<1> QED BY <1>1, <1>2, <1>3

\* No order is of two sessions, so that no order is counted twice.
LEMMA OrdersCountedOnce ==
  ASSUME NEW db, Quiet(db),
         \A m, n \in DOMAIN report.said : report.said[m].id = report.said[n].id => m = n
  PROVE  TotalOrders <= Cardinality({o \in Oids : db[o].there})
<1> DEFINE S == DOMAIN report.said
           U == {o \in Oids : db[o].there}
           f == [n \in S |-> report.said[n].count]
           O == [n \in S |-> OrdersOf(db, report.said[n].id)]
<1>1. IsFiniteSet(S)
  <2>1. PICK k \in Nat : S = 1..k
    BY DEF Quiet
  <2> HIDE DEF S
  <2> QED BY <2>1, FS_Interval
<1>2. IsFiniteSet(U)
  <2>1. U \in SUBSET Oids
    OBVIOUS
  <2> HIDE DEF U
  <2> QED BY <2>1, OrdersOfFacts, FS_Subset
<1>3. \A n \in S : O[n] \in SUBSET U /\ f[n] = Cardinality(O[n])
  BY DEF Quiet, OrdersOf, CountOf
<1>4. \A m, n \in S : m # n => O[m] \cap O[n] = {}
  BY DEF OrdersOf
<1>5. SumFunctionOnSet(f, S) <= Cardinality(U)
  <2> HIDE DEF S, U, f, O
  <2> QED BY <1>1, <1>2, <1>3, <1>4, CountApart
<1>6. TotalOrders = SumFunctionOnSet(f, S)
  <2>1. DOMAIN f = S
    OBVIOUS
  <2>2. TotalOrders = SumFunction(f)
    BY DEF TotalOrders
  <2> QED BY <2>1, <2>2 DEF SumFunction
<1> QED BY <1>5, <1>6

\* A comparison that nothing interfered with adds up: the items make the revenue, the
\* sessions the totals, and the percentages are no more than a hundred.
THEOREM QuietComparisonsAddUp == Spec => []QuietComparisonAddsUp
<1>1. IndInv => QuietComparisonAddsUp
  <2> SUFFICES ASSUME IndInv, report.kind = "compare", ~flawed, Cardinality(moments) = 1
               PROVE  /\ Total(ItemTotals) = TotalRevenue
                      /\ SumFunction([i \in Items |-> Percent(i)]) <= 100
                      /\ \A db \in moments :
                           (\A m, n \in DOMAIN report.said : report.said[m].id = report.said[n].id => m = n) =>
                             /\ TotalOrders <= Cardinality({o \in Oids : db[o].there})
                             /\ \A s \in Sids : \A e \in Entries : e.id = s => e.lines = ItemsOf(db, s)
    BY DEF QuietComparisonAddsUp
  <2>1. PICK db : moments = {db} /\ Quiet(db)
    BY QuietFacts
  <2>2. /\ ItemTotals \in [Items -> Nat] /\ Total(ItemTotals) = TotalRevenue
    BY <2>1, RowsAndColumns
  <2>3. SumFunction([i \in Items |-> Percent(i)]) <= 100
    <3>1. PICK p : p = [i \in Items |-> Percent(i)]
      OBVIOUS
    <3>2. PICK t : t = ItemTotals
      OBVIOUS
    <3>3. PICK r \in Nat : r = TotalRevenue
      BY <2>1, RowsAndColumns
    <3>4. \A i \in Items : p[i] \in Nat /\ t[i] \in Nat /\ p[i] * r <= 100 * t[i]
      BY <2>1, <2>2, <3>1, <3>2, <3>3, PercentFacts
    <3>5. SumFunctionOnSet(p, Items) * r <= 100 * SumFunctionOnSet(t, Items)
      BY <3>4, SharesBounded
    <3>6. SumFunctionOnSet(t, Items) = r
      BY <2>2, <3>2, <3>3 DEF Total, SumFunction
    <3>7. PICK q \in Nat : q = SumFunctionOnSet(p, Items)
      BY <3>4, SumElement
    <3>8. SumFunction([i \in Items |-> Percent(i)]) = q
      BY <3>1, <3>7 DEF SumFunction
    <3>9. CASE r > 0
      <4>1. q * r <= 100 * r
        BY <3>5, <3>6, <3>7
      <4>2. q <= 100
        BY <4>1, <3>9
      <4> QED BY <3>8, <4>2
    <3>10. CASE r = 0
      <4>1. \A i \in Items : p[i] = 0
        BY <3>1, <3>3, <3>10 DEF Percent
      <4>2. q = 0
        BY <3>7, <4>1, SumZero
      <4> QED BY <3>8, <4>2
    <3> QED BY <3>9, <3>10
  <2>4. ASSUME \A m, n \in DOMAIN report.said : report.said[m].id = report.said[n].id => m = n
        PROVE  TotalOrders <= Cardinality({o \in Oids : db[o].there})
    BY <2>1, <2>4, OrdersCountedOnce
  <2>5. \A s \in Sids : \A e \in Entries : e.id = s => e.lines = ItemsOf(db, s)
    BY <2>1 DEF Quiet, Entries
  <2> QED BY <2>1, <2>2, <2>3, <2>4, <2>5
<1> QED BY <1>1, Invariance, PTL
================================================================================
