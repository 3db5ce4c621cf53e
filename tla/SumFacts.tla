------------------------------ MODULE SumFacts ------------------------------
(***************************************************************************)
(* What the proofs of this project need to know about sums over finite      *)
(* sets and about multiples of cardinalities.                               *)
(*                                                                          *)
(* A sum is a fold, that is a function on all subsets defined by            *)
(* recursion: SumsExist builds it size by size, and the other facts look at *)
(* a smallest set for which they would fail.                                *)
(***************************************************************************)
EXTENDS Integers, FiniteSets, Functions, FiniteSetTheorems,
        WellFoundedInduction, TLAPS

-----------------------------------------------------------------------------
(* Sums.                                                                     *)

\* The member that the fold takes next, and the entry of s in a table of sums
Some(s) == CHOOSE x \in s : TRUE
Entry(f, g, s) == IF s = {} THEN 0 ELSE f[Some(s)] + g[s \ {Some(s)}]
Sums(f, S, g) == g = [s \in SUBSET S |-> Entry(f, g, s)]

\* The fold is the last entry of a table of the sums of all subsets.
LEMMA SumIsEntry ==
  ASSUME NEW f, NEW S
  PROVE  SumFunctionOnSet(f, S) = (CHOOSE g : Sums(f, S, g))[S]
BY DEF SumFunctionOnSet, FoldFunctionOnSet, MapThenFoldSet, Sums, Entry,
       Some

\* A set of naturals has a least member.
LEMMA Least ==
  ASSUME NEW T \in SUBSET Nat, T # {}
  PROVE  \E n \in T : \A k \in T : n <= k
<1>1. PICK n \in T : \A k \in T : ~(<<k, n>> \in OpToRel(<, Nat))
  BY NatLessThanWellFounded, WFMin
<1>2. \A k \in T : <<k, n>> \in Nat \X Nat
  OBVIOUS
<1>3. \A k \in T : ~(k < n)
  BY <1>1, <1>2 DEF OpToRel
<1> QED BY <1>3

\* Among subsets of a finite set there is one that is in B, and is not when a
\* member is taken away.
LEMMA SmallestSubset ==
  ASSUME NEW S, IsFiniteSet(S), NEW B \in SUBSET SUBSET S, B # {}
  PROVE  \E s \in B : \A x \in s : s \ {x} \notin B
<1> DEFINE T == {Cardinality(s) : s \in B}
<1>1. \A s \in B : IsFiniteSet(s) /\ Cardinality(s) \in Nat
  BY FS_Subset, FS_CardinalityType
<1>2. PICK n \in T : \A k \in T : n <= k
  <2>1. T \in SUBSET Nat /\ T # {}
    BY <1>1
  <2> HIDE DEF T
  <2> QED BY <2>1, Least
<1>3. PICK s \in B : Cardinality(s) = n
  OBVIOUS
<1>4. ASSUME NEW x \in s, s \ {x} \in B PROVE FALSE
  <2>1. Cardinality(s \ {x}) = Cardinality(s) - 1
    BY <1>1, FS_RemoveElement
  <2> QED BY <1>1, <1>2, <1>3, <1>4, <2>1
<1> QED BY <1>3, <1>4

\* Such a table exists: it is built for the subsets of size 0, 1, 2, ...
LEMMA SumsExist ==
  ASSUME NEW S, IsFiniteSet(S), NEW f
  PROVE  \E g : Sums(f, S, g)
<1> DEFINE Upto(g, n) == /\ g = [s \in SUBSET S |-> g[s]]
                         /\ \A s \in SUBSET S :
                              Cardinality(s) <= n => g[s] = Entry(f, g, s)
           B == {n \in Nat : ~ \E g : Upto(g, n)}
<1>0. \A s \in SUBSET S : /\ IsFiniteSet(s) /\ Cardinality(s) \in Nat
                           /\ Cardinality(s) <= Cardinality(S)
  BY FS_Subset, FS_CardinalityType
<1>1. B = {}
  <2> SUFFICES ASSUME B # {} PROVE FALSE
    OBVIOUS
  <2>1. PICK n \in B : \A k \in B : n <= k
    <3> B \in SUBSET Nat
      OBVIOUS
    <3> HIDE DEF B
    <3> QED BY Least
  <2>2. CASE n = 0
    <3> DEFINE g == [s \in SUBSET S |-> 0]
    <3>1. ASSUME NEW s \in SUBSET S, Cardinality(s) <= 0
          PROVE  g[s] = Entry(f, g, s)
      <4>1. s = {}
        BY <1>0, <3>1, FS_EmptySet
      <4> QED BY <4>1 DEF Entry
    <3>2. Upto(g, 0)
      BY <3>1
    <3> QED BY <2>2, <3>2
  <2>3. CASE n # 0
    <3>1. n \in Nat /\ n - 1 \in Nat
      BY <2>3
    <3>a. n - 1 \notin B
      <4> HIDE DEF B
      <4> QED BY <2>1, <3>1
    <3>2. PICK g : Upto(g, n - 1)
      BY <3>1, <3>a
    <3> DEFINE h == [s \in SUBSET S |->
                      IF Cardinality(s) <= n - 1 THEN g[s] ELSE Entry(f, g, s)]
    <3>3. ASSUME NEW s \in SUBSET S, Cardinality(s) <= n
          PROVE  h[s] = Entry(f, h, s)
      <4>1. CASE s = {}
        <5>1. Cardinality(s) <= n - 1
          BY <3>1, <4>1, FS_EmptySet
        <5> QED BY <4>1, <5>1, <3>2 DEF Entry
      <4>2. CASE s # {}
        <5> DEFINE x == Some(s)
        <5>1. x \in s
          BY <4>2 DEF Some
        <5>2. s \ {x} \in SUBSET S /\ Cardinality(s \ {x}) = Cardinality(s) - 1
          BY <1>0, <5>1, FS_RemoveElement
        <5>3. Cardinality(s \ {x}) <= n - 1
          BY <1>0, <3>1, <3>3, <5>2
        <5>4. h[s \ {x}] = g[s \ {x}]
          BY <5>2, <5>3
        <5>5. Entry(f, h, s) = Entry(f, g, s)
          BY <5>4 DEF Entry
        <5>6. h[s] = Entry(f, g, s)
          BY <3>2
        <5> QED BY <5>5, <5>6
      <4> QED BY <4>1, <4>2
    <3>4. h = [s \in SUBSET S |-> h[s]]
      OBVIOUS
    <3>5. Upto(h, n)
      BY <3>3, <3>4
    <3> QED BY <3>5
  <2> QED BY <2>2, <2>3
<1>2. Cardinality(S) \in Nat
  BY FS_CardinalityType
<1>3. PICK g : Upto(g, Cardinality(S))
  BY <1>1, <1>2
<1>4. \A s \in SUBSET S : g[s] = Entry(f, g, s)
  BY <1>0, <1>3
<1>5. g = [s \in SUBSET S |-> Entry(f, g, s)]
  BY <1>3, <1>4
<1> QED BY <1>5 DEF Sums

\* So the sum is the last entry of one.
LEMMA SumIs ==
  ASSUME NEW S, IsFiniteSet(S), NEW f
  PROVE  \E g : Sums(f, S, g) /\ SumFunctionOnSet(f, S) = g[S]
BY SumsExist, SumIsEntry

\* What a table says of a subset
LEMMA Entries ==
  ASSUME NEW S, NEW f, NEW g, Sums(f, S, g), NEW s \in SUBSET S
  PROVE  /\ s = {} => g[s] = 0
         /\ s # {} => Some(s) \in s /\ g[s] = f[Some(s)] + g[s \ {Some(s)}]
<1>1. g[s] = Entry(f, g, s)
  BY DEF Sums
<1>2. s # {} => Some(s) \in s
  BY DEF Some
<1> QED BY <1>1, <1>2 DEF Entry

\* Two tables agree where the functions do.
Agree(f, h, U) == \A x \in U : f[x] = h[x]

LEMMA EntriesSame ==
  ASSUME NEW S, NEW T, NEW U, IsFiniteSet(U), U \subseteq S, U \subseteq T,
         NEW f, NEW h, NEW g, NEW k, Sums(f, S, g), Sums(h, T, k),
         Agree(f, h, U)
  PROVE  g[U] = k[U]
<1> USE DEF Agree
<1> DEFINE B == {s \in SUBSET U : g[s] # k[s]}
<1>1. B = {}
  <2> SUFFICES ASSUME B # {} PROVE FALSE
    OBVIOUS
  <2>1. PICK s \in B : \A x \in s : s \ {x} \notin B
    <3> B \in SUBSET SUBSET U
      OBVIOUS
    <3> HIDE DEF B
    <3> QED BY SmallestSubset
  <2>2. s \in SUBSET S /\ s \in SUBSET T /\ s \in SUBSET U
    OBVIOUS
  <2>3. s # {}
    <3>1. g[s] = Entry(f, g, s) /\ k[s] = Entry(h, k, s)
      BY <2>2 DEF Sums
    <3> QED BY <3>1 DEF Entry
  <2>4. /\ Some(s) \in s /\ g[s] = f[Some(s)] + g[s \ {Some(s)}]
        /\ k[s] = h[Some(s)] + k[s \ {Some(s)}]
    BY <2>2, <2>3, Entries
  <2>5. s \ {Some(s)} \notin B
    BY <2>1, <2>4
  <2>6. g[s \ {Some(s)}] = k[s \ {Some(s)}]
    BY <2>2, <2>5
  <2> QED BY <2>2, <2>4, <2>6
<1> QED BY <1>1

\* Sums of integers are integers, and of naturals are naturals.
LEMMA EntriesNumbers ==
  ASSUME NEW S, IsFiniteSet(S), NEW f, NEW g, Sums(f, S, g),
         \A x \in S : f[x] \in Int
  PROVE  /\ \A s \in SUBSET S : g[s] \in Int
         /\ (\A x \in S : f[x] \in Nat) => \A s \in SUBSET S : g[s] \in Nat
<1>1. \A s \in SUBSET S : g[s] \in Int
  <2> DEFINE B == {s \in SUBSET S : g[s] \notin Int}
  <2> SUFFICES ASSUME B # {} PROVE FALSE
    OBVIOUS
  <2>1. PICK s \in B : \A x \in s : s \ {x} \notin B
    <3> B \in SUBSET SUBSET S
      OBVIOUS
    <3> HIDE DEF B
    <3> QED BY SmallestSubset
  <2>2. CASE s = {}
    <3>1. g[s] = 0
      BY <2>2, Entries
    <3> QED BY <2>2, <3>1
  <2>3. CASE s # {}
    <3>1. Some(s) \in s /\ g[s] = f[Some(s)] + g[s \ {Some(s)}]
      BY <2>3, Entries
    <3>2. g[s \ {Some(s)}] \in Int
      BY <2>1, <3>1
    <3> QED BY <3>1, <3>2
  <2> QED BY <2>2, <2>3
<1>2. ASSUME \A x \in S : f[x] \in Nat
      PROVE  \A s \in SUBSET S : g[s] \in Nat
  <2> DEFINE B == {s \in SUBSET S : g[s] \notin Nat}
  <2> SUFFICES ASSUME B # {} PROVE FALSE
    OBVIOUS
  <2>1. PICK s \in B : \A x \in s : s \ {x} \notin B
    <3> B \in SUBSET SUBSET S
      OBVIOUS
    <3> HIDE DEF B
    <3> QED BY SmallestSubset
  <2>2. CASE s = {}
    <3>1. g[s] = 0
      BY <2>2, Entries
    <3> QED BY <2>2, <3>1
  <2>3. CASE s # {}
    <3>1. Some(s) \in s /\ g[s] = f[Some(s)] + g[s \ {Some(s)}]
      BY <2>3, Entries
    <3>2. g[s \ {Some(s)}] \in Nat
      BY <2>1, <3>1
    <3> QED BY <1>2, <3>1, <3>2
  <2> QED BY <2>2, <2>3
<1> QED BY <1>1, <1>2

\* Which member is taken first does not matter.
LEMMA EntriesAny ==
  ASSUME NEW S, IsFiniteSet(S), NEW f, NEW g, Sums(f, S, g),
         \A x \in S : f[x] \in Int
  PROVE  \A s \in SUBSET S : \A x \in s : g[s] = f[x] + g[s \ {x}]
<1> DEFINE B == {s \in SUBSET S : \E x \in s : g[s] # f[x] + g[s \ {x}]}
<1> SUFFICES ASSUME B # {} PROVE FALSE
  OBVIOUS
<1>1. PICK s \in B : \A x \in s : s \ {x} \notin B
  <2> B \in SUBSET SUBSET S
    OBVIOUS
  <2> HIDE DEF B
  <2> QED BY SmallestSubset
<1>2. PICK x \in s : g[s] # f[x] + g[s \ {x}]
  OBVIOUS
<1> DEFINE y == Some(s)
<1>3. y \in s /\ g[s] = f[y] + g[s \ {y}]
  BY Entries
<1>4. x # y
  BY <1>2, <1>3
<1>5. g[s \ {y}] = f[x] + g[(s \ {y}) \ {x}]
  BY <1>1, <1>3, <1>4
<1>6. g[s \ {x}] = f[y] + g[(s \ {x}) \ {y}]
  BY <1>1, <1>3, <1>4
<1>7. (s \ {y}) \ {x} = (s \ {x}) \ {y}
  OBVIOUS
<1>8. f[x] \in Int /\ f[y] \in Int /\ g[(s \ {x}) \ {y}] \in Int
  BY <1>3, EntriesNumbers
<1> HIDE DEF y
<1>9. g[s] = f[y] + (f[x] + g[(s \ {x}) \ {y}])
  BY <1>3, <1>5, <1>7
<1> QED BY <1>2, <1>6, <1>8, <1>9

\* The sum of nothing
LEMMA SumEmpty ==
  ASSUME NEW f
  PROVE  SumFunctionOnSet(f, {}) = 0
BY SumIs, Entries, FS_EmptySet

\* The type of a sum
LEMMA SumType ==
  ASSUME NEW S, IsFiniteSet(S), NEW f, \A x \in S : f[x] \in Int
  PROVE  /\ SumFunctionOnSet(f, S) \in Int
         /\ (\A x \in S : f[x] \in Nat) => SumFunctionOnSet(f, S) \in Nat
BY SumIs, EntriesNumbers

\* A sum sees only the members.
LEMMA SumSame ==
  ASSUME NEW S, IsFiniteSet(S), NEW f, NEW h, \A x \in S : f[x] = h[x]
  PROVE  SumFunctionOnSet(f, S) = SumFunctionOnSet(h, S)
<1>1. PICK g : Sums(f, S, g) /\ SumFunctionOnSet(f, S) = g[S]
  BY SumIs
<1>2. PICK k : Sums(h, S, k) /\ SumFunctionOnSet(h, S) = k[S]
  BY SumIs
<1>3. g[S] = k[S]
  <2>1. S \subseteq S /\ Sums(f, S, g) /\ Sums(h, S, k)
    BY <1>1, <1>2
  <2>2. Agree(f, h, S)
    BY DEF Agree
  <2> QED BY <2>1, <2>2, EntriesSame
<1> QED BY <1>1, <1>2, <1>3

\* A member taken out of a sum
LEMMA SumRemove ==
  ASSUME NEW S, IsFiniteSet(S), NEW f, \A x \in S : f[x] \in Int, NEW x \in S
  PROVE  SumFunctionOnSet(f, S) = f[x] + SumFunctionOnSet(f, S \ {x})
<1>1. PICK g : Sums(f, S, g) /\ SumFunctionOnSet(f, S) = g[S]
  BY SumIs
<1>2. PICK k : Sums(f, S \ {x}, k) /\ SumFunctionOnSet(f, S \ {x}) = k[S \ {x}]
  BY SumIs, FS_RemoveElement
<1>3. g[S] = f[x] + g[S \ {x}]
  BY <1>1, EntriesAny
<1>4. g[S \ {x}] = k[S \ {x}]
  <2>1. Agree(f, f, S \ {x})
    BY DEF Agree
  <2> QED BY <1>1, <1>2, <2>1, EntriesSame, FS_RemoveElement
<1> QED BY <1>1, <1>2, <1>3, <1>4

\* A sum after one member changed
LEMMA SumChange ==
  ASSUME NEW S, IsFiniteSet(S), NEW f, NEW h,
         \A x \in S : f[x] \in Int /\ h[x] \in Int,
         NEW x \in S, \A y \in S \ {x} : f[y] = h[y]
  PROVE  SumFunctionOnSet(h, S) = SumFunctionOnSet(f, S) + h[x] - f[x]
<1>1. IsFiniteSet(S \ {x})
  BY FS_RemoveElement
<1>2. SumFunctionOnSet(f, S \ {x}) = SumFunctionOnSet(h, S \ {x})
  BY <1>1, SumSame
<1>3. /\ SumFunctionOnSet(f, S) = f[x] + SumFunctionOnSet(f, S \ {x})
      /\ SumFunctionOnSet(h, S) = h[x] + SumFunctionOnSet(h, S \ {x})
  BY SumRemove
<1>4. SumFunctionOnSet(f, S \ {x}) \in Int
  BY <1>1, SumType
<1> QED BY <1>2, <1>3, <1>4

\* A sum after one member changed, came or went
LEMMA SumStep ==
  ASSUME NEW S, NEW T, IsFiniteSet(S), IsFiniteSet(T),
         NEW f, NEW h,
         \A y \in S : f[y] \in Int, \A y \in T : h[y] \in Int,
         NEW x, S \ {x} = T \ {x}, Agree(f, h, S \ {x})
  PROVE  SumFunctionOnSet(h, T) = SumFunctionOnSet(f, S)
            + (IF x \in T THEN h[x] ELSE 0) - (IF x \in S THEN f[x] ELSE 0)
<1> DEFINE R == S \ {x}
<1>1. IsFiniteSet(R)
  BY FS_RemoveElement
<1>2. SumFunctionOnSet(f, R) \in Int
  BY <1>1, SumType
<1>3. SumFunctionOnSet(h, R) = SumFunctionOnSet(f, R)
  <2>1. \A y \in R : f[y] = h[y]
    BY DEF Agree
  <2> HIDE DEF R
  <2> QED BY <1>1, <2>1, SumSame
<1>4. x \in S => SumFunctionOnSet(f, S) = f[x] + SumFunctionOnSet(f, R)
  BY SumRemove
<1>5. x \notin S => S = R
  OBVIOUS
<1>6. x \in T => SumFunctionOnSet(h, T) = h[x] + SumFunctionOnSet(h, R)
  <2>1. R = T \ {x}
    OBVIOUS
  <2> QED BY <2>1, SumRemove
<1>7. x \notin T => T = R
  OBVIOUS
<1>8. SumFunctionOnSet(f, S)
        = SumFunctionOnSet(f, R) + (IF x \in S THEN f[x] ELSE 0)
  <2>1. CASE x \in S
    <3>1. f[x] \in Int
      BY <2>1
    <3> QED BY <1>2, <1>4, <2>1, <3>1
  <2>2. CASE x \notin S
    <3>1. SumFunctionOnSet(f, S) = SumFunctionOnSet(f, R)
      BY <1>5, <2>2
    <3> QED BY <1>2, <2>2, <3>1
  <2> QED BY <2>1, <2>2
<1>9. SumFunctionOnSet(h, T)
        = SumFunctionOnSet(f, R) + (IF x \in T THEN h[x] ELSE 0)
  <2>1. CASE x \in T
    <3>1. h[x] \in Int
      BY <2>1
    <3> QED BY <1>2, <1>3, <1>6, <2>1, <3>1
  <2>2. CASE x \notin T
    <3>1. SumFunctionOnSet(h, T) = SumFunctionOnSet(f, R)
      BY <1>3, <1>7, <2>2
    <3> QED BY <1>2, <2>2, <3>1
  <2> QED BY <2>1, <2>2
<1>10. (x \in S => f[x] \in Int) /\ (x \in T => h[x] \in Int)
  OBVIOUS
<1> HIDE DEF R
<1> QED BY <1>2, <1>8, <1>9, <1>10

\* The sum of equal numbers
LEMMA SumConstant ==
  ASSUME NEW S, IsFiniteSet(S), NEW c \in Int
  PROVE  SumFunctionOnSet([x \in S |-> c], S) = c * Cardinality(S)
<1> DEFINE f == [x \in S |-> c]
           B == {s \in SUBSET S : SumFunctionOnSet(f, s) # c * Cardinality(s)}
<1> SUFFICES ASSUME B # {} PROVE FALSE
  OBVIOUS
<1>1. PICK s \in B : \A x \in s : s \ {x} \notin B
  <2> B \in SUBSET SUBSET S
    OBVIOUS
  <2> HIDE DEF B
  <2> QED BY SmallestSubset
<1>2. s \subseteq S /\ SumFunctionOnSet(f, s) # c * Cardinality(s)
  OBVIOUS
<1>3. IsFiniteSet(s) /\ Cardinality(s) \in Nat
  BY <1>2, FS_Subset, FS_CardinalityType
<1>4. PICK x \in s : TRUE
  <2>1. s # {}
    BY <1>2, SumEmpty, FS_EmptySet
  <2> QED BY <2>1
<1>5. s \ {x} \subseteq S /\ s \ {x} \notin B
  BY <1>1, <1>2, <1>4
<1>6. SumFunctionOnSet(f, s \ {x}) = c * Cardinality(s \ {x})
  BY <1>5
<1>7. \A y \in s : f[y] = c
  BY <1>2
<1> HIDE DEF f, B
<1>8. SumFunctionOnSet(f, s) = f[x] + SumFunctionOnSet(f, s \ {x})
  BY <1>3, <1>4, <1>7, SumRemove
<1>9. Cardinality(s \ {x}) = Cardinality(s) - 1
  BY <1>3, <1>4, FS_RemoveElement
<1>10. c + c * (Cardinality(s) - 1) = c * Cardinality(s)
  BY <1>3
<1> QED BY <1>2, <1>4, <1>6, <1>7, <1>8, <1>9, <1>10

LEMMA SumUniform ==
  ASSUME NEW S, IsFiniteSet(S), NEW c \in Int, NEW f, \A x \in S : f[x] = c
  PROVE  SumFunctionOnSet(f, S) = c * Cardinality(S)
<1> DEFINE h == [x \in S |-> c]
<1>1. SumFunctionOnSet(h, S) = c * Cardinality(S)
  BY SumConstant
<1>2. \A x \in S : f[x] = h[x]
  OBVIOUS
<1> HIDE DEF h
<1> QED BY <1>1, <1>2, SumSame

\* A sum grows with its entries.
LEMMA SumMonotone ==
  ASSUME NEW S, IsFiniteSet(S), NEW f, NEW h,
         \A x \in S : f[x] \in Int /\ h[x] \in Int /\ f[x] <= h[x]
  PROVE  SumFunctionOnSet(f, S) <= SumFunctionOnSet(h, S)
<1> DEFINE B == {s \in SUBSET S :
                   ~(SumFunctionOnSet(f, s) <= SumFunctionOnSet(h, s))}
<1> SUFFICES ASSUME B # {} PROVE FALSE
  OBVIOUS
<1>1. PICK s \in B : \A x \in s : s \ {x} \notin B
  <2> B \in SUBSET SUBSET S
    OBVIOUS
  <2> HIDE DEF B
  <2> QED BY SmallestSubset
<1>2. s \subseteq S /\ ~(SumFunctionOnSet(f, s) <= SumFunctionOnSet(h, s))
  OBVIOUS
<1>3. IsFiniteSet(s)
  BY <1>2, FS_Subset
<1>4. PICK x \in s : TRUE
  <2>1. s # {}
    BY <1>2, SumEmpty
  <2> QED BY <2>1
<1>5. s \ {x} \subseteq S /\ s \ {x} \notin B
  BY <1>1, <1>2, <1>4
<1>6. SumFunctionOnSet(f, s \ {x}) <= SumFunctionOnSet(h, s \ {x})
  BY <1>5
<1> HIDE DEF B
<1>7. /\ SumFunctionOnSet(f, s) = f[x] + SumFunctionOnSet(f, s \ {x})
      /\ SumFunctionOnSet(h, s) = h[x] + SumFunctionOnSet(h, s \ {x})
  BY <1>2, <1>3, <1>4, SumRemove
<1>8. /\ SumFunctionOnSet(f, s \ {x}) \in Int
      /\ SumFunctionOnSet(h, s \ {x}) \in Int
  <2> DEFINE r == s \ {x}
  <2>1. IsFiniteSet(r) /\ r \subseteq S
    BY <1>2, <1>5, FS_Subset
  <2>2. \A y \in r : f[y] \in Int /\ h[y] \in Int
    BY <2>1
  <2> HIDE DEF r
  <2>3. SumFunctionOnSet(f, r) \in Int /\ SumFunctionOnSet(h, r) \in Int
    BY <2>1, <2>2, SumType
  <2> QED BY <2>3 DEF r
<1> QED BY <1>2, <1>4, <1>6, <1>7, <1>8

\* What no entry exceeds, the sum does not exceed as often as there are entries.
LEMMA SumAtMost ==
  ASSUME NEW S, IsFiniteSet(S), NEW c \in Int, NEW f,
         \A x \in S : f[x] \in Int /\ f[x] <= c
  PROVE  SumFunctionOnSet(f, S) <= c * Cardinality(S)
<1> DEFINE h == [x \in S |-> c]
<1>1. SumFunctionOnSet(h, S) = c * Cardinality(S)
  BY SumConstant
<1>2. \A x \in S : f[x] \in Int /\ h[x] \in Int /\ f[x] <= h[x]
  OBVIOUS
<1> HIDE DEF h
<1>3. SumFunctionOnSet(f, S) <= SumFunctionOnSet(h, S)
  BY <1>2, SumMonotone
<1> QED BY <1>1, <1>3

\* Part of a sum of naturals is no more than all of it.
LEMMA SumSubset ==
  ASSUME NEW S, IsFiniteSet(S), NEW f, \A x \in S : f[x] \in Nat,
         NEW T \in SUBSET S
  PROVE  SumFunctionOnSet(f, T) <= SumFunctionOnSet(f, S)
<1> DEFINE B == {s \in SUBSET S :
                   ~(SumFunctionOnSet(f, s \cap T) <= SumFunctionOnSet(f, s))}
<1>0. S \cap T = T
  OBVIOUS
<1> SUFFICES ASSUME B # {} PROVE FALSE
  BY <1>0
<1>1. PICK s \in B : \A x \in s : s \ {x} \notin B
  <2> B \in SUBSET SUBSET S
    OBVIOUS
  <2> HIDE DEF B
  <2> QED BY SmallestSubset
<1>2. s \subseteq S /\ ~(SumFunctionOnSet(f, s \cap T) <= SumFunctionOnSet(f, s))
  OBVIOUS
<1>3. PICK x \in s : TRUE
  <2>1. s = {} => s \cap T = {}
    OBVIOUS
  <2>2. s # {}
    BY <1>2, <2>1, SumEmpty
  <2> QED BY <2>2
<1> DEFINE r == s \ {x}
           p == s \cap T
           q == r \cap T
<1>4. r \subseteq S /\ r \notin B
  BY <1>1, <1>2, <1>3
<1>5. SumFunctionOnSet(f, q) <= SumFunctionOnSet(f, r)
  BY <1>4
<1>6. /\ IsFiniteSet(s) /\ IsFiniteSet(r) /\ IsFiniteSet(p) /\ IsFiniteSet(q)
      /\ p \subseteq S /\ q \subseteq S /\ x \in S
  <2>1. p \subseteq S /\ q \subseteq S
    BY <1>2
  <2> HIDE DEF p, q, r, B
  <2> QED BY <1>2, <1>3, <1>4, <2>1, FS_Subset
<1>7. /\ x \in T => x \in p /\ q = p \ {x}
      /\ x \notin T => q = p
  BY <1>3
<1> HIDE DEF B, p, q
<1>8. SumFunctionOnSet(f, s) = f[x] + SumFunctionOnSet(f, r)
  BY <1>2, <1>3, <1>6, SumRemove
<1> HIDE DEF r
<1>9. SumFunctionOnSet(f, q) \in Int /\ SumFunctionOnSet(f, r) \in Int /\ f[x] \in Nat
  BY <1>4, <1>6, SumType
<1>10. x \in T => SumFunctionOnSet(f, p) = f[x] + SumFunctionOnSet(f, q)
  BY <1>6, <1>7, SumRemove
<1>11. ~(SumFunctionOnSet(f, p) <= SumFunctionOnSet(f, s))
  BY <1>2 DEF p
<1> QED BY <1>5, <1>7, <1>8, <1>9, <1>10, <1>11

-----------------------------------------------------------------------------
(* Multiples of a cardinality.                                               *)

\* One more member, one multiple more
LEMMA OneMore ==
  ASSUME NEW p \in Int, NEW n \in Int
  PROVE  p * (n + 1) = p * n + p /\ p * (n - 1) = p * n - p
OBVIOUS

\* A member comes
LEMMA AddOne ==
  ASSUME NEW S, IsFiniteSet(S), NEW x, x \notin S, NEW p \in Int
  PROVE  /\ IsFiniteSet(S \cup {x})
         /\ p * Cardinality(S \cup {x}) = p * Cardinality(S) + p
<1>1. /\ IsFiniteSet(S \cup {x}) /\ Cardinality(S \cup {x}) = Cardinality(S) + 1
  BY FS_AddElement
<1>2. Cardinality(S) \in Int
  BY FS_CardinalityType
<1> QED BY <1>1, <1>2, OneMore

\* A member goes
LEMMA RemoveOne ==
  ASSUME NEW S, IsFiniteSet(S), NEW x \in S, NEW p \in Int
  PROVE  /\ IsFiniteSet(S \ {x})
         /\ p * Cardinality(S \ {x}) = p * Cardinality(S) - p
         /\ p \in Nat => p * Cardinality(S \ {x}) \in Nat
<1>1. /\ IsFiniteSet(S \ {x}) /\ Cardinality(S \ {x}) = Cardinality(S) - 1
  BY FS_RemoveElement
<1>2. Cardinality(S) \in Int /\ Cardinality(S \ {x}) \in Nat
  BY <1>1, FS_CardinalityType
<1>3. ASSUME NEW n \in Nat, p \in Nat PROVE p * n \in Nat
  BY <1>3
<1> QED BY <1>1, <1>2, <1>3, OneMore

\* Multiples are integers.
LEMMA ProductInt ==
  ASSUME NEW S, IsFiniteSet(S), NEW p \in Int PROVE p * Cardinality(S) \in Int
<1>1. Cardinality(S) \in Int
  BY FS_CardinalityType
<1> QED BY <1>1

\* The integer that is its own double is its own opposite.
LEMMA MinusNothing == \A i \in Int : i + i = i => - i = i
OBVIOUS
=============================================================================
