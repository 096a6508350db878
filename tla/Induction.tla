----------------------------- MODULE Induction -----------------------------
(***************************************************************************)
(* Induction, for the provers at hand: over the naturals and over finite    *)
(* sets, with a set in the place of the predicate.  A set of naturals that  *)
(* is closed under successor misses none: those it misses up to some m      *)
(* would be mapped by n |-> n - 1 one-to-one among themselves without m.    *)
(*                                                                          *)
(* From it: what SumFunctionOnSet says of a finite set, whichever order it  *)
(* takes the elements in, and what Max says; and what may be said of        *)
(* quotients and products by a number that is not known.                    *)
(***************************************************************************)
EXTENDS Integers, Functions, FiniteSetsExt, FiniteSetTheorems, FunctionTheorems, TLAPS

\* A set with 0 and every successor is all of Nat.
LEMMA NatSetInduction ==
  ASSUME NEW S \in SUBSET Nat, 0 \in S, \A n \in S : n + 1 \in S
  PROVE  S = Nat
<1> SUFFICES ASSUME NEW m \in Nat, m \notin S
             PROVE  FALSE
  OBVIOUS
<1> DEFINE T == {n \in 0..m : n \notin S}
           f == [n \in T |-> n - 1]
<1>1. IsFiniteSet(T)
  <2>1. IsFiniteSet(0..m) /\ T \in SUBSET (0..m)
    BY FS_Interval
  <2> QED
    BY <2>1, FS_Subset
<1>2. \A n \in T : n - 1 \in T
  OBVIOUS
<1>3. f \in Injection(T, T)
  BY <1>2 DEF Injection, IsInjective
<1>4. f \in Surjection(T, T)
  BY <1>1, <1>3, FS_Injection
<1>5. m \in T
  OBVIOUS
<1>6. \E n \in T : f[n] = m
  BY <1>4, <1>5 DEF Surjection
<1> QED
  BY <1>6

\* What holds of the empty set and survives one element more holds of a finite set.
LEMMA FiniteSetInduction ==
  ASSUME NEW S, IsFiniteSet(S), NEW P \in SUBSET SUBSET S, {} \in P,
         \A T \in P, x \in S : T \cup {x} \in P
  PROVE  S \in P
<1> DEFINE A == {n \in Nat : \A T \in SUBSET S : Cardinality(T) = n => T \in P}
<1>1. 0 \in A
  BY FS_EmptySet, FS_Subset
<1>2. ASSUME NEW n \in A
      PROVE  n + 1 \in A
  <2> SUFFICES ASSUME NEW T \in SUBSET S, Cardinality(T) = n + 1
               PROVE  T \in P
    OBVIOUS
  <2>1. IsFiniteSet(T) /\ T # {}
    BY FS_Subset, FS_EmptySet
  <2>2. PICK x \in T : TRUE
    BY <2>1
  <2>3. Cardinality(T \ {x}) = n
    <3>1. Cardinality(T \ {x}) = Cardinality(T) - 1
      BY <2>1, FS_RemoveElement
    <3> QED
      BY <3>1
  <2>4. T \ {x} \in P /\ T = (T \ {x}) \cup {x}
    BY <2>3
  <2> QED
    BY <2>4
<1> HIDE DEF A
<1>3. A = Nat
  BY <1>1, <1>2, NatSetInduction DEF A
<1> QED
  BY <1>3, FS_CardinalityType DEF A

-----------------------------------------------------------------------------
(* Sums.  SumTable is the function the library's definition chooses.        *)

Chosen(s) == CHOOSE x \in s : TRUE
SumStep(f, g, s) == IF s = {} THEN 0 ELSE f[Chosen(s)] + g[s \ {Chosen(s)}]
SumTable(f, S) == CHOOSE iter : iter = [s \in SUBSET S |->
   IF s = {} THEN 0 ELSE f[CHOOSE x \in s : TRUE] + iter[s \ {CHOOSE x \in s : TRUE}]]

\* The library's sum is a table of the sums of the subsets, looked up at the set.
LEMMA SumUnfold == ASSUME NEW f, NEW S PROVE SumFunctionOnSet(f, S) = SumTable(f, S)[S]
  BY Zenon DEF SumFunctionOnSet, FoldFunctionOnSet, MapThenFoldSet, SumTable

\* CHOOSE takes an element of the set.
LEMMA ChosenIn == ASSUME NEW s, s # {} PROVE Chosen(s) \in s
  BY DEF Chosen

\* g is the table of f's sums.
Sums(f, S, g) == g \in [SUBSET S -> Int] /\ \A s \in SUBSET S : g[s] = SumStep(f, g, s)

\* The table exists: by induction over the size of the subsets.
LEMMA SumExists ==
  ASSUME NEW S, IsFiniteSet(S), NEW f, \A x \in S : f[x] \in Int
  PROVE  \E g : Sums(f, S, g)
<1> DEFINE K(n) == {s \in SUBSET S : Cardinality(s) <= n}
           A == {n \in Nat : \E g \in [K(n) -> Int] : \A s \in K(n) : g[s] = SumStep(f, g, s)}
<1>0. \A s \in SUBSET S : IsFiniteSet(s) /\ Cardinality(s) \in Nat /\ (Cardinality(s) = 0 <=> s = {})
  BY FS_Subset, FS_CardinalityType, FS_EmptySet
<1>1. 0 \in A
  <2> DEFINE g == [s \in K(0) |-> 0]
  <2>1. \A s \in K(0) : s = {}
    BY <1>0
  <2>2. g \in [K(0) -> Int] /\ \A s \in K(0) : g[s] = SumStep(f, g, s)
    BY <2>1 DEF SumStep
  <2> QED
    BY <2>2
<1>2. ASSUME NEW n \in A
      PROVE  n + 1 \in A
  <2>1. PICK g \in [K(n) -> Int] : \A s \in K(n) : g[s] = SumStep(f, g, s)
    OBVIOUS
  <2> DEFINE h == [s \in K(n + 1) |-> IF s \in K(n) THEN g[s] ELSE SumStep(f, g, s)]
  <2>2. ASSUME NEW s \in K(n + 1), s # {}
        PROVE  /\ s \ {Chosen(s)} \in K(n) /\ Chosen(s) \in S
    <3>1. Chosen(s) \in s
      BY <2>2, ChosenIn
    <3>2. Cardinality(s \ {Chosen(s)}) = Cardinality(s) - 1
      BY <1>0, <3>1, FS_RemoveElement
    <3> QED
      BY <1>0, <3>1, <3>2
  <2>3. K(n) \subseteq K(n + 1)
    BY <1>0
  <2>4. \A s \in K(n + 1) : h[s] = SumStep(f, g, s) /\ SumStep(f, g, s) \in Int
    BY <2>1, <2>2 DEF SumStep
  <2>5. \A s \in K(n) : h[s] = g[s]
    BY <2>3
  <2>7. h \in [K(n + 1) -> Int]
    BY <2>4
  <2> HIDE DEF h, K
  <2>6. ASSUME NEW s \in K(n + 1) PROVE SumStep(f, h, s) = SumStep(f, g, s)
    <3>1. CASE s = {}
      BY <3>1 DEF SumStep
    <3>2. CASE s # {}
      <4>1. s \ {Chosen(s)} \in K(n)
        BY <2>2, <3>2
      <4>2. h[s \ {Chosen(s)}] = g[s \ {Chosen(s)}]
        BY <2>5, <4>1
      <4> QED
        BY <3>2, <4>2 DEF SumStep
    <3> QED
      BY <3>1, <3>2
  <2>8. \A s \in K(n + 1) : h[s] = SumStep(f, h, s)
    BY <2>4, <2>6
  <2>9. n + 1 \in Nat
    OBVIOUS
  <2> QED
    BY <2>7, <2>8, <2>9
<1> HIDE DEF A
<1>3. A = Nat
  BY <1>1, <1>2, NatSetInduction DEF A
<1>4. PICK g \in [K(Cardinality(S)) -> Int] : \A s \in K(Cardinality(S)) : g[s] = SumStep(f, g, s)
  BY <1>0, <1>3 DEF A
<1>5. K(Cardinality(S)) = SUBSET S
  BY FS_Subset
<1> HIDE DEF K
<1> QED
  BY <1>4, <1>5 DEF Sums

\* And there is one only, so a set's entry is the same in every table that has it.
LEMMA SumUnique ==
  ASSUME NEW S, IsFiniteSet(S), NEW f, NEW g, Sums(f, S, g), NEW T \in SUBSET S,
         NEW h, \A s \in SUBSET T : h[s] = SumStep(f, h, s)
  PROVE  h[T] = g[T]
<1> DEFINE A == {n \in Nat : \A s \in SUBSET T : Cardinality(s) = n => h[s] = g[s]}
<1>0. \A s \in SUBSET T : s \in SUBSET S /\ IsFiniteSet(s) /\ Cardinality(s) \in Nat /\ (Cardinality(s) = 0 <=> s = {})
  BY FS_Subset, FS_CardinalityType, FS_EmptySet
<1>1. 0 \in A
  BY <1>0 DEF Sums, SumStep
<1>2. ASSUME NEW n \in A
      PROVE  n + 1 \in A
  <2> SUFFICES ASSUME NEW s \in SUBSET T, Cardinality(s) = n + 1
               PROVE  h[s] = g[s]
    OBVIOUS
  <2>1. s # {} /\ IsFiniteSet(s)
    BY <1>0
  <2>2. Chosen(s) \in s
    BY <2>1, ChosenIn
  <2>3. Cardinality(s \ {Chosen(s)}) = n
    <3>1. Cardinality(s \ {Chosen(s)}) = Cardinality(s) - 1
      BY <2>1, <2>2, FS_RemoveElement
    <3> QED
      BY <3>1
  <2>4. h[s \ {Chosen(s)}] = g[s \ {Chosen(s)}]
    BY <2>3
  <2> QED
    BY <1>0, <2>1, <2>4 DEF Sums, SumStep
<1> HIDE DEF A
<1>3. A = Nat
  BY <1>1, <1>2, NatSetInduction DEF A
<1> QED
  BY <1>0, <1>3 DEF A

\* What CHOOSE takes is that table.
LEMMA SumIs ==
  ASSUME NEW S, IsFiniteSet(S), NEW f, \A x \in S : f[x] \in Int
  PROVE  Sums(f, S, SumTable(f, S))
<1>1. PICK g : Sums(f, S, g)
  BY SumExists
<1>2. g = [s \in SUBSET S |->
   IF s = {} THEN 0 ELSE f[CHOOSE x \in s : TRUE] + g[s \ {CHOOSE x \in s : TRUE}]]
  BY <1>1 DEF Sums, SumStep, Chosen
<1>3. SumTable(f, S) = [s \in SUBSET S |->
   IF s = {} THEN 0 ELSE f[CHOOSE x \in s : TRUE] + SumTable(f, S)[s \ {CHOOSE x \in s : TRUE}]]
  BY <1>2, Zenon DEF SumTable
<1>4. \A s \in SUBSET S : SumTable(f, S)[s] = SumStep(f, SumTable(f, S), s)
  BY <1>3, Zenon DEF SumStep, Chosen
<1>5. ASSUME NEW s \in SUBSET S PROVE SumTable(f, S)[s] = g[s]
  BY <1>1, <1>4, SumUnique
<1>6. g = [s \in SUBSET S |-> g[s]]
  BY <1>1 DEF Sums
<1>7. DOMAIN SumTable(f, S) = SUBSET S /\ SumTable(f, S) = [s \in SUBSET S |-> SumTable(f, S)[s]]
  BY <1>3, Zenon
<1>8. SumTable(f, S) = g
  BY <1>5, <1>6, <1>7
<1> QED
  BY <1>1, <1>8

-----------------------------------------------------------------------------
(* What a sum is                                                            *)

\* Nothing adds up to 0.
LEMMA SumEmpty ==
  ASSUME NEW f
  PROVE  SumFunctionOnSet(f, {}) = 0
<1>1. Sums(f, {}, SumTable(f, {}))
  BY FS_EmptySet, SumIs
<1> QED
  BY <1>1, SumUnfold DEF Sums, SumStep

\* A sum of integers is one.
LEMMA SumType ==
  ASSUME NEW S, IsFiniteSet(S), NEW f, \A x \in S : f[x] \in Int
  PROVE  SumFunctionOnSet(f, S) \in Int
  BY SumIs, SumUnfold DEF Sums

\* The definition, once unfolded.
LEMMA SumPick ==
  ASSUME NEW S, IsFiniteSet(S), NEW f, \A x \in S : f[x] \in Int, S # {}
  PROVE  /\ Chosen(S) \in S
         /\ SumFunctionOnSet(f, S) = f[Chosen(S)] + SumFunctionOnSet(f, S \ {Chosen(S)})
<1> DEFINE T == S \ {Chosen(S)}
<1>1. Chosen(S) \in S
  BY ChosenIn
<1>2. T \in SUBSET S /\ IsFiniteSet(T)
  BY FS_Subset
<1>3. Sums(f, S, SumTable(f, S)) /\ Sums(f, T, SumTable(f, T))
  BY <1>2, SumIs
<1>4. SumTable(f, T)[T] = SumTable(f, S)[T]
  <2> HIDE DEF T
  <2>1. \A s \in SUBSET T : SumTable(f, T)[s] = SumStep(f, SumTable(f, T), s)
    BY <1>3 DEF Sums
  <2> QED
    BY <1>2, <1>3, <2>1, SumUnique
<1>5. SumTable(f, S)[S] = f[Chosen(S)] + SumTable(f, S)[T]
  BY <1>3 DEF Sums, SumStep
<1> QED
  BY <1>1, <1>4, <1>5, SumUnfold

\* Whichever element is taken out first.
LEMMA SumRemove ==
  ASSUME NEW S, IsFiniteSet(S), NEW f, \A x \in S : f[x] \in Int, NEW x \in S
  PROVE  SumFunctionOnSet(f, S) = f[x] + SumFunctionOnSet(f, S \ {x})
<1> DEFINE Sum(T) == SumFunctionOnSet(f, T)
           A == {n \in Nat : \A T \in SUBSET S : Cardinality(T) = n =>
                                \A y \in T : Sum(T) = f[y] + Sum(T \ {y})}
<1>0. \A T \in SUBSET S : /\ IsFiniteSet(T) /\ Cardinality(T) \in Nat
                          /\ (Cardinality(T) = 0 <=> T = {}) /\ Sum(T) \in Int
                          /\ \A y \in T : f[y] \in Int
  BY FS_Subset, FS_CardinalityType, FS_EmptySet, SumType
<1>p. \A T \in SUBSET S : T # {} => Chosen(T) \in T /\ Sum(T) = f[Chosen(T)] + Sum(T \ {Chosen(T)})
  BY <1>0, SumPick
<1> HIDE DEF Sum
<1>1. 0 \in A
  BY <1>0
<1>2. ASSUME NEW n \in A
      PROVE  n + 1 \in A
  <2> SUFFICES ASSUME NEW T \in SUBSET S, Cardinality(T) = n + 1, NEW y \in T
               PROVE  Sum(T) = f[y] + Sum(T \ {y})
    OBVIOUS
  <2> DEFINE p == Chosen(T)
             U == (T \ {p}) \ {y}
  <2>1. p \in T /\ Sum(T) = f[p] + Sum(T \ {p})
    BY <1>p
  <2>2. CASE y = p
    BY <2>1, <2>2
  <2>3. CASE y # p
    <3>1. Cardinality(T \ {p}) = n /\ Cardinality(T \ {y}) = n
      <4>1. Cardinality(T \ {p}) = Cardinality(T) - 1 /\ Cardinality(T \ {y}) = Cardinality(T) - 1
        BY <1>0, <2>1, FS_RemoveElement
      <4> QED
        BY <4>1
    <3>2. y \in T \ {p} /\ p \in T \ {y} /\ (T \ {y}) \ {p} = U
      BY <2>1, <2>3
    <3> HIDE DEF p, U
    <3>3. Sum(T \ {p}) = f[y] + Sum(U)
      BY <3>1, <3>2 DEF U
    <3>4. Sum(T \ {y}) = f[p] + Sum(U)
      BY <3>1, <3>2
    <3>5. f[p] \in Int /\ f[y] \in Int /\ Sum(U) \in Int
      BY <1>0, <2>1 DEF U
    <3> QED
      BY <2>1, <3>3, <3>4, <3>5
  <2> QED
    BY <2>2, <2>3
<1> HIDE DEF A
<1>3. A = Nat
  BY <1>1, <1>2, NatSetInduction DEF A
<1>4. Cardinality(S) \in A
  BY <1>0, <1>3
<1> QED
  BY <1>4 DEF A, Sum

\* Equal summands, equal sums.
LEMMA SumAgree ==
  ASSUME NEW S, IsFiniteSet(S), NEW f, NEW g, \A x \in S : f[x] = g[x] /\ f[x] \in Int
  PROVE  SumFunctionOnSet(f, S) = SumFunctionOnSet(g, S)
<1> DEFINE P == {T \in SUBSET S : SumFunctionOnSet(f, T) = SumFunctionOnSet(g, T)}
<1>1. {} \in P
  BY SumEmpty
<1>2. ASSUME NEW T \in P, NEW x \in S
      PROVE  T \cup {x} \in P
  <2> DEFINE U == T \cup {x}
  <2>1. IsFiniteSet(U) /\ U \in SUBSET S /\ x \in U
    BY FS_Subset
  <2>2. CASE x \in T
    BY <2>2
  <2>3. CASE x \notin T
    <3>1. U \ {x} = T /\ \A y \in U : f[y] \in Int /\ g[y] \in Int
      BY <2>1, <2>3
    <3>2. /\ SumFunctionOnSet(f, U) = f[x] + SumFunctionOnSet(f, U \ {x})
          /\ SumFunctionOnSet(g, U) = g[x] + SumFunctionOnSet(g, U \ {x})
      <4> HIDE DEF U
      <4> QED
        BY <2>1, <3>1, SumRemove
    <3> QED
      BY <2>1, <3>1, <3>2
  <2> QED
    BY <2>2, <2>3
<1> HIDE DEF P
<1>3. S \in P
  BY <1>1, <1>2, FiniteSetInduction DEF P
<1> QED
  BY <1>3 DEF P

\* Of what is nowhere negative.
LEMMA SumNat ==
  ASSUME NEW S, IsFiniteSet(S), NEW f, \A x \in S : f[x] \in Nat
  PROVE  SumFunctionOnSet(f, S) \in Nat
<1> DEFINE P == {T \in SUBSET S : SumFunctionOnSet(f, T) \in Nat}
<1>1. {} \in P
  BY SumEmpty
<1>2. ASSUME NEW T \in P, NEW x \in S
      PROVE  T \cup {x} \in P
  <2> DEFINE U == T \cup {x}
  <2>1. IsFiniteSet(U) /\ U \in SUBSET S /\ x \in U /\ \A y \in U : f[y] \in Int
    BY FS_Subset
  <2>2. CASE x \in T
    BY <2>2
  <2>3. CASE x \notin T
    <3>1. U \ {x} = T
      BY <2>3
    <3>2. SumFunctionOnSet(f, U) = f[x] + SumFunctionOnSet(f, U \ {x})
      <4> HIDE DEF U
      <4> QED
        BY <2>1, SumRemove
    <3> QED
      BY <2>1, <3>1, <3>2
  <2> QED
    BY <2>2, <2>3
<1> HIDE DEF P
<1>3. S \in P
  BY <1>1, <1>2, FiniteSetInduction DEF P
<1> QED
  BY <1>3 DEF P

\* One summand changes.
LEMMA SumChange ==
  ASSUME NEW S, IsFiniteSet(S), NEW f, NEW g, NEW x \in S,
         \A y \in S : f[y] \in Int /\ g[y] \in Int,
         \A y \in S \ {x} : g[y] = f[y]
  PROVE  SumFunctionOnSet(g, S) = SumFunctionOnSet(f, S) - f[x] + g[x]
<1> DEFINE T == S \ {x}
<1>1. IsFiniteSet(T) /\ T \in SUBSET S
  BY FS_Subset
<1>2. SumFunctionOnSet(f, S) = f[x] + SumFunctionOnSet(f, T)
  BY SumRemove
<1>3. SumFunctionOnSet(g, S) = g[x] + SumFunctionOnSet(g, T)
  BY SumRemove
<1>4. SumFunctionOnSet(f, T) = SumFunctionOnSet(g, T)
  BY <1>1, SumAgree
<1>5. SumFunctionOnSet(f, T) \in Int
  BY <1>1, SumType
<1> HIDE DEF T
<1> QED
  BY <1>2, <1>3, <1>4, <1>5

\* What counts one for each of T counts T.
LEMMA SumOfOnes ==
  ASSUME NEW S, IsFiniteSet(S), NEW f, NEW T \in SUBSET S,
         \A x \in S : f[x] = IF x \in T THEN 1 ELSE 0
  PROVE  SumFunctionOnSet(f, S) = Cardinality(T)
<1> DEFINE P == {U \in SUBSET S : SumFunctionOnSet(f, U) = Cardinality(U \cap T)}
<1>1. {} \in P
  <2>1. {} \cap T = {}
    OBVIOUS
  <2> QED
    BY <2>1, SumEmpty, FS_EmptySet
<1>2. ASSUME NEW U \in P, NEW x \in S
      PROVE  U \cup {x} \in P
  <2> DEFINE V == U \cup {x}
  <2>1. IsFiniteSet(V) /\ V \in SUBSET S /\ x \in V /\ \A y \in V : f[y] \in Int
    BY FS_Subset
  <2>2. CASE x \in U
    BY <2>2
  <2>3. CASE x \notin U
    <3>1. V \ {x} = U
      BY <2>3
    <3>2. SumFunctionOnSet(f, V) = f[x] + SumFunctionOnSet(f, V \ {x})
      <4> HIDE DEF V
      <4> QED
        BY <2>1, SumRemove
    <3>3. SumFunctionOnSet(f, U) = Cardinality(U \cap T) /\ IsFiniteSet(U \cap T)
      BY FS_Subset
    <3>4. Cardinality(U \cap T) \in Nat
      BY <3>3, FS_CardinalityType
    <3>5. CASE x \in T
      <4>1. V \cap T = (U \cap T) \cup {x} /\ x \notin U \cap T
        BY <2>3, <3>5
      <4>2. Cardinality((U \cap T) \cup {x}) = Cardinality(U \cap T) + 1
        BY <3>3, <4>1, FS_AddElement
      <4>3. f[x] = 1
        BY <3>5
      <4>4. SumFunctionOnSet(f, V) = Cardinality(V \cap T)
        <5>1. SumFunctionOnSet(f, V) = 1 + Cardinality(U \cap T)
          BY <3>1, <3>2, <3>3, <4>3
        <5>2. Cardinality(V \cap T) = Cardinality(U \cap T) + 1
          BY <4>1, <4>2
        <5> HIDE DEF V, P
        <5> QED
          BY <3>4, <5>1, <5>2
      <4> QED
        BY <2>1, <4>4
    <3>6. CASE x \notin T
      <4>1. V \cap T = U \cap T /\ f[x] = 0
        BY <3>6
      <4>2. SumFunctionOnSet(f, V) = Cardinality(V \cap T)
        <5>1. SumFunctionOnSet(f, V \ {x}) = Cardinality(U \cap T)
          BY <3>1, <3>3
        <5>2. SumFunctionOnSet(f, V) = 0 + Cardinality(U \cap T)
          BY <3>2, <4>1, <5>1
        <5> HIDE DEF V, P
        <5> QED
          BY <3>4, <4>1, <5>2
      <4> QED
        BY <2>1, <4>2
    <3> QED
      BY <3>5, <3>6
  <2> QED
    BY <2>2, <2>3
<1> HIDE DEF P
<1>3. S \in P
  BY <1>1, <1>2, FiniteSetInduction DEF P
<1>4. S \cap T = T
  OBVIOUS
<1> QED
  BY <1>3, <1>4 DEF P

\* The sum over two sets that have nothing in common.
LEMMA SumUnion ==
  ASSUME NEW S, NEW T, IsFiniteSet(S), IsFiniteSet(T), S \cap T = {},
         NEW f, \A x \in S \cup T : f[x] \in Int
  PROVE  SumFunctionOnSet(f, S \cup T) = SumFunctionOnSet(f, S) + SumFunctionOnSet(f, T)
<1> DEFINE P == {U \in SUBSET T : SumFunctionOnSet(f, S \cup U) = SumFunctionOnSet(f, S) + SumFunctionOnSet(f, U)}
<1>0. SumFunctionOnSet(f, S) \in Int
  BY SumType
<1>1. {} \in P
  <2>1. S \cup {} = S
    OBVIOUS
  <2>2. SumFunctionOnSet(f, S) + 0 = SumFunctionOnSet(f, S)
    BY <1>0
  <2> QED
    BY <2>1, <2>2, SumEmpty
<1>2. ASSUME NEW U \in P, NEW x \in T
      PROVE  U \cup {x} \in P
  <2> DEFINE V == U \cup {x}
             W == S \cup V
  <2>1. CASE x \in U
    <3>1. U \cup {x} = U
      BY <2>1
    <3> QED
      BY <3>1
  <2>2. CASE x \notin U
    <3>1. U \in SUBSET T /\ V \in SUBSET T /\ x \in V /\ x \in W /\ x \notin S
      OBVIOUS
    <3>2. IsFiniteSet(U) /\ IsFiniteSet(V) /\ IsFiniteSet(W)
      <4>1. IsFiniteSet(U) /\ IsFiniteSet(V)
        BY <3>1, FS_Subset
      <4> HIDE DEF V
      <4> QED
        BY <4>1, FS_Union
    <3>3. V \ {x} = U /\ W \ {x} = S \cup U
      BY <2>2, <3>1
    <3>4. \A y \in W : f[y] \in Int
      BY <3>1
    <3>5. f[x] \in Int /\ SumFunctionOnSet(f, U) \in Int
      BY <3>1, <3>2, SumType
    <3>6. SumFunctionOnSet(f, S \cup U) = SumFunctionOnSet(f, S) + SumFunctionOnSet(f, U)
      OBVIOUS
    <3> HIDE DEF P
    <3>7. SumFunctionOnSet(f, W) = f[x] + SumFunctionOnSet(f, W \ {x})
      <4> HIDE DEF W
      <4> QED
        BY <3>1, <3>2, <3>4, SumRemove
    <3>8. SumFunctionOnSet(f, V) = f[x] + SumFunctionOnSet(f, V \ {x})
      <4>1. \A y \in V : f[y] \in Int
        BY <3>4
      <4> HIDE DEF V
      <4> QED
        BY <3>1, <3>2, <4>1, SumRemove
    <3>9. SumFunctionOnSet(f, W) = SumFunctionOnSet(f, S) + SumFunctionOnSet(f, V)
      <4>1. SumFunctionOnSet(f, W) = f[x] + (SumFunctionOnSet(f, S) + SumFunctionOnSet(f, U))
        BY <3>3, <3>6, <3>7
      <4>2. SumFunctionOnSet(f, V) = f[x] + SumFunctionOnSet(f, U)
        BY <3>3, <3>8
      <4> HIDE DEF V, W
      <4> QED
        BY <1>0, <3>5, <4>1, <4>2
    <3> QED
      BY <3>1, <3>9 DEF P
  <2> QED
    BY <2>1, <2>2
<1> HIDE DEF P
<1>3. T \in P
  BY <1>1, <1>2, FiniteSetInduction DEF P
<1> QED
  BY <1>3 DEF P

\* Of one element.
LEMMA SumOne ==
  ASSUME NEW x, NEW f, f[x] \in Int
  PROVE  SumFunctionOnSet(f, {x}) = f[x]
<1>1. IsFiniteSet({x}) /\ x \in {x} /\ {x} \ {x} = {} /\ \A y \in {x} : f[y] \in Int
  BY FS_Singleton
<1>2. SumFunctionOnSet(f, {x}) = f[x] + SumFunctionOnSet(f, {x} \ {x})
  <2> DEFINE S == {x}
  <2>1. IsFiniteSet(S) /\ x \in S /\ \A y \in S : f[y] \in Int
    BY <1>1
  <2> HIDE DEF S
  <2>2. SumFunctionOnSet(f, S) = f[x] + SumFunctionOnSet(f, S \ {x})
    BY <2>1, SumRemove
  <2> QED
    BY <2>2 DEF S
<1> QED
  BY <1>1, <1>2, SumEmpty

\* Part of what is nowhere negative.
LEMMA SumWithin ==
  ASSUME NEW S, IsFiniteSet(S), NEW T \in SUBSET S, NEW f, \A x \in S : f[x] \in Nat
  PROVE  SumFunctionOnSet(f, T) \in Nat /\ SumFunctionOnSet(f, T) <= SumFunctionOnSet(f, S)
<1> DEFINE U == S \ T
<1>1. IsFiniteSet(T) /\ IsFiniteSet(U) /\ T \cap U = {} /\ T \cup U = S
  BY FS_Subset
<1>2. SumFunctionOnSet(f, T) \in Nat
  BY <1>1, SumNat
<1>3. SumFunctionOnSet(f, U) \in Nat
  BY <1>1, SumNat
<1>4. SumFunctionOnSet(f, T \cup U) = SumFunctionOnSet(f, T) + SumFunctionOnSet(f, U)
  <2> HIDE DEF U
  <2>1. \A x \in T \cup U : f[x] \in Int
    BY <1>1
  <2> QED
    BY <1>1, <2>1, SumUnion
<1>5. SumFunctionOnSet(f, S) = SumFunctionOnSet(f, T) + SumFunctionOnSet(f, U)
  BY <1>1, <1>4
<1> HIDE DEF U
<1> QED
  BY <1>2, <1>3, <1>5

\* Of so many times the same.
LEMMA SumConstant ==
  ASSUME NEW S, IsFiniteSet(S), NEW c \in Int, NEW f, \A x \in S : f[x] = c
  PROVE  SumFunctionOnSet(f, S) = Cardinality(S) * c
<1> DEFINE P == {T \in SUBSET S : SumFunctionOnSet(f, T) = Cardinality(T) * c}
<1>1. {} \in P
  BY SumEmpty, FS_EmptySet
<1>2. ASSUME NEW T \in P, NEW x \in S
      PROVE  T \cup {x} \in P
  <2> DEFINE U == T \cup {x}
  <2>0. IsFiniteSet(T) /\ IsFiniteSet(U) /\ U \in SUBSET S /\ x \in U /\ \A y \in U : f[y] \in Int
    BY FS_Subset
  <2>1. CASE x \in T
    <3>1. T \cup {x} = T
      BY <2>1
    <3> QED
      BY <3>1
  <2>2. CASE x \notin T
    <3>1. U \ {x} = T
      BY <2>2
    <3>2. SumFunctionOnSet(f, U) = f[x] + SumFunctionOnSet(f, U \ {x})
      <4> HIDE DEF U
      <4> QED
        BY <2>0, SumRemove
    <3>3. Cardinality(U) = Cardinality(T) + 1 /\ Cardinality(T) \in Nat
      BY <2>0, <2>2, FS_AddElement, FS_CardinalityType
    <3>4. \A n \in Nat : (n + 1) * c = c + n * c
      OBVIOUS
    <3>5. SumFunctionOnSet(f, U) = c + Cardinality(T) * c
      BY <3>1, <3>2
    <3>6. SumFunctionOnSet(f, U) = Cardinality(U) * c
      <4> HIDE DEF U, P
      <4> QED
        BY <3>3, <3>4, <3>5
    <3> QED
      BY <2>0, <3>6
  <2> QED
    BY <2>1, <2>2
<1> HIDE DEF P
<1>3. S \in P
  BY <1>1, <1>2, FiniteSetInduction DEF P
<1> QED
  BY <1>3 DEF P

-----------------------------------------------------------------------------
(* Division                                                                 *)

LEMMA DivisionIs ==
  ASSUME NEW a \in Int, NEW m \in Int, m > 0, NEW q, q = a \div m
  PROVE  q \in Int /\ m * q <= a /\ a < m * q + m
  OBVIOUS

\* Of a positive m: what is less stays less when it is divided by it.
LEMMA Cancel ==
  ASSUME NEW m \in Int, m > 0, NEW a \in Int, NEW b \in Int
  PROVE  (m * a < m * b => a < b) /\ (m * a <= m * b => a <= b)
<1>1. \A d \in Int : m * d < 0 => d < 0
  OBVIOUS
<1>2. \A d \in Int : d > 0 => m * d > 0
  OBVIOUS
<1>3. m * (a - b) = m * a - m * b /\ m * a \in Int /\ m * b \in Int
  OBVIOUS
<1>4. a - b \in Int
  OBVIOUS
<1>5. m * a < m * b => a < b
  BY <1>1, <1>3, <1>4
<1>6. m * a <= m * b => a <= b
  BY <1>2, <1>3, <1>4
<1> QED
  BY <1>5, <1>6

\* And the other way round.
LEMMA Times ==
  ASSUME NEW m \in Nat, NEW a \in Int, NEW b \in Int, a <= b
  PROVE  m * a <= m * b
<1>1. \A d \in Nat : m * d >= 0
  OBVIOUS
<1>2. m * (b - a) = m * b - m * a /\ m * a \in Int /\ m * b \in Int
  OBVIOUS
<1>3. b - a \in Nat
  OBVIOUS
<1> QED
  BY <1>1, <1>2, <1>3

-----------------------------------------------------------------------------
(* Small sets                                                               *)

\* At most one element, in two ways.
LEMMA AtMostOne ==
  ASSUME NEW S, IsFiniteSet(S)
  PROVE  Cardinality(S) <= 1 <=> \A x, y \in S : x = y
<1>1. CASE S = {}
  BY <1>1, FS_EmptySet
<1>2. CASE S # {}
  <2>1. PICK x \in S : TRUE
    BY <1>2
  <2>2. /\ Cardinality(S \ {x}) = Cardinality(S) - 1
        /\ IsFiniteSet(S \ {x})
        /\ Cardinality(S) \in Nat
    BY <2>1, FS_RemoveElement, FS_CardinalityType
  <2>3. Cardinality(S \ {x}) \in Nat /\ (Cardinality(S \ {x}) = 0 <=> S \ {x} = {})
    BY <2>2, FS_CardinalityType, FS_EmptySet
  <2>4. S \ {x} = {} <=> \A y, z \in S : y = z
    BY <2>1
  <2> QED
    BY <2>2, <2>3, <2>4
<1> QED
  BY <1>1, <1>2

\* A finite set of numbers has a greatest.
LEMMA MaxIs ==
  ASSUME NEW S \in SUBSET Int, IsFiniteSet(S), S # {}
  PROVE  Max(S) \in S /\ \A y \in S : Max(S) >= y
<1> DEFINE P == {T \in SUBSET S : T # {} => \E x \in T : \A y \in T : x >= y}
<1>1. {} \in P
  OBVIOUS
<1>2. ASSUME NEW T \in P, NEW x \in S
      PROVE  T \cup {x} \in P
  <2>1. CASE T = {}
    <3>1. \A y \in T \cup {x} : y = x
      BY <2>1
    <3> QED
      BY <3>1
  <2>2. CASE T # {}
    <3>1. PICK z \in T : \A y \in T : z >= y
      BY <2>2
    <3>2. CASE z >= x
      BY <3>1, <3>2
    <3>3. CASE x >= z
      BY <3>1, <3>3
    <3> QED
      BY <3>2, <3>3
  <2> QED
    BY <2>1, <2>2
<1> HIDE DEF P
<1>3. S \in P
  BY <1>1, <1>2, FiniteSetInduction DEF P
<1>4. \E x \in S : \A y \in S : x >= y
  BY <1>3 DEF P
<1> QED
  BY <1>4 DEF Max

\* b numbers after a.
LEMMA IntervalSize ==
  ASSUME NEW a \in Nat, NEW b \in Nat
  PROVE  Cardinality(a + 1 .. a + b) = b
<1> DEFINE lo == a + 1
           hi == a + b
<1>1. lo \in Int /\ hi \in Int /\ (lo > hi => b = 0) /\ (~(lo > hi) => hi - lo + 1 = b)
  OBVIOUS
<1> HIDE DEF lo, hi
<1>2. Cardinality(lo .. hi) = IF lo > hi THEN 0 ELSE hi - lo + 1
  BY <1>1, FS_Interval
<1>3. Cardinality(lo .. hi) = b
  BY <1>1, <1>2
<1> QED
  BY <1>3 DEF lo, hi
=============================================================================
