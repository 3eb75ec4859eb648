----------------------------- MODULE SumsProofs -----------------------------
(***************************************************************************)
(* What a sum over a finite set is, for any function and any finite set.   *)
(*                                                                         *)
(* The sum is a fold, defined by a recursive function over the subsets.    *)
(* Induction over finite sets is done by a smallest counterexample: the    *)
(* subsets of a finite set are well-founded under strict inclusion.        *)
(***************************************************************************)
EXTENDS Sums, FiniteSetTheorems, WellFoundedInduction, TLAPS

-----------------------------------------------------------------------------
(* Induction *)

\* A non-empty collection of subsets of a finite set has a smallest member.
LEMMA SmallestSet ==
  ASSUME NEW S, IsFiniteSet(S), NEW C \in SUBSET (SUBSET S), C # {}
  PROVE  \E T \in C : \A U \in C : U \subseteq T => U = T
<1>1. IsWellFoundedOn(StrictSubsetOrdering(S), SUBSET S)
  BY FS_StrictSubsetOrderingWellFounded, FS_FiniteSubsetsOfFinite
<1>2. \E T \in C : \A U \in C : ~ (<<U, T>> \in StrictSubsetOrdering(S))
  BY <1>1, WFMin
<1> QED BY <1>2 DEF StrictSubsetOrdering

\* A collection of the subsets of a finite set that has the empty set, and with a
\* set also that set with one more element, has the whole set.
LEMMA SetInduction ==
  ASSUME NEW S, IsFiniteSet(S), NEW C \in SUBSET (SUBSET S), {} \in C,
         \A T \in C : \A x \in S \ T : T \cup {x} \in C
  PROVE  S \in C
<1>1. SUFFICES ASSUME S \notin C PROVE FALSE
  OBVIOUS
<1>2. PICK T \in SUBSET S : T \notin C /\ \A U \in SUBSET S : U \notin C /\ U \subseteq T => U = T
  <2> DEFINE D == {T \in SUBSET S : T \notin C}
  <2>1. D \in SUBSET (SUBSET S) /\ D # {}
    BY <1>1
  <2> HIDE DEF D
  <2>2. PICK T \in D : \A U \in D : U \subseteq T => U = T
    BY <2>1, SmallestSet
  <2> QED BY <2>2 DEF D
<1>3. PICK x \in T : TRUE
  BY <1>2
<1>4. T \ {x} \in C
  BY <1>2, <1>3
<1> QED BY <1>2, <1>3, <1>4, (T \ {x}) \cup {x} = T

\* A finite set of integers has a least and a greatest element.
LEMMA Least ==
  ASSUME NEW S \in SUBSET Int, IsFiniteSet(S), S # {}
  PROVE  \E m \in S : \A x \in S : m <= x
<1> DEFINE C == {T \in SUBSET S : T = {} \/ \E m \in T : \A x \in T : m <= x}
<1>1. C \in SUBSET (SUBSET S) /\ {} \in C
  OBVIOUS
<1>2. ASSUME NEW T \in C, NEW y \in S \ T PROVE T \cup {y} \in C
  <2>1. CASE T = {}
    BY <2>1
  <2>2. CASE T # {}
    <3>1. PICK m \in T : \A x \in T : m <= x
      BY <2>2
    <3>2. CASE m <= y
      BY <3>1, <3>2
    <3>3. CASE y < m
      BY <3>1, <3>3
    <3> QED BY <3>2, <3>3
  <2> QED BY <2>1, <2>2
<1> HIDE DEF C
<1>3. S \in C
  BY <1>1, <1>2, SetInduction
<1> QED BY <1>3 DEF C

LEMMA Greatest ==
  ASSUME NEW S \in SUBSET Int, IsFiniteSet(S), S # {}
  PROVE  \E m \in S : \A x \in S : x <= m
<1> DEFINE C == {T \in SUBSET S : T = {} \/ \E m \in T : \A x \in T : x <= m}
<1>1. C \in SUBSET (SUBSET S) /\ {} \in C
  OBVIOUS
<1>2. ASSUME NEW T \in C, NEW y \in S \ T PROVE T \cup {y} \in C
  <2>1. CASE T = {}
    BY <2>1
  <2>2. CASE T # {}
    <3>1. PICK m \in T : \A x \in T : x <= m
      BY <2>2
    <3>2. CASE y <= m
      BY <3>1, <3>2
    <3>3. CASE m < y
      BY <3>1, <3>3
    <3> QED BY <3>2, <3>3
  <2> QED BY <2>1, <2>2
<1> HIDE DEF C
<1>3. S \in C
  BY <1>1, <1>2, SetInduction
<1> QED BY <1>3 DEF C

\* The same for numbers.
LEMMA CountInduction ==
  ASSUME NEW n \in Nat, NEW C \in SUBSET Nat, 0 \in C, \A i \in C : i < n => i + 1 \in C
  PROVE  n \in C
<1>1. IsFiniteSet(1 .. n)
  BY FS_Interval
<1>2. SUFFICES ASSUME n \notin C PROVE FALSE
  OBVIOUS
<1> DEFINE B == {T \in SUBSET (1 .. n) : \E j \in 0 .. n : T = 1 .. j /\ j \notin C}
<1>3. B \in SUBSET (SUBSET (1 .. n)) /\ B # {}
  <2>1. n \in 0 .. n /\ 1 .. n \in SUBSET (1 .. n)
    OBVIOUS
  <2>2. 1 .. n \in B
    BY <1>2, <2>1
  <2> QED BY <2>2
<1>4. PICK T \in B : \A U \in B : U \subseteq T => U = T
  <2> DEFINE N == 1 .. n
  <2>1. IsFiniteSet(N) /\ B \in SUBSET (SUBSET N) /\ B # {}
    BY <1>1, <1>3
  <2> HIDE DEF N, B
  <2> QED BY <2>1, SmallestSet
<1>5. PICK j \in 0 .. n : T = 1 .. j /\ j \notin C
  BY <1>4
<1>6. j # 0 /\ j - 1 \in 0 .. n /\ j - 1 \notin C
  BY <1>5
<1>7. 1 .. (j - 1) \in B
  BY <1>6
<1>8. 1 .. (j - 1) \subseteq T /\ j \in T /\ j \notin 1 .. (j - 1)
  BY <1>5, <1>6
<1> QED BY <1>4, <1>7, <1>8

-----------------------------------------------------------------------------
(* The fold *)

Pick(s) == CHOOSE x \in s : TRUE

\* The function that the fold chooses.
Iterates(g, f, S) ==
  g = [s \in SUBSET S |-> IF s = {} THEN 0 ELSE f[Pick(s)] + g[s \ {Pick(s)}]]

LEMMA SumIsIterate ==
  ASSUME NEW f, NEW S
  PROVE  SumOf(f, S) = (CHOOSE g : Iterates(g, f, S))[S]
BY DEF SumOf, MapThenSumSet, MapThenFoldSet, Iterates, Pick

LEMMA PickIn ==
  ASSUME NEW s, s # {}
  PROVE  Pick(s) \in s
BY DEF Pick

\* Two such functions agree where both are defined.
LEMMA IteratesAgree ==
  ASSUME NEW f, NEW S, NEW R, NEW g, NEW h, IsFiniteSet(S),
         Iterates(g, f, S), Iterates(h, f, R), S \subseteq R
  PROVE  \A s \in SUBSET S : g[s] = h[s]
<1> DEFINE D == {s \in SUBSET S : g[s] # h[s]}
<1>1. SUFFICES ASSUME D # {} PROVE FALSE
  OBVIOUS
<1>2. PICK T \in D : \A U \in D : U \subseteq T => U = T
  <2>1. D \in SUBSET (SUBSET S)
    OBVIOUS
  <2> HIDE DEF D
  <2> QED BY <1>1, <2>1, SmallestSet
<1>3. T # {}
  BY <1>2 DEF Iterates
<1>4. Pick(T) \in T
  BY <1>3, PickIn
<1>5. T \ {Pick(T)} \in SUBSET S /\ T \ {Pick(T)} \notin D
  BY <1>2, <1>4
<1>6. g[T] = f[Pick(T)] + g[T \ {Pick(T)}] /\ h[T] = f[Pick(T)] + h[T \ {Pick(T)}]
  BY <1>2, <1>3 DEF Iterates
<1> QED BY <1>2, <1>5, <1>6

\* There is one for every finite set, and it is made of the sums.
LEMMA IteratesExists ==
  ASSUME NEW f, NEW S, IsFiniteSet(S)
  PROVE  \E g : Iterates(g, f, S)
<1> DEFINE D == {s \in SUBSET S : ~ \E g : Iterates(g, f, s)}
<1>1. SUFFICES ASSUME D # {} PROVE FALSE
  OBVIOUS
<1>2. PICK T \in D : \A U \in D : U \subseteq T => U = T
  <2>1. D \in SUBSET (SUBSET S)
    OBVIOUS
  <2> HIDE DEF D
  <2> QED BY <1>1, <2>1, SmallestSet
<1> DEFINE It(u) == CHOOSE g : Iterates(g, f, u)
           V(u)  == It(u)[u]
           G     == [s \in SUBSET T |-> IF s = {} THEN 0 ELSE f[Pick(s)] + V(s \ {Pick(s)})]
<1>3. \A u \in SUBSET T : u # T => Iterates(It(u), f, u)
  BY <1>2
<1>4. \A u \in SUBSET T : u # T => V(u) = IF u = {} THEN 0 ELSE f[Pick(u)] + V(u \ {Pick(u)})
  <2> SUFFICES ASSUME NEW u \in SUBSET T, u # T
               PROVE  V(u) = IF u = {} THEN 0 ELSE f[Pick(u)] + V(u \ {Pick(u)})
    OBVIOUS
  <2>1. Iterates(It(u), f, u)
    BY <1>3
  <2>2. V(u) = IF u = {} THEN 0 ELSE f[Pick(u)] + It(u)[u \ {Pick(u)}]
    BY <2>1 DEF Iterates
  <2>3. CASE u # {}
    <3> DEFINE w == u \ {Pick(u)}
    <3>1. Pick(u) \in u /\ w \in SUBSET T /\ w # T /\ w \subseteq u
      BY <2>3, PickIn
    <3>2. Iterates(It(w), f, w)
      BY <1>3, <3>1
    <3>3. IsFiniteSet(w)
      BY <3>1, FS_Subset
    <3> HIDE DEF It, w
    <3>4. It(w)[w] = It(u)[w]
      BY <2>1, <3>1, <3>2, <3>3, IteratesAgree
    <3> USE DEF w
    <3> QED BY <2>2, <2>3, <3>4
  <2> QED BY <2>2, <2>3
<1>5. Iterates(G, f, T)
  <2> HIDE DEF V, It
  <2>1. \A s \in SUBSET T : s # {} => Pick(s) \in s
    BY PickIn
  <2>2. \A s \in SUBSET T : s # {} => G[s \ {Pick(s)}] = V(s \ {Pick(s)})
    <3> SUFFICES ASSUME NEW s \in SUBSET T, s # {} PROVE G[s \ {Pick(s)}] = V(s \ {Pick(s)})
      OBVIOUS
    <3>1. s \ {Pick(s)} \in SUBSET T /\ s \ {Pick(s)} # T
      BY <2>1
    <3> QED BY <3>1, <1>4
  <2>3. G = [s \in SUBSET T |-> IF s = {} THEN 0 ELSE f[Pick(s)] + G[s \ {Pick(s)}]]
    BY <2>2
  <2> QED BY <2>3 DEF Iterates
<1> QED BY <1>2, <1>5

-----------------------------------------------------------------------------
(* Sums *)

LEMMA SumEmpty ==
  ASSUME NEW f
  PROVE  SumOf(f, {}) = 0
<1>1. Iterates(CHOOSE g : Iterates(g, f, {}), f, {})
  BY IteratesExists, FS_EmptySet
<1> QED BY <1>1, SumIsIterate DEF Iterates

LEMMA SumPick ==
  ASSUME NEW f, NEW S, IsFiniteSet(S), S # {}
  PROVE  SumOf(f, S) = f[Pick(S)] + SumOf(f, S \ {Pick(S)})
<1> DEFINE w == S \ {Pick(S)}
           It(u) == CHOOSE g : Iterates(g, f, u)
<1>1. IsFiniteSet(w) /\ w \subseteq S
  BY FS_Subset
<1>2. Iterates(It(S), f, S) /\ Iterates(It(w), f, w)
  BY <1>1, IteratesExists
<1>3. SumOf(f, S) = It(S)[S] /\ SumOf(f, w) = It(w)[w]
  BY SumIsIterate
<1> HIDE DEF It
<1>4. It(S)[S] = f[Pick(S)] + It(S)[S \ {Pick(S)}]
  BY <1>2 DEF Iterates
<1> HIDE DEF w
<1>5. It(w)[w] = It(S)[w]
  BY <1>1, <1>2, IteratesAgree
<1> QED BY <1>3, <1>4, <1>5 DEF w

LEMMA SumInt ==
  ASSUME NEW f, NEW S, IsFiniteSet(S), \A x \in S : f[x] \in Int
  PROVE  SumOf(f, S) \in Int
<1> DEFINE D == {T \in SUBSET S : SumOf(f, T) \notin Int}
<1>1. SUFFICES ASSUME D # {} PROVE FALSE
  OBVIOUS
<1>2. PICK T \in D : \A U \in D : U \subseteq T => U = T
  <2>1. D \in SUBSET (SUBSET S)
    OBVIOUS
  <2> HIDE DEF D
  <2> QED BY <1>1, <2>1, SmallestSet
<1>3. T # {}
  <2>1. SumOf(f, {}) \in Int
    BY SumEmpty
  <2> QED BY <1>2, <2>1
<1>4. Pick(T) \in T /\ IsFiniteSet(T)
  BY <1>2, <1>3, PickIn, FS_Subset
<1>5. SumOf(f, T \ {Pick(T)}) \in Int
  BY <1>2, <1>4
<1>6. SumOf(f, T) = f[Pick(T)] + SumOf(f, T \ {Pick(T)})
  BY <1>3, <1>4, SumPick
<1> QED BY <1>2, <1>4, <1>5, <1>6

\* The sum does not depend on which element is taken out first.
LEMMA SumRemove ==
  ASSUME NEW f, NEW S, IsFiniteSet(S), \A x \in S : f[x] \in Int, NEW y \in S
  PROVE  SumOf(f, S) = f[y] + SumOf(f, S \ {y})
<1> DEFINE Ok(T) == \A x \in T : SumOf(f, T) = f[x] + SumOf(f, T \ {x})
           D == {T \in SUBSET S : ~ Ok(T)}
<1>1. SUFFICES ASSUME D # {} PROVE FALSE
  OBVIOUS
<1>2. PICK T \in D : \A U \in D : U \subseteq T => U = T
  <2>1. D \in SUBSET (SUBSET S)
    OBVIOUS
  <2> HIDE DEF D
  <2> QED BY <1>1, <2>1, SmallestSet
<1>3. PICK x \in T : SumOf(f, T) # f[x] + SumOf(f, T \ {x})
  BY <1>2
<1> DEFINE p == Pick(T)  A == T \ {p}  B == T \ {x}
<1>4. p \in T /\ IsFiniteSet(T) /\ A \in SUBSET S /\ B \in SUBSET S
  BY <1>2, <1>3, PickIn, FS_Subset
<1>5. SumOf(f, T) = f[p] + SumOf(f, A)
  BY <1>3, <1>4, SumPick
<1>6. p # x
  BY <1>3, <1>5
<1>7. SumOf(f, A) = f[x] + SumOf(f, A \ {x})
  BY <1>2, <1>4, <1>6
<1>8. SumOf(f, B) = f[p] + SumOf(f, B \ {p})
  BY <1>2, <1>4, <1>3, <1>6
<1>9. A \ {x} = B \ {p} /\ IsFiniteSet(A \ {x}) /\ A \ {x} \in SUBSET S
  BY <1>4, FS_Subset
<1>10. SumOf(f, A \ {x}) \in Int /\ f[p] \in Int /\ f[x] \in Int
  BY <1>2, <1>3, <1>4, <1>9, SumInt
<1>11. SumOf(f, A \ {x}) = SumOf(f, B \ {p})
  BY <1>9
<1> HIDE DEF p, A, B, D, Ok
<1>12. SumOf(f, T) = f[x] + SumOf(f, B)
  BY <1>5, <1>7, <1>8, <1>10, <1>11
<1> QED BY <1>3, <1>12 DEF B

LEMMA SumAdd ==
  ASSUME NEW f, NEW S, IsFiniteSet(S), NEW y, y \notin S, \A x \in S \cup {y} : f[x] \in Int
  PROVE  SumOf(f, S \cup {y}) = f[y] + SumOf(f, S)
<1>1. IsFiniteSet(S \cup {y}) /\ (S \cup {y}) \ {y} = S
  BY FS_AddElement
<1> QED BY <1>1, SumRemove

\* Only the values on the set count.
LEMMA SumSame ==
  ASSUME NEW f, NEW g, NEW S, IsFiniteSet(S), \A x \in S : f[x] \in Int /\ f[x] = g[x]
  PROVE  SumOf(f, S) = SumOf(g, S)
<1> DEFINE C == {T \in SUBSET S : SumOf(f, T) = SumOf(g, T)}
<1>1. {} \in C
  BY SumEmpty
<1>2. ASSUME NEW T \in C, NEW x \in S \ T PROVE T \cup {x} \in C
  <2>1. IsFiniteSet(T) /\ \A y \in T \cup {x} : f[y] \in Int /\ g[y] \in Int
    BY FS_Subset
  <2>2. SumOf(f, T \cup {x}) = f[x] + SumOf(f, T) /\ SumOf(g, T \cup {x}) = g[x] + SumOf(g, T)
    BY <2>1, SumAdd
  <2> QED BY <2>2
<1>3. C \in SUBSET (SUBSET S)
  OBVIOUS
<1> HIDE DEF C
<1>4. S \in C
  BY <1>1, <1>2, <1>3, SetInduction
<1> QED BY <1>4 DEF C

LEMMA SumMonotonic ==
  ASSUME NEW f, NEW g, NEW S, IsFiniteSet(S),
         \A x \in S : f[x] \in Int /\ g[x] \in Int /\ f[x] <= g[x]
  PROVE  SumOf(f, S) <= SumOf(g, S)
<1> DEFINE C == {T \in SUBSET S : SumOf(f, T) <= SumOf(g, T)}
<1>1. {} \in C
  BY SumEmpty
<1>2. ASSUME NEW T \in C, NEW x \in S \ T PROVE T \cup {x} \in C
  <2>1. IsFiniteSet(T) /\ \A y \in T \cup {x} : f[y] \in Int /\ g[y] \in Int
    BY FS_Subset
  <2>2. SumOf(f, T \cup {x}) = f[x] + SumOf(f, T) /\ SumOf(g, T \cup {x}) = g[x] + SumOf(g, T)
    BY <2>1, SumAdd
  <2>3. SumOf(f, T) \in Int /\ SumOf(g, T) \in Int /\ f[x] <= g[x] /\ f[x] \in Int /\ g[x] \in Int
    BY <2>1, SumInt
  <2>4. SumOf(f, T) <= SumOf(g, T)
    OBVIOUS
  <2> QED BY <2>2, <2>3, <2>4
<1>3. C \in SUBSET (SUBSET S)
  OBVIOUS
<1> HIDE DEF C
<1>4. S \in C
  BY <1>1, <1>2, <1>3, SetInduction
<1> QED BY <1>4 DEF C

LEMMA SumUnion ==
  ASSUME NEW f, NEW A, NEW B, IsFiniteSet(A), IsFiniteSet(B), A \cap B = {},
         \A x \in A \cup B : f[x] \in Int
  PROVE  SumOf(f, A \cup B) = SumOf(f, A) + SumOf(f, B)
<1> DEFINE C == {T \in SUBSET B : SumOf(f, A \cup T) = SumOf(f, A) + SumOf(f, T)}
<1>1. {} \in C
  BY SumEmpty, SumInt, A \cup {} = A
<1>2. ASSUME NEW T \in C, NEW x \in B \ T PROVE T \cup {x} \in C
  <2>1. IsFiniteSet(T) /\ IsFiniteSet(A \cup T) /\ x \notin A \cup T
    BY FS_Subset, FS_Union
  <2>2. SumOf(f, T \cup {x}) = f[x] + SumOf(f, T)
    BY <2>1, SumAdd
  <2>3. SumOf(f, (A \cup T) \cup {x}) = f[x] + SumOf(f, A \cup T)
    BY <2>1, SumAdd
  <2>4. SumOf(f, T) \in Int /\ SumOf(f, A) \in Int /\ f[x] \in Int
    BY <2>1, SumInt
  <2>5. (A \cup T) \cup {x} = A \cup (T \cup {x})
    OBVIOUS
  <2>6. SumOf(f, A \cup T) = SumOf(f, A) + SumOf(f, T)
    OBVIOUS
  <2>7. SumOf(f, A \cup (T \cup {x})) = f[x] + SumOf(f, A \cup T)
    BY <2>3, <2>5
  <2> HIDE DEF C
  <2>8. SumOf(f, A \cup (T \cup {x})) = SumOf(f, A) + SumOf(f, T \cup {x})
    BY <2>2, <2>4, <2>6, <2>7
  <2> QED BY <2>8 DEF C
<1>3. C \in SUBSET (SUBSET B)
  OBVIOUS
<1> HIDE DEF C
<1>4. B \in C
  BY <1>1, <1>2, <1>3, SetInduction
<1> QED BY <1>4 DEF C

\* A sum of amounts is an amount, at most as large as the sum over more, and at
\* most the number of elements times the largest.
LEMMA SumNat ==
  ASSUME NEW f, NEW S, IsFiniteSet(S), \A x \in S : f[x] \in Nat
  PROVE  SumOf(f, S) \in Nat
<1> DEFINE C == {T \in SUBSET S : SumOf(f, T) \in Nat}
<1>1. {} \in C
  BY SumEmpty
<1>2. ASSUME NEW T \in C, NEW x \in S \ T PROVE T \cup {x} \in C
  <2>1. IsFiniteSet(T) /\ \A y \in T \cup {x} : f[y] \in Int
    BY FS_Subset
  <2>2. SumOf(f, T \cup {x}) = f[x] + SumOf(f, T)
    BY <2>1, SumAdd
  <2> QED BY <2>2
<1>3. C \in SUBSET (SUBSET S)
  OBVIOUS
<1> HIDE DEF C
<1>4. S \in C
  BY <1>1, <1>2, <1>3, SetInduction
<1> QED BY <1>4 DEF C

LEMMA SumSubset ==
  ASSUME NEW f, NEW S, IsFiniteSet(S), \A x \in S : f[x] \in Nat, NEW T \in SUBSET S
  PROVE  SumOf(f, T) <= SumOf(f, S)
<1>1. IsFiniteSet(T) /\ IsFiniteSet(S \ T) /\ T \cup (S \ T) = S
  BY FS_Subset
<1>2. SumOf(f, S) = SumOf(f, T) + SumOf(f, S \ T)
  <2>1. SumOf(f, T \cup (S \ T)) = SumOf(f, T) + SumOf(f, S \ T)
    BY <1>1, SumUnion
  <2> QED BY <1>1, <2>1
<1>3. SumOf(f, T) \in Nat /\ SumOf(f, S \ T) \in Nat
  BY <1>1, SumNat
<1> QED BY <1>2, <1>3

LEMMA SumAtMost ==
  ASSUME NEW f, NEW S, IsFiniteSet(S), NEW b \in Nat, \A x \in S : f[x] \in Int /\ f[x] <= b
  PROVE  SumOf(f, S) <= Cardinality(S) * b
<1> DEFINE C == {T \in SUBSET S : SumOf(f, T) <= Cardinality(T) * b}
<1>1. {} \in C
  BY SumEmpty, FS_EmptySet
<1>2. ASSUME NEW T \in C, NEW x \in S \ T PROVE T \cup {x} \in C
  <2>1. IsFiniteSet(T) /\ \A y \in T \cup {x} : f[y] \in Int
    BY FS_Subset
  <2>2. SumOf(f, T \cup {x}) = f[x] + SumOf(f, T) /\ SumOf(f, T) \in Int
    BY <2>1, SumAdd, SumInt
  <2>3. Cardinality(T \cup {x}) = Cardinality(T) + 1 /\ Cardinality(T) \in Nat
    BY <2>1, FS_AddElement, FS_CardinalityType
  <2>4. (Cardinality(T) + 1) * b = Cardinality(T) * b + b /\ Cardinality(T) * b \in Nat
    BY <2>3
  <2>5. SumOf(f, T) <= Cardinality(T) * b /\ f[x] \in Int /\ f[x] <= b
    OBVIOUS
  <2> QED BY <2>2, <2>3, <2>4, <2>5
<1>3. C \in SUBSET (SUBSET S)
  OBVIOUS
<1> HIDE DEF C
<1>4. S \in C
  BY <1>1, <1>2, <1>3, SetInduction
<1> QED BY <1>4 DEF C

\* Summing by groups is summing at once.
LEMMA SumByGroup ==
  ASSUME NEW f, NEW S, IsFiniteSet(S), \A x \in S : f[x] \in Int,
         NEW key, NEW K, IsFiniteSet(K), \A x \in S : key[x] \in K
  PROVE  SumOf([k \in K |-> SumOf(f, {x \in S : key[x] = k})], K) = SumOf(f, S)
<1> DEFINE Of(T) == {x \in S : key[x] \in T}
           g == [k \in K |-> SumOf(f, {x \in S : key[x] = k})]
           C == {T \in SUBSET K : SumOf(g, T) = SumOf(f, Of(T))}
<1>1. {} \in C
  BY SumEmpty, Of({}) = {}
<1>2. \A k \in K : g[k] \in Int
  <2> SUFFICES ASSUME NEW k \in K PROVE SumOf(f, {x \in S : key[x] = k}) \in Int
    OBVIOUS
  <2>1. IsFiniteSet({x \in S : key[x] = k})
    BY FS_Subset
  <2> QED BY <2>1, SumInt
<1>3. ASSUME NEW T \in C, NEW k \in K \ T PROVE T \cup {k} \in C
  <2> DEFINE G == {x \in S : key[x] = k}
  <2>1. IsFiniteSet(T) /\ IsFiniteSet(Of(T)) /\ IsFiniteSet(G)
    BY FS_Subset
  <2>2. Of(T) \cap G = {} /\ Of(T \cup {k}) = Of(T) \cup G
    OBVIOUS
  <2>3. SumOf(f, Of(T) \cup G) = SumOf(f, Of(T)) + SumOf(f, G)
    BY <2>1, <2>2, SumUnion
  <2>4. g[k] = SumOf(f, G) /\ SumOf(g, T) = SumOf(f, Of(T))
    OBVIOUS
  <2>5. SumOf(f, Of(T)) \in Int /\ SumOf(f, G) \in Int
    BY <2>1, SumInt
  <2>6. T \in SUBSET K /\ \A x \in T \cup {k} : g[x] \in Int
    BY <1>2
  <2> HIDE DEF g, G, Of
  <2>7. SumOf(g, T \cup {k}) = g[k] + SumOf(g, T)
    BY <2>1, <2>6, SumAdd
  <2>8. SumOf(f, Of(T \cup {k})) = SumOf(f, Of(T)) + SumOf(f, G)
    BY <2>2, <2>3
  <2>9. SumOf(g, T \cup {k}) = SumOf(f, G) + SumOf(f, Of(T))
    BY <2>4, <2>7
  <2>10. SumOf(g, T \cup {k}) = SumOf(f, Of(T \cup {k}))
    BY <2>5, <2>8, <2>9
  <2> QED BY <2>6, <2>10
<1>4. C \in SUBSET (SUBSET K)
  OBVIOUS
<1>5. Of(K) = S
  OBVIOUS
<1> HIDE DEF C, Of, g
<1>6. K \in C
  BY <1>1, <1>3, <1>4, SetInduction
<1>7. SumOf(g, K) = SumOf(f, S)
  BY <1>5, <1>6 DEF C
<1> QED BY <1>7 DEF g
=============================================================================
