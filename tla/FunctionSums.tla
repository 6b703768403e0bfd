---------------------------- MODULE FunctionSums ----------------------------
(***************************************************************************)
(* Lemmas about SumFunctionOnSet, the sum of a function over a finite set, *)
(* with which the modules total allocations, quantities and amounts.       *)
(*                                                                         *)
(* The library's induction theorems take the property as an operator.      *)
(* Here it is a set, of the numbers or of the subsets that have it: an     *)
(* induction is then a fact of set theory that the provers can use.        *)
(***************************************************************************)
EXTENDS Integers, FiniteSetTheorems, TLAPS

-----------------------------------------------------------------------------
(* Induction.                                                              *)

\* A set that has 0, and with a number its successor, has every number.
LEMMA NumberInduction ==
    ASSUME NEW good, 0 \in good, \A n \in Nat : n \in good => n + 1 \in good
    PROVE  Nat \subseteq good
<1>1. SUFFICES ASSUME Nat \ good # {} PROVE FALSE
  OBVIOUS
<1>2. PICK m \in Nat \ good : \A n \in Nat \ good : ~ (<< n, m >> \in OpToRel(<, Nat))
  BY <1>1, NatLessThanWellFounded, WFMin, Zenon
<1>3. m - 1 \in Nat /\ m - 1 \notin good
  <2>1. m \in Nat /\ m # 0 /\ m \notin good
    BY <1>2
  <2>2. m - 1 \in Nat /\ (m - 1) + 1 = m
    BY <2>1
  <2>3. QED
    BY <2>1, <2>2
<1>4. << m - 1, m >> \in OpToRel(<, Nat)
  BY <1>2, <1>3 DEF OpToRel
<1>5. QED
  BY <1>2, <1>3, <1>4

\* A set that has {}, and with a subset of S the subset with one more
\* element, has the finite set S.
LEMMA SubsetInduction ==
    ASSUME NEW S, IsFiniteSet(S), NEW good, {} \in good,
           \A T \in SUBSET S : \A x \in S \ T : T \in good => T \cup { x } \in good
    PROVE  S \in good
<1> DEFINE sizes == { n \in Nat : \A T \in SUBSET S : Cardinality(T) = n => T \in good }
<1>1. 0 \in sizes
  BY FS_EmptySet, FS_Subset
<1>2. ASSUME NEW n \in Nat, n \in sizes PROVE n + 1 \in sizes
  <2>1. SUFFICES ASSUME NEW T \in SUBSET S, Cardinality(T) = n + 1 PROVE T \in good
    OBVIOUS
  <2>2. IsFiniteSet(T) /\ T # {}
    BY <1>2, <2>1, FS_Subset, FS_EmptySet
  <2>3. PICK x \in T : TRUE
    BY <2>2
  <2>4. Cardinality(T \ { x }) = n
    <3>1. Cardinality(T \ { x }) = Cardinality(T) - 1
      BY <2>2, <2>3, FS_RemoveElement
    <3>2. QED
      BY <2>1, <3>1
  <2>5. T \ { x } \in good /\ x \in S \ (T \ { x }) /\ T \ { x } \in SUBSET S
    BY <1>2, <2>4
  <2>6. (T \ { x }) \cup { x } = T
    OBVIOUS
  <2>7. QED
    BY <2>5, <2>6
<1>3. Nat \subseteq sizes
  <2> HIDE DEF sizes
  <2> QED BY <1>1, <1>2, NumberInduction
<1>4. Cardinality(S) \in Nat
  BY FS_CardinalityType
<1>5. QED
  BY <1>3, <1>4

-----------------------------------------------------------------------------
(* The function that SumFunctionOnSet chooses.                             *)

Chosen(s) == CHOOSE x \in s : TRUE

\* g gives the sum of f over the sets of a family.
Sums(f, family, g) ==
    g = [ s \in family |-> IF s = {} THEN 0 ELSE f[Chosen(s)] + g[s \ { Chosen(s) }] ]

LEMMA ChosenIn == ASSUME NEW s, s # {} PROVE Chosen(s) \in s
  BY DEF Chosen

LEMMA SumsExist ==
    ASSUME NEW f, NEW S, IsFiniteSet(S)
    PROVE  \E g : Sums(f, SUBSET S, g)
<1> DEFINE upTo(n) == { s \in SUBSET S : Cardinality(s) <= n }
           good == { n \in Nat : \E g : Sums(f, upTo(n), g) }
<1>0. ASSUME NEW s \in SUBSET S PROVE IsFiniteSet(s) /\ Cardinality(s) \in Nat
  BY FS_Subset, FS_CardinalityType
<1>1. 0 \in good
  <2>1. upTo(0) = { {} }
    BY <1>0, FS_EmptySet
  <2>2. Sums(f, { {} }, [ s \in { {} } |-> 0 ])
    BY DEF Sums
  <2>3. QED
    BY <2>1, <2>2
<1>2. ASSUME NEW n \in Nat, n \in good PROVE n + 1 \in good
  <2>1. PICK g : Sums(f, upTo(n), g)
    BY <1>2
  <2>2. PICK h : h = [ s \in upTo(n + 1) |->
                         IF s = {} THEN 0 ELSE f[Chosen(s)] + g[s \ { Chosen(s) }] ]
    OBVIOUS
  <2>3. ASSUME NEW s \in upTo(n + 1), s # {}
        PROVE  s \ { Chosen(s) } \in upTo(n) /\ s \ { Chosen(s) } \in upTo(n + 1)
    <3>1. Chosen(s) \in s
      BY <2>3, ChosenIn
    <3>2. Cardinality(s \ { Chosen(s) }) = Cardinality(s) - 1
      BY <1>0, <3>1, FS_RemoveElement
    <3>3. s \ { Chosen(s) } \in SUBSET S /\ Cardinality(s) \in Nat
      BY <1>0
    <3>4. QED
      BY <1>2, <3>2, <3>3
  <2>4. ASSUME NEW t \in upTo(n), t \in upTo(n + 1) PROVE h[t] = g[t]
    BY <2>1, <2>2, <2>4 DEF Sums
  <2>5. ASSUME NEW s \in upTo(n + 1), s # {}
        PROVE  h[s \ { Chosen(s) }] = g[s \ { Chosen(s) }]
    <3> HIDE DEF upTo
    <3> QED BY <2>3, <2>4, <2>5
  <2>6. Sums(f, upTo(n + 1), h)
    <3> HIDE DEF upTo
    <3> QED BY <2>2, <2>5 DEF Sums
  <2>7. QED
    BY <2>6
<1>3. Cardinality(S) \in good
  <2>1. Nat \subseteq good
    <3> HIDE DEF good
    <3> QED BY <1>1, <1>2, NumberInduction
  <2>2. QED
    BY <2>1, FS_CardinalityType
<1>4. upTo(Cardinality(S)) = SUBSET S
  BY FS_Subset
<1>5. QED
  BY <1>3, <1>4

\* SumFunctionOnSet takes it at S.
LEMMA SumIs ==
    ASSUME NEW f, NEW S, IsFiniteSet(S)
    PROVE  \E g : Sums(f, SUBSET S, g) /\ SumFunctionOnSet(f, S) = g[S]
<1>1. PICK g : g = CHOOSE h : Sums(f, SUBSET S, h)
  OBVIOUS
<1>2. Sums(f, SUBSET S, g)
  BY <1>1, SumsExist, Zenon
<1>3. SumFunctionOnSet(f, S) = g[S]
  BY <1>1, Zenon DEF Sums, Chosen, SumFunctionOnSet, FoldFunctionOnSet, MapThenFoldSet
<1>4. QED
  BY <1>2, <1>3

LEMMA SumsAgree ==
    ASSUME NEW f, NEW S, IsFiniteSet(S), NEW T, T \subseteq S,
           NEW sets, sets = SUBSET S, NEW g, Sums(f, sets, g),
           NEW fewer, fewer = SUBSET T, NEW h, Sums(f, fewer, h)
    PROVE  g[T] = h[T]
<1> DEFINE good == { n \in Nat : \A u \in SUBSET T : Cardinality(u) <= n => g[u] = h[u] }
<1>0. ASSUME NEW u \in SUBSET T PROVE IsFiniteSet(u) /\ Cardinality(u) \in Nat
  BY FS_Subset, FS_CardinalityType
<1>1. g[{}] = 0 /\ h[{}] = 0
  BY DEF Sums
<1>2. ASSUME NEW u \in SUBSET T, u # {}
      PROVE  /\ g[u] = f[Chosen(u)] + g[u \ { Chosen(u) }]
             /\ h[u] = f[Chosen(u)] + h[u \ { Chosen(u) }]
  BY <1>2 DEF Sums
<1>3. 0 \in good
  <2>1. ASSUME NEW u \in SUBSET T, Cardinality(u) <= 0 PROVE u = {}
    BY <1>0, <2>1, FS_EmptySet
  <2>2. QED
    BY <1>1, <2>1
<1>4. ASSUME NEW n \in Nat, n \in good PROVE n + 1 \in good
  <2>0. SUFFICES ASSUME NEW u \in SUBSET T, Cardinality(u) <= n + 1 PROVE g[u] = h[u]
    OBVIOUS
  <2>1. SUFFICES ASSUME u # {} PROVE g[u] = h[u]
    BY <1>1
  <2>2. Chosen(u) \in u
    BY <2>1, ChosenIn
  <2>3. Cardinality(u \ { Chosen(u) }) = Cardinality(u) - 1
    BY <1>0, <2>2, FS_RemoveElement
  <2>4. Cardinality(u \ { Chosen(u) }) <= n
    BY <1>0, <2>0, <2>3
  <2>5. g[u \ { Chosen(u) }] = h[u \ { Chosen(u) }]
    BY <1>4, <2>4
  <2>6. QED
    BY <1>2, <2>1, <2>5
<1>5. Nat \subseteq good
  <2> HIDE DEF good
  <2> QED BY <1>3, <1>4, NumberInduction
<1>6. Cardinality(T) \in Nat
  BY <1>0
<1>7. QED
  BY <1>5, <1>6

-----------------------------------------------------------------------------
(* What the sum of a function is.                                          *)

LEMMA SumEmpty ==
    ASSUME NEW f PROVE SumFunctionOnSet(f, {}) = 0
<1>1. PICK g : Sums(f, SUBSET {}, g) /\ SumFunctionOnSet(f, {}) = g[{}]
  BY SumIs, FS_EmptySet
<1>2. QED
  BY <1>1 DEF Sums

LEMMA SumUnfolds ==
    ASSUME NEW f, NEW S, IsFiniteSet(S), S # {}
    PROVE  SumFunctionOnSet(f, S) = f[Chosen(S)] + SumFunctionOnSet(f, S \ { Chosen(S) })
<1>1. PICK T : T = S \ { Chosen(S) }
  OBVIOUS
<1>2. T \subseteq S /\ IsFiniteSet(T)
  BY <1>1, FS_Subset
<1>3. PICK g : Sums(f, SUBSET S, g) /\ SumFunctionOnSet(f, S) = g[S]
  BY SumIs
<1>4. PICK h : Sums(f, SUBSET T, h) /\ SumFunctionOnSet(f, T) = h[T]
  BY <1>2, SumIs
<1>5. g[T] = h[T]
  <2>1. PICK sets : sets = SUBSET S
    OBVIOUS
  <2>2. PICK fewer : fewer = SUBSET T
    OBVIOUS
  <2>3. Sums(f, sets, g) /\ Sums(f, fewer, h)
    BY <1>3, <1>4, <2>1, <2>2
  <2>4. QED
    BY <1>2, <2>1, <2>2, <2>3, SumsAgree
<1>6. g[S] = f[Chosen(S)] + g[T]
  BY <1>1, <1>3 DEF Sums
<1>7. QED
  BY <1>1, <1>3, <1>4, <1>5, <1>6

LEMMA SumInt ==
    ASSUME NEW f, NEW S, IsFiniteSet(S), \A x \in S : f[x] \in Int
    PROVE  SumFunctionOnSet(f, S) \in Int
<1> DEFINE good == { n \in Nat : \A u \in SUBSET S :
                       Cardinality(u) <= n => SumFunctionOnSet(f, u) \in Int }
<1>0. ASSUME NEW u \in SUBSET S PROVE IsFiniteSet(u) /\ Cardinality(u) \in Nat
  BY FS_Subset, FS_CardinalityType
<1>1. 0 \in good
  <2>1. ASSUME NEW u \in SUBSET S, Cardinality(u) <= 0 PROVE u = {}
    BY <1>0, <2>1, FS_EmptySet
  <2>2. QED
    BY <2>1, SumEmpty
<1>2. ASSUME NEW n \in Nat, n \in good PROVE n + 1 \in good
  <2>1. SUFFICES ASSUME NEW u \in SUBSET S, Cardinality(u) <= n + 1, u # {}
                 PROVE  SumFunctionOnSet(f, u) \in Int
    BY SumEmpty
  <2>2. Chosen(u) \in u
    BY <2>1, ChosenIn
  <2>3. Cardinality(u \ { Chosen(u) }) = Cardinality(u) - 1
    BY <1>0, <2>2, FS_RemoveElement
  <2>4. Cardinality(u \ { Chosen(u) }) <= n
    BY <1>0, <2>1, <2>3
  <2>5. SumFunctionOnSet(f, u \ { Chosen(u) }) \in Int
    BY <1>2, <2>4
  <2>6. SumFunctionOnSet(f, u) = f[Chosen(u)] + SumFunctionOnSet(f, u \ { Chosen(u) })
    BY <1>0, <2>1, SumUnfolds
  <2>7. QED
    BY <2>2, <2>5, <2>6
<1>3. Nat \subseteq good
  <2> HIDE DEF good
  <2> QED BY <1>1, <1>2, NumberInduction
<1>4. QED
  BY <1>0, <1>3

\* Whichever element is taken out first.
LEMMA SumRemove ==
    ASSUME NEW f, NEW S, IsFiniteSet(S), \A y \in S : f[y] \in Int, NEW x \in S
    PROVE  SumFunctionOnSet(f, S) = f[x] + SumFunctionOnSet(f, S \ { x })
<1> DEFINE good == { n \in Nat : \A u \in SUBSET S : Cardinality(u) <= n =>
                       \A y \in u : SumFunctionOnSet(f, u) = f[y] + SumFunctionOnSet(f, u \ { y }) }
<1>0. ASSUME NEW u \in SUBSET S
      PROVE  IsFiniteSet(u) /\ Cardinality(u) \in Nat /\ SumFunctionOnSet(f, u) \in Int
  <2>1. IsFiniteSet(u) /\ Cardinality(u) \in Nat
    BY FS_Subset, FS_CardinalityType
  <2>2. QED
    BY <2>1, SumInt
<1>1. 0 \in good
  BY <1>0, FS_EmptySet
<1>2. ASSUME NEW n \in Nat, n \in good PROVE n + 1 \in good
  <2>1. SUFFICES ASSUME NEW u \in SUBSET S, Cardinality(u) <= n + 1, NEW y \in u
                 PROVE  SumFunctionOnSet(f, u) = f[y] + SumFunctionOnSet(f, u \ { y })
    OBVIOUS
  <2>2. PICK c : c = Chosen(u)
    OBVIOUS
  <2>3. c \in u /\ SumFunctionOnSet(f, u) = f[c] + SumFunctionOnSet(f, u \ { c })
    BY <1>0, <2>1, <2>2, ChosenIn, SumUnfolds
  <2>4. CASE c = y
    BY <2>3, <2>4
  <2>5. CASE c # y
    <3>1. /\ u \ { c } \in SUBSET S /\ y \in u \ { c }
          /\ u \ { y } \in SUBSET S /\ c \in u \ { y }
          /\ (u \ { c }) \ { y } \in SUBSET S
          /\ (u \ { c }) \ { y } = (u \ { y }) \ { c }
      BY <2>3, <2>5
    <3>2. /\ Cardinality(u \ { c }) = Cardinality(u) - 1
          /\ Cardinality(u \ { y }) = Cardinality(u) - 1
      BY <1>0, <2>3, FS_RemoveElement
    <3>3. Cardinality(u \ { c }) <= n /\ Cardinality(u \ { y }) <= n
      BY <1>0, <2>1, <3>2
    <3>4. SumFunctionOnSet(f, u \ { c }) = f[y] + SumFunctionOnSet(f, (u \ { c }) \ { y })
      BY <1>2, <3>1, <3>3
    <3>5. SumFunctionOnSet(f, u \ { y }) = f[c] + SumFunctionOnSet(f, (u \ { y }) \ { c })
      BY <1>2, <3>1, <3>3
    <3>6. /\ f[c] \in Int /\ f[y] \in Int
          /\ SumFunctionOnSet(f, (u \ { c }) \ { y }) \in Int
      BY <1>0, <2>3, <3>1
    <3>7. PICK rest : rest = SumFunctionOnSet(f, (u \ { c }) \ { y })
      OBVIOUS
    <3>8. /\ SumFunctionOnSet(f, u) = f[c] + (f[y] + rest)
          /\ SumFunctionOnSet(f, u \ { y }) = f[c] + rest
      BY <2>3, <3>1, <3>4, <3>5, <3>7
    <3>9. QED
      BY <3>6, <3>7, <3>8
  <2>6. QED
    BY <2>4, <2>5
<1>3. Nat \subseteq good
  <2> HIDE DEF good
  <2> QED BY <1>1, <1>2, NumberInduction
<1>4. QED
  BY <1>0, <1>3

LEMMA SumAdd ==
    ASSUME NEW f, NEW S, IsFiniteSet(S), NEW x, x \notin S,
           \A y \in S \cup { x } : f[y] \in Int
    PROVE  SumFunctionOnSet(f, S \cup { x }) = f[x] + SumFunctionOnSet(f, S)
<1>1. PICK T : T = S \cup { x }
  OBVIOUS
<1>2. IsFiniteSet(T) /\ x \in T /\ T \ { x } = S
  BY <1>1, FS_AddElement
<1>3. \A y \in T : f[y] \in Int
  BY <1>1
<1>4. SumFunctionOnSet(f, T) = f[x] + SumFunctionOnSet(f, T \ { x })
  BY <1>2, <1>3, SumRemove
<1>5. QED
  BY <1>1, <1>2, <1>4

LEMMA SumSingle ==
    ASSUME NEW f, NEW x, f[x] \in Int
    PROVE  SumFunctionOnSet(f, { x }) = f[x]
<1>1. SumFunctionOnSet(f, {} \cup { x }) = f[x] + SumFunctionOnSet(f, {})
  BY SumAdd, FS_EmptySet
<1>2. {} \cup { x } = { x }
  OBVIOUS
<1>3. QED
  BY <1>1, <1>2, SumEmpty

-----------------------------------------------------------------------------
(* Sums compared.                                                          *)

LEMMA SumSame ==
    ASSUME NEW f, NEW g, NEW S, IsFiniteSet(S), \A x \in S : f[x] \in Int /\ f[x] = g[x]
    PROVE  SumFunctionOnSet(f, S) = SumFunctionOnSet(g, S)
<1> DEFINE good == { T \in SUBSET S : SumFunctionOnSet(f, T) = SumFunctionOnSet(g, T) }
<1>1. {} \in good
  BY SumEmpty
<1>2. ASSUME NEW T \in SUBSET S, NEW x \in S \ T, T \in good PROVE T \cup { x } \in good
  <2>1. IsFiniteSet(T) /\ \A y \in T \cup { x } : f[y] \in Int /\ g[y] \in Int
    BY FS_Subset
  <2>2. SumFunctionOnSet(f, T \cup { x }) = f[x] + SumFunctionOnSet(f, T)
    BY <2>1, SumAdd
  <2>3. SumFunctionOnSet(g, T \cup { x }) = g[x] + SumFunctionOnSet(g, T)
    BY <2>1, SumAdd
  <2>4. QED
    BY <1>2, <2>2, <2>3
<1>3. S \in good
  <2> HIDE DEF good
  <2> QED BY <1>1, <1>2, SubsetInduction
<1>4. QED
  BY <1>3

LEMMA SumAtMost ==
    ASSUME NEW f, NEW g, NEW S, IsFiniteSet(S),
           \A x \in S : f[x] \in Int /\ g[x] \in Int /\ f[x] <= g[x]
    PROVE  SumFunctionOnSet(f, S) <= SumFunctionOnSet(g, S)
<1> DEFINE good == { T \in SUBSET S : SumFunctionOnSet(f, T) <= SumFunctionOnSet(g, T) }
<1>1. {} \in good
  BY SumEmpty
<1>2. ASSUME NEW T \in SUBSET S, NEW x \in S \ T, T \in good PROVE T \cup { x } \in good
  <2>1. IsFiniteSet(T) /\ \A y \in T \cup { x } : f[y] \in Int /\ g[y] \in Int
    BY FS_Subset
  <2>2. SumFunctionOnSet(f, T \cup { x }) = f[x] + SumFunctionOnSet(f, T)
    BY <2>1, SumAdd
  <2>3. SumFunctionOnSet(g, T \cup { x }) = g[x] + SumFunctionOnSet(g, T)
    BY <2>1, SumAdd
  <2>4. SumFunctionOnSet(f, T) \in Int /\ SumFunctionOnSet(g, T) \in Int
    BY <2>1, SumInt
  <2>5. f[x] \in Int /\ g[x] \in Int /\ f[x] <= g[x]
    OBVIOUS
  <2>6. SumFunctionOnSet(f, T \cup { x }) <= SumFunctionOnSet(g, T \cup { x })
    BY <1>2, <2>2, <2>3, <2>4, <2>5
  <2>7. QED
    BY <2>6
<1>3. S \in good
  <2> HIDE DEF good
  <2> QED BY <1>1, <1>2, SubsetInduction
<1>4. QED
  BY <1>3

\* Naturals: the sum is at least each of them and is 0 when all of them are.
LEMMA SumNat ==
    ASSUME NEW f, NEW S, IsFiniteSet(S), \A x \in S : f[x] \in Nat
    PROVE  /\ SumFunctionOnSet(f, S) \in Nat
           /\ \A x \in S : f[x] <= SumFunctionOnSet(f, S)
           /\ SumFunctionOnSet(f, S) = 0 <=> \A x \in S : f[x] = 0
<1> DEFINE good == { T \in SUBSET S : SumFunctionOnSet(f, T) \in Nat }
<1>0. ASSUME NEW T \in SUBSET S PROVE IsFiniteSet(T) /\ \A y \in T : f[y] \in Int
  BY FS_Subset
<1>1. {} \in good
  BY SumEmpty
<1>2. ASSUME NEW T \in SUBSET S, NEW x \in S \ T, T \in good PROVE T \cup { x } \in good
  <2>1. IsFiniteSet(T) /\ \A y \in T \cup { x } : f[y] \in Int
    BY FS_Subset
  <2>2. SumFunctionOnSet(f, T \cup { x }) = f[x] + SumFunctionOnSet(f, T)
    BY <2>1, SumAdd
  <2>3. f[x] \in Nat /\ SumFunctionOnSet(f, T) \in Nat
    BY <1>2
  <2>4. QED
    BY <2>2, <2>3
<1>3. ASSUME NEW T \in SUBSET S PROVE SumFunctionOnSet(f, T) \in Nat
  <2> DEFINE ok == { U \in SUBSET T : U \in good }
  <2>1. {} \in ok
    BY <1>1
  <2>2. ASSUME NEW U \in SUBSET T, NEW x \in T \ U, U \in ok PROVE U \cup { x } \in ok
    <3> HIDE DEF good
    <3> QED BY <1>2, <2>2
  <2>3. T \in ok
    <3>1. IsFiniteSet(T)
      BY <1>0
    <3> HIDE DEF ok
    <3> QED BY <2>1, <2>2, <3>1, SubsetInduction
  <2>4. QED
    BY <2>3
<1>4. ASSUME NEW x \in S PROVE f[x] <= SumFunctionOnSet(f, S)
  <2>1. SumFunctionOnSet(f, S) = f[x] + SumFunctionOnSet(f, S \ { x })
    BY <1>0, SumRemove
  <2>2. SumFunctionOnSet(f, S \ { x }) \in Nat
    BY <1>3
  <2>3. QED
    BY <2>1, <2>2
<1>5. ASSUME \A x \in S : f[x] = 0 PROVE SumFunctionOnSet(f, S) = 0
  <2> DEFINE zero == { T \in SUBSET S : SumFunctionOnSet(f, T) = 0 }
  <2>1. {} \in zero
    BY SumEmpty
  <2>2. ASSUME NEW T \in SUBSET S, NEW x \in S \ T, T \in zero PROVE T \cup { x } \in zero
    <3>1. IsFiniteSet(T) /\ \A y \in T \cup { x } : f[y] \in Int
      BY FS_Subset
    <3>2. SumFunctionOnSet(f, T \cup { x }) = f[x] + SumFunctionOnSet(f, T)
      BY <3>1, SumAdd
    <3>3. QED
      BY <1>5, <2>2, <3>2
  <2>3. S \in zero
    <3> HIDE DEF zero
    <3> QED BY <2>1, <2>2, SubsetInduction
  <2>4. QED
    BY <2>3
<1>6. ASSUME SumFunctionOnSet(f, S) = 0, NEW x \in S PROVE f[x] = 0
  BY <1>4, <1>6
<1>7. QED
  BY <1>3, <1>4, <1>5, <1>6

LEMMA SumUnion ==
    ASSUME NEW f, NEW S, IsFiniteSet(S), NEW T, IsFiniteSet(T), S \cap T = {},
           \A x \in S \cup T : f[x] \in Int
    PROVE  SumFunctionOnSet(f, S \cup T) = SumFunctionOnSet(f, S) + SumFunctionOnSet(f, T)
<1> DEFINE good == { U \in SUBSET T :
                SumFunctionOnSet(f, S \cup U) = SumFunctionOnSet(f, S) + SumFunctionOnSet(f, U) }
<1>0. SumFunctionOnSet(f, S) \in Int
  BY SumInt
<1>1. {} \in good
  <2>1. S \cup {} = S
    OBVIOUS
  <2>2. QED
    BY <1>0, <2>1, SumEmpty
<1>2. ASSUME NEW U \in SUBSET T, NEW x \in T \ U, U \in good PROVE U \cup { x } \in good
  <2>1. /\ IsFiniteSet(U) /\ IsFiniteSet(S \cup U)
        /\ \A y \in U : f[y] \in Int
        /\ \A y \in U \cup { x } : f[y] \in Int
        /\ \A y \in (S \cup U) \cup { x } : f[y] \in Int
    BY FS_Subset, FS_Union
  <2>2. x \notin S \cup U /\ x \notin U
    OBVIOUS
  <2>3. SumFunctionOnSet(f, (S \cup U) \cup { x }) = f[x] + SumFunctionOnSet(f, S \cup U)
    BY <2>1, <2>2, SumAdd
  <2>4. SumFunctionOnSet(f, U \cup { x }) = f[x] + SumFunctionOnSet(f, U)
    BY <2>1, <2>2, SumAdd
  <2>5. (S \cup U) \cup { x } = S \cup (U \cup { x })
    OBVIOUS
  <2>6. SumFunctionOnSet(f, U) \in Int /\ f[x] \in Int
    BY <2>1, SumInt
  <2>7. SumFunctionOnSet(f, S \cup U) = SumFunctionOnSet(f, S) + SumFunctionOnSet(f, U)
    BY <1>2
  <2>8. SumFunctionOnSet(f, S \cup (U \cup { x })) = f[x] + SumFunctionOnSet(f, S \cup U)
    BY <2>3, <2>5, Zenon
  <2>9. PICK sum : sum = SumFunctionOnSet(f, S \cup (U \cup { x }))
    OBVIOUS
  <2>10. sum = SumFunctionOnSet(f, S) + SumFunctionOnSet(f, U \cup { x })
    BY <1>0, <2>4, <2>6, <2>7, <2>8, <2>9
  <2>11. QED
    BY <2>9, <2>10
<1>3. T \in good
  <2> HIDE DEF good
  <2> QED BY <1>1, <1>2, SubsetInduction
<1>4. QED
  BY <1>3

\* What is 0 may be left out.
LEMMA SumWithoutZeros ==
    ASSUME NEW f, NEW S, IsFiniteSet(S), NEW T, T \subseteq S,
           \A x \in S : f[x] \in Int, \A x \in S \ T : f[x] = 0
    PROVE  SumFunctionOnSet(f, S) = SumFunctionOnSet(f, T)
<1>0. PICK U : U = S \ T
  OBVIOUS
<1>1. IsFiniteSet(T) /\ IsFiniteSet(U)
  BY <1>0, FS_Subset, FS_Difference
<1>2. T \cap U = {} /\ T \cup U = S
  BY <1>0
<1>3. SumFunctionOnSet(f, S) = SumFunctionOnSet(f, T) + SumFunctionOnSet(f, U)
  <2>1. \A x \in T \cup U : f[x] \in Int
    BY <1>2
  <2>2. SumFunctionOnSet(f, T \cup U) = SumFunctionOnSet(f, T) + SumFunctionOnSet(f, U)
    BY <1>1, <1>2, <2>1, SumUnion
  <2>3. QED
    BY <1>2, <2>2, Zenon
<1>4. SumFunctionOnSet(f, U) = 0
  BY <1>0, <1>1, SumNat
<1>5. SumFunctionOnSet(f, T) \in Int
  BY <1>1, SumInt
<1>6. QED
  BY <1>3, <1>4, <1>5

\* The sum of a smaller set of naturals is smaller.
LEMMA SumOfSubset ==
    ASSUME NEW f, NEW S, IsFiniteSet(S), NEW T, T \subseteq S, \A x \in S : f[x] \in Nat
    PROVE  SumFunctionOnSet(f, T) <= SumFunctionOnSet(f, S)
<1>0. PICK U : U = S \ T
  OBVIOUS
<1>1. IsFiniteSet(T) /\ IsFiniteSet(U)
  BY <1>0, FS_Subset, FS_Difference
<1>2. T \cap U = {} /\ T \cup U = S
  BY <1>0
<1>3. SumFunctionOnSet(f, S) = SumFunctionOnSet(f, T) + SumFunctionOnSet(f, U)
  <2>1. \A x \in T \cup U : f[x] \in Int
    BY <1>2
  <2>2. SumFunctionOnSet(f, T \cup U) = SumFunctionOnSet(f, T) + SumFunctionOnSet(f, U)
    BY <1>1, <1>2, <2>1, SumUnion
  <2>3. QED
    BY <1>2, <2>2, Zenon
<1>4. SumFunctionOnSet(f, U) \in Nat /\ SumFunctionOnSet(f, T) \in Nat
  BY <1>0, <1>1, SumNat
<1>5. QED
  BY <1>3, <1>4

LEMMA SumDifference ==
    ASSUME NEW f, NEW g, NEW h, NEW S, IsFiniteSet(S),
           \A x \in S : f[x] \in Int /\ g[x] \in Int /\ h[x] = f[x] - g[x]
    PROVE  SumFunctionOnSet(h, S) = SumFunctionOnSet(f, S) - SumFunctionOnSet(g, S)
<1> DEFINE good == { T \in SUBSET S :
             SumFunctionOnSet(h, T) = SumFunctionOnSet(f, T) - SumFunctionOnSet(g, T) }
<1>1. {} \in good
  BY SumEmpty
<1>2. ASSUME NEW T \in SUBSET S, NEW x \in S \ T, T \in good PROVE T \cup { x } \in good
  <2>1. /\ IsFiniteSet(T)
        /\ \A y \in T \cup { x } : f[y] \in Int /\ g[y] \in Int /\ h[y] \in Int
    BY FS_Subset
  <2>2. SumFunctionOnSet(f, T \cup { x }) = f[x] + SumFunctionOnSet(f, T)
    BY <2>1, SumAdd
  <2>3. SumFunctionOnSet(g, T \cup { x }) = g[x] + SumFunctionOnSet(g, T)
    BY <2>1, SumAdd
  <2>4. SumFunctionOnSet(h, T \cup { x }) = h[x] + SumFunctionOnSet(h, T)
    BY <2>1, SumAdd
  <2>5. SumFunctionOnSet(f, T) \in Int /\ SumFunctionOnSet(g, T) \in Int
    BY <2>1, SumInt
  <2>6. f[x] \in Int /\ g[x] \in Int /\ h[x] = f[x] - g[x]
    OBVIOUS
  <2>7. SumFunctionOnSet(h, T) = SumFunctionOnSet(f, T) - SumFunctionOnSet(g, T)
    BY <1>2
  <2>8. SumFunctionOnSet(h, T \cup { x })
          = SumFunctionOnSet(f, T \cup { x }) - SumFunctionOnSet(g, T \cup { x })
    BY <2>2, <2>3, <2>4, <2>5, <2>6, <2>7
  <2>9. QED
    BY <2>8
<1>3. S \in good
  <2> HIDE DEF good
  <2> QED BY <1>1, <1>2, SubsetInduction
<1>4. QED
  BY <1>3

\* The indices may be renamed.
LEMMA SumRenamed ==
    ASSUME NEW f, NEW S, IsFiniteSet(S), NEW name,
           \A x, y \in S : name[x] = name[y] => x = y,
           NEW g, \A x \in S : f[x] \in Int /\ g[name[x]] = f[x],
           NEW T, T = { name[x] : x \in S }
    PROVE  IsFiniteSet(T) /\ SumFunctionOnSet(g, T) = SumFunctionOnSet(f, S)
<1> DEFINE good == { U \in SUBSET S :
             \E N : /\ N = { name[x] : x \in U }
                    /\ IsFiniteSet(N)
                    /\ SumFunctionOnSet(g, N) = SumFunctionOnSet(f, U) }
<1>1. {} \in good
  <2>1. { name[x] : x \in {} } = {}
    OBVIOUS
  <2>2. QED
    BY <2>1, SumEmpty, FS_EmptySet
<1>2. ASSUME NEW U \in SUBSET S, NEW x \in S \ U, U \in good PROVE U \cup { x } \in good
  <2>1. PICK N : /\ N = { name[z] : z \in U }
                 /\ IsFiniteSet(N)
                 /\ SumFunctionOnSet(g, N) = SumFunctionOnSet(f, U)
    BY <1>2
  <2>2. IsFiniteSet(U) /\ \A y \in U \cup { x } : f[y] \in Int
    BY FS_Subset
  <2>3. SumFunctionOnSet(f, U \cup { x }) = f[x] + SumFunctionOnSet(f, U)
    BY <2>2, SumAdd
  <2>4. PICK n : n = name[x]
    OBVIOUS
  <2>5. n \notin N /\ \A y \in N \cup { n } : g[y] \in Int
    BY <2>1, <2>4
  <2>6. SumFunctionOnSet(g, N \cup { n }) = g[n] + SumFunctionOnSet(g, N)
    BY <2>1, <2>5, SumAdd
  <2>7. IsFiniteSet(N \cup { n })
    BY <2>1, FS_AddElement
  <2>8. N \cup { n } = { name[z] : z \in U \cup { x } }
    BY <2>1, <2>4
  <2>9. SumFunctionOnSet(g, N \cup { n }) = SumFunctionOnSet(f, U \cup { x })
    BY <2>1, <2>3, <2>4, <2>6
  <2>10. QED
    BY <2>7, <2>8, <2>9
<1>3. S \in good
  <2> HIDE DEF good
  <2> QED BY <1>1, <1>2, SubsetInduction
<1>4. QED
  BY <1>3
=============================================================================
