----------------------------- MODULE FoldLemmas -----------------------------
(***************************************************************************)
(* Facts about the folds and sums the models are written with, proved once   *)
(* and cited by the proof modules.  The induction is over sets (a set of     *)
(* naturals, of subsets or of indices that is closed under a step), from the *)
(* well-foundedness of < on Nat; the recursive functions inside the library's*)
(* definitions are shown to exist before anything is said of their values.   *)
(***************************************************************************)
EXTENDS Integers, Sequences, FiniteSets, FiniteSetsExt, SequencesExt, Functions, FiniteSetTheorems,
        WellFoundedInduction, TLAPS

\* Induction, for a set: one that has 0 and the successor of each member is Nat.
LEMMA NatSetInduction ==
  ASSUME NEW T \in SUBSET Nat, 0 \in T, \A n \in T : n + 1 \in T
  PROVE  T = Nat
<1> DEFINE R == {ss \in Nat \X Nat : ss[1] < ss[2]}
<1>1. IsWellFoundedOn(R, Nat)
  BY NatLessThanWellFounded DEF OpToRel
<1>2. SUFFICES ASSUME Nat \ T # {} PROVE FALSE
  OBVIOUS
<1>3. PICK x \in Nat \ T : \A y \in Nat \ T : ~(<<y, x>> \in R)
  BY <1>1, <1>2, WFMin
<1>4. x # 0 /\ x - 1 \in Nat
  OBVIOUS
<1>5. <<x - 1, x>> \in R
  BY <1>4
<1>6. x - 1 \in T
  BY <1>3, <1>4, <1>5
<1> QED BY <1>6

\* One element less is one less.
LEMMA CardinalityMinusOne ==
  ASSUME NEW T, IsFiniteSet(T), NEW n \in Nat, Cardinality(T) = n + 1
  PROVE  T # {} /\ \A x \in T : Cardinality(T \ {x}) = n
<1>1. T # {}
  BY FS_EmptySet
<1>2. ASSUME NEW x \in T PROVE Cardinality(T \ {x}) = n
  BY FS_RemoveElement
<1> QED BY <1>1, <1>2

\* Induction over the subsets of a finite set, one element at a time.
LEMMA SubsetInduction ==
  ASSUME NEW S, IsFiniteSet(S), NEW U,
         {} \in U,
         \A T \in SUBSET S : (T # {} /\ \A x \in T : T \ {x} \in U) => T \in U
  PROVE  \A T \in SUBSET S : T \in U
<1> DEFINE N == {n \in Nat : \A T \in SUBSET S : Cardinality(T) = n => T \in U}
<1>1. 0 \in N
  BY FS_EmptySet, FS_Subset
<1>2. ASSUME NEW n \in Nat, \A T \in SUBSET S : Cardinality(T) = n => T \in U
      PROVE  \A T \in SUBSET S : Cardinality(T) = n + 1 => T \in U
  <2> HIDE DEF N
  <2>1. SUFFICES ASSUME NEW T \in SUBSET S, Cardinality(T) = n + 1 PROVE T \in U
    OBVIOUS
  <2>2. IsFiniteSet(T)
    BY FS_Subset
  <2>3. T # {} /\ \A x \in T : Cardinality(T \ {x}) = n
    BY <2>1, <2>2, CardinalityMinusOne
  <2>4. ASSUME NEW x \in T PROVE T \ {x} \in U
    BY <2>3, <1>2
  <2> QED BY <2>3, <2>4
<1>5. \A n \in N : n + 1 \in N
  BY <1>2
<1>6. N \in SUBSET Nat
  OBVIOUS
<1> HIDE DEF N
<1>3. N = Nat
  BY <1>1, <1>5, <1>6, NatSetInduction
<1>4. ASSUME NEW T \in SUBSET S PROVE T \in U
  <2>1. Cardinality(T) \in Nat
    BY FS_Subset, FS_CardinalityType
  <2> QED BY <2>1, <1>3 DEF N
<1> QED BY <1>4

\* The element a set fold takes next.
Pick(s) == CHOOSE x \in s : TRUE

\* What g must satisfy to be the function SumFunctionOnSet defines on the subsets of S.
Summing(g, f, S) ==
    g = [s \in SUBSET S |-> IF s = {} THEN 0 ELSE f[Pick(s)] + g[s \ {Pick(s)}]]

\* It is one of the set.
LEMMA PickIn == \A s : s # {} => Pick(s) \in s
BY DEF Pick

\* What SumFunctionOnSet chooses.
LEMMA SumUnfold ==
  ASSUME NEW f, NEW S
  PROVE SumFunctionOnSet(f, S) = (CHOOSE g : Summing(g, f, S))[S]
BY DEF SumFunctionOnSet, FoldFunctionOnSet, MapThenFoldSet, Summing, Pick

\* Such a function exists for every finite set ...
LEMMA SummingExists ==
  ASSUME NEW S, IsFiniteSet(S), NEW f
  PROVE  \E g : Summing(g, f, S)
<1> DEFINE D(n) == {s \in SUBSET S : Cardinality(s) <= n}
           Part(g, n) == g = [s \in D(n) |-> IF s = {} THEN 0 ELSE f[Pick(s)] + g[s \ {Pick(s)}]]
           N == {n \in Nat : \E g : Part(g, n)}
<1>1. \A s \in SUBSET S : IsFiniteSet(s) /\ Cardinality(s) \in Nat /\ (Cardinality(s) = 0 <=> s = {})
  BY FS_Subset, FS_CardinalityType, FS_EmptySet
<1>2. \A s \in SUBSET S : s # {} => Cardinality(s \ {Pick(s)}) = Cardinality(s) - 1
  BY <1>1, PickIn, FS_RemoveElement
<1>3. 0 \in N
  <2>1. D(0) = {{}}
    BY <1>1
  <2>2. Part([s \in D(0) |-> 0], 0)
    BY <2>1
  <2> QED BY <2>2
<1>4. ASSUME NEW n \in N PROVE n + 1 \in N
  <2>1. n \in Nat
    OBVIOUS
  <2>2. PICK g : Part(g, n)
    OBVIOUS
  <2> DEFINE h == [s \in D(n + 1) |-> IF s = {} THEN 0 ELSE f[Pick(s)] + g[s \ {Pick(s)}]]
  <2>3. ASSUME NEW s \in D(n + 1), s # {} PROVE s \ {Pick(s)} \in D(n) /\ s \ {Pick(s)} \in D(n + 1)
    BY <2>1, <2>3, <1>1, <1>2
  <2>4. \A s \in D(n) : s \in D(n + 1)
    BY <2>1, <1>1
  <2>5. \A s \in D(n) : h[s] = g[s]
    BY <2>2, <2>4
  <2>6. Part(h, n + 1)
    BY <2>3, <2>5
  <2> HIDE DEF h
  <2>7. \E k : Part(k, n + 1)
    BY <2>6
  <2> HIDE DEF Part
  <2> QED BY <2>1, <2>7
<1>5. N = Nat
  <2> HIDE DEF N
  <2> QED BY <1>3, <1>4, NatSetInduction DEF N
<1>6. PICK g : Part(g, Cardinality(S))
  BY <1>1, <1>5
<1>7. D(Cardinality(S)) = SUBSET S
  BY <1>1, FS_Subset
<1> QED BY <1>6, <1>7 DEF Summing

\* ... and its values do not depend on which set it was made for.
LEMMA SummingUnique ==
  ASSUME NEW S, IsFiniteSet(S), NEW R \in SUBSET S, NEW f, NEW e, NEW g, NEW h,
         \A x \in R : e[x] = f[x],
         Summing(g, e, R), Summing(h, f, S)
  PROVE  \A s \in SUBSET R : g[s] = h[s]
<1> DEFINE U == {s \in SUBSET R : g[s] = h[s]}
<1>1. IsFiniteSet(R)
  BY FS_Subset
<1>2. {} \in U
  BY DEF Summing
<1>3. ASSUME NEW T \in SUBSET R, T # {}, \A x \in T : T \ {x} \in U PROVE T \in U
  <2>1. Pick(T) \in T
    BY <1>3, PickIn
  <2>2. g[T] = e[Pick(T)] + g[T \ {Pick(T)}]
    BY <1>3 DEF Summing
  <2>3. h[T] = f[Pick(T)] + h[T \ {Pick(T)}]
    BY <1>3 DEF Summing
  <2> QED BY <2>1, <2>2, <2>3, <1>3
<1> HIDE DEF U
<1>4. \A T \in SUBSET R : T \in U
  BY <1>1, <1>2, <1>3, SubsetInduction
<1> QED BY <1>4 DEF U

\* So the sum is the value of such a function.
LEMMA SumSumming ==
  ASSUME NEW S, IsFiniteSet(S), NEW f
  PROVE  \E g : Summing(g, f, S) /\ SumFunctionOnSet(f, S) = g[S]
<1>1. Summing(CHOOSE g : Summing(g, f, S), f, S)
  BY SummingExists
<1> QED BY <1>1, SumUnfold

\* Nothing sums to zero.
LEMMA SumEmpty == \A f : SumFunctionOnSet(f, {}) = 0
<1> TAKE f
<1>1. PICK g : Summing(g, f, {}) /\ SumFunctionOnSet(f, {}) = g[{}]
  BY SumSumming, FS_EmptySet
<1> QED BY <1>1 DEF Summing

\* A sum depends on nothing but the values summed.
LEMMA SumSame ==
  ASSUME NEW S, IsFiniteSet(S), NEW e, NEW f, \A x \in S : e[x] = f[x]
  PROVE  SumFunctionOnSet(e, S) = SumFunctionOnSet(f, S)
<1>1. PICK g : Summing(g, e, S) /\ SumFunctionOnSet(e, S) = g[S]
  BY SumSumming
<1>2. PICK h : Summing(h, f, S) /\ SumFunctionOnSet(f, S) = h[S]
  BY SumSumming
<1> QED BY <1>1, <1>2, SummingUnique

\* A sum is taken apart at the element CHOOSE picks.
LEMMA SumPicked ==
  ASSUME NEW S, IsFiniteSet(S), S # {}, NEW f
  PROVE  SumFunctionOnSet(f, S) = f[Pick(S)] + SumFunctionOnSet(f, S \ {Pick(S)})
<1>1. PICK g : Summing(g, f, S) /\ SumFunctionOnSet(f, S) = g[S]
  BY SumSumming
<1>2. IsFiniteSet(S \ {Pick(S)})
  BY FS_RemoveElement
<1>3. PICK h : Summing(h, f, S \ {Pick(S)}) /\ SumFunctionOnSet(f, S \ {Pick(S)}) = h[S \ {Pick(S)}]
  BY <1>2, SumSumming
<1>4. h[S \ {Pick(S)}] = g[S \ {Pick(S)}]
  BY <1>1, <1>3, SummingUnique
<1>5. g[S] = f[Pick(S)] + g[S \ {Pick(S)}]
  BY <1>1 DEF Summing
<1> QED BY <1>1, <1>3, <1>4, <1>5

\* Naturals sum to a natural.
LEMMA SumNat ==
  ASSUME NEW S, IsFiniteSet(S), NEW f, \A x \in S : f[x] \in Nat
  PROVE  SumFunctionOnSet(f, S) \in Nat
<1> DEFINE U == {T \in SUBSET S : SumFunctionOnSet(f, T) \in Nat}
<1>1. {} \in U
  BY SumEmpty
<1>2. ASSUME NEW T \in SUBSET S, T # {}, \A x \in T : T \ {x} \in U PROVE T \in U
  <2>1. Pick(T) \in T /\ IsFiniteSet(T)
    BY <1>2, PickIn, FS_Subset
  <2>2. SumFunctionOnSet(f, T) = f[Pick(T)] + SumFunctionOnSet(f, T \ {Pick(T)})
    BY <1>2, <2>1, SumPicked
  <2>3. SumFunctionOnSet(f, T \ {Pick(T)}) \in Nat
    BY <1>2, <2>1
  <2> QED BY <2>1, <2>2, <2>3
<1> HIDE DEF U
<1>3. \A T \in SUBSET S : T \in U
  BY <1>1, <1>2, SubsetInduction
<1> QED BY <1>3 DEF U

\* A sum is taken apart at any element, not only at the one CHOOSE picks.
LEMMA SumRemove ==
  ASSUME NEW S, IsFiniteSet(S), NEW f, \A x \in S : f[x] \in Nat
  PROVE  \A x \in S : SumFunctionOnSet(f, S) = f[x] + SumFunctionOnSet(f, S \ {x})
<1> DEFINE Total(T) == SumFunctionOnSet(f, T)
           U == {T \in SUBSET S : \A x \in T : Total(T) = f[x] + Total(T \ {x})}
<1>1. {} \in U
  OBVIOUS
<1>2. ASSUME NEW T \in SUBSET S, T # {}, \A x \in T : T \ {x} \in U PROVE T \in U
  <2>1. SUFFICES ASSUME NEW x \in T PROVE Total(T) = f[x] + Total(T \ {x})
    OBVIOUS
  <2>2. PICK c \in T : Total(T) = f[c] + Total(T \ {c})
    <3>1. Pick(T) \in T /\ IsFiniteSet(T)
      BY <1>2, PickIn, FS_Subset
    <3> QED BY <3>1, <1>2, SumPicked
  <2>3. CASE x = c
    BY <2>2, <2>3
  <2>4. CASE x # c
    <3>1. Total(T \ {c}) = f[x] + Total((T \ {c}) \ {x})
      BY <1>2, <2>4
    <3>2. Total(T \ {x}) = f[c] + Total((T \ {x}) \ {c})
      BY <1>2, <2>4
    <3>3. (T \ {c}) \ {x} = (T \ {x}) \ {c}
      OBVIOUS
    <3>4. PICK R : R = (T \ {x}) \ {c}
      OBVIOUS
    <3>5. Total(R) \in Nat
      BY <3>4, FS_Subset, SumNat
    <3>6. f[x] \in Nat /\ f[c] \in Nat
      OBVIOUS
    <3> HIDE DEF Total
    <3> QED BY <2>2, <3>1, <3>2, <3>3, <3>4, <3>5, <3>6
  <2> QED BY <2>3, <2>4
<1> HIDE DEF U
<1>3. \A T \in SUBSET S : T \in U
  BY <1>1, <1>2, SubsetInduction
<1> QED BY <1>3 DEF U

\* A sum over S is the sum over a part of S and the sum over the rest.
LEMMA SumSplit ==
  ASSUME NEW S, IsFiniteSet(S), NEW f, \A x \in S : f[x] \in Nat
  PROVE  \A T \in SUBSET S :
            SumFunctionOnSet(f, S) = SumFunctionOnSet(f, T) + SumFunctionOnSet(f, S \ T)
<1> DEFINE Total(T) == SumFunctionOnSet(f, T)
           U == {T \in SUBSET S : Total(S) = Total(T) + Total(S \ T)}
<1>0. \A T \in SUBSET S : Total(T) \in Nat
  BY FS_Subset, SumNat
<1>1. {} \in U
  <2>1. S \ {} = S /\ Total({}) = 0
    BY SumEmpty
  <2>2. Total(S) \in Nat
    BY <1>0
  <2> HIDE DEF Total
  <2> QED BY <2>1, <2>2
<1>2. ASSUME NEW T \in SUBSET S, T # {}, \A x \in T : T \ {x} \in U PROVE T \in U
  <2>1. PICK a \in T : TRUE
    BY <1>2
  <2>2. Total(T) = f[a] + Total(T \ {a})
    BY FS_Subset, SumRemove
  <2>3. Total(S \ (T \ {a})) = f[a] + Total((S \ (T \ {a})) \ {a})
    <3>1. IsFiniteSet(S \ (T \ {a})) /\ a \in S \ (T \ {a})
      BY FS_Subset
    <3> QED BY <3>1, SumRemove
  <2>4. (S \ (T \ {a})) \ {a} = S \ T
    OBVIOUS
  <2>5. Total(S) = Total(T \ {a}) + Total(S \ (T \ {a}))
    BY <1>2
  <2>6. Total(T \ {a}) \in Nat /\ Total(S \ T) \in Nat /\ f[a] \in Nat
    BY <1>0
  <2> HIDE DEF Total
  <2> QED BY <2>2, <2>3, <2>4, <2>5, <2>6
<1> HIDE DEF U
<1>3. \A T \in SUBSET S : T \in U
  BY <1>1, <1>2, SubsetInduction
<1> QED BY <1>3 DEF U

\* A set of naturals that is not empty has a least element.
LEMMA NatLeast ==
  ASSUME NEW S \in SUBSET Nat, S # {}
  PROVE  \E m \in S : \A x \in S : m <= x
<1> DEFINE R == {ss \in Nat \X Nat : ss[1] < ss[2]}
<1>1. IsWellFoundedOn(R, Nat)
  BY NatLessThanWellFounded DEF OpToRel
<1>2. PICK m \in S : \A y \in S : ~(<<y, m>> \in R)
  BY <1>1, WFMin
<1>3. ASSUME NEW x \in S PROVE m <= x
  <2>1. ~(x < m)
    BY <1>2
  <2> QED BY <2>1
<1> QED BY <1>3

\* Max of a set that has a greatest element is that element.
LEMMA MaxIs ==
  ASSUME NEW S \in SUBSET Int, NEW m \in S, \A x \in S : x <= m
  PROVE  Max(S) = m
<1>1. \E x \in S : \A y \in S : x >= y
  OBVIOUS
<1>2. Max(S) \in S /\ \A y \in S : Max(S) >= y
  BY <1>1 DEF Max
<1>3. m \in Int /\ Max(S) \in Int /\ Max(S) >= m /\ Max(S) <= m
  BY <1>2
<1> QED BY <1>3

\* A finite set of integers has one.
LEMMA MaxIn ==
  ASSUME NEW S \in SUBSET Int, IsFiniteSet(S), S # {}
  PROVE  Max(S) \in S /\ \A x \in S : x <= Max(S)
<1> DEFINE U == {T \in SUBSET S : T # {} => \E m \in T : \A x \in T : x <= m}
<1>1. {} \in U
  OBVIOUS
<1>2. ASSUME NEW T \in SUBSET S, T # {}, \A x \in T : T \ {x} \in U PROVE T \in U
  <2>1. PICK a \in T : TRUE
    BY <1>2
  <2>2. CASE T \ {a} = {}
    BY <2>1, <2>2
  <2>3. CASE T \ {a} # {}
    <3>1. PICK m \in T \ {a} : \A x \in T \ {a} : x <= m
      BY <1>2, <2>1, <2>3
    <3>2. CASE m >= a
      BY <3>1, <3>2
    <3>3. CASE ~(m >= a)
      BY <3>1, <3>3, <2>1
    <3> QED BY <3>2, <3>3
  <2> QED BY <2>2, <2>3
<1> HIDE DEF U
<1>3. \A T \in SUBSET S : T \in U
  BY <1>1, <1>2, SubsetInduction
<1>4. PICK m \in S : \A x \in S : x <= m
  BY <1>3 DEF U
<1> QED BY <1>4, MaxIs

\* What FoldLeft's recursion asks of g, G[i] being what the i-th element does.
Folding(g, n, b, G) ==
    g = [t \in SUBSET (1..n) |-> IF t = {} THEN b ELSE G[Max(t)][g[t \ {Max(t)}]]]

\* The recursion of FoldLeft, over the subsets of the indices, has a solution.
LEMMA FoldExists ==
  ASSUME NEW n \in Nat, NEW A, NEW b \in A, NEW G \in [1..n -> [A -> A]]
  PROVE  \E g \in [SUBSET (1..n) -> A] : Folding(g, n, b, G)
<1> DEFINE D(k) == {t \in SUBSET (1..n) : Cardinality(t) <= k}
           Part(g, k) == /\ g \in [D(k) -> A]
                         /\ g = [t \in D(k) |-> IF t = {} THEN b ELSE G[Max(t)][g[t \ {Max(t)}]]]
           N == {k \in Nat : \E g : Part(g, k)}
<1>0. IsFiniteSet(1..n) /\ Cardinality(1..n) = n
  BY FS_Interval
<1>1. \A t \in SUBSET (1..n) : IsFiniteSet(t) /\ Cardinality(t) \in Nat /\ (Cardinality(t) = 0 <=> t = {})
  BY <1>0, FS_Subset, FS_CardinalityType, FS_EmptySet
<1>2. ASSUME NEW t \in SUBSET (1..n), t # {}
      PROVE  Max(t) \in 1..n /\ Max(t) \in t /\ Cardinality(t \ {Max(t)}) = Cardinality(t) - 1
  <2>1. Max(t) \in t
    BY <1>1, <1>2, MaxIn
  <2> QED BY <1>1, <2>1, FS_RemoveElement
<1>3. 0 \in N
  <2>1. D(0) = {{}}
    BY <1>1
  <2>2. Part([t \in D(0) |-> b], 0)
    BY <2>1
  <2> QED BY <2>2
<1>4. ASSUME NEW k \in N PROVE k + 1 \in N
  <2>1. k \in Nat
    OBVIOUS
  <2>2. PICK g : Part(g, k)
    OBVIOUS
  <2> DEFINE h == [t \in D(k + 1) |-> IF t = {} THEN b ELSE G[Max(t)][g[t \ {Max(t)}]]]
  <2>3. ASSUME NEW t \in D(k + 1), t # {}
        PROVE  t \ {Max(t)} \in D(k) /\ t \ {Max(t)} \in D(k + 1) /\ Max(t) \in 1..n
    <3>1. t \in SUBSET (1..n) /\ Cardinality(t) \in Nat /\ Cardinality(t) <= k + 1
      BY <1>1
    <3>2. Max(t) \in 1..n /\ Cardinality(t \ {Max(t)}) = Cardinality(t) - 1
      BY <2>3, <3>1, <1>2
    <3>3. t \ {Max(t)} \in SUBSET (1..n)
      BY <3>1
    <3> QED BY <2>1, <3>1, <3>2, <3>3
  <2>4. \A t \in D(k) : t \in D(k + 1)
    BY <2>1, <1>1
  <2>5. \A t \in D(k) : h[t] = g[t]
    BY <2>2, <2>4
  <2>8. h \in [D(k + 1) -> A]
    <3>1. ASSUME NEW t \in D(k + 1), t # {} PROVE G[Max(t)][g[t \ {Max(t)}]] \in A
      <4>1. g[t \ {Max(t)}] \in A /\ G[Max(t)] \in [A -> A]
        BY <2>2, <2>3, <3>1
      <4> QED BY <4>1
    <3> QED BY <3>1
  <2>9. h = [t \in D(k + 1) |-> IF t = {} THEN b ELSE G[Max(t)][h[t \ {Max(t)}]]]
    BY <2>3, <2>5
  <2>6. Part(h, k + 1)
    BY <2>8, <2>9
  <2> HIDE DEF h
  <2>7. \E f : Part(f, k + 1)
    BY <2>6
  <2> HIDE DEF Part
  <2> QED BY <2>1, <2>7
<1>5. N = Nat
  <2> HIDE DEF N
  <2> QED BY <1>3, <1>4, NatSetInduction DEF N
<1>6. PICK g : Part(g, n)
  BY <1>5
<1>7. D(n) = SUBSET (1..n)
  BY <1>0, <1>1, FS_Subset
<1> QED BY <1>6, <1>7 DEF Folding

\* The greatest of some indices is one of them.
LEMMA MaxOfIndices ==
  ASSUME NEW n \in Nat, NEW t \in SUBSET (1..n), t # {}
  PROVE  Max(t) \in 1..n /\ t \ {Max(t)} \in SUBSET (1..n)
<1>1. IsFiniteSet(1..n)
  BY FS_Interval
<1>2. IsFiniteSet(t)
  BY <1>1, FS_Subset
<1>3. t \in SUBSET Int
  OBVIOUS
<1>4. Max(t) \in t
  BY <1>2, <1>3, MaxIn
<1> QED BY <1>4

\* Read along the prefixes, a solution is a run of the loop FoldLeft stands for.
LEMMA PrefixRun ==
  ASSUME NEW n \in Nat, NEW i \in 1..n
  PROVE  1..i \in SUBSET (1..n) /\ 1..i # {} /\ Max(1..i) = i /\ (1..i) \ {Max(1..i)} = 1..(i - 1)
<1>0. 1..i \in SUBSET Int /\ i \in 1..i /\ \A x \in 1..i : x <= i
  OBVIOUS
<1>1. Max(1..i) = i
  BY <1>0, MaxIs
<1> QED BY <1>1

\* What holds before a loop and is kept by each of its rounds holds after every one.
LEMMA IndexInduction ==
  ASSUME NEW n \in Nat, NEW T, 0 \in T, \A i \in 1..n : i - 1 \in T => i \in T
  PROVE  \A i \in 0..n : i \in T
<1> DEFINE N == {i \in Nat : i <= n => i \in T}
<1>1. 0 \in N /\ N \in SUBSET Nat
  OBVIOUS
<1>2. ASSUME NEW i \in N PROVE i + 1 \in N
  <2>1. i \in Nat /\ i + 1 \in Nat
    OBVIOUS
  <2>2. CASE i + 1 <= n
    <3>1. i \in T /\ i + 1 \in 1..n /\ (i + 1) - 1 = i
      BY <2>1, <2>2
    <3> QED BY <2>1, <3>1
  <2> QED BY <2>1, <2>2
<1>3. N = Nat
  <2> HIDE DEF N
  <2> QED BY <1>1, <1>2, NatSetInduction
<1> QED BY <1>3

\* A finite set of naturals of a set's parts: their sizes, and that no two meet.
PartsOf(part, w, C, D) ==
    /\ \A c \in C : part[c] \in SUBSET D /\ w[c] = Cardinality(part[c])
    /\ \A c, d \in C : c # d => part[c] \cap part[d] = {}

\* The sizes of parts that do not meet sum to the size of what they make together.
LEMMA SumOfParts ==
  ASSUME NEW C, IsFiniteSet(C), NEW D, IsFiniteSet(D), NEW part, NEW w, PartsOf(part, w, C, D)
  PROVE  SumFunctionOnSet(w, C) = Cardinality(UNION {part[c] : c \in C})
<1> DEFINE Whole(T) == UNION {part[c] : c \in T}
           U == {T \in SUBSET C : SumFunctionOnSet(w, T) = Cardinality(Whole(T))}
<1>0. \A c \in C : IsFiniteSet(part[c]) /\ w[c] = Cardinality(part[c]) /\ w[c] \in Nat
  BY FS_Subset, FS_CardinalityType DEF PartsOf
<1>1. {} \in U
  <2>1. Whole({}) = {}
    OBVIOUS
  <2> QED BY <2>1, SumEmpty, FS_EmptySet
<1>2. ASSUME NEW T \in SUBSET C, T # {}, \A x \in T : T \ {x} \in U PROVE T \in U
  <2>1. PICK c \in T : TRUE
    BY <1>2
  <2>2. IsFiniteSet(T)
    BY FS_Subset
  <2>3. SumFunctionOnSet(w, T) = w[c] + SumFunctionOnSet(w, T \ {c})
    BY <1>0, <2>2, SumRemove
  <2>4. SumFunctionOnSet(w, T \ {c}) = Cardinality(Whole(T \ {c}))
    BY <1>2
  <2>5. PICK P, Q : P = part[c] /\ Q = Whole(T \ {c})
    OBVIOUS
  <2>6. Whole(T) = P \cup Q /\ P \cap Q = {} /\ Q \in SUBSET D
    BY <2>5 DEF PartsOf
  <2>7. IsFiniteSet(P) /\ IsFiniteSet(Q)
    BY <1>0, <2>5, <2>6, FS_Subset
  <2>8. Cardinality(P \cup Q) = Cardinality(P) + Cardinality(Q)
    <3>1. Cardinality(P \cup Q) = Cardinality(P) + Cardinality(Q) - Cardinality(P \cap Q)
      BY <2>7, FS_Union
    <3>2. Cardinality(P \cap Q) = 0
      BY <2>6, FS_EmptySet
    <3> QED BY <2>7, <3>1, <3>2, FS_CardinalityType
  <2>9. SumFunctionOnSet(w, T) = Cardinality(Whole(T))
    BY <1>0, <2>3, <2>4, <2>5, <2>6, <2>8
  <2> QED BY <2>9
<1> HIDE DEF U
<1>3. \A T \in SUBSET C : T \in U
  BY <1>1, <1>2, SubsetInduction
<1> QED BY <1>3 DEF U

\* The values of a function on a finite set are finitely many.
LEMMA ImageIsFinite ==
  ASSUME NEW S, IsFiniteSet(S), NEW f
  PROVE  IsFiniteSet({f[x] : x \in S})
<1>1. PICK Y : Y = {f[x] : x \in S}
  OBVIOUS
<1>2. PICK g : g = [x \in S |-> f[x]]
  OBVIOUS
<1>3. g \in Surjection(S, Y)
  BY <1>1, <1>2 DEF Surjection
<1>4. IsFiniteSet(Y)
  BY <1>3, FS_Surjection
<1> QED BY <1>1, <1>4

\* SetToSeq lists a finite set: every element has a place, and nothing else has.
LEMMA SetToSeqLists ==
  ASSUME NEW S, IsFiniteSet(S)
  PROVE  \E n \in Nat : \E s \in [1..n -> S] : SetToSeq(S) = s /\ \A x \in S : \E i \in 1..n : s[i] = x
<1>1. PICK n \in Nat : n = Cardinality(S)
  BY FS_CardinalityType
<1>2. \E f \in [1..n -> S] : IsInjective(f)
  BY <1>1, FS_CardinalityType DEF ExistsBijection, Bijection, Injection
<1>3. PICK s \in [1..n -> S] : IsInjective(s) /\ SetToSeq(S) = s
  BY <1>1, <1>2 DEF SetToSeq
<1>4. s \in Injection(1..n, S)
  BY <1>3 DEF Injection
<1>5. Cardinality(1..n) = Cardinality(S)
  BY <1>1, FS_Interval
<1>6. s \in Surjection(1..n, S)
  BY <1>4, <1>5, FS_Injection
<1> QED BY <1>3, <1>6 DEF Surjection

\* The lesser of two numbers.
LEMMA MinOfTwo ==
  ASSUME NEW a \in Int, NEW b \in Int
  PROVE  Min({a, b}) = IF a <= b THEN a ELSE b
<1>1. \E x \in {a, b} : \A y \in {a, b} : x <= y
  OBVIOUS
<1>2. Min({a, b}) \in {a, b} /\ \A y \in {a, b} : Min({a, b}) <= y
  BY <1>1 DEF Min
<1> QED BY <1>2

\* The least of three.
LEMMA MinOfThree ==
  ASSUME NEW a \in Int, NEW b \in Int, NEW c \in Int
  PROVE  /\ Min({a, b, c}) \in {a, b, c}
         /\ Min({a, b, c}) <= a /\ Min({a, b, c}) <= b /\ Min({a, b, c}) <= c
<1>1. \E x \in {a, b, c} : \A y \in {a, b, c} : x <= y
  OBVIOUS
<1>2. Min({a, b, c}) \in {a, b, c} /\ \A y \in {a, b, c} : Min({a, b, c}) <= y
  BY <1>1 DEF Min
<1> QED BY <1>2

\* The greater of two.
LEMMA MaxOfTwo ==
  ASSUME NEW a \in Int, NEW b \in Int
  PROVE  Max({a, b}) = IF a >= b THEN a ELSE b
<1>1. CASE a >= b
  BY <1>1, MaxIs
<1>2. CASE ~(a >= b)
  BY <1>2, MaxIs
<1> QED BY <1>1, <1>2

\* Taking the greatest of some indices away leaves one less.
LEMMA MaxAway ==
  ASSUME NEW n \in Nat, NEW t \in SUBSET (1..n), t # {}
  PROVE  /\ Max(t) \in 1..n
         /\ t \ {Max(t)} \in SUBSET (1..n)
         /\ Cardinality(t) \in Nat
         /\ Cardinality(t \ {Max(t)}) = Cardinality(t) - 1
<1>0. IsFiniteSet(1..n)
  BY FS_Interval
<1>1. IsFiniteSet(t)
  BY <1>0, FS_Subset
<1>2. Max(t) \in t
  <2>1. t \in SUBSET Int
    OBVIOUS
  <2> QED BY <1>1, <2>1, MaxIn
<1> QED BY <1>1, <1>2, FS_CardinalityType, FS_RemoveElement

\* The sets of at most k of n indices.
Few(n, k) == {t \in SUBSET (1..n) : Cardinality(t) <= k}

\* None of them, to begin with; all of them in the end; and by one element more each time.
LEMMA FewSteps ==
  ASSUME NEW n \in Nat
  PROVE  /\ Few(n, 0) = {{}}
         /\ Few(n, n) = SUBSET (1..n)
         /\ \A k \in Nat : \A t \in Few(n, k) : t \in Few(n, k + 1)
         /\ \A k \in Nat : \A t \in Few(n, k + 1) :
               t # {} => t \ {Max(t)} \in Few(n, k) /\ t \ {Max(t)} \in Few(n, k + 1)
<1>0. IsFiniteSet(1..n) /\ Cardinality(1..n) = n
  BY FS_Interval
<1>a. \A t \in SUBSET (1..n) : IsFiniteSet(t) /\ Cardinality(t) <= n
  BY <1>0, FS_Subset
<1>1. \A t \in SUBSET (1..n) : Cardinality(t) \in Nat /\ (Cardinality(t) = 0 <=> t = {}) /\ Cardinality(t) <= n
  BY <1>a, FS_CardinalityType, FS_EmptySet
<1>2. Few(n, 0) = {{}}
  BY <1>1 DEF Few
<1>3. Few(n, n) = SUBSET (1..n)
  BY <1>1 DEF Few
<1>4. ASSUME NEW k \in Nat, NEW t \in Few(n, k) PROVE t \in Few(n, k + 1)
  <2>1. t \in SUBSET (1..n) /\ Cardinality(t) <= k
    BY DEF Few
  <2>2. Cardinality(t) \in Nat
    BY <1>1, <2>1
  <2>3. Cardinality(t) <= k + 1
    BY <2>1, <2>2
  <2> QED BY <2>1, <2>3 DEF Few
<1>5. ASSUME NEW k \in Nat, NEW t \in Few(n, k + 1), t # {}
      PROVE  t \ {Max(t)} \in Few(n, k)
  <2>1. t \in SUBSET (1..n) /\ Cardinality(t) <= k + 1
    BY DEF Few
  <2>2. Cardinality(t) \in Nat /\ t \ {Max(t)} \in SUBSET (1..n) /\ Cardinality(t \ {Max(t)}) = Cardinality(t) - 1
    BY <2>1, <1>5, MaxAway
  <2>3. Cardinality(t \ {Max(t)}) <= k
    BY <2>1, <2>2
  <2> QED BY <2>2, <2>3 DEF Few
<1> QED BY <1>2, <1>3, <1>4, <1>5
=============================================================================
