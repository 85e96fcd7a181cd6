----------------------------- MODULE DataLemmas ----------------------------
(***************************************************************************)
(* Facts about the operators the models are built from: sums (SumFunction of   *)
(* the community modules, which folds over the elements of a set in an order   *)
(* that CHOOSE determines) and queues without duplicates (Queues).  Induction  *)
(* over finite sets and over numbers is done with least counterexamples, from   *)
(* the library's theorems on well-founded relations.                          *)
(***************************************************************************)
EXTENDS Queues, FiniteSets, Functions, FiniteSetTheorems, TLAPS

\* The element that the fold takes out of a set.
Any(s) == CHOOSE x \in s : TRUE

\* g is the table of sums of f that SumFunctionOnSet builds for the subsets of S.
Sums(g, f, S) ==
  g = [s \in SUBSET S |-> IF s = {} THEN 0 ELSE f[Any(s)] + g[s \ {Any(s)}]]

\* LeastExists: a nonempty collection of subsets of a finite set has a smallest
\* member.  This is the induction over sets that the sums below need.
LEMMA LeastExists ==
  ASSUME NEW S, IsFiniteSet(S), NEW T \in SUBSET (SUBSET S), T # {}
  PROVE  \E s \in T : \A u \in T : ~(u \subseteq s /\ u # s)
<1>1. IsWellFoundedOn(StrictSubsetOrdering(S), FiniteSubsetsOf(S))
  BY FS_StrictSubsetOrderingWellFounded, Zenon
<1>2. FiniteSubsetsOf(S) = SUBSET S
  BY FS_FiniteSubsetsOfFinite, Zenon
<1>3. PICK s \in T : \A u \in T : ~(<<u, s>> \in StrictSubsetOrdering(S))
  BY <1>1, <1>2, WFMin, SMTT(30)
<1>4. \A u \in T : <<u, s>> \in (SUBSET S) \X (SUBSET S)
  BY Zenon
<1> QED BY <1>3, <1>4, Zenon DEF StrictSubsetOrdering

\* SumsAgree: two tables of the sums of f agree wherever both are defined.
LEMMA SumsAgree ==
  ASSUME NEW S, IsFiniteSet(S), NEW f, NEW g, NEW h, NEW A \in SUBSET S, NEW B \in SUBSET S,
         Sums(g, f, A), Sums(h, f, B)
  PROVE  \A s \in SUBSET (A \cap B) : g[s] = h[s]
<1> DEFINE T == {s \in SUBSET (A \cap B) : g[s] # h[s]}
<1> SUFFICES ASSUME T # {} PROVE FALSE
  BY Zenon
<1>2. PICK s \in T : \A u \in T : ~(u \subseteq s /\ u # s)
  <2> T \in SUBSET (SUBSET S)
    BY Zenon
  <2> HIDE DEF T
  <2> QED BY LeastExists, SMTT(30)
<1>3. s # {}
  BY <1>2, Zenon DEF Sums
<1>4. Any(s) \in s
  BY <1>3, Zenon DEF Any
<1>5. s \ {Any(s)} \in SUBSET (A \cap B) /\ s \ {Any(s)} \notin T
  BY <1>2, <1>4, Zenon
<1>6. g[s] = f[Any(s)] + g[s \ {Any(s)}] /\ h[s] = f[Any(s)] + h[s \ {Any(s)}]
  BY <1>3, s \in SUBSET A, s \in SUBSET B, Zenon DEF Sums
<1> QED BY <1>2, <1>5, <1>6, Zenon

\* SumsExist: f has a table of sums over the subsets of a finite set.
LEMMA SumsExist ==
  ASSUME NEW S, IsFiniteSet(S), NEW f
  PROVE  \E g : Sums(g, f, S)
<1> DEFINE T == {s \in SUBSET S : ~\E g : Sums(g, f, s)}
<1> SUFFICES ASSUME T # {} PROVE FALSE
  BY Zenon
<1>1. PICK s \in T : \A u \in T : ~(u \subseteq s /\ u # s)
  <2> T \in SUBSET (SUBSET S)
    BY Zenon
  <2> HIDE DEF T
  <2> QED BY LeastExists, SMTT(30)
<1> DEFINE G(u) == CHOOSE g : Sums(g, f, u)
<1>2. \A u \in SUBSET s : u # s => Sums(G(u), f, u)
  BY <1>1, Zenon
<1> DEFINE v(u) == IF u = {} THEN 0 ELSE f[Any(u)] + G(u \ {Any(u)})[u \ {Any(u)}]
           t == [u \in SUBSET s |-> v(u)]
<1> HIDE DEF G
<1>3. \A u \in SUBSET s : u # {} => Any(u) \in u
  BY Zenon DEF Any
<1>4. ASSUME NEW u \in SUBSET s, u # s PROVE t[u] = G(u)[u]
  <2>1. CASE u = {}
    BY <2>1, <1>2, <1>4, Zenon DEF Sums
  <2>2. CASE u # {}
    <3> DEFINE w == u \ {Any(u)}
    <3>1. w \in SUBSET u /\ w # s
      BY <1>4, <1>3, <2>2, Zenon
    <3>2. Sums(G(u), f, u) /\ Sums(G(w), f, w)
      BY <1>2, <1>4, <3>1, Zenon
    <3>3. G(u)[u] = f[Any(u)] + G(u)[w]
      BY <3>2, <2>2, Zenon DEF Sums
    <3>4. G(u)[w] = G(w)[w]
      BY <3>1, <3>2, SumsAgree, w \in SUBSET (u \cap w), u \in SUBSET S, w \in SUBSET S, SMTT(30)
    <3> QED BY <3>3, <3>4, <2>2, Zenon
  <2> QED BY <2>1, <2>2, Zenon
<1>5. Sums(t, f, s)
  <2> SUFFICES ASSUME NEW u \in SUBSET s, u # {}
               PROVE  t[u] = f[Any(u)] + t[u \ {Any(u)}]
    BY Zenon DEF Sums
  <2>1. u \ {Any(u)} \in SUBSET s /\ u \ {Any(u)} # s
    BY <1>3, Zenon
  <2> QED BY <2>1, <1>4, Zenon
<1> QED BY <1>1, <1>5, Zenon

\* SumTable: SumFunctionOnSet reads its value from such a table.
LEMMA SumTable ==
  ASSUME NEW S, IsFiniteSet(S), NEW f
  PROVE  \E g : Sums(g, f, S) /\ SumFunctionOnSet(f, S) = g[S]
<1>1. \E g : Sums(g, f, S)
  BY SumsExist, Zenon
<1> DEFINE G == CHOOSE g : Sums(g, f, S)
<1>2. Sums(G, f, S)
  BY <1>1, Zenon
<1>3. SumFunctionOnSet(f, S) = G[S]
  BY Zenon DEF SumFunctionOnSet, FoldFunctionOnSet, MapThenFoldSet, Sums, Any
<1> QED BY <1>2, <1>3, Zenon

\* SumEmpty: the sum over no element is 0.
LEMMA SumEmpty == ASSUME NEW f PROVE SumFunctionOnSet(f, {}) = 0
<1>1. IsFiniteSet({})
  BY FS_EmptySet, Zenon
<1>2. PICK g : Sums(g, f, {}) /\ SumFunctionOnSet(f, {}) = g[{}]
  BY <1>1, SumTable, Zenon
<1> QED BY <1>2, Zenon DEF Sums

\* SumStep: the sum takes out the element the fold chooses.
LEMMA SumStep ==
  ASSUME NEW S, IsFiniteSet(S), S # {}, NEW f
  PROVE  /\ Any(S) \in S
         /\ SumFunctionOnSet(f, S) = f[Any(S)] + SumFunctionOnSet(f, S \ {Any(S)})
<1> DEFINE R == S \ {Any(S)}
<1>1. Any(S) \in S
  BY Zenon DEF Any
<1>2. IsFiniteSet(R) /\ R \in SUBSET S
  BY FS_RemoveElement, Zenon
<1>3. PICK g : Sums(g, f, S) /\ SumFunctionOnSet(f, S) = g[S]
  BY SumTable, Zenon
<1>4. PICK h : Sums(h, f, R) /\ SumFunctionOnSet(f, R) = h[R]
  BY <1>2, SumTable, Zenon
<1>5. g[S] = f[Any(S)] + g[R]
  BY <1>3, Zenon DEF Sums
<1>6. g[R] = h[R]
  BY <1>2, <1>3, <1>4, SumsAgree, R \in SUBSET (S \cap R), SMTT(30)
<1> QED BY <1>1, <1>3, <1>4, <1>5, <1>6, Zenon

\* SumNat: a sum of natural numbers is one.
LEMMA SumNat ==
  ASSUME NEW S, IsFiniteSet(S), NEW f, \A x \in S : f[x] \in Nat
  PROVE  SumFunctionOnSet(f, S) \in Nat
<1> DEFINE T == {s \in SUBSET S : SumFunctionOnSet(f, s) \notin Nat}
<1> SUFFICES ASSUME T # {} PROVE FALSE
  BY Zenon
<1>1. PICK s \in T : \A u \in T : ~(u \subseteq s /\ u # s)
  <2> T \in SUBSET (SUBSET S)
    BY Zenon
  <2> HIDE DEF T
  <2> QED BY LeastExists, SMTT(30)
<1>2. s # {}
  <2>1. SumFunctionOnSet(f, {}) = 0
    BY SumEmpty, Zenon
  <2>2. SumFunctionOnSet(f, s) \notin Nat
    BY <1>1, Zenon
  <2> HIDE DEF T
  <2> QED BY <2>1, <2>2, SMTT(30)
<1>3. IsFiniteSet(s)
  BY FS_Subset, Zenon
<1>4. Any(s) \in s /\ SumFunctionOnSet(f, s) = f[Any(s)] + SumFunctionOnSet(f, s \ {Any(s)})
  BY <1>2, <1>3, SumStep, Zenon
<1>5. s \ {Any(s)} \notin T
  BY <1>1, <1>4, Zenon
<1> QED BY <1>1, <1>4, <1>5, SMTT(30)

\* SumRemove: the sum takes out any element: the order in which the fold visits
\* the set does not matter.
LEMMA SumRemove ==
  ASSUME NEW S, IsFiniteSet(S), NEW f, \A x \in S : f[x] \in Nat, NEW x \in S
  PROVE  SumFunctionOnSet(f, S) = f[x] + SumFunctionOnSet(f, S \ {x})
<1> DEFINE T == {s \in SUBSET S : \E y \in s : SumFunctionOnSet(f, s) # f[y] + SumFunctionOnSet(f, s \ {y})}
<1> SUFFICES ASSUME T # {} PROVE FALSE
  BY Zenon
<1>1. PICK s \in T : \A u \in T : ~(u \subseteq s /\ u # s)
  <2> T \in SUBSET (SUBSET S)
    BY Zenon
  <2> HIDE DEF T
  <2> QED BY LeastExists, SMTT(30)
<1>2. PICK y \in s : SumFunctionOnSet(f, s) # f[y] + SumFunctionOnSet(f, s \ {y})
  BY <1>1, Zenon
<1>3. IsFiniteSet(s)
  BY FS_Subset, Zenon
<1> DEFINE c == Any(s)
<1>4. c \in s /\ SumFunctionOnSet(f, s) = f[c] + SumFunctionOnSet(f, s \ {c})
  BY <1>2, <1>3, SumStep, Zenon
<1>5. c # y
  BY <1>2, <1>4, Zenon
<1> DEFINE both == (s \ {c}) \ {y}
<1>6. SumFunctionOnSet(f, s \ {c}) = f[y] + SumFunctionOnSet(f, both)
  <2> s \ {c} \notin T
    BY <1>1, <1>4, Zenon
  <2> QED BY <1>5, Zenon
<1>7. SumFunctionOnSet(f, s \ {y}) = f[c] + SumFunctionOnSet(f, both)
  <2>1. s \ {y} \notin T
    BY <1>1, Zenon
  <2>2. both = (s \ {y}) \ {c}
    BY Zenon
  <2> QED BY <1>4, <1>5, <2>1, <2>2, Zenon
<1>8. f[y] \in Nat /\ f[c] \in Nat /\ SumFunctionOnSet(f, both) \in Nat
  <2>1. IsFiniteSet(both)
    BY FS_Subset, Zenon
  <2>2. SumFunctionOnSet(f, both) \in Nat
    BY <2>1, SumNat, Zenon
  <2> QED BY <2>2, <1>4, Zenon
<1> HIDE DEF c, both, T
<1> QED BY <1>2, <1>4, <1>6, <1>7, <1>8, SMTT(30)

\* SumSame: a sum only depends on the values that it adds.
LEMMA SumSame ==
  ASSUME NEW S, IsFiniteSet(S), NEW f, NEW h, \A x \in S : f[x] = h[x]
  PROVE  SumFunctionOnSet(f, S) = SumFunctionOnSet(h, S)
<1> DEFINE T == {s \in SUBSET S : SumFunctionOnSet(f, s) # SumFunctionOnSet(h, s)}
<1> SUFFICES ASSUME T # {} PROVE FALSE
  BY Zenon
<1>1. PICK s \in T : \A u \in T : ~(u \subseteq s /\ u # s)
  <2> T \in SUBSET (SUBSET S)
    BY Zenon
  <2> HIDE DEF T
  <2> QED BY LeastExists, SMTT(30)
<1>2. s # {}
  BY <1>1, SumEmpty, Zenon
<1>3. IsFiniteSet(s)
  BY FS_Subset, Zenon
<1>4. /\ Any(s) \in s
      /\ SumFunctionOnSet(f, s) = f[Any(s)] + SumFunctionOnSet(f, s \ {Any(s)})
      /\ SumFunctionOnSet(h, s) = h[Any(s)] + SumFunctionOnSet(h, s \ {Any(s)})
  BY <1>2, <1>3, SumStep, Zenon
<1>5. s \ {Any(s)} \notin T
  BY <1>1, <1>4, Zenon
<1> QED BY <1>1, <1>4, <1>5, Zenon

\* SumChange: when one value changes the sum changes by as much.
LEMMA SumChange ==
  ASSUME NEW S, IsFiniteSet(S), NEW f, \A x \in S : f[x] \in Nat,
         NEW h, \A x \in S : h[x] \in Nat, NEW x \in S, \A y \in S \ {x} : f[y] = h[y]
  PROVE  SumFunctionOnSet(h, S) + f[x] = SumFunctionOnSet(f, S) + h[x]
<1> DEFINE R == S \ {x}
<1>1. IsFiniteSet(R)
  BY FS_RemoveElement, Zenon
<1>2. SumFunctionOnSet(f, R) = SumFunctionOnSet(h, R) /\ SumFunctionOnSet(f, R) \in Nat
  BY <1>1, SumSame, SumNat, Zenon
<1>3. SumFunctionOnSet(f, S) = f[x] + SumFunctionOnSet(f, R)
  BY SumRemove, Zenon
<1>4. SumFunctionOnSet(h, S) = h[x] + SumFunctionOnSet(h, R)
  BY SumRemove, Zenon
<1> HIDE DEF R
<1> QED BY <1>2, <1>3, <1>4, SMTT(30)

\* SumPlus: the sum of sums.
LEMMA SumPlus ==
  ASSUME NEW S, IsFiniteSet(S), NEW f, \A x \in S : f[x] \in Nat,
         NEW h, \A x \in S : h[x] \in Nat, NEW e, \A x \in S : e[x] = f[x] + h[x]
  PROVE  SumFunctionOnSet(e, S) = SumFunctionOnSet(f, S) + SumFunctionOnSet(h, S)
<1> DEFINE T == {s \in SUBSET S :
                   SumFunctionOnSet(e, s) # SumFunctionOnSet(f, s) + SumFunctionOnSet(h, s)}
<1> SUFFICES ASSUME T # {} PROVE FALSE
  BY Zenon
<1>1. PICK s \in T : \A u \in T : ~(u \subseteq s /\ u # s)
  <2> T \in SUBSET (SUBSET S)
    BY Zenon
  <2> HIDE DEF T
  <2> QED BY LeastExists, SMTT(30)
<1>2. s # {}
  <2>1. /\ SumFunctionOnSet(e, {}) = 0
        /\ SumFunctionOnSet(f, {}) = 0 /\ SumFunctionOnSet(h, {}) = 0
    BY SumEmpty, Zenon
  <2>2. SumFunctionOnSet(e, s) # SumFunctionOnSet(f, s) + SumFunctionOnSet(h, s)
    BY <1>1, Zenon
  <2> HIDE DEF T
  <2> QED BY <2>1, <2>2, SMTT(30)
<1>3. IsFiniteSet(s)
  BY FS_Subset, Zenon
<1> DEFINE x == Any(s)  R == s \ {x}
<1>4. /\ x \in s
      /\ SumFunctionOnSet(e, s) = e[x] + SumFunctionOnSet(e, R)
      /\ SumFunctionOnSet(f, s) = f[x] + SumFunctionOnSet(f, R)
      /\ SumFunctionOnSet(h, s) = h[x] + SumFunctionOnSet(h, R)
  BY <1>2, <1>3, SumStep, Zenon
<1>5. SumFunctionOnSet(e, R) = SumFunctionOnSet(f, R) + SumFunctionOnSet(h, R)
  <2> R \notin T
    BY <1>1, <1>4, Zenon
  <2> QED BY Zenon
<1>6. SumFunctionOnSet(f, R) \in Nat /\ SumFunctionOnSet(h, R) \in Nat
  <2> IsFiniteSet(R)
    BY FS_Subset, Zenon
  <2> QED BY SumNat, Zenon
<1>7. f[x] \in Nat /\ h[x] \in Nat /\ e[x] = f[x] + h[x]
  BY <1>4, Zenon
<1>8. SumFunctionOnSet(e, s) # SumFunctionOnSet(f, s) + SumFunctionOnSet(h, s)
  BY <1>1, Zenon
<1> HIDE DEF R, x, T
<1> QED BY <1>4, <1>5, <1>6, <1>7, <1>8, SMTT(30)

\* SumAtMost: with no value above c the sum is at most c for each element.
LEMMA SumAtMost ==
  ASSUME NEW S, IsFiniteSet(S), NEW f, NEW c \in Nat,
         \A x \in S : f[x] \in Nat /\ f[x] <= c
  PROVE  SumFunctionOnSet(f, S) <= Cardinality(S) * c
<1> DEFINE T == {s \in SUBSET S : ~(SumFunctionOnSet(f, s) <= Cardinality(s) * c)}
<1> SUFFICES ASSUME T # {} PROVE FALSE
  BY Zenon
<1>1. PICK s \in T : \A u \in T : ~(u \subseteq s /\ u # s)
  <2> T \in SUBSET (SUBSET S)
    BY Zenon
  <2> HIDE DEF T
  <2> QED BY LeastExists, SMTT(30)
<1>2. s # {}
  <2>1. SumFunctionOnSet(f, {}) = 0 /\ Cardinality({}) = 0
    BY SumEmpty, FS_EmptySet, Zenon
  <2>2. ~(SumFunctionOnSet(f, s) <= Cardinality(s) * c)
    BY <1>1, Zenon
  <2>3. SumFunctionOnSet(f, {}) <= Cardinality({}) * c
    BY <2>1, SMTT(30)
  <2> HIDE DEF T
  <2> QED BY <2>2, <2>3, Zenon
<1>3. IsFiniteSet(s)
  BY FS_Subset, Zenon
<1> DEFINE x == Any(s)  R == s \ {x}
<1>4. x \in s /\ SumFunctionOnSet(f, s) = f[x] + SumFunctionOnSet(f, R)
  BY <1>2, <1>3, SumStep, Zenon
<1>5. IsFiniteSet(R) /\ Cardinality(R) = Cardinality(s) - 1 /\ Cardinality(R) \in Nat
      /\ Cardinality(s) \in Nat
  BY <1>3, <1>4, FS_RemoveElement, FS_CardinalityType, Zenon
<1>6. SumFunctionOnSet(f, R) \in Nat
  BY <1>5, SumNat, Zenon
<1>7. SumFunctionOnSet(f, R) <= Cardinality(R) * c
  <2> R \notin T
    BY <1>1, <1>4, Zenon
  <2> QED BY Zenon
<1>8. f[x] \in Nat /\ f[x] <= c
  BY <1>4, Zenon
<1>9. ~(SumFunctionOnSet(f, s) <= Cardinality(s) * c)
  BY <1>1, Zenon
<1> HIDE DEF R, x, T
<1>10. Cardinality(s) * c = Cardinality(R) * c + c
  BY <1>5, SMTT(30)
<1>11. Cardinality(R) * c \in Nat
  BY <1>5, SMTT(30)
<1> QED BY <1>4, <1>6, <1>7, <1>8, <1>9, <1>10, <1>11, SMTT(30)

\* LeastNumber: a nonempty set of natural numbers has a least one.
LEMMA LeastNumber ==
  ASSUME NEW T \in SUBSET Nat, T # {}
  PROVE  \E m \in T : \A k \in T : m <= k
<1>1. PICK m \in T : \A k \in T : ~(<<k, m>> \in OpToRel(<, Nat))
  BY NatLessThanWellFounded, WFMin, Zenon
<1>2. ASSUME NEW k \in T PROVE m <= k
  <2>1. m \in Nat /\ k \in Nat /\ <<k, m>> \notin OpToRel(<, Nat)
    BY <1>1, Zenon
  <2>2. ~(k < m)
    BY <2>1, Zenon DEF OpToRel
  <2>3. m \in Nat /\ k \in Nat
    BY Zenon
  <2> QED BY <2>2, <2>3, SMTT(30)
<1> QED BY <1>2, Zenon

\* SumExtend: the sum over 1..n + 1 from the sum over 1..n.
LEMMA SumExtend ==
  ASSUME NEW n \in Nat, NEW f, \A i \in 1..(n + 1) : f[i] \in Nat
  PROVE  SumFunctionOnSet(f, 1..(n + 1)) = SumFunctionOnSet(f, 1..n) + f[n + 1]
<1>1. IsFiniteSet(1..(n + 1)) /\ IsFiniteSet(1..n)
  BY FS_Interval, SMTT(30)
<1>2. (1..(n + 1)) \ {n + 1} = 1..n /\ n + 1 \in 1..(n + 1)
  BY SMTT(30)
<1>3. SumFunctionOnSet(f, 1..(n + 1)) = f[n + 1] + SumFunctionOnSet(f, 1..n)
  BY <1>1, <1>2, SumRemove, SMTT(30)
<1>4. SumFunctionOnSet(f, 1..n) \in Nat
  BY <1>1, SumNat, SMTT(30)
<1> QED BY <1>3, <1>4, SMTT(30)

\* SumShift: the sum over a sequence's positions is the first value and the sum of
\* the values that follow it, renumbered.
LEMMA SumShift ==
  ASSUME NEW n \in Nat, NEW f, \A i \in 1..(n + 1) : f[i] \in Nat,
         NEW h, \A i \in 1..n : h[i] = f[i + 1]
  PROVE  SumFunctionOnSet(f, 1..(n + 1)) = f[1] + SumFunctionOnSet(h, 1..n)
<1> DEFINE T == {k \in 0..n : SumFunctionOnSet(f, 1..(k + 1)) # f[1] + SumFunctionOnSet(h, 1..k)}
<1> SUFFICES ASSUME T # {} PROVE FALSE
  BY SMTT(30)
<1>1. PICK m \in T : \A k \in T : m <= k
  <2> T \in SUBSET Nat
    BY SMTT(30)
  <2> HIDE DEF T
  <2> QED BY LeastNumber, Zenon
<1>2. ASSUME m = 0 PROVE FALSE
  <2>1. 1..(0 + 1) = {1} /\ 1..0 = {} /\ f[1] \in Nat
    BY SMTT(30)
  <2>2. SumFunctionOnSet(f, 1..(0 + 1)) = SumFunctionOnSet(f, 1..0) + f[0 + 1]
    BY SumExtend, 0 \in Nat, \A i \in 1..(0 + 1) : f[i] \in Nat, Zenon
  <2>3. SumFunctionOnSet(f, {}) = 0 /\ SumFunctionOnSet(h, {}) = 0
    BY SumEmpty, Zenon
  <2>4. SumFunctionOnSet(f, 1..(0 + 1)) # f[1] + SumFunctionOnSet(h, 1..0)
    BY <1>1, <1>2, Zenon
  <2> HIDE DEF T
  <2> QED BY <2>1, <2>2, <2>3, <2>4, SMTT(30)
<1> DEFINE p == m - 1
<1>3. p \in Nat /\ p \in 0..n /\ p \notin T /\ m = p + 1 /\ m <= n
  BY <1>1, <1>2, SMTT(30)
<1>4. SumFunctionOnSet(f, 1..(p + 1)) = f[1] + SumFunctionOnSet(h, 1..p)
  BY <1>3, Zenon
<1>5. SumFunctionOnSet(f, 1..(m + 1)) = SumFunctionOnSet(f, 1..m) + f[m + 1]
  BY <1>3, SumExtend, m \in Nat, \A i \in 1..(m + 1) : f[i] \in Nat, Zenon
<1>n. \A i \in 1..(p + 1) : h[i] \in Nat
  <2> SUFFICES ASSUME NEW i \in 1..(p + 1) PROVE h[i] \in Nat
    BY Zenon
  <2>1. i \in 1..n /\ i + 1 \in 1..(n + 1)
    BY <1>3, SMTT(30)
  <2> QED BY <2>1, Zenon
<1>6. SumFunctionOnSet(h, 1..(p + 1)) = SumFunctionOnSet(h, 1..p) + h[p + 1]
  <2> HIDE DEF p
  <2> QED BY <1>3, <1>n, SumExtend, Zenon
<1>7. h[p + 1] = f[m + 1] /\ f[m + 1] \in Nat /\ f[1] \in Nat
  BY <1>3, SMTT(30)
<1>8. SumFunctionOnSet(h, 1..p) \in Nat
  <2> HIDE DEF p
  <2>1. IsFiniteSet(1..p)
    BY <1>3, FS_Interval, SMTT(30)
  <2>2. \A i \in 1..p : h[i] \in Nat
    BY <1>3, <1>n, SMTT(30)
  <2> QED BY <2>1, <2>2, SumNat, Zenon
<1>9. SumFunctionOnSet(f, 1..(m + 1)) # f[1] + SumFunctionOnSet(h, 1..m)
  BY <1>1, Zenon
<1> HIDE DEF T, p
<1> QED BY <1>3, <1>4, <1>5, <1>6, <1>7, <1>8, <1>9, SMTT(30)

\* Slice: what SubSeq cuts out of a sequence.
LEMMA Slice ==
  ASSUME NEW S, NEW q \in Seq(S), NEW m \in 1..(Len(q) + 1), NEW n \in (m - 1)..Len(q)
  PROVE  /\ SubSeq(q, m, n) \in Seq(S) /\ Len(SubSeq(q, m, n)) = n - m + 1
         /\ \A i \in 1..(n - m + 1) : SubSeq(q, m, n)[i] = q[m + i - 1]
BY SMTT(30)

\* Joined: one sequence after another.
LEMMA Joined ==
  ASSUME NEW S, NEW a \in Seq(S), NEW b \in Seq(S)
  PROVE  /\ a \o b \in Seq(S) /\ Len(a \o b) = Len(a) + Len(b)
         /\ \A i \in 1..(Len(a) + Len(b)) :
              (a \o b)[i] = IF i <= Len(a) THEN a[i] ELSE b[i - Len(a)]
BY SMTT(30)

\* RangeAppend: push_back of an element that is not in a queue without
\* duplicates.
LEMMA RangeAppend ==
  ASSUME NEW S, NEW q \in Seq(S), NEW e \in S
  PROVE  /\ Append(q, e) \in Seq(S)
         /\ Range(Append(q, e)) = Range(q) \cup {e}
         /\ IsInjective(q) /\ e \notin Range(q) => IsInjective(Append(q, e))
<1> DEFINE a == Append(q, e)
<1>1. /\ a \in Seq(S) /\ DOMAIN a = 1..(Len(q) + 1) /\ DOMAIN q = 1..Len(q)
      /\ Len(q) \in Nat
      /\ a[Len(q) + 1] = e
  BY SMTT(30)
<1>2. \A i \in 1..Len(q) : a[i] = q[i]
  BY SMTT(30)
<1> HIDE DEF a
<1>3. Range(a) \subseteq Range(q) \cup {e}
  <2> SUFFICES ASSUME NEW i \in 1..(Len(q) + 1) PROVE a[i] \in Range(q) \cup {e}
    BY <1>1, Zenon DEF Range
  <2>1. CASE i = Len(q) + 1
    BY <2>1, <1>1, Zenon
  <2>2. CASE i \in 1..Len(q)
    BY <2>2, <1>1, <1>2, Zenon DEF Range
  <2> QED BY <1>1, <2>1, <2>2, SMTT(30)
<1>4. Range(q) \cup {e} \subseteq Range(a)
  <2>1. e \in Range(a)
    <3>1. Len(q) + 1 \in DOMAIN a
      BY <1>1, SMTT(30)
    <3> QED BY <1>1, <3>1, Zenon DEF Range
  <2>2. ASSUME NEW i \in 1..Len(q) PROVE q[i] \in Range(a)
    <3>1. i \in DOMAIN a
      BY <1>1, SMTT(30)
    <3> QED BY <1>2, <3>1, Zenon DEF Range
  <2> QED BY <2>1, <2>2, <1>1, Zenon DEF Range
<1>5. ASSUME IsInjective(q), e \notin Range(q) PROVE IsInjective(a)
  <2>1. \A i \in 1..Len(q) : q[i] # e
    BY <1>1, <1>5, Zenon DEF Range
  <2> QED BY <1>1, <1>2, <1>5, <2>1, SMTT(30) DEF IsInjective
<1> QED BY <1>1, <1>3, <1>4, <1>5, Zenon DEF a

\* RangeTail: pop_front of a queue without duplicates takes out exactly the head.
LEMMA RangeTail ==
  ASSUME NEW S, NEW q \in Seq(S), q # <<>>
  PROVE  /\ Tail(q) \in Seq(S) /\ Head(q) \in Range(q)
         /\ IsInjective(q) => IsInjective(Tail(q)) /\ Range(Tail(q)) = Range(q) \ {Head(q)}
<1> DEFINE t == Tail(q)
<1>1. /\ t \in Seq(S) /\ DOMAIN t = 1..(Len(q) - 1) /\ DOMAIN q = 1..Len(q)
      /\ Len(q) \in Nat \ {0} /\ Head(q) = q[1]
  BY SMTT(30)
<1>2. \A i \in 1..(Len(q) - 1) : t[i] = q[i + 1]
  BY SMTT(30)
<1> HIDE DEF t
<1>3. Head(q) \in Range(q)
  <2> 1 \in DOMAIN q
    BY <1>1, SMTT(30)
  <2> QED BY <1>1, Zenon DEF Range
<1>4. ASSUME IsInjective(q) PROVE IsInjective(t)
  <2> SUFFICES ASSUME NEW i \in 1..(Len(q) - 1), NEW j \in 1..(Len(q) - 1), t[i] = t[j]
               PROVE  i = j
    BY <1>1, Zenon DEF IsInjective
  <2>1. i + 1 \in DOMAIN q /\ j + 1 \in DOMAIN q
    BY <1>1, SMTT(30)
  <2>2. q[i + 1] = q[j + 1]
    BY <1>2, Zenon
  <2>3. i + 1 = j + 1
    BY <1>4, <2>1, <2>2, Zenon DEF IsInjective
  <2> QED BY <2>3, SMTT(30)
<1>5. ASSUME IsInjective(q), NEW i \in 1..(Len(q) - 1)
      PROVE  t[i] \in Range(q) \ {Head(q)}
  <2>1. i + 1 \in DOMAIN q /\ 1 \in DOMAIN q /\ i + 1 # 1
    BY <1>1, SMTT(30)
  <2>2. q[i + 1] # q[1]
    BY <1>5, <2>1, Zenon DEF IsInjective
  <2>3. t[i] = q[i + 1] /\ Head(q) = q[1]
    BY <1>1, <1>2, Zenon
  <2>4. q[i + 1] \in Range(q)
    BY <2>1, Zenon DEF Range
  <2> QED BY <2>2, <2>3, <2>4, Zenon
<1>6. ASSUME NEW i \in 1..Len(q), q[i] # Head(q) PROVE q[i] \in Range(t)
  <2>1. i - 1 \in 1..(Len(q) - 1) /\ i = (i - 1) + 1
    BY <1>1, <1>6, SMTT(30)
  <2>2. t[i - 1] = q[i]
    BY <1>2, <2>1, Zenon
  <2> QED BY <1>1, <2>1, <2>2, Zenon DEF Range
<1>7. ASSUME IsInjective(q) PROVE Range(t) = Range(q) \ {Head(q)}
  <2>1. Range(t) \subseteq Range(q) \ {Head(q)}
    BY <1>1, <1>5, <1>7, Zenon DEF Range
  <2>2. Range(q) \ {Head(q)} \subseteq Range(t)
    BY <1>1, <1>6, Zenon DEF Range
  <2> QED BY <2>1, <2>2, Zenon
<1> QED BY <1>1, <1>3, <1>4, <1>7, Zenon DEF t

\* RangeWithout: Without (retain, and dropping a waiter from a semaphore's line)
\* takes out exactly the element; nothing moves back in the queue.
LEMMA RangeWithout ==
  ASSUME NEW S, NEW q \in Seq(S), IsInjective(q), NEW e
  PROVE  /\ Without(q, e) \in Seq(S)
         /\ IsInjective(Without(q, e))
         /\ Range(Without(q, e)) = Range(q) \ {e}
         /\ \A i \in DOMAIN Without(q, e) :
              \E j \in DOMAIN q : i <= j /\ Without(q, e)[i] = q[j]
<1>1. CASE \A i \in 1..Len(q) : q[i] # e
  <2>1. Without(q, e) = q
    BY <1>1, SMTT(30) DEF Without
  <2>2. e \notin Range(q)
    BY <1>1, SMTT(30) DEF Range
  <2>3. \A i \in DOMAIN q : i <= i
    BY SMTT(30) DEF Without
  <2> QED BY <2>1, <2>2, <2>3, Zenon
<1>2. ASSUME NEW k \in 1..Len(q), q[k] = e
      PROVE  /\ Without(q, e) \in Seq(S)
             /\ IsInjective(Without(q, e))
             /\ Range(Without(q, e)) = Range(q) \ {e}
             /\ \A i \in DOMAIN Without(q, e) :
                  \E j \in DOMAIN q : i <= j /\ Without(q, e)[i] = q[j]
  <2> DEFINE I == {i \in 1..Len(q) : q[i] = e}
             a == SubSeq(q, 1, k - 1)
             b == SubSeq(q, k + 1, Len(q))
             r == a \o b
  <2>1. I = {k}
    BY <1>2, SMTT(30) DEF IsInjective
  <2>2. (CHOOSE i \in DOMAIN q : q[i] = e) = k
    BY <1>2, SMTT(30) DEF IsInjective
  <2>3. Without(q, e) = r
    <3>1. \E i \in DOMAIN q : q[i] = e
      BY <1>2, SMTT(30)
    <3> QED BY <3>1, <2>2, Zenon DEF Without
  <2>a. Len(q) \in Nat \ {0} /\ DOMAIN q = 1..Len(q) /\ k \in Int /\ \A i \in 1..Len(q) : q[i] \in S
    BY SMTT(30)
  <2>e. Len(q) \in Nat /\ k \in Nat /\ k <= Len(q)
    BY SMTT(30)
  <2>b. a \in Seq(S) /\ Len(a) = k - 1 /\ \A i \in 1..(k - 1) : a[i] = q[i]
    <3>1. 1 \in 1..(Len(q) + 1) /\ k - 1 \in (1 - 1)..Len(q) /\ (k - 1) - 1 + 1 = k - 1
      BY <2>e, SMTT(30)
    <3>a. /\ a \in Seq(S) /\ Len(a) = (k - 1) - 1 + 1
          /\ \A i \in 1..((k - 1) - 1 + 1) : a[i] = q[1 + i - 1]
      BY <3>1, Slice, ZenonT(40)
    <3>2. a \in Seq(S) /\ Len(a) = k - 1 /\ \A i \in 1..(k - 1) : a[i] = q[1 + i - 1]
      BY <3>1, <3>a, Zenon
    <3> HIDE DEF a
    <3> QED BY <2>e, <3>2, SMTT(30)
  <2>c. /\ b \in Seq(S) /\ Len(b) = Len(q) - k
        /\ \A i \in 1..(Len(q) - k) : b[i] = q[k + i]
    <3>1. /\ k + 1 \in 1..(Len(q) + 1) /\ Len(q) \in ((k + 1) - 1)..Len(q)
          /\ Len(q) - (k + 1) + 1 = Len(q) - k
      BY <2>e, SMTT(30)
    <3>a. /\ b \in Seq(S) /\ Len(b) = Len(q) - (k + 1) + 1
          /\ \A i \in 1..(Len(q) - (k + 1) + 1) : b[i] = q[(k + 1) + i - 1]
      BY <3>1, Slice, ZenonT(40)
    <3>2. /\ b \in Seq(S) /\ Len(b) = Len(q) - k
          /\ \A i \in 1..(Len(q) - k) : b[i] = q[(k + 1) + i - 1]
      BY <3>1, <3>a, Zenon
    <3> HIDE DEF b
    <3>3. \A i \in 1..(Len(q) - k) : (k + 1) + i - 1 = k + i
      BY <2>e, SMTT(30)
    <3> QED BY <3>2, <3>3, Zenon
  <2>d. /\ r \in Seq(S) /\ Len(r) = Len(a) + Len(b)
        /\ \A i \in 1..(Len(a) + Len(b)) : r[i] = IF i <= Len(a) THEN a[i] ELSE b[i - Len(a)]
    BY <2>b, <2>c, Joined, ZenonT(40)
  <2> HIDE DEF a, b, r
  <2>4. /\ Len(q) \in Nat \ {0} /\ DOMAIN q = 1..Len(q) /\ DOMAIN r = 1..(Len(q) - 1)
        /\ r \in Seq(S)
    BY <2>a, <2>b, <2>c, <2>d, SMTT(30)
  <2>5. \A i \in 1..(Len(q) - 1) : r[i] = IF i < k THEN q[i] ELSE q[i + 1]
    <3> SUFFICES ASSUME NEW i \in 1..(Len(q) - 1)
                 PROVE  r[i] = IF i < k THEN q[i] ELSE q[i + 1]
      BY Zenon
    <3>0. /\ i \in 1..(Len(a) + Len(b)) /\ (i <= Len(a) <=> i < k)
          /\ Len(a) = k - 1
      BY <2>a, <2>b, <2>c, SMTT(30)
    <3>1. CASE i < k
      <4>1. r[i] = a[i]
        BY <2>d, <3>0, <3>1, Zenon
      <4>2. i \in 1..(k - 1)
        BY <2>a, <3>1, SMTT(30)
      <4> QED BY <2>b, <3>1, <4>1, <4>2, Zenon
    <3>2. CASE ~(i < k)
      <4>1. i - (k - 1) \in 1..(Len(q) - k) /\ k + (i - (k - 1)) = i + 1
        BY <2>a, <3>2, SMTT(30)
      <4>2. r[i] = b[i - (k - 1)]
        BY <2>d, <3>0, <3>2, Zenon
      <4> QED BY <2>c, <3>2, <4>1, <4>2, Zenon
    <3> QED BY <3>1, <3>2, Zenon
  <2> HIDE DEF I
  <2>6. IsInjective(r)
    <3> SUFFICES ASSUME NEW i \in 1..(Len(q) - 1), NEW j \in 1..(Len(q) - 1), r[i] = r[j]
                 PROVE  i = j
      BY <2>4, Zenon DEF IsInjective
    <3> DEFINE at(n) == IF n < k THEN n ELSE n + 1
    <3>1. at(i) \in 1..Len(q) /\ at(j) \in 1..Len(q)
      BY <2>4, SMTT(30)
    <3>2. r[i] = q[at(i)] /\ r[j] = q[at(j)]
      BY <2>5, Zenon
    <3>3. at(i) = at(j)
      BY <3>1, <3>2, <2>4, Zenon DEF IsInjective
    <3> QED BY <3>3, <2>4, SMTT(30)
  <2>7. ASSUME NEW i \in 1..(Len(q) - 1) PROVE r[i] \in Range(q) \ {e}
    <3> DEFINE n == IF i < k THEN i ELSE i + 1
    <3>1. n \in 1..Len(q) /\ n # k
      BY <2>4, SMTT(30)
    <3>2. r[i] = q[n]
      BY <2>5, Zenon
    <3>3. q[n] # e
      BY <3>1, <2>1, Zenon DEF I
    <3> HIDE DEF n
    <3> QED BY <2>4, <3>1, <3>2, <3>3, Zenon DEF Range
  <2>8. ASSUME NEW i \in 1..Len(q), q[i] # e PROVE q[i] \in Range(r)
    <3> DEFINE n == IF i < k THEN i ELSE i - 1
    <3>1. n \in 1..(Len(q) - 1)
      BY <2>4, <2>8, <1>2, SMTT(30)
    <3>2. r[n] = q[i]
      BY <2>4, <2>5, <2>8, <1>2, <3>1, SMTT(30)
    <3> HIDE DEF n
    <3> QED BY <2>4, <3>1, <3>2, Zenon DEF Range
  <2>9. Range(r) = Range(q) \ {e}
    <3>1. Range(r) \subseteq Range(q) \ {e}
      BY <2>4, <2>7, Zenon DEF Range
    <3>2. Range(q) \ {e} \subseteq Range(r)
      BY <2>4, <2>8, Zenon DEF Range
    <3> QED BY <3>1, <3>2, Zenon
  <2>10. ASSUME NEW i \in 1..(Len(q) - 1)
         PROVE  \E j \in 1..Len(q) : i <= j /\ r[i] = q[j]
    <3>1. i \in 1..Len(q) /\ i + 1 \in 1..Len(q) /\ i <= i /\ i <= i + 1
      BY <2>4, SMTT(30)
    <3> QED BY <2>5, <3>1, Zenon
  <2> QED BY <2>3, <2>4, <2>6, <2>9, <2>10, Zenon
<1> QED BY <1>1, <1>2, Zenon

\* SumAppend: what push_back adds to the sum of a queue.
LEMMA SumAppend ==
  ASSUME NEW n \in Nat, NEW f, \A i \in 1..n : f[i] \in Nat,
         NEW h, \A i \in 1..n : h[i] = f[i], h[n + 1] \in Nat
  PROVE  /\ SumFunctionOnSet(h, 1..(n + 1)) = SumFunctionOnSet(f, 1..n) + h[n + 1]
         /\ SumFunctionOnSet(f, 1..n) \in Nat
<1>1. IsFiniteSet(1..n)
  BY FS_Interval, SMTT(30)
<1>2. \A i \in 1..(n + 1) : h[i] \in Nat
  <2> SUFFICES ASSUME NEW i \in 1..(n + 1) PROVE h[i] \in Nat
    BY Zenon
  <2>1. i = n + 1 \/ i \in 1..n
    BY SMTT(30)
  <2> QED BY <2>1, Zenon
<1>3. SumFunctionOnSet(h, 1..(n + 1)) = SumFunctionOnSet(h, 1..n) + h[n + 1]
  BY <1>2, SumExtend, Zenon
<1>4. SumFunctionOnSet(h, 1..n) = SumFunctionOnSet(f, 1..n)
  BY <1>1, SumSame, Zenon
<1>5. SumFunctionOnSet(f, 1..n) \in Nat
  BY <1>1, SumNat, Zenon
<1> QED BY <1>3, <1>4, <1>5, Zenon
=============================================================================
