------------------------------ MODULE FoldLemmas ------------------------------
(***************************************************************************)
(* What SumFunction and FlattenSeq of the community modules compute: the   *)
(* facts about sums and concatenations that the proofs of OutputBudget and *)
(* ArchiveExtract need.  Induction runs over a set of counterexamples,     *)
(* which would have a least member.                                        *)
(***************************************************************************)
EXTENDS Integers, SequencesExt, FiniteSetTheorems, WellFoundedInduction, TLAPS

-----------------------------------------------------------------------------
(* Least members.                                                          *)

LEMMA LeastNumber ==
  ASSUME NEW B \in SUBSET Nat, B # {}
  PROVE  \E n \in B : \A m \in B : n <= m
<1>1. PICK n \in B : \A m \in B : ~(<<m, n>> \in OpToRel(<, Nat))
  BY NatLessThanWellFounded, WFMin
<1>2. ASSUME NEW m \in B PROVE n <= m
  <2>1. <<m, n>> \in Nat \X Nat /\ <<m, n>>[1] = m /\ <<m, n>>[2] = n
    OBVIOUS
  <2>2. ~(m < n)
    BY <1>1, <2>1, Zenon DEF OpToRel
  <2>. QED
    BY <2>2
<1>. QED
  BY <1>2

LEMMA LeastSet ==
  ASSUME NEW S, IsFiniteSet(S), NEW B \in SUBSET SUBSET S, B # {}
  PROVE  \E T \in B : \A U \in B : U \subseteq T => U = T
<1>1. IsWellFoundedOn(StrictSubsetOrdering(S), SUBSET S)
  BY FS_StrictSubsetOrderingWellFounded, FS_FiniteSubsetsOfFinite
<1>2. PICK T \in B : \A U \in B : ~(<<U, T>> \in StrictSubsetOrdering(S))
  BY <1>1, WFMin
<1>3. ASSUME NEW U \in B, U \subseteq T PROVE U = T
  <2>1. <<U, T>> \in (SUBSET S) \X (SUBSET S) /\ <<U, T>>[1] = U /\ <<U, T>>[2] = T
    OBVIOUS
  <2>. QED
    BY <1>2, <1>3, <2>1, Zenon DEF StrictSubsetOrdering
<1>. QED
  BY <1>3

-----------------------------------------------------------------------------
(* Sums over finite sets.                                                  *)

Some(T) == CHOOSE x \in T : TRUE

\* g is the recursive function by which the sum of f over subsets of S is defined.
Sums(g, f, S) ==
  g = [T \in SUBSET S |-> IF T = {} THEN 0 ELSE f[Some(T)] + g[T \ {Some(T)}]]

LEMMA SomeMember == ASSUME NEW T, T # {} PROVE Some(T) \in T
BY DEF Some

LEMMA SumsExists ==
  ASSUME NEW S, IsFiniteSet(S), NEW f
  PROVE  \E g : Sums(g, f, S)
<1>. DEFINE Upto(n) == {T \in SUBSET S : Cardinality(T) <= n}
            On(n, g) == g = [T \in Upto(n) |->
                               IF T = {} THEN 0 ELSE f[Some(T)] + g[T \ {Some(T)}]]
            B == {n \in Nat : ~\E g : On(n, g)}
<1>1. \A T \in SUBSET S : IsFiniteSet(T) /\ Cardinality(T) \in Nat
  BY FS_Subset, FS_CardinalityType
<1>2. ASSUME NEW n \in Nat, NEW T \in Upto(n), T # {}
      PROVE  n # 0 /\ T \ {Some(T)} \in Upto(n - 1)
  <2>1. Some(T) \in T
    BY <1>2, SomeMember
  <2>2. Cardinality(T) # 0 /\ Cardinality(T \ {Some(T)}) = Cardinality(T) - 1
    BY <1>1, <1>2, <2>1, FS_EmptySet, FS_RemoveElement
  <2>. QED
    BY <1>1, <2>2
<1>3. B = {}
  <2>. SUFFICES ASSUME B # {} PROVE FALSE
    OBVIOUS
  <2>1. PICK n \in B : \A m \in B : n <= m
    BY LeastNumber
  <2>2. PICK h : n # 0 => On(n - 1, h)
    <3>. SUFFICES ASSUME n # 0 PROVE \E h : On(n - 1, h)
      OBVIOUS
    <3>1. n - 1 \in Nat /\ ~(n <= n - 1)
      BY <2>1
    <3>2. n - 1 \notin B
      <4>. HIDE DEF B
      <4>. QED
        BY <2>1, <3>1
    <3>. QED
      BY <3>1, <3>2
  <2>. DEFINE g == [T \in Upto(n) |-> IF T = {} THEN 0 ELSE f[Some(T)] + h[T \ {Some(T)}]]
  <2>3. ASSUME NEW T \in Upto(n), T # {} PROVE g[T \ {Some(T)}] = h[T \ {Some(T)}]
    <3>. DEFINE U == T \ {Some(T)}
    <3>1. n # 0 /\ U \in Upto(n - 1)
      BY <1>2, <2>3
    <3>2. U \in Upto(n)
      BY <1>1, <3>1
    <3>. HIDE DEF U
    <3>3. h[U] = IF U = {} THEN 0 ELSE f[Some(U)] + h[U \ {Some(U)}]
      BY <2>2, <3>1
    <3>. QED
      BY <3>2, <3>3 DEF U
  <2>4. On(n, g)
    BY <2>3
  <2>. QED
    BY <2>4
<1>4. Upto(Cardinality(S)) = SUBSET S
  BY FS_Subset, <1>1
<1>5. PICK g : On(Cardinality(S), g)
  <2>1. Cardinality(S) \in Nat
    BY <1>1
  <2>. QED
    BY <1>3, <2>1
<1>6. Sums(g, f, S)
  <2>. HIDE DEF Upto
  <2>. QED
    BY <1>4, <1>5 DEF Sums
<1>. QED
  BY <1>6

LEMMA SumsUnfold ==
  ASSUME NEW S, IsFiniteSet(S), NEW f
  PROVE  \E g : Sums(g, f, S) /\ SumFunctionOnSet(f, S) = g[S]
<1>1. \E g : g = [s \in SUBSET S |-> IF s = {} THEN 0
                   ELSE f[CHOOSE x \in s : TRUE] + g[s \ {CHOOSE x \in s : TRUE}]]
  <2>1. PICK g : Sums(g, f, S)
    BY SumsExists
  <2>. QED
    BY <2>1 DEF Sums, Some
<1>. QED
  BY <1>1 DEF SumFunctionOnSet, FoldFunctionOnSet, MapThenFoldSet, Sums, Some

Agree(f, e, T) == \A x \in T : f[x] = e[x]

LEMMA SumsAgree ==
  ASSUME NEW S, NEW R, NEW T \in SUBSET (S \cap R), IsFiniteSet(T),
         NEW f, NEW e, Agree(f, e, T)
  PROVE  \A g, h : Sums(g, f, S) /\ Sums(h, e, R) => g[T] = h[T]
<1>. SUFFICES ASSUME NEW g, NEW h, Sums(g, f, S), Sums(h, e, R) PROVE g[T] = h[T]
  OBVIOUS
<1>. DEFINE B == {U \in SUBSET T : g[U] # h[U]}
<1>. SUFFICES ASSUME B # {} PROVE FALSE
  OBVIOUS
<1>1. PICK U \in B : \A V \in B : V \subseteq U => V = U
  <2>1. B \subseteq SUBSET T
    OBVIOUS
  <2>. HIDE DEF B
  <2>. QED
    BY <2>1, LeastSet
<1>2. U \in SUBSET S /\ U \in SUBSET R
  OBVIOUS
<1>3. /\ g[U] = IF U = {} THEN 0 ELSE f[Some(U)] + g[U \ {Some(U)}]
      /\ h[U] = IF U = {} THEN 0 ELSE e[Some(U)] + h[U \ {Some(U)}]
  BY <1>2 DEF Sums
<1>4. U # {}
  BY <1>3
<1>5. Some(U) \in U
  BY <1>4, SomeMember
<1>6. U \ {Some(U)} \notin B
  BY <1>1, <1>5
<1>. QED
  BY <1>3, <1>4, <1>5, <1>6 DEF Agree

LEMMA SumEmpty == ASSUME NEW f PROVE SumFunctionOnSet(f, {}) = 0
<1>1. PICK g : Sums(g, f, {}) /\ SumFunctionOnSet(f, {}) = g[{}]
  BY SumsUnfold, FS_EmptySet
<1>. QED
  BY <1>1 DEF Sums

\* A sum depends on nothing but the values summed up.
LEMMA SumSame ==
  ASSUME NEW S, IsFiniteSet(S), NEW f, NEW e, \A x \in S : f[x] = e[x]
  PROVE  SumFunctionOnSet(f, S) = SumFunctionOnSet(e, S)
<1>1. PICK g : Sums(g, f, S) /\ SumFunctionOnSet(f, S) = g[S]
  BY SumsUnfold
<1>2. PICK h : Sums(h, e, S) /\ SumFunctionOnSet(e, S) = h[S]
  BY SumsUnfold
<1>3. g[S] = h[S]
  <2>1. S \in SUBSET (S \cap S) /\ Agree(f, e, S)
    BY DEF Agree
  <2>2. \A k, l : Sums(k, f, S) /\ Sums(l, e, S) => k[S] = l[S]
    BY <2>1, SumsAgree
  <2>. QED
    BY <1>1, <1>2, <2>2
<1>. QED
  BY <1>1, <1>2, <1>3

LEMMA SumSome ==
  ASSUME NEW S, IsFiniteSet(S), S # {}, NEW f
  PROVE  SumFunctionOnSet(f, S) = f[Some(S)] + SumFunctionOnSet(f, S \ {Some(S)})
<1>. DEFINE R == S \ {Some(S)}
<1>0. IsFiniteSet(R) /\ R \subseteq S
  BY FS_Subset
<1>1. PICK g : Sums(g, f, S) /\ SumFunctionOnSet(f, S) = g[S]
  BY SumsUnfold
<1>2. PICK h : Sums(h, f, R) /\ SumFunctionOnSet(f, R) = h[R]
  BY <1>0, SumsUnfold
<1>3. g[R] = h[R]
  <2>1. R \in SUBSET (S \cap R) /\ Agree(f, f, R)
    BY DEF Agree
  <2>. HIDE DEF R
  <2>2. \A k, l : Sums(k, f, S) /\ Sums(l, f, R) => k[R] = l[R]
    BY <1>0, <2>1, SumsAgree
  <2>. QED
    BY <1>1, <1>2, <2>2
<1>4. g[S] = f[Some(S)] + g[R]
  BY <1>1 DEF Sums
<1>. QED
  BY <1>1, <1>2, <1>3, <1>4

LEMMA SumNat ==
  ASSUME NEW S, IsFiniteSet(S), NEW f, \A x \in S : f[x] \in Nat
  PROVE  SumFunctionOnSet(f, S) \in Nat
<1>. DEFINE B == {T \in SUBSET S : SumFunctionOnSet(f, T) \notin Nat}
<1>. SUFFICES ASSUME B # {} PROVE FALSE
  OBVIOUS
<1>1. PICK T \in B : \A U \in B : U \subseteq T => U = T
  <2>1. B \subseteq SUBSET S
    OBVIOUS
  <2>. HIDE DEF B
  <2>. QED
    BY <2>1, LeastSet
<1>2. IsFiniteSet(T) /\ T # {}
  <2>1. SumFunctionOnSet(f, {}) \in Nat
    BY SumEmpty
  <2>. QED
    BY <2>1, FS_Subset
<1>3. Some(T) \in T /\ SumFunctionOnSet(f, T) = f[Some(T)] + SumFunctionOnSet(f, T \ {Some(T)})
  BY <1>2, SomeMember, SumSome
<1>4. T \ {Some(T)} \notin B
  BY <1>1, <1>3
<1>5. SumFunctionOnSet(f, T \ {Some(T)}) \in Nat
  BY <1>4
<1>. QED
  BY <1>3, <1>5

\* Any member may be taken out first.
LEMMA SumRemove ==
  ASSUME NEW S, IsFiniteSet(S), NEW f, \A x \in S : f[x] \in Nat, NEW a \in S
  PROVE  SumFunctionOnSet(f, S) = f[a] + SumFunctionOnSet(f, S \ {a})
<1>. DEFINE Sum(T) == SumFunctionOnSet(f, T)
            B == {T \in SUBSET S : \E x \in T : Sum(T) # f[x] + Sum(T \ {x})}
<1>. SUFFICES ASSUME B # {} PROVE FALSE
  OBVIOUS
<1>0. \A T \in SUBSET S : IsFiniteSet(T) /\ Sum(T) \in Nat
  BY FS_Subset, SumNat
<1>1. PICK T \in B : \A U \in B : U \subseteq T => U = T
  <2>1. B \subseteq SUBSET S
    OBVIOUS
  <2>. HIDE DEF B
  <2>. QED
    BY <2>1, LeastSet
<1>2. PICK x \in T : Sum(T) # f[x] + Sum(T \ {x})
  BY <1>1
<1>. DEFINE c == Some(T)
<1>3. c \in T /\ Sum(T) = f[c] + Sum(T \ {c})
  BY <1>0, SomeMember, SumSome
<1>4. c # x
  BY <1>2, <1>3
<1>. HIDE DEF c, Sum
<1>5. T \ {c} \notin B /\ T \ {x} \notin B
  BY <1>1, <1>3
<1>6. Sum(T \ {c}) = f[x] + Sum((T \ {c}) \ {x})
  BY <1>4, <1>5
<1>7. Sum(T \ {x}) = f[c] + Sum((T \ {x}) \ {c})
  BY <1>3, <1>4, <1>5
<1>8. (T \ {c}) \ {x} = (T \ {x}) \ {c} /\ (T \ {c}) \ {x} \in SUBSET S
  OBVIOUS
<1>9. Sum((T \ {c}) \ {x}) \in Nat /\ f[x] \in Nat /\ f[c] \in Nat
  BY <1>0, <1>3, <1>8
<1>. QED
  BY <1>2, <1>3, <1>6, <1>7, <1>8, <1>9

LEMMA SumAdd ==
  ASSUME NEW S, IsFiniteSet(S), NEW a, a \notin S, NEW f, \A x \in S \cup {a} : f[x] \in Nat
  PROVE  SumFunctionOnSet(f, S \cup {a}) = SumFunctionOnSet(f, S) + f[a]
<1>1. IsFiniteSet(S \cup {a}) /\ (S \cup {a}) \ {a} = S
  BY FS_AddElement
<1>2. SumFunctionOnSet(f, S \cup {a}) = f[a] + SumFunctionOnSet(f, S)
  BY <1>1, SumRemove
<1>3. SumFunctionOnSet(f, S) \in Nat /\ f[a] \in Nat
  BY SumNat
<1>. QED
  BY <1>2, <1>3

\* Nothing negative is summed up: part of a sum is no more than all of it.
LEMMA SumPart ==
  ASSUME NEW S, IsFiniteSet(S), NEW T, T \subseteq S, NEW f, \A x \in S : f[x] \in Nat
  PROVE  SumFunctionOnSet(f, T) <= SumFunctionOnSet(f, S)
<1>. DEFINE Sum(U) == SumFunctionOnSet(f, U)
            B == {U \in SUBSET S : T \subseteq U /\ ~(Sum(T) <= Sum(U))}
<1>. SUFFICES ASSUME B # {} PROVE FALSE
  OBVIOUS
<1>0. \A U \in SUBSET S : IsFiniteSet(U) /\ Sum(U) \in Nat
  BY FS_Subset, SumNat
<1>1. PICK U \in B : \A V \in B : V \subseteq U => V = U
  <2>1. B \subseteq SUBSET S
    OBVIOUS
  <2>. HIDE DEF B
  <2>. QED
    BY <2>1, LeastSet
<1>2. T # U
  BY <1>0, <1>1
<1>3. PICK x \in U : x \notin T
  BY <1>1, <1>2
<1>4. Sum(U) = f[x] + Sum(U \ {x})
  BY <1>0, SumRemove
<1>. HIDE DEF Sum
<1>5. U \ {x} \notin B /\ U \ {x} \in SUBSET S /\ T \subseteq U \ {x}
  BY <1>1, <1>3
<1>6. Sum(T) <= Sum(U \ {x})
  BY <1>5
<1>7. Sum(U \ {x}) \in Nat /\ Sum(T) \in Nat /\ f[x] \in Nat
  BY <1>0, <1>5
<1>. QED
  BY <1>1, <1>4, <1>6, <1>7

\* Picking members of T without picking one twice sums up to no more than all of T.
LEMMA SumPicked ==
  ASSUME NEW S, NEW T, IsFiniteSet(T), NEW g \in Injection(S, T),
         NEW f, \A x \in T : f[x] \in Nat
  PROVE  SumFunctionOnSet([x \in S |-> f[g[x]]], S) <= SumFunctionOnSet(f, T)
<1>. DEFINE e == [x \in S |-> f[g[x]]]
            Picked(U) == {g[x] : x \in U}
            Differs(U) == SumFunctionOnSet(e, U) # SumFunctionOnSet(f, Picked(U))
            B == {U \in SUBSET S : Differs(U)}
<1>0. /\ IsFiniteSet(S) /\ g \in [S -> T]
      /\ \A x, y \in S : g[x] = g[y] => x = y
  BY FS_Injection DEF Injection, IsInjective
<1>1. \A x \in S : e[x] = f[g[x]] /\ e[x] \in Nat
  BY <1>0
<1>2. \A U \in SUBSET S : IsFiniteSet(U) /\ Picked(U) \subseteq T /\ IsFiniteSet(Picked(U))
  BY <1>0, FS_Subset
<1>3. B = {}
  <2>. SUFFICES ASSUME B # {} PROVE FALSE
    OBVIOUS
  <2>1. PICK U \in B : \A V \in B : V \subseteq U => V = U
    <3>1. B \subseteq SUBSET S
      OBVIOUS
    <3>. HIDE DEF B
    <3>. QED
      BY <1>0, <3>1, LeastSet
  <2>2. U # {}
    BY <2>1, SumEmpty
  <2>3. PICK a \in U : TRUE
    BY <2>2
  <2>4. /\ U \ {a} \in SUBSET S /\ ~Differs(U \ {a}) /\ U \in SUBSET S /\ Differs(U)
        /\ Picked(U) = Picked(U \ {a}) \cup {g[a]} /\ g[a] \notin Picked(U \ {a})
    <3>1. U \ {a} \notin B /\ U \in B
      <4>. HIDE DEF B
      <4>. QED
        BY <2>1, <2>3
    <3>2. U \ {a} \in SUBSET S /\ U \in SUBSET S /\ Differs(U)
      BY <3>1
    <3>3. Picked(U) = Picked(U \ {a}) \cup {g[a]} /\ g[a] \notin Picked(U \ {a})
      BY <1>0, <2>3, <3>2
    <3>4. ~Differs(U \ {a})
      <4>. HIDE DEF Differs
      <4>. QED
        BY <3>1, <3>2
    <3>. QED
      BY <3>2, <3>3, <3>4
  <2>5. SumFunctionOnSet(e, U) = e[a] + SumFunctionOnSet(e, U \ {a})
    <3>1. IsFiniteSet(U) /\ \A x \in U : e[x] \in Nat
      BY <1>1, <1>2, <2>4
    <3>. HIDE DEF e
    <3>. QED
      BY <2>3, <3>1, SumRemove
  <2>6. SumFunctionOnSet(f, Picked(U)) = SumFunctionOnSet(f, Picked(U \ {a})) + f[g[a]]
    <3>. DEFINE P == Picked(U \ {a})
                y == g[a]
    <3>1. IsFiniteSet(P) /\ y \notin P /\ \A x \in P \cup {y} : f[x] \in Nat
      BY <1>0, <1>2, <2>3, <2>4
    <3>2. Picked(U) = P \cup {y}
      BY <2>4
    <3>. HIDE DEF P, y
    <3>3. SumFunctionOnSet(f, P \cup {y}) = SumFunctionOnSet(f, P) + f[y]
      BY <3>1, SumAdd
    <3>4. SumFunctionOnSet(f, Picked(U)) = SumFunctionOnSet(f, P) + f[y]
      <4>. HIDE DEF Picked
      <4>. QED
        BY <3>2, <3>3
    <3>. QED
      BY <3>4 DEF P, y
  <2>7. /\ e[a] = f[g[a]] /\ f[g[a]] \in Nat
        /\ SumFunctionOnSet(e, U \ {a}) = SumFunctionOnSet(f, Picked(U \ {a}))
        /\ SumFunctionOnSet(f, Picked(U \ {a})) \in Nat
    <3>1. e[a] = f[g[a]] /\ f[g[a]] \in Nat
      BY <1>1, <2>3, <2>4
    <3>2. SumFunctionOnSet(f, Picked(U \ {a})) \in Nat
      <4>1. IsFiniteSet(Picked(U \ {a})) /\ \A x \in Picked(U \ {a}) : f[x] \in Nat
        BY <1>2, <2>4
      <4>. HIDE DEF Picked
      <4>. QED
        BY <4>1, SumNat
    <3>. QED
      BY <2>4, <3>1, <3>2
  <2>. HIDE DEF Picked, e
  <2>8. SumFunctionOnSet(e, U) = SumFunctionOnSet(f, Picked(U))
    BY <2>5, <2>6, <2>7
  <2>. QED
    BY <2>4, <2>8
<1>4. SumFunctionOnSet(e, S) = SumFunctionOnSet(f, Picked(S))
  <2>. HIDE DEF Picked, e
  <2>. QED
    BY <1>3
<1>5. SumFunctionOnSet(f, Picked(S)) <= SumFunctionOnSet(f, T)
  <2>1. Picked(S) \subseteq T
    BY <1>2
  <2>. HIDE DEF Picked
  <2>. QED
    BY <2>1, SumPart
<1>. QED
  BY <1>4, <1>5

-----------------------------------------------------------------------------
(* Sums over sequences and their first members.                            *)

LEMMA EmptySum == SumFunction(<<>>) = 0
<1>1. DOMAIN <<>> = {}
  OBVIOUS
<1>. QED
  BY <1>1, SumEmpty DEF SumFunction

\* The sum over the first n members.
SumUpto(s, n) == SumFunctionOnSet(s, 1 .. n)

LEMMA SumUptoNone == ASSUME NEW s PROVE SumUpto(s, 0) = 0
<1>1. 1 .. 0 = {}
  OBVIOUS
<1>. QED
  BY <1>1, SumEmpty DEF SumUpto

LEMMA SumUptoAll == ASSUME NEW s \in Seq(Nat) PROVE SumUpto(s, Len(s)) = SumFunction(s)
<1>1. DOMAIN s = 1 .. Len(s)
  OBVIOUS
<1>. QED
  BY <1>1 DEF SumUpto, SumFunction

LEMMA SumUptoNat ==
  ASSUME NEW s \in Seq(Nat), NEW n \in 0 .. Len(s)
  PROVE  SumUpto(s, n) \in Nat
<1>1. IsFiniteSet(1 .. n)
  BY FS_Interval
<1>2. \A i \in 1 .. n : s[i] \in Nat
  OBVIOUS
<1>. QED
  BY <1>1, <1>2, SumNat DEF SumUpto

LEMMA SumUptoNext ==
  ASSUME NEW s \in Seq(Nat), NEW n \in Nat, n < Len(s)
  PROVE  SumUpto(s, n + 1) = SumUpto(s, n) + s[n + 1]
<1>1. IsFiniteSet(1 .. n) /\ n + 1 \notin 1 .. n
  BY FS_Interval
<1>2. 1 .. n + 1 = (1 .. n) \cup {n + 1}
  OBVIOUS
<1>3. \A i \in (1 .. n) \cup {n + 1} : s[i] \in Nat
  OBVIOUS
<1>. QED
  BY <1>1, <1>2, <1>3, SumAdd DEF SumUpto

LEMMA SumUptoGrows ==
  ASSUME NEW s \in Seq(Nat), NEW m \in Nat, NEW n \in Nat, m <= n, n <= Len(s)
  PROVE  SumUpto(s, m) <= SumUpto(s, n)
<1>1. IsFiniteSet(1 .. n)
  BY FS_Interval
<1>2. 1 .. m \subseteq 1 .. n /\ \A i \in 1 .. n : s[i] \in Nat
  OBVIOUS
<1>. QED
  BY <1>1, <1>2, SumPart DEF SumUpto

\* The sum over a prefix is the sum over that many members of the whole.
LEMMA SumUptoPrefix ==
  ASSUME NEW s, NEW t, NEW n \in Nat, \A i \in 1 .. n : s[i] = t[i]
  PROVE  SumUpto(s, n) = SumUpto(t, n)
<1>1. IsFiniteSet(1 .. n)
  BY FS_Interval
<1>. QED
  BY <1>1, SumSame DEF SumUpto

LEMMA SumAppend ==
  ASSUME NEW s \in Seq(Nat), NEW e \in Nat
  PROVE  SumFunction(Append(s, e)) = SumFunction(s) + e
<1>. DEFINE t == Append(s, e)
            n == Len(s)
<1>1. /\ t \in Seq(Nat) /\ Len(t) = n + 1 /\ n \in Nat /\ t[n + 1] = e
      /\ \A i \in 1 .. n : t[i] = s[i]
  OBVIOUS
<1>2. SumUpto(t, n) = SumUpto(s, n)
  BY <1>1, SumUptoPrefix
<1>. HIDE DEF t
<1>3. SumFunction(t) = SumUpto(t, n + 1)
  BY <1>1, SumUptoAll
<1>4. SumUpto(t, n + 1) = SumUpto(t, n) + e
  <2>1. n < Len(t)
    BY <1>1
  <2>. HIDE DEF n
  <2>. QED
    BY <1>1, <2>1, SumUptoNext
<1>. QED
  BY <1>2, <1>3, <1>4, SumUptoAll DEF t

-----------------------------------------------------------------------------
(* Concatenations.                                                         *)

\* g is the recursive function by which FlattenSeq joins the members of s.
Joins(g, s) == g = [i \in 1 .. Len(s) |-> IF i = 1 THEN s[i] ELSE g[i - 1] \o s[i]]

LEMMA JoinsExists ==
  ASSUME NEW s, Len(s) \in Nat
  PROVE  \E g : Joins(g, s)
<1>. DEFINE On(n, g) == g = [i \in 1 .. n |-> IF i = 1 THEN s[i] ELSE g[i - 1] \o s[i]]
            B == {n \in Nat : ~\E g : On(n, g)}
<1>1. B = {}
  <2>. SUFFICES ASSUME B # {} PROVE FALSE
    OBVIOUS
  <2>1. PICK n \in B : \A m \in B : n <= m
    <3>1. B \subseteq Nat
      OBVIOUS
    <3>. HIDE DEF B
    <3>. QED
      BY <3>1, LeastNumber
  <2>2. PICK h : n # 0 => On(n - 1, h)
    <3>. SUFFICES ASSUME n # 0 PROVE \E h : On(n - 1, h)
      OBVIOUS
    <3>1. n - 1 \in Nat /\ ~(n <= n - 1)
      BY <2>1
    <3>2. n - 1 \notin B
      <4>. HIDE DEF B
      <4>. QED
        BY <2>1, <3>1
    <3>. QED
      BY <3>1, <3>2
  <2>. DEFINE g == [i \in 1 .. n |-> IF i = 1 THEN s[i] ELSE h[i - 1] \o s[i]]
  <2>3. ASSUME NEW i \in 1 .. n, i # 1 PROVE g[i - 1] = h[i - 1]
    <3>1. n \in Nat /\ i - 1 \in 1 .. n - 1 /\ i - 1 \in 1 .. n /\ n # 0
      BY <2>1, <2>3
    <3>2. h[i - 1] = IF i - 1 = 1 THEN s[i - 1] ELSE h[i - 1 - 1] \o s[i - 1]
      BY <2>2, <3>1
    <3>. QED
      BY <3>1, <3>2
  <2>4. On(n, g)
    BY <2>3
  <2>. QED
    BY <2>4
<1>. QED
  BY <1>1 DEF Joins

LEMMA JoinsUnfold ==
  ASSUME NEW s, Len(s) \in Nat, Len(s) # 0
  PROVE  \E g : Joins(g, s) /\ FlattenSeq(s) = g[Len(s)]
<1>1. \E g : g = [i \in 1 .. Len(s) |-> IF i = 1 THEN s[i] ELSE g[i - 1] \o s[i]]
  <2>1. PICK g : Joins(g, s)
    BY JoinsExists
  <2>. QED
    BY <2>1 DEF Joins
<1>. QED
  BY <1>1 DEF FlattenSeq, Joins

LEMMA JoinsAgree ==
  ASSUME NEW s, NEW t, NEW n \in Nat, Len(s) \in Nat, Len(t) \in Nat,
         n <= Len(s), n <= Len(t), Agree(s, t, 1 .. n)
  PROVE  \A g, h : Joins(g, s) /\ Joins(h, t) => Agree(g, h, 1 .. n)
<1>. SUFFICES ASSUME NEW g, NEW h, Joins(g, s), Joins(h, t), NEW i \in 1 .. n
              PROVE  g[i] = h[i]
  BY DEF Agree
<1>. DEFINE B == {k \in 1 .. n : g[k] # h[k]}
<1>. SUFFICES ASSUME B # {} PROVE FALSE
  OBVIOUS
<1>1. PICK k \in B : \A m \in B : k <= m
  <2>1. B \subseteq Nat
    OBVIOUS
  <2>. HIDE DEF B
  <2>. QED
    BY <2>1, LeastNumber
<1>2. k \in 1 .. n /\ k \in 1 .. Len(s) /\ k \in 1 .. Len(t)
  OBVIOUS
<1>3. /\ g[k] = IF k = 1 THEN s[k] ELSE g[k - 1] \o s[k]
      /\ h[k] = IF k = 1 THEN t[k] ELSE h[k - 1] \o t[k]
  BY <1>2 DEF Joins
<1>4. s[k] = t[k]
  BY <1>2 DEF Agree
<1>5. k # 1 => k - 1 \in 1 .. n /\ ~(k <= k - 1)
  BY <1>2
<1>6. k # 1 => k - 1 \notin B
  <2>. HIDE DEF B
  <2>. QED
    BY <1>1, <1>5
<1>7. k # 1 => g[k - 1] = h[k - 1]
  BY <1>5, <1>6
<1>8. g[k] # h[k]
  OBVIOUS
<1>. HIDE DEF B
<1>. QED
  BY <1>3, <1>4, <1>7, <1>8

LEMMA FlattenNone == FlattenSeq(<<>>) = <<>>
BY DEF FlattenSeq

LEMMA FlattenAppend ==
  ASSUME NEW A, NEW s \in Seq(Seq(A)), NEW e \in Seq(A)
  PROVE  FlattenSeq(Append(s, e)) = FlattenSeq(s) \o e
<1>. DEFINE t == Append(s, e)
            n == Len(s)
<1>1. /\ n \in Nat /\ Len(t) = n + 1 /\ t[n + 1] = e
      /\ \A i \in 1 .. n : t[i] = s[i]
  OBVIOUS
<1>2. Agree(t, s, 1 .. n)
  BY <1>1 DEF Agree
<1>. HIDE DEF t
<1>3. PICK h : Joins(h, t) /\ FlattenSeq(t) = h[n + 1]
  BY <1>1, JoinsUnfold
<1>4. h[n + 1] = IF n = 0 THEN e ELSE h[n] \o e
  <2>1. n + 1 \in 1 .. Len(t)
    BY <1>1
  <2>2. \A i \in 1 .. Len(t) : h[i] = IF i = 1 THEN t[i] ELSE h[i - 1] \o t[i]
    BY <1>3 DEF Joins
  <2>3. n + 1 - 1 = n /\ (n + 1 = 1 <=> n = 0)
    BY <1>1
  <2>. HIDE DEF n
  <2>. QED
    BY <1>1, <2>1, <2>2, <2>3
<1>5. CASE n = 0
  <2>1. s = <<>> /\ <<>> \o e = e
    BY <1>5
  <2>. QED
    BY <1>1, <1>3, <1>4, <1>5, <2>1, FlattenNone DEF t
<1>6. CASE n # 0
  <2>1. PICK g : Joins(g, s) /\ FlattenSeq(s) = g[n]
    BY <1>1, <1>6, JoinsUnfold
  <2>2. h[n] = g[n]
    <3>1. n \in 1 .. n /\ n <= Len(t) /\ n <= Len(s) /\ Len(t) \in Nat /\ Len(s) \in Nat
      BY <1>1, <1>6
    <3>. HIDE DEF n
    <3>2. \A k, l : Joins(k, t) /\ Joins(l, s) => Agree(k, l, 1 .. n)
      BY <1>1, <1>2, <3>1, JoinsAgree
    <3>. QED
      BY <1>3, <2>1, <3>1, <3>2 DEF Agree
  <2>3. h[n + 1] = h[n] \o e
    BY <1>1, <1>4, <1>6
  <2>. QED
    BY <1>3, <2>1, <2>2, <2>3 DEF t
<1>. QED
  BY <1>5, <1>6

LEMMA FlattenType ==
  ASSUME NEW A, NEW s \in Seq(Seq(A))
  PROVE  FlattenSeq(s) \in Seq(A)
<1>. DEFINE n == Len(s)
<1>1. CASE n = 0
  BY <1>1 DEF FlattenSeq
<1>2. CASE n # 0
  <2>1. PICK g : Joins(g, s) /\ FlattenSeq(s) = g[n]
    BY <1>2, JoinsUnfold
  <2>. DEFINE B == {k \in 1 .. n : g[k] \notin Seq(A)}
  <2>2. B = {}
    <3>. SUFFICES ASSUME B # {} PROVE FALSE
      OBVIOUS
    <3>1. PICK k \in B : \A m \in B : k <= m
      <4>1. B \subseteq Nat
        OBVIOUS
      <4>. HIDE DEF B
      <4>. QED
        BY <4>1, LeastNumber
    <3>2. k \in 1 .. n /\ g[k] \notin Seq(A) /\ s[k] \in Seq(A)
      OBVIOUS
    <3>3. g[k] = IF k = 1 THEN s[k] ELSE g[k - 1] \o s[k]
      BY <2>1, <3>2 DEF Joins
    <3>4. k # 1 => k - 1 \in 1 .. n /\ ~(k <= k - 1)
      BY <3>2
    <3>5. k # 1 => k - 1 \notin B
      <4>. HIDE DEF B
      <4>. QED
        BY <3>1, <3>4
    <3>6. k # 1 => g[k - 1] \in Seq(A)
      BY <3>4, <3>5
    <3>7. \A x, y : x \in Seq(A) /\ y \in Seq(A) => x \o y \in Seq(A)
      OBVIOUS
    <3>. HIDE DEF B, n
    <3>. QED
      BY <3>2, <3>3, <3>6, <3>7
  <2>3. n \in 1 .. n
    BY <1>2
  <2>. QED
    BY <2>1, <2>2, <2>3
<1>. QED
  BY <1>1, <1>2
=============================================================================
