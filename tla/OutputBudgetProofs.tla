-------------------------- MODULE OutputBudgetProofs --------------------------
(***************************************************************************)
(* Theorems about OutputBudget, for every document, every budget and every *)
(* cap: first what _truncate() returns, from the positions of the bytes of *)
(* an encoded text, then the invariant of the steps that spend the budget. *)
(***************************************************************************)
EXTENDS OutputBudget, FoldLemmas

-----------------------------------------------------------------------------
(* Bounded sequences and their first members.                              *)

LEMMA SeqOfMember ==
  ASSUME NEW A, NEW n \in Nat, NEW s
  PROVE  s \in SeqOf(A, n) <=> s \in Seq(A) /\ Len(s) <= n
<1>1. ASSUME s \in SeqOf(A, n) PROVE s \in Seq(A) /\ Len(s) <= n
  <2>1. PICK m \in 0 .. n : s \in [1 .. m -> A]
    BY <1>1 DEF SeqOf
  <2>2. m \in Nat /\ Len(s) = m /\ m <= n
    BY <2>1
  <2>. QED
    BY <2>1, <2>2
<1>2. ASSUME s \in Seq(A), Len(s) <= n PROVE s \in SeqOf(A, n)
  <2>1. Len(s) \in 0 .. n /\ s \in [1 .. Len(s) -> A]
    BY <1>2
  <2>. QED
    BY <2>1 DEF SeqOf
<1>. QED
  BY <1>1, <1>2

LEMMA SeqSubset == ASSUME NEW A, NEW B, A \subseteq B PROVE Seq(A) \subseteq Seq(B)
OBVIOUS

LEMMA SeqEqual ==
  ASSUME NEW A, NEW s \in Seq(A), NEW t \in Seq(A), Len(s) = Len(t),
         \A i \in 1 .. Len(t) : s[i] = t[i]
  PROVE  s = t
OBVIOUS

LEMMA ConcatFacts ==
  ASSUME NEW A, NEW s \in Seq(A), NEW t \in Seq(A)
  PROVE  /\ s \o t \in Seq(A) /\ Len(s \o t) = Len(s) + Len(t)
         /\ \A i \in 1 .. Len(s) : (s \o t)[i] = s[i]
         /\ \A i \in 1 .. Len(t) : (s \o t)[Len(s) + i] = t[i]
OBVIOUS

LEMMA UptoFacts ==
  ASSUME NEW A, NEW s \in Seq(A), NEW n \in Nat
  PROVE  /\ Upto(s, n) \in Seq(A)
         /\ Len(Upto(s, n)) = IF n < Len(s) THEN n ELSE Len(s)
         /\ \A i \in 1 .. Len(Upto(s, n)) : Upto(s, n)[i] = s[i]
         /\ IsPrefix(Upto(s, n), s)
         /\ n >= Len(s) => Upto(s, n) = s
<1>. DEFINE m == IF n < Len(s) THEN n ELSE Len(s)
            u == SubSeq(s, 1, m)
<1>1. /\ u \in Seq(A) /\ Len(u) = m /\ m <= Len(s) /\ m \in Nat
      /\ \A i \in 1 .. m : u[i] = s[i]
      /\ n >= Len(s) => u = s
  OBVIOUS
<1>. HIDE DEF u, m
<1>2. SubSeq(u, 1, Len(u)) = u
  BY <1>1
<1>3. SubSeq(s, 1, Len(u)) = u
  BY <1>1 DEF u
<1>4. IsPrefix(u, s)
  BY <1>1, <1>2, <1>3 DEF IsPrefix
<1>. QED
  BY <1>1, <1>4 DEF u, m, Upto

LEMMA UptoNext ==
  ASSUME NEW A, NEW s \in Seq(A), NEW n \in Nat, n < Len(s)
  PROVE  Upto(s, n + 1) = Append(Upto(s, n), s[n + 1])
<1>1. n + 1 <= Len(s)
  OBVIOUS
<1>2. Upto(s, n + 1) = SubSeq(s, 1, n + 1) /\ Upto(s, n) = SubSeq(s, 1, n)
  BY <1>1 DEF Upto
<1>. DEFINE u == SubSeq(s, 1, n + 1)
            v == SubSeq(s, 1, n)
<1>3. /\ u \in Seq(A) /\ Len(u) = n + 1 /\ \A i \in 1 .. n + 1 : u[i] = s[i]
      /\ v \in Seq(A) /\ Len(v) = n /\ \A i \in 1 .. n : v[i] = s[i]
      /\ s[n + 1] \in A
  BY <1>1
<1>. HIDE DEF u, v
<1>4. u = Append(v, s[n + 1])
  BY <1>3
<1>. QED
  BY <1>2, <1>4 DEF u, v

LEMMA PrefixIsUpto ==
  ASSUME NEW A, NEW s \in Seq(A), NEW t \in Seq(A), IsPrefix(s, t)
  PROVE  Len(s) \in 0 .. Len(t) /\ s = Upto(t, Len(s))
BY DEF IsPrefix, Upto

-----------------------------------------------------------------------------
(* Where the bytes of a text are.                                          *)

Byte == Nat \X Nat

\* The bytes of the i-th character, which takes n of them.
CharBytes(i, n) == [k \in 1 .. n |-> <<i, k>>]

Bytewise(t) == [i \in DOMAIN t |-> CharBytes(i, t[i])]

\* As many bytes as the characters take, each of a character of the text; the last
\* one of character i is where the first i characters end.
Encoded(t) ==
  /\ Encode(t) \in Seq(Byte)
  /\ Len(Encode(t)) = Size(t)
  /\ \A pos \in 1 .. Len(Encode(t)) : Encode(t)[pos][1] \in 1 .. Len(t)
  /\ \A i \in 1 .. Len(t), pos \in 1 .. Len(Encode(t)) :
       Encode(t)[pos] = <<i, t[i]>> <=> pos = SumUpto(t, i)

Positive == Nat \ {0}

LEMMA CharBytesFacts ==
  ASSUME NEW i \in Nat, NEW n \in Nat
  PROVE  /\ CharBytes(i, n) \in Seq(Byte) /\ Len(CharBytes(i, n)) = n
         /\ \A k \in 1 .. n : CharBytes(i, n)[k] = <<i, k>>
BY DEF CharBytes, Byte

LEMMA EncodeAppend ==
  ASSUME NEW t \in Seq(Positive), NEW c \in Positive
  PROVE  Encode(Append(t, c)) = Encode(t) \o CharBytes(Len(t) + 1, c)
<1>. DEFINE u == Append(t, c)
            n == Len(t)
<1>1. \A s : Encode(s) = FlattenSeq(Bytewise(s))
  BY DEF Encode, Bytewise, CharBytes
<1>2. /\ u \in Seq(Positive) /\ Len(u) = n + 1 /\ n \in Nat /\ u[n + 1] = c
      /\ \A i \in 1 .. n : u[i] = t[i]
      /\ DOMAIN u = 1 .. n + 1 /\ DOMAIN t = 1 .. n
  OBVIOUS
<1>. HIDE DEF u, n
<1>3. Bytewise(t) \in Seq(Seq(Byte)) /\ Len(Bytewise(t)) = n
  <2>1. \A i \in 1 .. n : CharBytes(i, t[i]) \in Seq(Byte)
    <3>1. \A i \in 1 .. n : i \in Nat /\ t[i] \in Nat
      BY <1>2 DEF n, Positive
    <3>. QED
      BY <3>1, CharBytesFacts
  <2>. QED
    BY <1>2, <2>1 DEF Bytewise
<1>4. CharBytes(n + 1, c) \in Seq(Byte)
  BY <1>2, CharBytesFacts DEF Positive
<1>5. Bytewise(u) = Append(Bytewise(t), CharBytes(n + 1, c))
  <2>. DEFINE a == Append(Bytewise(t), CharBytes(n + 1, c))
  <2>1. /\ a \in Seq(Seq(Byte)) /\ Len(a) = n + 1 /\ a[n + 1] = CharBytes(n + 1, c)
        /\ \A i \in 1 .. n : a[i] = Bytewise(t)[i]
    BY <1>2, <1>3, <1>4
  <2>2. \A i \in 1 .. n : a[i] = CharBytes(i, t[i])
    BY <1>2, <2>1 DEF Bytewise
  <2>3. Bytewise(u) = [i \in 1 .. n + 1 |-> CharBytes(i, u[i])]
    BY <1>2 DEF Bytewise
  <2>. HIDE DEF a
  <2>4. \A i \in 1 .. n + 1 : i \in 1 .. n \/ i = n + 1
    BY <1>2
  <2>5. \A i \in 1 .. n + 1 : a[i] = CharBytes(i, u[i])
    BY <1>2, <2>1, <2>2, <2>4
  <2>6. a = [i \in 1 .. n + 1 |-> a[i]]
    BY <1>2, <2>1
  <2>. QED
    BY <2>3, <2>5, <2>6 DEF a
<1>6. FlattenSeq(Bytewise(u)) = FlattenSeq(Bytewise(t)) \o CharBytes(n + 1, c)
  BY <1>3, <1>4, <1>5, FlattenAppend
<1>. QED
  BY <1>1, <1>6 DEF u, n

LEMMA EncodedNext ==
  ASSUME NEW t \in Seq(Positive), NEW c \in Positive, Encoded(t)
  PROVE  Encoded(Append(t, c))
<1>. DEFINE u == Append(t, c)
            n == Len(t)
            e == Encode(t)
            f == Encode(u)
            l == Len(e)
            b == CharBytes(n + 1, c)
<1>1. /\ u \in Seq(Positive) /\ Len(u) = n + 1 /\ n \in Nat /\ u[n + 1] = c
      /\ \A i \in 1 .. n : u[i] = t[i]
      /\ t \in Seq(Nat) /\ u \in Seq(Nat) /\ c \in Nat /\ c # 0
  BY DEF Positive
<1>2. /\ e \in Seq(Byte) /\ l \in Nat /\ l = SumFunction(t)
      /\ \A pos \in 1 .. l : e[pos][1] \in 1 .. n
      /\ \A i \in 1 .. n, pos \in 1 .. l : e[pos] = <<i, t[i]>> <=> pos = SumUpto(t, i)
  BY DEF Encoded, Size
<1>3. /\ b \in Seq(Byte) /\ Len(b) = c
      /\ \A k \in 1 .. c : b[k] = <<n + 1, k>>
  <2>1. n + 1 \in Nat
    BY <1>1
  <2>. HIDE DEF n
  <2>. QED
    BY <1>1, <2>1, CharBytesFacts
<1>4. f = e \o b
  BY EncodeAppend
<1>. HIDE DEF u, n, e, f, l, b
<1>5. /\ f \in Seq(Byte) /\ Len(f) = l + c
      /\ \A pos \in 1 .. l : f[pos] = e[pos]
      /\ \A k \in 1 .. c : f[l + k] = b[k]
  <2>1. e \in Seq(Byte) /\ b \in Seq(Byte)
    BY <1>2, <1>3
  <2>2. /\ e \o b \in Seq(Byte) /\ Len(e \o b) = Len(e) + Len(b)
        /\ \A i \in 1 .. Len(e) : (e \o b)[i] = e[i]
        /\ \A i \in 1 .. Len(b) : (e \o b)[Len(e) + i] = b[i]
    BY <2>1, ConcatFacts
  <2>. QED
    BY <1>3, <1>4, <2>2, Zenon DEF l
<1>6. \A k \in 1 .. c : f[l + k] = <<n + 1, k>>
  BY <1>3, <1>5
<1>7. SumFunction(u) = l + c
  BY <1>1, <1>2, SumAppend DEF u
<1>8. \A i \in 1 .. n : SumUpto(u, i) = SumUpto(t, i) /\ SumUpto(t, i) <= l
  <2>. SUFFICES ASSUME NEW i \in 1 .. n
                PROVE  SumUpto(u, i) = SumUpto(t, i) /\ SumUpto(t, i) <= l
    OBVIOUS
  <2>1. i \in Nat /\ i <= Len(t) /\ Len(t) \in Nat /\ \A j \in 1 .. i : u[j] = t[j]
    BY <1>1 DEF n
  <2>2. SumUpto(u, i) = SumUpto(t, i)
    BY <2>1, SumUptoPrefix
  <2>3. SumUpto(t, i) <= SumUpto(t, Len(t))
    BY <1>1, <2>1, SumUptoGrows
  <2>. QED
    BY <1>1, <1>2, <2>2, <2>3, SumUptoAll
<1>9. SumUpto(u, n + 1) = l + c
  BY <1>1, <1>7, SumUptoAll
<1>10. ASSUME NEW pos \in 1 .. l + c
       PROVE  pos \in 1 .. l \/ \E k \in 1 .. c : pos = l + k
  <2>1. ~(pos \in 1 .. l) => pos - l \in 1 .. c /\ pos = l + (pos - l)
    BY <1>1, <1>2
  <2>. QED
    BY <2>1
<1>11. \A pos \in 1 .. l + c : f[pos][1] \in 1 .. n + 1
  <2>. SUFFICES ASSUME NEW pos \in 1 .. l + c PROVE f[pos][1] \in 1 .. n + 1
    OBVIOUS
  <2>1. CASE pos \in 1 .. l
    <3>1. f[pos][1] \in 1 .. n
      BY <1>2, <1>5, <2>1
    <3>. QED
      BY <1>1, <3>1
  <2>2. ASSUME NEW k \in 1 .. c, pos = l + k PROVE f[pos][1] \in 1 .. n + 1
    <3>1. f[pos][1] = n + 1
      BY <1>6, <2>2
    <3>. QED
      BY <1>1, <3>1
  <2>. QED
    BY <1>10, <2>1, <2>2
<1>12. ASSUME NEW i \in 1 .. n + 1, NEW pos \in 1 .. l + c
       PROVE  f[pos] = <<i, u[i]>> <=> pos = SumUpto(u, i)
  <2>1. i \in 1 .. n \/ i = n + 1
    BY <1>1
  <2>2. CASE pos \in 1 .. l /\ i \in 1 .. n
    <3>1. f[pos] = e[pos] /\ u[i] = t[i] /\ SumUpto(u, i) = SumUpto(t, i)
      BY <1>1, <1>5, <1>8, <2>2
    <3>2. e[pos] = <<i, t[i]>> <=> pos = SumUpto(t, i)
      BY <1>2, <2>2
    <3>. QED
      BY <3>1, <3>2
  <2>3. CASE pos \in 1 .. l /\ i = n + 1
    <3>1. f[pos][1] \in 1 .. n /\ n + 1 \notin 1 .. n
      <4>1. e[pos][1] \in 1 .. n /\ f[pos] = e[pos]
        BY <1>2, <1>5, <2>3
      <4>. QED
        BY <1>1, <4>1
    <3>2. <<i, u[i]>>[1] = n + 1
      BY <2>3
    <3>3. pos # l + c
      BY <1>1, <1>2, <2>3
    <3>. QED
      BY <1>9, <2>3, <3>1, <3>2, <3>3
  <2>4. ASSUME NEW k \in 1 .. c, pos = l + k PROVE f[pos] = <<i, u[i]>> <=> pos = SumUpto(u, i)
    <3>1. f[pos] = <<n + 1, k>>
      BY <1>6, <2>4
    <3>2. CASE i \in 1 .. n
      <4>1. i # n + 1
        BY <1>1, <3>2
      <4>2. SumUpto(u, i) <= l
        BY <1>8, <3>2
      <4>3. ~(pos <= l)
        <5>1. k \in Nat /\ k >= 1 /\ l \in Nat
          BY <1>1, <1>2
        <5>. QED
          BY <2>4, <5>1
      <4>. QED
        BY <3>1, <4>1, <4>2, <4>3
    <3>3. CASE i = n + 1
      <4>1. SumUpto(u, i) = l + c /\ u[i] = c
        BY <1>1, <1>9, <3>3
      <4>2. pos = l + c <=> k = c
        BY <1>1, <1>2, <2>4
      <4>. QED
        BY <3>1, <3>3, <4>1, <4>2
    <3>. QED
      BY <2>1, <3>2, <3>3
  <2>. QED
    BY <1>10, <2>1, <2>2, <2>3, <2>4
<1>13. Len(f) = Size(u)
  BY <1>5, <1>7 DEF Size
<1>. QED
  BY <1>1, <1>5, <1>11, <1>12, <1>13 DEF Encoded, f, u

\* It holds for every text, by its prefixes.
LEMMA EncodedAll ==
  ASSUME NEW t \in Seq(Positive)
  PROVE  Encoded(t)
<1>. DEFINE B == {n \in 0 .. Len(t) : ~Encoded(Upto(t, n))}
<1>1. B = {}
  <2>. SUFFICES ASSUME B # {} PROVE FALSE
    OBVIOUS
  <2>1. PICK n \in B : \A m \in B : n <= m
    <3>1. B \subseteq Nat
      OBVIOUS
    <3>. HIDE DEF B
    <3>. QED
      BY <3>1, LeastNumber
  <2>2. n \in 0 .. Len(t) /\ ~Encoded(Upto(t, n))
    OBVIOUS
  <2>3. CASE n = 0
    <3>1. Upto(t, 0) = <<>>
      BY DEF Upto
    <3>2. Encode(<<>>) = <<>>
      <4>1. [i \in DOMAIN <<>> |-> [k \in 1 .. <<>>[i] |-> <<i, k>>]] = <<>>
        OBVIOUS
      <4>. QED
        BY <4>1, FlattenNone DEF Encode
    <3>3. Encoded(<<>>)
      <4>1. <<>> \in Seq(Byte) /\ Len(<<>>) = 0 /\ 1 .. 0 = {}
        OBVIOUS
      <4>2. Size(<<>>) = 0
        BY EmptySum DEF Size
      <4>. QED
        BY <3>2, <4>1, <4>2, Zenon DEF Encoded
    <3>. QED
      BY <2>2, <2>3, <3>1, <3>3
  <2>4. CASE n # 0
    <3>1. n - 1 \in 0 .. Len(t) /\ ~(n <= n - 1) /\ n - 1 \in Nat /\ n - 1 < Len(t)
          /\ n - 1 + 1 = n /\ t[n] \in Positive
      BY <2>2, <2>4
    <3>2. n - 1 \notin B
      <4>. HIDE DEF B
      <4>. QED
        BY <2>1, <3>1
    <3>3. Encoded(Upto(t, n - 1)) /\ Upto(t, n - 1) \in Seq(Positive)
      BY <3>1, <3>2, UptoFacts
    <3>4. Upto(t, n) = Append(Upto(t, n - 1), t[n])
      BY <3>1, UptoNext
    <3>. QED
      BY <2>2, <3>1, <3>3, <3>4, EncodedNext
  <2>. QED
    BY <2>3, <2>4
<1>2. Len(t) \in 0 .. Len(t) /\ Len(t) \in Nat
  OBVIOUS
<1>3. Upto(t, Len(t)) = t
  BY <1>2, UptoFacts
<1>. QED
  BY <1>1, <1>2, <1>3

-----------------------------------------------------------------------------
(* What clipping returns.                                                  *)

LEMMA SumUptoPositive ==
  ASSUME NEW t \in Seq(Positive), NEW i \in 1 .. Len(t)
  PROVE  SumUpto(t, i) \in 1 .. Size(t)
<1>1. t \in Seq(Nat) /\ t[i] \in Nat /\ t[i] # 0
  BY DEF Positive
<1>2. i - 1 \in 0 .. Len(t) /\ i - 1 \in Nat /\ i - 1 < Len(t) /\ i - 1 + 1 = i
      /\ i \in Nat /\ i <= Len(t) /\ Len(t) \in Nat
  OBVIOUS
<1>3. SumUpto(t, i - 1) \in Nat /\ SumUpto(t, i) = SumUpto(t, i - 1) + t[i]
  BY <1>1, <1>2, SumUptoNat, SumUptoNext
<1>4. SumUpto(t, i) <= SumUpto(t, Len(t)) /\ SumUpto(t, Len(t)) = Size(t)
  BY <1>1, <1>2, SumUptoGrows, SumUptoAll DEF Size
<1>5. SumUpto(t, Len(t)) \in Nat
  BY <1>1, <1>2, SumUptoNat
<1>. QED
  BY <1>1, <1>3, <1>4, <1>5

\* A character survives when the bytes up to its end fit.
LEMMA Survives ==
  ASSUME NEW t \in Seq(Positive), NEW b \in Nat, NEW i \in 1 .. Len(t)
  PROVE  <<i, t[i]>> \in ToSet(Upto(Encode(t), b)) <=> SumUpto(t, i) <= b
<1>. DEFINE e == Encode(t)
            u == Upto(e, b)
<1>1. /\ e \in Seq(Byte) /\ Len(e) = Size(t)
      /\ \A pos \in 1 .. Len(e) : e[pos] = <<i, t[i]>> <=> pos = SumUpto(t, i)
  BY EncodedAll DEF Encoded
<1>2. SumUpto(t, i) \in 1 .. Len(e)
  BY <1>1, SumUptoPositive
<1>. HIDE DEF e
<1>3. /\ u \in Seq(Byte) /\ Len(u) = IF b < Len(e) THEN b ELSE Len(e)
      /\ \A pos \in 1 .. Len(u) : u[pos] = e[pos]
  BY <1>1, UptoFacts
<1>. HIDE DEF u
<1>4. Len(u) \in Nat /\ Len(e) \in Nat /\ Len(u) <= Len(e) /\ Len(u) <= b
      /\ DOMAIN u = 1 .. Len(u)
  BY <1>1, <1>3
<1>5. <<i, t[i]>> \in ToSet(u) <=> \E pos \in 1 .. Len(u) : u[pos] = <<i, t[i]>>
  BY <1>4 DEF ToSet
<1>6. \A pos \in 1 .. Len(u) : pos \in 1 .. Len(e) /\ pos <= b
  BY <1>4
<1>7. (\E pos \in 1 .. Len(u) : u[pos] = <<i, t[i]>>) <=> SumUpto(t, i) \in 1 .. Len(u)
  BY <1>1, <1>3, <1>6
<1>8. SumUpto(t, i) \in 1 .. Len(u) <=> SumUpto(t, i) <= b
  BY <1>2, <1>3, <1>4
<1>. QED
  BY <1>5, <1>7, <1>8 DEF u, e

LEMMA ClipFacts ==
  ASSUME NEW t \in Seq(Positive), NEW b \in Nat
  PROVE  \E m \in 0 .. Len(t) : /\ Clip(t, b) = Upto(t, m)
                                /\ SumUpto(t, m) <= b
                                /\ m < Len(t) => SumUpto(t, m + 1) > b
<1>. DEFINE n == Len(t)
            B == {k \in 1 .. n : SumUpto(t, k) > b}
<1>1. t \in Seq(Nat) /\ n \in Nat /\ DOMAIN t = 1 .. n
  BY DEF Positive
<1>2. \A k \in 0 .. n : SumUpto(t, k) \in Nat
  BY <1>1, SumUptoNat
<1>3. PICK m \in 0 .. n : /\ \A k \in 1 .. m : k \notin B
                          /\ m < n => m + 1 \in B
  <2>1. CASE B = {}
    <3>1. n \in 0 .. n /\ ~(n < n)
      BY <1>1
    <3>. HIDE DEF n, B
    <3>. QED
      BY <2>1, <3>1
  <2>2. CASE B # {}
    <3>1. PICK k \in B : \A j \in B : k <= j
      <4>1. B \subseteq Nat
        BY <1>1
      <4>. HIDE DEF B
      <4>. QED
        BY <2>2, <4>1, LeastNumber
    <3>2. k \in 1 .. n
      OBVIOUS
    <3>. HIDE DEF B
    <3>3. k - 1 \in 0 .. n /\ k - 1 + 1 = k /\ \A j \in 1 .. k - 1 : ~(k <= j)
      BY <1>1, <3>2
    <3>4. \A j \in 1 .. k - 1 : j \notin B
      BY <3>1, <3>3
    <3>. QED
      BY <3>1, <3>3, <3>4
  <2>. QED
    BY <2>1, <2>2
<1>4. m \in Nat /\ m <= n /\ 0 \in 0 .. n
  BY <1>1
<1>5. \A k \in 1 .. m : SumUpto(t, k) <= b
  <2>. SUFFICES ASSUME NEW k \in 1 .. m PROVE SumUpto(t, k) <= b
    OBVIOUS
  <2>1. k \in 1 .. n /\ k \in 0 .. n
    BY <1>1, <1>4
  <2>2. ~(SumUpto(t, k) > b)
    BY <1>3, <2>1
  <2>. QED
    BY <1>2, <2>1, <2>2
<1>6. SumUpto(t, m) <= b
  <2>1. CASE m = 0
    <3>1. SumUpto(t, 0) = 0
      BY SumUptoNone
    <3>. QED
      BY <2>1, <3>1
  <2>2. CASE m # 0
    BY <1>4, <1>5, <2>2
  <2>. QED
    BY <2>1, <2>2
<1>7. m < n => SumUpto(t, m + 1) > b
  BY <1>3
<1>8. ASSUME NEW i \in 1 .. n PROVE SumUpto(t, i) <= b <=> i \in 1 .. m
  <2>1. CASE i \in 1 .. m
    BY <1>5, <2>1
  <2>2. CASE i \notin 1 .. m
    <3>1. m < n /\ m + 1 <= i /\ m + 1 \in Nat /\ i \in Nat /\ i <= Len(t)
          /\ i \in 0 .. n /\ m + 1 \in 0 .. n
      BY <1>1, <1>4, <2>2
    <3>2. SumUpto(t, m + 1) > b
      BY <1>7, <3>1
    <3>3. SumUpto(t, m + 1) <= SumUpto(t, i)
      BY <1>1, <3>1, SumUptoGrows
    <3>4. SumUpto(t, m + 1) \in Nat /\ SumUpto(t, i) \in Nat
      BY <1>2, <3>1
    <3>. QED
      BY <2>2, <3>2, <3>3, <3>4
  <2>. QED
    BY <2>1, <2>2
<1>9. {i \in DOMAIN t : <<i, t[i]>> \in ToSet(Upto(Encode(t), b))} = 1 .. m
  <2>1. \A i \in 1 .. n : <<i, t[i]>> \in ToSet(Upto(Encode(t), b)) <=> i \in 1 .. m
    <3>1. \A i \in 1 .. n : <<i, t[i]>> \in ToSet(Upto(Encode(t), b)) <=> SumUpto(t, i) <= b
      BY Survives
    <3>. HIDE DEF n
    <3>. QED
      BY <1>8, <3>1
  <2>2. 1 .. m \subseteq 1 .. n
    BY <1>1, <1>4
  <2>. HIDE DEF n
  <2>. QED
    BY <1>1, <2>1, <2>2
<1>10. Cardinality(1 .. m) = m
  BY <1>4, FS_Interval
<1>11. Clip(t, b) = Upto(t, m)
  BY <1>9, <1>10 DEF Clip, Decode
<1>. QED
  BY <1>6, <1>7, <1>11

\* What _truncate() returns: a part that fits, tight, and whether it is all.
Truncated(cut, t, b) ==
  /\ cut[1] \in Seq(Positive) /\ Len(cut[1]) <= Len(t) /\ IsPrefix(cut[1], t)
  /\ Size(cut[1]) \in Nat /\ Size(cut[1]) <= b
  /\ cut[2] \in BOOLEAN /\ (cut[2] <=> cut[1] = t)
  /\ Tight(cut[1], t, b)

LEMMA SizeUpto ==
  ASSUME NEW t \in Seq(Positive), NEW m \in 0 .. Len(t)
  PROVE  Size(Upto(t, m)) = SumUpto(t, m) /\ SumUpto(t, m) \in Nat
<1>. DEFINE u == Upto(t, m)
<1>0. \A x : x \in Seq(Positive) => x \in Seq(Nat)
  BY DEF Positive
<1>1. t \in Seq(Nat) /\ m \in Nat
  BY <1>0
<1>2. /\ u \in Seq(Positive) /\ Len(u) = m
      /\ \A i \in 1 .. m : u[i] = t[i]
  BY <1>1, UptoFacts
<1>. HIDE DEF u
<1>3. Size(u) = SumUpto(u, m)
  BY <1>0, <1>2, SumUptoAll DEF Size
<1>4. SumUpto(u, m) = SumUpto(t, m)
  BY <1>1, <1>2, SumUptoPrefix
<1>. QED
  BY <1>1, <1>3, <1>4, SumUptoNat DEF u

LEMMA TruncateFacts ==
  ASSUME NEW t \in Seq(Positive), NEW b \in Nat
  PROVE  Truncated(Truncate(t, b), t, b)
<1>. DEFINE n == Len(t)
            l == Len(Encode(t))
<1>1. l = Size(t) /\ n \in Nat
  BY EncodedAll DEF Encoded
<1>2. Upto(t, n) = t /\ Size(t) = SumUpto(t, n) /\ Size(t) \in Nat
  <2>1. n \in 0 .. Len(t) /\ n \in Nat
    BY <1>1
  <2>2. Upto(t, n) = t
    BY <2>1, UptoFacts
  <2>. QED
    BY <2>1, <2>2, SizeUpto
<1>3. ASSUME NEW m \in 0 .. n, SumUpto(t, m) <= b, m < n => SumUpto(t, m + 1) > b,
             NEW w \in BOOLEAN, w <=> Upto(t, m) = t
      PROVE  Truncated(<<Upto(t, m), w>>, t, b)
  <2>1. m \in Nat /\ m <= n
    BY <1>1
  <2>2. Upto(t, m) \in Seq(Positive) /\ Len(Upto(t, m)) = m /\ IsPrefix(Upto(t, m), t)
    BY <1>1, <2>1, UptoFacts
  <2>3. Size(Upto(t, m)) = SumUpto(t, m) /\ SumUpto(t, m) \in Nat
    BY SizeUpto
  <2>4. m < n => Size(Upto(t, m + 1)) > b
    <3>. SUFFICES ASSUME m < n PROVE Size(Upto(t, m + 1)) > b
      OBVIOUS
    <3>1. m + 1 \in 0 .. n
      BY <1>1, <2>1
    <3>2. Size(Upto(t, m + 1)) = SumUpto(t, m + 1)
      BY <3>1, SizeUpto
    <3>. QED
      BY <1>3, <3>2
  <2>5. Upto(t, m) # t => m < n
    BY <1>1, <1>2, <2>1
  <2>6. Tight(Upto(t, m), t, b)
    BY <2>2, <2>4, <2>5 DEF Tight
  <2>. HIDE DEF n
  <2>. QED
    BY <1>3, <2>1, <2>2, <2>3, <2>6 DEF Truncated, n
<1>4. CASE l <= b
  <2>1. n \in 0 .. n /\ ~(n < n) /\ SumUpto(t, n) <= b
    BY <1>1, <1>2, <1>4
  <2>2. Truncate(t, b) = <<Upto(t, n), TRUE>>
    <3>1. Truncate(t, b) = <<t, TRUE>>
      <4>1. l <= b /\ ~(l > b)
        BY <1>1, <1>2, <1>4
      <4>. QED
        BY <4>1 DEF Truncate
    <3>. HIDE DEF n
    <3>. QED
      BY <1>2, <3>1
  <2>. HIDE DEF n
  <2>. QED
    BY <1>2, <1>3, <2>1, <2>2
<1>5. CASE l > b /\ b <= 0
  <2>1. b = 0 /\ n # 0
    <3>1. SumUpto(t, 0) = 0
      BY SumUptoNone
    <3>. HIDE DEF n, l
    <3>. QED
      BY <1>1, <1>2, <1>5, <3>1
  <2>2. SumUpto(t, 0) = 0 /\ SumUpto(t, 0 + 1) > b
    <3>1. 0 + 1 \in 1 .. Len(t)
      BY <1>1, <2>1
    <3>2. SumUpto(t, 0 + 1) \in 1 .. Size(t)
      BY <3>1, SumUptoPositive
    <3>. QED
      BY <1>2, <2>1, <3>2, SumUptoNone
  <2>3. Upto(t, 0) = <<>> /\ t # <<>> /\ 0 \in 0 .. n
    BY <1>1, <2>1 DEF Upto
  <2>4. ~(l <= b)
    BY <1>1, <1>2, <1>5
  <2>5. Truncate(t, b) = <<Upto(t, 0), FALSE>>
    BY <1>5, <2>3, <2>4 DEF Truncate
  <2>. HIDE DEF n, l
  <2>6. SumUpto(t, 0) <= b /\ (0 < n => SumUpto(t, 0 + 1) > b) /\ (FALSE <=> Upto(t, 0) = t)
    BY <2>1, <2>2, <2>3
  <2>. QED
    BY <1>3, <2>3, <2>5, <2>6
<1>6. CASE l > b /\ ~(b <= 0)
  <2>1. PICK m \in 0 .. n : /\ Clip(t, b) = Upto(t, m)
                            /\ SumUpto(t, m) <= b
                            /\ m < n => SumUpto(t, m + 1) > b
    BY ClipFacts
  <2>2. Upto(t, m) # t
    <3>1. Size(Upto(t, m)) = SumUpto(t, m) /\ SumUpto(t, m) \in Nat
      BY SizeUpto
    <3>. HIDE DEF n, l
    <3>. QED
      BY <1>1, <1>2, <1>6, <2>1, <3>1
  <2>3. ~(l <= b)
    BY <1>1, <1>2, <1>6
  <2>4. Truncate(t, b) = <<Upto(t, m), FALSE>>
    BY <1>6, <2>1, <2>3 DEF Truncate
  <2>. HIDE DEF n, l
  <2>. QED
    BY <1>3, <2>1, <2>2, <2>4
<1>7. l <= b \/ l > b
  BY <1>1, <1>2
<1>. QED
  BY <1>4, <1>5, <1>6, <1>7

-----------------------------------------------------------------------------
(* The steps of parse_file().                                              *)

\* left is what the counted bytes leave of the budget.
Spent == left = MAX_OUTPUT_BYTES - Counted

\* What is settled at each stage: a field is empty until its stage, and from then
\* on clipped as tightly as at the end; whole speaks of the stages behind.
Stages ==
  /\ pc \in {"gather", "markdown"} => out.markdown = <<>> /\ whole
  /\ pc \in {"gather", "markdown", "text"} => out.text = <<>> /\ out.elements = <<>>
  /\ pc = "text" => (whole <=> out.markdown = doc.markdown)
  /\ pc = "elements" => (whole <=> out.markdown = doc.markdown /\ out.text = doc.text)
  /\ pc \in {"text", "elements", "done"} => Tight(out.markdown, doc.markdown, MAX_OUTPUT_BYTES)
  /\ pc \in {"elements", "done"} =>
       Tight(out.text, doc.text, MAX_OUTPUT_BYTES - Size(out.markdown))
  /\ IsPrefix(out.elements, elements)
  /\ pc = "done" => ~Fits

\* The flag, in terms of the elements at hand.
WholeExactly ==
  pc = "done" =>
    (whole <=> out = [markdown |-> doc.markdown, text |-> doc.text, elements |-> elements])

Inv == TypeOK /\ Spent /\ Stages /\ WholeExactly /\ GlobalElementCap /\ DetailLast

LEMMA Numbers ==
  /\ MAX_OUTPUT_BYTES \in Nat /\ MAX_ELEMENTS \in Nat /\ MAX_ELEMENTS # 0
  /\ MaxChars \in Nat /\ MaxRecords \in Nat /\ MaxFiles \in Nat
  /\ \A c \in Chars : c \in Positive /\ c <= 4
  /\ \A n \in RecordSizes : n \in Nat /\ n >= 4
<1>1. \A c \in 1 .. 4 : c \in Positive /\ c <= 4
  BY DEF Positive
<1>. QED
  BY <1>1, OutputBudgetAssumption

LEMMA TextFacts ==
  ASSUME NEW t
  PROVE  /\ t \in Texts <=> t \in Seq(Chars) /\ Len(t) <= MaxChars
         /\ t \in Seq(Chars) => t \in Seq(Positive)
<1>1. t \in Texts <=> t \in Seq(Chars) /\ Len(t) <= MaxChars
  BY Numbers, SeqOfMember DEF Texts
<1>2. Chars \subseteq Positive
  BY Numbers
<1>. QED
  BY <1>1, <1>2

LEMMA RecordsFacts ==
  ASSUME NEW t
  PROVE  /\ t \in Items <=> t \in Seq(RecordSizes) /\ Len(t) <= MaxRecords
         /\ t \in SeqOf(RecordSizes, MAX_ELEMENTS) <=>
              t \in Seq(RecordSizes) /\ Len(t) <= MAX_ELEMENTS
         /\ t \in SeqOf(Items, MaxFiles) <=> t \in Seq(Items) /\ Len(t) <= MaxFiles
         /\ t \in Seq(Items) => t \in Seq(Seq(RecordSizes))
         /\ t \in Seq(RecordSizes) => t \in Seq(Nat)
<1>1. /\ t \in Items <=> t \in Seq(RecordSizes) /\ Len(t) <= MaxRecords
      /\ t \in SeqOf(RecordSizes, MAX_ELEMENTS) <=>
           t \in Seq(RecordSizes) /\ Len(t) <= MAX_ELEMENTS
      /\ t \in SeqOf(Items, MaxFiles) <=> t \in Seq(Items) /\ Len(t) <= MaxFiles
  BY Numbers, SeqOfMember DEF Items
<1>2. RecordSizes \subseteq Nat
  BY Numbers
<1>3. Items \subseteq Seq(RecordSizes)
  BY Numbers, SeqOfMember DEF Items
<1>4. t \in Seq(Items) => t \in Seq(Seq(RecordSizes))
  BY <1>3
<1>5. t \in Seq(RecordSizes) => t \in Seq(Nat)
  BY <1>2, SeqSubset
<1>. QED
  BY <1>1, <1>4, <1>5

LEMMA SumNatural == ASSUME NEW s \in Seq(Nat) PROVE SumFunction(s) \in Nat
<1>1. Len(s) \in 0 .. Len(s)
  OBVIOUS
<1>2. SumUpto(s, Len(s)) \in Nat
  BY <1>1, SumUptoNat
<1>. QED
  BY <1>2, SumUptoAll

LEMMA PrefixType ==
  ASSUME NEW A, NEW B, A \subseteq B, NEW t \in Seq(A), NEW s \in Seq(B), IsPrefix(s, t)
  PROVE  s \in Seq(A)
<1>1. t \in Seq(B)
  OBVIOUS
<1>2. Len(s) \in Nat /\ s = Upto(t, Len(s))
  BY <1>1, PrefixIsUpto
<1>. QED
  BY <1>2, UptoFacts

LEMMA TypeFacts ==
  ASSUME TypeOK
  PROVE  /\ pc \in {"gather", "markdown", "text", "elements", "done"} /\ whole \in BOOLEAN
         /\ found \in Seq(Items) /\ Len(found) <= MaxFiles
         /\ elements \in Seq(RecordSizes) /\ Len(elements) <= MAX_ELEMENTS
         /\ doc.markdown \in Texts /\ doc.text \in Texts
         /\ out.markdown \in Texts /\ out.text \in Texts
         /\ out = [markdown |-> out.markdown, text |-> out.text, elements |-> out.elements]
         /\ out.elements \in Seq(RecordSizes) /\ Len(out.elements) <= MAX_ELEMENTS
         /\ left \in Nat /\ left <= MAX_OUTPUT_BYTES
         /\ Size(out.markdown) \in Nat /\ Size(out.text) \in Nat
         /\ SumFunction(out.elements) \in Nat /\ Len(out.elements) \in Nat
<1>1. /\ pc \in {"gather", "markdown", "text", "elements", "done"} /\ whole \in BOOLEAN
      /\ found \in SeqOf(Items, MaxFiles)
      /\ elements \in SeqOf(RecordSizes, MAX_ELEMENTS)
      /\ doc \in [markdown : Texts, text : Texts]
      /\ out \in [markdown : Texts, text : Texts, elements : SeqOf(RecordSizes, MAX_ELEMENTS)]
      /\ left \in 0 .. MAX_OUTPUT_BYTES
  BY Zenon DEF TypeOK
<1>2. /\ doc.markdown \in Texts /\ doc.text \in Texts
      /\ out.markdown \in Texts /\ out.text \in Texts
      /\ out.elements \in SeqOf(RecordSizes, MAX_ELEMENTS)
      /\ out = [markdown |-> out.markdown, text |-> out.text, elements |-> out.elements]
  BY <1>1
<1>3. left \in Nat /\ left <= MAX_OUTPUT_BYTES
  BY <1>1, Numbers
<1>4. /\ found \in Seq(Items) /\ Len(found) <= MaxFiles
      /\ elements \in Seq(RecordSizes) /\ Len(elements) <= MAX_ELEMENTS
      /\ out.elements \in Seq(RecordSizes) /\ Len(out.elements) <= MAX_ELEMENTS
      /\ out.elements \in Seq(Nat)
  BY <1>1, <1>2, RecordsFacts
<1>5. out.markdown \in Seq(Nat) /\ out.text \in Seq(Nat)
  <2>1. out.markdown \in Seq(Positive) /\ out.text \in Seq(Positive)
    BY <1>2, TextFacts
  <2>. QED
    BY <2>1 DEF Positive
<1>6. /\ Size(out.markdown) \in Nat /\ Size(out.text) \in Nat
      /\ SumFunction(out.elements) \in Nat /\ Len(out.elements) \in Nat
  BY <1>4, <1>5, SumNatural DEF Size
<1>. QED
  BY <1>1, <1>2, <1>3, <1>4, <1>6

LEMMA CapArithmetic ==
  ASSUME NEW M \in Nat, NEW p \in Nat, NEW q \in Nat
  PROVE  \A x, y, k : /\ x = IF M < p THEN M ELSE p
                      /\ y = IF M < q THEN M ELSE q
                      /\ k = M - x
                      => x + (IF k < y THEN k ELSE y) = IF M < p + q THEN M ELSE p + q
OBVIOUS

\* The two caps, one after the other, keep what one cap on all items would.
LEMMA TwoCaps ==
  ASSUME NEW A, NEW s \in Seq(A), NEW t \in Seq(A), NEW M \in Nat
  PROVE  /\ Upto(s, M) \o Upto(Upto(t, M), M - Len(Upto(s, M))) = Upto(s \o t, M)
         /\ Upto(s \o t, M) \in Seq(A) /\ Len(Upto(s \o t, M)) <= M
<1>. DEFINE a == Upto(s, M)
            k == M - Len(a)
            b == Upto(t, M)
            c == Upto(b, k)
            u == s \o t
            d == Upto(u, M)
<1>1. /\ a \in Seq(A) /\ Len(a) = IF M < Len(s) THEN M ELSE Len(s)
      /\ \A i \in 1 .. Len(a) : a[i] = s[i]
  BY UptoFacts
<1>2. /\ b \in Seq(A) /\ Len(b) = IF M < Len(t) THEN M ELSE Len(t)
      /\ \A i \in 1 .. Len(b) : b[i] = t[i]
  BY UptoFacts
<1>. HIDE DEF a, b
<1>3. k \in Nat
  BY <1>1
<1>. HIDE DEF k
<1>4. /\ c \in Seq(A) /\ Len(c) = IF k < Len(b) THEN k ELSE Len(b)
      /\ \A i \in 1 .. Len(c) : c[i] = b[i]
  BY <1>2, <1>3, UptoFacts
<1>5. /\ u \in Seq(A) /\ Len(u) = Len(s) + Len(t)
      /\ \A i \in 1 .. Len(s) : u[i] = s[i]
      /\ \A i \in 1 .. Len(t) : u[Len(s) + i] = t[i]
  OBVIOUS
<1>. HIDE DEF c, u
<1>6. /\ d \in Seq(A) /\ Len(d) = IF M < Len(u) THEN M ELSE Len(u)
      /\ \A i \in 1 .. Len(d) : d[i] = u[i]
  BY <1>5, UptoFacts
<1>. HIDE DEF d
<1>7. /\ a \o c \in Seq(A) /\ Len(a \o c) = Len(a) + Len(c)
      /\ \A i \in 1 .. Len(a) : (a \o c)[i] = a[i]
      /\ \A i \in 1 .. Len(c) : (a \o c)[Len(a) + i] = c[i]
  <2>1. a \in Seq(A) /\ c \in Seq(A)
    BY <1>1, <1>4
  <2>. QED
    BY <2>1, ConcatFacts
<1>8. /\ Len(a) \in Nat /\ Len(b) \in Nat /\ Len(c) \in Nat /\ Len(d) \in Nat
      /\ Len(s) \in Nat /\ Len(t) \in Nat /\ Len(u) \in Nat
  BY <1>1, <1>2, <1>4, <1>5, <1>6
<1>9. Len(a \o c) = Len(d)
  <2>1. k = M - Len(a)
    BY DEF k
  <2>2. Len(a) = IF M < Len(s) THEN M ELSE Len(s)
    BY <1>1
  <2>3. Len(c) = IF k < Len(b) THEN k ELSE Len(b)
    BY <1>4
  <2>4. Len(b) = IF M < Len(t) THEN M ELSE Len(t)
    BY <1>2
  <2>5. Len(d) = IF M < Len(s) + Len(t) THEN M ELSE Len(s) + Len(t)
    BY <1>5, <1>6
  <2>6. Len(a \o c) = Len(a) + Len(c)
    BY <1>7
  <2>. QED
    <3>1. Len(a) + (IF k < Len(b) THEN k ELSE Len(b))
            = IF M < Len(s) + Len(t) THEN M ELSE Len(s) + Len(t)
      <4>1. \A x, y, z : /\ x = IF M < Len(s) THEN M ELSE Len(s)
                         /\ y = IF M < Len(t) THEN M ELSE Len(t)
                         /\ z = M - x
                         => x + (IF z < y THEN z ELSE y)
                              = IF M < Len(s) + Len(t) THEN M ELSE Len(s) + Len(t)
        <5>1. Len(s) \in Nat /\ Len(t) \in Nat
          OBVIOUS
        <5>. QED
          BY <5>1, CapArithmetic, Zenon
      <4>. QED
        BY <2>1, <2>2, <2>4, <4>1, Zenon
    <3>. QED
      BY <2>3, <2>5, <2>6, <3>1, Zenon
<1>10. ASSUME NEW i \in 1 .. Len(d) PROVE (a \o c)[i] = d[i]
  <2>1. CASE i \in 1 .. Len(a)
    <3>1. i \in 1 .. Len(s)
      BY <1>1, <1>8, <2>1
    <3>. QED
      BY <1>1, <1>5, <1>6, <1>7, <2>1, <3>1
  <2>2. CASE i \notin 1 .. Len(a)
    <3>1. Len(a) = Len(s)
      BY <1>1, <1>6, <1>8, <2>2
    <3>2. PICK j \in 1 .. Len(c) : i = Len(a) + j
      <4>1. i - Len(a) \in 1 .. Len(c) /\ i = Len(a) + (i - Len(a))
        BY <1>7, <1>8, <1>9, <2>2
      <4>. QED
        BY <4>1
    <3>3. j \in 1 .. Len(b) /\ j \in 1 .. Len(t)
      BY <1>2, <1>3, <1>4, <1>8
    <3>4. (a \o c)[i] = t[j]
      BY <1>2, <1>4, <1>7, <3>2, <3>3
    <3>5. d[i] = t[j]
      BY <1>5, <1>6, <3>1, <3>2, <3>3
    <3>. QED
      BY <3>4, <3>5
  <2>. QED
    BY <2>1, <2>2
<1>11. a \o c = d
  BY <1>6, <1>7, <1>9, <1>10, SeqEqual
<1>12. Len(d) <= M
  BY <1>6, <1>8
<1>. QED
  BY <1>6, <1>11, <1>12 DEF a, b, c, d, k, u

LEMMA EmptyPrefix == ASSUME NEW A, NEW s \in Seq(A) PROVE IsPrefix(<<>>, s)
<1>1. /\ Len(<<>>) = 0 /\ Len(s) \in Nat
      /\ SubSeq(<<>>, 1, 0) = <<>> /\ SubSeq(s, 1, 0) = <<>>
  OBVIOUS
<1>. QED
  BY <1>1 DEF IsPrefix

LEMMA EmptyField ==
  /\ <<>> \in Texts /\ Size(<<>>) = 0 /\ SumFunction(<<>>) = 0 /\ Len(<<>>) = 0
  /\ <<>> \in SeqOf(RecordSizes, MAX_ELEMENTS)
<1>1. /\ <<>> \in Seq(Chars) /\ <<>> \in Seq(RecordSizes) /\ Len(<<>>) = 0
      /\ 0 <= MaxChars /\ 0 <= MAX_ELEMENTS
  BY Numbers
<1>2. <<>> \in Texts
  BY <1>1, TextFacts
<1>3. <<>> \in SeqOf(RecordSizes, MAX_ELEMENTS)
  BY <1>1, RecordsFacts
<1>. QED
  BY <1>1, <1>2, <1>3, EmptySum DEF Size

\* After a clip that cost something, less is left than a character may take.
LEMMA TightLeaves ==
  ASSUME NEW t \in Seq(Chars), NEW kept \in Seq(Chars), NEW b \in Nat,
         Tight(kept, t, b), kept # t
  PROVE  b < Size(kept) + 4
<1>1. t \in Seq(Positive) /\ kept \in Seq(Positive) /\ t \in Seq(Nat)
  <2>1. \A x : x \in Seq(Positive) => x \in Seq(Nat)
    BY DEF Positive
  <2>. QED
    BY <2>1, TextFacts
<1>. DEFINE n == Len(kept)
<1>2. IsPrefix(kept, t) /\ Size(Upto(t, n + 1)) > b
  BY DEF Tight
<1>3. n \in 0 .. Len(t) /\ kept = Upto(t, n) /\ Len(t) \in Nat
  BY <1>2, PrefixIsUpto
<1>4. n \in Nat /\ n < Len(t)
  <2>1. n = Len(t) => Upto(t, n) = t
    BY <1>1, <1>3, UptoFacts
  <2>. HIDE DEF n
  <2>. QED
    BY <1>3, <2>1
<1>. HIDE DEF n
<1>5. n + 1 \in 0 .. Len(t) /\ t[n + 1] \in Chars
  BY <1>3, <1>4
<1>6. Size(kept) = SumUpto(t, n) /\ SumUpto(t, n) \in Nat
  BY <1>1, <1>3, SizeUpto
<1>7. Size(Upto(t, n + 1)) = SumUpto(t, n + 1)
  BY <1>1, <1>5, SizeUpto
<1>8. SumUpto(t, n + 1) = SumUpto(t, n) + t[n + 1]
  BY <1>1, <1>4, SumUptoNext
<1>9. t[n + 1] \in Nat /\ t[n + 1] <= 4
  BY <1>5, Numbers DEF Positive
<1>. QED
  BY <1>2, <1>6, <1>7, <1>8, <1>9

-----------------------------------------------------------------------------
LEMMA InitInv == Init => Inv
<1>. SUFFICES ASSUME Init PROVE Inv
  OBVIOUS
<1>1. /\ pc = "gather" /\ found = <<>> /\ elements = <<>> /\ left = MAX_OUTPUT_BYTES /\ whole
      /\ whole \in BOOLEAN /\ doc = [markdown |-> <<>>, text |-> <<>>]
      /\ out = [markdown |-> <<>>, text |-> <<>>, elements |-> <<>>]
  BY DEF Init
<1>2. TypeOK
  <2>1. found \in SeqOf(Items, MaxFiles)
    <3>1. <<>> \in Seq(Items) /\ Len(<<>>) <= MaxFiles
      BY Numbers
    <3>. QED
      BY <1>1, <3>1, RecordsFacts
  <2>2. left \in 0 .. MAX_OUTPUT_BYTES
    BY <1>1, Numbers
  <2>3. /\ doc \in [markdown : Texts, text : Texts]
        /\ out \in [markdown : Texts, text : Texts, elements : SeqOf(RecordSizes, MAX_ELEMENTS)]
        /\ elements \in SeqOf(RecordSizes, MAX_ELEMENTS)
    BY <1>1, EmptyField
  <2>. QED
    BY <1>1, <2>1, <2>2, <2>3 DEF TypeOK
<1>3. out.markdown = <<>> /\ out.text = <<>> /\ out.elements = <<>>
  BY <1>1
<1>4. Spent
  BY <1>1, <1>3, EmptyField, Numbers DEF Spent, Counted
<1>5. IsPrefix(out.elements, elements)
  <2>1. <<>> \in Seq(RecordSizes)
    OBVIOUS
  <2>. QED
    BY <1>1, <1>3, <2>1, EmptyPrefix
<1>6. Stages
  BY <1>1, <1>3, <1>5 DEF Stages
<1>7. GlobalElementCap
  <2>1. Upto(<<>>, MAX_ELEMENTS) = <<>>
    <3>1. <<>> \in Seq(RecordSizes) /\ MAX_ELEMENTS >= Len(<<>>)
      BY Numbers
    <3>. QED
      BY <3>1, Numbers, UptoFacts
  <2>. QED
    BY <1>1, <2>1, FlattenNone DEF GlobalElementCap
<1>. QED
  BY <1>1, <1>2, <1>3, <1>4, <1>6, <1>7 DEF Inv, WholeExactly, DetailLast

LEMMA GatherInv == ASSUME Inv, Gather PROVE Inv'
<1>1. PICK items \in Items :
        /\ found' = Append(found, items)
        /\ elements' = elements \o Upto(Upto(items, MAX_ELEMENTS), MAX_ELEMENTS - Len(elements))
  BY DEF Gather
<1>2. pc = "gather" /\ Len(found) < MaxFiles /\ UNCHANGED <<pc, doc, out, left, whole>>
  BY DEF Gather
<1>3. TypeOK /\ Spent /\ Stages /\ elements = Upto(FlattenSeq(found), MAX_ELEMENTS)
  BY DEF Inv, GlobalElementCap
<1>4. found \in Seq(Items)
  BY <1>3, TypeFacts
<1>5. found \in Seq(Seq(RecordSizes)) /\ items \in Seq(RecordSizes)
  BY <1>4, RecordsFacts
<1>. DEFINE all == FlattenSeq(found)
<1>6. all \in Seq(RecordSizes) /\ FlattenSeq(found') = all \o items
  BY <1>1, <1>5, FlattenType, FlattenAppend
<1>. HIDE DEF all
<1>7. elements' = Upto(all \o items, MAX_ELEMENTS)
      /\ elements' \in Seq(RecordSizes) /\ Len(elements') <= MAX_ELEMENTS
  <2>1. elements = Upto(all, MAX_ELEMENTS)
    BY <1>3 DEF all
  <2>2. /\ Upto(all, MAX_ELEMENTS)
             \o Upto(Upto(items, MAX_ELEMENTS), MAX_ELEMENTS - Len(Upto(all, MAX_ELEMENTS)))
           = Upto(all \o items, MAX_ELEMENTS)
        /\ Upto(all \o items, MAX_ELEMENTS) \in Seq(RecordSizes)
        /\ Len(Upto(all \o items, MAX_ELEMENTS)) <= MAX_ELEMENTS
    BY <1>5, <1>6, TwoCaps, Numbers
  <2>. QED
    BY <1>1, <2>1, <2>2, Zenon
<1>8. GlobalElementCap'
  BY <1>6, <1>7 DEF GlobalElementCap
<1>9. TypeOK'
  <2>1. found' \in SeqOf(Items, MaxFiles)
    <3>1. found' \in Seq(Items) /\ Len(found') <= MaxFiles
      BY <1>1, <1>2, <1>4, Numbers
    <3>. QED
      BY <3>1, RecordsFacts
  <2>2. elements' \in SeqOf(RecordSizes, MAX_ELEMENTS)
    BY <1>7, RecordsFacts
  <2>. QED
    BY <1>2, <1>3, <2>1, <2>2 DEF TypeOK
<1>10. Stages'
  <2>1. out.elements = <<>>
    BY <1>2, <1>3 DEF Stages
  <2>2. IsPrefix(<<>>, elements')
    BY <1>7, EmptyPrefix
  <2>. QED
    BY <1>2, <1>3, <2>1, <2>2 DEF Stages
<1>. QED
  BY <1>2, <1>3, <1>8, <1>9, <1>10 DEF Inv, Spent, Counted, WholeExactly, DetailLast

LEMMA JoinedInv == ASSUME Inv, Joined PROVE Inv'
<1>1. /\ pc = "gather" /\ pc' = "markdown" /\ doc' \in [markdown : Texts, text : Texts]
      /\ UNCHANGED <<found, elements, out, left, whole>>
  BY DEF Joined
<1>2. TypeOK'
  BY <1>1 DEF Inv, TypeOK
<1>3. Stages' /\ DetailLast'
  BY <1>1 DEF Inv, Stages, DetailLast
<1>. QED
  BY <1>1, <1>2, <1>3 DEF Inv, Spent, Counted, WholeExactly, GlobalElementCap

LEMMA ClippedField ==
  ASSUME NEW t \in Texts, NEW b \in Nat
  PROVE  LET cut == Truncate(t, b) IN
         /\ cut[1] \in Texts /\ Size(cut[1]) \in Nat /\ Size(cut[1]) <= b
         /\ cut[2] \in BOOLEAN /\ (cut[2] <=> cut[1] = t) /\ Tight(cut[1], t, b)
<1>. DEFINE cut == Truncate(t, b)
<1>1. t \in Seq(Chars) /\ t \in Seq(Positive) /\ Len(t) <= MaxChars /\ Len(t) \in Nat
  BY TextFacts
<1>2. Truncated(cut, t, b)
  BY <1>1, TruncateFacts
<1>. HIDE DEF cut
<1>3. cut[1] \in Seq(Positive) /\ IsPrefix(cut[1], t) /\ Len(cut[1]) <= Len(t)
  BY <1>2 DEF Truncated
<1>4. cut[1] \in Seq(Chars)
  <2>1. Chars \subseteq Positive
    BY Numbers
  <2>. QED
    BY <1>1, <1>3, <2>1, PrefixType
<1>5. cut[1] \in Texts
  <2>1. Len(cut[1]) \in Nat /\ Len(cut[1]) <= MaxChars
    BY <1>1, <1>3, Numbers
  <2>. QED
    BY <1>4, <2>1, TextFacts
<1>6. /\ Size(cut[1]) \in Nat /\ Size(cut[1]) <= b
      /\ cut[2] \in BOOLEAN /\ (cut[2] <=> cut[1] = t) /\ Tight(cut[1], t, b)
  BY <1>2 DEF Truncated
<1>. QED
  BY <1>5, <1>6 DEF cut

LEMMA ClipMarkdownInv == ASSUME Inv, ClipMarkdown PROVE Inv'
<1>1. PICK kept, all : /\ Truncate(doc.markdown, MAX_OUTPUT_BYTES)[1] = kept
                       /\ Truncate(doc.markdown, MAX_OUTPUT_BYTES)[2] = all
  OBVIOUS
<1>2. /\ pc = "markdown" /\ pc' = "text" /\ out' = [out EXCEPT !.markdown = kept]
      /\ left' = MAX_OUTPUT_BYTES - Size(kept)
      /\ whole' = (whole /\ all)
      /\ UNCHANGED <<found, elements, doc>>
  BY <1>1 DEF ClipMarkdown
<1>3. TypeOK /\ Stages /\ doc.markdown \in Texts /\ MAX_OUTPUT_BYTES \in Nat
  BY TypeFacts, Numbers DEF Inv
<1>4. /\ kept \in Texts /\ Size(kept) \in Nat /\ Size(kept) <= MAX_OUTPUT_BYTES
      /\ all \in BOOLEAN /\ (all <=> kept = doc.markdown)
      /\ Tight(kept, doc.markdown, MAX_OUTPUT_BYTES)
  BY <1>1, <1>3, ClippedField
<1>5. /\ out \in [markdown : Texts, text : Texts, elements : SeqOf(RecordSizes, MAX_ELEMENTS)]
      /\ out.text = <<>> /\ out.elements = <<>> /\ whole /\ whole \in BOOLEAN
  BY <1>2, <1>3, TypeFacts DEF TypeOK, Stages
<1>6. /\ out' \in [markdown : Texts, text : Texts, elements : SeqOf(RecordSizes, MAX_ELEMENTS)]
      /\ out'.markdown = kept /\ out'.text = <<>> /\ out'.elements = <<>>
  BY <1>2, <1>4, <1>5
<1>7. left' \in 0 .. MAX_OUTPUT_BYTES
  BY <1>2, <1>3, <1>4
<1>8. whole' \in BOOLEAN /\ (whole' <=> kept = doc.markdown)
  BY <1>2, <1>4, <1>5
<1>9. TypeOK'
  BY <1>2, <1>3, <1>6, <1>7, <1>8 DEF TypeOK
<1>10. Spent'
  BY <1>2, <1>3, <1>4, <1>6, EmptyField DEF Spent, Counted
<1>11. Stages'
  <2>1. IsPrefix(<<>>, elements)
    BY <1>3, TypeFacts, EmptyPrefix
  <2>. QED
    BY <1>2, <1>4, <1>6, <1>8, <2>1 DEF Stages
<1>. QED
  BY <1>2, <1>6, <1>9, <1>10, <1>11 DEF Inv, WholeExactly, GlobalElementCap, DetailLast

LEMMA ClipTextInv == ASSUME Inv, ClipText PROVE Inv'
<1>1. PICK kept, all : /\ Truncate(doc.text, left)[1] = kept
                       /\ Truncate(doc.text, left)[2] = all
  OBVIOUS
<1>2. /\ pc = "text" /\ pc' = "elements" /\ out' = [out EXCEPT !.text = kept]
      /\ left' = left - Size(kept)
      /\ whole' = (whole /\ all)
      /\ UNCHANGED <<found, elements, doc>>
  BY <1>1 DEF ClipText
<1>3. /\ TypeOK /\ Stages /\ Spent /\ doc.text \in Texts /\ MAX_OUTPUT_BYTES \in Nat
      /\ left \in Nat /\ left <= MAX_OUTPUT_BYTES /\ Size(out.markdown) \in Nat
  BY TypeFacts, Numbers DEF Inv
<1>4. /\ kept \in Texts /\ Size(kept) \in Nat /\ Size(kept) <= left
      /\ all \in BOOLEAN /\ (all <=> kept = doc.text)
      /\ Tight(kept, doc.text, left)
  BY <1>1, <1>3, ClippedField
<1>5. /\ out \in [markdown : Texts, text : Texts, elements : SeqOf(RecordSizes, MAX_ELEMENTS)]
      /\ out.text = <<>> /\ out.elements = <<>> /\ whole \in BOOLEAN
      /\ (whole <=> out.markdown = doc.markdown)
      /\ Tight(out.markdown, doc.markdown, MAX_OUTPUT_BYTES)
  BY <1>2, <1>3, TypeFacts DEF TypeOK, Stages
<1>6. /\ out' \in [markdown : Texts, text : Texts, elements : SeqOf(RecordSizes, MAX_ELEMENTS)]
      /\ out'.markdown = out.markdown /\ out'.text = kept /\ out'.elements = <<>>
  BY <1>2, <1>4, <1>5
<1>7. left' \in 0 .. MAX_OUTPUT_BYTES
  BY <1>2, <1>3, <1>4
<1>8. whole' \in BOOLEAN /\ (whole' <=> out.markdown = doc.markdown /\ kept = doc.text)
  BY <1>2, <1>4, <1>5
<1>9. TypeOK'
  BY <1>2, <1>3, <1>6, <1>7, <1>8 DEF TypeOK
<1>10. left = MAX_OUTPUT_BYTES - Size(out.markdown)
  BY <1>3, <1>5, EmptyField DEF Spent, Counted
<1>11. Spent'
  BY <1>2, <1>3, <1>4, <1>6, <1>10, EmptyField DEF Spent, Counted
<1>12. Stages'
  <2>1. IsPrefix(<<>>, elements)
    BY <1>3, TypeFacts, EmptyPrefix
  <2>. QED
    BY <1>2, <1>4, <1>5, <1>6, <1>8, <1>10, <2>1 DEF Stages
<1>. QED
  BY <1>2, <1>6, <1>9, <1>11, <1>12 DEF Inv, WholeExactly, GlobalElementCap, DetailLast

\* A record fits only where nothing of the markdown and the text was lost: the
\* smallest one takes more than a clip can leave.
LEMMA FitsAfterWhole ==
  ASSUME Inv, pc = "elements", Fits
  PROVE  out.markdown = doc.markdown /\ out.text = doc.text
<1>1. /\ TypeOK /\ Spent
      /\ Tight(out.markdown, doc.markdown, MAX_OUTPUT_BYTES)
      /\ Tight(out.text, doc.text, MAX_OUTPUT_BYTES - Size(out.markdown))
      /\ IsPrefix(out.elements, elements)
  BY DEF Inv, Stages
<1>2. /\ Size(out.markdown) \in Nat /\ Size(out.text) \in Nat
      /\ SumFunction(out.elements) \in Nat /\ Len(out.elements) \in Nat
      /\ left \in Nat /\ MAX_OUTPUT_BYTES \in Nat
      /\ left = MAX_OUTPUT_BYTES
           - (Size(out.markdown) + Size(out.text) + SumFunction(out.elements) + Len(out.elements))
  BY <1>1, TypeFacts, Numbers DEF Spent, Counted
<1>3. left >= 5
  <2>1. Record \in RecordSizes
    <3>1. elements \in Seq(RecordSizes) /\ out.elements \in Seq(RecordSizes)
      BY <1>1, TypeFacts
    <3>2. Len(out.elements) <= Len(elements) /\ Len(out.elements) # Len(elements)
      BY <1>1 DEF IsPrefix, Fits, Kept
    <3>3. Len(out.elements) + 1 \in 1 .. Len(elements)
      BY <3>1, <3>2
    <3>. QED
      BY <3>1, <3>3 DEF Record
  <2>2. Record \in Nat /\ Record >= 4 /\ Record + 1 <= left
    BY <2>1, Numbers DEF Fits
  <2>. QED
    BY <1>2, <2>2
<1>4. /\ doc.markdown \in Seq(Chars) /\ doc.text \in Seq(Chars)
      /\ out.markdown \in Seq(Chars) /\ out.text \in Seq(Chars)
  BY <1>1, TypeFacts, TextFacts
<1>5. out.markdown = doc.markdown
  <2>1. out.markdown # doc.markdown => MAX_OUTPUT_BYTES < Size(out.markdown) + 4
    BY <1>1, <1>2, <1>4, TightLeaves
  <2>. QED
    BY <1>2, <1>3, <2>1
<1>6. out.text = doc.text
  <2>1. MAX_OUTPUT_BYTES - Size(out.markdown) \in Nat
    BY <1>2
  <2>2. out.text # doc.text => MAX_OUTPUT_BYTES - Size(out.markdown) < Size(out.text) + 4
    BY <1>1, <1>4, <2>1, TightLeaves
  <2>. QED
    BY <1>2, <1>3, <2>2, SMTT(20)
<1>. QED
  BY <1>5, <1>6

LEMMA LongerPrefix ==
  ASSUME NEW A, NEW s \in Seq(A), NEW t \in Seq(A), IsPrefix(s, t), Len(s) # Len(t)
  PROVE  /\ Len(s) + 1 \in 1 .. Len(t) /\ t[Len(s) + 1] \in A
         /\ IsPrefix(Append(s, t[Len(s) + 1]), t)
<1>. DEFINE n == Len(s)
<1>1. n \in 0 .. Len(t) /\ s = Upto(t, n) /\ n \in Nat /\ Len(t) \in Nat
  BY PrefixIsUpto
<1>. HIDE DEF n
<1>2. n < Len(t) /\ n + 1 \in 1 .. Len(t) /\ n + 1 \in Nat
  BY <1>1 DEF n
<1>3. Upto(t, n + 1) = Append(s, t[n + 1])
  BY <1>1, <1>2, UptoNext
<1>4. IsPrefix(Upto(t, n + 1), t)
  BY <1>2, UptoFacts
<1>5. t[n + 1] \in A
  BY <1>2
<1>. QED
  BY <1>2, <1>3, <1>4, <1>5, Zenon DEF n

LEMMA FitNextInv == ASSUME Inv, FitNext PROVE Inv'
<1>. DEFINE r == elements[Len(out.elements) + 1]
<1>1. /\ pc = "elements" /\ Fits /\ r + 1 <= left /\ Len(out.elements) # Len(elements)
      /\ out' = [out EXCEPT !.elements = Append(out.elements, r)]
      /\ left' = left - (r + 1)
      /\ UNCHANGED <<pc, found, elements, doc, whole>>
  BY DEF FitNext, Fits, Kept, Record
<1>2. /\ TypeOK /\ Spent /\ Stages /\ IsPrefix(out.elements, elements)
      /\ elements \in Seq(RecordSizes) /\ Len(elements) <= MAX_ELEMENTS
      /\ out.elements \in Seq(RecordSizes) /\ Len(out.elements) \in Nat
      /\ SumFunction(out.elements) \in Nat
      /\ Size(out.markdown) \in Nat /\ Size(out.text) \in Nat
      /\ left \in Nat /\ left <= MAX_OUTPUT_BYTES /\ MAX_OUTPUT_BYTES \in Nat
  BY TypeFacts, Numbers DEF Inv, Stages
<1>3. /\ Len(out.elements) + 1 \in 1 .. Len(elements) /\ r \in RecordSizes
      /\ IsPrefix(Append(out.elements, r), elements)
  BY <1>1, <1>2, LongerPrefix
<1>4. r \in Nat /\ r >= 4
  BY <1>3, Numbers
<1>. HIDE DEF r
<1>5. /\ Append(out.elements, r) \in Seq(RecordSizes)
      /\ Len(Append(out.elements, r)) = Len(out.elements) + 1
  BY <1>2, <1>3
<1>6. SumFunction(Append(out.elements, r)) = SumFunction(out.elements) + r
  <2>1. out.elements \in Seq(Nat)
    BY <1>2, RecordsFacts
  <2>. QED
    BY <1>4, <2>1, SumAppend
<1>7. /\ out' \in [markdown : Texts, text : Texts, elements : SeqOf(RecordSizes, MAX_ELEMENTS)]
      /\ out'.markdown = out.markdown /\ out'.text = out.text
      /\ out'.elements = Append(out.elements, r)
  <2>1. out \in [markdown : Texts, text : Texts, elements : SeqOf(RecordSizes, MAX_ELEMENTS)]
    BY <1>2 DEF TypeOK
  <2>2. Append(out.elements, r) \in SeqOf(RecordSizes, MAX_ELEMENTS)
    <3>1. Len(elements) \in Nat /\ Len(Append(out.elements, r)) <= MAX_ELEMENTS
      BY <1>2, <1>3, <1>5, Numbers
    <3>. QED
      BY <1>5, <3>1, RecordsFacts
  <2>. QED
    BY <1>1, <2>1, <2>2
<1>8. left' \in 0 .. MAX_OUTPUT_BYTES
  <2>1. left' = left - (r + 1) /\ r + 1 <= left
    BY <1>1
  <2>2. left \in Nat /\ left <= MAX_OUTPUT_BYTES /\ MAX_OUTPUT_BYTES \in Nat
    BY <1>2
  <2>. QED
    BY <1>4, <2>1, <2>2
<1>9. TypeOK'
  BY <1>1, <1>2, <1>7, <1>8 DEF TypeOK
<1>10. Spent'
  <2>. DEFINE m == Size(out.markdown)
              t == Size(out.text)
              c == SumFunction(out.elements)
              n == Len(out.elements)
  <2>1. m \in Nat /\ t \in Nat /\ c \in Nat /\ n \in Nat
    BY <1>2
  <2>2. left = MAX_OUTPUT_BYTES - (m + t + c + n) /\ left' = left - (r + 1)
    BY <1>1, <1>2 DEF Spent, Counted
  <2>3. Counted' = m + t + (c + r) + (n + 1)
    BY <1>5, <1>6, <1>7 DEF Counted
  <2>4. MAX_OUTPUT_BYTES \in Nat
    BY <1>2
  <2>. HIDE DEF m, t, c, n
  <2>5. left' = MAX_OUTPUT_BYTES - (m + t + (c + r) + (n + 1))
    BY <1>4, <2>1, <2>2, <2>4
  <2>. QED
    BY <2>3, <2>5 DEF Spent
<1>11. Stages'
  BY <1>1, <1>2, <1>3, <1>7 DEF Stages
<1>12. DetailLast'
  BY <1>1, <1>7, FitsAfterWhole DEF DetailLast
<1>. QED
  BY <1>1, <1>9, <1>10, <1>11, <1>12 DEF Inv, WholeExactly, GlobalElementCap

LEMMA FitEndInv == ASSUME Inv, FitEnd PROVE Inv'
<1>1. /\ pc = "elements" /\ pc' = "done" /\ ~Fits /\ whole' = (whole /\ Kept)
      /\ UNCHANGED <<found, elements, doc, out, left>>
  BY DEF FitEnd
<1>2. TypeOK /\ Stages /\ whole \in BOOLEAN
  BY TypeFacts DEF Inv
<1>3. Kept \in BOOLEAN /\ (Kept <=> out.elements = elements)
  <2>1. elements \in Seq(RecordSizes) /\ out.elements \in Seq(RecordSizes)
    BY <1>2, TypeFacts
  <2>2. IsPrefix(out.elements, elements)
    BY <1>2 DEF Stages
  <2>3. Len(out.elements) \in Nat /\ out.elements = Upto(elements, Len(out.elements))
    BY <2>1, <2>2, PrefixIsUpto
  <2>4. Upto(elements, Len(elements)) = elements
    BY <2>1, UptoFacts
  <2>. QED
    BY <2>3, <2>4 DEF Kept
<1>4. TypeOK'
  BY <1>1, <1>2, <1>3 DEF TypeOK
<1>5. Stages'
  <2>1. ~Fits'
    BY <1>1 DEF Fits, Kept, Record
  <2>. QED
    BY <1>1, <1>2, <2>1 DEF Stages
<1>6. WholeExactly'
  <2>1. whole <=> out.markdown = doc.markdown /\ out.text = doc.text
    BY <1>1, <1>2 DEF Stages
  <2>2. whole' <=> out.markdown = doc.markdown /\ out.text = doc.text /\ out.elements = elements
    BY <1>1, <1>2, <1>3, <2>1
  <2>3. out = [markdown |-> out.markdown, text |-> out.text, elements |-> out.elements]
    BY <1>2, TypeFacts
  <2>4. out = [markdown |-> doc.markdown, text |-> doc.text, elements |-> elements]
          <=> out.markdown = doc.markdown /\ out.text = doc.text /\ out.elements = elements
    BY <2>3
  <2>. QED
    BY <1>1, <2>2, <2>4 DEF WholeExactly
<1>. QED
  BY <1>1, <1>4, <1>5, <1>6 DEF Inv, Spent, Counted, GlobalElementCap, DetailLast

LEMMA NextInv == ASSUME Inv, [Next]_vars PROVE Inv'
<1>1. CASE UNCHANGED vars
  BY <1>1 DEF vars, Inv, TypeOK, Spent, Counted, Stages, Fits, Kept, Record, WholeExactly,
    GlobalElementCap, DetailLast
<1>. QED
  BY <1>1, GatherInv, JoinedInv, ClipMarkdownInv, ClipTextInv, FitNextInv, FitEndInv DEF Next

\* The invariant of a parse's last steps, for documents of any length: what is left
\* of the budget is what the fields have not taken, and every field behind the
\* current stage is clipped tightly or whole.
THEOREM Invariance == Spec => []Inv
BY InitInv, NextInv, PTL DEF Spec

\* Every variable keeps its type; in particular the budget handed to _truncate() and
\* _fit_elements() is never negative.
THEOREM TypeCorrect == Spec => []TypeOK
BY Invariance, PTL DEF Inv

\* Markdown, text and elements together never take more than MAX_OUTPUT_BYTES,
\* whatever the document and however the budget is divided.
THEOREM BudgetCorrect == Spec => []SharedBudgetKept
<1>1. Inv => SharedBudgetKept
  <2>. SUFFICES ASSUME Inv PROVE SharedBudgetKept
    OBVIOUS
  <2>1. /\ Size(out.markdown) \in Nat /\ Size(out.text) \in Nat
        /\ SumFunction(out.elements) \in Nat /\ Len(out.elements) \in Nat
        /\ left \in Nat /\ MAX_OUTPUT_BYTES \in Nat
    BY TypeFacts, Numbers DEF Inv
  <2>2. left = MAX_OUTPUT_BYTES - Counted
    BY DEF Inv, Spent
  <2>3. Counted \in Nat
    BY <2>1 DEF Counted
  <2>. QED
    BY <2>1, <2>2, <2>3 DEF SharedBudgetKept
<1>. QED
  BY Invariance, <1>1, PTL

\* A field is cut only where its next character, or the next record, would not have
\* fitted: no budget gives up more than it has to.
THEOREM ClippingTight == Spec => []ClippedTight
<1>1. Inv => ClippedTight
  <2>. SUFFICES ASSUME Inv, pc = "done" PROVE ClippedTight
    BY DEF ClippedTight
  <2>1. /\ Tight(out.markdown, doc.markdown, MAX_OUTPUT_BYTES)
        /\ Tight(out.text, doc.text, MAX_OUTPUT_BYTES - Size(out.markdown))
        /\ IsPrefix(out.elements, elements) /\ ~Fits
    BY DEF Inv, Stages
  <2>2. ASSUME ~Kept PROVE Counted + Record + 1 > MAX_OUTPUT_BYTES
    <3>1. /\ Size(out.markdown) \in Nat /\ Size(out.text) \in Nat
          /\ SumFunction(out.elements) \in Nat /\ Len(out.elements) \in Nat
          /\ left \in Nat /\ MAX_OUTPUT_BYTES \in Nat
          /\ elements \in Seq(RecordSizes) /\ out.elements \in Seq(RecordSizes)
      BY TypeFacts, Numbers DEF Inv
    <3>2. Record \in RecordSizes
      BY <2>1, <2>2, <3>1, LongerPrefix DEF Kept, Record
    <3>3. Record \in Nat /\ Counted \in Nat /\ left = MAX_OUTPUT_BYTES - Counted
      BY <3>1, <3>2, Numbers, SMTT(20) DEF Counted, Inv, Spent
    <3>4. ~(Record + 1 <= left)
      BY <2>1, <2>2 DEF Fits
    <3>. QED
      BY <3>1, <3>3, <3>4
  <2>. QED
    BY <2>1, <2>2 DEF ClippedTight
<1>. QED
  BY Invariance, <1>1, PTL

\* A result is flagged as truncated exactly when the byte budget took something of it:
\* unflagged, it has all of its Markdown and text and all the elements that the count
\* caps let through, whatever files they came from.  What the caps drop is not flagged.
THEOREM TruncationReported == Spec => []TruncatedHonest
<1>1. Inv => TruncatedHonest
  BY DEF Inv, WholeExactly, GlobalElementCap, TruncatedHonest
<1>. QED
  BY <1>1, Invariance, PTL

\* However many files are read, the elements are the first MAX_ELEMENTS of them all.
THEOREM ElementCapGlobal == Spec => []GlobalElementCap
BY Invariance, PTL DEF Inv

\* A result with an element has all of its markdown and text.
THEOREM DetailComesLast == Spec => []DetailLast
BY Invariance, PTL DEF Inv
=============================================================================
