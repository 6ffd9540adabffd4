---------------------------- MODULE FiltersProofs ----------------------------
(***************************************************************************)
(* Theorems about Filters: the list, the map and the file agree, whatever  *)
(* names and texts there are.  The list and the map are compared entry by  *)
(* entry (Agree); a save that is under way has every line in the file or   *)
(* still to write (Saving), so that one that ends without trouble leaves a *)
(* file from which the filters in force are read back (Kept).              *)
(*                                                                         *)
(* And about FilterMatch: a source that is cut where Set cuts it (Cutting) *)
(* and compared part by part (CompareWritten) fits the senders it stands   *)
(* for (CoversParts).                                                      *)
(***************************************************************************)
EXTENDS FilterMatch, Sums

-----------------------------------------------------------------------------
(* Which filter a message meets *)

Chars == DOMAIN ToLower

\* No other character is c in another letter.
Sharp(c) == c \in Chars /\ \A d \in Chars : Same(c, d) => c = d

LEMMA SharpOnes == \A c \in {"-", ".", ":", "*", "nul"} : Sharp(c)
BY FilterMatchAssumption, Zenon DEF Sharp, Chars

LEMMA SameSymmetric == ASSUME NEW c, NEW d, Same(c, d) PROVE Same(d, c)
BY DEF Same

\* The set in which c occurs in w from a position on has a least element or none.
LEMMA FindProperties ==
  ASSUME NEW S, NEW w \in Seq(S), NEW c, NEW k \in Nat
  PROVE  LET p == Find(w, c, k + 1)
         IN \/ p = 0 /\ \A i \in k + 1 .. Len(w) : w[i] # c
            \/ /\ p \in k + 1 .. Len(w) /\ w[p] = c
               /\ \A i \in k + 1 .. Len(w) : i < p => w[i] # c
<1> DEFINE at == {i \in k + 1 .. Len(w) : w[i] = c}
<1>1. Len(w) \in Nat
  OBVIOUS
<1>2. at \in SUBSET Nat
  BY <1>1
<1>3. CASE at = {}
  BY <1>3 DEF Find
<1>4. CASE at # {}
  <2>1. Min(at) \in at /\ \A n \in at : Min(at) <= n
    <3> HIDE DEF at
    <3> QED BY <1>2, <1>4, LeastNatural
  <2>2. Find(w, c, k + 1) = Min(at)
    BY <1>4 DEF Find
  <2>3. \A i \in k + 1 .. Len(w) : i < Min(at) => i \notin at
    BY <1>1, <1>2, <2>1
  <2>4. \A i \in k + 1 .. Len(w) : i < Min(at) => w[i] # c
    BY <2>3
  <2> QED BY <2>1, <2>2, <2>4
<1> QED BY <1>3, <1>4

\* A part of a text, compared character by character.
Span(x, w, a, b) ==
  Len(x) = b - a + 1 /\ \A i \in 1 .. Len(x) : Same(x[i], w[a + i - 1])

LEMMA SameSpan ==
  ASSUME NEW S, NEW T, NEW w \in Seq(S), NEW x \in Seq(T), NEW a \in 1 .. Len(w) + 1, NEW b \in 0 .. Len(w),
         a <= b + 1
  PROVE  SameText(x, SubSeq(w, a, b)) <=> Span(x, w, a, b)
<1> DEFINE s == SubSeq(w, a, b)
<1>1. a \in Int /\ b \in Int /\ \A i \in a .. b : w[i] \in S
  OBVIOUS
<1>2. /\ s \in Seq(S)
      /\ Len(s) = IF a <= b THEN b - a + 1 ELSE 0
      /\ \A i \in 1 .. b - a + 1 : s[i] = w[a + i - 1]
  BY <1>1, SubSeqProperties
<1>3. Len(s) = b - a + 1
  BY <1>1, <1>2
<1>4. DOMAIN x = 1 .. Len(x)
  OBVIOUS
<1> HIDE DEF s
<1>5. SameText(x, s) <=> Span(x, w, a, b)
  BY <1>2, <1>3, <1>4, Zenon DEF SameText, Span
<1> QED BY <1>5 DEF s

LEMMA InWith ==
  ASSUME NEW X, NEW c, NEW Y
  PROVE  \A z : z \in With(X, c, Y) <=> (z \in X \/ \E x \in X, y \in Y : z = Join(x, c, y))
BY DEF With

LEMMA Joined ==
  ASSUME NEW x \in Seq(Chars), NEW y \in Seq(Chars), NEW c \in Chars
  PROVE  /\ Join(x, c, y) \in Seq(Chars) /\ Len(Join(x, c, y)) = Len(x) + 1 + Len(y)
         /\ \A i \in 1 .. Len(x) : Join(x, c, y)[i] = x[i]
         /\ Join(x, c, y)[Len(x) + 1] = c
         /\ \A i \in 1 .. Len(y) : Join(x, c, y)[Len(x) + 1 + i] = y[i]
BY DEF Join

\* A text that is parts joined by c is cut at its first c.
LEMMA Cutting ==
  ASSUME NEW w \in Seq(Chars), NEW k \in 0 .. Len(w), NEW c, Sharp(c),
         NEW X \in SUBSET Seq(Chars \ {c}), NEW Y \in SUBSET Seq(Chars)
  PROVE  LET p == Find(w, c, k + 1)
         IN (\E z \in With(X, c, Y) : Span(z, w, k + 1, Len(w))) <=>
            IF p = 0
            THEN \E x \in X : Span(x, w, k + 1, Len(w))
            ELSE /\ \E x \in X : Span(x, w, k + 1, p - 1)
                 /\ \E y \in Y : Span(y, w, p + 1, Len(w))
<1> DEFINE p == Find(w, c, k + 1)
           n == Len(w)
<1>1. n \in Nat /\ k \in Nat /\ c \in Chars
  BY DEF Sharp
<1>2. \A i \in 1 .. n : w[i] \in Chars
  OBVIOUS
<1>3. \/ p = 0 /\ \A i \in k + 1 .. n : w[i] # c
      \/ p \in k + 1 .. n /\ w[p] = c /\ \A i \in k + 1 .. n : i < p => w[i] # c
  BY <1>1, FindProperties
<1>4. \A x \in X : x \in Seq(Chars) /\ Len(x) \in Nat /\ \A i \in 1 .. Len(x) : x[i] \in Chars /\ x[i] # c
  <2> SUFFICES ASSUME NEW x \in X PROVE x \in Seq(Chars) /\ Len(x) \in Nat /\ \A i \in 1 .. Len(x) : x[i] \in Chars /\ x[i] # c
    OBVIOUS
  <2>1. x \in Seq(Chars \ {c})
    OBVIOUS
  <2>2. x \in Seq(Chars)
    BY <2>1, SeqMonotonic
  <2> QED BY <2>1, <2>2
<1>5. \A y \in Y : y \in Seq(Chars) /\ Len(y) \in Nat
  OBVIOUS
<1>6. \A d \in Chars : Same(c, d) => c = d
  BY DEF Sharp
<1> HIDE DEF p, n
\* Where x ends and y begins.
<1>7. ASSUME NEW x \in X, NEW y \in Y, Span(Join(x, c, y), w, k + 1, n)
      PROVE  p = k + 1 + Len(x) /\ Span(x, w, k + 1, p - 1) /\ Span(y, w, p + 1, n)
  <2> DEFINE z == Join(x, c, y)
             q == k + 1 + Len(x)
  <2>1. /\ z \in Seq(Chars) /\ Len(z) = Len(x) + 1 + Len(y)
        /\ \A i \in 1 .. Len(x) : z[i] = x[i]
        /\ z[Len(x) + 1] = c
        /\ \A i \in 1 .. Len(y) : z[Len(x) + 1 + i] = y[i]
    <3>1. x \in Seq(Chars) /\ y \in Seq(Chars) /\ c \in Chars
      BY <1>1, <1>4, <1>5
    <3> QED BY <3>1, Joined, Zenon
  <2>2. Len(z) = n - (k + 1) + 1 /\ \A i \in 1 .. Len(z) : Same(z[i], w[k + 1 + i - 1])
    BY <1>7 DEF Span
  <2> HIDE DEF z
  <2>3. Len(x) \in Nat /\ Len(y) \in Nat /\ n = k + Len(x) + 1 + Len(y)
    <3>1. Len(x) \in Nat /\ Len(y) \in Nat
      BY <1>4, <1>5
    <3>2. Len(x) + 1 + Len(y) = n - (k + 1) + 1
      BY <2>1, <2>2
    <3> QED BY <1>1, <3>1, <3>2
  <2>4. q \in k + 1 .. n /\ Len(x) + 1 \in 1 .. Len(z) /\ k + 1 + (Len(x) + 1) - 1 = q
    BY <1>1, <2>1, <2>3
  <2>5. w[q] = c
    <3>1. Same(c, w[q])
      BY <2>1, <2>2, <2>4
    <3>2. w[q] \in Chars
      BY <1>1, <1>2, <2>4
    <3> QED BY <1>6, <3>1, <3>2
  <2>6. \A i \in 1 .. Len(x) : w[k + i] # c
    <3> SUFFICES ASSUME NEW i \in 1 .. Len(x) PROVE w[k + i] # c
      OBVIOUS
    <3>1. i \in 1 .. Len(z) /\ k + 1 + i - 1 = k + i
      BY <1>1, <2>1, <2>3
    <3>2. Same(x[i], w[k + i])
      BY <2>1, <2>2, <3>1
    <3>3. x[i] \in Chars /\ x[i] # c
      BY <1>4
    <3> QED BY <1>6, <3>2, <3>3, SameSymmetric
  <2>7. p = q
    <3>1. p \in k + 1 .. n /\ w[p] = c /\ \A i \in k + 1 .. n : i < p => w[i] # c
      BY <1>3, <2>4, <2>5
    <3>2. ~ (q < p)
      BY <2>4, <2>5, <3>1
    <3>3. ~ (p < q)
      <4> SUFFICES ASSUME p < q PROVE FALSE
        OBVIOUS
      <4>1. p - k \in 1 .. Len(x) /\ k + (p - k) = p
        BY <1>1, <2>3, <3>1
      <4> QED BY <2>6, <3>1, <4>1
    <3>4. p \in Int /\ q \in Int
      BY <1>1, <2>3, <3>1
    <3> QED BY <3>2, <3>3, <3>4
  <2>8. Span(x, w, k + 1, p - 1)
    <3>1. Len(x) = p - 1 - (k + 1) + 1
      BY <1>1, <2>3, <2>7
    <3>2. \A i \in 1 .. Len(x) : Same(x[i], w[k + 1 + i - 1])
      <4> SUFFICES ASSUME NEW i \in 1 .. Len(x) PROVE Same(x[i], w[k + 1 + i - 1])
        OBVIOUS
      <4>1. i \in 1 .. Len(z)
        BY <2>1, <2>3
      <4> QED BY <2>1, <2>2, <4>1
    <3> QED BY <3>1, <3>2 DEF Span
  <2>9. Span(y, w, p + 1, n)
    <3>1. Len(y) = n - (p + 1) + 1
      BY <1>1, <2>3, <2>7
    <3>2. \A i \in 1 .. Len(y) : Same(y[i], w[p + 1 + i - 1])
      <4> SUFFICES ASSUME NEW i \in 1 .. Len(y) PROVE Same(y[i], w[p + 1 + i - 1])
        OBVIOUS
      <4>1. Len(x) + 1 + i \in 1 .. Len(z) /\ k + 1 + (Len(x) + 1 + i) - 1 = p + 1 + i - 1
        BY <1>1, <2>1, <2>3, <2>7
      <4> QED BY <2>1, <2>2, <4>1
    <3> QED BY <3>1, <3>2 DEF Span
  <2> QED BY <2>7, <2>8, <2>9
<1>8. CASE p = 0
  <2>1. \A x \in X, y \in Y : ~ Span(Join(x, c, y), w, k + 1, n)
    <3> SUFFICES ASSUME NEW x \in X, NEW y \in Y, Span(Join(x, c, y), w, k + 1, n) PROVE FALSE
      OBVIOUS
    <3>1. p = k + 1 + Len(x) /\ Len(x) \in Nat
      BY <1>4, <1>7
    <3> QED BY <1>1, <1>8, <3>1
  <2>2. \A z \in With(X, c, Y) : Span(z, w, k + 1, n) => z \in X
    <3> SUFFICES ASSUME NEW z \in With(X, c, Y), Span(z, w, k + 1, n), z \notin X PROVE FALSE
      OBVIOUS
    <3>1. PICK x \in X, y \in Y : z = Join(x, c, y)
      BY InWith
    <3>2. Span(Join(x, c, y), w, k + 1, n)
      BY <3>1, Zenon
    <3> QED BY <2>1, <3>2, Zenon
  <2>3. \A x \in X : x \in With(X, c, Y)
    BY InWith
  <2> QED BY <1>8, <2>2, <2>3, Zenon DEF p, n
<1>9. CASE p # 0
  <2>1. p \in k + 1 .. n /\ w[p] = c
    BY <1>3, <1>9
  <2>2. ASSUME NEW x \in X, Span(x, w, k + 1, n) PROVE FALSE
    <3>1. Len(x) = n - (k + 1) + 1 /\ \A i \in 1 .. Len(x) : Same(x[i], w[k + 1 + i - 1])
      BY <2>2 DEF Span
    <3>2. p - k \in 1 .. Len(x) /\ k + 1 + (p - k) - 1 = p
      BY <1>1, <1>4, <2>1, <3>1
    <3>3. Same(x[p - k], c)
      BY <2>1, <3>1, <3>2
    <3> QED BY <1>4, <1>6, <3>2, <3>3, SameSymmetric
  <2>3. ASSUME NEW x \in X, NEW y \in Y, Span(x, w, k + 1, p - 1), Span(y, w, p + 1, n)
        PROVE  Span(Join(x, c, y), w, k + 1, n)
    <3> DEFINE z == Join(x, c, y)
    <3>1. /\ Len(z) = Len(x) + 1 + Len(y)
          /\ \A i \in 1 .. Len(x) : z[i] = x[i]
          /\ z[Len(x) + 1] = c
          /\ \A i \in 1 .. Len(y) : z[Len(x) + 1 + i] = y[i]
      <4>1. x \in Seq(Chars) /\ y \in Seq(Chars) /\ c \in Chars
        BY <1>1, <1>4, <1>5
      <4> QED BY <4>1, Joined, Zenon
    <3> HIDE DEF z
    <3>2. /\ Len(x) = p - 1 - (k + 1) + 1 /\ Len(y) = n - (p + 1) + 1
          /\ \A i \in 1 .. Len(x) : Same(x[i], w[k + 1 + i - 1])
          /\ \A i \in 1 .. Len(y) : Same(y[i], w[p + 1 + i - 1])
      BY <2>3 DEF Span
    <3>3. Len(x) \in Nat /\ Len(y) \in Nat
      BY <1>4, <1>5
    <3>4. Len(z) = n - (k + 1) + 1
      BY <1>1, <2>1, <3>1, <3>2, <3>3
    <3>5. \A i \in 1 .. Len(z) : Same(z[i], w[k + 1 + i - 1])
      <4> SUFFICES ASSUME NEW i \in 1 .. Len(z) PROVE Same(z[i], w[k + 1 + i - 1])
        OBVIOUS
      <4>1. CASE i \in 1 .. Len(x)
        BY <3>1, <3>2, <4>1
      <4>2. CASE i = Len(x) + 1
        <5>1. k + 1 + i - 1 = p
          BY <1>1, <2>1, <3>2, <3>3, <4>2
        <5>2. z[i] = c
          BY <3>1, <4>2
        <5> QED BY <2>1, <5>1, <5>2 DEF Same
      <4>3. CASE i > Len(x) + 1
        <5> DEFINE j == i - (Len(x) + 1)
        <5>1. j \in 1 .. Len(y) /\ Len(x) + 1 + j = i /\ p + 1 + j - 1 = k + 1 + i - 1
          BY <1>1, <2>1, <3>1, <3>2, <3>3, <4>3
        <5> HIDE DEF j
        <5> QED BY <3>1, <3>2, <5>1
      <4>4. i \in 1 .. Len(x) \/ i = Len(x) + 1 \/ i > Len(x) + 1
        BY <3>1, <3>3
      <4> QED BY <4>1, <4>2, <4>3, <4>4
    <3>6. Span(z, w, k + 1, n)
      BY <3>4, <3>5 DEF Span
    <3> QED BY <3>6 DEF z
  <2>4. (\E z \in With(X, c, Y) : Span(z, w, k + 1, n)) <=>
        \E x \in X, y \in Y : Span(Join(x, c, y), w, k + 1, n)
    <3>1. \A z \in With(X, c, Y) : Span(z, w, k + 1, n) => \E x \in X, y \in Y : z = Join(x, c, y)
      <4> SUFFICES ASSUME NEW z \in With(X, c, Y), Span(z, w, k + 1, n)
                   PROVE  \E x \in X, y \in Y : z = Join(x, c, y)
        OBVIOUS
      <4>1. z \notin X
        BY <2>2
      <4> QED BY <4>1, InWith
    <3>2. \A x \in X, y \in Y : Join(x, c, y) \in With(X, c, Y)
      BY InWith
    <3> QED BY <3>1, <3>2, Zenon
  <2>5. (\E x \in X, y \in Y : Span(Join(x, c, y), w, k + 1, n)) <=>
        (\E x \in X : Span(x, w, k + 1, p - 1)) /\ (\E y \in Y : Span(y, w, p + 1, n))
    BY <1>7, <2>3, Zenon
  <2> QED BY <1>9, <2>4, <2>5, Zenon DEF p, n
<1> QED BY <1>8, <1>9

\* A word that ends with a star, as Written makes it.
LEMMA StarWord ==
  ASSUME NEW T, NEW w \in Seq(T), NEW k \in 0 .. Len(w) - 1
  PROVE  LET x == Append(SubSeq(w, 1, k), "*")
         IN /\ x \in Seq(T \cup {"*"}) /\ Len(x) = k + 1 /\ x[k + 1] = "*"
            /\ \A i \in 1 .. k : x[i] = w[i]
<1> DEFINE s == SubSeq(w, 1, k)
<1>1. Len(w) \in Nat /\ k \in Int /\ 1 \in Int /\ \A i \in 1 .. k : w[i] \in T
  OBVIOUS
<1>2. /\ s \in Seq(T) /\ Len(s) = IF 1 <= k THEN k - 1 + 1 ELSE 0
      /\ \A i \in 1 .. k - 1 + 1 : s[i] = w[1 + i - 1]
  BY <1>1, SubSeqProperties
<1> HIDE DEF s
<1>3. Len(s) = k /\ \A i \in 1 .. k : s[i] = w[i]
  BY <1>1, <1>2
<1>4. s \in Seq(T \cup {"*"}) /\ "*" \in T \cup {"*"}
  BY <1>2, SeqMonotonic
<1>5. LET x == Append(s, "*")
      IN /\ x \in Seq(T \cup {"*"}) /\ Len(x) = Len(s) + 1 /\ x[Len(s) + 1] = "*"
         /\ \A i \in 1 .. Len(s) : x[i] = s[i]
  BY <1>4, AppendProperties
<1> QED BY <1>3, <1>5 DEF s

LEMMA WrittenType ==
  ASSUME NEW T, NEW w \in Seq(T)
  PROVE  \A x \in Written(w) : x \in Seq(T \cup {"*"})
<1>1. w \in Seq(T \cup {"*"})
  BY SeqMonotonic
<1>2. \A k \in 0 .. Len(w) - 1 : Append(SubSeq(w, 1, k), "*") \in Seq(T \cup {"*"})
  BY StarWord
<1> QED BY <1>1, <1>2 DEF Written

\* Compare holds of the ways to write a word: the loop ends at the star, or at
\* the last character of both.
LEMMA CompareWritten ==
  ASSUME NEW w1 \in Seq(Chars \ {"nul"}), NEW w2 \in Words({}), StarsLast(w1)
  PROVE  Compare(w1, w2) <=> \E x \in Written(w2) : SameText(x, w1)
<1> DEFINE Alike(i) == Same(CharAt(w1, i), CharAt(w2, i))
           ends == {i \in DOMAIN w2 :
                      \/ Star(w1, w2, i) \/ ~Same(CharAt(w1, i), CharAt(w2, i)) \/ i \in {Len(w1), Len(w2)}}
           l == Min(ends)
<1>1. /\ w2 \in Seq(Chars \ {"*", "nul"}) /\ Len(w1) \in Nat /\ Len(w2) \in Nat \ {0}
      /\ DOMAIN w2 = 1 .. Len(w2)
  <2>1. w2 \in Seq(Chars \ {"*", "nul"}) /\ w2 # <<>>
    BY DEF Words, Chars
  <2> QED BY <2>1
<1>2. /\ \A i \in 1 .. Len(w1) : CharAt(w1, i) = w1[i] /\ w1[i] \in Chars /\ w1[i] # "nul"
      /\ \A i \in 1 .. Len(w2) : CharAt(w2, i) = w2[i] /\ w2[i] \in Chars /\ w2[i] # "nul" /\ w2[i] # "*"
      /\ \A i \in Nat : i > Len(w1) => CharAt(w1, i) = "nul"
  BY <1>1 DEF CharAt
<1>3. /\ \A d \in Chars : Same("*", d) => d = "*"
      /\ \A d \in Chars : Same("nul", d) => d = "nul"
  BY SharpOnes DEF Sharp
<1>4. ends \in SUBSET (1 .. Len(w2)) /\ Len(w2) \in ends
  BY <1>1
<1>5. l \in ends /\ \A i \in ends : l <= i
  <2>1. ends \in SUBSET Nat /\ ends # {}
    BY <1>1, <1>4
  <2> HIDE DEF ends
  <2> QED BY <2>1, LeastNatural
<1>6. Compare(w1, w2) <=> Star(w1, w2, l) \/ (Alike(l) /\ Len(w1) = Len(w2))
  BY Zenon DEF Compare, LastCompared
<1>7. l \in 1 .. Len(w2) /\ (Star(w1, w2, l) \/ ~Alike(l) \/ l = Len(w1) \/ l = Len(w2))
  BY <1>1, <1>5
<1>8. \A i \in 1 .. Len(w2) : i < l => ~Star(w1, w2, i) /\ Alike(i) /\ i # Len(w1) /\ i # Len(w2)
  <2> SUFFICES ASSUME NEW i \in 1 .. Len(w2), i < l
               PROVE  ~Star(w1, w2, i) /\ Alike(i) /\ i # Len(w1) /\ i # Len(w2)
    OBVIOUS
  <2>1. i \notin ends
    <3> HIDE DEF ends, l
    <3>1. ~ (l <= i)
      BY <1>7
    <3> QED BY <1>5, <3>1
  <2> QED BY <1>1, <2>1
<1>9. ASSUME NEW i \in 1 .. Len(w2), i > Len(w1)
      PROVE  ~Alike(i) /\ ~Star(w1, w2, i)
  <2>1. CharAt(w1, i) = "nul" /\ CharAt(w2, i) = w2[i] /\ w2[i] \in Chars /\ w2[i] # "nul" /\ w2[i] # "*"
    BY <1>1, <1>2, <1>9
  <2> QED BY <1>3, <2>1 DEF Star
<1> HIDE DEF ends, l, Alike
<1>10. Len(w1) \in Nat /\ Len(w2) \in Nat /\ l \in Nat /\ 1 <= l /\ l <= Len(w2)
  <2>1. Len(w1) \in Nat /\ Len(w2) \in Nat
    BY <1>1
  <2>2. l \in 1 .. Len(w2)
    BY <1>7
  <2> QED BY <2>1, <2>2
<1>11. ASSUME Compare(w1, w2) PROVE \E x \in Written(w2) : SameText(x, w1)
  <2>1. l \in 1 .. Len(w1)
    <3>1. ~ (l > Len(w1))
      BY <1>6, <1>7, <1>9, <1>11
    <3> QED BY <1>10, <3>1
  <2>2. \A i \in 1 .. Len(w2) : i < l => Same(w2[i], w1[i])
    <3> SUFFICES ASSUME NEW i \in 1 .. Len(w2), i < l PROVE Same(w2[i], w1[i])
      OBVIOUS
    <3>1. Alike(i)
      BY <1>8
    <3>2. i \in 1 .. Len(w1)
      BY <1>10, <2>1
    <3> QED BY <1>2, <3>1, <3>2, SameSymmetric DEF Alike
  <2>3. CASE Star(w1, w2, l)
    <3>1. w1[l] = "*" /\ l = Len(w1)
      <4>1. w1[l] = "*"
        BY <1>2, <1>7, <2>1, <2>3 DEF Star
      <4> QED BY <2>1, <4>1 DEF StarsLast
    <3> DEFINE k == l - 1
               x == Append(SubSeq(w2, 1, k), "*")
    <3>2. k \in 0 .. Len(w2) - 1 /\ k + 1 = l
      BY <1>10
    <3>3. Len(x) = k + 1 /\ x[k + 1] = "*" /\ x \in Seq(Chars \cup {"*"}) /\ \A i \in 1 .. k : x[i] = w2[i]
      <4> HIDE DEF k
      <4>1. w2 \in Seq(Chars)
        BY <1>1, SeqMonotonic
      <4> QED BY <3>2, <4>1, StarWord
    <3>4. x \in Written(w2)
      BY <3>2 DEF Written
    <3> HIDE DEF x, k
    <3>5. Len(x) = Len(w1) /\ DOMAIN x = 1 .. l
      BY <3>1, <3>2, <3>3
    <3>6. \A i \in 1 .. l : Same(x[i], w1[i])
      <4> SUFFICES ASSUME NEW i \in 1 .. l PROVE Same(x[i], w1[i])
        OBVIOUS
      <4>1. CASE i = l
        BY <3>1, <3>2, <3>3, <4>1 DEF Same
      <4>2. CASE i # l
        <5>1. i \in 1 .. k /\ i \in 1 .. Len(w2) /\ i < l
          BY <1>10, <3>2, <4>2
        <5> QED BY <2>2, <3>3, <5>1
      <4> QED BY <4>1, <4>2
    <3>7. SameText(x, w1)
      BY <3>5, <3>6 DEF SameText
    <3> QED BY <3>4, <3>7
  <2>4. CASE ~Star(w1, w2, l)
    <3>1. Alike(l) /\ Len(w1) = Len(w2)
      BY <1>6, <1>11, <2>4
    <3>2. l = Len(w2)
      BY <1>7, <2>4, <3>1
    <3>3. \A i \in 1 .. Len(w2) : Same(w2[i], w1[i])
      <4> SUFFICES ASSUME NEW i \in 1 .. Len(w2) PROVE Same(w2[i], w1[i])
        OBVIOUS
      <4>1. CASE i = l
        BY <1>2, <3>1, <4>1, SameSymmetric DEF Alike
      <4>2. CASE i # l
        <5>1. i < l
          BY <1>10, <3>2, <4>2
        <5> QED BY <2>2, <5>1
      <4> QED BY <4>1, <4>2
    <3>4. SameText(w2, w1)
      BY <1>1, <3>1, <3>3 DEF SameText
    <3>5. w2 \in Written(w2)
      BY DEF Written
    <3> QED BY <3>4, <3>5
  <2> QED BY <2>3, <2>4
<1>12. ASSUME NEW x \in Written(w2), SameText(x, w1) PROVE Compare(w1, w2)
  <2>1. CASE x = w2
    <3>1. Len(w1) = Len(w2) /\ \A i \in 1 .. Len(w2) : Same(w2[i], w1[i])
      BY <1>1, <1>12, <2>1 DEF SameText
    <3>2. Same(w2[l], w1[l])
      BY <1>7, <3>1
    <3>3. Alike(l)
      BY <1>2, <1>7, <3>1, <3>2, SameSymmetric DEF Alike
    <3> QED BY <1>6, <3>1, <3>3
  <2>2. ASSUME NEW k \in 0 .. Len(w2) - 1, x = Append(SubSeq(w2, 1, k), "*") PROVE Compare(w1, w2)
    <3>1. Len(x) = k + 1 /\ x[k + 1] = "*" /\ x \in Seq(Chars \cup {"*"}) /\ \A i \in 1 .. k : x[i] = w2[i]
      <4>1. w2 \in Seq(Chars)
        BY <1>1, SeqMonotonic
      <4> QED BY <2>2, <4>1, StarWord
    <3>2. Len(w1) = k + 1 /\ k \in Nat /\ k + 1 \in 1 .. Len(w2) /\ \A i \in 1 .. k + 1 : Same(x[i], w1[i])
      <4>1. Len(w1) = k + 1 /\ k \in Nat /\ k + 1 \in 1 .. Len(w2) /\ DOMAIN x = 1 .. k + 1
        BY <1>1, <1>12, <3>1 DEF SameText
      <4> QED BY <1>12, <4>1 DEF SameText
    <3>3. w1[k + 1] = "*"
      <4>1. k + 1 \in 1 .. k + 1
        BY <3>2
      <4>2. Same("*", w1[k + 1])
        BY <3>1, <3>2, <4>1
      <4>3. w1[k + 1] \in Chars
        BY <1>2, <3>2, <4>1
      <4> QED BY <1>3, <4>2, <4>3
    <3>4. Star(w1, w2, k + 1)
      <4>1. k + 1 \in 1 .. Len(w1)
        BY <3>2
      <4> QED BY <1>2, <3>3, <4>1 DEF Star
    <3>5. \A i \in 1 .. k : Alike(i)
      <4> SUFFICES ASSUME NEW i \in 1 .. k PROVE Alike(i)
        OBVIOUS
      <4>1. i \in 1 .. k + 1 /\ i \in 1 .. Len(w1) /\ i \in 1 .. Len(w2)
        BY <1>1, <3>2
      <4>2. Same(w2[i], w1[i])
        BY <3>1, <3>2, <4>1
      <4> QED BY <1>2, <4>1, <4>2, SameSymmetric DEF Alike
    <3>6. CASE Star(w1, w2, l)
      BY <1>6, <3>6
    <3>7. CASE ~Star(w1, w2, l)
      <4>1. ~ (k + 1 < l)
        BY <1>8, <3>2, <3>4, Zenon
      <4>2. l # k + 1
        BY <3>4, <3>7
      <4>3. l \in 1 .. k
        BY <1>10, <3>2, <4>1, <4>2
      <4>4. l # Len(w1) /\ l # Len(w2)
        BY <1>10, <3>2, <4>3
      <4>5. Alike(l)
        BY <3>5, <4>3
      <4> QED BY <1>7, <3>7, <4>4, <4>5
    <3> QED BY <3>6, <3>7
  <2>3. x = w2 \/ \E k \in 0 .. Len(w2) - 1 : x = Append(SubSeq(w2, 1, k), "*")
    BY DEF Written
  <2> QED BY <2>1, <2>2, <2>3
<1> QED BY <1>11, <1>12

\* Compare of a part of a source.
LEMMA ComparePart ==
  ASSUME NEW s \in Seq(Chars \ {"nul"}), NEW w \in Words({}),
         NEW a \in 1 .. Len(s) + 1, NEW b \in 0 .. Len(s), a <= b + 1, StarsLast(SubSeq(s, a, b))
  PROVE  Compare(SubSeq(s, a, b), w) <=> \E x \in Written(w) : Span(x, s, a, b)
<1>1. a \in Int /\ b \in Int /\ \A i \in a .. b : s[i] \in Chars \ {"nul"}
  OBVIOUS
<1>2. SubSeq(s, a, b) \in Seq(Chars \ {"nul"})
  BY <1>1, SubSeqProperties
<1>3. Compare(SubSeq(s, a, b), w) <=> \E x \in Written(w) : SameText(x, SubSeq(s, a, b))
  BY <1>2, CompareWritten
<1>4. \A x \in Written(w) : SameText(x, SubSeq(s, a, b)) <=> Span(x, s, a, b)
  <2> SUFFICES ASSUME NEW x \in Written(w) PROVE SameText(x, SubSeq(s, a, b)) <=> Span(x, s, a, b)
    OBVIOUS
  <2>1. w \in Seq(Chars)
    <3>1. w \in Seq(Chars \ {"*", "nul"})
      BY DEF Words, Chars
    <3> QED BY <3>1, SeqMonotonic
  <2>2. x \in Seq(Chars \cup {"*"})
    BY <2>1, WrittenType
  <2> QED BY <2>2, SameSpan
<1> QED BY <1>3, <1>4, Zenon

\* What a source leaves out fits every word.
LEMMA AnyFits == ASSUME NEW w \in Words({}) PROVE Compare(AnyWord, w)
<1> DEFINE x == Append(SubSeq(w, 1, 0), "*")
<1>1. w \in Seq(Chars \ {"*", "nul"}) /\ w # <<>>
  BY DEF Words, Chars
<1>2. 0 \in 0 .. Len(w) - 1
  BY <1>1
<1>3. Len(x) = 1 /\ x[1] = "*" /\ x \in Seq((Chars \ {"*", "nul"}) \cup {"*"})
  BY <1>1, <1>2, StarWord
<1>4. x \in Written(w)
  BY <1>2 DEF Written
<1>5. "*" \in Chars \ {"nul"}
  BY SharpOnes DEF Sharp
<1>6. AnyWord \in Seq(Chars \ {"nul"}) /\ StarsLast(AnyWord) /\ Len(AnyWord) = 1 /\ AnyWord[1] = "*"
  BY <1>5 DEF AnyWord, StarsLast
<1> HIDE DEF x
<1>7. SameText(x, AnyWord)
  <2>1. DOMAIN x = {1}
    BY <1>3
  <2> QED BY <1>3, <1>6, <2>1 DEF SameText, Same
<1> QED BY <1>4, <1>6, <1>7, CompareWritten

Senders == [vendor : Words({"-"}), module : Words({"."}), instance : Words({":"}), device : Words({})]

\* What Set makes of a source covers a sender, part by part, if the source is a
\* way to write it.
LEMMA CoversParts ==
  ASSUME NEW s \in Seq(Chars \ {"nul"}), \A part \in DOMAIN Set(s) : StarsLast(Set(s)[part]),
         NEW m \in Senders
  PROVE  Covers(s, m) <=> \A part \in DOMAIN m : Compare(Set(s)[part], m[part])
<1> DEFINE n == Len(s)
           minus == Find(s, "-", 1)
           point == IF minus = 0 THEN 0 ELSE Find(s, ".", minus + 1)
           colon == IF point = 0 THEN 0 ELSE Find(s, ":", point + 1)
           D == Written(m.device)
           I == With(Written(m.instance), ":", D)
           M == With(Written(m.module), ".", I)
           V == With(Written(m.vendor), "-", M)
           f == Set(s)
<1>1. /\ n \in Nat /\ s \in Seq(Chars)
      /\ m.vendor \in Words({"-"}) /\ m.module \in Words({"."}) /\ m.instance \in Words({":"}) /\ m.device \in Words({})
      /\ DOMAIN m = {"vendor", "module", "instance", "device"}
  <2>1. s \in Seq(Chars)
    BY SeqMonotonic
  <2> QED BY <2>1 DEF Senders
<1>2. m.vendor \in Words({}) /\ m.module \in Words({}) /\ m.instance \in Words({})
  <2>1. ASSUME NEW c, NEW w \in Words({c}) PROVE w \in Words({})
    <3>1. w \in Seq(Chars \ ({c} \cup {"*", "nul"})) /\ w # <<>>
      BY <2>1 DEF Words, Chars
    <3>2. w \in Seq(Chars \ ({} \cup {"*", "nul"}))
      BY <3>1, SeqMonotonic
    <3> QED BY <3>1, <3>2 DEF Words, Chars
  <2> QED BY <1>1, <2>1
<1>3. /\ Sharp("-") /\ Sharp(".") /\ Sharp(":")
      /\ Written(m.vendor) \in SUBSET Seq(Chars \ {"-"})
      /\ Written(m.module) \in SUBSET Seq(Chars \ {"."})
      /\ Written(m.instance) \in SUBSET Seq(Chars \ {":"})
      /\ D \in SUBSET Seq(Chars)
  <2>1. "*" \in Chars
    BY SharpOnes DEF Sharp
  <2>2. ASSUME NEW c, c # "*", NEW w \in Words({c}) PROVE Written(w) \in SUBSET Seq(Chars \ {c})
    <3>1. w \in Seq(Chars \ ({c} \cup {"*", "nul"}))
      BY <2>2 DEF Words, Chars
    <3>2. w \in Seq(Chars \ {c}) /\ (Chars \ {c}) \cup {"*"} = Chars \ {c}
      BY <2>1, <2>2, <3>1, SeqMonotonic
    <3> QED BY <3>2, WrittenType
  <2>3. D \in SUBSET Seq(Chars)
    <3>1. m.device \in Seq(Chars \ ({} \cup {"*", "nul"}))
      BY <1>1 DEF Words, Chars
    <3>2. m.device \in Seq(Chars) /\ Chars \cup {"*"} = Chars
      BY <2>1, <3>1, SeqMonotonic
    <3> QED BY <3>2, WrittenType
  <2>4. "-" # "*" /\ "." # "*" /\ ":" # "*"
    OBVIOUS
  <2> QED BY <1>1, <2>2, <2>3, <2>4, SharpOnes
<1>4. ASSUME NEW c, Sharp(c), NEW X \in SUBSET Seq(Chars \ {c}), NEW Y \in SUBSET Seq(Chars)
      PROVE  With(X, c, Y) \in SUBSET Seq(Chars)
  <2>1. \A x \in X, y \in Y : Join(x, c, y) \in Seq(Chars)
    <3> SUFFICES ASSUME NEW x \in X, NEW y \in Y PROVE Join(x, c, y) \in Seq(Chars)
      OBVIOUS
    <3>1. x \in Seq(Chars) /\ c \in Chars
      BY <1>4, SeqMonotonic DEF Sharp
    <3> QED BY <3>1, Joined
  <2>2. \A x \in X : x \in Seq(Chars)
    BY SeqMonotonic
  <2> QED BY <2>1, <2>2, InWith
<1>5. I \in SUBSET Seq(Chars) /\ M \in SUBSET Seq(Chars) /\ V \in SUBSET Seq(Chars)
  <2>1. I \in SUBSET Seq(Chars)
    BY <1>3, <1>4
  <2>2. M \in SUBSET Seq(Chars)
    <3> HIDE DEF I
    <3> QED BY <1>3, <1>4, <2>1
  <2> HIDE DEF M
  <2> QED BY <1>3, <1>4, <2>1, <2>2
<1>6. Covers(s, m) <=> s = <<>> \/ \E x \in V : Span(x, s, 1, n)
  <2>1. Covers(s, m) <=> SameText(<<>>, s) \/ \E x \in V : SameText(x, s)
    BY Zenon DEF Covers, SourcesOf
  <2>2. SameText(<<>>, s) <=> s = <<>>
    BY <1>1 DEF SameText
  <2>3. SubSeq(s, 1, n) = s
    BY <1>1, SubSeqFull
  <2> HIDE DEF V
  <2>4. \A x \in V : SameText(x, s) <=> Span(x, s, 1, n)
    <3> SUFFICES ASSUME NEW x \in V PROVE SameText(x, s) <=> Span(x, s, 1, n)
      OBVIOUS
    <3>1. x \in Seq(Chars) /\ 1 \in 1 .. Len(s) + 1 /\ n \in 0 .. Len(s) /\ 1 <= n + 1
      BY <1>1, <1>5
    <3>2. SameText(x, SubSeq(s, 1, n)) <=> Span(x, s, 1, n)
      BY <1>1, <3>1, SameSpan
    <3> QED BY <2>3, <3>2
  <2> QED BY <2>1, <2>2, <2>4, Zenon
<1>7. (\A part \in DOMAIN m : Compare(f[part], m[part])) <=>
        /\ Compare(f.vendor, m.vendor) /\ Compare(f.module, m.module)
        /\ Compare(f.instance, m.instance) /\ Compare(f.device, m.device)
  BY <1>1
<1>8. StarsLast(f.vendor) /\ StarsLast(f.module) /\ StarsLast(f.instance) /\ StarsLast(f.device)
  <2>1. DOMAIN f = {"vendor", "module", "instance", "device"}
    BY DEF Set
  <2> QED BY <2>1
\* Where the separators are.
<1>9. /\ minus # 0 => minus \in 1 .. n
      /\ minus # 0 /\ point # 0 => point \in minus + 1 .. n
      /\ point # 0 /\ colon # 0 => colon \in point + 1 .. n
  <2>1. minus # 0 => minus \in 1 .. n
    <3>1. 0 \in Nat /\ 0 + 1 = 1
      OBVIOUS
    <3> QED BY <1>1, <3>1, FindProperties
  <2>2. minus # 0 /\ point # 0 => point \in minus + 1 .. n
    <3> SUFFICES ASSUME minus # 0, point # 0 PROVE point \in minus + 1 .. n
      OBVIOUS
    <3>1. minus \in Nat /\ point = Find(s, ".", minus + 1)
      BY <1>1, <2>1
    <3> HIDE DEF minus, point
    <3> QED BY <1>1, <3>1, FindProperties
  <2>3. point # 0 /\ colon # 0 => colon \in point + 1 .. n
    <3> SUFFICES ASSUME point # 0, colon # 0 PROVE colon \in point + 1 .. n
      OBVIOUS
    <3>1. minus # 0 /\ colon = Find(s, ":", point + 1)
      OBVIOUS
    <3> HIDE DEF minus, point, colon
    <3>2. point \in Nat
      BY <1>1, <2>1, <2>2, <3>1
    <3> QED BY <1>1, <3>1, <3>2, FindProperties
  <2> QED BY <2>1, <2>2, <2>3
\* Where the source is cut.
<1>10. (\E x \in V : Span(x, s, 1, n)) <=>
         IF minus = 0
         THEN \E x \in Written(m.vendor) : Span(x, s, 1, n)
         ELSE /\ \E x \in Written(m.vendor) : Span(x, s, 1, minus - 1)
              /\ \E y \in M : Span(y, s, minus + 1, n)
  <2> HIDE DEF M, minus
  <2>1. 0 \in 0 .. Len(s) /\ 0 + 1 = 1 /\ minus = Find(s, "-", 0 + 1)
    BY <1>1 DEF minus
  <2>2. (\E x \in V : Span(x, s, 0 + 1, n)) <=>
          IF minus = 0
          THEN \E x \in Written(m.vendor) : Span(x, s, 0 + 1, n)
          ELSE /\ \E x \in Written(m.vendor) : Span(x, s, 0 + 1, minus - 1)
               /\ \E y \in M : Span(y, s, minus + 1, n)
    BY <1>1, <1>3, <1>5, <2>1, Cutting
  <2> QED BY <2>1, <2>2
<1>11. minus # 0 =>
         ((\E x \in M : Span(x, s, minus + 1, n)) <=>
            IF point = 0
            THEN \E x \in Written(m.module) : Span(x, s, minus + 1, n)
            ELSE /\ \E x \in Written(m.module) : Span(x, s, minus + 1, point - 1)
                 /\ \E y \in I : Span(y, s, point + 1, n))
  <2> HIDE DEF I, minus
  <2> SUFFICES ASSUME minus # 0
               PROVE  (\E x \in M : Span(x, s, minus + 1, n)) <=>
                        IF point = 0
                        THEN \E x \in Written(m.module) : Span(x, s, minus + 1, n)
                        ELSE /\ \E x \in Written(m.module) : Span(x, s, minus + 1, point - 1)
                             /\ \E y \in I : Span(y, s, point + 1, n)
    OBVIOUS
  <2>1. minus \in 0 .. Len(s) /\ point = Find(s, ".", minus + 1)
    BY <1>1, <1>9
  <2> QED BY <1>1, <1>3, <1>5, <2>1, Cutting
<1>12. point # 0 =>
         ((\E x \in I : Span(x, s, point + 1, n)) <=>
            IF colon = 0
            THEN \E x \in Written(m.instance) : Span(x, s, point + 1, n)
            ELSE /\ \E x \in Written(m.instance) : Span(x, s, point + 1, colon - 1)
                 /\ \E y \in D : Span(y, s, colon + 1, n))
  <2> HIDE DEF D
  <2> SUFFICES ASSUME point # 0
               PROVE  (\E x \in I : Span(x, s, point + 1, n)) <=>
                        IF colon = 0
                        THEN \E x \in Written(m.instance) : Span(x, s, point + 1, n)
                        ELSE /\ \E x \in Written(m.instance) : Span(x, s, point + 1, colon - 1)
                             /\ \E y \in D : Span(y, s, colon + 1, n)
    OBVIOUS
  <2>1. minus # 0
    OBVIOUS
  <2> HIDE DEF minus, point
  <2>2. point \in 0 .. Len(s) /\ colon = Find(s, ":", point + 1)
    BY <1>1, <1>9, <2>1
  <2> QED BY <1>1, <1>3, <2>2, Cutting
\* What Set makes of it.
<1>13. /\ s # <<>> => f.vendor = SubSeq(s, 1, IF minus = 0 THEN n ELSE minus - 1)
       /\ minus # 0 => f.module = SubSeq(s, minus + 1, IF point = 0 THEN n ELSE point - 1)
       /\ point # 0 => f.instance = SubSeq(s, point + 1, IF colon = 0 THEN n ELSE colon - 1)
       /\ colon # 0 => f.device = SubSeq(s, colon + 1, n)
       /\ s = <<>> => f.vendor = AnyWord
       /\ minus = 0 => f.module = AnyWord
       /\ point = 0 => f.instance = AnyWord
       /\ colon = 0 => f.device = AnyWord
  <2> DEFINE Part(before, after) ==
               SubSeq(s, before + 1, IF after = 0 THEN Len(s) ELSE after - 1)
  <2>1. f = [vendor   |-> IF s = <<>> THEN AnyWord ELSE Part(0, minus),
             module   |-> IF minus = 0 THEN AnyWord ELSE Part(minus, point),
             instance |-> IF point = 0 THEN AnyWord ELSE Part(point, colon),
             device   |-> IF colon = 0 THEN AnyWord ELSE Part(colon, 0)]
    BY Zenon DEF Set
  <2>2. Part(0, minus) = SubSeq(s, 1, IF minus = 0 THEN n ELSE minus - 1)
    OBVIOUS
  <2>3. Part(colon, 0) = SubSeq(s, colon + 1, n)
    OBVIOUS
  <2>4. /\ Part(minus, point) = SubSeq(s, minus + 1, IF point = 0 THEN n ELSE point - 1)
        /\ Part(point, colon) = SubSeq(s, point + 1, IF colon = 0 THEN n ELSE colon - 1)
    BY Zenon
  <2> HIDE DEF f, minus, point, colon, Part
  <2> QED BY <2>1, <2>2, <2>3, <2>4
<1>14. s = <<>> => minus = 0
  BY DEF Find
<1>15. (minus = 0 => point = 0) /\ (point = 0 => colon = 0)
  OBVIOUS
<1> HIDE DEF n, minus, point, colon, D, I, M, V, f
<1>16. n = Len(s)
  BY DEF n
\* Each part that is there is a span of the source.
<1>17. ASSUME NEW w \in Words({}), NEW a \in 1 .. n + 1, NEW b \in 0 .. n, a <= b + 1, StarsLast(SubSeq(s, a, b))
       PROVE  Compare(SubSeq(s, a, b), w) <=> \E x \in Written(w) : Span(x, s, a, b)
  BY <1>16, <1>17, ComparePart
<1>18. s # <<>> =>
         (Compare(f.vendor, m.vendor) <=>
            \E x \in Written(m.vendor) : Span(x, s, 1, IF minus = 0 THEN n ELSE minus - 1))
  <2> DEFINE b == IF minus = 0 THEN n ELSE minus - 1
  <2>1. b \in 0 .. n /\ 1 \in 1 .. n + 1 /\ 1 <= b + 1
    BY <1>1, <1>9
  <2> HIDE DEF b
  <2>2. s # <<>> => f.vendor = SubSeq(s, 1, b)
    BY <1>13 DEF b
  <2>3. s # <<>> => (Compare(f.vendor, m.vendor) <=> \E x \in Written(m.vendor) : Span(x, s, 1, b))
    BY <1>2, <1>8, <1>17, <2>1, <2>2
  <2> QED BY <2>3 DEF b
<1>19. minus # 0 =>
         (Compare(f.module, m.module) <=>
            \E x \in Written(m.module) : Span(x, s, minus + 1, IF point = 0 THEN n ELSE point - 1))
  <2> DEFINE b == IF point = 0 THEN n ELSE point - 1
  <2> SUFFICES ASSUME minus # 0
               PROVE  Compare(f.module, m.module) <=> \E x \in Written(m.module) : Span(x, s, minus + 1, b)
    OBVIOUS
  <2>1. b \in 0 .. n /\ minus + 1 \in 1 .. n + 1 /\ minus + 1 <= b + 1
    BY <1>1, <1>9
  <2>2. f.module = SubSeq(s, minus + 1, b)
    BY <1>13
  <2> HIDE DEF b
  <2> QED BY <1>2, <1>8, <1>17, <2>1, <2>2
<1>20. point # 0 =>
         (Compare(f.instance, m.instance) <=>
            \E x \in Written(m.instance) : Span(x, s, point + 1, IF colon = 0 THEN n ELSE colon - 1))
  <2> DEFINE b == IF colon = 0 THEN n ELSE colon - 1
  <2> SUFFICES ASSUME point # 0
               PROVE  Compare(f.instance, m.instance) <=> \E x \in Written(m.instance) : Span(x, s, point + 1, b)
    OBVIOUS
  <2>1. b \in 0 .. n /\ point + 1 \in 1 .. n + 1 /\ point + 1 <= b + 1
    BY <1>1, <1>9, <1>15
  <2>2. f.instance = SubSeq(s, point + 1, b)
    BY <1>13
  <2> HIDE DEF b
  <2> QED BY <1>2, <1>8, <1>17, <2>1, <2>2
<1>21. colon # 0 =>
         (Compare(f.device, m.device) <=> \E x \in D : Span(x, s, colon + 1, n))
  <2> SUFFICES ASSUME colon # 0
               PROVE  Compare(f.device, m.device) <=> \E x \in Written(m.device) : Span(x, s, colon + 1, n)
    BY DEF D
  <2>1. n \in 0 .. n /\ colon + 1 \in 1 .. n + 1 /\ colon + 1 <= n + 1
    BY <1>1, <1>9, <1>15
  <2>2. f.device = SubSeq(s, colon + 1, n)
    BY <1>13
  <2> QED BY <1>1, <1>8, <1>17, <2>1, <2>2
<1>22. /\ s = <<>> => Compare(f.vendor, m.vendor)
       /\ minus = 0 => Compare(f.module, m.module)
       /\ point = 0 => Compare(f.instance, m.instance)
       /\ colon = 0 => Compare(f.device, m.device)
  BY <1>1, <1>2, <1>13, AnyFits
<1> DEFINE Fits == /\ Compare(f.vendor, m.vendor) /\ Compare(f.module, m.module)
                   /\ Compare(f.instance, m.instance) /\ Compare(f.device, m.device)
<1>23. Covers(s, m) <=> Fits
  <2>1. CASE s = <<>>
    BY <1>6, <1>14, <1>15, <1>22, <2>1
  <2>2. CASE s # <<>> /\ minus = 0
    BY <1>6, <1>10, <1>15, <1>18, <1>22, <2>2
  <2>3. CASE s # <<>> /\ minus # 0 /\ point = 0
    BY <1>6, <1>10, <1>11, <1>15, <1>18, <1>19, <1>22, <2>3
  <2>4. CASE s # <<>> /\ minus # 0 /\ point # 0 /\ colon = 0
    BY <1>6, <1>10, <1>11, <1>12, <1>18, <1>19, <1>20, <1>22, <2>4
  <2>5. CASE s # <<>> /\ minus # 0 /\ point # 0 /\ colon # 0
    BY <1>6, <1>10, <1>11, <1>12, <1>18, <1>19, <1>20, <1>21, <2>5
  <2> QED BY <1>14, <1>15, <2>1, <2>2, <2>3, <2>4, <2>5
<1> QED BY <1>7, <1>23 DEF f

LEMMA CoveredParts ==
  ASSUME NEW s \in SampleSources \cup Texts, NEW m \in SampleMessages
  PROVE  m \in Covered[s] <=> \A part \in DOMAIN m : Compare(Set(s)[part], m[part])
<1>1. m \in Senders
  BY FilterMatchAssumption DEF Senders
<1>2. s \in Seq(Chars \ {"nul"}) /\ \A part \in DOMAIN Set(s) : StarsLast(Set(s)[part])
  BY FilterMatchAssumption DEF Chars
<1>3. Covers(s, m) <=> \A part \in DOMAIN m : Compare(Set(s)[part], m[part])
  BY <1>1, <1>2, CoversParts
<1>4. Covered[s] = {mm \in SampleMessages : Covers(s, mm)}
  BY DEF Covered
<1> QED BY <1>3, <1>4

LEMMA SamplesAreFound == SamplesFound
<1> SUFFICES ASSUME NEW s \in SampleSources, NEW m \in SampleMessages
             PROVE  m \in Covered[s] <=> FilterFind(<<Set(s)>>, m) = 1
  <2>1. \A s \in SampleSources : \A m \in Covered[s] : m \in SampleMessages
    BY DEF Covered
  <2> QED BY <2>1 DEF SamplesFound
<1> DEFINE fits == \A part \in DOMAIN m : Compare(Set(s)[part], m[part])
           set == <<Set(s)>>
           fit == {n \in DOMAIN set : \A part \in DOMAIN m : Compare(set[n][part], m[part])}
<1>1. DOMAIN set = {1} /\ set[1] = Set(s)
  OBVIOUS
<1>2. fit = IF fits THEN {1} ELSE {}
  BY <1>1
<1>3. Min({1}) = 1
  <2>1. Min({1}) \in {1}
    BY LeastNatural
  <2> QED BY <2>1
<1>4. FilterFind(set, m) = IF fit = {} THEN 0 ELSE Min(fit)
  BY Zenon DEF FilterFind
<1> HIDE DEF fit, set
<1>5. fits <=> FilterFind(set, m) = 1
  <2> HIDE DEF fits
  <2> QED BY <1>2, <1>3, <1>4
<1> QED BY <1>5, CoveredParts DEF set

-----------------------------------------------------------------------------
(* The list, the map and the file *)

USE FiltersAssumption

Line == [section : Names, key : SectionKeys, value : Texts]
Rule == [source : Texts, valuename : Texts \cup {Currrent}]
KeyValues == [Keys -> Texts]

Values == UNION {[ks -> Texts] : ks \in SUBSET Keys}

\* The entries of a list, and the names of entries.
Held(l) == {l[i] : i \in DOMAIN l}
NamesOf(E) == {e.name : e \in E}

Distinct(l) == \A i, j \in DOMAIN l : l[i].name = l[j].name => i = j

\* The entries E and the map f describe the same filters, but for the names `out'.
Describe(E, f, out) ==
  /\ DOMAIN f \ out = NamesOf(E) \ out
  /\ \A e \in E : e.name \notin out => e.values \in KeyValues /\ f[e.name] = Filter(e.values)

Agree == Distinct(list) /\ Describe(Held(list), filters, unfiltered)

InFile(n, k, v) == n \in DOMAIN ini /\ k \in DOMAIN ini[n] /\ ini[n][k] = v

LineOf(n, k, v) == [section |-> n, key |-> k, value |-> v]

Saving ==
  pc = "write" =>
    /\ DOMAIN ini \subseteq NamesOf(Held(list)) \cup {XPL}
    /\ \A l \in unsaved : l.key \in Keys =>
         \E e \in Held(list) : l.key \in DOMAIN e.values /\ l = LineOf(e.name, l.key, e.values[l.key])
    /\ \A l \in unsaved : l.key \notin Keys => l.section = XPL
    /\ \A e \in Held(list) : \A k \in DOMAIN e.values :
         \/ InFile(e.name, k, e.values[k])
         \/ LineOf(e.name, k, e.values[k]) \in unsaved

\* What a start would read from the file are the filters ordered.
Kept ==
  ~disturbed /\ pc \in {"idle", "off"} =>
    /\ Loaded = DOMAIN ordered
    /\ \A n \in DOMAIN ordered : ordered[n] = Filter(Complete(ini[n]))

Undisturbed ==
  ~disturbed => /\ XPL \notin DOMAIN ordered /\ ordered = [n \in DOMAIN ordered |-> ordered[n]]
                /\ unfiltered = {}

IInv ==
  /\ TypeOK /\ IsFiniteSet(DOMAIN ini)
  /\ Agree /\ Saving
  /\ Undisturbed /\ FiltersAsOrdered /\ Kept

-----------------------------------------------------------------------------
(* The operators *)

LEMMA KeyTypes == "source" \in Keys /\ "valuename" \in Keys /\ Keys \subseteq SectionKeys
BY DEF Keys, SectionKeys

LEMMA FilterType == ASSUME NEW v \in KeyValues PROVE Filter(v) \in Rule
<1>1. v["source"] \in Texts /\ v["valuename"] \in Texts
  BY KeyTypes DEF KeyValues
<1> QED BY <1>1 DEF Filter, Rule

\* What is completed has both keys; what has both keys is complete.
LEMMA CompleteType ==
  ASSUME NEW v, NEW ks \in SUBSET SectionKeys, v \in [ks -> Texts]
  PROVE  Complete(v) \in KeyValues
<1>1. \A k \in Keys : (IF k \in DOMAIN v THEN v[k] ELSE Empty) \in Texts
  OBVIOUS
<1> QED BY <1>1 DEF Complete, KeyValues

LEMMA CompleteIsSame == ASSUME NEW v \in KeyValues PROVE Complete(v) = v
BY DEF Complete, KeyValues

LEMMA PutProperties ==
  ASSUME NEW f, NEW x, NEW y
  PROVE  /\ DOMAIN Put(f, x, y) = DOMAIN f \cup {x}
         /\ Put(f, x, y)[x] = y
         /\ \A z \in DOMAIN f : z # x => Put(f, x, y)[z] = f[z]
         /\ Put(f, x, y) = [z \in DOMAIN Put(f, x, y) |-> Put(f, x, y)[z]]
BY DEF Put

LEMMA DropProperties ==
  ASSUME NEW f, NEW x
  PROVE  /\ DOMAIN Drop(f, x) = DOMAIN f \ {x}
         /\ \A z \in DOMAIN f : z # x => Drop(f, x)[z] = f[z]
         /\ Drop(f, x) = [z \in DOMAIN Drop(f, x) |-> Drop(f, x)[z]]
BY DEF Drop

LEMMA NothingIsEmpty == DOMAIN Nothing = {} /\ Nothing = [n \in DOMAIN Nothing |-> Nothing[n]]
BY DEF Nothing

\* An entry of the list has a name, and values for some of the keys.
LEMMA Entries ==
  ASSUME NEW l \in Seq(Entry)
  PROVE  /\ DOMAIN l = 1 .. Len(l) /\ Len(l) \in Nat
         /\ \A e \in Held(l) : /\ e \in Entry /\ e.name \in Names /\ e.values \in Values
                              /\ DOMAIN e.values \subseteq Keys
                              /\ \A k \in DOMAIN e.values : e.values[k] \in Texts
<1>1. DOMAIN l = 1 .. Len(l) /\ Len(l) \in Nat
  OBVIOUS
<1>2. \A e \in Held(l) : e \in Entry
  BY DEF Held
<1>3. \A e \in Entry : e.name \in Names /\ e.values \in Values
  BY DEF Entry, Values
<1>4. ASSUME NEW v \in Values PROVE DOMAIN v \subseteq Keys /\ \A k \in DOMAIN v : v[k] \in Texts
  <2>1. PICK ks \in SUBSET Keys : v \in [ks -> Texts]
    BY DEF Values
  <2> QED BY <2>1
<1> QED BY <1>1, <1>2, <1>3, <1>4

LEMMA CompleteEntry == ASSUME NEW v \in Values PROVE Complete(v) \in KeyValues
<1>1. PICK ks \in SUBSET Keys : v \in [ks -> Texts]
  BY DEF Values
<1>2. ks \in SUBSET SectionKeys
  BY KeyTypes
<1> QED BY <1>1, <1>2, CompleteType

LEMMA EntryType ==
  ASSUME NEW n \in Names, NEW v, v \in KeyValues \/ v \in Values
  PROVE  [name |-> n, values |-> v] \in Entry
<1>1. v \in Values
  <2>1. Keys \in SUBSET Keys
    OBVIOUS
  <2> QED BY <2>1 DEF KeyValues, Values
<1> QED BY <1>1 DEF Entry, Values

LEMMA OneOfAName ==
  ASSUME NEW l, Distinct(l), NEW d \in Held(l), NEW e \in Held(l), d.name = e.name
  PROVE  d = e
<1>1. PICK i \in DOMAIN l : d = l[i]
  BY DEF Held
<1>2. PICK j \in DOMAIN l : e = l[j]
  BY DEF Held
<1> QED BY <1>1, <1>2 DEF Distinct

-----------------------------------------------------------------------------
(* The list and the map *)

Others(E, n) == {e \in E : e.name # n}

\* A list with an entry added holds it, and the others it held.
LEMMA AddedHeld ==
  ASSUME NEW l \in Seq(Entry), Distinct(l), NEW e \in Entry
  PROVE  /\ Added(l, e) \in Seq(Entry) /\ Distinct(Added(l, e))
         /\ Held(Added(l, e)) = Others(Held(l), e.name) \cup {e}
<1> DEFINE m == Added(l, e)
<1>1. DOMAIN l = 1 .. Len(l) /\ Len(l) \in Nat /\ \A i \in DOMAIN l : l[i] \in Entry
  OBVIOUS
<1>2. CASE ~ \E i \in DOMAIN l : l[i].name = e.name
  <2>1. m = Append(l, e)
    BY <1>2 DEF Added
  <2> HIDE DEF m
  <2>2. /\ m \in Seq(Entry) /\ DOMAIN m = 1 .. Len(l) + 1
        /\ \A i \in DOMAIN l : m[i] = l[i]
        /\ m[Len(l) + 1] = e
    BY <1>1, <2>1
  <2>3. /\ \A i \in DOMAIN m : (i \in DOMAIN l /\ m[i] = l[i]) \/ (i = Len(l) + 1 /\ m[i] = e)
        /\ Len(l) + 1 \in DOMAIN m /\ DOMAIN l \subseteq DOMAIN m
    BY <1>1, <2>2
  <2>4. Distinct(m)
    BY <1>2, <2>3 DEF Distinct
  <2>5. Held(m) = Others(Held(l), e.name) \cup {e}
    <3>1. \A i \in DOMAIN m : m[i] \in Others(Held(l), e.name) \cup {e}
      BY <1>2, <2>3 DEF Held, Others
    <3>2. \A i \in DOMAIN l : l[i] \in Held(m)
      BY <2>2, <2>3 DEF Held
    <3>3. e \in Held(m)
      BY <2>2, <2>3 DEF Held
    <3>4. Others(Held(l), e.name) \subseteq Held(m)
      BY <3>2 DEF Held, Others
    <3> QED BY <3>1, <3>3, <3>4 DEF Held
  <2> QED BY <2>2, <2>4, <2>5 DEF m
<1>3. CASE \E i \in DOMAIN l : l[i].name = e.name
  <2>1. m = [i \in DOMAIN l |-> IF l[i].name = e.name THEN e ELSE l[i]]
    BY <1>3 DEF Added
  <2> HIDE DEF m
  <2>2. DOMAIN m = DOMAIN l /\ \A i \in DOMAIN m : m[i] = IF l[i].name = e.name THEN e ELSE l[i]
    BY <2>1
  <2>3. m \in Seq(Entry)
    <3>1. m \in [1 .. Len(l) -> Entry]
      BY <1>1, <2>1
    <3> QED BY <1>1, <3>1
  <2>4. \A i \in DOMAIN m : m[i].name = l[i].name
    BY <2>2
  <2>5. Distinct(m)
    BY <2>2, <2>4 DEF Distinct
  <2>6. Held(m) = Others(Held(l), e.name) \cup {e}
    <3>1. \A i \in DOMAIN m : m[i] \in Others(Held(l), e.name) \cup {e}
      BY <2>2 DEF Held, Others
    <3>2. \A i \in DOMAIN l : l[i].name # e.name => l[i] \in Held(m)
      BY <2>2 DEF Held
    <3>3. e \in Held(m)
      BY <1>3, <2>2 DEF Held
    <3>4. Others(Held(l), e.name) \subseteq Held(m)
      BY <3>2 DEF Held, Others
    <3> QED BY <3>1, <3>3, <3>4 DEF Held
  <2> QED BY <2>3, <2>5, <2>6 DEF m
<1> QED BY <1>2, <1>3

\* A list with an entry removed holds the others.
LEMMA RemovedHeld ==
  ASSUME NEW l \in Seq(Entry), Distinct(l), NEW p \in DOMAIN l
  PROVE  /\ RemoveAt(l, p) \in Seq(Entry) /\ Distinct(RemoveAt(l, p))
         /\ Held(RemoveAt(l, p)) = Others(Held(l), l[p].name)
<1> DEFINE a == SubSeq(l, 1, p - 1)
           b == SubSeq(l, p + 1, Len(l))
           m == RemoveAt(l, p)
           Old(i) == IF i < p THEN i ELSE i + 1
<1>1. DOMAIN l = 1 .. Len(l) /\ Len(l) \in Nat /\ p \in 1 .. Len(l) /\ \A i \in DOMAIN l : l[i] \in Entry
  OBVIOUS
<1>2. /\ a \in Seq(Entry) /\ Len(a) = p - 1 /\ \A i \in 1 .. p - 1 : a[i] = l[i]
  BY <1>1
<1>3. /\ b \in Seq(Entry) /\ Len(b) = Len(l) - p /\ \A i \in 1 .. Len(l) - p : b[i] = l[p + i]
  BY <1>1
<1>4. m = a \o b
  BY DEF RemoveAt
<1> HIDE DEF a, b, m
<1>5. m \in Seq(Entry) /\ Len(m) = Len(l) - 1
  <2>1. m \in Seq(Entry) /\ Len(m) = Len(a) + Len(b)
    BY <1>2, <1>3, <1>4, ConcatProperties
  <2>2. (p - 1) + (Len(l) - p) = Len(l) - 1
    BY <1>1
  <2> QED BY <1>2, <1>3, <2>1, <2>2
<1>6. \A i \in DOMAIN m : m[i] = l[Old(i)] /\ Old(i) \in DOMAIN l /\ Old(i) # p
  <2> SUFFICES ASSUME NEW i \in DOMAIN m PROVE m[i] = l[Old(i)] /\ Old(i) \in DOMAIN l /\ Old(i) # p
    OBVIOUS
  <2>1. i \in 1 .. Len(l) - 1
    BY <1>5
  <2>2. CASE i < p
    <3>1. m[i] = a[i]
      BY <1>1, <1>2, <1>3, <1>4, <2>1, <2>2
    <3> QED BY <1>1, <1>2, <2>1, <2>2, <3>1
  <2>3. CASE ~(i < p)
    <3>1. m[i] = b[i - (p - 1)] /\ i - (p - 1) \in 1 .. Len(l) - p
      BY <1>1, <1>2, <1>3, <1>4, <2>1, <2>3
    <3>2. p + (i - (p - 1)) = i + 1
      BY <1>1, <2>1
    <3> QED BY <1>1, <1>3, <2>1, <2>3, <3>1, <3>2
  <2> QED BY <2>2, <2>3
<1>7. \A j \in DOMAIN l : j # p => \E i \in DOMAIN m : Old(i) = j
  <2> SUFFICES ASSUME NEW j \in DOMAIN l, j # p PROVE \E i \in DOMAIN m : Old(i) = j
    OBVIOUS
  <2>0. DOMAIN m = 1 .. Len(l) - 1
    BY <1>5
  <2>1. CASE j < p
    <3>1. j \in DOMAIN m /\ Old(j) = j
      BY <1>1, <2>0, <2>1
    <3> QED BY <3>1
  <2>2. CASE ~(j < p)
    <3>1. j - 1 \in DOMAIN m /\ Old(j - 1) = j
      BY <1>1, <2>0, <2>2
    <3> QED BY <3>1
  <2> QED BY <2>1, <2>2
<1>8. \A i, j \in DOMAIN m : Old(i) = Old(j) => i = j
  BY <1>1, <1>5
<1> HIDE DEF Old
<1>9. \A j \in DOMAIN l : j # p => l[j].name # l[p].name
  BY DEF Distinct
<1>10. Held(m) = Others(Held(l), l[p].name)
  <2>1. \A i \in DOMAIN m : m[i] \in Others(Held(l), l[p].name)
    BY <1>6, <1>9 DEF Held, Others
  <2>2. \A j \in DOMAIN l : l[j].name # l[p].name => l[j] \in Held(m)
    BY <1>6, <1>7 DEF Held
  <2>3. Others(Held(l), l[p].name) \subseteq Held(m)
    BY <2>2 DEF Held, Others
  <2> QED BY <2>1, <2>3 DEF Held
<1>11. Distinct(m)
  BY <1>6, <1>8 DEF Distinct
<1> QED BY <1>5, <1>10, <1>11 DEF m

\* An entry with both keys, and the same in the map.
LEMMA PutDescribes ==
  ASSUME NEW E, NEW f, NEW out, Describe(E, f, out), NEW n, NEW v \in KeyValues
  PROVE  Describe(Others(E, n) \cup {[name |-> n, values |-> v]}, Put(f, n, Filter(v)), out \ {n})
<1> DEFINE e == [name |-> n, values |-> v]
           D == Others(E, n) \cup {e}
           g == Put(f, n, Filter(v))
<1>1. e.name = n /\ e.values = v
  OBVIOUS
<1>2. /\ DOMAIN g = DOMAIN f \cup {n} /\ g[n] = Filter(v)
      /\ \A z \in DOMAIN f : z # n => g[z] = f[z]
  BY DEF Put
<1> HIDE DEF e, g
<1>3. NamesOf(D) = (NamesOf(E) \ {n}) \cup {n}
  BY <1>1 DEF NamesOf, Others
<1>4. DOMAIN g \ (out \ {n}) = NamesOf(D) \ (out \ {n})
  BY <1>2, <1>3 DEF Describe
<1>5. ASSUME NEW d \in D, d.name \notin out \ {n}
      PROVE  d.values \in KeyValues /\ g[d.name] = Filter(d.values)
  <2>1. CASE d = e
    BY <1>1, <1>2, <2>1
  <2>2. CASE d # e
    <3>1. d \in E /\ d.name # n /\ d.name \notin out
      BY <1>5, <2>2 DEF Others
    <3>2. d.values \in KeyValues /\ f[d.name] = Filter(d.values) /\ d.name \in DOMAIN f
      BY <3>1 DEF Describe, NamesOf
    <3> QED BY <1>2, <3>1, <3>2
  <2> QED BY <2>1, <2>2
<1> QED BY <1>4, <1>5 DEF Describe, e, g

LEMMA DropDescribes ==
  ASSUME NEW E, NEW f, NEW out, Describe(E, f, out), NEW n
  PROVE  Describe(Others(E, n), Drop(f, n), out \ {n})
<1> DEFINE g == Drop(f, n)
<1>1. DOMAIN g = DOMAIN f \ {n} /\ \A z \in DOMAIN f : z # n => g[z] = f[z]
  BY DropProperties
<1> HIDE DEF g
<1>2. NamesOf(Others(E, n)) = NamesOf(E) \ {n}
  BY DEF NamesOf, Others
<1>3. DOMAIN g \ (out \ {n}) = NamesOf(Others(E, n)) \ (out \ {n})
  BY <1>1, <1>2 DEF Describe
<1>4. ASSUME NEW d \in Others(E, n), d.name \notin out \ {n}
      PROVE  d.values \in KeyValues /\ g[d.name] = Filter(d.values)
  <2>1. d \in E /\ d.name # n /\ d.name \notin out
    BY <1>4 DEF Others
  <2>2. d.values \in KeyValues /\ f[d.name] = Filter(d.values) /\ d.name \in DOMAIN f
    BY <2>1 DEF Describe, NamesOf
  <2> QED BY <1>1, <2>1, <2>2
<1> QED BY <1>3, <1>4 DEF Describe, g

\* Whatever is put in the list under a name that is left out.
LEMMA OutDescribes ==
  ASSUME NEW E, NEW f, NEW out, Describe(E, f, out), NEW n, NEW e, e.name = n
  PROVE  Describe(Others(E, n) \cup {e}, f, out \cup {n})
<1>1. NamesOf(Others(E, n) \cup {e}) = NamesOf(E) \cup {n}
  BY DEF NamesOf, Others
<1>2. DOMAIN f \ (out \cup {n}) = NamesOf(Others(E, n) \cup {e}) \ (out \cup {n})
  BY <1>1 DEF Describe
<1>3. \A d \in Others(E, n) \cup {e} :
        d.name \notin out \cup {n} => d.values \in KeyValues /\ f[d.name] = Filter(d.values)
  BY DEF Describe, Others
<1> QED BY <1>2, <1>3 DEF Describe

\* The map of the sections is made of the entries.
LEMMA SectionOf ==
  ASSUME TypeOK, Agree
  PROVE  /\ DOMAIN Sections = NamesOf(Held(list))
         /\ \A e \in Held(list) : Sections[e.name] = e.values
<1>1. DOMAIN Sections = NamesOf(Held(list))
  BY DEF Sections, NamesOf, Held
<1>2. ASSUME NEW e \in Held(list) PROVE Sections[e.name] = e.values
  <2> DEFINE p == CHOOSE j \in DOMAIN list : list[j].name = e.name
  <2>1. \E j \in DOMAIN list : list[j].name = e.name
    BY DEF Held
  <2>2. p \in DOMAIN list /\ list[p].name = e.name
    BY <2>1
  <2>3. list[p] \in Held(list)
    BY <2>2 DEF Held
  <2>4. list[p] = e
    BY <2>2, <2>3, OneOfAName DEF Agree
  <2>5. Sections[e.name] = list[p].values
    BY <1>1 DEF Sections, NamesOf
  <2> QED BY <2>4, <2>5
<1> QED BY <1>1, <1>2

LEMMA AgreeMatches == ASSUME TypeOK, Agree PROVE ListMatchesFilters
<1>1. ASSUME NEW n \in Names \ unfiltered
      PROVE  /\ n \in DOMAIN Sections <=> n \in DOMAIN filters
             /\ n \in DOMAIN filters => filters[n] = Filter(Complete(Sections[n]))
  <2>1. n \in DOMAIN Sections <=> n \in DOMAIN filters
    BY SectionOf DEF Agree, Describe
  <2>2. ASSUME n \in DOMAIN filters PROVE filters[n] = Filter(Complete(Sections[n]))
    <3>1. PICK e \in Held(list) : e.name = n
      BY <2>1, <2>2, SectionOf DEF NamesOf
    <3>2. e.values \in KeyValues /\ filters[n] = Filter(e.values)
      BY <3>1 DEF Agree, Describe
    <3>3. Complete(e.values) = e.values
      BY <3>2, CompleteIsSame
    <3> QED BY <3>1, <3>2, <3>3, SectionOf
  <2> QED BY <2>1, <2>2
<1> QED BY <1>1 DEF ListMatchesFilters, Agree, Distinct

-----------------------------------------------------------------------------
(* The file *)

SectionValues == UNION {[ks -> Texts] : ks \in SUBSET SectionKeys}

LEMMA SectionComplete == ASSUME NEW v \in SectionValues PROVE Complete(v) \in KeyValues
<1>1. PICK ks \in SUBSET SectionKeys : v \in [ks -> Texts]
  BY DEF SectionValues
<1> QED BY <1>1, CompleteType

LEMMA PutSection ==
  ASSUME NEW v \in SectionValues, NEW k \in SectionKeys, NEW x \in Texts
  PROVE  Put(v, k, x) \in SectionValues
<1>1. PICK ks \in SUBSET SectionKeys : v \in [ks -> Texts]
  BY DEF SectionValues
<1>2. ks \cup {k} \in SUBSET SectionKeys
  OBVIOUS
<1>3. Put(v, k, x) \in [ks \cup {k} -> Texts]
  BY <1>1 DEF Put
<1> QED BY <1>2, <1>3 DEF SectionValues

LEMMA NothingSection == Nothing \in SectionValues
<1>1. Nothing \in [{} -> Texts] /\ {} \in SUBSET SectionKeys
  BY DEF Nothing
<1> QED BY <1>1 DEF SectionValues

\* A line more in the file.
LEMMA LineWritten ==
  ASSUME TypeOK, IsFiniteSet(DOMAIN ini), NEW s \in Names, NEW k \in SectionKeys, NEW x \in Texts,
         ini' = WithLine(s, k, x)
  PROVE  /\ DOMAIN ini' = DOMAIN ini \cup {s} /\ IsFiniteSet(DOMAIN ini')
         /\ DOMAIN ini' \subseteq Names /\ \A n \in DOMAIN ini' : ini'[n] \in SectionValues
         /\ InFile(s, k, x)'
         /\ \A n, j, y : InFile(n, j, y) /\ (n # s \/ j # k) => InFile(n, j, y)'
<1> DEFINE old == IF s \in DOMAIN ini THEN ini[s] ELSE Nothing
           new == Put(old, k, x)
<1>1. old \in SectionValues
  BY NothingSection DEF TypeOK, SectionValues
<1>2. new \in SectionValues
  BY <1>1, PutSection
<1>3. /\ DOMAIN new = DOMAIN old \cup {k} /\ new[k] = x
      /\ \A z \in DOMAIN old : z # k => new[z] = old[z]
  BY DEF Put
<1>4. ini' = Put(ini, s, new)
  BY DEF WithLine
<1> HIDE DEF new
<1>5. /\ DOMAIN ini' = DOMAIN ini \cup {s} /\ ini'[s] = new
      /\ \A n \in DOMAIN ini : n # s => ini'[n] = ini[n]
  BY <1>4 DEF Put
<1>6. IsFiniteSet(DOMAIN ini')
  BY <1>5, FS_AddElement
<1>7. DOMAIN ini' \subseteq Names /\ \A n \in DOMAIN ini' : ini'[n] \in SectionValues
  BY <1>2, <1>5 DEF TypeOK, SectionValues
<1>8. InFile(s, k, x)'
  BY <1>3, <1>5 DEF InFile
<1>9. ASSUME NEW n, NEW j, NEW y, InFile(n, j, y), n # s \/ j # k PROVE InFile(n, j, y)'
  BY <1>3, <1>5, <1>9 DEF InFile
<1> QED BY <1>5, <1>6, <1>7, <1>8, <1>9

\* The lines of a save.
LEMMA LinesProperties ==
  ASSUME TypeOK, Agree
  PROVE  /\ Lines \subseteq Line
         /\ \A l \in Lines : l.key \in Keys =>
              \E e \in Held(list) : l.key \in DOMAIN e.values /\ l = LineOf(e.name, l.key, e.values[l.key])
         /\ \A l \in Lines : l.key \notin Keys => l.section = XPL
         /\ \A e \in Held(list) : \A k \in DOMAIN e.values : LineOf(e.name, k, e.values[k]) \in Lines
<1> DEFINE settings == LineOf(XPL, "interval", Empty)
<1>1. \A e \in Held(list) : /\ e.name \in Names /\ DOMAIN e.values \subseteq Keys
                           /\ \A k \in DOMAIN e.values : e.values[k] \in Texts
  BY Entries DEF TypeOK
<1>2. ASSUME NEW l \in Lines
      PROVE  l = settings \/ \E e \in Held(list) : \E k \in DOMAIN e.values : l = LineOf(e.name, k, e.values[k])
  <2> SUFFICES ASSUME l # settings
               PROVE  \E e \in Held(list) : \E k \in DOMAIN e.values : l = LineOf(e.name, k, e.values[k])
    OBVIOUS
  <2>1. PICK n \in DOMAIN Sections : \E k \in DOMAIN Sections[n] : l = LineOf(n, k, Sections[n][k])
    BY DEF Lines, LineOf
  <2>2. PICK e \in Held(list) : n = e.name
    BY SectionOf DEF NamesOf
  <2> QED BY <2>1, <2>2, SectionOf
<1>3. ASSUME NEW e \in Held(list), NEW k \in DOMAIN e.values
      PROVE  LineOf(e.name, k, e.values[k]) \in Lines
  <2>1. e.name \in DOMAIN Sections /\ Sections[e.name] = e.values
    BY SectionOf DEF NamesOf
  <2> QED BY <2>1 DEF Lines, LineOf
<1>4. settings \in Line /\ settings.key = "interval" /\ settings.section = XPL /\ "interval" \notin Keys
  BY DEF LineOf, Line, SectionKeys, Keys
<1>5. ASSUME NEW e \in Held(list), NEW k \in DOMAIN e.values
      PROVE  /\ LineOf(e.name, k, e.values[k]) \in Line
             /\ LineOf(e.name, k, e.values[k]).key = k /\ k \in Keys
  BY <1>1, KeyTypes DEF LineOf, Line
<1> HIDE DEF settings
<1>6. ASSUME NEW l \in Lines
      PROVE  /\ l \in Line
             /\ l.key \in Keys =>
                  \E e \in Held(list) : l.key \in DOMAIN e.values /\ l = LineOf(e.name, l.key, e.values[l.key])
             /\ l.key \notin Keys => l.section = XPL
  <2>1. CASE l = settings
    BY <1>4, <2>1
  <2>2. CASE \E e \in Held(list) : \E k \in DOMAIN e.values : l = LineOf(e.name, k, e.values[k])
    <3>1. PICK e \in Held(list) : \E k \in DOMAIN e.values : l = LineOf(e.name, k, e.values[k])
      BY <2>2
    <3>2. PICK k \in DOMAIN e.values : l = LineOf(e.name, k, e.values[k])
      BY <3>1
    <3>3. l \in Line /\ l.key = k /\ k \in Keys
      BY <1>5, <3>2
    <3> QED BY <3>2, <3>3
  <2> QED BY <1>2, <2>1, <2>2
<1> QED BY <1>3, <1>6

-----------------------------------------------------------------------------
(* The steps *)

LEMMA EmptySame == <<>> \in Seq(Entry) /\ Distinct(<<>>) /\ Describe(Held(<<>>), Nothing, {})
<1> DEFINE none == <<>>
<1>1. none \in Seq(Entry) /\ Held(none) = {} /\ Distinct(none)
  BY DEF Held, Distinct
<1>2. NamesOf({}) = {}
  BY DEF NamesOf
<1>3. Describe({}, Nothing, {})
  BY <1>2, NothingIsEmpty DEF Describe
<1> HIDE DEF none
<1>4. Describe(Held(none), Nothing, {})
  BY <1>1, <1>3
<1> QED BY <1>1, <1>4 DEF none

LEMMA InitInv == ASSUME Init PROVE IInv
<1>1. TypeOK
  BY EmptySame, NothingIsEmpty DEF Init, TypeOK
<1>2. IsFiniteSet(DOMAIN ini)
  BY NothingIsEmpty, FS_EmptySet DEF Init
<1>3. Agree
  BY EmptySame DEF Init, Agree
<1>4. Saving /\ FiltersAsOrdered
  BY DEF Init, Saving, FiltersAsOrdered
<1>5. Undisturbed /\ Kept
  BY NothingIsEmpty DEF Init, Undisturbed, Kept, Loaded
<1> QED BY <1>1, <1>2, <1>3, <1>4, <1>5 DEF IInv

\* The history is kept or ends.
LEMMA WantsKeeps ==
  ASSUME NEW f, NEW trouble \in BOOLEAN, disturbed \in BOOLEAN, DOMAIN f \subseteq Names,
         Wants(f, trouble)
  PROVE  /\ disturbed' \in BOOLEAN /\ DOMAIN ordered' \subseteq Names
         /\ ~disturbed' => ~disturbed /\ ~trouble /\ ordered' = f
<1>1. disturbed' \in BOOLEAN /\ (~disturbed' => ~disturbed /\ ~trouble)
  BY DEF Wants
<1>2. ordered' = IF disturbed' THEN Nothing ELSE f
  BY DEF Wants
<1> QED BY <1>1, <1>2, NothingIsEmpty

\* A change that begins a save.
LEMMA SaveKeeps ==
  ASSUME IInv, Save, list' \in Seq(Entry), Agree', unfiltered' \subseteq Names,
         DOMAIN filters' \subseteq Names, \A n \in DOMAIN filters' : filters'[n] \in Rule,
         disturbed' \in BOOLEAN, DOMAIN ordered' \subseteq Names,
         ~disturbed' => /\ filters' = ordered' /\ XPL \notin DOMAIN ordered'
                        /\ ordered' = [n \in DOMAIN ordered' |-> ordered'[n]]
                        /\ unfiltered' = {}
  PROVE  IInv'
<1>1. pc' = "open" /\ unsaved' = unsaved /\ ini' = ini
  BY DEF Save
<1>2. TypeOK'
  BY <1>1 DEF IInv, TypeOK, Rule
<1>3. IsFiniteSet(DOMAIN ini)'
  BY <1>1 DEF IInv
<1>4. Saving' /\ Kept'
  BY <1>1 DEF Saving, Kept
<1>5. Undisturbed' /\ FiltersAsOrdered'
  BY DEF Undisturbed, FiltersAsOrdered
<1> QED BY <1>2, <1>3, <1>4, <1>5 DEF IInv

\* A filter that gets both its values, in a list with entries described by a map.
LEMMA CompletedAgrees ==
  ASSUME NEW l \in Seq(Entry), Distinct(l), NEW f, NEW out, Describe(Held(l), f, out),
         DOMAIN f \subseteq Names, \A n \in DOMAIN f : f[n] \in Rule,
         NEW name \in Names, NEW v \in KeyValues,
         list' = Added(l, [name |-> name, values |-> v]),
         filters' = Put(f, name, Filter(v)), unfiltered' = out \ {name}
  PROVE  /\ list' \in Seq(Entry) /\ Agree'
         /\ DOMAIN filters' \subseteq Names /\ \A n \in DOMAIN filters' : filters'[n] \in Rule
<1> DEFINE e == [name |-> name, values |-> v]
<1>1. e \in Entry /\ e.name = name
  BY EntryType
<1> HIDE DEF e
<1>2. list' = Added(l, e)
  BY DEF e
<1>3. list' \in Seq(Entry) /\ Distinct(list') /\ Held(list') = Others(Held(l), name) \cup {e}
  <2>1. LET m == Added(l, e)
        IN  m \in Seq(Entry) /\ Distinct(m) /\ Held(m) = Others(Held(l), e.name) \cup {e}
    BY <1>1, AddedHeld
  <2> QED BY <1>1, <1>2, <2>1
<1>4. Describe(Held(list'), filters', unfiltered')
  BY <1>3, PutDescribes DEF e
<1>5. DOMAIN filters' \subseteq Names /\ \A n \in DOMAIN filters' : filters'[n] \in Rule
  BY FilterType DEF Put
<1> QED BY <1>3, <1>4, <1>5 DEF Agree

LEMMA RequestKeeps ==
  ASSUME IInv, NEW name \in Names, NEW ks \in SUBSET Keys,
         NEW values \in [ks -> Texts \ {Empty, Cut}], Request(name, values)
  PROVE  IInv'
<1> DEFINE v == Complete(values)
           f == Put(ordered, name, Filter(v))
<1>1. v \in KeyValues
  <2>1. values \in [ks -> Texts] /\ ks \in SUBSET SectionKeys
    BY KeyTypes
  <2> QED BY <2>1, CompleteType
<1>2. /\ pc = "idle" /\ Save
      /\ list' = Added(list, [name |-> name, values |-> v])
      /\ filters' = Put(filters, name, Filter(v)) /\ unfiltered' = unfiltered \ {name}
      /\ Wants(f, name = XPL)
  BY DEF Request, Stored
<1> HIDE DEF v
<1>3. /\ list' \in Seq(Entry) /\ Agree'
      /\ DOMAIN filters' \subseteq Names /\ \A n \in DOMAIN filters' : filters'[n] \in Rule
  BY <1>1, <1>2, CompletedAgrees DEF IInv, TypeOK, Agree, Rule
<1>4. DOMAIN f = DOMAIN ordered \cup {name} /\ f = [n \in DOMAIN f |-> f[n]]
  BY DEF Put
<1>5. ~disturbed => f = filters' /\ XPL \notin DOMAIN ordered /\ unfiltered' = {}
  BY <1>2 DEF IInv, FiltersAsOrdered, Undisturbed
<1> HIDE DEF f
<1>6. /\ disturbed' \in BOOLEAN /\ DOMAIN ordered' \subseteq Names
      /\ ~disturbed' => ~disturbed /\ ~(name = XPL) /\ ordered' = f
  <2>1. (name = XPL) \in BOOLEAN /\ disturbed \in BOOLEAN /\ DOMAIN f \subseteq Names
    BY <1>4 DEF IInv, TypeOK
  <2> QED BY <1>2, <2>1, WantsKeeps
<1>7. ~disturbed' => /\ filters' = ordered' /\ XPL \notin DOMAIN ordered'
                     /\ ordered' = [n \in DOMAIN ordered' |-> ordered'[n]] /\ unfiltered' = {}
  BY <1>4, <1>5, <1>6
<1>8. unfiltered' \subseteq Names
  BY <1>2 DEF IInv, TypeOK
<1> QED BY <1>2, <1>3, <1>6, <1>7, <1>8, SaveKeeps

\* The end of the process leaves no list and no map.
LEMMA GoneKeeps ==
  ASSUME IInv, Gone, IsFiniteSet(DOMAIN ini'), DOMAIN ini' \subseteq Names,
         \A n \in DOMAIN ini' : ini'[n] \in SectionValues,
         disturbed' \in BOOLEAN, DOMAIN ordered' \subseteq Names,
         \/ disturbed'
         \/ pc = "idle" /\ UNCHANGED <<ini, ordered, disturbed>>
  PROVE  IInv'
<1>1. pc' = "off" /\ list' = <<>> /\ filters' = Nothing /\ unsaved' = {} /\ unfiltered' = {}
  BY DEF Gone
<1>2. TypeOK'
  BY <1>1, EmptySame, NothingIsEmpty DEF TypeOK, SectionValues
<1>3. Agree'
  BY <1>1, EmptySame DEF Agree
<1>4. Saving' /\ FiltersAsOrdered'
  BY <1>1 DEF Saving, FiltersAsOrdered
<1>5. Undisturbed' /\ Kept'
  BY <1>1 DEF IInv, Undisturbed, Kept, Loaded
<1> QED BY <1>2, <1>3, <1>4, <1>5 DEF IInv

LEMMA RequestTwiceKeeps ==
  ASSUME IInv, NEW name \in Names, NEW joined \in Names, name # joined, NEW ks \in SUBSET Keys,
         NEW values \in [ks -> Texts \ {Empty, Cut}], RequestTwice(name, joined, values)
  PROVE  IInv'
<1>1. CASE Gone /\ UNCHANGED <<ini, ordered, disturbed>>
  BY <1>1, GoneKeeps DEF RequestTwice, IInv, TypeOK, SectionValues
<1>2. CASE ~(Gone /\ UNCHANGED <<ini, ordered, disturbed>>)
  <2>1. PICK i \in Places(name) :
          LET found == Complete(list[i].values)
          IN  /\ list' = Added(Added(list, [name |-> joined, values |-> values]),
                               [name |-> name, values |-> found])
              /\ filters' = Put(filters, name, Filter(found))
              /\ unfiltered' = (unfiltered \ {name}) \cup {joined}
              /\ Save
              /\ Wants(ordered, TRUE)
    BY <1>2 DEF RequestTwice
  <2> DEFINE v == Complete(list[i].values)
             e == [name |-> joined, values |-> values]
             l == Added(list, e)
  <2>2. list \in Seq(Entry) /\ Distinct(list) /\ Describe(Held(list), filters, unfiltered)
    BY DEF IInv, TypeOK, Agree
  <2>3. v \in KeyValues
    <3>1. list[i] \in Held(list)
      BY DEF Places, Held
    <3> QED BY <2>2, <3>1, Entries, CompleteEntry
  <2>4. e \in Entry /\ e.name = joined
    <3>1. values \in Values
      BY DEF Values
    <3> QED BY <3>1, EntryType
  <2> HIDE DEF v, e
  <2>5. l \in Seq(Entry) /\ Distinct(l) /\ Held(l) = Others(Held(list), joined) \cup {e}
    <3>1. l \in Seq(Entry) /\ Distinct(l) /\ Held(l) = Others(Held(list), e.name) \cup {e}
      BY <2>2, <2>4, AddedHeld
    <3> QED BY <2>4, <3>1
  <2>6. Describe(Held(l), filters, unfiltered \cup {joined})
    <3>1. Describe(Others(Held(list), joined) \cup {e}, filters, unfiltered \cup {joined})
      BY <2>2, <2>4, OutDescribes
    <3> HIDE DEF l
    <3> QED BY <2>5, <3>1
  <2>7. /\ list' = Added(l, [name |-> name, values |-> v]) /\ filters' = Put(filters, name, Filter(v))
        /\ unfiltered' = (unfiltered \cup {joined}) \ {name}
        /\ Save /\ Wants(ordered, TRUE)
    BY <2>1 DEF v, e
  <2> HIDE DEF l
  <2>8. DOMAIN filters \subseteq Names /\ \A n \in DOMAIN filters : filters[n] \in Rule
    BY DEF IInv, TypeOK, Rule
  <2>9. /\ list' \in Seq(Entry) /\ Agree'
        /\ DOMAIN filters' \subseteq Names /\ \A n \in DOMAIN filters' : filters'[n] \in Rule
    BY <2>3, <2>5, <2>6, <2>7, <2>8, CompletedAgrees
  <2>10. disturbed' \in BOOLEAN /\ DOMAIN ordered' \subseteq Names /\ disturbed'
    BY <2>7, WantsKeeps DEF IInv, TypeOK
  <2>11. unfiltered' \subseteq Names
    BY <2>7 DEF IInv, TypeOK
  <2> QED BY <2>7, <2>9, <2>10, <2>11, SaveKeeps
<1> QED BY <1>1, <1>2

LEMMA DeleteKeeps == ASSUME IInv, NEW name \in Names, Delete(name) PROVE IInv'
<1> DEFINE f == Drop(ordered, name)
<1>1. /\ pc = "idle" /\ DelConfig(name) /\ Save
      /\ filters' = Drop(filters, name) /\ unfiltered' = unfiltered \ {name}
      /\ Wants(f, FALSE)
  BY DEF Delete
<1>2. list \in Seq(Entry) /\ Distinct(list) /\ Describe(Held(list), filters, unfiltered)
  BY DEF IInv, TypeOK, Agree
<1>3. list' \in Seq(Entry) /\ Distinct(list') /\ Held(list') = Others(Held(list), name)
  <2>1. CASE Places(name) = {}
    <3>1. list' = list /\ \A i \in DOMAIN list : list[i].name # name
      BY <1>1, <2>1 DEF DelConfig, Places
    <3>2. Held(list) = Others(Held(list), name)
      BY <3>1 DEF Held, Others
    <3> QED BY <1>2, <3>1, <3>2
  <2>2. CASE Places(name) # {}
    <3> DEFINE p == CHOOSE i \in Places(name) : TRUE
    <3>1. p \in Places(name)
      BY <2>2
    <3>2. list' = RemoveAt(list, p)
      BY <1>1, <2>2 DEF DelConfig
    <3> HIDE DEF p
    <3>3. p \in DOMAIN list /\ list[p].name = name
      BY <3>1 DEF Places
    <3> QED BY <1>2, <3>2, <3>3, RemovedHeld
  <2> QED BY <2>1, <2>2
<1>4. Agree'
  BY <1>1, <1>2, <1>3, DropDescribes DEF Agree
<1>5. /\ DOMAIN filters' \subseteq Names /\ \A n \in DOMAIN filters' : filters'[n] \in Rule
      /\ unfiltered' \subseteq Names
  BY <1>1 DEF IInv, TypeOK, Rule, Drop
<1>6. DOMAIN f \subseteq DOMAIN ordered /\ f = [n \in DOMAIN f |-> f[n]]
  BY DEF Drop
<1>7. ~disturbed => f = filters' /\ XPL \notin DOMAIN ordered /\ unfiltered' = {}
  BY <1>1 DEF IInv, FiltersAsOrdered, Undisturbed
<1> HIDE DEF f
<1>8. /\ disturbed' \in BOOLEAN /\ DOMAIN ordered' \subseteq Names
      /\ ~disturbed' => ~disturbed /\ ordered' = f
  BY <1>1, <1>6, WantsKeeps DEF IInv, TypeOK
<1>9. ~disturbed' => /\ filters' = ordered' /\ XPL \notin DOMAIN ordered'
                     /\ ordered' = [n \in DOMAIN ordered' |-> ordered'[n]] /\ unfiltered' = {}
  BY <1>6, <1>7, <1>8
<1> QED BY <1>1, <1>3, <1>4, <1>5, <1>8, <1>9, SaveKeeps

LEMMA DeleteAllKeeps == ASSUME IInv, DeleteAll PROVE IInv'
<1>1. list' = <<>> /\ filters' = Nothing /\ unfiltered' = {} /\ Save /\ Wants(Nothing, FALSE)
  BY DEF DeleteAll
<1>2. /\ disturbed' \in BOOLEAN /\ DOMAIN ordered' \subseteq Names
      /\ ~disturbed' => ordered' = Nothing
  BY <1>1, NothingIsEmpty, WantsKeeps DEF IInv, TypeOK
<1>3. list' \in Seq(Entry) /\ Agree'
  BY <1>1, EmptySame DEF Agree
<1> QED BY <1>1, <1>2, <1>3, NothingIsEmpty, SaveKeeps

LEMMA SaveSettingsKeeps == ASSUME IInv, SaveSettings PROVE IInv'
<1>1. pc = "idle" /\ Save /\ UNCHANGED <<list, filters, ordered, disturbed, unfiltered>>
  BY DEF SaveSettings
<1>2. /\ list' \in Seq(Entry) /\ Agree' /\ unfiltered' \subseteq Names
      /\ DOMAIN filters' \subseteq Names /\ \A n \in DOMAIN filters' : filters'[n] \in Rule
      /\ disturbed' \in BOOLEAN /\ DOMAIN ordered' \subseteq Names
  BY <1>1 DEF IInv, TypeOK, Agree, Rule
<1>3. ~disturbed' => /\ filters' = ordered' /\ XPL \notin DOMAIN ordered'
                     /\ ordered' = [n \in DOMAIN ordered' |-> ordered'[n]] /\ unfiltered' = {}
  BY <1>1 DEF IInv, FiltersAsOrdered, Undisturbed
<1> QED BY <1>1, <1>2, <1>3, SaveKeeps

LEMMA OpenFileKeeps == ASSUME IInv, OpenFile PROVE IInv'
<1>1. UNCHANGED <<list, filters, unfiltered>> /\ Agree' /\ list' \in Seq(Entry)
  BY DEF OpenFile, IInv, TypeOK, Agree
<1>2. DOMAIN ordered \subseteq Names /\ disturbed \in BOOLEAN
  BY DEF IInv, TypeOK
<1>3. CASE pc' = "write" /\ ini' = Nothing /\ unsaved' = Lines /\ Wants(ordered, FALSE)
  <2>1. /\ disturbed' \in BOOLEAN /\ DOMAIN ordered' \subseteq Names
        /\ ~disturbed' => ~disturbed /\ ordered' = ordered
    BY <1>2, <1>3, WantsKeeps
  <2>2. TypeOK'
    BY <1>1, <1>3, <2>1, NothingIsEmpty, LinesProperties DEF IInv, TypeOK, Line
  <2>3. IsFiniteSet(DOMAIN ini)'
    BY <1>3, NothingIsEmpty, FS_EmptySet
  <2>4. Saving'
    BY <1>1, <1>3, NothingIsEmpty, LinesProperties DEF IInv, Saving
  <2>5. Undisturbed' /\ FiltersAsOrdered'
    BY <1>1, <2>1 DEF OpenFile, IInv, Undisturbed, FiltersAsOrdered
  <2>6. Kept'
    BY <1>3 DEF Kept
  <2> QED BY <1>1, <2>2, <2>3, <2>4, <2>5, <2>6 DEF IInv
<1>4. CASE pc' = "idle" /\ Wants(ordered, TRUE) /\ UNCHANGED <<unsaved, ini>>
  <2>1. disturbed' \in BOOLEAN /\ DOMAIN ordered' \subseteq Names /\ disturbed'
    BY <1>2, <1>4, WantsKeeps
  <2>2. TypeOK'
    BY <1>1, <1>4, <2>1 DEF IInv, TypeOK
  <2>3. IsFiniteSet(DOMAIN ini)'
    BY <1>4 DEF IInv
  <2>4. Saving'
    BY <1>4 DEF Saving
  <2>5. Undisturbed' /\ FiltersAsOrdered' /\ Kept'
    BY <2>1 DEF Undisturbed, FiltersAsOrdered, Kept
  <2> QED BY <1>1, <2>2, <2>3, <2>4, <2>5 DEF IInv
<1> QED BY <1>3, <1>4 DEF OpenFile

LEMMA WriteLineKeeps == ASSUME IInv, WriteLine PROVE IInv'
<1>1. PICK l \in unsaved : /\ ini' = WithLine(l.section, l.key, l.value)
                           /\ unsaved' = unsaved \ {l}
  BY DEF WriteLine
<1>2. pc = "write" /\ pc' = "write" /\ UNCHANGED <<list, filters, ordered, disturbed, unfiltered>>
  BY DEF WriteLine
<1> DEFINE s == l.section
           k == l.key
           x == l.value
<1>3. s \in Names /\ k \in SectionKeys /\ x \in Texts /\ l = LineOf(s, k, x)
  <2>1. l \in Line
    BY <1>1 DEF IInv, TypeOK, Line
  <2> QED BY <2>1 DEF Line, LineOf
<1>4. ini' = WithLine(s, k, x)
  BY <1>1
<1> HIDE DEF s, k, x
<1>5. TypeOK /\ IsFiniteSet(DOMAIN ini)
  BY DEF IInv
<1>6. /\ DOMAIN ini' = DOMAIN ini \cup {s} /\ IsFiniteSet(DOMAIN ini')
      /\ DOMAIN ini' \subseteq Names /\ \A n \in DOMAIN ini' : ini'[n] \in SectionValues
      /\ InFile(s, k, x)'
      /\ \A n, j, y : InFile(n, j, y) /\ (n # s \/ j # k) => InFile(n, j, y)'
  BY <1>3, <1>4, <1>5, LineWritten
<1>7. TypeOK'
  BY <1>1, <1>2, <1>5, <1>6 DEF TypeOK, SectionValues
<1>8. /\ k \in Keys => \E e \in Held(list) : k \in DOMAIN e.values /\ s = e.name /\ x = e.values[k]
      /\ k \notin Keys => s = XPL
  <2>1. l.section = s /\ l.key = k /\ l.value = x
    BY DEF s, k, x
  <2>2. k \in Keys =>
          \E e \in Held(list) : k \in DOMAIN e.values /\ l = LineOf(e.name, k, e.values[k])
    BY <1>1, <1>2, <2>1 DEF IInv, Saving
  <2>3. k \notin Keys => s = XPL
    BY <1>1, <1>2, <2>1 DEF IInv, Saving
  <2> QED BY <2>1, <2>2, <2>3 DEF LineOf
<1>9. \A e \in Held(list) : DOMAIN e.values \subseteq Keys
  BY <1>5, Entries DEF TypeOK
<1>10. Saving'
  <2>1. DOMAIN ini' \subseteq NamesOf(Held(list)) \cup {XPL}
    <3>1. s \in NamesOf(Held(list)) \cup {XPL}
      BY <1>8 DEF NamesOf
    <3> QED BY <1>2, <1>6, <3>1 DEF IInv, Saving
  <2>2. /\ \A m \in unsaved' : m.key \in Keys =>
             \E e \in Held(list) : m.key \in DOMAIN e.values /\ m = LineOf(e.name, m.key, e.values[m.key])
        /\ \A m \in unsaved' : m.key \notin Keys => m.section = XPL
    BY <1>1, <1>2 DEF IInv, Saving
  <2>3. ASSUME NEW e \in Held(list), NEW j \in DOMAIN e.values
        PROVE  InFile(e.name, j, e.values[j])' \/ LineOf(e.name, j, e.values[j]) \in unsaved'
    <3> DEFINE n == e.name
               y == e.values[j]
    <3>1. InFile(n, j, y) \/ LineOf(n, j, y) \in unsaved
      BY <1>2 DEF IInv, Saving
    <3>2. CASE n = s /\ j = k
      <4>1. PICK h \in Held(list) : s = h.name /\ x = h.values[k]
        BY <1>8, <1>9, <3>2
      <4>2. h = e
        BY <3>2, <4>1, OneOfAName DEF IInv, Agree
      <4>3. y = x
        BY <3>2, <4>1, <4>2
      <4> QED BY <1>6, <3>2, <4>3 DEF InFile
    <3>3. CASE (n # s \/ j # k) /\ InFile(n, j, y)
      <4> HIDE DEF n, y
      <4>1. InFile(n, j, y)'
        BY <1>6, <3>3 DEF InFile, n, y
      <4> QED BY <4>1 DEF n, y
    <3>4. CASE (n # s \/ j # k) /\ LineOf(n, j, y) \in unsaved
      <4>1. LineOf(n, j, y) # l
        BY <1>3, <3>4 DEF LineOf
      <4> QED BY <1>1, <3>4, <4>1
    <3> QED BY <3>1, <3>2, <3>3, <3>4
  <2>4. Held(list') = Held(list)
    BY <1>2
  <2> QED BY <1>2, <2>1, <2>2, <2>3, <2>4 DEF Saving
<1>11. Agree' /\ Undisturbed' /\ FiltersAsOrdered'
  BY <1>2 DEF IInv, Agree, Undisturbed, FiltersAsOrdered
<1>12. Kept'
  BY <1>2 DEF Kept
<1> QED BY <1>6, <1>7, <1>10, <1>11, <1>12 DEF IInv

\* A save that ends has written the list.
LEMMA SavedKeeps == ASSUME IInv, Saved PROVE IInv'
<1>1. /\ pc = "write" /\ unsaved = {} /\ pc' = "idle"
      /\ UNCHANGED <<list, filters, unsaved, ini, ordered, disturbed, unfiltered>>
  BY DEF Saved
<1>2. TypeOK' /\ IsFiniteSet(DOMAIN ini)' /\ Agree' /\ Undisturbed'
  BY <1>1 DEF IInv, TypeOK, Agree, Undisturbed
<1>3. Saving' /\ FiltersAsOrdered'
  BY <1>1 DEF IInv, Saving, FiltersAsOrdered
<1>4. ASSUME ~disturbed
      PROVE  Loaded = DOMAIN ordered /\ \A n \in DOMAIN ordered : ordered[n] = Filter(Complete(ini[n]))
  <2>1. filters = ordered /\ XPL \notin DOMAIN ordered /\ unfiltered = {}
    BY <1>1, <1>4 DEF IInv, FiltersAsOrdered, Undisturbed
  <2>2. ASSUME NEW e \in Held(list)
        PROVE  e.name \in DOMAIN ini /\ ordered[e.name] = Filter(Complete(ini[e.name]))
    <3>1. e.values \in KeyValues /\ filters[e.name] = Filter(e.values)
      BY <2>1 DEF IInv, Agree, Describe
    <3>2. \A k \in Keys : InFile(e.name, k, e.values[k])
      BY <1>1, <3>1 DEF IInv, Saving, KeyValues
    <3>3. e.name \in DOMAIN ini
      BY <3>2, KeyTypes DEF InFile
    <3>4. Complete(ini[e.name]) = [k \in Keys |-> e.values[k]]
      BY <3>2 DEF Complete, InFile
    <3>5. Complete(ini[e.name]) = e.values
      BY <3>1, <3>4 DEF KeyValues
    <3> QED BY <2>1, <3>1, <3>3, <3>5
  <2>3. /\ DOMAIN ordered = NamesOf(Held(list)) /\ NamesOf(Held(list)) \subseteq DOMAIN ini
        /\ DOMAIN ini \subseteq NamesOf(Held(list)) \cup {XPL}
    BY <1>1, <2>1, <2>2 DEF IInv, Saving, NamesOf, Agree, Describe
  <2>4. Loaded = DOMAIN ordered
    BY <2>1, <2>3 DEF Loaded
  <2>5. \A n \in DOMAIN ordered : ordered[n] = Filter(Complete(ini[n]))
    BY <2>2, <2>3 DEF NamesOf
  <2> QED BY <2>4, <2>5
<1>5. Kept'
  BY <1>1, <1>4 DEF Kept, Loaded
<1> QED BY <1>2, <1>3, <1>5 DEF IInv

LEMMA StopKeeps == ASSUME IInv, Stop PROVE IInv'
BY GoneKeeps DEF Stop, IInv, TypeOK, SectionValues

LEMMA CrashKeeps == ASSUME IInv, Crash PROVE IInv'
<1>1. Gone /\ Wants(ordered, TRUE)
  BY DEF Crash
<1>2. TypeOK /\ IsFiniteSet(DOMAIN ini)
  BY DEF IInv
<1>3. disturbed' \in BOOLEAN /\ DOMAIN ordered' \subseteq Names /\ disturbed'
  BY <1>1, <1>2, WantsKeeps DEF TypeOK
<1>4. /\ IsFiniteSet(DOMAIN ini') /\ DOMAIN ini' \subseteq Names
      /\ \A n \in DOMAIN ini' : ini'[n] \in SectionValues
  <2>1. CASE UNCHANGED ini
    BY <1>2, <2>1 DEF TypeOK, SectionValues
  <2>2. CASE \E l \in unsaved : IsNext(l) /\ ini' = WithLine(l.section, l.key, Cut)
    <3>1. PICK l \in unsaved : ini' = WithLine(l.section, l.key, Cut)
      BY <2>2
    <3>2. l.section \in Names /\ l.key \in SectionKeys
      BY <1>2 DEF TypeOK
    <3> QED BY <1>2, <3>1, <3>2, LineWritten
  <2> QED BY <2>1, <2>2 DEF Crash
<1> QED BY <1>1, <1>3, <1>4, GoneKeeps

\* A start reads each section but that of the settings, and each once.
LEMMA StartKeeps == ASSUME IInv, Start PROVE IInv'
<1> DEFINE c == Cardinality(Loaded)
           V(n) == Complete(ini[n])
<1>1. PICK names \in Bijection(1 .. c, Loaded) :
        list' = [i \in DOMAIN names |-> [name |-> names[i], values |-> V(names[i])]]
  BY DEF Start
<1>2. /\ pc = "off" /\ pc' = "idle" /\ UNCHANGED <<unsaved, ini, ordered, disturbed, unfiltered>>
      /\ filters' = [n \in Loaded |-> Filter(V(n))]
  BY DEF Start
<1>3. c \in Nat
  <2>1. IsFiniteSet(Loaded)
    BY FS_Subset DEF IInv, Loaded
  <2> QED BY <2>1, FS_CardinalityType
<1>4. /\ names \in [1 .. c -> Loaded]
      /\ \A i, j \in 1 .. c : names[i] = names[j] => i = j
      /\ \A n \in Loaded : \E i \in 1 .. c : names[i] = n
  BY <1>1 DEF Bijection, Injection, Surjection, IsInjective
<1>5. \A n \in Loaded : n \in Names /\ V(n) \in KeyValues
  <2>1. \A n \in Loaded : n \in Names /\ ini[n] \in SectionValues
    BY DEF IInv, TypeOK, Loaded, SectionValues
  <2> QED BY <2>1, SectionComplete
<1> HIDE DEF c, V
<1>6. /\ DOMAIN list' = 1 .. c
      /\ \A i \in 1 .. c : list'[i] = [name |-> names[i], values |-> V(names[i])]
  BY <1>1, <1>4
<1>7. \A i \in 1 .. c : names[i] \in Loaded /\ list'[i].name = names[i] /\ list'[i].values = V(names[i])
  BY <1>4, <1>6
<1>8. list' \in Seq(Entry)
  <2>1. \A i \in 1 .. c : list'[i] \in Entry
    BY <1>4, <1>5, <1>6, EntryType
  <2>2. list' \in [1 .. c -> Entry]
    BY <1>1, <1>4, <1>6, <2>1
  <2> QED BY <1>3, <2>2
<1>9. Agree'
  <2>1. NamesOf(Held(list')) = Loaded
    BY <1>4, <1>6, <1>7 DEF NamesOf, Held
  <2>2. Distinct(list')
    BY <1>4, <1>6, <1>7 DEF Distinct
  <2>3. DOMAIN filters' = Loaded /\ \A n \in Loaded : filters'[n] = Filter(V(n))
    BY <1>2
  <2>4. ASSUME NEW e \in Held(list') PROVE e.values \in KeyValues /\ filters'[e.name] = Filter(e.values)
    <3>1. PICK i \in 1 .. c : e = list'[i]
      BY <1>6 DEF Held
    <3> QED BY <1>5, <1>7, <2>3, <3>1
  <2>5. Describe(Held(list'), filters', unfiltered')
    BY <2>1, <2>3, <2>4 DEF Describe
  <2> QED BY <2>2, <2>5 DEF Agree
<1>10. TypeOK'
  <2>1. DOMAIN filters' \subseteq Names /\ \A n \in DOMAIN filters' : filters'[n] \in Rule
    BY <1>2, <1>5, FilterType
  <2> QED BY <1>2, <1>8, <2>1 DEF IInv, TypeOK, Rule
<1>11. FiltersAsOrdered'
  <2>1. ASSUME ~disturbed PROVE filters' = ordered
    BY <1>2, <2>1 DEF IInv, Kept, Undisturbed, V
  <2> QED BY <1>2, <2>1 DEF FiltersAsOrdered
<1>12. IsFiniteSet(DOMAIN ini)' /\ Undisturbed' /\ Saving'
  BY <1>2 DEF IInv, Undisturbed, Saving
<1>13. Kept'
  BY <1>2 DEF IInv, Kept, Loaded
<1> QED BY <1>9, <1>10, <1>11, <1>12, <1>13 DEF IInv

LEMMA StepInv == ASSUME IInv, [Next]_vars PROVE IInv'
<1>1. ASSUME NEW name \in Names, Delete(name) PROVE IInv'
  BY <1>1, DeleteKeeps
<1>2. ASSUME NEW ks \in Given, NEW values \in [ks -> Texts \ {Empty, Cut}],
             NEW name \in Names, Request(name, values)
      PROVE  IInv'
  <2>1. ks \in SUBSET Keys
    BY DEF Keys
  <2> QED BY <1>2, <2>1, RequestKeeps
<1>3. ASSUME NEW ks \in Given, NEW values \in [ks -> Texts \ {Empty, Cut}],
             NEW names \in Twice, RequestTwice(names[1], names[2], values)
      PROVE  IInv'
  <2>1. names[1] \in Names /\ names[2] \in Names /\ names[1] < names[2]
    OBVIOUS
  <2>2. names[1] # names[2]
    <3>1. \A m, n \in Nat : m < n => m # n
      OBVIOUS
    <3> QED BY <2>1, <3>1
  <2>3. ks \in SUBSET Keys
    BY DEF Keys
  <2> QED BY <1>3, <2>1, <2>2, <2>3, RequestTwiceKeeps
<1>4. CASE UNCHANGED vars
  BY <1>4 DEF vars, IInv, TypeOK, Agree, Saving, InFile, Undisturbed, FiltersAsOrdered, Kept, Loaded
<1> QED
  BY <1>1, <1>2, <1>3, <1>4, DeleteAllKeeps, SaveSettingsKeeps, OpenFileKeeps, WriteLineKeeps,
     SavedKeeps, StopKeeps, CrashKeeps, StartKeeps DEF Next

-----------------------------------------------------------------------------
(* Theorems *)

LEMMA Inductive == Spec => []IInv
<1>1. Init => IInv
  BY InitInv
<1>2. IInv /\ [Next]_vars => IInv'
  BY StepInv
<1> QED BY <1>1, <1>2, PTL DEF Spec

\* The list, the map and the file hold names and texts and nothing else
\* (AdvanceConfig, xPLDatabase).
THEOREM TypeCorrect == Spec => []TypeOK
<1>1. IInv => TypeOK
  BY DEF IInv
<1> QED BY <1>1, Inductive, PTL

\* However often the daemon is stopped and started, the filters in force are
\* those the messages asked for, unless a save was cut or refused or a request
\* gave the name of the settings or two names (ConfigChange, SaveConfig, LoadConfig).
THEOREM FiltersOrdered == Spec => []FiltersAsOrdered
<1>1. IInv => FiltersAsOrdered
  BY DEF IInv
<1> QED BY <1>1, Inductive, PTL

\* The list that is saved and the map that decides what is recorded describe
\* the same filters, each once, in every state, but for the entries that a
\* request with two names has put in the list (AddConfig, DelConfig and the
\* callbacks of xPLDatabase).
THEOREM ListMatches == Spec => []ListMatchesFilters
<1>1. IInv => ListMatchesFilters
  BY AgreeMatches DEF IInv
<1> QED BY <1>1, Inductive, PTL

\* A message is recorded under the first filter whose source is a way to write
\* its sender, and under none if there is none, whatever the filters, the
\* sources and the senders are (Filter::Set, Compare and FilterFind).
THEOREM FirstThatCovers == Spec => []FindsFirstThatCovers
<1>1. TypeOK => FindsFirstThatCovers
  <2> SUFFICES ASSUME TypeOK PROVE FindsFirstThatCovers
    OBVIOUS
  <2> DEFINE set == [n \in DOMAIN filters |-> Set(filters[n].source)]
  <2>1. \A n \in DOMAIN filters : filters[n].source \in Texts
    BY DEF TypeOK
  <2>2. ASSUME NEW m \in SampleMessages
        PROVE  LET covering == {n \in DOMAIN filters : m \in Covered[filters[n].source]}
               IN FilterFind(set, m) = IF covering = {} THEN 0 ELSE Min(covering)
    <3> DEFINE covering == {n \in DOMAIN filters : m \in Covered[filters[n].source]}
               fit == {n \in DOMAIN set : \A part \in DOMAIN m : Compare(set[n][part], m[part])}
    <3>1. \A n \in DOMAIN filters :
            m \in Covered[filters[n].source] <=> \A part \in DOMAIN m : Compare(set[n][part], m[part])
      BY <2>1, CoveredParts
    <3>2. fit = covering
      BY <3>1
    <3>3. FilterFind(set, m) = IF fit = {} THEN 0 ELSE Min(fit)
      BY Zenon DEF FilterFind
    <3> HIDE DEF fit, set
    <3> QED BY <3>2, <3>3
  <2> QED BY <2>2, SamplesAreFound DEF FindsFirstThatCovers
<1> QED BY <1>1, TypeCorrect, PTL
=============================================================================
