---------------------------- MODULE ReceiptsProofs ----------------------------
(***************************************************************************)
(* Why the readers of a block lose no payment of a batch, keep transfers   *)
(* apart by their hashes and confirm none that the chain did not make.     *)
(*                                                                         *)
(* The argument.  What is found is a selection of the concatenation of     *)
(* what the transactions give.  Laid and Chosen say where the elements of  *)
(* both come from: each place stems from one place of the parts, and no    *)
(* place is lost or doubled.  The rest follows the readers case by case.   *)
(***************************************************************************)
EXTENDS Receipts, WellFoundedInduction, TLAPS

-----------------------------------------------------------------------------
(* Concatenations.                                                          *)

\* Where each element of a concatenation stems from: place p from place b[p] of
\* part a[p].
Laid(flat, w, n, a, b) ==
  /\ \A p \in DOMAIN flat : a[p] \in 1..n /\ b[p] \in DOMAIN w[a[p]] /\ flat[p] = w[a[p]][b[p]]
  /\ \A p, q \in DOMAIN flat : a[p] = a[q] /\ b[p] = b[q] => p = q
  /\ \A m \in 1..n : \A j \in DOMAIN w[m] : \E p \in DOMAIN flat : a[p] = m /\ b[p] = j

\* Where each element of a selection stems from.
Chosen(r, s, I, c) ==
  /\ \A p \in DOMAIN r : c[p] \in DOMAIN s /\ c[p] \in I /\ r[p] = s[c[p]]
  /\ \A p, q \in DOMAIN r : c[p] = c[q] => p = q
  /\ \A i \in DOMAIN s : i \in I => \E p \in DOMAIN r : c[p] = i

\* The parts up to the n-th, concatenated.
IsFlat(f, w, n) == f = [i \in 1..n |-> IF i = 1 THEN w[i] ELSE f[i-1] \o w[i]]

LEMMA LeastNat ==
  ASSUME NEW S, S \subseteq Nat, S # {}
  PROVE  \E m \in S : \A x \in S : m <= x
  <1>. DEFINE R == OpToRel(<, Nat)
  <1>1. IsWellFoundedOn(R, Nat)
    BY NatLessThanWellFounded
  <1>2. \A x, y \in Nat : x < y => <<x, y>> \in R
    BY DEF OpToRel
  <1>. HIDE DEF R
  <1>3. PICK m \in S : \A y \in S : <<y, m>> \notin R
    BY <1>1, WFMin
  <1>4. ASSUME NEW x \in S PROVE m <= x
    <2>1. x \in Nat /\ m \in Nat /\ ~(x < m)
      BY <1>2, <1>3
    <2>. QED  BY <2>1
  <1>. QED  BY <1>4

\* The recursive function of FlattenSeq exists, ...
LEMMA FlatExists ==
  ASSUME NEW w, NEW n \in Nat
  PROVE  \E f : IsFlat(f, w, n)
  <1>. DEFINE Bad == {m \in Nat : ~ \E f : IsFlat(f, w, m)}
  <1>1. SUFFICES Bad = {}
    OBVIOUS
  <1>2. SUFFICES ASSUME Bad # {} PROVE FALSE
    OBVIOUS
  <1>3. PICK m \in Bad : \A x \in Bad : m <= x
    BY <1>2, LeastNat
  <1>4. m \in Nat /\ ~ \E f : IsFlat(f, w, m)
    OBVIOUS
  <1>5. m # 0
    <2>1. IsFlat([i \in 1..0 |-> 0], w, 0)
      BY DEF IsFlat
    <2>. QED  BY <1>4, <2>1
  <1>6. PICK f : IsFlat(f, w, m - 1)
    <2>1. m - 1 \in Nat /\ ~(m <= m - 1)
      BY <1>4, <1>5
    <2>2. m - 1 \notin Bad
      BY <1>3, <2>1
    <2>. QED  BY <2>1, <2>2
  <1>. DEFINE g == [i \in 1..m |-> IF i < m THEN f[i] ELSE IF i = 1 THEN w[i] ELSE f[i-1] \o w[i]]
  <1>7. \A i \in 1..m : g[i] = IF i = 1 THEN w[i] ELSE g[i-1] \o w[i]
    <2>. SUFFICES ASSUME NEW i \in 1..m PROVE g[i] = IF i = 1 THEN w[i] ELSE g[i-1] \o w[i]
      OBVIOUS
    <2>0. i \in Int /\ m \in Int /\ 1 <= i /\ i <= m
      BY <1>4
    <2>1. i > 1 => g[i-1] = f[i-1]
      BY <2>0
    <2>2. CASE i < m
      <3>1. i \in 1..(m - 1) /\ g[i] = f[i]
        BY <2>0, <2>2
      <3>2. f[i] = IF i = 1 THEN w[i] ELSE f[i-1] \o w[i]
        BY <1>6, <3>1 DEF IsFlat
      <3>. QED  BY <2>0, <2>1, <3>1, <3>2
    <2>3. CASE i = m
      BY <2>0, <2>1, <2>3
    <2>. QED  BY <2>0, <2>2, <2>3
  <1>8. g = [i \in 1..m |-> IF i = 1 THEN w[i] ELSE g[i-1] \o w[i]]
    BY <1>7
  <1>. QED  BY <1>4, <1>8 DEF IsFlat

\* ... so a concatenation is what it defines.
LEMMA FlatIs ==
  ASSUME NEW w, NEW n \in Nat, n # 0, Len(w) = n
  PROVE  \E f : IsFlat(f, w, n) /\ FlattenSeq(w) = f[n]
  <1>1. FlattenSeq(w) = (CHOOSE f : f = [i \in 1..Len(w) |-> IF i = 1 THEN w[i] ELSE f[i-1] \o w[i]])[Len(w)]
    BY DEF FlattenSeq
  <1>. DEFINE f == CHOOSE f : f = [i \in 1..Len(w) |-> IF i = 1 THEN w[i] ELSE f[i-1] \o w[i]]
  <1>2. \E g : g = [i \in 1..Len(w) |-> IF i = 1 THEN w[i] ELSE g[i-1] \o w[i]]
    BY FlatExists DEF IsFlat
  <1>3. f = [i \in 1..Len(w) |-> IF i = 1 THEN w[i] ELSE f[i-1] \o w[i]]
    BY <1>2
  <1>. HIDE DEF f
  <1>4. IsFlat(f, w, n)
    BY <1>3 DEF IsFlat
  <1>. QED  BY <1>1, <1>4 DEF f

\* One more part.
LEMMA LaidMore ==
  ASSUME NEW X, NEW u \in Seq(X), NEW v \in Seq(X), NEW w, NEW n \in Nat, NEW a, NEW b,
         Laid(u, w, n, a, b), w[n + 1] = v
  PROVE  \E c, d : Laid(u \o v, w, n + 1, c, d)
  <1>. DEFINE k == Len(u)
  <1>. DEFINE l == Len(v)
  <1>. DEFINE r == u \o v
  <1>1. /\ k \in Nat /\ l \in Nat /\ DOMAIN u = 1..k /\ DOMAIN v = 1..l /\ DOMAIN r = 1..(k + l)
        /\ \A p \in 1..k : r[p] = u[p]
        /\ \A p \in 1..l : r[k + p] = v[p]
    OBVIOUS
  <1>. HIDE DEF k, l, r
  <1>. DEFINE c == [p \in 1..(k + l) |-> IF p <= k THEN a[p] ELSE n + 1]
  <1>. DEFINE d == [p \in 1..(k + l) |-> IF p <= k THEN b[p] ELSE p - k]
  <1>2. /\ \A p \in 1..k : p \in 1..(k + l) /\ c[p] = a[p] /\ d[p] = b[p]
        /\ \A p \in 1..l : k + p \in 1..(k + l) /\ c[k + p] = n + 1 /\ d[k + p] = p
        /\ \A p \in 1..(k + l) : p \in 1..k \/ (p - k \in 1..l /\ p = k + (p - k))
    BY <1>1
  <1>. HIDE DEF c, d
  <1>3. \A p \in 1..k : a[p] \in 1..n /\ b[p] \in DOMAIN w[a[p]] /\ u[p] = w[a[p]][b[p]]
    BY <1>1 DEF Laid
  <1>4. ASSUME NEW p \in DOMAIN r
        PROVE  c[p] \in 1..(n + 1) /\ d[p] \in DOMAIN w[c[p]] /\ r[p] = w[c[p]][d[p]]
    <2>1. CASE p \in 1..k
      <3>1. c[p] = a[p] /\ d[p] = b[p] /\ r[p] = u[p]
        BY <1>1, <1>2, <2>1
      <3>2. a[p] \in 1..n => a[p] \in 1..(n + 1)
        OBVIOUS
      <3>. QED  BY <1>3, <2>1, <3>1, <3>2
    <2>2. CASE p - k \in 1..l /\ p = k + (p - k)
      <3>. DEFINE m == p - k
      <3>1. m \in 1..l /\ p = k + m
        BY <2>2
      <3>. HIDE DEF m
      <3>2. c[p] = n + 1 /\ d[p] = m /\ r[p] = v[m] /\ m \in DOMAIN v
        BY <1>1, <1>2, <3>1
      <3>. QED  BY <3>2
    <2>. QED  BY <1>1, <1>2, <2>1, <2>2
  <1>5. ASSUME NEW p \in DOMAIN r, NEW q \in DOMAIN r, c[p] = c[q], d[p] = d[q]  PROVE p = q
    <2>1. \A i \in 1..k : c[i] # n + 1
      BY <1>2, <1>3
    <2>2. CASE p \in 1..k /\ q \in 1..k
      BY <1>1, <1>2, <1>5, <2>2 DEF Laid
    <2>3. CASE p - k \in 1..l /\ p = k + (p - k) /\ q - k \in 1..l /\ q = k + (q - k)
      <3>1. d[p] = p - k /\ d[q] = q - k
        BY <1>2, <2>3
      <3>2. p \in Int /\ q \in Int /\ k \in Int
        BY <1>1
      <3>3. p - k = q - k
        BY <1>5, <3>1
      <3>. QED  BY <3>2, <3>3
    <2>4. CASE p \in 1..k /\ q - k \in 1..l /\ q = k + (q - k)
      BY <1>2, <1>5, <2>1, <2>4
    <2>5. CASE q \in 1..k /\ p - k \in 1..l /\ p = k + (p - k)
      BY <1>2, <1>5, <2>1, <2>5
    <2>. QED  BY <1>1, <1>2, <2>2, <2>3, <2>4, <2>5
  <1>6. ASSUME NEW m \in 1..(n + 1), NEW j \in DOMAIN w[m]
        PROVE  \E p \in DOMAIN r : c[p] = m /\ d[p] = j
    <2>1. CASE m = n + 1
      <3>1. j \in 1..l
        BY <1>1, <2>1
      <3>. QED  BY <1>1, <1>2, <2>1, <3>1
    <2>2. CASE m \in 1..n
      <3>1. PICK p \in DOMAIN u : a[p] = m /\ b[p] = j
        BY <2>2 DEF Laid
      <3>. QED  BY <1>1, <1>2, <3>1
    <2>. QED  BY <2>1, <2>2
  <1>7. Laid(r, w, n + 1, c, d)
    BY <1>4, <1>5, <1>6 DEF Laid
  <1>. QED  BY <1>7 DEF r

\* Every concatenation is laid out so.
LEMMA Flat ==
  ASSUME NEW X, NEW w \in Seq(Seq(X))
  PROVE  FlattenSeq(w) \in Seq(X) /\ \E a, b : Laid(FlattenSeq(w), w, Len(w), a, b)
  <1>. DEFINE N == Len(w)
  <1>0. N \in Nat /\ \A i \in 1..N : w[i] \in Seq(X)
    OBVIOUS
  <1>. HIDE DEF N
  <1>1. CASE N = 0
    <2>1. FlattenSeq(w) = w /\ w \in Seq(X) /\ DOMAIN w = {}
      BY <1>1 DEF FlattenSeq, N
    <2>2. Laid(w, w, 0, w, w)
      BY <2>1 DEF Laid
    <2>. QED  BY <1>1, <2>1, <2>2 DEF N
  <1>2. CASE N # 0
    <2>1. PICK f : IsFlat(f, w, N) /\ FlattenSeq(w) = f[N]
      BY <1>0, <1>2, FlatIs DEF N
    <2>2. \A i \in 1..N : f[i] = IF i = 1 THEN w[i] ELSE f[i-1] \o w[i]
      <3>. DEFINE g == [i \in 1..N |-> IF i = 1 THEN w[i] ELSE f[i-1] \o w[i]]
      <3>1. f = g
        BY <2>1 DEF IsFlat
      <3>2. \A i \in 1..N : g[i] = IF i = 1 THEN w[i] ELSE f[i-1] \o w[i]
        OBVIOUS
      <3>. HIDE DEF g
      <3>. QED  BY <3>1, <3>2
    <2>. DEFINE Good(i) == f[i] \in Seq(X) /\ \E a, b : Laid(f[i], w, i, a, b)
    <2>3. Good(1)
      <3>1. f[1] = w[1] /\ w[1] \in Seq(X)
        BY <1>0, <1>2, <2>2
      <3>. DEFINE a == [p \in DOMAIN w[1] |-> 1]
      <3>. DEFINE b == [p \in DOMAIN w[1] |-> p]
      <3>2. Laid(w[1], w, 1, a, b)
        BY DEF Laid
      <3>. QED  BY <3>1, <3>2
    <2>4. ASSUME NEW i \in Nat, i > 0, i < N, Good(i)  PROVE Good(i + 1)
      <3>1. i + 1 \in 1..N /\ (i + 1) - 1 = i /\ i + 1 # 1
        BY <1>0, <2>4
      <3>2. f[i + 1] = f[i] \o w[i + 1] /\ w[i + 1] \in Seq(X)
        BY <1>0, <2>2, <3>1
      <3>3. PICK a, b : Laid(f[i], w, i, a, b)
        BY <2>4
      <3>4. f[i] \in Seq(X)
        BY <2>4
      <3>. HIDE DEF Good
      <3>5. PICK u : u = f[i]
        OBVIOUS
      <3>6. u \in Seq(X) /\ Laid(u, w, i, a, b)
        BY <3>3, <3>4, <3>5
      <3>7. \E c, d : Laid(u \o w[i + 1], w, i + 1, c, d)
        BY <3>2, <3>6, LaidMore
      <3>. QED  BY <3>2, <3>5, <3>6, <3>7 DEF Good
    <2>. DEFINE Bad == {i \in Nat : i > 0 /\ i <= N /\ ~Good(i)}
    <2>. HIDE DEF Good
    <2>5. Bad = {}
      <3>1. SUFFICES ASSUME Bad # {} PROVE FALSE
        OBVIOUS
      <3>2. PICK m \in Bad : \A x \in Bad : m <= x
        BY <3>1, LeastNat
      <3>3. m \in Nat /\ m > 0 /\ m <= N /\ ~Good(m)
        OBVIOUS
      <3>4. m - 1 \in Nat /\ m - 1 > 0
        BY <2>3, <3>3
      <3>5. Good(m - 1)
        <4>1. m - 1 \notin Bad
          BY <3>2, <3>3, <3>4
        <4>2. m - 1 <= N
          BY <1>0, <3>3
        <4>. QED  BY <3>4, <4>1, <4>2
      <3>6. m - 1 < N /\ (m - 1) + 1 = m
        BY <1>0, <3>3
      <3>. QED  BY <2>4, <3>3, <3>4, <3>5, <3>6
    <2>6. Good(N)
      BY <1>0, <1>2, <2>5
    <2>. QED  BY <2>1, <2>6 DEF Good, N
  <1>. QED  BY <1>1, <1>2

\* Every selection is.
LEMMA Selected ==
  ASSUME NEW X, NEW s \in Seq(X), NEW I
  PROVE  LET r == FlattenSeq([i \in DOMAIN s |-> IF i \in I THEN <<s[i]>> ELSE <<>>])
         IN  r \in Seq(X) /\ \E c : Chosen(r, s, I, c)
  <1>. DEFINE w == [i \in DOMAIN s |-> IF i \in I THEN <<s[i]>> ELSE <<>>]
  <1>0. Len(s) \in Nat /\ DOMAIN s = 1..Len(s) /\ \A i \in DOMAIN s : s[i] \in X
    OBVIOUS
  <1>1. w \in Seq(Seq(X)) /\ Len(w) = Len(s) /\ Len(s) \in Nat /\ DOMAIN s = 1..Len(s)
    <2>1. w \in [1..Len(s) -> Seq(X)]
      BY <1>0
    <2>. HIDE DEF w
    <2>. QED  BY <1>0, <2>1
  <1>2. /\ \A i \in DOMAIN s : i \in I => DOMAIN w[i] = {1} /\ w[i][1] = s[i]
        /\ \A i \in DOMAIN s : i \notin I => DOMAIN w[i] = {}
    OBVIOUS
  <1>. DEFINE r == FlattenSeq(w)
  <1>. HIDE DEF w
  <1>3. r \in Seq(X) /\ \E a, b : Laid(r, w, Len(w), a, b)
    BY <1>1, Flat
  <1>. HIDE DEF r
  <1>4. PICK a, b : Laid(r, w, Len(s), a, b)
    BY <1>1, <1>3
  <1>5. \A p \in DOMAIN r : a[p] \in DOMAIN s /\ a[p] \in I /\ b[p] = 1 /\ r[p] = s[a[p]]
    BY <1>1, <1>2, <1>4 DEF Laid
  <1>6. \A p, q \in DOMAIN r : a[p] = a[q] => p = q
    BY <1>4, <1>5 DEF Laid
  <1>7. ASSUME NEW i \in DOMAIN s, i \in I  PROVE \E p \in DOMAIN r : a[p] = i
    <2>1. i \in 1..Len(s) /\ 1 \in DOMAIN w[i]
      BY <1>1, <1>2, <1>7
    <2>. QED  BY <1>4, <2>1 DEF Laid
  <1>8. Chosen(r, s, I, a)
    BY <1>5, <1>6, <1>7 DEF Chosen
  <1>. QED  BY <1>3, <1>8 DEF r, w

-----------------------------------------------------------------------------
(* Selections of logs.                                                      *)

\* r is what s has at the places I.
Selection(r, s, I) == r = FlattenSeq([i \in DOMAIN s |-> IF i \in I THEN <<s[i]>> ELSE <<>>])

\* What is left of a sequence, as a set.
LEMMA SelectedSet ==
  ASSUME NEW s, IsSequence(s), NEW I, NEW r, Selection(r, s, I)
  PROVE  /\ r \in Seq(ToSet(s)) /\ \E c : Chosen(r, s, I, c)
         /\ \A x : x \in ToSet(r) <=> \E i \in DOMAIN s : i \in I /\ x = s[i]
  <1>1. r \in Seq(ToSet(s)) /\ \E c : Chosen(r, s, I, c)
    <2>1. s \in Seq(ToSet(s))
      BY DEF IsSequence
    <2>. QED  BY <2>1, Selected DEF Selection
  <1>2. PICK c : Chosen(r, s, I, c)
    BY <1>1
  <1>3. ASSUME NEW x PROVE x \in ToSet(r) <=> \E i \in DOMAIN s : i \in I /\ x = s[i]
    BY <1>2 DEF ToSet, Chosen
  <1>. QED  BY <1>1, <1>3

LEMMA SequenceSet ==
  ASSUME NEW X, NEW s \in Seq(X)
  PROVE  IsSequence(s) /\ ToSet(s) \subseteq X
  <1>1. \A i \in DOMAIN s : s[i] \in ToSet(s) /\ s[i] \in X
    BY DEF ToSet
  <1>2. DOMAIN s = 1..Len(s) /\ Len(s) \in Nat /\ s = [i \in 1..Len(s) |-> s[i]]
    OBVIOUS
  <1>3. s \in Seq(ToSet(s))
    BY <1>1, <1>2
  <1>. QED  BY <1>1, <1>3 DEF IsSequence, ToSet

LEMMA HeadIn ==
  ASSUME NEW X, NEW s \in Seq(X), s # <<>>
  PROVE  Head(s) \in ToSet(s)
  BY DEF ToSet

LEMMA Logged ==
  ASSUME NEW t, IsSequence(t.logs), NEW kind
  PROVE  /\ LogsOf(t, kind) \in Seq(ToSet(t.logs))
         /\ \A l : l \in ToSet(LogsOf(t, kind)) <=> l \in ToSet(t.logs) /\ l.kind = kind
  <1>. DEFINE s == t.logs
  <1>. DEFINE I == {i \in DOMAIN s : s[i].kind = kind}
  <1>. DEFINE r == LogsOf(t, kind)
  <1>1. Selection(r, s, I)
    <2>1. [i \in DOMAIN s |-> IF i \in I THEN <<s[i]>> ELSE <<>>]
            = [i \in DOMAIN s |-> IF s[i].kind = kind THEN <<s[i]>> ELSE <<>>]
      OBVIOUS
    <2>. QED  BY <2>1 DEF LogsOf, Select, Selection
  <1>2. (\A i \in DOMAIN s : i \in I <=> s[i].kind = kind) /\ IsSequence(s)
    OBVIOUS
  <1>. HIDE DEF s, I, r
  <1>3. /\ r \in Seq(ToSet(s))
        /\ \A x : x \in ToSet(r) <=> \E i \in DOMAIN s : i \in I /\ x = s[i]
    BY <1>1, <1>2, SelectedSet
  <1>4. \A l : l \in ToSet(s) <=> \E i \in DOMAIN s : l = s[i]
    BY DEF ToSet
  <1>5. \A l : l \in ToSet(r) <=> l \in ToSet(s) /\ l.kind = kind
    BY <1>2, <1>3, <1>4
  <1>. QED  BY <1>3, <1>5 DEF r, s

\* The events that a payment is recognised by.
LEMMA PaidIn ==
  ASSUME NEW t, IsSequence(t.logs), NEW contract, NEW receiver, Paid(t, contract, receiver) # <<>>
  PROVE  LET l == Head(Paid(t, contract, receiver))
         IN  l \in ToSet(t.logs) /\ l.kind = "paid" /\ l.to = receiver
  <1>. DEFINE s == LogsOf(t, "paid")
  <1>. DEFINE I == {i \in DOMAIN s : s[i].address = contract /\ s[i].to = receiver}
  <1>. DEFINE r == Paid(t, contract, receiver)
  <1>1. Selection(r, s, I)
    <2>1. [i \in DOMAIN s |-> IF i \in I THEN <<s[i]>> ELSE <<>>]
            = [i \in DOMAIN s |-> IF s[i].address = contract /\ s[i].to = receiver THEN <<s[i]>> ELSE <<>>]
      OBVIOUS
    <2>. QED  BY <2>1 DEF Paid, Select, Selection
  <1>2. \A i \in DOMAIN s : i \in I => s[i].to = receiver
    OBVIOUS
  <1>3. IsSequence(s) /\ \A l \in ToSet(s) : l \in ToSet(t.logs) /\ l.kind = "paid"
    BY Logged, SequenceSet
  <1>. HIDE DEF s, I, r
  <1>4. /\ r \in Seq(ToSet(s))
        /\ \A x : x \in ToSet(r) <=> \E i \in DOMAIN s : i \in I /\ x = s[i]
    BY <1>1, <1>3, SelectedSet
  <1>5. Head(r) \in ToSet(r)
    BY <1>4, HeadIn DEF r
  <1>6. Head(r) \in ToSet(s) /\ Head(r).to = receiver
    <2>1. PICK i \in DOMAIN s : i \in I /\ Head(r) = s[i]
      BY <1>4, <1>5
    <2>. QED  BY <1>2, <2>1 DEF ToSet
  <1>. QED  BY <1>3, <1>6 DEF r

PaidExactly(t, contract, receiver, value) ==
  Select(Paid(t, contract, receiver), LAMBDA l : l.value = value)

LEMMA PaidValue ==
  ASSUME NEW t, IsSequence(t.logs), NEW contract, NEW receiver, NEW value,
         PaidExactly(t, contract, receiver, value) # <<>>
  PROVE  \E l \in ToSet(t.logs) : l.kind = "paid" /\ l.to = receiver /\ l.value = value
  <1>. DEFINE u == LogsOf(t, "paid")
  <1>. DEFINE J == {i \in DOMAIN u : u[i].address = contract /\ u[i].to = receiver}
  <1>. DEFINE s == Paid(t, contract, receiver)
  <1>. DEFINE I == {i \in DOMAIN s : s[i].value = value}
  <1>. DEFINE r == PaidExactly(t, contract, receiver, value)
  <1>1. Selection(r, s, I)
    <2>1. [i \in DOMAIN s |-> IF i \in I THEN <<s[i]>> ELSE <<>>]
            = [i \in DOMAIN s |-> IF s[i].value = value THEN <<s[i]>> ELSE <<>>]
      OBVIOUS
    <2>. QED  BY <2>1 DEF PaidExactly, Select, Selection
  <1>2. Selection(s, u, J)
    <2>1. [i \in DOMAIN u |-> IF i \in J THEN <<u[i]>> ELSE <<>>]
            = [i \in DOMAIN u |-> IF u[i].address = contract /\ u[i].to = receiver THEN <<u[i]>> ELSE <<>>]
      OBVIOUS
    <2>. QED  BY <2>1 DEF Paid, Select, Selection
  <1>3. /\ \A i \in DOMAIN s : i \in I => s[i].value = value
        /\ \A i \in DOMAIN u : i \in J => u[i].to = receiver
    OBVIOUS
  <1>4. IsSequence(u) /\ \A l \in ToSet(u) : l \in ToSet(t.logs) /\ l.kind = "paid"
    BY Logged, SequenceSet
  <1>5. r # <<>>
    OBVIOUS
  <1>. HIDE DEF u, J, s, I, r
  <1>6. /\ s \in Seq(ToSet(u))
        /\ \A x : x \in ToSet(s) <=> \E i \in DOMAIN u : i \in J /\ x = u[i]
    BY <1>2, <1>4, SelectedSet
  <1>7. IsSequence(s)
    BY <1>6, SequenceSet
  <1>8. /\ r \in Seq(ToSet(s))
        /\ \A x : x \in ToSet(r) <=> \E i \in DOMAIN s : i \in I /\ x = s[i]
    BY <1>1, <1>7, SelectedSet
  <1>9. Head(r) \in ToSet(r)
    BY <1>5, <1>8, HeadIn
  <1>10. Head(r) \in ToSet(s) /\ Head(r).value = value
    <2>1. PICK i \in DOMAIN s : i \in I /\ Head(r) = s[i]
      BY <1>8, <1>9
    <2>. QED  BY <1>3, <2>1 DEF ToSet
  <1>11. Head(r) \in ToSet(u) /\ Head(r).to = receiver
    <2>1. PICK i \in DOMAIN u : i \in J /\ Head(r) = u[i]
      BY <1>6, <1>10
    <2>. QED  BY <1>3, <2>1 DEF ToSet
  <1>. QED  BY <1>4, <1>10, <1>11

LEMMA MovedIn ==
  ASSUME NEW t, IsSequence(t.logs), NEW token, NEW receiver, NEW value,
         Moved(t, token, receiver, value) # <<>>
  PROVE  \E l \in ToSet(t.logs) : l.address = token /\ l.to = receiver /\ l.value = value
  <1>. DEFINE s == LogsOf(t, "erc20")
  <1>. DEFINE I == {i \in DOMAIN s : s[i].address = token /\ s[i].to = receiver /\ s[i].value = value}
  <1>. DEFINE r == Moved(t, token, receiver, value)
  <1>1. Selection(r, s, I)
    <2>1. [i \in DOMAIN s |-> IF i \in I THEN <<s[i]>> ELSE <<>>]
            = [i \in DOMAIN s |-> IF s[i].address = token /\ s[i].to = receiver /\ s[i].value = value
                                  THEN <<s[i]>> ELSE <<>>]
      OBVIOUS
    <2>. QED  BY <2>1 DEF Moved, Select, Selection
  <1>2. \A i \in DOMAIN s : i \in I => s[i].address = token /\ s[i].to = receiver /\ s[i].value = value
    OBVIOUS
  <1>3. IsSequence(s) /\ \A l \in ToSet(s) : l \in ToSet(t.logs)
    BY Logged, SequenceSet
  <1>4. r # <<>>
    OBVIOUS
  <1>. HIDE DEF s, I, r
  <1>5. /\ r \in Seq(ToSet(s))
        /\ \A x : x \in ToSet(r) <=> \E i \in DOMAIN s : i \in I /\ x = s[i]
    BY <1>1, <1>3, SelectedSet
  <1>6. Head(r) \in ToSet(r)
    BY <1>4, <1>5, HeadIn
  <1>7. PICK i \in DOMAIN s : i \in I /\ Head(r) = s[i]
    BY <1>5, <1>6
  <1>8. s[i] \in ToSet(s)
    BY DEF ToSet
  <1>. QED  BY <1>2, <1>3, <1>7, <1>8

-----------------------------------------------------------------------------
(* The readers.                                                             *)

IsTransfer(x) ==
  x = [hash |-> x.hash, sender |-> x.sender, receiver |-> x.receiver, token |-> x.token,
       value |-> x.value, contract |-> x.contract, version |-> x.version, status |-> x.status]

\* The transfers of one transaction: they bear its id and, but for what
\* the Starknet router pays, different hashes.
Owned(s, id) == IsSequence(s) /\ \A n \in DOMAIN s : IsTransfer(s[n]) /\ s[n].hash[1] = id
Apart(s) == \A m, n \in DOMAIN s : s[m].hash = s[n].hash => m = n

LEMMA Changed ==
  ASSUME NEW x, IsTransfer(x), NEW v
  PROVE  LET y == [x EXCEPT !.status = v]
         IN  /\ IsTransfer(y) /\ y.hash = x.hash /\ y.sender = x.sender /\ y.receiver = x.receiver
             /\ y.token = x.token /\ y.value = x.value /\ y.contract = x.contract /\ y.status = v
  BY DEF IsTransfer

LEMMA Rehomed ==
  ASSUME NEW x, IsTransfer(x), NEW c
  PROVE  LET y == [x EXCEPT !.contract = c]
         IN  /\ IsTransfer(y) /\ y.hash = x.hash /\ y.receiver = x.receiver
             /\ y.token = x.token /\ y.value = x.value /\ y.status = x.status
  BY DEF IsTransfer

LEMMA Recontracted ==
  ASSUME NEW x, IsTransfer(x), NEW c, NEW v
  PROVE  [x EXCEPT !.contract = c, !.status = v] =
              [hash |-> x.hash, sender |-> x.sender, receiver |-> x.receiver, token |-> x.token,
               value |-> x.value, contract |-> c, version |-> x.version, status |-> v]
  <1>. DEFINE y == [x EXCEPT !.contract = c]
  <1>1. y = [hash |-> x.hash, sender |-> x.sender, receiver |-> x.receiver, token |-> x.token,
             value |-> x.value, contract |-> c, version |-> x.version, status |-> x.status]
    BY DEF IsTransfer
  <1>2. [x EXCEPT !.contract = c, !.status = v] = [y EXCEPT !.status = v]
    OBVIOUS
  <1>. HIDE DEF y
  <1>. QED  BY <1>1, <1>2

LEMMA Made ==
  ASSUME NEW t, NEW receiver, NEW token, NEW value
  PROVE  /\ Transfer(t, receiver, token, value) =
              [hash |-> <<t.id, None>>, sender |-> t.from, receiver |-> receiver, token |-> token,
               value |-> value, contract |-> None, version |-> None, status |-> BaseStatus(t)]
         /\ Through(t, receiver, token, value) =
              [hash |-> <<t.id, None>>, sender |-> t.from, receiver |-> receiver, token |-> token,
               value |-> value, contract |-> t.to, version |-> None, status |-> BaseStatus(t)]
  BY DEF Transfer, Through

LEMMA MadeOwned ==
  ASSUME NEW t, NEW receiver, NEW token, NEW value
  PROVE  /\ IsTransfer(Transfer(t, receiver, token, value))
         /\ Transfer(t, receiver, token, value).hash[1] = t.id
         /\ IsTransfer(Through(t, receiver, token, value))
         /\ Through(t, receiver, token, value).hash[1] = t.id
  BY Made DEF IsTransfer

LEMMA OwnedOne ==
  ASSUME NEW x, NEW id, IsTransfer(x), x.hash[1] = id
  PROVE  Owned(<<x>>, id) /\ Apart(<<x>>)
  <1>1. <<x>> \in Seq({x}) /\ DOMAIN <<x>> = {1} /\ <<x>>[1] = x
    OBVIOUS
  <1>. PICK s : s = <<x>>
    OBVIOUS
  <1>2. IsSequence(<<x>>)
    BY <1>1, SequenceSet
  <1>. QED  BY <1>1, <1>2 DEF Owned, Apart

LEMMA OwnedNone ==
  ASSUME NEW id
  PROVE  Owned(<<>>, id) /\ Apart(<<>>)
  <1>1. <<>> \in Seq({}) /\ DOMAIN <<>> = {}
    OBVIOUS
  <1>2. IsSequence(<<>>)
    BY <1>1, SequenceSet
  <1>3. PICK s : s = <<>>
    OBVIOUS
  <1>. QED  BY <1>1, <1>2, <1>3 DEF Owned, Apart

\* A list that is built place by place.
LEMMA OwnedList ==
  ASSUME NEW k \in Nat, NEW s, NEW id, DOMAIN s = 1..k, s = [n \in 1..k |-> s[n]],
         \A n \in 1..k : IsTransfer(s[n]) /\ s[n].hash[1] = id
  PROVE  Owned(s, id)
  <1>1. \A n \in 1..k : s[n] \in ToSet(s)
    BY DEF ToSet
  <1>2. s \in Seq(ToSet(s))
    BY <1>1
  <1>. QED  BY <1>2 DEF Owned, IsSequence

\* The readers of a token, of OBSource, of the first router, and of a transfer of
\* the main token.
LEMMA SimpleOwned ==
  ASSUME NEW t
  PROVE  /\ Owned(TokenTransfer(t), t.id) /\ Apart(TokenTransfer(t))
         /\ Owned(OBSource(t), t.id) /\ Apart(OBSource(t))
         /\ RouterV1(t) # Thrown => Owned(RouterV1(t), t.id) /\ Apart(RouterV1(t))
         /\ Owned(Direct(t), t.id) /\ Apart(Direct(t))
  <1>1. Owned(<<>>, t.id) /\ Apart(<<>>)
    BY OwnedNone
  <1>2. Owned(TokenTransfer(t), t.id) /\ Apart(TokenTransfer(t))
    <2>. DEFINE x == Transfer(t, t.call.to, t.to, t.call.value)
    <2>1. Owned(<<x>>, t.id) /\ Apart(<<x>>)
      BY MadeOwned, OwnedOne
    <2>. QED  BY <1>1, <2>1 DEF TokenTransfer
  <1>3. Owned(OBSource(t), t.id) /\ Apart(OBSource(t))
    <2>. DEFINE x == Through(t, t.call.to, Native, t.value)
    <2>. DEFINE y == Through(t, t.call.to, t.call.token, t.call.value)
    <2>1. Owned(<<x>>, t.id) /\ Apart(<<x>>) /\ Owned(<<y>>, t.id) /\ Apart(<<y>>)
      BY MadeOwned, OwnedOne
    <2>2. OBSource(t) \in {<<x>>, <<y>>, <<>>}
      BY DEF OBSource
    <2>. QED  BY <1>1, <2>1, <2>2
  <1>4. RouterV1(t) # Thrown => Owned(RouterV1(t), t.id) /\ Apart(RouterV1(t))
    <2>. DEFINE x == Through(t, t.call.to, t.call.token, t.call.value)
    <2>1. Owned(<<x>>, t.id) /\ Apart(<<x>>)
      BY MadeOwned, OwnedOne
    <2>2. RouterV1(t) \in {<<x>>, <<>>, Thrown}
      BY DEF RouterV1
    <2>. QED  BY <1>1, <2>1, <2>2
  <1>5. Owned(Direct(t), t.id) /\ Apart(Direct(t))
    <2>. DEFINE x == Transfer(t, t.to, Native, t.value)
    <2>. DEFINE y == [x EXCEPT !.version = "3"]
    <2>1. IsTransfer(x) /\ x.hash[1] = t.id
      BY MadeOwned
    <2>. HIDE DEF x
    <2>2. IsTransfer(y) /\ y.hash[1] = t.id
      BY <2>1 DEF IsTransfer
    <2>. HIDE DEF y
    <2>3. Owned(<<x>>, t.id) /\ Apart(<<x>>) /\ Owned(<<y>>, t.id) /\ Apart(<<y>>)
      BY <2>1, <2>2, OwnedOne
    <2>4. Direct(t) \in {<<x>>, <<y>>, <<>>}
      BY DEF Direct, x, y
    <2>. QED  BY <1>1, <2>3, <2>4
  <1>. QED  BY <1>2, <1>3, <1>4, <1>5

\* The parsers that look for the event.
LEMMA CheckedIs ==
  ASSUME NEW t, NEW contract, NEW call
  PROVE  LET s == Seen(t, Paid(t, contract, call.to))
         IN  /\ V3Transfer(contract, t, call) =
                  [hash |-> <<t.id, None>>, sender |-> t.from, receiver |-> call.to,
                   token |-> IF t.value > 0 THEN Native ELSE None,
                   value |-> IF s = "confirmed" THEN Head(Paid(t, contract, call.to)).value ELSE None,
                   contract |-> contract, version |-> None, status |-> s]
             /\ V3TransferToken(contract, t, call) =
                  [hash |-> <<t.id, None>>, sender |-> t.from, receiver |-> call.to,
                   token |-> call.token, value |-> call.value, contract |-> contract,
                   version |-> None, status |-> Seen(t, Moved(t, call.token, call.to, call.value))]
  <1>. DEFINE s == Seen(t, Paid(t, contract, call.to))
  <1>. DEFINE k == IF t.value > 0 THEN Native ELSE None
  <1>. DEFINE v == IF s = "confirmed" THEN Head(Paid(t, contract, call.to)).value ELSE None
  <1>. DEFINE w == Seen(t, Moved(t, call.token, call.to, call.value))
  <1>. DEFINE x == Through(t, call.to, k, v)
  <1>. DEFINE y == Through(t, call.to, call.token, call.value)
  <1>1. /\ V3Transfer(contract, t, call) = [x EXCEPT !.contract = contract, !.status = s]
        /\ V3TransferToken(contract, t, call) = [y EXCEPT !.contract = contract, !.status = w]
    BY DEF V3Transfer, V3TransferToken
  <1>2. IsTransfer(x) /\ IsTransfer(y)
    BY MadeOwned
  <1>3. /\ x.hash = <<t.id, None>> /\ x.sender = t.from /\ x.receiver = call.to /\ x.token = k
        /\ x.value = v /\ x.version = None
        /\ y.hash = <<t.id, None>> /\ y.sender = t.from /\ y.receiver = call.to
        /\ y.token = call.token /\ y.value = call.value /\ y.version = None
    <2>. HIDE DEF k, v
    <2>. QED  BY Made
  <1>. HIDE DEF x, y, s, k, v, w
  <1>4. /\ [x EXCEPT !.contract = contract, !.status = s] =
             [hash |-> x.hash, sender |-> x.sender, receiver |-> x.receiver, token |-> x.token,
              value |-> x.value, contract |-> contract, version |-> x.version, status |-> s]
        /\ [y EXCEPT !.contract = contract, !.status = w] =
             [hash |-> y.hash, sender |-> y.sender, receiver |-> y.receiver, token |-> y.token,
              value |-> y.value, contract |-> contract, version |-> y.version, status |-> w]
    BY <1>2, Recontracted
  <1>. QED  BY <1>1, <1>3, <1>4 DEF s, k, v, w

LEMMA CheckedOwned ==
  ASSUME NEW t, NEW contract, NEW call
  PROVE  /\ IsTransfer(V3Transfer(contract, t, call)) /\ V3Transfer(contract, t, call).hash[1] = t.id
         /\ IsTransfer(V3TransferToken(contract, t, call)) /\ V3TransferToken(contract, t, call).hash[1] = t.id
  BY CheckedIs DEF IsTransfer

LEMMA ParseOwned ==
  ASSUME NEW t
  PROVE  Owned(Parse(t), t.id) /\ Apart(Parse(t))
  <1>1. Owned(<<>>, t.id) /\ Apart(<<>>)
    BY OwnedNone
  <1>. DEFINE k == t.call
  <1>. DEFINE x == V3Transfer(t.to, t, k)
  <1>. DEFINE y == V3TransferToken(t.to, t, k)
  <1>2. Owned(<<x>>, t.id) /\ Apart(<<x>>) /\ Owned(<<y>>, t.id) /\ Apart(<<y>>)
    <2>1. IsTransfer(x) /\ x.hash[1] = t.id /\ IsTransfer(y) /\ y.hash[1] = t.id
      <3>. HIDE DEF k
      <3>. QED  BY CheckedOwned
    <2>. HIDE DEF x, y
    <2>. QED  BY <2>1, OwnedOne
  <1>3. Owned(BridgeToV2(t), t.id) /\ Apart(BridgeToV2(t))
    <2>. DEFINE router == (CHOOSE c \in Routers : TRUE).address
    <2>. DEFINE s1 == Seen(t, Select(Paid(t, router, t.call.to), LAMBDA l : l.value = t.value))
    <2>. DEFINE s2 == Seen(t, Moved(t, t.call.token, t.call.to, t.call.value))
    <2>. DEFINE u == Through(t, t.call.to, Native, t.value)
    <2>. DEFINE v == Through(t, t.call.to, t.call.token, t.call.value)
    <2>. DEFINE p == [u EXCEPT !.status = s1]
    <2>. DEFINE q == [v EXCEPT !.status = s2]
    <2>1. BridgeToV2(t) \in {<<p>>, <<q>>, <<>>}
      BY DEF BridgeToV2
    <2>2. IsTransfer(u) /\ u.hash[1] = t.id /\ IsTransfer(v) /\ v.hash[1] = t.id
      BY MadeOwned
    <2>. HIDE DEF u, v, s1, s2
    <2>3. IsTransfer(p) /\ p.hash[1] = t.id /\ IsTransfer(q) /\ q.hash[1] = t.id
      <3>1. IsTransfer(p) /\ p.hash = u.hash
        BY <2>2, Changed
      <3>2. IsTransfer(q) /\ q.hash = v.hash
        BY <2>2, Changed
      <3>. QED  BY <2>2, <3>1, <3>2
    <2>. HIDE DEF p, q
    <2>4. Owned(<<p>>, t.id) /\ Apart(<<p>>) /\ Owned(<<q>>, t.id) /\ Apart(<<q>>)
      BY <2>3, OwnedOne
    <2>. QED  BY <1>1, <2>1, <2>4
  <1>4. Owned(Cross(t), t.id) /\ Apart(Cross(t))
    <2>. DEFINE a == V3TransferToken(t.call.via, t, t.call.inner)
    <2>. DEFINE b == V3Transfer(t.call.via, t, t.call.inner)
    <2>. DEFINE c == Through(t, t.to, None, None)
    <2>. DEFINE p == [a EXCEPT !.contract = t.to]
    <2>. DEFINE q == [b EXCEPT !.contract = t.to]
    <2>. DEFINE r == [c EXCEPT !.status = "pending"]
    <2>1. Cross(t) \in {<<p>>, <<q>>, <<r>>, <<>>}
      BY DEF Cross
    <2>2. IsTransfer(a) /\ IsTransfer(b) /\ a.hash[1] = t.id /\ b.hash[1] = t.id
      <3>. DEFINE i == t.call.inner
      <3>. HIDE DEF i
      <3>1. \A d : /\ IsTransfer(V3Transfer(d, t, i)) /\ V3Transfer(d, t, i).hash[1] = t.id
                   /\ IsTransfer(V3TransferToken(d, t, i)) /\ V3TransferToken(d, t, i).hash[1] = t.id
        BY CheckedOwned
      <3>. QED  BY <3>1 DEF i
    <2>3. IsTransfer(c) /\ c.hash[1] = t.id
      BY MadeOwned
    <2>. HIDE DEF a, b, c
    <2>4. IsTransfer(r) /\ r.hash[1] = t.id
      <3>1. IsTransfer(r) /\ r.hash = c.hash
        BY <2>3, Changed
      <3>. QED  BY <2>3, <3>1
    <2>6. IsTransfer(p) /\ p.hash = a.hash /\ IsTransfer(q) /\ q.hash = b.hash
      BY <2>2, Rehomed
    <2>. HIDE DEF p, q, r
    <2>5. /\ Owned(<<p>>, t.id) /\ Apart(<<p>>) /\ Owned(<<q>>, t.id) /\ Apart(<<q>>)
          /\ Owned(<<r>>, t.id) /\ Apart(<<r>>)
      BY <2>2, <2>4, <2>6, OwnedOne
    <2>. QED  BY <1>1, <2>1, <2>5
  <1>5. Parse(t) \in {<<x>>, <<y>>, BridgeToV2(t), Cross(t), <<>>}
    BY DEF Parse
  <1>. QED  BY <1>1, <1>2, <1>3, <1>4, <1>5

\* The places that a list of numbers keeps.
LEMMA Places ==
  ASSUME NEW k \in Nat, NEW I, NEW r, Selection(r, [i \in 1..k |-> i], I)
  PROVE  /\ r \in Seq(1..k)
         /\ \A p \in DOMAIN r : r[p] \in 1..k /\ r[p] \in I
         /\ \A p, q \in DOMAIN r : r[p] = r[q] => p = q
         /\ \A i \in 1..k : i \in I => \E p \in DOMAIN r : r[p] = i
  <1>. DEFINE s == [i \in 1..k |-> i]
  <1>1. s \in Seq(1..k) /\ DOMAIN s = 1..k /\ \A i \in 1..k : s[i] = i
    OBVIOUS
  <1>2. Selection(r, s, I)
    OBVIOUS
  <1>. HIDE DEF s
  <1>3. r \in Seq(1..k) /\ \E c : Chosen(r, s, I, c)
    <2>1. r = FlattenSeq([i \in DOMAIN s |-> IF i \in I THEN <<s[i]>> ELSE <<>>])
      BY <1>2 DEF Selection
    <2>2. s \in Seq(1..k)
      BY <1>1
    <2>. QED  BY <2>1, <2>2, Selected
  <1>4. PICK c : Chosen(r, s, I, c)
    BY <1>3
  <1>5. \A p \in DOMAIN r : c[p] \in 1..k /\ c[p] \in I /\ r[p] = c[p]
    BY <1>1, <1>4 DEF Chosen
  <1>6. \A p, q \in DOMAIN r : c[p] = c[q] => p = q
    BY <1>4 DEF Chosen
  <1>7. \A i \in 1..k : i \in I => \E p \in DOMAIN r : c[p] = i
    BY <1>1, <1>4 DEF Chosen
  <1>. QED  BY <1>3, <1>5, <1>6, <1>7

LEMMA ShownIs ==
  ASSUME NEW t, NEW l
  PROVE  LET x == Shown(t, l)
         IN  /\ IsTransfer(x) /\ x.hash[1] = t.id
             /\ x.receiver = l.to /\ x.value = l.value /\ x.status = BaseStatus(t)
  <1>. DEFINE u == Through(t, l.to, Native, l.value)
  <1>. DEFINE v == Through(t, l.to, t.call.token, l.value)
  <1>1. /\ IsTransfer(u) /\ u.hash[1] = t.id /\ u.receiver = l.to /\ u.value = l.value
        /\ u.status = BaseStatus(t)
        /\ IsTransfer(v) /\ v.hash[1] = t.id /\ v.receiver = l.to /\ v.value = l.value
        /\ v.status = BaseStatus(t)
    BY Made, MadeOwned
  <1>2. Shown(t, l) \in {u, [v EXCEPT !.sender = l.from]}
    BY DEF Shown
  <1>. HIDE DEF u, v
  <1>. DEFINE y == [v EXCEPT !.sender = l.from]
  <1>3. /\ IsTransfer(y) /\ y.hash = v.hash /\ y.receiver = v.receiver /\ y.value = v.value
        /\ y.status = v.status
    BY <1>1 DEF IsTransfer
  <1>. HIDE DEF y
  <1>4. Shown(t, l) = u \/ Shown(t, l) = y
    BY <1>2 DEF y
  <1>5. PICK x : x = Shown(t, l)
    OBVIOUS
  <1>. QED  BY <1>1, <1>3, <1>4, <1>5

LEMMA Rehashed ==
  ASSUME NEW x, IsTransfer(x), NEW h
  PROVE  LET y == [x EXCEPT !.hash = h]
         IN  /\ IsTransfer(y) /\ y.hash = h /\ y.receiver = x.receiver /\ y.value = x.value
             /\ y.status = x.status /\ y.sender = x.sender
  BY DEF IsTransfer

\* The transfers of a batch, one for each of its logs.
LEMMA BatchIs ==
  ASSUME NEW t, IsSequence(t.logs), t.first \in Nat, NEW kind, Batch(t, kind) # Thrown
  PROVE  /\ Owned(Batch(t, kind), t.id) /\ Apart(Batch(t, kind))
         /\ \A i \in DOMAIN t.logs : t.logs[i].kind = kind =>
              \E n \in DOMAIN Batch(t, kind) : LET x == Batch(t, kind)[n] IN
                x.receiver = t.logs[i].to /\ x.value = t.logs[i].value /\ x.status = BaseStatus(t)
  <1>. DEFINE L == Len(t.logs)
  <1>. DEFINE I == {i \in 1..L : t.logs[i].kind = kind}
  <1>. DEFINE hits == Select([i \in 1..L |-> i], LAMBDA i : t.logs[i].kind = kind)
  <1>. DEFINE x(n) == [Shown(t, t.logs[hits[n]]) EXCEPT !.hash = <<t.id, t.first + hits[n] - 1>>]
  <1>. DEFINE b == Batch(t, kind)
  <1>1. b = [n \in 1..Len(hits) |-> x(n)]
    BY DEF Batch
  <1>2. L \in Nat /\ DOMAIN t.logs = 1..L
    BY DEF IsSequence
  <1>3. Selection(hits, [i \in 1..L |-> i], I)
    <2>. DEFINE s == [i \in 1..L |-> i]
    <2>1. DOMAIN s = 1..L /\ \A i \in 1..L : s[i] = i
      OBVIOUS
    <2>2. hits = FlattenSeq([i \in DOMAIN s |-> IF t.logs[s[i]].kind = kind THEN <<s[i]>> ELSE <<>>])
      BY DEF Select
    <2>. HIDE DEF s
    <2>3. [i \in DOMAIN s |-> IF t.logs[s[i]].kind = kind THEN <<s[i]>> ELSE <<>>]
            = [i \in DOMAIN s |-> IF i \in I THEN <<s[i]>> ELSE <<>>]
      BY <2>1
    <2>4. Selection(hits, s, I)
      BY <2>2, <2>3 DEF Selection
    <2>. QED  BY <2>4 DEF s
  <1>4. \A i \in 1..L : i \in I <=> t.logs[i].kind = kind
    OBVIOUS
  <1>. HIDE DEF hits, I, L, b
  <1>5. /\ hits \in Seq(1..L)
        /\ \A p \in DOMAIN hits : hits[p] \in 1..L /\ hits[p] \in I
        /\ \A p, q \in DOMAIN hits : hits[p] = hits[q] => p = q
        /\ \A i \in 1..L : i \in I => \E p \in DOMAIN hits : hits[p] = i
    BY <1>2, <1>3, Places
  <1>6. DOMAIN hits = 1..Len(hits) /\ Len(hits) \in Nat
    BY <1>5
  <1>7. \A n \in 1..Len(hits) :
          /\ IsTransfer(b[n]) /\ b[n].hash = <<t.id, t.first + hits[n] - 1>>
          /\ b[n].receiver = t.logs[hits[n]].to /\ b[n].value = t.logs[hits[n]].value
          /\ b[n].status = BaseStatus(t)
    <2>. SUFFICES ASSUME NEW n \in 1..Len(hits)
                  PROVE  /\ IsTransfer(b[n]) /\ b[n].hash = <<t.id, t.first + hits[n] - 1>>
                         /\ b[n].receiver = t.logs[hits[n]].to /\ b[n].value = t.logs[hits[n]].value
                         /\ b[n].status = BaseStatus(t)
      OBVIOUS
    <2>1. PICK y : y = Shown(t, t.logs[hits[n]])
      OBVIOUS
    <2>2. PICK h : h = <<t.id, t.first + hits[n] - 1>>
      OBVIOUS
    <2>3. b[n] = [y EXCEPT !.hash = h]
      BY <1>1, <2>1, <2>2
    <2>4. /\ IsTransfer(y) /\ y.receiver = t.logs[hits[n]].to /\ y.value = t.logs[hits[n]].value
          /\ y.status = BaseStatus(t)
      BY <2>1, ShownIs
    <2>5. PICK z : z = [y EXCEPT !.hash = h]
      OBVIOUS
    <2>6. IsTransfer(z) /\ z.hash = h /\ z.receiver = y.receiver /\ z.value = y.value /\ z.status = y.status
      BY <2>4, <2>5, Rehashed
    <2>. QED  BY <2>2, <2>3, <2>4, <2>5, <2>6
  <1>8. DOMAIN b = 1..Len(hits) /\ b = [n \in 1..Len(hits) |-> b[n]]
    BY <1>1
  <1>9. Owned(b, t.id)
    <2>1. \A n \in 1..Len(hits) : IsTransfer(b[n]) /\ b[n].hash[1] = t.id
      BY <1>7
    <2>. QED  BY <1>6, <1>8, <2>1, OwnedList
  <1>10. Apart(b)
    <2>1. ASSUME NEW m \in 1..Len(hits), NEW n \in 1..Len(hits), b[m].hash = b[n].hash PROVE m = n
      <3>1. <<t.id, t.first + hits[m] - 1>> = <<t.id, t.first + hits[n] - 1>>
        BY <1>7, <2>1
      <3>2. t.first + hits[m] - 1 = t.first + hits[n] - 1
        BY <3>1
      <3>3. hits[m] \in Int /\ hits[n] \in Int
        BY <1>2, <1>5, <1>6
      <3>4. hits[m] = hits[n]
        BY <3>2, <3>3
      <3>. QED  BY <1>5, <1>6, <3>4
    <2>. QED  BY <1>8, <2>1 DEF Apart
  <1>11. ASSUME NEW i \in DOMAIN t.logs, t.logs[i].kind = kind
         PROVE  \E n \in DOMAIN b : b[n].receiver = t.logs[i].to /\ b[n].value = t.logs[i].value
                                    /\ b[n].status = BaseStatus(t)
    <2>1. PICK n \in DOMAIN hits : hits[n] = i
      BY <1>2, <1>4, <1>5, <1>11
    <2>. QED  BY <1>6, <1>7, <1>8, <2>1
  <1>. QED  BY <1>9, <1>10, <1>11 DEF b

LEMMA Rehashed3 ==
  ASSUME NEW x, IsTransfer(x), NEW h
  PROVE  LET y == [x EXCEPT !.hash = h, !.version = "3"]
         IN  /\ IsTransfer(y) /\ y.hash = h /\ y.receiver = x.receiver /\ y.value = x.value
             /\ y.status = x.status
  <1>. DEFINE z == [x EXCEPT !.hash = h]
  <1>. DEFINE y == [z EXCEPT !.version = "3"]
  <1>1. /\ IsTransfer(z) /\ z.hash = h /\ z.receiver = x.receiver /\ z.value = x.value
        /\ z.status = x.status
    BY Rehashed
  <1>2. [x EXCEPT !.hash = h, !.version = "3"] = y
    OBVIOUS
  <1>. HIDE DEF z
  <1>3. /\ IsTransfer(y) /\ y.hash = z.hash /\ y.receiver = z.receiver /\ y.value = z.value
        /\ y.status = z.status
    BY <1>1 DEF IsTransfer
  <1>. HIDE DEF y
  <1>. QED  BY <1>1, <1>2, <1>3

\* The transfers of a batch of inscriptions, one for each event that has a note.
LEMMA InscriptionsIs ==
  ASSUME NEW t, IsSequence(t.logs), Inscriptions(t) # Thrown
  PROVE  /\ Owned(Inscriptions(t), t.id) /\ Apart(Inscriptions(t))
         /\ t.call.method = "crossTransfers" =>
              \A i \in DOMAIN LogsOf(t, "paid") : t.call.notes[i] # None =>
                \E n \in DOMAIN Inscriptions(t) : LET x == Inscriptions(t)[n] IN
                  /\ x.receiver = LogsOf(t, "paid")[i].to /\ x.value = LogsOf(t, "paid")[i].value
                  /\ x.status = BaseStatus(t)
  <1>. DEFINE hits == LogsOf(t, "paid")
  <1>. DEFINE L == Len(hits)
  <1>. DEFINE I == {i \in 1..L : t.call.notes[i] # None}
  <1>. DEFINE kept == Select([i \in 1..L |-> i], LAMBDA i : t.call.notes[i] # None)
  <1>. DEFINE x(n) == [Through(t, hits[kept[n]].to, Native, hits[kept[n]].value)
                        EXCEPT !.hash = <<t.id, n - 1>>, !.version = "3"]
  <1>. DEFINE b == Inscriptions(t)
  <1>0. CASE t.call.method # "crossTransfers"
    <2>1. Inscriptions(t) = <<>>
      BY <1>0 DEF Inscriptions
    <2>. QED  BY <1>0, <2>1, OwnedNone
  <1>1. CASE t.call.method = "crossTransfers"
    <2>1. b = [n \in 1..Len(kept) |-> x(n)]
      BY <1>1 DEF Inscriptions
    <2>2. L \in Nat /\ DOMAIN hits = 1..L
      BY Logged
    <2>3. Selection(kept, [i \in 1..L |-> i], I)
      <3>. DEFINE s == [i \in 1..L |-> i]
      <3>1. DOMAIN s = 1..L /\ \A i \in 1..L : s[i] = i
        OBVIOUS
      <3>2. kept = FlattenSeq([i \in DOMAIN s |-> IF t.call.notes[s[i]] # None THEN <<s[i]>> ELSE <<>>])
        BY DEF Select
      <3>. HIDE DEF s
      <3>3. [i \in DOMAIN s |-> IF t.call.notes[s[i]] # None THEN <<s[i]>> ELSE <<>>]
              = [i \in DOMAIN s |-> IF i \in I THEN <<s[i]>> ELSE <<>>]
        BY <3>1
      <3>4. Selection(kept, s, I)
        BY <3>2, <3>3 DEF Selection
      <3>. QED  BY <3>4 DEF s
    <2>4. \A i \in 1..L : i \in I <=> t.call.notes[i] # None
      OBVIOUS
    <2>. HIDE DEF kept, I, L, b, hits
    <2>5. /\ kept \in Seq(1..L)
          /\ \A p \in DOMAIN kept : kept[p] \in 1..L /\ kept[p] \in I
          /\ \A p, q \in DOMAIN kept : kept[p] = kept[q] => p = q
          /\ \A i \in 1..L : i \in I => \E p \in DOMAIN kept : kept[p] = i
      BY <2>2, <2>3, Places
    <2>6. DOMAIN kept = 1..Len(kept) /\ Len(kept) \in Nat
      BY <2>5
    <2>7. ASSUME NEW n \in 1..Len(kept)
          PROVE  /\ IsTransfer(b[n]) /\ b[n].hash = <<t.id, n - 1>>
                 /\ b[n].receiver = hits[kept[n]].to /\ b[n].value = hits[kept[n]].value
                 /\ b[n].status = BaseStatus(t)
      <3>1. PICK y : y = Through(t, hits[kept[n]].to, Native, hits[kept[n]].value)
        OBVIOUS
      <3>2. PICK h : h = <<t.id, n - 1>>
        OBVIOUS
      <3>3. b[n] = [y EXCEPT !.hash = h, !.version = "3"]
        BY <2>1, <3>1, <3>2
      <3>4. /\ IsTransfer(y) /\ y.receiver = hits[kept[n]].to /\ y.value = hits[kept[n]].value
            /\ y.status = BaseStatus(t)
        BY <3>1, Made, MadeOwned
      <3>5. PICK z : z = [y EXCEPT !.hash = h, !.version = "3"]
        OBVIOUS
      <3>6. IsTransfer(z) /\ z.hash = h /\ z.receiver = y.receiver /\ z.value = y.value /\ z.status = y.status
        BY <3>4, <3>5, Rehashed3
      <3>. QED  BY <3>2, <3>3, <3>4, <3>5, <3>6
    <2>8. DOMAIN b = 1..Len(kept) /\ b = [n \in 1..Len(kept) |-> b[n]]
      BY <2>1
    <2>9. Owned(b, t.id)
      <3>1. \A n \in 1..Len(kept) : IsTransfer(b[n]) /\ b[n].hash[1] = t.id
        BY <2>7
      <3>. QED  BY <2>6, <2>8, <3>1, OwnedList
    <2>10. Apart(b)
      <3>1. ASSUME NEW m \in 1..Len(kept), NEW n \in 1..Len(kept), b[m].hash = b[n].hash PROVE m = n
        <4>1. <<t.id, m - 1>> = <<t.id, n - 1>>
          BY <2>7, <3>1
        <4>2. m - 1 = n - 1 /\ m \in Int /\ n \in Int
          BY <2>6, <4>1
        <4>. QED  BY <4>2
      <3>. QED  BY <2>8, <3>1 DEF Apart
    <2>11. ASSUME NEW i \in DOMAIN hits, t.call.notes[i] # None
           PROVE  \E n \in DOMAIN b : b[n].receiver = hits[i].to /\ b[n].value = hits[i].value
                                      /\ b[n].status = BaseStatus(t)
      <3>1. PICK n \in DOMAIN kept : kept[n] = i
        BY <2>2, <2>4, <2>5, <2>11
      <3>. QED  BY <2>6, <2>7, <2>8, <3>1
    <2>. QED  BY <2>9, <2>10, <2>11 DEF b, hits
  <1>. QED  BY <1>0, <1>1

\* Every reader of the EVM services.
LEMMA ReadOwned ==
  ASSUME NEW t, IsSequence(t.logs), t.first \in Nat, Read(t) # Thrown
  PROVE  Owned(Read(t), t.id) /\ Apart(Read(t))
  <1>1. Owned(<<>>, t.id) /\ Apart(<<>>)
    BY OwnedNone
  <1>2. ASSUME NEW kind, First(t, kind) # Thrown PROVE Owned(First(t, kind), t.id) /\ Apart(First(t, kind))
    <2>. DEFINE x == Shown(t, Head(t.logs))
    <2>1. First(t, kind) = <<x>>
      BY <1>2 DEF First
    <2>2. IsTransfer(x) /\ x.hash[1] = t.id
      <3>1. PICK l : l = Head(t.logs)
        OBVIOUS
      <3>. QED  BY <3>1, ShownIs
    <2>. HIDE DEF x
    <2>. QED  BY <2>1, <2>2, OwnedOne
  <1>3. RouterV3(t) # Thrown => Owned(RouterV3(t), t.id) /\ Apart(RouterV3(t))
    <2>1. \A kind : Batch(t, kind) # Thrown => Owned(Batch(t, kind), t.id) /\ Apart(Batch(t, kind))
      BY BatchIs
    <2>2. \/ \E kind : RouterV3(t) = Batch(t, kind)
          \/ \E kind : RouterV3(t) = First(t, kind)
          \/ RouterV3(t) \in {<<>>, Thrown}
      BY DEF RouterV3
    <2>. QED  BY <1>1, <1>2, <2>1, <2>2
  <1>4. Read(t) \in {TokenTransfer(t), Direct(t), OBSource(t), RouterV1(t), Parse(t), RouterV3(t),
                     Inscriptions(t), <<>>}
    BY DEF Read
  <1>. QED  BY <1>1, <1>3, <1>4, SimpleOwned, ParseOwned, InscriptionsIs

\* What is done with a transfer once it is read.
LEMMA Finished ==
  ASSUME NEW t, NEW x, IsTransfer(x)
  PROVE  LET y == Finish(t, x)
         IN  /\ IsTransfer(y) /\ y.hash = x.hash /\ y.sender = x.sender /\ y.receiver = x.receiver
             /\ y.token = x.token /\ y.value = x.value
             /\ y.status = "confirmed" => Executed(t) /\ x.status = "confirmed"
             /\ Executed(t) => y.status = x.status
  BY Changed DEF Finish

LEMMA EraFinished ==
  ASSUME NEW t, NEW x, IsTransfer(x)
  PROVE  LET y == EraAfter(t, x)
         IN  /\ IsTransfer(y) /\ y.hash = x.hash /\ y.sender = x.sender /\ y.receiver = x.receiver
             /\ y.token = x.token /\ y.value = x.value
             /\ y.status = "confirmed" =>
                  x.status = "confirmed" /\ \E p : Event(t, p, x.receiver, x.value)
  <1>. DEFINE payer == IF x.token = Native /\ x.contract # None /\ Mapped(x.contract)
                       THEN x.contract ELSE x.sender
  <1>. DEFINE z == [x EXCEPT !.status = "failed"]
  <1>1. EraAfter(t, x) = IF x.status = "confirmed" /\ ~Event(t, payer, x.receiver, x.value) THEN z ELSE x
    BY DEF EraAfter
  <1>. HIDE DEF payer
  <1>2. /\ IsTransfer(z) /\ z.hash = x.hash /\ z.sender = x.sender /\ z.receiver = x.receiver
        /\ z.token = x.token /\ z.value = x.value /\ z.status = "failed"
    BY Changed
  <1>. HIDE DEF z
  <1>. QED  BY <1>1, <1>2

\* What the EVM services make of what is read.
LEMMA EvmIs ==
  ASSUME NEW t, NEW net, net # "starknet", IsSequence(t.logs), t.first \in Nat, Transfers(net, t) # Thrown
  PROVE  LET s == Transfers(net, t) IN
         /\ Owned(s, t.id) /\ Apart(s) /\ Read(t) # Thrown /\ DOMAIN s = DOMAIN Read(t)
         /\ \A n \in DOMAIN s :
              /\ s[n].receiver = Read(t)[n].receiver /\ s[n].value = Read(t)[n].value
              /\ s[n].token = Read(t)[n].token
              /\ s[n].status = "confirmed" => Executed(t) /\ Read(t)[n].status = "confirmed"
              /\ s[n].status = "confirmed" /\ net = "era" =>
                   \E p : Event(t, p, Read(t)[n].receiver, Read(t)[n].value)
              /\ net \in {"v6", "v5"} /\ Executed(t) => s[n].status = Read(t)[n].status
  <1>. DEFINE s == Transfers(net, t)
  <1>. DEFINE R == Read(t)
  <1>1. /\ R # Thrown
        /\ s = [n \in DOMAIN R |-> IF net = "era" THEN EraAfter(t, Finish(t, R[n])) ELSE Finish(t, R[n])]
    BY DEF Transfers, TransfersV6, TransfersV5
  <1>2. Owned(R, t.id) /\ Apart(R)
    BY <1>1, ReadOwned
  <1>. HIDE DEF R, s
  <1>3. DOMAIN s = DOMAIN R /\ \E k \in Nat : DOMAIN R = 1..k /\ s = [n \in 1..k |-> s[n]]
    BY <1>1, <1>2 DEF Owned, IsSequence
  <1>4. ASSUME NEW n \in DOMAIN R
        PROVE  /\ IsTransfer(s[n]) /\ s[n].hash = R[n].hash
               /\ s[n].receiver = R[n].receiver /\ s[n].value = R[n].value /\ s[n].token = R[n].token
               /\ s[n].status = "confirmed" => Executed(t) /\ R[n].status = "confirmed"
               /\ s[n].status = "confirmed" /\ net = "era" =>
                    \E p : Event(t, p, R[n].receiver, R[n].value)
               /\ net # "era" /\ Executed(t) => s[n].status = R[n].status
    <2>1. IsTransfer(R[n])
      BY <1>2 DEF Owned
    <2>. DEFINE y == Finish(t, R[n])
    <2>2. /\ IsTransfer(y) /\ y.hash = R[n].hash /\ y.receiver = R[n].receiver
          /\ y.token = R[n].token /\ y.value = R[n].value
          /\ y.status = "confirmed" => Executed(t) /\ R[n].status = "confirmed"
          /\ Executed(t) => y.status = R[n].status
      BY <2>1, Finished
    <2>. DEFINE z == EraAfter(t, y)
    <2>3. s[n] = IF net = "era" THEN z ELSE y
      BY <1>1
    <2>. HIDE DEF y
    <2>4. /\ IsTransfer(z) /\ z.hash = y.hash /\ z.receiver = y.receiver
          /\ z.token = y.token /\ z.value = y.value
          /\ z.status = "confirmed" =>
               y.status = "confirmed" /\ \E p : Event(t, p, y.receiver, y.value)
      BY <2>2, EraFinished
    <2>. HIDE DEF z
    <2>5. CASE net = "era"
      BY <2>2, <2>3, <2>4, <2>5
    <2>6. CASE net # "era"
      BY <2>2, <2>3, <2>6
    <2>. QED  BY <2>5, <2>6
  <1>5. Owned(s, t.id)
    <2>1. \A n \in DOMAIN R : IsTransfer(s[n]) /\ s[n].hash[1] = t.id
      BY <1>2, <1>4 DEF Owned
    <2>2. PICK k \in Nat : DOMAIN R = 1..k /\ s = [n \in 1..k |-> s[n]]
      BY <1>3
    <2>. QED  BY <1>3, <2>1, <2>2, OwnedList
  <1>6. Apart(s)
    BY <1>2, <1>3, <1>4 DEF Apart
  <1>. QED  BY <1>1, <1>3, <1>4, <1>5, <1>6 DEF s, R

\* The calls of an invoke are told apart by their numbers.
LEMMA DecodedApart ==
  ASSUME NEW t, IsSequence(t.calls)
  PROVE  /\ IsSequence(Decoded(t))
         /\ \A p, q \in DOMAIN Decoded(t) : Decoded(t)[p].index = Decoded(t)[q].index => p = q
  <1>. DEFINE Numbered(d) == IsSequence(d) /\ \A p, q \in DOMAIN d : d[p].index = d[q].index => p = q
  <1>0. Numbered(<<>>)
    <2>1. PICK d : d = <<>>
      OBVIOUS
    <2>2. DOMAIN d = {}
      BY <2>1
    <2>. QED  BY <2>1, <2>2, OwnedNone DEF Owned
  <1>1. ASSUME t.encoding = 0 PROVE Numbered(DecodeCairo0(t))
    <2>. DEFINE s == [i \in DOMAIN t.calls |-> [call |-> t.calls[i], index |-> i - 1]]
    <2>. DEFINE I == {i \in DOMAIN s : KnownCall(s[i].call) /\ s[i].call.fits}
    <2>. DEFINE r == DecodeCairo0(t)
    <2>1. Selection(r, s, I)
      <3>. HIDE DEF s
      <3>1. [i \in DOMAIN s |-> IF i \in I THEN <<s[i]>> ELSE <<>>]
              = [i \in DOMAIN s |-> IF KnownCall(s[i].call) /\ s[i].call.fits THEN <<s[i]>> ELSE <<>>]
        OBVIOUS
      <3>. HIDE DEF I
      <3>2. r = Select(s, LAMBDA c : KnownCall(c.call) /\ c.call.fits)
        BY <1>1 DEF DecodeCairo0, s
      <3>. HIDE DEF r
      <3>. QED  BY <3>1, <3>2 DEF Select, Selection
    <2>2. IsSequence(s) /\ \A i \in DOMAIN s : s[i].index = i - 1 /\ i \in Nat
      <3>1. DOMAIN t.calls = 1..Len(t.calls) /\ Len(t.calls) \in Nat
        BY DEF IsSequence
      <3>2. \A i \in DOMAIN s : s[i] \in ToSet(s)
        BY DEF ToSet
      <3>3. DOMAIN s = 1..Len(t.calls) /\ s = [i \in 1..Len(t.calls) |-> s[i]]
        BY <3>1
      <3>4. \A i \in DOMAIN s : s[i].index = i - 1 /\ i \in Nat
        BY <3>1
      <3>. HIDE DEF s
      <3>5. s \in Seq(ToSet(s))
        BY <3>1, <3>2, <3>3
      <3>. QED  BY <3>4, <3>5 DEF IsSequence
    <2>. HIDE DEF s, I, r
    <2>3. r \in Seq(ToSet(s)) /\ \E c : Chosen(r, s, I, c)
      BY <2>1, <2>2, SelectedSet
    <2>4. PICK c : Chosen(r, s, I, c)
      BY <2>3
    <2>5. ASSUME NEW p \in DOMAIN r, NEW q \in DOMAIN r, r[p].index = r[q].index PROVE p = q
      <3>1. c[p] \in DOMAIN s /\ c[q] \in DOMAIN s /\ r[p] = s[c[p]] /\ r[q] = s[c[q]]
        BY <2>4 DEF Chosen
      <3>2. c[p] - 1 = c[q] - 1 /\ c[p] \in Nat /\ c[q] \in Nat
        BY <2>2, <2>5, <3>1
      <3>3. c[p] = c[q]
        BY <3>2
      <3>. QED  BY <2>4, <3>3 DEF Chosen
    <2>6. IsSequence(r)
      BY <2>3, SequenceSet
    <2>. QED  BY <2>5, <2>6 DEF r
  <1>2. ASSUME t.encoding = 1 PROVE Numbered(DecodeCairo1(t))
    <2>. DEFINE u == t.calls
    <2>. DEFINE I == {i \in DOMAIN u : KnownCall(u[i])}
    <2>. DEFINE known == Select(u, KnownCall)
    <2>. DEFINE r == DecodeCairo1(t)
    <2>1. Selection(known, u, I)
      <3>1. [i \in DOMAIN u |-> IF i \in I THEN <<u[i]>> ELSE <<>>]
              = [i \in DOMAIN u |-> IF KnownCall(u[i]) THEN <<u[i]>> ELSE <<>>]
        OBVIOUS
      <3>. QED  BY <3>1 DEF Select, Selection
    <2>2. r = [i \in DOMAIN known |-> [call |-> known[i], index |-> i - 1]]
      BY <1>2 DEF DecodeCairo1
    <2>3. IsSequence(u)
      OBVIOUS
    <2>. HIDE DEF u, I, known, r
    <2>4. known \in Seq(ToSet(u))
      BY <2>1, <2>3, SelectedSet
    <2>5. DOMAIN known = 1..Len(known) /\ Len(known) \in Nat
      BY <2>4
    <2>6. \A i \in DOMAIN r : r[i] \in ToSet(r)
      BY DEF ToSet
    <2>7. DOMAIN r = 1..Len(known) /\ r = [i \in 1..Len(known) |-> r[i]]
      BY <2>2, <2>5
    <2>8. r \in Seq(ToSet(r))
      BY <2>5, <2>6, <2>7
    <2>9. ASSUME NEW p \in DOMAIN r, NEW q \in DOMAIN r, r[p].index = r[q].index PROVE p = q
      <3>1. r[p].index = p - 1 /\ r[q].index = q - 1 /\ p \in Nat /\ q \in Nat
        BY <2>2, <2>5, <2>7
      <3>2. p - 1 = q - 1
        BY <2>9, <3>1
      <3>. QED  BY <3>1, <3>2
    <2>. QED  BY <2>8, <2>9 DEF r, IsSequence
  <1>3. Numbered(DecodeCairo0(t)) /\ Numbered(DecodeCairo1(t))
    <2>1. t.encoding # 0 => DecodeCairo0(t) = <<>>
      BY DEF DecodeCairo0
    <2>2. t.encoding # 1 => DecodeCairo1(t) = <<>>
      BY DEF DecodeCairo1
    <2>. HIDE DEF Numbered
    <2>. QED  BY <1>0, <1>1, <1>2, <2>1, <2>2
  <1>4. Decoded(t) = DecodeCairo0(t) \/ Decoded(t) = DecodeCairo1(t)
    BY DEF Decoded
  <1>. QED  BY <1>3, <1>4

\* What the Starknet service makes of an invoke.
LEMMA InvokeIs ==
  ASSUME NEW t, IsSequence(t.logs), IsSequence(t.calls), HandleInvoke(t) # Thrown,
         t.router /\ t.receipt \notin {"ok", "missing"} => \A l \in ToSet(t.logs) : l.kind # "paid"
  PROVE  LET s == HandleInvoke(t) IN
         /\ Owned(s, t.id)
         /\ ~t.router => Apart(s)
         /\ \A n \in DOMAIN s : s[n].status = "confirmed" =>
              /\ Executed(t)
              /\ \E l \in ToSet(t.logs) :
                   /\ l.to = s[n].receiver /\ l.value = s[n].value
                   /\ l.kind = "erc20" => l.address = s[n].token
  <1>. DEFINE D == Decoded(t)
  <1>. DEFINE I == {i \in DOMAIN D : t.from \in Watched \/ D[i].call.receiver \in Watched}
  <1>. DEFINE mine == Select(D, LAMBDA d : t.from \in Watched \/ d.call.receiver \in Watched)
  <1>. DEFINE s == HandleInvoke(t)
  <1>1. CASE s = <<>>
    <2>1. Owned(s, t.id) /\ Apart(s) /\ DOMAIN s = {}
      <3>1. PICK e : e = <<>>
        OBVIOUS
      <3>2. DOMAIN e = {}
        BY <3>1
      <3>. HIDE DEF s
      <3>. QED  BY <1>1, <3>1, <3>2, OwnedNone
    <2>. HIDE DEF s
    <2>2. \A n \in DOMAIN s : FALSE
      BY <2>1
    <2>. QED  BY <2>1, <2>2 DEF s
  <1>2. CASE t.router /\ t.receipt # "missing" /\ s = RouterTransfers(t)
    <2>. DEFINE u == t.logs
    <2>. DEFINE J == {i \in DOMAIN u : u[i].kind = "paid" /\ u[i].address \in Tokens}
    <2>. DEFINE events == Select(u, LAMBDA l : l.kind = "paid" /\ l.address \in Tokens)
    <2>1. Selection(events, u, J)
      <3>1. [i \in DOMAIN u |-> IF i \in J THEN <<u[i]>> ELSE <<>>]
              = [i \in DOMAIN u |-> IF u[i].kind = "paid" /\ u[i].address \in Tokens THEN <<u[i]>> ELSE <<>>]
        OBVIOUS
      <3>. QED  BY <3>1 DEF Select, Selection
    <2>2. s = [n \in DOMAIN events |->
                 [hash |-> <<t.id, None>>, sender |-> t.from, receiver |-> events[n].to,
                  token |-> events[n].address, value |-> events[n].value, contract |-> t.to,
                  version |-> None, status |-> "confirmed"]]
      BY <1>2 DEF RouterTransfers
    <2>3. IsSequence(u) /\ \A i \in DOMAIN u : i \in J => u[i].kind = "paid"
      OBVIOUS
    <2>. HIDE DEF u, J, events, s
    <2>4. /\ events \in Seq(ToSet(u))
          /\ \A x : x \in ToSet(events) <=> \E i \in DOMAIN u : i \in J /\ x = u[i]
      BY <2>1, <2>3, SelectedSet
    <2>5. DOMAIN events = 1..Len(events) /\ Len(events) \in Nat
      BY <2>4
    <2>6. DOMAIN s = 1..Len(events) /\ s = [n \in 1..Len(events) |-> s[n]]
      BY <2>2, <2>5
    <2>7. ASSUME NEW n \in 1..Len(events)
          PROVE  /\ IsTransfer(s[n]) /\ s[n].hash[1] = t.id
                 /\ s[n].receiver = events[n].to /\ s[n].value = events[n].value
      BY <2>2, <2>5 DEF IsTransfer
    <2>8. Owned(s, t.id)
      BY <2>5, <2>6, <2>7, OwnedList
    <2>9. ASSUME NEW n \in DOMAIN s
          PROVE  /\ Executed(t)
                 /\ \E l \in ToSet(t.logs) :
                      /\ l.to = s[n].receiver /\ l.value = s[n].value
                      /\ l.kind = "erc20" => l.address = s[n].token
      <3>1. events[n] \in ToSet(events)
        BY <2>5, <2>6 DEF ToSet
      <3>2. PICK i \in DOMAIN u : i \in J /\ events[n] = u[i]
        BY <2>4, <3>1
      <3>3. u[i] \in ToSet(t.logs) /\ u[i].kind = "paid"
        BY <2>3, <3>2 DEF ToSet, u
      <3>4. t.receipt = "ok"
        BY <1>2, <3>3
      <3>. QED  BY <2>6, <2>7, <3>2, <3>3, <3>4 DEF Executed
    <2>. QED  BY <1>2, <2>8, <2>9 DEF s
  <1>3. CASE ~t.router /\ s = [n \in DOMAIN mine |-> InvokeTransfer(t, mine[n])]
    <2>1. Selection(mine, D, I)
      <3>. HIDE DEF D
      <3>1. [i \in DOMAIN D |-> IF i \in I THEN <<D[i]>> ELSE <<>>]
              = [i \in DOMAIN D |-> IF t.from \in Watched \/ D[i].call.receiver \in Watched THEN <<D[i]>> ELSE <<>>]
        OBVIOUS
      <3>. QED  BY <3>1 DEF Select, Selection
    <2>2. IsSequence(D) /\ \A p, q \in DOMAIN D : D[p].index = D[q].index => p = q
      BY DecodedApart
    <2>. HIDE DEF D, I, mine, s
    <2>3. mine \in Seq(ToSet(D)) /\ \E c : Chosen(mine, D, I, c)
      BY <2>1, <2>2, SelectedSet
    <2>4. PICK c : Chosen(mine, D, I, c)
      BY <2>3
    <2>5. DOMAIN mine = 1..Len(mine) /\ Len(mine) \in Nat
      BY <2>3
    <2>6. DOMAIN s = 1..Len(mine) /\ s = [n \in 1..Len(mine) |-> s[n]]
      BY <1>3, <2>5
    <2>7. ASSUME NEW n \in 1..Len(mine)
          PROVE  /\ IsTransfer(s[n]) /\ s[n].hash = <<t.id, IF Len(D) > 1 THEN mine[n].index ELSE None>>
                 /\ s[n].status = "confirmed" =>
                      /\ Executed(t)
                      /\ \E l \in ToSet(t.logs) :
                           /\ l.to = s[n].receiver /\ l.value = s[n].value
                           /\ l.kind = "erc20" => l.address = s[n].token
      <3>1. s[n] = InvokeTransfer(t, mine[n])
        BY <1>3, <2>5
      <3>2. PICK d : d = mine[n]
        OBVIOUS
      <3>3. PICK x : x = InvokeTransfer(t, d)
        OBVIOUS
      <3>4. /\ IsTransfer(x) /\ x.hash = <<t.id, IF Len(D) > 1 THEN d.index ELSE None>>
            /\ x.receiver = d.call.receiver /\ x.value = d.call.value /\ x.token = TokenOf(d.call)
            /\ x.status = IF InvokeStatus(t) = "confirmed" /\ ~TokenEvent(t, TokenOf(d.call), d.call.receiver, d.call.value)
                          THEN "failed" ELSE InvokeStatus(t)
        BY <3>3 DEF InvokeTransfer, IsTransfer, D
      <3>5. x.status = "confirmed" =>
              InvokeStatus(t) = "confirmed" /\ TokenEvent(t, x.token, x.receiver, x.value)
        BY <3>4
      <3>6. InvokeStatus(t) = "confirmed" => Executed(t)
        BY DEF InvokeStatus, Executed
      <3>7. TokenEvent(t, x.token, x.receiver, x.value) =>
              \E l \in ToSet(t.logs) :
                l.to = x.receiver /\ l.value = x.value /\ (l.kind = "erc20" => l.address = x.token)
        BY DEF TokenEvent
      <3>. QED  BY <3>1, <3>2, <3>3, <3>4, <3>5, <3>6, <3>7
    <2>8. Owned(s, t.id)
      <3>1. \A n \in 1..Len(mine) : IsTransfer(s[n]) /\ s[n].hash[1] = t.id
        BY <2>7
      <3>. QED  BY <2>5, <2>6, <3>1, OwnedList
    <2>9. Apart(s)
      <3>1. ASSUME NEW p \in 1..Len(mine), NEW q \in 1..Len(mine), s[p].hash = s[q].hash PROVE p = q
        <4>0. /\ c[p] \in DOMAIN D /\ c[q] \in DOMAIN D /\ mine[p] = D[c[p]] /\ mine[q] = D[c[q]]
              /\ c[p] = c[q] => p = q
          BY <2>4, <2>5 DEF Chosen
        <4>1. DOMAIN D = 1..Len(D) /\ Len(D) \in Nat
          BY <2>2 DEF IsSequence
        <4>2. CASE Len(D) > 1
          <5>1. <<t.id, mine[p].index>> = <<t.id, mine[q].index>>
            BY <2>7, <3>1, <4>2
          <5>2. D[c[p]].index = D[c[q]].index
            BY <4>0, <5>1
          <5>. QED  BY <2>2, <4>0, <5>2
        <4>3. CASE ~(Len(D) > 1)
          <5>1. c[p] = 1 /\ c[q] = 1
            BY <4>0, <4>1, <4>3
          <5>. QED  BY <4>0, <5>1
        <4>. QED  BY <4>2, <4>3
      <3>. QED  BY <2>6, <3>1 DEF Apart
    <2>. QED  BY <2>6, <2>7, <2>8, <2>9 DEF s
  <1>4. \/ s = <<>>
        \/ t.router /\ t.receipt # "missing" /\ s = RouterTransfers(t)
        \/ ~t.router /\ s = [n \in DOMAIN mine |-> InvokeTransfer(t, mine[n])]
    BY DEF HandleInvoke
  <1>. QED  BY <1>1, <1>2, <1>3, <1>4

-----------------------------------------------------------------------------
(* What a parser confirms, the logs show.                                   *)

Backed(t, x) ==
  \E l \in ToSet(t.logs) :
    l.to = x.receiver /\ l.value = x.value /\ (l.kind = "erc20" => l.address = x.token)

LEMMA CheckedBacked ==
  ASSUME NEW t, IsSequence(t.logs), NEW contract, NEW call
  PROVE  /\ V3Transfer(contract, t, call).status = "confirmed" => Backed(t, V3Transfer(contract, t, call))
         /\ V3TransferToken(contract, t, call).status = "confirmed" =>
              Backed(t, V3TransferToken(contract, t, call))
  <1>. DEFINE x == V3Transfer(contract, t, call)
  <1>. DEFINE y == V3TransferToken(contract, t, call)
  <1>1. /\ x.receiver = call.to /\ x.status = Seen(t, Paid(t, contract, call.to))
        /\ x.status = "confirmed" => x.value = Head(Paid(t, contract, call.to)).value
        /\ y.receiver = call.to /\ y.value = call.value /\ y.token = call.token
        /\ y.status = Seen(t, Moved(t, call.token, call.to, call.value))
    BY CheckedIs
  <1>. HIDE DEF x, y
  <1>2. x.status = "confirmed" => Backed(t, x)
    <2>1. SUFFICES ASSUME x.status = "confirmed" PROVE Backed(t, x)
      OBVIOUS
    <2>2. Paid(t, contract, call.to) # <<>>
      BY <1>1, <2>1 DEF Seen
    <2>3. PICK l : l = Head(Paid(t, contract, call.to))
      OBVIOUS
    <2>4. PICK r : r = call.to
      OBVIOUS
    <2>5. l \in ToSet(t.logs) /\ l.kind = "paid" /\ l.to = r
      BY <2>2, <2>3, <2>4, PaidIn
    <2>. QED  BY <1>1, <2>1, <2>3, <2>4, <2>5 DEF Backed
  <1>3. y.status = "confirmed" => Backed(t, y)
    <2>1. SUFFICES ASSUME y.status = "confirmed" PROVE Backed(t, y)
      OBVIOUS
    <2>2. Moved(t, call.token, call.to, call.value) # <<>>
      BY <1>1, <2>1 DEF Seen
    <2>3. PICK k, r, v : k = call.token /\ r = call.to /\ v = call.value
      OBVIOUS
    <2>4. \E l \in ToSet(t.logs) : l.address = k /\ l.to = r /\ l.value = v
      BY <2>2, <2>3, MovedIn
    <2>. QED  BY <1>1, <2>3, <2>4 DEF Backed
  <1>. QED  BY <1>2, <1>3 DEF x, y

LEMMA BridgeBacked ==
  ASSUME NEW t, IsSequence(t.logs), NEW n \in DOMAIN BridgeToV2(t), BridgeToV2(t)[n].status = "confirmed"
  PROVE  Backed(t, BridgeToV2(t)[n])
  <1>. DEFINE router == (CHOOSE c \in Routers : TRUE).address
  <1>. DEFINE e1 == PaidExactly(t, router, t.call.to, t.value)
  <1>. DEFINE e2 == Moved(t, t.call.token, t.call.to, t.call.value)
  <1>. DEFINE u == Through(t, t.call.to, Native, t.value)
  <1>. DEFINE v == Through(t, t.call.to, t.call.token, t.call.value)
  <1>. DEFINE p == [u EXCEPT !.status = Seen(t, e1)]
  <1>. DEFINE q == [v EXCEPT !.status = Seen(t, e2)]
  <1>1. BridgeToV2(t) \in {<<p>>, <<q>>, <<>>}
    BY DEF BridgeToV2, PaidExactly
  <1>2. /\ IsTransfer(u) /\ u.receiver = t.call.to /\ u.value = t.value
        /\ IsTransfer(v) /\ v.receiver = t.call.to /\ v.value = t.call.value /\ v.token = t.call.token
    BY Made, MadeOwned
  <1>3. /\ e1 # <<>> => \E l \in ToSet(t.logs) : l.kind = "paid" /\ l.to = t.call.to /\ l.value = t.value
        /\ e2 # <<>> => \E l \in ToSet(t.logs) :
             l.address = t.call.token /\ l.to = t.call.to /\ l.value = t.call.value
    <2>1. PICK k, r, m, v0, c : /\ k = t.call.token /\ r = t.call.to /\ m = t.call.value
                                /\ v0 = t.value /\ c = router
      OBVIOUS
    <2>. HIDE DEF router
    <2>2. PaidExactly(t, c, r, v0) # <<>> =>
            \E l \in ToSet(t.logs) : l.kind = "paid" /\ l.to = r /\ l.value = v0
      BY PaidValue
    <2>3. Moved(t, k, r, m) # <<>> =>
            \E l \in ToSet(t.logs) : l.address = k /\ l.to = r /\ l.value = m
      BY MovedIn
    <2>. QED  BY <2>1, <2>2, <2>3
  <1>. HIDE DEF u, v, e1, e2
  <1>4. /\ p.receiver = u.receiver /\ p.value = u.value /\ p.status = Seen(t, e1)
    BY <1>2, Changed
  <1>5. q.receiver = v.receiver /\ q.value = v.value /\ q.token = v.token /\ q.status = Seen(t, e2)
    BY <1>2, Changed
  <1>. HIDE DEF p, q
  <1>6. p.status = "confirmed" => Backed(t, p)
    BY <1>2, <1>3, <1>4 DEF Backed, Seen
  <1>7. q.status = "confirmed" => Backed(t, q)
    BY <1>2, <1>3, <1>5 DEF Backed, Seen
  <1>8. BridgeToV2(t)[n] \in {p, q}
    BY <1>1
  <1>. QED  BY <1>6, <1>7, <1>8

LEMMA CrossBacked ==
  ASSUME NEW t, IsSequence(t.logs), NEW n \in DOMAIN Cross(t), Cross(t)[n].status = "confirmed"
  PROVE  Backed(t, Cross(t)[n])
  <1>. DEFINE i == t.call.inner
  <1>. DEFINE a == V3TransferToken(t.call.via, t, i)
  <1>. DEFINE b == V3Transfer(t.call.via, t, i)
  <1>. DEFINE c == Through(t, t.to, None, None)
  <1>. DEFINE p == [a EXCEPT !.contract = t.to]
  <1>. DEFINE q == [b EXCEPT !.contract = t.to]
  <1>. DEFINE r == [c EXCEPT !.status = "pending"]
  <1>1. Cross(t) \in {<<p>>, <<q>>, <<r>>, <<>>}
    BY DEF Cross
  <1>. HIDE DEF i
  <1>2. /\ IsTransfer(a) /\ a.status = "confirmed" => Backed(t, a)
        /\ IsTransfer(b) /\ b.status = "confirmed" => Backed(t, b)
        /\ IsTransfer(a) /\ IsTransfer(b)
    <2>. PICK d : d = t.call.via
      OBVIOUS
    <2>. QED  BY CheckedBacked, CheckedOwned
  <1>3. IsTransfer(c)
    BY MadeOwned
  <1>. HIDE DEF a, b, c
  <1>4. /\ p.receiver = a.receiver /\ p.value = a.value /\ p.token = a.token /\ p.status = a.status
        /\ q.receiver = b.receiver /\ q.value = b.value /\ q.token = b.token /\ q.status = b.status
    BY <1>2, Rehomed
  <1>5. r.status = "pending"
    BY <1>3, Changed
  <1>. HIDE DEF p, q, r
  <1>6. /\ p.status = "confirmed" => Backed(t, p)
        /\ q.status = "confirmed" => Backed(t, q)
    BY <1>2, <1>4 DEF Backed
  <1>7. Cross(t)[n] \in {p, q, r}
    BY <1>1
  <1>. QED  BY <1>5, <1>6, <1>7

LEMMA ParseBacked ==
  ASSUME NEW t, IsSequence(t.logs), NEW n \in DOMAIN Parse(t), Parse(t)[n].status = "confirmed"
  PROVE  Backed(t, Parse(t)[n])
  <1>. DEFINE k == t.call
  <1>. DEFINE x == V3Transfer(t.to, t, k)
  <1>. DEFINE y == V3TransferToken(t.to, t, k)
  <1>1. Parse(t) \in {<<x>>, <<y>>, BridgeToV2(t), Cross(t), <<>>}
    BY DEF Parse
  <1>. HIDE DEF k
  <1>2. /\ x.status = "confirmed" => Backed(t, x)
        /\ y.status = "confirmed" => Backed(t, y)
    <2>. PICK d : d = t.to
      OBVIOUS
    <2>. QED  BY CheckedBacked
  <1>. HIDE DEF x, y
  <1>3. CASE Parse(t) \in {<<x>>, <<y>>, <<>>}
    BY <1>2, <1>3
  <1>4. CASE Parse(t) = BridgeToV2(t)
    BY <1>4, BridgeBacked
  <1>5. CASE Parse(t) = Cross(t)
    BY <1>5, CrossBacked
  <1>. QED  BY <1>1, <1>3, <1>4, <1>5

\* The methods that are verified are read by the parsers only.
LEMMA VerifiedRead ==
  ASSUME NEW t, Registered(t.to), Read(t) # Thrown,
         t.call.method \in {"routerTransfer", "routerTransferToken", "bridgeToV2", "cross"}
  PROVE  Read(t) = Parse(t)
  <1>1. PICK c \in At(t.to) : c.registered /\ c.name \in Parsers
    BY DEF Registered
  <1>2. \A d \in At(t.to) : d = c
    BY <1>1, ReceiptsAssumption DEF At
  <1>3. NameOf(t.to) = c.name
    <2>1. (CHOOSE d \in At(t.to) : TRUE) \in At(t.to)
      BY <1>1
    <2>2. (CHOOSE d \in At(t.to) : TRUE) = c
      BY <1>2, <2>1
    <2>. QED  BY <2>2 DEF NameOf
  <1>4. t.to \notin Tokens /\ At(t.to) # {}
    BY <1>1, ReceiptsAssumption DEF At
  <1>5. CASE c.name = "OrbiterRouterV3" /\ t.call.method \in {"bridgeToV2", "cross"}
    <2>1. Read(t) = RouterV3(t)
      BY <1>3, <1>4, <1>5 DEF Read
    <2>2. RouterV3(t) = Thrown
      BY <1>5 DEF RouterV3
    <2>. QED  BY <2>1, <2>2
  <1>6. CASE c.name = "OrbiterRouterV3" /\ t.call.method \in {"routerTransfer", "routerTransferToken"}
    BY <1>3, <1>4, <1>6 DEF Read
  <1>7. CASE c.name \in {"XBridge", "TransitFinanceRouterV5", "Rubic"}
    BY <1>3, <1>4, <1>7 DEF Read
  <1>. QED  BY <1>1, <1>5, <1>6, <1>7 DEF Parsers

-----------------------------------------------------------------------------
(* The block.                                                               *)

\* What a transaction of a block gives, when it can be read.
LEMMA TransfersIs ==
  ASSUME NEW b \in Blocks, NEW t \in ToSet(b.txs), Transfers(b.net, t) # Thrown
  PROVE  /\ Owned(Transfers(b.net, t), t.id)
         /\ ~(b.net = "starknet" /\ t.router) => Apart(Transfers(b.net, t))
  <1>1. IsSequence(t.logs) /\ (b.net # "starknet" => t.first \in Nat)
    BY BlocksAssumption
  <1>2. CASE b.net # "starknet"
    <2>. PICK net : net = b.net
      OBVIOUS
    <2>. QED  BY <1>1, <1>2, EvmIs
  <1>3. CASE b.net = "starknet"
    <2>1. /\ IsSequence(t.calls)
          /\ t.router /\ t.receipt \notin {"ok", "missing"} => \A l \in ToSet(t.logs) : l.kind # "paid"
      BY <1>3, BlocksAssumption
    <2>2. Transfers(b.net, t) = HandleInvoke(t)
      BY <1>3 DEF Transfers
    <2>3. HandleInvoke(t) # Thrown
      BY <2>2
    <2>4. Owned(HandleInvoke(t), t.id) /\ (~t.router => Apart(HandleInvoke(t)))
      BY <1>1, <2>1, <2>3, InvokeIs
    <2>. QED  BY <1>3, <2>2, <2>4
  <1>. QED  BY <1>2, <1>3

ForMaker(x) == x.sender \in Watched \/ x.receiver \in Watched

\* What is found in a block: place p stems from place j[p] of what transaction i[p]
\* gives, and no transfer of a maker is left behind.
Found(b, f, i, j) ==
  /\ \A p \in DOMAIN f :
       /\ i[p] \in DOMAIN b.txs
       /\ Transfers(b.net, b.txs[i[p]]) # Thrown
       /\ j[p] \in DOMAIN Transfers(b.net, b.txs[i[p]])
       /\ f[p] = Transfers(b.net, b.txs[i[p]])[j[p]]
  /\ \A p, q \in DOMAIN f : i[p] = i[q] /\ j[p] = j[q] => p = q
  /\ \A k \in DOMAIN b.txs : Relevant(b.net, b.txs[k]) =>
       /\ Transfers(b.net, b.txs[k]) # Thrown
       /\ \A n \in DOMAIN Transfers(b.net, b.txs[k]) :
            ForMaker(Transfers(b.net, b.txs[k])[n]) =>
              \E p \in DOMAIN f : f[p] = Transfers(b.net, b.txs[k])[n]

LEMMA BlockFound ==
  ASSUME NEW b \in Blocks, HandleBlock(b) # Thrown
  PROVE  \E i, j : Found(b, HandleBlock(b), i, j)
  <1>. DEFINE u == b.txs
  <1>. DEFINE I == {k \in DOMAIN u : Relevant(b.net, u[k])}
  <1>. DEFINE txs == Select(u, LAMBDA t : Relevant(b.net, t))
  <1>. DEFINE read == [n \in DOMAIN txs |-> Transfers(b.net, txs[n])]
  <1>. DEFINE flat == FlattenSeq(read)
  <1>. DEFINE J == {p \in DOMAIN flat : ForMaker(flat[p])}
  <1>. DEFINE f == ForMakers(flat)
  <1>1. HandleBlock(b) = f /\ Thrown \notin Range(read)
    <2>1. HandleBlock(b) = IF Thrown \in Range(read) THEN Thrown ELSE f
      BY DEF HandleBlock
    <2>. HIDE DEF read, f
    <2>. QED  BY <2>1
  <1>2. Selection(txs, u, I)
    <2>1. [k \in DOMAIN u |-> IF k \in I THEN <<u[k]>> ELSE <<>>]
            = [k \in DOMAIN u |-> IF Relevant(b.net, u[k]) THEN <<u[k]>> ELSE <<>>]
      OBVIOUS
    <2>. QED  BY <2>1 DEF Select, Selection
  <1>3. Selection(f, flat, J)
    <2>. HIDE DEF flat
    <2>1. [p \in DOMAIN flat |-> IF p \in J THEN <<flat[p]>> ELSE <<>>]
            = [p \in DOMAIN flat |-> IF flat[p].sender \in Watched \/ flat[p].receiver \in Watched
                                     THEN <<flat[p]>> ELSE <<>>]
      BY DEF ForMaker
    <2>. QED  BY <2>1 DEF Select, Selection, ForMakers
  <1>4. IsSequence(u) /\ \A k \in DOMAIN u : k \in I <=> Relevant(b.net, u[k])
    BY BlocksAssumption
  <1>5. \A p \in DOMAIN flat : p \in J <=> ForMaker(flat[p])
    OBVIOUS
  <1>6. DOMAIN read = DOMAIN txs /\ \A n \in DOMAIN txs : read[n] = Transfers(b.net, txs[n])
    OBVIOUS
  <1>7. \A n \in DOMAIN read : read[n] # Thrown
    BY <1>1 DEF Range
  <1>. HIDE DEF I, txs
  <1>8. /\ txs \in Seq(ToSet(u)) /\ \E c : Chosen(txs, u, I, c)
    <2>. HIDE DEF u
    <2>. QED  BY <1>2, <1>4, SelectedSet
  <1>9. PICK c : Chosen(txs, u, I, c)
    BY <1>8
  <1>10. DOMAIN txs = 1..Len(txs) /\ Len(txs) \in Nat
    BY <1>8
  <1>. DEFINE X == UNION {ToSet(read[n]) : n \in DOMAIN txs}
  <1>11. read \in Seq(Seq(X)) /\ Len(read) = Len(txs)
    <2>1. ASSUME NEW n \in 1..Len(txs) PROVE read[n] \in Seq(X)
      <3>1. txs[n] \in ToSet(u)
        BY <1>8
      <3>2. read[n] = Transfers(b.net, txs[n]) /\ read[n] # Thrown
        BY <1>6, <1>7, <1>10
      <3>3. IsSequence(read[n])
        BY <3>1, <3>2, TransfersIs DEF Owned
      <3>4. ToSet(read[n]) \subseteq X
        BY <1>10
      <3>. HIDE DEF read, X
      <3>. QED  BY <3>3, <3>4 DEF IsSequence
    <2>2. DOMAIN read = 1..Len(txs) /\ read = [n \in 1..Len(txs) |-> read[n]]
      BY <1>10
    <2>. HIDE DEF read, X
    <2>. QED  BY <1>10, <2>1, <2>2
  <1>. HIDE DEF read, X
  <1>12. flat \in Seq(X) /\ \E a, d : Laid(flat, read, Len(txs), a, d)
    BY <1>11, Flat
  <1>13. PICK a, d : Laid(flat, read, Len(txs), a, d)
    BY <1>12
  <1>14. IsSequence(flat)
    <2>. HIDE DEF flat
    <2>. QED  BY <1>12, SequenceSet
  <1>. HIDE DEF flat, J, f
  <1>15. PICK e : Chosen(f, flat, J, e)
    BY <1>3, <1>14, SelectedSet
  <1>. DEFINE i == [p \in DOMAIN f |-> c[a[e[p]]]]
  <1>. DEFINE j == [p \in DOMAIN f |-> d[e[p]]]
  <1>16. ASSUME NEW p \in DOMAIN f
         PROVE  /\ e[p] \in DOMAIN flat /\ f[p] = flat[e[p]]
                /\ a[e[p]] \in DOMAIN txs /\ i[p] \in DOMAIN u /\ u[i[p]] = txs[a[e[p]]]
                /\ read[a[e[p]]] = Transfers(b.net, u[i[p]]) /\ Transfers(b.net, u[i[p]]) # Thrown
                /\ j[p] \in DOMAIN Transfers(b.net, u[i[p]])
                /\ f[p] = Transfers(b.net, u[i[p]])[j[p]]
    <2>. HIDE DEF u
    <2>1. e[p] \in DOMAIN flat /\ f[p] = flat[e[p]]
      BY <1>15 DEF Chosen
    <2>2. PICK n : n = a[e[p]]
      OBVIOUS
    <2>3. n \in DOMAIN txs /\ d[e[p]] \in DOMAIN read[n] /\ flat[e[p]] = read[n][d[e[p]]]
      BY <1>10, <1>13, <2>1, <2>2 DEF Laid
    <2>4. c[n] \in DOMAIN u /\ txs[n] = u[c[n]]
      BY <1>9, <2>3 DEF Chosen
    <2>5. i[p] = c[n] /\ j[p] = d[e[p]]
      BY <2>2
    <2>6. read[n] = Transfers(b.net, txs[n]) /\ read[n] # Thrown
      BY <1>6, <1>7, <2>3
    <2>. HIDE DEF i, j
    <2>. QED  BY <2>1, <2>2, <2>3, <2>4, <2>5, <2>6
  <1>17. ASSUME NEW p \in DOMAIN f, NEW q \in DOMAIN f, i[p] = i[q], j[p] = j[q]
         PROVE  p = q
    <2>1. c[a[e[p]]] = c[a[e[q]]] /\ d[e[p]] = d[e[q]]
      BY <1>17
    <2>2. a[e[p]] \in DOMAIN txs /\ a[e[q]] \in DOMAIN txs /\ e[p] \in DOMAIN flat /\ e[q] \in DOMAIN flat
      BY <1>16
    <2>. HIDE DEF i, j, u
    <2>3. a[e[p]] = a[e[q]]
      BY <1>9, <2>1, <2>2 DEF Chosen
    <2>4. e[p] = e[q]
      BY <1>13, <2>1, <2>2, <2>3 DEF Laid
    <2>. QED  BY <1>15, <2>4 DEF Chosen
  <1>18. ASSUME NEW k \in DOMAIN u, Relevant(b.net, u[k])
         PROVE  /\ Transfers(b.net, u[k]) # Thrown
                /\ \A n \in DOMAIN Transfers(b.net, u[k]) :
                     ForMaker(Transfers(b.net, u[k])[n]) =>
                       \E p \in DOMAIN f : f[p] = Transfers(b.net, u[k])[n]
    <2>0. k \in I
      BY <1>4, <1>18
    <2>. HIDE DEF u, i, j
    <2>1. PICK m \in DOMAIN txs : c[m] = k
      BY <1>9, <2>0 DEF Chosen
    <2>2. txs[m] = u[k]
      BY <1>9, <2>1 DEF Chosen
    <2>3. read[m] = Transfers(b.net, u[k]) /\ Transfers(b.net, u[k]) # Thrown
      BY <1>6, <1>7, <2>1, <2>2
    <2>4. ASSUME NEW n \in DOMAIN read[m], ForMaker(read[m][n])
          PROVE  \E p \in DOMAIN f : f[p] = read[m][n]
      <3>1. PICK g \in DOMAIN flat : a[g] = m /\ d[g] = n
        BY <1>10, <1>13, <2>1 DEF Laid
      <3>2. flat[g] = read[m][n]
        BY <1>13, <3>1 DEF Laid
      <3>3. g \in J
        BY <1>5, <2>4, <3>1, <3>2
      <3>4. PICK p \in DOMAIN f : e[p] = g
        BY <1>15, <3>1, <3>3 DEF Chosen
      <3>5. f[p] = flat[g]
        BY <1>15, <3>4 DEF Chosen
      <3>. QED  BY <3>2, <3>5
    <2>. QED  BY <2>3, <2>4
  <1>. HIDE DEF i, j
  <1>19. Found(b, f, i, j)
    BY <1>16, <1>17, <1>18 DEF Found
  <1>. QED  BY <1>1, <1>19 DEF f

-----------------------------------------------------------------------------
(* The promises.                                                            *)

\* A block is one that may be read, and what is found is what its reading gives.
ReadOnce == block \in Blocks /\ (found = None \/ found = HandleBlock(block))

LEMMA ReadOnceInv == Spec => []ReadOnce
  <1>1. Init => ReadOnce
    BY DEF Init, ReadOnce
  <1>2. ReadOnce /\ [Scan]_vars => ReadOnce'
    BY DEF ReadOnce, Scan, vars
  <1>. QED  BY <1>1, <1>2, PTL DEF Spec

\* Every payment that the logs of a batch tell is read.
LEMMA BatchRead ==
  ASSUME NEW t, IsSequence(t.logs), t.first \in Nat, Batched(t), Read(t) # Thrown, NEW n \in Payments(t)
  PROVE  LET l == LogsOf(t, BatchKind(t))[n] IN
           /\ l.to \in Watched
           /\ \E m \in DOMAIN Read(t) :
                /\ Read(t)[m].receiver = l.to /\ Read(t)[m].value = l.value
                /\ Read(t)[m].status = BaseStatus(t)
  <1>. DEFINE l == LogsOf(t, BatchKind(t))[n]
  <1>1. t.to \notin Tokens /\ At(t.to) # {}
    BY ReceiptsAssumption DEF Batched, At
  <1>2. /\ n \in DOMAIN LogsOf(t, BatchKind(t)) /\ l.to \in Watched
        /\ t.call.method = "crossTransfers" => t.call.notes[n] # None
    BY DEF Payments
  <1>3. CASE NameOf(t.to) = "CrossInscriptions" /\ t.call.method = "crossTransfers"
    <2>1. Read(t) = Inscriptions(t)
      BY <1>1, <1>3 DEF Read
    <2>2. BatchKind(t) = "paid"
      BY <1>3 DEF BatchKind
    <2>. QED  BY <1>2, <1>3, <2>1, <2>2, InscriptionsIs
  <1>4. ASSUME NEW kind, BatchKind(t) = kind, Read(t) = Batch(t, kind)
        PROVE  \E m \in DOMAIN Read(t) :
                 Read(t)[m].receiver = l.to /\ Read(t)[m].value = l.value /\ Read(t)[m].status = BaseStatus(t)
    <2>1. l \in ToSet(t.logs) /\ l.kind = kind
      <3>1. l \in ToSet(LogsOf(t, kind))
        BY <1>2, <1>4 DEF ToSet
      <3>. QED  BY <3>1, Logged
    <2>2. PICK i \in DOMAIN t.logs : t.logs[i] = l
      BY <2>1 DEF ToSet
    <2>. QED  BY <1>4, <2>1, <2>2, BatchIs
  <1>5. CASE NameOf(t.to) = "OrbiterRouterV3" /\ t.call.method = "transfers"
    <2>1. Read(t) = Batch(t, "paid") /\ BatchKind(t) = "paid"
      BY <1>1, <1>5 DEF Read, RouterV3, BatchKind
    <2>. QED  BY <1>2, <1>4, <2>1
  <1>6. CASE NameOf(t.to) = "OrbiterRouterV3" /\ t.call.method = "transferTokens"
    <2>1. Read(t) = Batch(t, "erc20") /\ BatchKind(t) = "erc20"
      BY <1>1, <1>6 DEF Read, RouterV3, BatchKind
    <2>. QED  BY <1>2, <1>4, <2>1
  <1>. QED  BY <1>3, <1>5, <1>6 DEF Batched

\* No payment of an executed batch is lost, and no two transfers of a block have
\* one hash but those of the Starknet router: for every block, whatever its
\* contracts, transactions and logs (v6.ts:157, :298, StarknetOrbiterRouter.ts:47).
THEOREM BatchesAreComplete == Spec => []BatchComplete
  <1>1. ReadOnce => BatchComplete
    <2>1. SUFFICES ASSUME ReadOnce, Scanned PROVE BatchComplete
      BY DEF BatchComplete
    <2>2. block \in Blocks /\ found = HandleBlock(block) /\ HandleBlock(block) # Thrown
      BY <2>1 DEF ReadOnce, Scanned
    <2>3. PICK i, j : Found(block, found, i, j)
      BY <2>2, BlockFound
    <2>4. ASSUME block.net \in {"v6", "v5"}, NEW t \in ToSet(block.txs),
                 Executed(t), Relevant(block.net, t), Batched(t), NEW n \in Payments(t)
          PROVE  LET l == LogsOf(t, BatchKind(t))[n] IN
                 \E x \in ReadFrom(t) : <<x.receiver, x.value, x.status>> = <<l.to, l.value, "confirmed">>
      <3>. DEFINE l == LogsOf(t, BatchKind(t))[n]
      <3>. DEFINE s == Transfers(block.net, t)
      <3>1. PICK k \in DOMAIN block.txs : t = block.txs[k]
        BY DEF ToSet
      <3>2. /\ s # Thrown
            /\ \A m \in DOMAIN s : ForMaker(s[m]) => \E p \in DOMAIN found : found[p] = s[m]
        BY <2>3, <2>4, <3>1 DEF Found
      <3>3. IsSequence(t.logs) /\ t.first \in Nat
        BY <2>2, <2>4, BlocksAssumption
      <3>4. /\ Owned(s, t.id) /\ Read(t) # Thrown /\ DOMAIN s = DOMAIN Read(t)
            /\ \A m \in DOMAIN s : /\ s[m].receiver = Read(t)[m].receiver /\ s[m].value = Read(t)[m].value
                                   /\ s[m].status = Read(t)[m].status
        <4>1. PICK net : net = block.net
          OBVIOUS
        <4>2. net \in {"v6", "v5"} /\ net # "starknet" /\ s = Transfers(net, t)
          BY <2>4, <4>1
        <4>. HIDE DEF s
        <4>. QED  BY <2>4, <3>2, <3>3, <4>2, EvmIs
      <3>5. /\ l.to \in Watched
            /\ \E m \in DOMAIN Read(t) :
                 /\ Read(t)[m].receiver = l.to /\ Read(t)[m].value = l.value
                 /\ Read(t)[m].status = BaseStatus(t)
        BY <2>4, <3>3, <3>4, BatchRead
      <3>. HIDE DEF s, l
      <3>6. PICK m \in DOMAIN Read(t) :
              /\ Read(t)[m].receiver = l.to /\ Read(t)[m].value = l.value
              /\ Read(t)[m].status = BaseStatus(t)
        BY <3>5
      <3>7. BaseStatus(t) = "confirmed"
        BY <2>4 DEF BaseStatus
      <3>8. PICK p \in DOMAIN found : found[p] = s[m]
        BY <3>2, <3>4, <3>5, <3>6 DEF ForMaker
      <3>9. found[p] \in ReadFrom(t)
        BY <3>4, <3>6, <3>8 DEF ReadFrom, ToSet, Owned
      <3>. QED  BY <3>4, <3>6, <3>7, <3>8, <3>9 DEF l
    <2>5. ASSUME NEW m \in DOMAIN found, NEW n \in DOMAIN found, m # n, found[m].hash = found[n].hash
          PROVE  \E t \in ToSet(block.txs) : found[m] \in ReadFrom(t) /\ block.net = "starknet" /\ t.router
      <3>1. ASSUME NEW p \in DOMAIN found
            PROVE  /\ i[p] \in DOMAIN block.txs /\ block.txs[i[p]] \in ToSet(block.txs)
                   /\ Transfers(block.net, block.txs[i[p]]) # Thrown
                   /\ j[p] \in DOMAIN Transfers(block.net, block.txs[i[p]])
                   /\ found[p] = Transfers(block.net, block.txs[i[p]])[j[p]]
                   /\ found[p].hash[1] = block.txs[i[p]].id
        <4>1. /\ i[p] \in DOMAIN block.txs /\ block.txs[i[p]] \in ToSet(block.txs)
              /\ Transfers(block.net, block.txs[i[p]]) # Thrown
              /\ j[p] \in DOMAIN Transfers(block.net, block.txs[i[p]])
              /\ found[p] = Transfers(block.net, block.txs[i[p]])[j[p]]
          BY <2>3 DEF Found, ToSet
        <4>2. Owned(Transfers(block.net, block.txs[i[p]]), block.txs[i[p]].id)
          BY <2>2, <4>1, TransfersIs
        <4>. QED  BY <4>1, <4>2 DEF Owned
      <3>2. block.txs[i[m]].id = block.txs[i[n]].id
        BY <2>5, <3>1
      <3>3. i[m] = i[n]
        BY <2>2, <3>1, <3>2, BlocksAssumption
      <3>4. j[m] # j[n]
        BY <2>3, <2>5, <3>3 DEF Found
      <3>. DEFINE t == block.txs[i[m]]
      <3>5. ~Apart(Transfers(block.net, t))
        BY <2>5, <3>1, <3>3, <3>4 DEF Apart
      <3>6. block.net = "starknet" /\ t.router
        BY <2>2, <3>1, <3>5, TransfersIs
      <3>7. found[m] \in ReadFrom(t)
        BY <3>1 DEF ReadFrom, ToSet
      <3>. QED  BY <3>1, <3>6, <3>7
    <2>. QED  BY <2>4, <2>5 DEF BatchComplete
  <1>. QED  BY <1>1, ReadOnceInv, PTL

\* Whatever a verifying reader confirms was executed and is shown by an event: for
\* every block (OrbiterRouterV3.ts:34, :70, XBridge.ts:45, zksyncEra.service.ts:21,
\* starknet.service.ts:236).
THEOREM ConfirmedIsPaid == Spec => []PaidFor
  <1>1. ReadOnce => PaidFor
    <2>1. SUFFICES ASSUME ReadOnce, Scanned, NEW t \in ToSet(block.txs), Verifying(t),
                          NEW x \in ReadFrom(t), x.status = "confirmed"
                   PROVE  /\ Executed(t)
                          /\ \E l \in ToSet(t.logs) :
                               /\ l.to = x.receiver /\ l.value = x.value
                               /\ l.kind = "erc20" /\ block.net # "era" => l.address = x.token
      BY DEF PaidFor
    <2>2. block \in Blocks /\ found = HandleBlock(block) /\ HandleBlock(block) # Thrown
      BY <2>1 DEF ReadOnce, Scanned
    <2>3. PICK i, j : Found(block, found, i, j)
      BY <2>2, BlockFound
    <2>4. PICK p \in DOMAIN found : found[p] = x
      BY <2>1 DEF ReadFrom, ToSet
    <2>. DEFINE s == Transfers(block.net, t)
    <2>5. s # Thrown /\ \E n \in DOMAIN s : x = s[n]
      <3>1. /\ i[p] \in DOMAIN block.txs /\ block.txs[i[p]] \in ToSet(block.txs)
            /\ Transfers(block.net, block.txs[i[p]]) # Thrown
            /\ j[p] \in DOMAIN Transfers(block.net, block.txs[i[p]])
            /\ found[p] = Transfers(block.net, block.txs[i[p]])[j[p]]
        BY <2>3 DEF Found, ToSet
      <3>2. Owned(Transfers(block.net, block.txs[i[p]]), block.txs[i[p]].id)
        BY <2>2, <3>1, TransfersIs
      <3>3. x.hash[1] = block.txs[i[p]].id
        BY <2>4, <3>1, <3>2 DEF Owned
      <3>4. x.hash[1] = t.id
        BY DEF ReadFrom
      <3>5. PICK k \in DOMAIN block.txs : t = block.txs[k]
        BY DEF ToSet
      <3>6. i[p] = k
        BY <2>2, <3>1, <3>3, <3>4, <3>5, BlocksAssumption
      <3>. QED  BY <2>4, <3>1, <3>5, <3>6
    <2>6. PICK n \in DOMAIN s : x = s[n]
      BY <2>5
    <2>7. IsSequence(t.logs) /\ (block.net # "starknet" => t.first \in Nat)
      BY <2>2, BlocksAssumption
    <2>8. CASE block.net = "starknet"
      <3>1. /\ IsSequence(t.calls)
            /\ t.router /\ t.receipt \notin {"ok", "missing"} => \A l \in ToSet(t.logs) : l.kind # "paid"
        BY <2>2, <2>8, BlocksAssumption
      <3>2. s = HandleInvoke(t)
        BY <2>8 DEF Transfers
      <3>3. HandleInvoke(t) # Thrown
        BY <2>5, <3>2
      <3>4. \A m \in DOMAIN HandleInvoke(t) : HandleInvoke(t)[m].status = "confirmed" =>
              /\ Executed(t)
              /\ \E l \in ToSet(t.logs) :
                   /\ l.to = HandleInvoke(t)[m].receiver /\ l.value = HandleInvoke(t)[m].value
                   /\ l.kind = "erc20" => l.address = HandleInvoke(t)[m].token
        BY <2>7, <3>1, <3>3, InvokeIs
      <3>. HIDE DEF s
      <3>. QED  BY <2>1, <2>6, <3>2, <3>4
    <2>9. CASE block.net # "starknet"
      <3>1. /\ Read(t) # Thrown /\ n \in DOMAIN Read(t)
            /\ x.receiver = Read(t)[n].receiver /\ x.value = Read(t)[n].value
            /\ x.token = Read(t)[n].token
            /\ Executed(t) /\ Read(t)[n].status = "confirmed"
            /\ block.net = "era" => \E q : Event(t, q, Read(t)[n].receiver, Read(t)[n].value)
        <4>1. PICK net : net = block.net
          OBVIOUS
        <4>2. net # "starknet" /\ s = Transfers(net, t)
          BY <2>9, <4>1
        <4>. HIDE DEF s
        <4>. QED  BY <2>1, <2>5, <2>6, <2>7, <2>9, <4>1, <4>2, EvmIs
      <3>2. CASE block.net = "era"
        <4>1. PICK q : Event(t, q, x.receiver, x.value)
          BY <3>1, <3>2
        <4>2. PICK l \in ToSet(LogsOf(t, "erc20")) : l.to = x.receiver /\ l.value = x.value
          BY <4>1 DEF Event
        <4>3. l \in ToSet(t.logs)
          BY <2>7, <4>2, Logged
        <4>. QED  BY <3>1, <3>2, <4>2, <4>3
      <3>3. CASE block.net # "era"
        <4>1. Read(t) = Parse(t)
          BY <2>1, <2>9, <3>1, <3>3, VerifiedRead DEF Verifying
        <4>2. Backed(t, Parse(t)[n])
          BY <2>7, <3>1, <4>1, ParseBacked
        <4>. QED  BY <3>1, <4>1, <4>2 DEF Backed
      <3>. QED  BY <3>2, <3>3
    <2>. QED  BY <2>8, <2>9
  <1>. QED  BY <1>1, ReadOnceInv, PTL
=============================================================================
