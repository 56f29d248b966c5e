--------------------------- MODULE HfsVolume_proofs ---------------------------
(***************************************************************************)
(* What the volume reader promises, for every size of the blocks and of    *)
(* the overflow index, every set of consistent volumes, and devices that   *)
(* fail at any read.                                                       *)
(***************************************************************************)
EXTENDS HfsVolume, SequenceTheorems, WellFoundedInduction, TLAPS

(***************************************************************************)
(* Induction over the natural numbers, for a set.                          *)
(***************************************************************************)
LEMMA Least ==
  ASSUME NEW S, S \subseteq Nat, S # {}
  PROVE  \E n \in S : \A m \in S : n <= m
<1> DEFINE R == OpToRel(<, Nat)
<1>1. IsWellFoundedOn(R, Nat)
  BY NatLessThanWellFounded
<1>2. \A m, n \in Nat : m < n => <<m, n>> \in R
  BY DEF OpToRel
<1> HIDE DEF R
<1>3. PICK n \in S : \A m \in S : <<m, n>> \notin R
  BY <1>1, WFMin
<1>4. \A m \in S : ~(m < n)
  BY <1>2, <1>3
<1> QED
  BY <1>4

LEMMA Induction ==
  ASSUME NEW T, 0 \in T, \A n \in Nat : n \in T => n + 1 \in T
  PROVE  Nat \subseteq T
<1>1. SUFFICES ASSUME Nat \ T # {} PROVE FALSE
  OBVIOUS
<1>2. PICK n \in Nat \ T : \A m \in Nat \ T : n <= m
  BY <1>1, Least
<1>3. n # 0 /\ n - 1 \in Nat
  BY <1>2
<1> QED
  BY <1>2, <1>3

\* A set of numbers with a bound has a greatest element.
LEMMA Greatest ==
  ASSUME NEW S, S \subseteq Nat, S # {}, NEW b \in Nat, \A n \in S : n <= b
  PROVE  Max(S) \in S /\ \A m \in S : m <= Max(S)
<1> DEFINE T == {k \in Nat : \E n \in S : n + k = b}
<1>1. \A n \in S : n \in Nat /\ b - n \in Nat /\ n + (b - n) = b
  OBVIOUS
<1>2. \A n \in S : b - n \in T
  BY <1>1
<1>3. T \subseteq Nat /\ T # {}
  BY <1>2
<1>4. PICK t \in T : \A u \in T : t <= u
  <2> HIDE DEF T
  <2> QED
    BY <1>3, Least
<1>5. PICK n \in S : n + t = b
  BY <1>4
<1>6. \A m \in S : t <= b - m
  BY <1>2, <1>4
<1>7. t \in Nat
  BY <1>4
<1>8. \A m \in S : m <= n
  <2> HIDE DEF T
  <2> QED
    BY <1>1, <1>5, <1>6, <1>7
<1> QED
  BY <1>8 DEF Max

-----------------------------------------------------------------------------
(***************************************************************************)
(* HfsOvfSort.                                                             *)
(***************************************************************************)
InOrder(q) == \A a, b \in 1 .. Len(q) : a < b => ~OvfBefore(q[b], q[a])

\* f says where in s the records of q are; each of the first n is there once.
Arranges(f, s, q, n) ==
  /\ f \in [1 .. n -> 1 .. n]
  /\ \A a, b \in 1 .. n : f[a] = f[b] => a = b
  /\ \A m \in 1 .. n : \E a \in 1 .. n : f[a] = m
  /\ \A a \in 1 .. n : q[a] = s[f[a]]

SortOf(s, q, n) ==
  /\ q \in Seq(OvfRecord) /\ Len(q) = n /\ InOrder(q)
  /\ \E f : Arranges(f, s, q, n)

LEMMA BeforeIsOrder ==
  /\ \A r, s \in OvfRecord : OvfBefore(r, s) => ~OvfBefore(s, r)
  /\ \A r, s, t \in OvfRecord : ~OvfBefore(r, s) /\ ~OvfBefore(s, t) => ~OvfBefore(r, t)
BY DEF OvfBefore, OvfRecord

LEMMA InsertAtDoes ==
  ASSUME NEW q \in Seq(OvfRecord), NEW p \in 0 .. Len(q), NEW r \in OvfRecord
  PROVE  LET u == InsertAt(q, 1 + p, r)
         IN  /\ u \in Seq(OvfRecord) /\ Len(u) = Len(q) + 1
             /\ \A a \in 1 .. Len(q) + 1 :
                  u[a] = IF a <= p THEN q[a] ELSE IF a = p + 1 THEN r ELSE q[a - 1]
<1> DEFINE n == Len(q)
           x == SubSeq(q, 1, (1 + p) - 1)
           y == SubSeq(q, 1 + p, n)
           u == InsertAt(q, 1 + p, r)
<1>1. n \in Nat /\ p \in Nat /\ p <= n /\ (1 + p) - 1 = p
  BY LenProperties
<1>2. \A a \in 1 .. n : q[a] \in OvfRecord
  BY ElementOfSeq
<1>3. /\ x \in Seq(OvfRecord) /\ Len(x) = p
      /\ \A a \in 1 .. p : x[a] = q[a]
  <2>1. \A a \in 1 .. p : q[a] \in OvfRecord
    BY <1>1, <1>2
  <2>2. /\ x \in Seq(OvfRecord) /\ Len(x) = IF 1 <= p THEN p - 1 + 1 ELSE 0
        /\ \A a \in 1 .. p - 1 + 1 : x[a] = q[1 + a - 1]
    BY <1>1, <2>1, SubSeqProperties
  <2> HIDE DEF x
  <2>3. Len(x) = p
    BY <1>1, <2>2
  <2>4. \A a \in 1 .. p : a \in 1 .. p - 1 + 1 /\ 1 + a - 1 = a
    BY <1>1
  <2> QED
    BY <2>2, <2>3, <2>4
<1>4. /\ y \in Seq(OvfRecord) /\ Len(y) = n - p
      /\ \A a \in 1 .. n - p : y[a] = q[p + a]
  <2>1. \A a \in 1 + p .. n : q[a] \in OvfRecord
    BY <1>1, <1>2
  <2>2. /\ y \in Seq(OvfRecord) /\ Len(y) = IF 1 + p <= n THEN n - (1 + p) + 1 ELSE 0
        /\ \A a \in 1 .. n - (1 + p) + 1 : y[a] = q[1 + p + a - 1]
    BY <1>1, <2>1, SubSeqProperties
  <2> HIDE DEF y
  <2>3. Len(y) = n - p
    BY <1>1, <2>2
  <2>4. \A a \in 1 .. n - p : a \in 1 .. n - (1 + p) + 1 /\ 1 + p + a - 1 = p + a
    BY <1>1
  <2> QED
    BY <2>2, <2>3, <2>4
<1>5. u = x \o <<r>> \o y
  BY DEF InsertAt
<1> HIDE DEF x, y, u, n
<1> DEFINE z == x \o <<r>>
<1>6. <<r>> \in Seq(OvfRecord) /\ Len(<<r>>) = 1 /\ <<r>>[1] = r
  OBVIOUS
<1>7. /\ z \in Seq(OvfRecord) /\ Len(z) = p + 1
      /\ \A a \in 1 .. p + 1 : z[a] = IF a <= p THEN x[a] ELSE <<r>>[a - p]
  BY <1>3, <1>6, ConcatProperties
<1> HIDE DEF z
<1>8. /\ u \in Seq(OvfRecord) /\ Len(u) = (p + 1) + (n - p)
      /\ \A a \in 1 .. (p + 1) + (n - p) : u[a] = IF a <= p + 1 THEN z[a] ELSE y[a - (p + 1)]
  <2>1. u = z \o y
    BY <1>5 DEF z
  <2>2. /\ z \o y \in Seq(OvfRecord) /\ Len(z \o y) = Len(z) + Len(y)
        /\ \A a \in 1 .. Len(z) + Len(y) :
             (z \o y)[a] = IF a <= Len(z) THEN z[a] ELSE y[a - Len(z)]
    BY <1>4, <1>7, ConcatProperties
  <2>3. Len(z) = p + 1 /\ Len(y) = n - p
    BY <1>4, <1>7
  <2> QED
    BY <2>1, <2>2, <2>3
<1>9. (p + 1) + (n - p) = n + 1
  BY <1>1
<1>10. ASSUME NEW a \in 1 .. n + 1
       PROVE  u[a] = IF a <= p THEN q[a] ELSE IF a = p + 1 THEN r ELSE q[a - 1]
  <2>1. CASE a <= p
    <3>1. a \in 1 .. p /\ a \in 1 .. p + 1 /\ a <= p + 1
      BY <1>1, <2>1
    <3> QED
      BY <1>3, <1>7, <1>8, <1>9, <2>1, <3>1
  <2>2. CASE a = p + 1
    <3>1. a \in 1 .. p + 1 /\ ~(a <= p) /\ a <= p + 1 /\ a - p = 1
      BY <1>1, <2>2
    <3> QED
      BY <1>6, <1>7, <1>8, <1>9, <2>2, <3>1
  <2>3. CASE a > p + 1
    <3> DEFINE c == a - (p + 1)
    <3>1. ~(a <= p + 1) /\ ~(a <= p) /\ a # p + 1 /\ c \in 1 .. n - p /\ p + c = a - 1
      BY <1>1, <2>3
    <3> HIDE DEF c
    <3>2. u[a] = y[c]
      BY <1>8, <1>9, <3>1 DEF c
    <3> QED
      BY <1>4, <3>1, <3>2
  <2> QED
    BY <1>1, <2>1, <2>2, <2>3
<1> QED
  BY <1>8, <1>9, <1>10 DEF u, n

LEMMA InsertedKeeps ==
  ASSUME NEW s, NEW n \in Nat, NEW q, SortOf(s, q, n), s[n + 1] \in OvfRecord
  PROVE  SortOf(s, Inserted(q, s[n + 1]), n + 1)
<1> DEFINE r == s[n + 1]
           B == {0} \cup {m \in DOMAIN q : ~OvfBefore(r, q[m])}
           p == Max(B)
           u == InsertAt(q, 1 + p, r)
<1>1. q \in Seq(OvfRecord) /\ Len(q) = n /\ InOrder(q) /\ r \in OvfRecord /\ DOMAIN q = 1 .. n
  BY LenProperties DEF SortOf
<1>2. \A m \in 1 .. n : q[m] \in OvfRecord
  BY <1>1, ElementOfSeq
<1> HIDE DEF r
<1>3. p \in B /\ \A m \in B : m <= p
  <2>1. B \subseteq Nat /\ B # {} /\ \A m \in B : m <= n
    BY <1>1
  <2> HIDE DEF B
  <2> QED
    BY <2>1, Greatest
<1>4. /\ p \in 0 .. n
      /\ p \in 1 .. n => ~OvfBefore(r, q[p])
      /\ \A m \in 1 .. n : p < m => OvfBefore(r, q[m])
  <2> HIDE DEF p
  <2>1. p \in 0 .. n /\ (p \in 1 .. n => ~OvfBefore(r, q[p]))
    BY <1>1, <1>3
  <2>2. ASSUME NEW m \in 1 .. n, p < m
        PROVE  OvfBefore(r, q[m])
    <3>1. m \notin B
      BY <1>3, <2>1, <2>2
    <3> QED
      BY <1>1, <3>1
  <2> QED
    BY <2>1, <2>2
<1>5. Inserted(q, r) = u
  BY DEF Inserted
<1> HIDE DEF p, B
<1>6. /\ u \in Seq(OvfRecord) /\ Len(u) = n + 1
      /\ \A a \in 1 .. n + 1 : u[a] = IF a <= p THEN q[a] ELSE IF a = p + 1 THEN r ELSE q[a - 1]
  BY <1>1, <1>4, InsertAtDoes
<1> HIDE DEF u
\* Each element of u by its kind.
<1>7. \A a \in 1 .. n + 1 :
        \/ a \in 1 .. n /\ a <= p /\ u[a] = q[a]
        \/ a = p + 1 /\ u[a] = r
        \/ a - 1 \in 1 .. n /\ p + 1 < a /\ u[a] = q[a - 1]
  BY <1>4, <1>6
<1>8. \A m \in 1 .. n : m <= p => ~OvfBefore(r, q[m])
  <2> TAKE m \in 1 .. n
  <2> HAVE m <= p
  <2>1. CASE m = p
    BY <1>4, <2>1
  <2>2. CASE m < p
    <3>1. p \in 1 .. n
      BY <1>4, <2>2
    <3>2. ~OvfBefore(q[p], q[m]) /\ ~OvfBefore(r, q[p])
      BY <1>1, <1>4, <2>2, <3>1 DEF InOrder
    <3> QED
      BY <1>1, <1>2, <3>1, <3>2, BeforeIsOrder
  <2> QED
    BY <1>4, <2>1, <2>2
<1>9. \A m \in 1 .. n : p < m => ~OvfBefore(q[m], r)
  BY <1>1, <1>2, <1>4, BeforeIsOrder
<1>10. InOrder(u)
  <2> SUFFICES ASSUME NEW a \in 1 .. n + 1, NEW b \in 1 .. n + 1, a < b
               PROVE  ~OvfBefore(u[b], u[a])
    BY <1>6 DEF InOrder
  <2>0. \A c, d \in 1 .. n : c < d => ~OvfBefore(q[d], q[c])
    BY <1>1 DEF InOrder
  <2>1. CASE a \in 1 .. n /\ a <= p /\ u[a] = q[a]
    <3>1. CASE b \in 1 .. n /\ b <= p /\ u[b] = q[b]
      BY <2>0, <2>1, <3>1
    <3>2. CASE b = p + 1 /\ u[b] = r
      BY <1>8, <2>1, <3>2
    <3>3. CASE b - 1 \in 1 .. n /\ p + 1 < b /\ u[b] = q[b - 1]
      <4>1. a < b - 1
        BY <1>4, <2>1, <3>3
      <4> QED
        BY <2>0, <2>1, <3>3, <4>1
    <3> QED
      BY <1>7, <3>1, <3>2, <3>3
  <2>2. CASE a = p + 1 /\ u[a] = r
    <3>1. b - 1 \in 1 .. n /\ p < b - 1 /\ u[b] = q[b - 1]
      BY <1>4, <1>6, <2>2
    <3> QED
      BY <1>9, <2>2, <3>1
  <2>3. CASE a - 1 \in 1 .. n /\ p + 1 < a /\ u[a] = q[a - 1]
    <3>1. b - 1 \in 1 .. n /\ a - 1 < b - 1 /\ u[b] = q[b - 1]
      BY <1>4, <1>6, <2>3
    <3> QED
      BY <2>0, <2>3, <3>1
  <2> QED
    BY <1>7, <2>1, <2>2, <2>3
<1>11. PICK f : Arranges(f, s, q, n)
  BY DEF SortOf
<1> DEFINE g == [a \in 1 .. n + 1 |-> IF a <= p THEN f[a] ELSE IF a = p + 1 THEN n + 1 ELSE f[a - 1]]
\* The places of q in u.
<1> DEFINE to == [a \in 1 .. n |-> IF a <= p THEN a ELSE a + 1]
           of == [a \in 1 .. n + 1 |-> IF a <= p THEN a ELSE a - 1]
<1>12. /\ \A a \in 1 .. n : f[a] \in 1 .. n /\ f[a] # n + 1 /\ q[a] = s[f[a]]
       /\ \A a, b \in 1 .. n : f[a] = f[b] => a = b
       /\ \A m \in 1 .. n : \E a \in 1 .. n : f[a] = m
  BY <1>11 DEF Arranges
<1>13. /\ p + 1 \in 1 .. n + 1 /\ g[p + 1] = n + 1
       /\ \A a \in 1 .. n + 1 : a # p + 1 => of[a] \in 1 .. n /\ g[a] = f[of[a]] /\ u[a] = q[of[a]]
       /\ \A a \in 1 .. n : to[a] \in 1 .. n + 1 /\ g[to[a]] = f[a]
       /\ \A a, b \in 1 .. n + 1 : a # p + 1 /\ b # p + 1 /\ of[a] = of[b] => a = b
  <2>1. p + 1 \in 1 .. n + 1 /\ g[p + 1] = n + 1
    BY <1>4
  <2>2. ASSUME NEW a \in 1 .. n + 1, a # p + 1
        PROVE  of[a] \in 1 .. n /\ g[a] = f[of[a]] /\ u[a] = q[of[a]]
    BY <1>4, <1>6, <2>2
  <2>3. ASSUME NEW a \in 1 .. n
        PROVE  to[a] \in 1 .. n + 1 /\ g[to[a]] = f[a]
    <3>1. CASE a <= p
      BY <1>4, <3>1
    <3>2. CASE p < a
      <4>1. a + 1 \in 1 .. n + 1 /\ ~(a + 1 <= p) /\ a + 1 # p + 1 /\ (a + 1) - 1 = a /\ ~(a <= p)
        BY <1>4, <3>2
      <4> QED
        BY <4>1
    <3> QED
      BY <1>4, <3>1, <3>2
  <2>4. \A a, b \in 1 .. n + 1 : a # p + 1 /\ b # p + 1 /\ of[a] = of[b] => a = b
    BY <1>4
  <2> QED
    BY <2>1, <2>2, <2>3, <2>4
<1>14. Arranges(g, s, u, n + 1)
  <2> HIDE DEF to, of
  <2>a. g = [a \in 1 .. n + 1 |-> g[a]]
    OBVIOUS
  <2> HIDE DEF g
  <2>b. u[p + 1] = r
    BY <1>4, <1>6
  <2>0. u[p + 1] = s[n + 1] /\ g = [a \in 1 .. n + 1 |-> g[a]]
    BY <2>a, <2>b DEF r
  <2>1. \A a \in 1 .. n + 1 : g[a] \in 1 .. n + 1 /\ u[a] = s[g[a]]
    <3> TAKE a \in 1 .. n + 1
    <3>1. CASE a = p + 1
      BY <1>4, <1>13, <2>0, <3>1
    <3>2. CASE a # p + 1
      <4>1. of[a] \in 1 .. n /\ g[a] = f[of[a]] /\ u[a] = q[of[a]]
        BY <1>13, <3>2
      <4>2. f[of[a]] \in 1 .. n /\ q[of[a]] = s[f[of[a]]]
        BY <1>12, <4>1
      <4> QED
        BY <4>1, <4>2
    <3> QED
      BY <3>1, <3>2
  <2>2. g \in [1 .. n + 1 -> 1 .. n + 1]
    BY <2>0, <2>1
  <2>3. ASSUME NEW a \in 1 .. n + 1, NEW b \in 1 .. n + 1, g[a] = g[b]
        PROVE  a = b
    BY <1>12, <1>13, <2>3
  <2>4. ASSUME NEW m \in 1 .. n + 1
        PROVE  \E a \in 1 .. n + 1 : g[a] = m
    <3>1. CASE m = n + 1
      BY <1>13, <3>1
    <3>2. CASE m \in 1 .. n
      <4>1. PICK a \in 1 .. n : f[a] = m
        BY <1>12, <3>2
      <4> QED
        BY <1>13, <4>1
    <3> QED
      BY <3>1, <3>2
  <2> QED
    BY <2>1, <2>2, <2>3, <2>4 DEF Arranges
<1> HIDE DEF g
<1>15. SortOf(s, u, n + 1)
  BY <1>6, <1>10, <1>14 DEF SortOf
<1> QED
  BY <1>5, <1>15 DEF r

\* The records the index is built from, one after the other, in order.
LEMMA SortedIs ==
  ASSUME NEW s \in Seq(OvfRecord), NEW n \in Nat, n <= Len(s)
  PROVE  SortOf(s, Sorted(s, n), n)
<1> DEFINE IsRun(g, m) == /\ g = [k \in 0 .. m |-> g[k]]
                          /\ g[0] = <<>>
                          /\ \A k \in 1 .. m : g[k] = Inserted(g[k - 1], s[k])
           T == {m \in Nat : \E g : IsRun(g, m)}
           Body(g) == [m \in 0 .. n |-> IF m = 0 THEN <<>> ELSE Inserted(g[m - 1], s[m])]
           sorted == CHOOSE g : g = Body(g)
<1>1. 0 \in T
  <2> DEFINE g == [k \in 0 .. 0 |-> <<>>]
  <2>1. IsRun(g, 0)
    OBVIOUS
  <2> HIDE DEF IsRun, g
  <2> QED
    BY <2>1
<1>2. ASSUME NEW m \in Nat, m \in T
      PROVE  m + 1 \in T
  <2>1. PICK g : IsRun(g, m)
    BY <1>2
  <2> DEFINE h == [k \in 0 .. m + 1 |-> IF k <= m THEN g[k] ELSE Inserted(g[m], s[m + 1])]
  <2>2. m \in 0 .. m /\ m + 1 \in Nat
    OBVIOUS
  <2>3. /\ \A k \in 0 .. m : h[k] = g[k]
        /\ h[m + 1] = Inserted(g[m], s[m + 1])
        /\ h = [k \in 0 .. m + 1 |-> h[k]]
    BY <2>2
  <2> HIDE DEF h
  <2>4. ASSUME NEW k \in 1 .. m + 1
        PROVE  h[k] = Inserted(h[k - 1], s[k])
    <3>1. CASE k \in 1 .. m
      <4>1. k \in 0 .. m /\ k - 1 \in 0 .. m
        BY <3>1
      <4> QED
        BY <2>1, <2>3, <3>1, <4>1
    <3>2. CASE k = m + 1
      <4>1. k - 1 = m
        BY <3>2
      <4> QED
        BY <2>2, <2>3, <3>2, <4>1
    <3> QED
      BY <3>1, <3>2
  <2>5. h[0] = <<>>
    <3>1. 0 \in 0 .. m
      OBVIOUS
    <3> QED
      BY <2>1, <2>3, <3>1
  <2>6. IsRun(h, m + 1)
    BY <2>3, <2>4, <2>5
  <2> HIDE DEF IsRun
  <2> QED
    BY <2>2, <2>6
<1>3. n \in T
  <2> HIDE DEF T
  <2> QED
    BY <1>1, <1>2, Induction
<1>4. PICK g : IsRun(g, n)
  BY <1>3
<1>5. g = Body(g)
  <2>1. \A k \in 0 .. n : g[k] = IF k = 0 THEN <<>> ELSE Inserted(g[k - 1], s[k])
    BY <1>4
  <2> QED
    BY <1>4, <2>1
<1>6. sorted = Body(sorted)
  <2> HIDE DEF Body
  <2> QED
    BY <1>5
<1>7. Sorted(s, n) = sorted[n]
  BY DEF Sorted
<1> HIDE DEF sorted
<1>8. /\ sorted[0] = <<>>
      /\ \A k \in 1 .. n : sorted[k] = Inserted(sorted[k - 1], s[k])
  <2>1. 0 \in 0 .. n /\ \A k \in 1 .. n : k \in 0 .. n /\ k # 0
    OBVIOUS
  <2> QED
    BY <1>6, <2>1
<1> HIDE DEF T
<1> DEFINE U == {k \in Nat : k <= n => SortOf(s, sorted[k], k)}
<1>9. 0 \in U
  <2> DEFINE f == [a \in 1 .. 0 |-> a]
  <2>1. Arranges(f, s, <<>>, 0)
    BY DEF Arranges
  <2>2. <<>> \in Seq(OvfRecord) /\ Len(<<>>) = 0 /\ InOrder(<<>>)
    BY EmptySeq DEF InOrder
  <2> QED
    BY <1>8, <2>1, <2>2 DEF SortOf
<1>10. ASSUME NEW k \in Nat, k \in U
       PROVE  k + 1 \in U
  <2> SUFFICES ASSUME k + 1 <= n PROVE SortOf(s, sorted[k + 1], k + 1)
    OBVIOUS
  <2>1. k <= n /\ k + 1 \in 1 .. n /\ (k + 1) - 1 = k /\ k + 1 \in 1 .. Len(s)
    BY LenProperties
  <2>2. s[k + 1] \in OvfRecord
    BY <2>1, ElementOfSeq
  <2>3. SortOf(s, sorted[k], k)
    BY <1>10, <2>1
  <2>4. sorted[k + 1] = Inserted(sorted[k], s[k + 1])
    BY <1>8, <2>1
  <2> QED
    BY <2>2, <2>3, <2>4, InsertedKeeps
<1>11. n \in U
  <2> HIDE DEF U
  <2> QED
    BY <1>9, <1>10, Induction
<1> QED
  BY <1>7, <1>11

-----------------------------------------------------------------------------
(***************************************************************************)
(* Volumes, and the index of a mounted one.                                *)
(***************************************************************************)
OfFile(ix, id, p) == {j \in p .. Len(ix) : ix[j].id = id}

\* Where the records of the file begin that the index holds from place p on.
Behind(ix, id, p) == {ix[j].fabn : j \in OfFile(ix, id, p)}

IsIndex(v, ix) == ix = IF v.kind = "classic" THEN Indexed(v) ELSE <<>>

LEMMA VolumeParts ==
  ASSUME NEW v \in Volume
  PROVE  /\ v.kind \in {"classic", "plus"}
         /\ v.ovf \in Seq(OvfRecord)
         /\ \A id \in DOMAIN v.fork :
              /\ v.fork[id] \in Seq(Nat)
              /\ \A j, k \in 1 .. Len(v.fork[id]) : v.fork[id][j] = v.fork[id][k] => j = k
         /\ \A e \in v.entries :
              /\ e \in CatalogFile /\ e.id \in DOMAIN v.fork
              /\ e.size <= AlBlk * Len(v.fork[e.id])
              /\ Describes(v.fork[e.id], 0, e.exts,
                   {v.ovf[n].fabn : n \in {n \in DOMAIN v.ovf : v.ovf[n].id = e.id}})
         /\ \A m \in 1 .. Len(v.ovf) :
              /\ v.ovf[m].id \in DOMAIN v.fork
              /\ Describes(v.fork[v.ovf[m].id], v.ovf[m].fabn, v.ovf[m].exts,
                   {v.ovf[n].fabn : n \in {n \in DOMAIN v.ovf :
                      n # m /\ v.ovf[n].id = v.ovf[m].id /\ v.ovf[m].fabn <= v.ovf[n].fabn}})
<1>1. Consistent(v)
  BY VolumeAssumption
<1>2. v.ovf \in Seq(OvfRecord)
  BY <1>1 DEF Consistent
<1>3. DOMAIN v.ovf = 1 .. Len(v.ovf)
  BY <1>2, LenProperties
<1>4. \A id \in DOMAIN v.fork :
        /\ v.fork[id] \in Seq(Nat)
        /\ \A j, k \in 1 .. Len(v.fork[id]) : v.fork[id][j] = v.fork[id][k] => j = k
  <2> TAKE id \in DOMAIN v.fork
  <2>1. v.fork[id] \in Seq(Nat) /\ IsInjective(v.fork[id])
    BY <1>1 DEF Consistent
  <2>2. DOMAIN v.fork[id] = 1 .. Len(v.fork[id])
    BY <2>1, LenProperties
  <2> QED
    BY <2>1, <2>2 DEF IsInjective
<1> QED
  BY <1>1, <1>2, <1>3, <1>4 DEF Consistent

LEMMA LessRest ==
  ASSUME NEW fork, NEW first, NEW exts, NEW more, NEW rest,
         Describes(fork, first, exts, more), rest \subseteq more
  PROVE  Describes(fork, first, exts, rest)
BY DEF Describes

LEMMA IndexDoes ==
  ASSUME NEW v \in Volume, NEW ix, IsIndex(v, ix)
  PROVE  /\ ix \in Seq(OvfRecord) /\ InOrder(ix)
         /\ RangeOf(ix) \subseteq RangeOf(v.ovf)
         /\ \A j \in 1 .. Len(ix) :
              /\ ix[j].id \in DOMAIN v.fork
              /\ Describes(v.fork[ix[j].id], ix[j].fabn, ix[j].exts, Behind(ix, ix[j].id, j + 1))
         /\ v.kind = "classic" /\ Len(v.ovf) <= MaxOvf =>
              \A m \in 1 .. Len(v.ovf) : \E j \in 1 .. Len(ix) : ix[j] = v.ovf[m]
<1>1. CASE v.kind # "classic"
  <2>1. ix = <<>> /\ ix \in Seq(OvfRecord) /\ Len(ix) = 0
    BY <1>1, EmptySeq DEF IsIndex
  <2>2. 1 .. Len(ix) = {}
    BY <2>1
  <2> QED
    BY <1>1, <2>1, <2>2 DEF InOrder, RangeOf
<1>2. CASE v.kind = "classic"
  <2> DEFINE s == v.ovf
             L == Len(s)
             n == Smaller(L, MaxOvf)
  <2>1. s \in Seq(OvfRecord) /\ L \in Nat /\ DOMAIN s = 1 .. L
    BY VolumeParts, LenProperties
  <2>2. n \in Nat /\ n <= L /\ (L <= MaxOvf => n = L)
    BY <2>1, VolumeAssumption DEF Smaller
  <2>3. ix = Sorted(s, n)
    BY <1>2 DEF IsIndex, Indexed
  <2> HIDE DEF n
  <2>4. SortOf(s, ix, n)
    <3> HIDE DEF s, L
    <3> QED
      BY <2>1, <2>2, <2>3, SortedIs DEF L
  <2>5. ix \in Seq(OvfRecord) /\ Len(ix) = n /\ InOrder(ix)
    BY <2>4 DEF SortOf
  <2>6. PICK f : Arranges(f, s, ix, n)
    BY <2>4 DEF SortOf
  <2>7. /\ \A a \in 1 .. n : f[a] \in 1 .. n /\ f[a] \in 1 .. L /\ ix[a] = s[f[a]]
        /\ \A a, b \in 1 .. n : f[a] = f[b] => a = b
        /\ \A m \in 1 .. n : \E a \in 1 .. n : f[a] = m
    <3> HIDE DEF s, L
    <3>1. 1 .. n \subseteq 1 .. L
      BY <2>1, <2>2
    <3> QED
      BY <2>6, <3>1 DEF Arranges
  <2>8. RangeOf(ix) \subseteq RangeOf(s)
    <3> SUFFICES ASSUME NEW a \in 1 .. n
                 PROVE  \E b \in 1 .. L : ix[a] = s[b]
      BY <2>5 DEF RangeOf
    <3> HIDE DEF s, L
    <3> QED
      BY <2>7
  <2>9. ASSUME NEW j \in 1 .. n
        PROVE  /\ ix[j].id \in DOMAIN v.fork
               /\ Describes(v.fork[ix[j].id], ix[j].fabn, ix[j].exts, Behind(ix, ix[j].id, j + 1))
    <3> DEFINE m == f[j]
               more == {s[k].fabn : k \in {k \in DOMAIN s :
                          k # m /\ s[k].id = s[m].id /\ s[m].fabn <= s[k].fabn}}
    <3>1. m \in 1 .. L /\ ix[j] = s[m]
      BY <2>7
    <3>2. s[m].id \in DOMAIN v.fork /\ Describes(v.fork[s[m].id], s[m].fabn, s[m].exts, more)
      BY <3>1, VolumeParts
    <3>3. Behind(ix, ix[j].id, j + 1) \subseteq more
      <4> SUFFICES ASSUME NEW k \in j + 1 .. n, ix[k].id = ix[j].id
                   PROVE  ix[k].fabn \in more
        BY <2>5 DEF Behind, OfFile
      <4>1. k \in 1 .. n /\ j < k
        <5> HIDE DEF s, L, m
        <5> QED
          BY <2>2
      <4>2. ix[k] = s[f[k]] /\ f[k] \in 1 .. L /\ f[k] # m
        <5> HIDE DEF s, L
        <5>1. j # k
          BY <2>2, <4>1
        <5> QED
          BY <2>7, <4>1, <5>1
      <4>3. ~OvfBefore(ix[k], ix[j])
        BY <2>5, <4>1 DEF InOrder
      <4>4. ix[k] \in OvfRecord /\ ix[j] \in OvfRecord
        BY <2>5, <4>1, ElementOfSeq
      <4>5. ix[j].fabn <= ix[k].fabn
        BY <4>3, <4>4 DEF OvfBefore, OvfRecord
      <4> HIDE DEF s, L, m
      <4> QED
        BY <2>1, <3>1, <4>2, <4>5
    <3> QED
      BY <3>1, <3>2, <3>3, LessRest
  <2>10. ASSUME L <= MaxOvf, NEW m \in 1 .. L
         PROVE  \E j \in 1 .. n : ix[j] = s[m]
    <3> HIDE DEF s, L
    <3>1. m \in 1 .. n
      BY <2>2, <2>10
    <3> QED
      BY <2>7, <3>1
  <2> QED
    BY <2>5, <2>8, <2>9, <2>10
<1> QED
  BY <1>1, <1>2

-----------------------------------------------------------------------------
(***************************************************************************)
(* Mounting.                                                               *)
(***************************************************************************)
MountInv ==
  /\ disk \in Disks
  /\ ~mounted => index = <<>> /\ rd = Idle
  /\ mounted => /\ vol.device \in Device /\ dev = vol.device /\ disk[dev] # NoVolume
                /\ vol.kind = TheVolume.kind
                /\ {"dirs", "files", "cat"} \subseteq tables
                /\ IsIndex(TheVolume, index)

LEMMA MountedVolume ==
  ASSUME MountInv, mounted
  PROVE  TheVolume \in Volume
<1>1. disk \in Disks /\ vol.device \in Device /\ disk[vol.device] # NoVolume
  BY DEF MountInv
<1>2. disk[vol.device] \in {disk[i] : i \in Device}
  BY <1>1
<1>3. disk[vol.device] \in UNION {{d[i] : i \in Device} : d \in Disks}
  BY <1>1, <1>2
<1> QED
  BY <1>1, <1>3 DEF TheVolume, Volume

LEMMA MountKeepsInv ==
  ASSUME MountInv, [Next]_vars
  PROVE  MountInv'
<1>1. CASE MountFindsNothing
  BY <1>1 DEF MountInv, MountFindsNothing
<1>2. CASE MountRunsOut
  BY <1>2 DEF MountInv, MountRunsOut
<1>3. CASE MountFailsToLoad
  BY <1>3 DEF MountInv, MountFailsToLoad
<1>4. CASE Mount
  <2>1. PICK d \in Device, bad \in SUBSET Device :
          /\ Found(d, bad)
          /\ vol' = [device |-> d, kind |-> disk[d].kind]
          /\ tables' = {"dirs", "files", "cat"} \cup
               (IF disk[d].kind = "classic" THEN {"xof"} ELSE {})
          /\ index' = IF disk[d].kind = "classic" THEN Indexed(disk[d]) ELSE index
    BY <1>4 DEF Mount
  <2>2. ~mounted /\ mounted' /\ disk' = disk
    BY <1>4 DEF Mount
  <2>3. index = <<>>
    BY <2>2 DEF MountInv
  <2>4. dev' = d /\ disk[d] # NoVolume
    BY <2>1 DEF Found, First, Readable
  <2>5. TheVolume' = disk[d] /\ vol'.device = d /\ vol'.kind = disk[d].kind
    BY <2>1, <2>2 DEF TheVolume
  <2>6. IsIndex(disk[d], index')
    BY <2>1, <2>3 DEF IsIndex
  <2>7. IsIndex(TheVolume', index')
    BY <2>5, <2>6
  <2> QED
    BY <2>1, <2>2, <2>4, <2>5, <2>7 DEF MountInv
<1>5. ASSUME mounted, UNCHANGED <<disk, dev, vol, mounted, tables, index>>
      PROVE  MountInv'
  BY <1>5 DEF MountInv, TheVolume
<1>6. CASE \E e \in catalog, cap \in Capacity : ReadBegin(e, cap)
  BY <1>5, <1>6 DEF ReadBegin
<1>7. CASE ReadStep
  <2>1. mounted
    BY <1>7 DEF ReadStep, TakeExtent, ReadFails, PullOverflow, ReadRunsOut, ReadEnd, More,
                Running, MountInv
  <2> QED
    BY <1>5, <1>7, <2>1 DEF ReadStep, TakeExtent, ReadFails, PullOverflow, ReadRunsOut, ReadEnd,
                            Finish
<1>8. CASE UNCHANGED vars
  BY <1>8 DEF vars, MountInv, TheVolume
<1> QED
  BY <1>1, <1>2, <1>3, <1>4, <1>6, <1>7, <1>8 DEF Next

(* At every moment a mounted volume is one volume: its device is the one   *)
(* reads go to, and nothing of another device is left in the index         *)
(* (HfsMount, HfsDetect and the loaders they call).                        *)
THEOREM MountInvariant == Spec => [](MountInv /\ MountedIsOneVolume)
<1>1. Init => MountInv
  BY DEF Init, MountInv
<1>2. MountInv /\ [Next]_vars => MountInv'
  BY MountKeepsInv
<1>3. MountInv => MountedIsOneVolume
  <2> SUFFICES ASSUME MountInv, mounted PROVE MountedIsOneVolume
    BY DEF MountedIsOneVolume
  <2>1. IsIndex(TheVolume, index)
    BY DEF MountInv
  <2>2. RangeOf(index) \subseteq RangeOf(TheVolume.ovf)
    BY <2>1, MountedVolume, IndexDoes
  <2> QED
    BY <2>2 DEF MountInv, MountedIsOneVolume
<1> QED
  BY <1>1, <1>2, <1>3, PTL DEF Spec

-----------------------------------------------------------------------------
(***************************************************************************)
(* Extents.                                                                *)
(***************************************************************************)

\* Whole blocks in front of a place do not change its place in its block.
LEMMA BlocksInFront ==
  ASSUME NEW L \in Nat, NEW a \in Nat
  PROVE  /\ a \div AlBlk \in Nat /\ a % AlBlk \in Nat
         /\ a = AlBlk * (a \div AlBlk) + (a % AlBlk) /\ a % AlBlk < AlBlk
         /\ (AlBlk * L + a) \div AlBlk = L + a \div AlBlk
         /\ (AlBlk * L + a) % AlBlk = a % AlBlk
<1> DEFINE B == AlBlk
           b == B * L + a
           q == a \div B
           r == a % B
           Q == b \div B
           R == b % B
<1>1. B \in Nat /\ B > 0
  BY VolumeAssumption
<1>2. B * L \in Nat /\ b \in Nat
  BY <1>1
<1>3. q \in Nat /\ r \in Nat /\ a = B * q + r /\ r < B
  BY <1>1
<1>4. Q \in Nat /\ R \in Nat /\ b = B * Q + R /\ R < B
  <2> HIDE DEF b
  <2> QED
    BY <1>1, <1>2
<1>5. b = B * L + a
  OBVIOUS
<1> HIDE DEF B, b, q, r, Q, R
<1>6. \A d \in Nat : d # 0 => B * d >= B
  BY <1>1
<1>7. Q = L + q
  <2>1. CASE Q < L + q
    <3> DEFINE d == (L + q) - Q
    <3>1. d \in Nat /\ d # 0 /\ L + q = Q + d
      BY <1>3, <1>4, <2>1
    <3> HIDE DEF d
    <3>2. B * (L + q) = B * L + B * q /\ B * (Q + d) = B * Q + B * d
      BY <1>1, <1>3, <1>4, <3>1
    <3>3. B * L \in Nat /\ B * q \in Nat /\ B * Q \in Nat /\ B * d \in Nat /\ B * d >= B
      BY <1>1, <1>3, <1>4, <1>6, <3>1
    <3> QED
      BY <1>1, <1>3, <1>4, <1>5, <3>1, <3>2, <3>3
  <2>2. CASE L + q < Q
    <3> DEFINE d == Q - (L + q)
    <3>1. d \in Nat /\ d # 0 /\ Q = (L + q) + d
      BY <1>3, <1>4, <2>2
    <3> HIDE DEF d
    <3>2. B * ((L + q) + d) = (B * L + B * q) + B * d
      BY <1>1, <1>3, <1>4, <3>1
    <3>3. B * L \in Nat /\ B * q \in Nat /\ B * Q \in Nat /\ B * d \in Nat /\ B * d >= B
      BY <1>1, <1>3, <1>4, <1>6, <3>1
    <3> QED
      BY <1>1, <1>3, <1>4, <1>5, <3>1, <3>2, <3>3
  <2> QED
    BY <1>3, <1>4, <2>1, <2>2
<1>8. R = r
  <2>1. B * (L + q) = B * L + B * q
    BY <1>1, <1>3
  <2>2. B * L \in Nat /\ B * q \in Nat
    BY <1>1, <1>3
  <2> QED
    BY <1>1, <1>3, <1>4, <1>5, <1>7, <2>1, <2>2
<1>9. /\ q \in Nat /\ r \in Nat /\ a = B * q + r /\ r < B
      /\ Q = L + q /\ R = r
  BY <1>3, <1>7, <1>8
<1>10. /\ a \div B \in Nat /\ a % B \in Nat /\ a = B * (a \div B) + (a % B) /\ a % B < B
       /\ b \div B = L + a \div B /\ b % B = a % B
  BY <1>9, Zenon DEF q, r, Q, R
<1> QED
  BY <1>10, Zenon DEF B, b

LEMMA HeadOfRuns ==
  ASSUME NEW exts \in Seq(Run), exts # <<>>
  PROVE  /\ exts[1] \in Run /\ Head(exts) = exts[1]
         /\ Tail(exts) \in Seq(Run) /\ Len(exts) = Len(Tail(exts)) + 1
         /\ \A j \in 1 .. Len(Tail(exts)) : Tail(exts)[j] = exts[j + 1]
<1>1. Len(exts) \in Nat /\ Len(exts) # 0
  BY EmptySeq, LenProperties
<1>2. 1 \in 1 .. Len(exts)
  BY <1>1
<1>3. exts[1] \in Run /\ Head(exts) = exts[1]
  BY <1>2, ElementOfSeq, HeadTailProperties
<1>4. /\ Tail(exts) \in Seq(Run) /\ Len(Tail(exts)) = Len(exts) - 1
      /\ \A j \in 1 .. Len(Tail(exts)) : Tail(exts)[j] = exts[j + 1]
  BY HeadTailProperties
<1> QED
  BY <1>1, <1>3, <1>4

\* What true extents say of the first of them, and what is left to say.
LEMMA TruthOfHead ==
  ASSUME NEW fork \in Seq(Nat), NEW first \in Nat, NEW last \in 0 .. Len(fork),
         NEW exts \in Seq(Run), exts # <<>>, Truthful(fork, first, last, exts)
  PROVE  /\ first + exts[1].count <= last
         /\ \A o \in 1 .. exts[1].count : fork[first + o] = exts[1].block + o - 1
         /\ Truthful(fork, first + exts[1].count, last, Tail(exts))
<1> DEFINE N == Len(exts)
           rest == Tail(exts)
           M == Len(rest)
<1>1. PICK start \in [1 .. N + 1 -> 0 .. last] :
        /\ start[1] = first /\ start[N + 1] = last
        /\ \A j \in 1 .. N :
             /\ start[j + 1] = start[j] + exts[j].count
             /\ \A o \in 1 .. exts[j].count : fork[start[j] + o] = exts[j].block + o - 1
  BY DEF Truthful
<1>2. /\ M \in Nat /\ N = M + 1 /\ \A j \in 1 .. M : rest[j] = exts[j + 1]
      /\ rest \in Seq(Run)
  BY HeadOfRuns, LenProperties
<1> HIDE DEF N, rest, M
<1>3. 1 \in 1 .. N /\ 1 + 1 = 2 /\ 2 \in 1 .. N + 1
  BY <1>2
<1>4. start[2] = first + exts[1].count /\ start[2] \in 0 .. last
  BY <1>1, <1>3
<1>5. \A o \in 1 .. exts[1].count : fork[first + o] = exts[1].block + o - 1
  BY <1>1, <1>3
<1> DEFINE next == [j \in 1 .. M + 1 |-> start[j + 1]]
<1>6. next \in [1 .. M + 1 -> 0 .. last] /\ next[1] = start[2] /\ next[M + 1] = last
  <2>1. \A j \in 1 .. M + 1 : j + 1 \in 1 .. N + 1
    BY <1>2
  <2>2. 1 \in 1 .. M + 1 /\ M + 1 \in 1 .. M + 1 /\ (M + 1) + 1 = N + 1
    BY <1>2
  <2>3. \A j \in 1 .. M + 1 : start[j + 1] \in 0 .. last
    BY <1>1, <2>1
  <2> QED
    BY <1>1, <1>3, <2>2, <2>3
<1>7. ASSUME NEW j \in 1 .. M
      PROVE  /\ next[j + 1] = next[j] + rest[j].count
             /\ \A o \in 1 .. rest[j].count : fork[next[j] + o] = rest[j].block + o - 1
  <2>1. j \in 1 .. M + 1 /\ j + 1 \in 1 .. M + 1 /\ j + 1 \in 1 .. N
    BY <1>2
  <2>2. next[j] = start[j + 1] /\ next[j + 1] = start[(j + 1) + 1] /\ rest[j] = exts[j + 1]
    BY <1>2, <2>1
  <2> HIDE DEF next
  <2> QED
    BY <1>1, <2>1, <2>2
<1> HIDE DEF next
<1>8. Truthful(fork, start[2], last, rest)
  BY <1>6, <1>7 DEF Truthful, M
<1> QED
  BY <1>4, <1>5, <1>8 DEF rest

\* Every block of true extents is a block of the fork, behind the first.
LEMMA TruthOfAll ==
  ASSUME NEW fork \in Seq(Nat), NEW first \in Nat, NEW last \in 0 .. Len(fork),
         NEW exts \in Seq(Run), Truthful(fork, first, last, exts),
         NEW j \in 1 .. Len(exts), NEW o \in 1 .. exts[j].count
  PROVE  \E k \in first + 1 .. Len(fork) : fork[k] = exts[j].block + o - 1
<1> DEFINE N == Len(exts)
<1>1. PICK start \in [1 .. N + 1 -> 0 .. last] :
        /\ start[1] = first /\ start[N + 1] = last
        /\ \A i \in 1 .. N :
             /\ start[i + 1] = start[i] + exts[i].count
             /\ \A p \in 1 .. exts[i].count : fork[start[i] + p] = exts[i].block + p - 1
  BY DEF Truthful
<1>2. N \in Nat /\ last <= Len(fork) /\ Len(fork) \in Nat
  <2> DEFINE F == Len(fork)
  <2>1. N \in Nat /\ F \in Nat /\ last \in 0 .. F
    BY LenProperties
  <2> HIDE DEF N, F
  <2>2. last <= F
    BY <2>1
  <2> QED
    BY <2>1, <2>2 DEF F
<1>3. \A i \in 1 .. N : exts[i].count \in Nat
  <2>1. \A i \in 1 .. N : exts[i] \in Run
    BY ElementOfSeq
  <2> QED
    BY <2>1 DEF Run
<1> HIDE DEF N
<1> DEFINE T == {i \in Nat : i + 1 \in 1 .. N + 1 => first <= start[i + 1]}
<1>4. 0 \in T
  BY <1>1
<1>5. ASSUME NEW i \in Nat, i \in T
      PROVE  i + 1 \in T
  <2> SUFFICES ASSUME (i + 1) + 1 \in 1 .. N + 1
               PROVE  first <= start[(i + 1) + 1]
    OBVIOUS
  <2>1. i + 1 \in 1 .. N /\ i + 1 \in 1 .. N + 1
    BY <1>2
  <2>2. first <= start[i + 1] /\ start[i + 1] \in 0 .. last
    BY <1>1, <1>5, <2>1
  <2>3. start[(i + 1) + 1] = start[i + 1] + exts[i + 1].count /\ exts[i + 1].count \in Nat
    BY <1>1, <1>3, <2>1
  <2> QED
    BY <2>2, <2>3
<1>6. Nat \subseteq T
  <2> HIDE DEF T
  <2> QED
    BY <1>4, <1>5, Induction
<1>7. j \in 1 .. N /\ j - 1 \in Nat /\ (j - 1) + 1 = j /\ j \in 1 .. N + 1 /\ j + 1 \in 1 .. N + 1
  BY <1>2 DEF N
<1>8. first <= start[j]
  BY <1>6, <1>7
<1>9. start[j + 1] = start[j] + exts[j].count /\ fork[start[j] + o] = exts[j].block + o - 1
  BY <1>1, <1>7
<1>10. start[j] \in Nat /\ start[j + 1] <= last /\ exts[j].count \in Nat /\ o \in Nat
  <2>1. start[j] \in 0 .. last /\ start[j + 1] \in 0 .. last /\ exts[j].count \in Nat
    BY <1>1, <1>3, <1>7
  <2> QED
    BY <2>1
<1>11. start[j] + o \in first + 1 .. Len(fork)
  <2> DEFINE a == start[j]
             z == start[j + 1]
             c == exts[j].count
  <2>1. o <= c
    BY <1>10
  <2> HIDE DEF a, z, c
  <2>2. a \in Nat /\ z = a + c /\ z <= last /\ first <= a /\ c \in Nat /\ o \in Nat /\ 1 <= o
    BY <1>8, <1>9, <1>10 DEF a, z, c
  <2>3. a + o \in first + 1 .. Len(fork)
    BY <1>2, <2>1, <2>2
  <2> QED
    BY <2>3 DEF a
<1> QED
  BY <1>9, <1>11

\* The same of the extents of a read.
LEMMA DescribedHead ==
  ASSUME NEW fork \in Seq(Nat), NEW first \in Nat, NEW exts \in Seq(Run), NEW rest,
         exts # <<>>, Describes(fork, first, exts, rest)
  PROVE  /\ first + exts[1].count <= Len(fork)
         /\ \A o \in 1 .. exts[1].count : fork[first + o] = exts[1].block + o - 1
         /\ Describes(fork, first + exts[1].count, Tail(exts), rest)
<1>1. PICK last \in 0 .. Len(fork) : Truthful(fork, first, last, exts) /\ \A b \in rest : last <= b
  BY DEF Describes
<1>2. /\ first + exts[1].count <= last
      /\ \A o \in 1 .. exts[1].count : fork[first + o] = exts[1].block + o - 1
      /\ Truthful(fork, first + exts[1].count, last, Tail(exts))
  BY <1>1, TruthOfHead
<1>3. first + exts[1].count \in Nat /\ last <= Len(fork) /\ Len(fork) \in Nat
  BY HeadOfRuns, LenProperties DEF Run
<1>4. Describes(fork, first + exts[1].count, Tail(exts), rest)
  BY <1>1, <1>2 DEF Describes
<1> QED
  BY <1>2, <1>3, <1>4

LEMMA DescribedEnd ==
  ASSUME NEW fork, NEW first \in Nat, NEW rest, Describes(fork, first, <<>>, rest)
  PROVE  \A b \in rest : first <= b
<1>1. PICK last \in 0 .. Len(fork) : Truthful(fork, first, last, <<>>) /\ \A b \in rest : last <= b
  BY DEF Describes
<1>2. Len(<<>>) + 1 = 1
  BY EmptySeq
<1>3. first = last
  BY <1>1, <1>2 DEF Truthful
<1> QED
  BY <1>1, <1>3

-----------------------------------------------------------------------------
(***************************************************************************)
(* Reading.                                                                *)
(*                                                                         *)
(* The volumes whose catalog file the extents of the volume header cover   *)
(* whole; of any other the reader parses a buffer it did not fill.         *)
(***************************************************************************)
WholeCatalogs == \A v \in Volume : v.catSize <= v.catRoom

Status == {"running", "device_error", "end_of_media", "too_small", "success"}

\* A read of a file of v from the device d.
Read(v, d) ==
  [entry : v.entries, cap : Nat, want : Nat, exts : Seq(Run), logical : Nat,
   pos : Nat \ {0}, buf : Seq({d} \X Nat), status : Status]

\* What is in the buffer, and that it ends where the blocks taken end.
Delivered(v, d, r) ==
  /\ r.want = Smaller(r.entry.size, r.cap)
  /\ Len(r.buf) <= r.want
  /\ Len(r.buf) = r.want \/ Len(r.buf) = AlBlk * r.logical
  /\ \A i \in 1 .. Len(r.buf) : r.buf[i] = <<d, ByteAt(v.fork[r.entry.id], i - 1)>>

\* What is left to take.
Ahead(v, ix, r) ==
  Describes(v.fork[r.entry.id], r.logical, r.exts, Behind(ix, r.entry.id, r.pos))

\* The blocks of x are among the first n of the fork.
Taken(fork, n, x) ==
  \A o \in 1 .. x.count : \E k \in 1 .. Len(fork) : k <= n /\ fork[k] = x.block + o - 1

\* What was left behind has been taken.
Past(v, ix, r) ==
  /\ \A j \in 1 .. Len(r.entry.exts) :
       \/ \E i \in 1 .. Len(r.exts) : r.exts[i] = r.entry.exts[j]
       \/ Taken(v.fork[r.entry.id], r.logical, r.entry.exts[j])
  /\ \A n \in 1 .. Len(ix) : n < r.pos /\ ix[n].id = r.entry.id =>
       \A j \in 1 .. Len(ix[n].exts) :
         \/ \E i \in 1 .. Len(r.exts) : r.exts[i] = ix[n].exts[j]
         \/ Taken(v.fork[r.entry.id], r.logical, ix[n].exts[j])

Follows(v, ix, d, r) ==
  r \in Read(v, d) /\ Delivered(v, d, r) /\ Ahead(v, ix, r) /\ Past(v, ix, r)

LEMMA ReadParts ==
  ASSUME NEW v \in Volume, NEW d, NEW r \in Read(v, d)
  PROVE  /\ r.entry \in v.entries /\ r.entry \in CatalogFile
         /\ r.entry.id \in DOMAIN v.fork /\ r.entry.size \in Nat
         /\ v.fork[r.entry.id] \in Seq(Nat)
         /\ \A j, k \in 1 .. Len(v.fork[r.entry.id]) :
              v.fork[r.entry.id][j] = v.fork[r.entry.id][k] => j = k
         /\ r.entry.size <= AlBlk * Len(v.fork[r.entry.id])
         /\ r.exts \in Seq(Run) /\ r.logical \in Nat /\ r.pos \in Nat \ {0}
         /\ r.buf \in Seq({d} \X Nat) /\ r.cap \in Nat /\ r.want \in Nat
<1>1. r.entry \in v.entries
  BY DEF Read
<1>2. r.entry \in CatalogFile
  BY <1>1, VolumeParts
<1>3. r.entry.size \in Nat
  BY <1>2 DEF CatalogFile
<1> QED
  BY <1>1, <1>2, <1>3, VolumeParts DEF Read

LEMMA BeginFollows ==
  ASSUME NEW v \in Volume, NEW ix, IsIndex(v, ix), NEW d, NEW e \in v.entries, NEW cap \in Nat
  PROVE  Follows(v, ix, d, [entry |-> e, cap |-> cap, want |-> Smaller(e.size, cap),
                            exts |-> e.exts, logical |-> 0, pos |-> 1, buf |-> <<>>,
                            status |-> "running"])
<1> DEFINE r == [entry |-> e, cap |-> cap, want |-> Smaller(e.size, cap),
                 exts |-> e.exts, logical |-> 0, pos |-> 1, buf |-> <<>>, status |-> "running"]
           all == {v.ovf[n].fabn : n \in {n \in DOMAIN v.ovf : v.ovf[n].id = e.id}}
<1>1. /\ e \in CatalogFile /\ e.id \in DOMAIN v.fork
      /\ Describes(v.fork[e.id], 0, e.exts, all)
  BY VolumeParts
<1>2. e.size \in Nat /\ e.exts \in Seq(Run)
  BY <1>1 DEF CatalogFile
<1>3. Smaller(e.size, cap) \in Nat
  BY <1>2 DEF Smaller
<1>4. <<>> \in Seq({d} \X Nat) /\ Len(<<>>) = 0
  BY EmptySeq
<1>5. r \in Read(v, d)
  BY <1>2, <1>3, <1>4 DEF Read, Status
<1>6. Delivered(v, d, r)
  <2>1. /\ r.want = Smaller(r.entry.size, r.cap) /\ r.want \in Nat
        /\ Len(r.buf) = 0 /\ r.logical = 0
    BY <1>3, <1>4
  <2> HIDE DEF r
  <2>2. AlBlk * r.logical = 0
    BY <2>1, VolumeAssumption
  <2> QED
    BY <2>1, <2>2 DEF Delivered
<1>7. Ahead(v, ix, r)
  <2>1. Behind(ix, e.id, 1) \subseteq all
    <3> SUFFICES ASSUME NEW j \in 1 .. Len(ix), ix[j].id = e.id
                 PROVE  ix[j].fabn \in all
      BY DEF Behind, OfFile
    <3>1. v.ovf \in Seq(OvfRecord) /\ DOMAIN v.ovf = 1 .. Len(v.ovf)
      BY VolumeParts, LenProperties
    <3>2. ix[j] \in RangeOf(v.ovf)
      BY IndexDoes DEF RangeOf
    <3> QED
      BY <3>1, <3>2 DEF RangeOf
  <2>2. Describes(v.fork[e.id], 0, e.exts, Behind(ix, e.id, 1))
    BY <1>1, <2>1, LessRest
  <2>3. r.entry = e /\ r.logical = 0 /\ r.exts = e.exts /\ r.pos = 1
    OBVIOUS
  <2> HIDE DEF r, all
  <2> QED
    BY <2>2, <2>3 DEF Ahead
<1>8. Past(v, ix, r)
  <2>1. r.entry = e /\ r.exts = e.exts /\ r.pos = 1
    OBVIOUS
  <2> HIDE DEF r
  <2>2. \A n \in 1 .. Len(ix) : ~(n < r.pos)
    BY <2>1
  <2> QED
    BY <2>1, <2>2 DEF Past
<1> QED
  BY <1>5, <1>6, <1>7, <1>8 DEF Follows

\* The bytes of an extent are those of the fork at its place in it.
LEMMA ExtentHoldsFork ==
  ASSUME NEW fork \in Seq(Nat), NEW L \in Nat, NEW x \in Run,
         \A o \in 1 .. x.count : fork[L + o] = x.block + o - 1,
         NEW a \in Nat, a < x.count * AlBlk
  PROVE  ByteAt(fork, AlBlk * L + a) = x.block * AlBlk + a
<1> DEFINE B == AlBlk
           q == a \div AlBlk
           m == a % AlBlk
           c == x.count
           b == x.block
<1>1. B \in Nat /\ B # 0 /\ c \in Nat /\ b \in Nat
  BY VolumeAssumption DEF Run
<1>2. /\ q \in Nat /\ m \in Nat /\ a = B * q + m
      /\ (AlBlk * L + a) \div AlBlk = L + q /\ (AlBlk * L + a) % AlBlk = m
  BY BlocksInFront
<1>3. ByteAt(fork, AlBlk * L + a) = fork[(L + q) + 1] * B + m
  BY <1>2, Zenon DEF ByteAt, B
<1>4. a < c * B
  OBVIOUS
<1>5. \A o \in 1 .. c : fork[L + o] = b + o - 1
  OBVIOUS
<1> HIDE DEF B, q, m, c, b
<1>6. q < c
  <2> SUFFICES ASSUME c <= q PROVE FALSE
    BY <1>1, <1>2
  <2>1. PICK k \in Nat : q = c + k
    <3>1. q - c \in Nat /\ q = c + (q - c)
      BY <1>1, <1>2
    <3> QED
      BY <3>1
  <2>2. B * (c + k) = c * B + B * k /\ B * k \in Nat /\ c * B \in Nat
    BY <1>1
  <2> QED
    BY <1>2, <1>4, <2>1, <2>2
<1>7. q + 1 \in 1 .. c /\ L + (q + 1) = (L + q) + 1 /\ b + (q + 1) - 1 = b + q
  BY <1>1, <1>2, <1>6
<1>8. fork[(L + q) + 1] = b + q
  BY <1>5, <1>7
<1>9. (b + q) * B + m = b * B + a
  <2>1. (b + q) * B = b * B + B * q /\ b * B \in Nat /\ B * q \in Nat
    BY <1>1, <1>2
  <2> QED
    BY <1>2, <2>1
<1>10. ByteAt(fork, AlBlk * L + a) = b * B + a
  BY <1>3, <1>8, <1>9
<1> QED
  BY <1>10, Zenon DEF B, b

LEMMA SeqOfFunction ==
  ASSUME NEW S, NEW n \in Nat, NEW f \in [1 .. n -> S]
  PROVE  f \in Seq(S) /\ Len(f) = n
OBVIOUS

LEMMA TakenAfter ==
  ASSUME NEW fork, NEW n \in Nat, NEW m \in Nat, n <= m, NEW x, Taken(fork, n, x),
         Len(fork) \in Nat
  PROVE  Taken(fork, m, x)
BY DEF Taken

\* r when n bytes of the extent x have been read.
Took(r, d, x, n) ==
  [r EXCEPT !.exts = Tail(@), !.logical = @ + x.count,
            !.buf = @ \o [i \in 1 .. n |-> <<d, x.block * AlBlk + i - 1>>]]

LEMMA TakeFollows ==
  ASSUME NEW v \in Volume, NEW ix, IsIndex(v, ix), NEW d, NEW r, Follows(v, ix, d, r),
         r.exts # <<>>, Len(r.buf) < r.want,
         NEW x, x = Head(r.exts),
         NEW n, n = Smaller(x.count * AlBlk, r.want - Len(r.buf))
  PROVE  Follows(v, ix, d, Took(r, d, x, n))
<1> DEFINE fork == v.fork[r.entry.id]
           piece == [i \in 1 .. n |-> <<d, x.block * AlBlk + i - 1>>]
           buf == r.buf \o piece
           logical == r.logical + x.count
           s == [r EXCEPT !.exts = Tail(r.exts), !.logical = logical, !.buf = buf]
           m == Len(r.buf)
<1>1. r \in Read(v, d) /\ Delivered(v, d, r) /\ Ahead(v, ix, r) /\ Past(v, ix, r)
  BY DEF Follows
<1>2. /\ fork \in Seq(Nat) /\ r.exts \in Seq(Run) /\ r.logical \in Nat
      /\ r.buf \in Seq({d} \X Nat) /\ r.want \in Nat
      /\ \A j, k \in 1 .. Len(fork) : fork[j] = fork[k] => j = k
  BY <1>1, ReadParts
<1>3. /\ x \in Run /\ x = r.exts[1] /\ Tail(r.exts) \in Seq(Run)
      /\ Len(r.exts) = Len(Tail(r.exts)) + 1
      /\ \A j \in 1 .. Len(Tail(r.exts)) : Tail(r.exts)[j] = r.exts[j + 1]
  BY <1>2, HeadOfRuns
<1>4. x.block \in Nat /\ x.count \in Nat /\ AlBlk \in Nat /\ logical \in Nat
  BY <1>2, <1>3, VolumeAssumption DEF Run
<1>5. m \in Nat /\ m = AlBlk * r.logical /\ m < r.want
  BY <1>1, <1>2, LenProperties DEF Delivered
<1>6. /\ r.logical + x.count <= Len(fork)
      /\ \A o \in 1 .. x.count : fork[r.logical + o] = x.block + o - 1
      /\ Describes(fork, logical, Tail(r.exts), Behind(ix, r.entry.id, r.pos))
  <2>1. Describes(fork, r.logical, r.exts, Behind(ix, r.entry.id, r.pos))
    BY <1>1 DEF Ahead
  <2> HIDE DEF fork
  <2> QED
    BY <1>2, <1>3, <2>1, DescribedHead
<1> HIDE DEF fork
<1>7. /\ n \in Nat /\ n <= x.count * AlBlk /\ n <= r.want - m
      /\ n = x.count * AlBlk \/ n = r.want - m
  <2> DEFINE c == x.count * AlBlk
             w == r.want - m
  <2>a. c \in Nat
    <3> DEFINE k == x.count
    <3>1. k \in Nat /\ AlBlk \in Nat
      BY <1>4
    <3> HIDE DEF k
    <3>2. k * AlBlk \in Nat
      BY <3>1
    <3> QED
      BY <3>2 DEF k
  <2>b. w \in Nat
    <3> DEFINE z == r.want
    <3>1. z \in Nat /\ m \in Nat /\ m < z
      BY <1>2, <1>5
    <3> HIDE DEF z, m
    <3>2. z - m \in Nat
      BY <3>1
    <3> QED
      BY <3>2 DEF z
  <2>1. c \in Nat /\ w \in Nat
    BY <2>a, <2>b
  <2>2. n = Smaller(c, w)
    OBVIOUS
  <2> HIDE DEF c, w
  <2>3. n \in Nat /\ n <= c /\ n <= w /\ (n = c \/ n = w)
    BY <2>1, <2>2 DEF Smaller
  <2> QED
    BY <2>3 DEF c, w
<1>8. piece \in Seq({d} \X Nat) /\ Len(piece) = n
  <2>1. \A i \in 1 .. n : x.block * AlBlk + i - 1 \in Nat
    <3>1. x.block * AlBlk \in Nat
      BY <1>4
    <3> QED
      BY <1>7, <3>1
  <2>2. piece \in [1 .. n -> {d} \X Nat]
    BY <2>1
  <2> HIDE DEF piece
  <2> QED
    BY <1>7, <2>2, SeqOfFunction
<1>9. \A i \in 1 .. n : piece[i] = <<d, x.block * AlBlk + i - 1>>
  OBVIOUS
<1> HIDE DEF piece
<1>10. /\ buf \in Seq({d} \X Nat) /\ Len(buf) = m + n
       /\ \A i \in 1 .. m + n : buf[i] = IF i <= m THEN r.buf[i] ELSE piece[i - m]
  <2>1. /\ r.buf \o piece \in Seq({d} \X Nat) /\ Len(r.buf \o piece) = Len(r.buf) + Len(piece)
        /\ \A i \in 1 .. Len(r.buf) + Len(piece) :
             (r.buf \o piece)[i] = IF i <= Len(r.buf) THEN r.buf[i] ELSE piece[i - Len(r.buf)]
    <3> DEFINE S == {d} \X Nat
               a == r.buf
    <3>1. a \in Seq(S) /\ piece \in Seq(S)
      BY <1>2, <1>8
    <3> HIDE DEF S, a
    <3>2. /\ a \o piece \in Seq(S) /\ Len(a \o piece) = Len(a) + Len(piece)
          /\ \A i \in 1 .. Len(a) + Len(piece) :
               (a \o piece)[i] = IF i <= Len(a) THEN a[i] ELSE piece[i - Len(a)]
      BY <3>1, ConcatProperties
    <3> QED
      BY <3>2, Zenon DEF S, a
  <2>2. Len(piece) = n
    BY <1>8
  <2> QED
    BY <2>1, <2>2
<1> HIDE DEF buf, logical
<1>11. s \in Read(v, d)
  BY <1>1, <1>3, <1>4, <1>10 DEF Read
<1>12. /\ s.entry = r.entry /\ s.cap = r.cap /\ s.want = r.want /\ s.pos = r.pos
       /\ s.exts = Tail(r.exts) /\ s.logical = logical /\ s.buf = buf
  BY <1>1 DEF Read
<1> HIDE DEF s
<1>13. Delivered(v, d, s)
  <2>1. m + n <= r.want /\ (m + n = r.want \/ m + n = AlBlk * logical)
    <3>1. AlBlk * (r.logical + x.count) = AlBlk * r.logical + x.count * AlBlk
      BY <1>2, <1>4
    <3> HIDE DEF m
    <3> DEFINE c == x.count * AlBlk
    <3>2. c \in Nat
      BY <1>4
    <3>3. AlBlk * logical = m + c /\ n \in Nat /\ n <= r.want - m /\ (n = c \/ n = r.want - m)
      BY <1>5, <1>7, <3>1 DEF logical
    <3> HIDE DEF c
    <3> QED
      BY <1>2, <1>5, <3>2, <3>3
  <2>2. ASSUME NEW i \in 1 .. m + n
        PROVE  buf[i] = <<d, ByteAt(fork, i - 1)>>
    <3>1. CASE i <= m
      <4>1. i \in 1 .. m
        BY <3>1
      <4>2. r.buf[i] = <<d, ByteAt(fork, i - 1)>>
        BY <1>1, <4>1 DEF Delivered, fork
      <4> QED
        BY <1>10, <3>1, <4>2
    <3>2. CASE m < i
      <4> HIDE DEF m
      <4> DEFINE a == i - m - 1
                 c == x.count * AlBlk
                 b == x.block * AlBlk
      <4>1. c \in Nat /\ b \in Nat
        BY <1>4
      <4>2. n <= c
        BY <1>7
      <4> HIDE DEF c, b
      <4>3. /\ i - m \in 1 .. n /\ a \in Nat /\ a < c /\ i - 1 = m + a
            /\ b + (i - m) - 1 = b + a /\ ~(i <= m)
        <5>1. i \in Nat /\ i <= m + n /\ m \in Nat /\ n \in Nat
          BY <1>5, <1>7
        <5> QED
          BY <3>2, <4>1, <4>2, <5>1
      <4> HIDE DEF a
      <4>4. buf[i] = piece[i - m]
        BY <1>10, <4>3
      <4>5. piece[i - m] = <<d, b + a>>
        <5>1. piece[i - m] = <<d, b + (i - m) - 1>>
          BY <1>9, <4>3 DEF b
        <5> QED
          BY <4>3, <5>1
      <4>6. ByteAt(fork, AlBlk * r.logical + a) = b + a
        BY <1>2, <1>3, <1>6, <4>3, ExtentHoldsFork DEF c, b
      <4>7. ByteAt(fork, i - 1) = b + a
        BY <1>5, <4>3, <4>6
      <4> QED
        BY <4>4, <4>5, <4>7
    <3> QED
      BY <1>5, <1>7, <3>1, <3>2
  <2>3. s.want = Smaller(s.entry.size, s.cap)
    BY <1>1, <1>12 DEF Delivered
  <2>4. Len(s.buf) = m + n /\ s.buf = buf /\ v.fork[s.entry.id] = fork
    BY <1>10, <1>12 DEF fork
  <2> HIDE DEF m
  <2> QED
    BY <1>12, <2>1, <2>2, <2>3, <2>4 DEF Delivered
<1>14. Ahead(v, ix, s)
  BY <1>6, <1>12 DEF Ahead, fork
<1>15. Taken(fork, logical, x)
  <2>1. Len(fork) \in Nat
    BY <1>2, LenProperties
  <2> SUFFICES ASSUME NEW o \in 1 .. x.count
               PROVE  \E k \in 1 .. Len(fork) : k <= logical /\ fork[k] = x.block + o - 1
    BY DEF Taken
  <2>2. r.logical + o \in 1 .. Len(fork) /\ r.logical + o <= logical
    <3> DEFINE c == x.count
               l == r.logical
               f == Len(fork)
    <3>1. c \in Nat /\ l \in Nat /\ f \in Nat /\ l + c <= f /\ o \in 1 .. c /\ logical = l + c
      BY <1>2, <1>4, <1>6, <2>1 DEF logical
    <3> HIDE DEF c, l, f
    <3>2. l + o \in 1 .. f /\ l + o <= logical
      BY <3>1
    <3> QED
      BY <3>2 DEF l, f
  <2> QED
    BY <1>6, <2>2
<1>16. ASSUME NEW y, (\E i \in 1 .. Len(r.exts) : r.exts[i] = y) \/ Taken(fork, r.logical, y)
       PROVE  (\E i \in 1 .. Len(s.exts) : s.exts[i] = y) \/ Taken(fork, logical, y)
  <2>1. CASE Taken(fork, r.logical, y)
    <3>1. r.logical <= logical /\ Len(fork) \in Nat
      BY <1>2, <1>4, LenProperties DEF logical
    <3> QED
      BY <1>2, <1>4, <2>1, <3>1, TakenAfter
  <2>2. CASE \E i \in 1 .. Len(r.exts) : r.exts[i] = y
    <3>1. PICK i \in 1 .. Len(r.exts) : r.exts[i] = y
      BY <2>2
    <3>2. CASE i = 1
      BY <1>3, <1>15, <3>1, <3>2
    <3>3. CASE i # 1
      <4>1. Len(Tail(r.exts)) \in Nat
        BY <1>3, LenProperties
      <4>2. i - 1 \in 1 .. Len(Tail(r.exts)) /\ (i - 1) + 1 = i
        BY <1>3, <3>3, <4>1
      <4> QED
        BY <1>3, <1>12, <3>1, <4>2
    <3> QED
      BY <3>2, <3>3
  <2> QED
    BY <1>16, <2>1, <2>2
<1>17. Past(v, ix, s)
  BY <1>1, <1>12, <1>16 DEF Past, fork
<1>18. Follows(v, ix, d, s)
  BY <1>11, <1>13, <1>14, <1>17 DEF Follows
<1> QED
  BY <1>18 DEF Took, s, logical, buf, piece

\* n is the next record of the file from place p on.
IsNext(ix, id, p, n) ==
  /\ n \in p .. Len(ix) /\ ix[n].id = id
  /\ \A j \in p .. n - 1 : ix[j].id # id

LEMMA OneIsNext ==
  ASSUME NEW ix, NEW id, NEW p \in Nat, NEW m, NEW n,
         Len(ix) \in Nat, IsNext(ix, id, p, m), IsNext(ix, id, p, n)
  PROVE  m = n
<1>1. m \in Nat /\ n \in Nat /\ p <= m /\ p <= n
  BY DEF IsNext
<1>2. ~(m < n) /\ ~(n < m)
  BY <1>1 DEF IsNext
<1> QED
  BY <1>1, <1>2

LEMMA NextRecordDoes ==
  ASSUME index \in Seq(OvfRecord), rd.pos \in Nat \ {0}
  PROVE  \/ /\ NextRecord = Len(index) + 1
            /\ \A j \in rd.pos .. Len(index) : index[j].id # rd.entry.id
         \/ IsNext(index, rd.entry.id, rd.pos, NextRecord)
<1> DEFINE S == OfFile(index, rd.entry.id, rd.pos)
<1>1. CASE S = {}
  BY <1>1 DEF OfFile, NextRecord
<1>2. CASE S # {}
  <2>1. Len(index) \in Nat
    BY LenProperties
  <2>2. S \subseteq Nat
    BY <2>1 DEF OfFile
  <2> HIDE DEF S
  <2>3. PICK n \in S : \A j \in S : n <= j
    BY <1>2, <2>2, Least
  <2>4. n \in rd.pos .. Len(index) /\ index[n].id = rd.entry.id /\ n \in Nat
    BY <2>2, <2>3 DEF S, OfFile
  <2>5. ASSUME NEW j \in rd.pos .. n - 1
        PROVE  index[j].id # rd.entry.id
    <3>1. j \in rd.pos .. Len(index) /\ ~(n <= j)
      BY <2>1, <2>4
    <3>2. j \notin S
      BY <2>3, <3>1
    <3> QED
      BY <3>1, <3>2 DEF S, OfFile
  <2> QED
    BY <2>4, <2>5 DEF NextRecord, IsNext
<1> QED
  BY <1>1, <1>2

LEMMA PullFollows ==
  ASSUME NEW v \in Volume, NEW ix, IsIndex(v, ix), NEW d, NEW r, Follows(v, ix, d, r),
         r.exts = <<>>, NEW n, IsNext(ix, r.entry.id, r.pos, n), ix[n].fabn <= r.logical
  PROVE  Follows(v, ix, d, [r EXCEPT !.exts = ix[n].exts, !.pos = n + 1])
<1> DEFINE s == [r EXCEPT !.exts = ix[n].exts, !.pos = n + 1]
           id == r.entry.id
<1>1. r \in Read(v, d) /\ Delivered(v, d, r) /\ Ahead(v, ix, r) /\ Past(v, ix, r)
  BY DEF Follows
<1>2. r.logical \in Nat /\ r.pos \in Nat \ {0}
  BY <1>1, ReadParts
<1>3. /\ ix \in Seq(OvfRecord) /\ Len(ix) \in Nat
      /\ \A j \in 1 .. Len(ix) :
           Describes(v.fork[ix[j].id], ix[j].fabn, ix[j].exts, Behind(ix, ix[j].id, j + 1))
  BY IndexDoes, LenProperties
<1>4. n \in Nat /\ n \in 1 .. Len(ix) /\ r.pos <= n /\ ix[n].id = id /\ n \in r.pos .. Len(ix)
  BY <1>2, <1>3 DEF IsNext
<1>5. ix[n].exts \in Seq(Run) /\ ix[n].fabn \in Nat
  <2>1. ix[n] \in OvfRecord
    BY <1>3, <1>4, ElementOfSeq
  <2> QED
    BY <2>1 DEF OvfRecord
<1>6. r.logical <= ix[n].fabn
  <2>1. ix[n].fabn \in Behind(ix, id, r.pos)
    BY <1>4 DEF Behind, OfFile
  <2> QED
    BY <1>1, <1>2, <2>1, DescribedEnd DEF Ahead
<1>7. ix[n].fabn = r.logical
  BY <1>2, <1>5, <1>6
<1>8. s \in Read(v, d)
  <2> DEFINE exts == ix[n].exts
             pos == n + 1
  <2>1. exts \in Seq(Run) /\ pos \in Nat \ {0}
    BY <1>4, <1>5
  <2> HIDE DEF exts, pos
  <2>2. [r EXCEPT !.exts = exts, !.pos = pos] \in Read(v, d)
    BY <1>1, <2>1 DEF Read
  <2> QED
    BY <2>2 DEF exts, pos
<1>9. /\ s.entry = r.entry /\ s.cap = r.cap /\ s.want = r.want /\ s.pos = n + 1
      /\ s.exts = ix[n].exts /\ s.logical = r.logical /\ s.buf = r.buf
  BY <1>1 DEF Read
<1> HIDE DEF s
<1>10. Delivered(v, d, s)
  BY <1>1, <1>9 DEF Delivered
<1>11. Ahead(v, ix, s)
  BY <1>3, <1>4, <1>7, <1>9 DEF Ahead
<1>12. Past(v, ix, s)
  <2>1. \A y : ~\E i \in 1 .. Len(r.exts) : r.exts[i] = y
    BY EmptySeq
  <2>2. \A j \in 1 .. Len(s.entry.exts) : Taken(v.fork[id], s.logical, s.entry.exts[j])
    BY <1>1, <1>9, <2>1 DEF Past
  <2>3. ASSUME NEW m \in 1 .. Len(ix), m < s.pos, ix[m].id = s.entry.id,
               NEW j \in 1 .. Len(ix[m].exts)
        PROVE  \/ \E i \in 1 .. Len(s.exts) : s.exts[i] = ix[m].exts[j]
               \/ Taken(v.fork[id], s.logical, ix[m].exts[j])
    <3>1. CASE m = n
      BY <1>9, <3>1
    <3>2. CASE m < r.pos
      BY <1>1, <1>9, <2>1, <2>3, <3>2 DEF Past
    <3>3. CASE r.pos <= m /\ m < n
      <4>1. m \in r.pos .. n - 1
        BY <1>2, <1>4, <3>3
      <4> QED
        BY <1>9, <2>3, <4>1 DEF IsNext
    <3> QED
      BY <1>2, <1>4, <1>9, <2>3, <3>1, <3>2, <3>3
  <2> QED
    BY <1>9, <2>2, <2>3 DEF Past
<1> QED
  BY <1>8, <1>10, <1>11, <1>12 DEF Follows, s

\* A read of a classic volume or of a volume without overflow records that
\* runs out of extents misses a block that none of the file's extents hold.
LEMMA RunsOutOnlyWhenMissing ==
  ASSUME NEW v \in Volume, v.kind = "plus" => v.ovf = <<>>, Len(v.ovf) <= MaxOvf,
         NEW ix, IsIndex(v, ix), NEW d, NEW r, Follows(v, ix, d, r),
         r.exts = <<>>, Len(r.buf) < r.want,
         \A n : IsNext(ix, r.entry.id, r.pos, n) => r.logical < ix[n].fabn
  PROVE  \E b \in RangeOf(v.fork[r.entry.id]) :
           \A x \in Extents(v, r.entry) : b \notin x.block .. x.block + x.count - 1
<1> DEFINE id == r.entry.id
           fork == v.fork[id]
           F == Len(fork)
           l == r.logical
           b == fork[l + 1]
<1>1. r \in Read(v, d) /\ Delivered(v, d, r) /\ Past(v, ix, r)
  BY DEF Follows
<1>2. /\ fork \in Seq(Nat) /\ l \in Nat /\ F \in Nat /\ r.pos \in Nat \ {0}
      /\ \A j, k \in 1 .. F : fork[j] = fork[k] => j = k
      /\ r.entry.size \in Nat /\ r.entry.size <= AlBlk * F /\ r.cap \in Nat
      /\ r.entry \in CatalogFile
  BY <1>1, ReadParts, LenProperties
<1>3. l < F
  <2>1. AlBlk * l < r.entry.size
    BY <1>1, <1>2 DEF Delivered, Smaller
  <2>2. AlBlk \in Nat
    BY VolumeAssumption
  <2> HIDE DEF F, l
  <2> SUFFICES ASSUME F <= l PROVE FALSE
    BY <1>2
  <2>3. PICK k \in Nat : l = F + k
    <3>1. l - F \in Nat /\ l = F + (l - F)
      BY <1>2
    <3> QED
      BY <3>1
  <2>4. AlBlk * (F + k) = AlBlk * F + AlBlk * k /\ AlBlk * F \in Nat /\ AlBlk * k \in Nat
    BY <1>2, <2>2
  <2> QED
    BY <1>2, <2>1, <2>3, <2>4
<1>4. l + 1 \in 1 .. F /\ b \in RangeOf(fork) /\ b \in Nat
  <2>1. l + 1 \in 1 .. F
    BY <1>2, <1>3
  <2> QED
    BY <1>2, <2>1, ElementOfSeq DEF RangeOf
\* A block at another place is another block.
<1>5. ASSUME NEW x, x \in Run,
             \A o \in 1 .. x.count : \E k \in 1 .. F : k # l + 1 /\ fork[k] = x.block + o - 1
      PROVE  b \notin x.block .. x.block + x.count - 1
  <2> SUFFICES ASSUME b \in x.block .. x.block + x.count - 1 PROVE FALSE
    OBVIOUS
  <2> HIDE DEF b
  <2> DEFINE o == b - x.block + 1
             c == x.count
             a == x.block
  <2>1. c \in Nat /\ a \in Nat /\ b \in a .. a + c - 1
    BY <1>5 DEF Run
  <2> HIDE DEF c, a
  <2>2. b - a + 1 \in 1 .. c /\ a + (b - a + 1) - 1 = b
    BY <1>4, <2>1
  <2>3. o \in 1 .. c /\ a + o - 1 = b
    BY <2>2 DEF a
  <2> HIDE DEF o
  <2>4. PICK k \in 1 .. F : k # l + 1 /\ fork[k] = a + o - 1
    BY <1>5, <2>3 DEF a, c
  <2> QED
    BY <1>2, <1>4, <2>3, <2>4 DEF b
<1>6. ASSUME NEW x, x \in Run, Taken(fork, l, x)
      PROVE  b \notin x.block .. x.block + x.count - 1
  <2>1. \A k \in 1 .. F : k <= l => k # l + 1
    BY <1>2
  <2>2. \A o \in 1 .. x.count : \E k \in 1 .. F : k # l + 1 /\ fork[k] = x.block + o - 1
    <3> HIDE DEF fork, l
    <3> QED
      BY <1>6, <2>1 DEF Taken
  <2> HIDE DEF b, fork, F, l
  <2> QED
    BY <1>5, <1>6, <2>2
<1>7. \A y : ~\E i \in 1 .. Len(r.exts) : r.exts[i] = y
  BY EmptySeq
<1>8. ASSUME NEW x \in RangeOf(r.entry.exts)
      PROVE  b \notin x.block .. x.block + x.count - 1
  <2>1. PICK j \in 1 .. Len(r.entry.exts) : x = r.entry.exts[j]
    BY DEF RangeOf
  <2>2. x \in Run
    BY <1>2, <2>1, ElementOfSeq DEF CatalogFile
  <2>3. Taken(fork, l, x)
    BY <1>1, <1>7, <2>1 DEF Past
  <2> HIDE DEF b, fork, l
  <2> QED
    BY <1>6, <2>2, <2>3
<1>9. ASSUME NEW s \in RangeOf(v.ovf), s.id = id, NEW x \in RangeOf(s.exts)
      PROVE  b \notin x.block .. x.block + x.count - 1
  <2>1. PICK m \in 1 .. Len(v.ovf) : s = v.ovf[m]
    BY DEF RangeOf
  <2>2. v.kind = "classic"
    <3>1. v.ovf # <<>>
      BY <2>1, EmptySeq
    <3> QED
      BY <3>1, VolumeParts
  <2>3. /\ ix \in Seq(OvfRecord) /\ Len(ix) \in Nat /\ InOrder(ix)
        /\ \A j \in 1 .. Len(ix) :
             Describes(v.fork[ix[j].id], ix[j].fabn, ix[j].exts, Behind(ix, ix[j].id, j + 1))
    BY IndexDoes, LenProperties
  <2>4. PICK n \in 1 .. Len(ix) : ix[n] = s
    BY <2>1, <2>2, IndexDoes
  <2>5. s \in OvfRecord
    BY <2>3, <2>4, ElementOfSeq
  <2>6. s.exts \in Seq(Run) /\ s.fabn \in Nat
    BY <2>5 DEF OvfRecord
  <2>7. PICK j \in 1 .. Len(s.exts) : x = s.exts[j]
    BY DEF RangeOf
  <2>8. x \in Run
    BY <2>6, <2>7, ElementOfSeq
  <2>9. CASE n < r.pos
    <3>1. Taken(fork, l, x)
      BY <1>1, <1>7, <1>9, <2>4, <2>7, <2>9 DEF Past
    <3> HIDE DEF b, fork, l
    <3> QED
      BY <1>6, <2>8, <3>1
  <2>10. CASE r.pos <= n
    <3> DEFINE S == OfFile(ix, id, r.pos)
    <3>1. n \in S /\ S \subseteq Nat
      BY <1>2, <1>9, <2>3, <2>4, <2>10 DEF OfFile
    <3> HIDE DEF S
    <3>2. PICK i \in S : \A k \in S : i <= k
      BY <3>1, Least
    <3>3. i \in Nat /\ i <= n /\ i \in r.pos .. Len(ix) /\ i \in 1 .. Len(ix) /\ ix[i].id = id
      BY <1>2, <2>3, <3>1, <3>2 DEF S, OfFile
    <3>4. IsNext(ix, id, r.pos, i)
      <4> SUFFICES ASSUME NEW k \in r.pos .. i - 1, ix[k].id = id PROVE FALSE
        BY <3>3 DEF IsNext
      <4>1. k \in r.pos .. Len(ix) /\ ~(i <= k)
        BY <1>2, <2>3, <3>3
      <4>2. k \in S
        BY <4>1 DEF S, OfFile
      <4> QED
        BY <3>2, <4>1, <4>2
    <3>5. l < ix[i].fabn
      BY <3>4
    <3>6. ix[i] \in OvfRecord
      BY <2>3, <3>3, ElementOfSeq
    <3>7. ix[i].fabn <= s.fabn
      <4>1. CASE i = n
        BY <2>4, <2>6, <4>1
      <4>2. CASE i < n
        <5>1. ~OvfBefore(ix[n], ix[i])
          BY <2>3, <3>3, <4>2 DEF InOrder
        <5> QED
          BY <1>9, <2>4, <2>5, <3>3, <3>6, <5>1 DEF OvfBefore, OvfRecord
      <4> QED
        BY <3>3, <4>1, <4>2
    <3>8. l < s.fabn
      BY <1>2, <2>6, <3>5, <3>6, <3>7 DEF OvfRecord
    <3>9. Describes(fork, s.fabn, s.exts, Behind(ix, s.id, n + 1))
      BY <1>9, <2>3, <2>4
    <3>10. PICK last \in 0 .. F : Truthful(fork, s.fabn, last, s.exts)
      BY <3>9 DEF Describes
    <3> HIDE DEF b
    <3>11. ASSUME NEW o \in 1 .. x.count
           PROVE  \E k \in 1 .. F : k # l + 1 /\ fork[k] = x.block + o - 1
      <4>1. PICK k \in s.fabn + 1 .. F : fork[k] = x.block + o - 1
        <5> DEFINE exts == s.exts
        <5> HIDE DEF fork
        <5>1. exts \in Seq(Run) /\ j \in 1 .. Len(exts) /\ x = exts[j] /\ s.fabn \in Nat
          BY <2>6, <2>7
        <5>2. o \in 1 .. exts[j].count
          BY <5>1
        <5>3. Truthful(fork, s.fabn, last, exts) /\ fork \in Seq(Nat) /\ last \in 0 .. Len(fork)
          BY <1>2, <3>10
        <5> HIDE DEF exts
        <5>4. \E k \in s.fabn + 1 .. Len(fork) : fork[k] = exts[j].block + o - 1
          BY <5>1, <5>2, <5>3, TruthOfAll
        <5> QED
          BY <5>1, <5>4
      <4>2. k \in 1 .. F /\ k # l + 1
        <5> HIDE DEF F, l
        <5> QED
          BY <1>2, <2>6, <3>8
      <4> QED
        BY <4>1, <4>2
    <3> HIDE DEF fork, F, l
    <3> QED
      BY <1>5, <2>8, <3>11
  <2> QED
    BY <1>2, <2>3, <2>9, <2>10
<1>10. ASSUME NEW x \in Extents(v, r.entry)
       PROVE  b \notin x.block .. x.block + x.count - 1
  <2>1. x \in RangeOf(r.entry.exts) \/
        \E s \in RangeOf(v.ovf) : s.id = id /\ x \in RangeOf(s.exts)
    BY DEF Extents
  <2> HIDE DEF b
  <2> QED
    BY <1>8, <1>9, <2>1
<1> QED
  BY <1>4, <1>10

-----------------------------------------------------------------------------
(***************************************************************************)
(* The reader.                                                             *)
(***************************************************************************)
CatalogInv == mounted => catalog \subseteq TheVolume.entries

ReadInv == rd # Idle => Follows(TheVolume, index, dev, rd)

LEMMA CatalogKeeps ==
  ASSUME WholeCatalogs, MountInv, CatalogInv, MountInv', [Next]_vars
  PROVE  CatalogInv'
<1>1. CASE Mount
  <2>1. PICK d \in Device, bad \in SUBSET Device :
          /\ vol' = [device |-> d, kind |-> disk[d].kind]
          /\ catalog' \in Parsed(disk[d])
    BY <1>1 DEF Mount
  <2>2. disk' = disk /\ mounted'
    BY <1>1 DEF Mount
  <2>3. TheVolume' = disk[d]
    BY <2>1, <2>2 DEF TheVolume
  <2>4. TheVolume' \in Volume
    <3>1. disk' \in Disks /\ vol'.device \in Device /\ TheVolume' # NoVolume
      BY <2>2 DEF MountInv, TheVolume
    <3>2. TheVolume' \in {disk'[i] : i \in Device}
      BY <3>1 DEF TheVolume
    <3>3. TheVolume' \in UNION {{d0[i] : i \in Device} : d0 \in Disks}
      BY <3>1, <3>2
    <3> QED
      BY <3>1, <3>3 DEF Volume
  <2>5. catalog' = disk[d].entries
    BY <2>1, <2>3, <2>4 DEF Parsed, WholeCatalogs
  <2> QED
    BY <2>3, <2>5 DEF CatalogInv
<1>2. ASSUME UNCHANGED <<mounted, catalog, disk, vol>>
      PROVE  CatalogInv'
  BY <1>2 DEF CatalogInv, TheVolume
<1>3. CASE MountFindsNothing \/ MountRunsOut \/ MountFailsToLoad
  BY <1>3 DEF MountFindsNothing, MountRunsOut, MountFailsToLoad, CatalogInv
<1>4. CASE \E e \in catalog, cap \in Capacity : ReadBegin(e, cap)
  BY <1>2, <1>4 DEF ReadBegin
<1>5. CASE ReadStep
  BY <1>2, <1>5 DEF ReadStep, TakeExtent, ReadFails, PullOverflow, ReadRunsOut, ReadEnd, Finish
<1>6. CASE UNCHANGED vars
  BY <1>2, <1>6 DEF vars
<1> QED
  BY <1>1, <1>3, <1>4, <1>5, <1>6 DEF Next

LEMMA FinishFollows ==
  ASSUME NEW v, NEW ix, NEW d, NEW r, Follows(v, ix, d, r), NEW s \in Status
  PROVE  Follows(v, ix, d, [r EXCEPT !.status = s])
<1> DEFINE z == [r EXCEPT !.status = s]
<1>1. r \in Read(v, d)
  BY DEF Follows
<1>2. z \in Read(v, d)
  BY <1>1 DEF Read
<1>3. /\ z.entry = r.entry /\ z.cap = r.cap /\ z.want = r.want /\ z.pos = r.pos
      /\ z.exts = r.exts /\ z.logical = r.logical /\ z.buf = r.buf
  BY <1>1 DEF Read
<1> HIDE DEF z
<1>4. Delivered(v, d, z) /\ Ahead(v, ix, z) /\ Past(v, ix, z)
  BY <1>3 DEF Follows, Delivered, Ahead, Past
<1> QED
  BY <1>2, <1>4 DEF Follows, z

LEMMA ReadKeeps ==
  ASSUME MountInv, CatalogInv, ReadInv, [Next]_vars
  PROVE  ReadInv'
<1>1. CASE MountFindsNothing \/ MountRunsOut \/ MountFailsToLoad \/ Mount
  BY <1>1 DEF MountFindsNothing, MountRunsOut, MountFailsToLoad, Mount, MountInv, ReadInv
\* The steps of a read leave the volume alone.
<1>2. ASSUME mounted, UNCHANGED <<disk, dev, vol, index>>,
             Follows(TheVolume, index, dev, rd')
      PROVE  ReadInv'
  <2>1. TheVolume' = TheVolume /\ index' = index /\ dev' = dev
    BY <1>2 DEF TheVolume
  <2> QED
    BY <1>2, <2>1 DEF ReadInv
<1>3. mounted => TheVolume \in Volume /\ IsIndex(TheVolume, index)
  BY MountedVolume DEF MountInv
<1>4. CASE \E e \in catalog, cap \in Capacity : ReadBegin(e, cap)
  <2>1. PICK e \in catalog, cap \in Capacity : ReadBegin(e, cap)
    BY <1>4
  <2>2. mounted /\ UNCHANGED <<disk, dev, vol, index>>
    BY <2>1 DEF ReadBegin
  <2>3. e \in TheVolume.entries /\ cap \in Nat
    BY <2>1, <2>2, VolumeAssumption DEF CatalogInv
  <2>4. Follows(TheVolume, index, dev, rd')
    BY <1>3, <2>1, <2>2, <2>3, BeginFollows DEF ReadBegin
  <2> QED
    BY <1>2, <2>2, <2>4
<1>5. CASE ReadStep
  <2>1. rd # Idle /\ mounted /\ UNCHANGED <<disk, dev, vol, index>>
    BY <1>5 DEF ReadStep, TakeExtent, ReadFails, PullOverflow, ReadRunsOut, ReadEnd, Finish,
                More, Running, MountInv
  <2> DEFINE v == TheVolume
  <2>2. v \in Volume /\ IsIndex(v, index) /\ Follows(v, index, dev, rd)
    BY <1>3, <2>1 DEF ReadInv
  <2> HIDE DEF v
  <2>3. CASE TakeExtent
    <3> DEFINE x == Head(rd.exts)
               n == Piece(x)
    <3>1. n = Smaller(x.count * AlBlk, rd.want - Len(rd.buf))
      BY DEF Piece
    <3>2. /\ rd.exts # <<>> /\ Len(rd.buf) < rd.want
          /\ rd' = Took(rd, dev, x, n)
      BY <2>3 DEF TakeExtent, More, Took
    <3> HIDE DEF n
    <3>3. Follows(v, index, dev, rd')
      BY <2>2, <3>1, <3>2, TakeFollows
    <3> QED
      BY <1>2, <2>1, <3>3 DEF v
  <2>4. CASE PullOverflow
    <3>1. /\ rd.exts = <<>> /\ NextRecord <= Len(index) /\ index[NextRecord].fabn <= rd.logical
          /\ rd' = [rd EXCEPT !.exts = index[NextRecord].exts, !.pos = NextRecord + 1]
      BY <2>4 DEF PullOverflow, Continues
    <3>2. index \in Seq(OvfRecord) /\ Len(index) \in Nat /\ rd.pos \in Nat \ {0}
      BY <2>2, IndexDoes, ReadParts, LenProperties DEF Follows
    <3>3. IsNext(index, rd.entry.id, rd.pos, NextRecord)
      BY <3>1, <3>2, NextRecordDoes
    <3>4. Follows(v, index, dev, rd')
      BY <2>2, <3>1, <3>3, PullFollows
    <3> QED
      BY <1>2, <2>1, <3>4 DEF v
  <2>5. ASSUME NEW s \in Status, rd' = [rd EXCEPT !.status = s]
        PROVE  ReadInv'
    <3>1. Follows(v, index, dev, rd')
      BY <2>2, <2>5, FinishFollows
    <3> QED
      BY <1>2, <2>1, <3>1 DEF v
  <2>6. CASE ReadFails \/ ReadRunsOut \/ ReadEnd
    BY <2>5, <2>6 DEF ReadFails, ReadRunsOut, ReadEnd, Finish, Status
  <2> QED
    BY <1>5, <2>3, <2>4, <2>6 DEF ReadStep
<1>6. CASE UNCHANGED vars
  BY <1>6 DEF vars, ReadInv, TheVolume
<1> QED
  BY <1>1, <1>4, <1>5, <1>6 DEF Next

LEMMA ReadInvariant ==
  ASSUME WholeCatalogs
  PROVE  Spec => [](MountInv /\ CatalogInv /\ ReadInv)
<1>1. Init => CatalogInv /\ ReadInv
  BY DEF Init, CatalogInv, ReadInv
<1>2. /\ MountInv /\ MountInv' /\ CatalogInv /\ [Next]_vars => CatalogInv'
      /\ MountInv /\ CatalogInv /\ ReadInv /\ [Next]_vars => ReadInv'
  BY CatalogKeeps, ReadKeeps
<1> QED
  BY <1>1, <1>2, MountInvariant, PTL DEF Spec

(* Every byte a read delivers is the byte of the file at that place, and   *)
(* no more than the buffer takes (HfsReadFork, for every fork, every cut   *)
(* into extents and overflow records and every failure of a device), as    *)
(* long as the volume header's extents hold the whole catalog.             *)
THEOREM ReadsAreExact ==
  ASSUME WholeCatalogs
  PROVE  Spec => []ReadIsExact
<1>1. MountInv /\ ReadInv => ReadIsExact
  <2> SUFFICES ASSUME MountInv, ReadInv, rd # Idle PROVE ReadIsExact
    BY DEF ReadIsExact
  <2>1. mounted /\ dev = vol.device /\ TheVolume \in Volume
    BY MountedVolume DEF MountInv
  <2>2. Follows(TheVolume, index, dev, rd)
    BY DEF ReadInv
  <2>3. Delivered(TheVolume, dev, rd) /\ rd \in Read(TheVolume, dev)
    BY <2>2 DEF Follows
  <2>4. rd.entry.size \in Nat /\ rd.cap \in Nat
    BY <2>1, <2>3, ReadParts
  <2>5. rd.want <= rd.cap
    BY <2>3, <2>4 DEF Delivered, Smaller
  <2> QED
    BY <2>1, <2>3, <2>5 DEF Delivered, ReadIsExact
<1> QED
  BY <1>1, ReadInvariant, PTL

\* The HFS+ reader takes the extents of the catalog record and no others.
NoPlusOverflow == \A v \in Volume : v.kind = "plus" => v.ovf = <<>>

(* A read reports end of media only of a file that has a block no record   *)
(* describes, or of a volume with more overflow records than the index     *)
(* holds (HfsReadFork and HfsReadOverflow), where no HFS+ file needs       *)
(* overflow extents.                                                       *)
THEOREM DescribedAreRead ==
  ASSUME WholeCatalogs, NoPlusOverflow
  PROVE  Spec => []DescribedFilesAreRead
<1>1. Init => DescribedFilesAreRead
  BY DEF Init, DescribedFilesAreRead
<1>2. ASSUME MountInv, CatalogInv, ReadInv, DescribedFilesAreRead, [Next]_vars
      PROVE  DescribedFilesAreRead'
  <2>1. CASE MountFindsNothing \/ MountRunsOut \/ MountFailsToLoad \/ Mount
    BY <1>2, <2>1 DEF MountFindsNothing, MountRunsOut, MountFailsToLoad, Mount, MountInv,
                      DescribedFilesAreRead
  <2>2. CASE \E e \in catalog, cap \in Capacity : ReadBegin(e, cap)
    <3>1. rd'.status = "running"
      BY <2>2 DEF ReadBegin
    <3> QED
      BY <3>1 DEF DescribedFilesAreRead
  <2>3. CASE ReadStep
    <3>1. rd # Idle /\ mounted /\ TheVolume' = TheVolume
      BY <1>2, <2>3 DEF ReadStep, TakeExtent, ReadFails, PullOverflow, ReadRunsOut, ReadEnd,
                        Finish, More, Running, MountInv, TheVolume
    <3> DEFINE v == TheVolume
    <3>2. v \in Volume /\ IsIndex(v, index) /\ Follows(v, index, dev, rd) /\ vol.kind = v.kind
      BY <1>2, <3>1, MountedVolume DEF ReadInv, MountInv
    <3> HIDE DEF v
    <3>3. rd \in Read(v, dev)
      BY <3>2 DEF Follows
    <3>4. CASE TakeExtent \/ PullOverflow
      <4>1. rd'.status = "running"
        <5>1. rd.status = "running"
          BY <3>4 DEF TakeExtent, PullOverflow, More, Running
        <5> QED
          BY <3>3, <3>4, <5>1 DEF TakeExtent, PullOverflow, Read
      <4> QED
        BY <4>1 DEF DescribedFilesAreRead
    <3>5. CASE ReadFails \/ ReadEnd
      <4>1. rd'.status # "end_of_media"
        BY <3>3, <3>5 DEF ReadFails, ReadEnd, Finish, Read
      <4> QED
        BY <4>1 DEF DescribedFilesAreRead
    <3>6. CASE ReadRunsOut
      <4>1. /\ rd.exts = <<>> /\ Len(rd.buf) < rd.want
            /\ v.kind = "plus" \/ ~Continues(NextRecord)
            /\ rd' = [rd EXCEPT !.status = "end_of_media"]
        BY <3>2, <3>6 DEF ReadRunsOut, More, Finish
      <4>2. rd'.entry = rd.entry
        BY <3>3, <4>1 DEF Read
      <4>3. index \in Seq(OvfRecord) /\ Len(index) \in Nat /\ rd.pos \in Nat \ {0}
        BY <3>2, <3>3, IndexDoes, ReadParts, LenProperties
      <4>4. ASSUME NEW n, IsNext(index, rd.entry.id, rd.pos, n)
            PROVE  rd.logical < index[n].fabn
        <5>1. n \in rd.pos .. Len(index) /\ index[n].id = rd.entry.id /\ n \in 1 .. Len(index)
          BY <4>3, <4>4 DEF IsNext
        <5>2. v.kind # "plus"
          <6> SUFFICES ASSUME v.kind = "plus" PROVE FALSE
            OBVIOUS
          <6>1. index = <<>>
            BY <3>2 DEF IsIndex
          <6> QED
            BY <5>1, <6>1
        <5>3. IsNext(index, rd.entry.id, rd.pos, NextRecord)
          BY <4>3, <5>1, NextRecordDoes
        <5>4. NextRecord = n
          BY <4>3, <4>4, <5>3, OneIsNext
        <5>5. index[n].fabn \in Nat /\ rd.logical \in Nat
          <6>1. index[n] \in OvfRecord
            BY <4>3, <5>1, ElementOfSeq
          <6>2. rd.logical \in Nat
            BY <3>2, <3>3, ReadParts
          <6> QED
            BY <6>1, <6>2 DEF OvfRecord
        <5> QED
          BY <4>1, <5>1, <5>2, <5>4, <5>5 DEF Continues
      <4>5. Len(v.ovf) \in Nat /\ MaxOvf \in Nat /\ (v.kind = "plus" => v.ovf = <<>>)
        BY <3>2, VolumeParts, LenProperties, VolumeAssumption DEF NoPlusOverflow
      <4>6. ASSUME Len(v.ovf) <= MaxOvf
            PROVE  \E b \in RangeOf(v.fork[rd.entry.id]) :
                     \A x \in Extents(v, rd.entry) : b \notin x.block .. x.block + x.count - 1
        BY <3>2, <4>1, <4>4, <4>5, <4>6, RunsOutOnlyWhenMissing
      <4> QED
        BY <3>1, <4>2, <4>5, <4>6 DEF DescribedFilesAreRead, v
    <3> QED
      BY <2>3, <3>4, <3>5, <3>6 DEF ReadStep
  <2>4. CASE UNCHANGED vars
    BY <1>2, <2>4 DEF vars, DescribedFilesAreRead, TheVolume
  <2> QED
    BY <1>2, <2>1, <2>2, <2>3, <2>4 DEF Next
<1> QED
  BY <1>1, <1>2, ReadInvariant, PTL DEF Spec
=============================================================================
