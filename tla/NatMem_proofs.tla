--------------------------- MODULE NatMem_proofs ---------------------------
(***************************************************************************)
(* What the host-side Memory Manager keeps, for every size of the pool and *)
(* of the heap and every order of the calls: its chain for every request,  *)
(* its blocks if no request wraps when it is added to an address.          *)
(*                                                                         *)
(* The chain of free slots is in memory, as links.  The invariant names it *)
(* as a function c of its places; each action maps the chain before it to  *)
(* the chain after it (pushed, popped or the same), and that what one      *)
(* meets on the way down the links is c is shown once (WayDown).           *)
(***************************************************************************)
EXTENDS NatMem, FiniteSetTheorems, WellFoundedInduction, TLAPS

\* The rounded size of a request cannot carry an address of the heap past the
\* largest word.
Modest == \A size \in Request : HeapEnd + size + 11 < WordMod

-----------------------------------------------------------------------------
LEMMA Least ==
  ASSUME NEW S, S \subseteq Nat, S # {}
  PROVE  \E n \in S : \A m \in S : n <= m
<1> DEFINE R == OpToRel(<, Nat)
<1>1. IsWellFoundedOn(R, Nat)
  BY NatLessThanWellFounded
<1>2. \A m, n \in Nat : m < n => <<m, n>> \in R
  BY DEF OpToRel
<1> HIDE DEF R
<1>3. PICK n \in S : \A m \in S : <<m, n>> \notin R
  BY <1>1, WFMin
<1>4. \A m \in S : ~(m < n)
  BY <1>2, <1>3
<1> QED
  BY <1>4

LEMMA Constants ==
  /\ WordMod \in Nat /\ BlockAddr \in Nat /\ BlockEnd \in Nat /\ HeapAddr \in Nat
  /\ HeapEnd \in Nat /\ InitSlots \in Nat /\ Grow \in Nat
  /\ 0 < BlockAddr /\ BlockAddr <= BlockEnd /\ BlockEnd <= HeapAddr /\ HeapAddr <= HeapEnd
  /\ HeapEnd < WordMod /\ BlockAddr % 8 = 0 /\ HeapAddr % 4 = 0
BY ZoneAssumption

\* A slot is a multiple of eight in the pool.
LEMMA SlotIs ==
  \A s : s \in Slot <=> \E i \in Nat : s = BlockAddr + 8 * i /\ s + 8 <= BlockEnd
<1>1. ASSUME NEW i \in Nat, BlockAddr + 8 * i + 8 <= BlockEnd
      PROVE  i \in 0 .. (BlockEnd - BlockAddr) \div 8
  BY <1>1, Constants
<1>2. (BlockEnd - BlockAddr) \div 8 \in Nat
  BY Constants
<1> QED
  BY <1>1, <1>2, Constants DEF Slot, SlotAddr

LEMMA SlotProperties ==
  ASSUME NEW s \in Slot
  PROVE  s \in Nat /\ s >= BlockAddr /\ s # Nil /\ s % 2 = 0 /\ s >= 8
BY SlotIs, Constants DEF Nil

-----------------------------------------------------------------------------
(***************************************************************************)
(* Chains.                                                                 *)
(***************************************************************************)
Pool == [hfree : Nat, bump : Nat, free : Nat, cb : Nat]

PoolInv(p) ==
  /\ p \in Pool
  /\ \E m \in Nat : p.bump = BlockAddr + 8 * m
  /\ p.bump <= BlockEnd

\* The slots that are off the chain: all in use, all issued.
OffChain(p, L) == L \subseteq {s \in Slot : s < p.bump}

\* c is the chain of p in the words w, and none of L is on it.
Linked(c, p, w, L) ==
  /\ DOMAIN c = 0 .. p.free
  /\ c[0] = p.hfree
  /\ c[p.free] = Nil
  /\ \A k \in 0 .. p.free - 1 :
       c[k] \in Slot \ L /\ c[k] < p.bump /\ w[c[k]] = c[k + 1] + 1
  /\ \A j, k \in 0 .. p.free - 1 : c[j] = c[k] => j = k

\* The slots on it.
On(c, p) == {c[k] : k \in 0 .. p.free - 1}

LEMMA LinkedValues ==
  ASSUME NEW p, PoolInv(p), NEW w, NEW L, NEW c, Linked(c, p, w, L)
  PROVE  \A k \in 0 .. p.free : c[k] \in Nat /\ c[k] % 2 = 0
<1>1. p.free \in Nat
  BY DEF PoolInv, Pool
<1> TAKE k \in 0 .. p.free
<1>2. CASE k = p.free
  BY <1>2 DEF Linked, Nil
<1>3. CASE k # p.free
  <2>1. k \in 0 .. p.free - 1
    BY <1>1, <1>3
  <2>2. c[k] \in Slot
    BY <2>1 DEF Linked
  <2> QED
    BY <2>2, SlotProperties
<1> QED
  BY <1>2, <1>3

\* Growing the pool puts the new slots in front of the chain.
LEMMA Grown ==
  ASSUME NEW p, PoolInv(p), NEW n \in Nat
  PROVE  /\ Added(p, n) \in Nat
         /\ p.bump + 8 * Added(p, n) <= BlockEnd
         /\ PoolInv(PoolAfter(p, n))
         /\ p.bump <= PoolAfter(p, n).bump
         /\ PoolAfter(p, n).free = p.free + Added(p, n)
         /\ PoolAfter(p, n).bump = p.bump + 8 * Added(p, n)
<1> DEFINE a == Added(p, n)
           room == (BlockEnd - p.bump) \div 8
<1>1. p.bump \in Nat /\ p.free \in Nat /\ p.cb \in Nat /\ p.hfree \in Nat /\ p.bump <= BlockEnd
  BY DEF PoolInv, Pool
<1>2. room \in Nat /\ 8 * room <= BlockEnd - p.bump
  BY <1>1, Constants
<1>3. a \in Nat /\ a <= room
  <2> HIDE DEF room
  <2>1. a = Smaller(n, room)
    BY DEF Added, room
  <2> QED
    BY <1>2, <2>1 DEF Smaller
<1>4. p.bump + 8 * a <= BlockEnd /\ p.bump + 8 * a \in Nat
  <2> HIDE DEF room, a
  <2> QED
    BY <1>1, <1>2, <1>3, Constants
<1>5. PICK m \in Nat : p.bump = BlockAddr + 8 * m
  BY DEF PoolInv
<1>6. p.bump + 8 * a = BlockAddr + 8 * (m + a) /\ m + a \in Nat
  <2> HIDE DEF a
  <2> QED
    BY <1>3, <1>5, Constants
<1>7. (p.cb + 32 * a) % WordMod \in Nat
  <2> HIDE DEF a
  <2> QED
    BY <1>1, <1>3, Constants
<1>8. PoolAfter(p, n) \in Pool
  <2>1. a # 0 => p.bump + 8 * (a - 1) \in Nat
    <3> HIDE DEF a
    <3> QED
      BY <1>1, <1>3
  <2>2. p.free + a \in Nat
    <3> HIDE DEF a
    <3> QED
      BY <1>1, <1>3
  <2> QED
    BY <1>1, <1>4, <1>7, <2>1, <2>2 DEF PoolAfter, Pool
<1>9. /\ PoolAfter(p, n).bump = p.bump + 8 * a
      /\ PoolAfter(p, n).free = p.free + a
  BY DEF PoolAfter
<1> HIDE DEF a
<1>10. p.bump <= p.bump + 8 * a
  BY <1>1, <1>3
<1> QED
  BY <1>3, <1>4, <1>6, <1>8, <1>9, <1>10 DEF PoolInv, a

LEMMA FreshIsFree ==
  ASSUME NEW p, PoolInv(p), NEW n \in Nat
  PROVE  \A i \in 0 .. Added(p, n) - 1 :
           /\ p.bump + 8 * i \in Slot /\ p.bump + 8 * i \in Fresh(p, n)
           /\ p.bump + 8 * i < PoolAfter(p, n).bump
           /\ p.bump + 8 * i >= p.bump
<1> DEFINE a == Added(p, n)
<1>1. p.bump \in Nat /\ a \in Nat /\ p.bump + 8 * a <= BlockEnd
  BY Grown DEF PoolInv, Pool
<1>2. PICK m \in Nat : p.bump = BlockAddr + 8 * m
  BY DEF PoolInv
<1>3. PoolAfter(p, n).bump = p.bump + 8 * a
  BY Grown
<1> SUFFICES ASSUME NEW i \in 0 .. a - 1
             PROVE  /\ p.bump + 8 * i \in Slot /\ p.bump + 8 * i \in Fresh(p, n)
                    /\ p.bump + 8 * i < PoolAfter(p, n).bump
                    /\ p.bump + 8 * i >= p.bump
  OBVIOUS
<1>4. p.bump + 8 * i \in Fresh(p, n)
  BY DEF Fresh
<1> HIDE DEF a
<1>5. p.bump + 8 * i = BlockAddr + 8 * (m + i) /\ m + i \in Nat /\ p.bump + 8 * i + 8 <= BlockEnd
  BY <1>1, <1>2, Constants
<1>6. p.bump + 8 * i \in Slot
  BY <1>5, SlotIs
<1> QED
  BY <1>1, <1>3, <1>4, <1>6

\* The slots that were issued before keep what they hold.
LEMMA WordsGrown ==
  ASSUME NEW p, PoolInv(p), NEW w \in [Slot -> Nat], NEW n \in Nat
  PROVE  /\ WordsAfter(p, w, n) \in [Slot -> Nat]
         /\ \A s \in Slot : s < p.bump => WordsAfter(p, w, n)[s] = w[s]
<1>1. p.bump \in Nat /\ p.hfree \in Nat /\ Added(p, n) \in Nat
  BY Grown DEF PoolInv, Pool
<1>2. \A s \in Fresh(p, n) : s >= p.bump
  BY <1>1 DEF Fresh
<1>3. \A s \in Slot : s - 8 + 1 \in Nat /\ s \in Nat
  BY SlotProperties
<1>4. \A s \in Slot : s < p.bump => s \notin Fresh(p, n)
  BY <1>1, <1>2, <1>3
<1>5. p.hfree + 1 \in Nat
  BY <1>1
<1> QED
  BY <1>3, <1>4, <1>5 DEF WordsAfter

LEMMA GrownChain ==
  ASSUME NEW p, PoolInv(p), NEW w \in [Slot -> Nat], NEW L, OffChain(p, L),
         NEW c, Linked(c, p, w, L), NEW n \in Nat
  PROVE  \E d : /\ Linked(d, PoolAfter(p, n), WordsAfter(p, w, n), L)
                /\ On(c, p) \subseteq On(d, PoolAfter(p, n))
<1> DEFINE a == Added(p, n)
           q == PoolAfter(p, n)
           v == WordsAfter(p, w, n)
           d == [k \in 0 .. p.free + a |-> IF k < a THEN p.bump + 8 * (a - 1 - k) ELSE c[k - a]]
<1>1. /\ a \in Nat /\ p.free \in Nat /\ p.bump \in Nat
      /\ q.free = p.free + a /\ q.bump = p.bump + 8 * a /\ p.bump <= q.bump
  BY Grown DEF PoolInv, Pool
<1>2. q.hfree = IF a = 0 THEN p.hfree ELSE p.bump + 8 * (a - 1)
  BY DEF PoolAfter
<1>3. \A i \in 0 .. a - 1 :
        /\ p.bump + 8 * i \in Slot /\ p.bump + 8 * i \in Fresh(p, n)
        /\ p.bump + 8 * i < q.bump /\ p.bump + 8 * i >= p.bump
  BY FreshIsFree
<1>4. \A s \in Slot : s < p.bump => v[s] = w[s]
  BY WordsGrown
<1>5. \A i \in 0 .. a - 1 : v[p.bump + 8 * i] = IF i = 0 THEN p.hfree + 1 ELSE p.bump + 8 * (i - 1) + 1
  <2> TAKE i \in 0 .. a - 1
  <2> DEFINE s == p.bump + 8 * i
  <2>0. s \in Slot /\ s \in Fresh(p, n)
    BY <1>3
  <2> HIDE DEF s, a
  <2>1. v[s] = IF s = p.bump THEN p.hfree + 1 ELSE s - 8 + 1
    BY <2>0 DEF WordsAfter
  <2> HIDE DEF v
  <2> USE DEF s
  <2> QED
    BY <1>1, <2>1
<1>6. \A k \in 0 .. p.free - 1 :
        c[k] \in Slot \ L /\ c[k] < p.bump /\ w[c[k]] = c[k + 1] + 1
  BY DEF Linked
<1>7. c[0] = p.hfree /\ c[p.free] = Nil
  BY DEF Linked
<1>8. \A j, k \in 0 .. p.free - 1 : c[j] = c[k] => j = k
  BY DEF Linked
<1> HIDE DEF a, q, v
<1>9. \A k \in 0 .. p.free + a : IF k < a THEN d[k] = p.bump + 8 * (a - 1 - k)
                                          ELSE k - a \in 0 .. p.free /\ d[k] = c[k - a]
  BY <1>1
<1>10. DOMAIN d = 0 .. p.free + a
  OBVIOUS
<1> HIDE DEF d
<1>11. d[0] = q.hfree
  <2>1. 0 \in 0 .. p.free + a
    BY <1>1
  <2>2. CASE a = 0
    BY <1>1, <1>2, <1>7, <1>9, <2>1, <2>2
  <2>3. CASE a # 0
    BY <1>1, <1>2, <1>9, <2>1, <2>3
  <2> QED
    BY <2>2, <2>3
<1>12. d[q.free] = Nil
  <2>1. q.free \in 0 .. p.free + a /\ ~(q.free < a) /\ q.free - a = p.free
    BY <1>1
  <2> QED
    BY <1>7, <1>9, <2>1
<1>13. ASSUME NEW k \in 0 .. q.free - 1, k < a
       PROVE  /\ d[k] \in Slot /\ d[k] < q.bump /\ d[k] >= p.bump
              /\ v[d[k]] = d[k + 1] + 1
  <2>1. a - 1 - k \in 0 .. a - 1 /\ k \in 0 .. p.free + a /\ k + 1 \in 0 .. p.free + a
    BY <1>1, <1>13
  <2>2. d[k] = p.bump + 8 * (a - 1 - k)
    BY <1>9, <1>13, <2>1
  <2>3. d[k] \in Slot /\ d[k] < q.bump /\ d[k] >= p.bump
    BY <1>3, <2>1, <2>2
  <2>4. CASE k + 1 < a
    <3>1. d[k + 1] = p.bump + 8 * (a - 1 - (k + 1)) /\ a - 1 - k # 0
      BY <1>1, <1>9, <2>1, <2>4
    <3>2. v[d[k]] = p.bump + 8 * ((a - 1 - k) - 1) + 1
      BY <1>5, <2>1, <2>2, <3>1
    <3>3. a - 1 - (k + 1) = (a - 1 - k) - 1
      BY <1>1, <2>1
    <3> QED
      BY <2>3, <3>1, <3>2, <3>3
  <2>5. CASE ~(k + 1 < a)
    <3>1. k + 1 = a /\ a - 1 - k = 0 /\ (k + 1) - a = 0
      BY <1>1, <1>13, <2>5
    <3>2. d[k + 1] = p.hfree
      BY <1>7, <1>9, <2>1, <2>5, <3>1
    <3>3. v[d[k]] = p.hfree + 1
      BY <1>5, <2>1, <2>2, <3>1
    <3> QED
      BY <2>3, <3>2, <3>3
  <2> QED
    BY <2>4, <2>5
<1>14. ASSUME NEW k \in 0 .. q.free - 1, ~(k < a)
       PROVE  /\ k - a \in 0 .. p.free - 1 /\ d[k] = c[k - a]
              /\ d[k] \in Slot \ L /\ d[k] < p.bump
              /\ v[d[k]] = d[k + 1] + 1
  <2>1. /\ k - a \in 0 .. p.free - 1 /\ k \in 0 .. p.free + a /\ k + 1 \in 0 .. p.free + a
        /\ ~(k + 1 < a) /\ (k + 1) - a = (k - a) + 1
    BY <1>1, <1>14
  <2>2. d[k] = c[k - a] /\ d[k + 1] = c[(k - a) + 1]
    BY <1>9, <1>14, <2>1
  <2>3. d[k] \in Slot \ L /\ d[k] < p.bump /\ w[d[k]] = d[k + 1] + 1
    BY <1>6, <2>1, <2>2
  <2> QED
    BY <1>4, <2>1, <2>2, <2>3
<1>15. ASSUME NEW k \in 0 .. q.free - 1
       PROVE  d[k] \in Slot \ L /\ d[k] < q.bump /\ v[d[k]] = d[k + 1] + 1
  <2>1. CASE k < a
    <3>1. d[k] \in Slot /\ d[k] < q.bump /\ d[k] >= p.bump /\ v[d[k]] = d[k + 1] + 1
      BY <1>13, <2>1
    <3>2. \A s \in L : s \in Slot /\ s < p.bump
      BY DEF OffChain
    <3>3. d[k] \notin L
      BY <1>1, <3>1, <3>2, SlotProperties
    <3> QED
      BY <3>1, <3>3
  <2>2. CASE ~(k < a)
    <3>1. d[k] \in Slot \ L /\ d[k] < p.bump /\ v[d[k]] = d[k + 1] + 1
      BY <1>14, <2>2
    <3> QED
      BY <1>1, <3>1, SlotProperties
  <2> QED
    BY <2>1, <2>2
<1>16. ASSUME NEW j \in 0 .. q.free - 1, NEW k \in 0 .. q.free - 1, d[j] = d[k]
       PROVE  j = k
  <2>1. j \in 0 .. p.free + a /\ k \in 0 .. p.free + a
    BY <1>1
  <2>2. CASE j < a /\ k < a
    BY <1>1, <1>9, <1>16, <2>1, <2>2
  <2>3. CASE ~(j < a) /\ ~(k < a)
    <3>1. j - a = k - a
      BY <1>8, <1>14, <1>16, <2>3
    <3> QED
      BY <1>1, <3>1
  <2>4. CASE j < a /\ ~(k < a)
    BY <1>1, <1>13, <1>14, <1>16, <2>4, SlotProperties
  <2>5. CASE ~(j < a) /\ k < a
    BY <1>1, <1>13, <1>14, <1>16, <2>5, SlotProperties
  <2> QED
    BY <2>2, <2>3, <2>4, <2>5
<1>17. Linked(d, q, v, L)
  <2>1. DOMAIN d = 0 .. q.free
    BY <1>1, <1>10
  <2> QED
    BY <1>11, <1>12, <1>15, <1>16, <2>1 DEF Linked
<1>18. On(c, p) \subseteq On(d, q)
  <2> SUFFICES ASSUME NEW k \in 0 .. p.free - 1 PROVE c[k] \in On(d, q)
    BY DEF On
  <2>1. k + a \in 0 .. q.free - 1 /\ k + a \in 0 .. p.free + a /\ ~(k + a < a) /\ (k + a) - a = k
    BY <1>1
  <2>2. d[k + a] = c[k]
    BY <1>9, <2>1
  <2> QED
    BY <2>1, <2>2 DEF On
<1> QED
  BY <1>17, <1>18 DEF q, v

\* Taking the first slot leaves the rest.
Popped(p, w) == [p EXCEPT !.hfree = Unlink(w[p.hfree]), !.free = @ - 1]

LEMMA PoppedChain ==
  ASSUME NEW p, PoolInv(p), NEW w \in [Slot -> Nat], NEW L,
         NEW c, Linked(c, p, w, L), p.hfree # Nil
  PROVE  /\ p.hfree \in Slot \ L /\ p.hfree < p.bump
         /\ PoolInv(Popped(p, w)) /\ Popped(p, w).bump = p.bump
         /\ \E d : /\ Linked(d, Popped(p, w), w, L \cup {p.hfree})
                   /\ On(c, p) \subseteq On(d, Popped(p, w)) \cup {p.hfree}
<1> DEFINE q == Popped(p, w)
           d == [k \in 0 .. p.free - 1 |-> c[k + 1]]
<1>1. p.free \in Nat /\ c[0] = p.hfree /\ c[p.free] = Nil /\ p.bump \in Nat
  BY DEF Linked, PoolInv, Pool
<1>2. p.free # 0 /\ 0 \in 0 .. p.free - 1 /\ 1 \in 0 .. p.free
  BY <1>1
<1>3. p.hfree \in Slot \ L /\ p.hfree < p.bump /\ w[p.hfree] = c[0 + 1] + 1
  BY <1>1, <1>2 DEF Linked
<1>4. c[1] \in Nat /\ c[1] % 2 = 0
  BY <1>2, LinkedValues
<1>5. Unlink(w[p.hfree]) = c[1]
  BY <1>3, <1>4 DEF Unlink
<1>6. q.hfree = c[1] /\ q.free = p.free - 1 /\ q.bump = p.bump /\ q.cb = p.cb
  BY <1>5 DEF PoolInv, Pool, Popped
<1>7. q \in Pool
  <2>1. p.free - 1 \in Nat
    BY <1>1, <1>2
  <2> QED
    BY <1>4, <1>5, <2>1 DEF PoolInv, Pool, Popped
<1>8. PoolInv(q)
  BY <1>6, <1>7 DEF PoolInv
<1> HIDE DEF q
<1>9. \A k \in 0 .. p.free - 1 : d[k] = c[k + 1]
  OBVIOUS
<1>10. DOMAIN d = 0 .. p.free - 1
  OBVIOUS
<1> HIDE DEF d
<1>11. ASSUME NEW k \in 0 .. q.free - 1
       PROVE  /\ k + 1 \in 0 .. p.free - 1 /\ d[k] = c[k + 1]
              /\ d[k] \in Slot \ (L \cup {p.hfree}) /\ d[k] < q.bump /\ w[d[k]] = d[k + 1] + 1
  <2>1. k \in 0 .. p.free - 1 /\ k + 1 \in 0 .. p.free - 1 /\ k + 1 # 0
    BY <1>1, <1>6
  <2>2. d[k] = c[k + 1] /\ d[k + 1] = c[(k + 1) + 1]
    BY <1>9, <2>1
  <2>3. c[k + 1] \in Slot \ L /\ c[k + 1] < p.bump /\ w[c[k + 1]] = c[(k + 1) + 1] + 1
    BY <2>1 DEF Linked
  <2>4. c[k + 1] # c[0]
    BY <1>2, <2>1 DEF Linked
  <2> QED
    BY <1>1, <1>6, <2>1, <2>2, <2>3, <2>4
<1>12. ASSUME NEW j \in 0 .. q.free - 1, NEW k \in 0 .. q.free - 1, d[j] = d[k]
       PROVE  j = k
  <2>1. j + 1 = k + 1
    BY <1>11, <1>12 DEF Linked
  <2> QED
    BY <2>1
<1>13. Linked(d, q, w, L \cup {p.hfree})
  <2>1. d[0] = q.hfree
    BY <1>2, <1>6, <1>9
  <2>2. d[q.free] = Nil
    <3>1. q.free \in 0 .. p.free - 1 /\ q.free + 1 = p.free
      BY <1>1, <1>2, <1>6
    <3> QED
      BY <1>1, <1>9, <3>1
  <2>3. DOMAIN d = 0 .. q.free
    BY <1>6, <1>10
  <2> QED
    BY <1>11, <1>12, <2>1, <2>2, <2>3 DEF Linked
<1>14. On(c, p) \subseteq On(d, q) \cup {p.hfree}
  <2> SUFFICES ASSUME NEW k \in 0 .. p.free - 1, k # 0 PROVE c[k] \in On(d, q)
    BY <1>1 DEF On
  <2>1. k - 1 \in 0 .. p.free - 1 /\ k - 1 \in 0 .. q.free - 1 /\ (k - 1) + 1 = k
    BY <1>1, <1>6
  <2> QED
    BY <1>9, <2>1 DEF On
<1> QED
  BY <1>3, <1>6, <1>8, <1>13, <1>14 DEF q

\* Giving back a slot puts it in front.
Pushed(p, h) == [p EXCEPT !.hfree = h, !.free = @ + 1]

LEMMA PushedChain ==
  ASSUME NEW p, PoolInv(p), NEW w \in [Slot -> Nat], NEW L, OffChain(p, L),
         NEW c, Linked(c, p, w, L), NEW h \in L
  PROVE  /\ PoolInv(Pushed(p, h)) /\ Pushed(p, h).bump = p.bump
         /\ \E d : /\ Linked(d, Pushed(p, h), [w EXCEPT ![h] = p.hfree + 1], L \ {h})
                   /\ On(c, p) \cup {h} \subseteq On(d, Pushed(p, h))
<1> DEFINE q == Pushed(p, h)
           v == [w EXCEPT ![h] = p.hfree + 1]
           d == [k \in 0 .. p.free + 1 |-> IF k = 0 THEN h ELSE c[k - 1]]
<1>1. p.free \in Nat /\ p.hfree \in Nat /\ c[0] = p.hfree /\ c[p.free] = Nil
  BY DEF Linked, PoolInv, Pool
<1>2. h \in Slot /\ h < p.bump /\ h \in Nat
  BY SlotProperties DEF OffChain
<1>3. q.hfree = h /\ q.free = p.free + 1 /\ q.bump = p.bump /\ q \in Pool
  <2>1. p.free + 1 \in Nat
    BY <1>1
  <2> QED
    BY <1>2, <2>1 DEF PoolInv, Pool, Pushed
<1>4. PoolInv(q)
  BY <1>3 DEF PoolInv
<1>5. v[h] = p.hfree + 1 /\ \A s \in Slot : s # h => v[s] = w[s]
  BY <1>2
<1> HIDE DEF q, v
<1>6. d[0] = h /\ \A k \in 1 .. p.free + 1 : d[k] = c[k - 1]
  BY <1>1
<1>7. DOMAIN d = 0 .. p.free + 1
  OBVIOUS
<1> HIDE DEF d
<1>8. ASSUME NEW k \in 0 .. q.free - 1, k # 0
      PROVE  /\ k - 1 \in 0 .. p.free - 1 /\ d[k] = c[k - 1] /\ d[k] # h
             /\ d[k] \in Slot \ (L \ {h}) /\ d[k] < q.bump /\ v[d[k]] = d[k + 1] + 1
  <2>1. /\ k - 1 \in 0 .. p.free - 1 /\ k \in 1 .. p.free + 1 /\ k + 1 \in 1 .. p.free + 1
        /\ (k + 1) - 1 = (k - 1) + 1
    BY <1>1, <1>3, <1>8
  <2>2. d[k] = c[k - 1] /\ d[k + 1] = c[(k - 1) + 1]
    BY <1>6, <2>1
  <2>3. c[k - 1] \in Slot \ L /\ c[k - 1] < p.bump /\ w[c[k - 1]] = c[(k - 1) + 1] + 1
    BY <2>1 DEF Linked
  <2> QED
    BY <1>3, <1>5, <2>1, <2>2, <2>3
<1>9. ASSUME NEW k \in 0 .. q.free - 1, k = 0
      PROVE  d[k] = h /\ d[k] \in Slot \ (L \ {h}) /\ d[k] < q.bump /\ v[d[k]] = d[k + 1] + 1
  <2>1. 1 \in 1 .. p.free + 1 /\ 1 - 1 = 0 /\ k + 1 = 1
    BY <1>1, <1>9
  <2>2. d[k] = h /\ d[k + 1] = p.hfree
    BY <1>1, <1>6, <1>9, <2>1
  <2> QED
    BY <1>2, <1>3, <1>5, <2>2
<1>10. ASSUME NEW j \in 0 .. q.free - 1, NEW k \in 0 .. q.free - 1, d[j] = d[k]
       PROVE  j = k
  <2>1. CASE j # 0 /\ k # 0
    <3>1. j - 1 = k - 1
      BY <1>8, <1>10, <2>1 DEF Linked
    <3> QED
      BY <3>1
  <2>2. CASE j = 0 \/ k = 0
    BY <1>8, <1>9, <1>10, <2>2
  <2> QED
    BY <2>1, <2>2
<1>11. Linked(d, q, v, L \ {h})
  <2>1. d[0] = q.hfree
    BY <1>3, <1>6
  <2>2. d[q.free] = Nil
    <3>1. q.free \in 1 .. p.free + 1 /\ q.free - 1 = p.free
      BY <1>1, <1>3
    <3> QED
      BY <1>1, <1>6, <3>1
  <2>3. DOMAIN d = 0 .. q.free
    BY <1>3, <1>7
  <2>4. \A k \in 0 .. q.free - 1 :
          d[k] \in Slot \ (L \ {h}) /\ d[k] < q.bump /\ v[d[k]] = d[k + 1] + 1
    BY <1>8, <1>9
  <2> QED
    BY <1>10, <2>1, <2>2, <2>3, <2>4 DEF Linked
<1>12. On(c, p) \cup {h} \subseteq On(d, q)
  <2>1. h \in On(d, q)
    <3>1. 0 \in 0 .. q.free - 1
      BY <1>1, <1>3
    <3> QED
      BY <1>6, <3>1 DEF On
  <2>2. ASSUME NEW k \in 0 .. p.free - 1 PROVE c[k] \in On(d, q)
    <3>1. k + 1 \in 1 .. p.free + 1 /\ k + 1 \in 0 .. q.free - 1 /\ (k + 1) - 1 = k
      BY <1>1, <1>3
    <3> QED
      BY <1>6, <3>1 DEF On
  <2> QED
    BY <2>1, <2>2 DEF On
<1> QED
  BY <1>3, <1>4, <1>11, <1>12 DEF q, v
-----------------------------------------------------------------------------
(***************************************************************************)
(* What is met on the way down the links.                                  *)
(***************************************************************************)
Follow(p, w) == LET f[k \in Nat] == IF k = 0 THEN p.hfree
                                    ELSE IF f[k - 1] = Nil THEN Nil
                                    ELSE Unlink(w[f[k - 1]])
                IN f

LEMMA WayDown ==
  ASSUME NEW p, PoolInv(p), NEW w, NEW L, NEW c, Linked(c, p, w, L)
  PROVE  \A k \in 0 .. p.free : Follow(p, w)[k] = c[k]
<1> DEFINE Body(g) == [k \in Nat |-> IF k = 0 THEN p.hfree
                                     ELSE IF g[k - 1] = Nil THEN Nil
                                     ELSE Unlink(w[g[k - 1]])]
           f == CHOOSE g : g = Body(g)
           e == [k \in Nat |-> IF k <= p.free THEN c[k] ELSE Nil]
<1>1. p.free \in Nat /\ c[0] = p.hfree /\ c[p.free] = Nil
  BY DEF Linked, PoolInv, Pool
<1>2. ASSUME NEW k \in Nat, k # 0, k <= p.free
      PROVE  /\ k - 1 \in 0 .. p.free - 1 /\ c[k - 1] # Nil
             /\ c[k] = Unlink(w[c[k - 1]])
  <2>1. k - 1 \in 0 .. p.free - 1 /\ (k - 1) + 1 = k /\ k \in 0 .. p.free
    BY <1>1, <1>2
  <2>2. c[k - 1] \in Slot /\ w[c[k - 1]] = c[k] + 1
    BY <2>1 DEF Linked
  <2>3. c[k] \in Nat /\ c[k] % 2 = 0
    BY <2>1, LinkedValues
  <2> QED
    BY <2>1, <2>2, <2>3, SlotProperties DEF Unlink
<1>3. e = Body(e)
  <2>1. ASSUME NEW k \in Nat
        PROVE  e[k] = IF k = 0 THEN p.hfree ELSE IF e[k - 1] = Nil THEN Nil ELSE Unlink(w[e[k - 1]])
    <3>1. CASE k = 0
      BY <1>1, <3>1
    <3>2. CASE k # 0 /\ k <= p.free
      <4>1. k - 1 \in Nat /\ k - 1 <= p.free
        BY <1>1, <3>2
      <4>2. e[k] = c[k] /\ e[k - 1] = c[k - 1]
        BY <3>2, <4>1
      <4> HIDE DEF e
      <4> QED
        BY <1>2, <3>2, <4>2
    <3>3. CASE k # 0 /\ ~(k <= p.free)
      <4>1. k - 1 \in Nat /\ (k - 1 = p.free \/ ~(k - 1 <= p.free))
        BY <1>1, <3>3
      <4>2. e[k] = Nil /\ e[k - 1] = Nil
        BY <1>1, <3>3, <4>1
      <4> HIDE DEF e
      <4> QED
        BY <3>3, <4>2
    <3> QED
      BY <3>1, <3>2, <3>3
  <2>2. e = [k \in Nat |-> e[k]]
    OBVIOUS
  <2> HIDE DEF e
  <2> QED
    BY <2>1, <2>2
<1>4. f = Body(f)
  <2> HIDE DEF Body, e
  <2> QED
    BY <1>3
<1>5. Follow(p, w) = f
  BY DEF Follow
<1>6. f[0] = p.hfree
  <2> HIDE DEF f
  <2> QED
    BY <1>4
<1>7. \A k \in Nat : k # 0 => f[k] = IF f[k - 1] = Nil THEN Nil ELSE Unlink(w[f[k - 1]])
  <2> HIDE DEF f
  <2> QED
    BY <1>4
<1> HIDE DEF f
<1> DEFINE Bad == {k \in 0 .. p.free : f[k] # c[k]}
<1>8. ASSUME Bad # {} PROVE FALSE
  <2>1. Bad \subseteq Nat
    BY <1>1
  <2>2. PICK k \in Bad : \A m \in Bad : k <= m
    <3> HIDE DEF Bad
    <3> QED
      BY <1>8, <2>1, Least
  <2>3. k \in 0 .. p.free /\ f[k] # c[k] /\ k # 0 /\ k \in Nat /\ k <= p.free
    BY <1>1, <1>6, <2>2
  <2>4. k - 1 \in 0 .. p.free /\ ~(k <= k - 1)
    BY <1>1, <2>3
  <2>5. f[k - 1] = c[k - 1]
    BY <2>2, <2>4
  <2> QED
    BY <1>2, <1>7, <2>3, <2>5
<1> QED
  BY <1>5, <1>8

\* So the slots on the chain are as many as the count says.
LEMMA ChainIs ==
  ASSUME NEW p, PoolInv(p), NEW w, NEW L, NEW c, Linked(c, p, w, L)
  PROVE  /\ {Follow(p, w)[k] : k \in 0 .. p.free - 1} = On(c, p)
         /\ Follow(p, w)[p.free] = Nil
         /\ Cardinality(On(c, p)) = p.free
<1>1. p.free \in Nat /\ c[p.free] = Nil
  BY DEF Linked, PoolInv, Pool
<1>2. \A k \in 0 .. p.free : Follow(p, w)[k] = c[k]
  BY WayDown
<1>3. p.free \in 0 .. p.free /\ \A k \in 0 .. p.free - 1 : k \in 0 .. p.free
  BY <1>1
<1>4. {Follow(p, w)[k] : k \in 0 .. p.free - 1} = On(c, p)
  BY <1>2, <1>3 DEF On
<1> DEFINE g == [i \in 1 .. p.free |-> c[i - 1]]
<1>5. g \in Bijection(1 .. p.free, On(c, p))
  <2>1. \A i \in 1 .. p.free : i - 1 \in 0 .. p.free - 1
    BY <1>1
  <2>2. \A i \in 1 .. p.free : g[i] \in On(c, p)
    BY <2>1 DEF On
  <2>3. \A i, j \in 1 .. p.free : g[i] = g[j] => i = j
    <3>1. \A i, j \in 1 .. p.free : c[i - 1] = c[j - 1] => i - 1 = j - 1
      BY <2>1 DEF Linked
    <3> QED
      BY <1>1, <3>1
  <2>4. \A x \in On(c, p) : \E i \in 1 .. p.free : g[i] = x
    <3> SUFFICES ASSUME NEW k \in 0 .. p.free - 1 PROVE \E i \in 1 .. p.free : g[i] = c[k]
      BY DEF On
    <3>1. k + 1 \in 1 .. p.free /\ (k + 1) - 1 = k
      BY <1>1
    <3> QED
      BY <3>1
  <2>5. g \in [1 .. p.free -> On(c, p)]
    BY <2>2
  <2> HIDE DEF g
  <2> QED
    BY <2>3, <2>4, <2>5 DEF Bijection, Injection, IsInjective, Surjection
<1> HIDE DEF g
<1>6. Cardinality(On(c, p)) = p.free
  BY <1>1, <1>5, FS_CountingElements DEF ExistsBijection
<1> QED
  BY <1>1, <1>2, <1>3, <1>4, <1>6
\* Only the words of the slots on the chain matter to it.
LEMMA LinkedElsewhere ==
  ASSUME NEW p, NEW w, NEW v, NEW L, NEW M, NEW c, Linked(c, p, w, L),
         M \subseteq L, \A s \in Slot \ L : v[s] = w[s]
  PROVE  Linked(c, p, v, M)
BY DEF Linked

-----------------------------------------------------------------------------
(***************************************************************************)
(* Blocks and handles.                                                     *)
(***************************************************************************)
InHeap(b) ==
  /\ b.data \in Nat /\ b.size \in Nat /\ b.data % 4 = 0
  /\ HeapAddr + 4 <= b.data
  /\ b.data + b.size + 4 <= heapBump

Apart(b, c) == b.data + b.size + 8 <= c.data \/ c.data + c.size + 8 <= b.data

HeapInv ==
  /\ heapBump \in Nat /\ heapBump % 4 = 0
  /\ HeapAddr <= heapBump /\ heapBump <= HeapEnd
  /\ \A b \in blocks : InHeap(b)
  /\ \A b, c \in blocks : b # c => Apart(b, c)

HandleInv(w, L, bs) ==
  /\ \A h \in L : \E b \in bs : b.data = w[h]
  /\ \A h, g \in L : w[h] = w[g] => h = g

LEMMA RoundedUp ==
  ASSUME Modest, NEW size \in Request
  PROVE  size \in Nat /\ Need(size) \in Nat /\ Need(size) % 4 = 0
         /\ size <= Need(size) /\ Need(size) <= size + 3
<1>1. size \in Nat /\ HeapEnd + size + 11 < WordMod
  BY ZoneAssumption DEF Modest
<1>2. (size + 3) % WordMod = size + 3
  BY <1>1, Constants
<1>3. Need(size) = ((size + 3) \div 4) * 4
  BY <1>2 DEF Need
<1> QED
  BY <1>1, <1>3

LEMMA BumpStaysWord ==
  ASSUME heapBump \in Nat, NEW size \in Request, Carve(size)
  PROVE  Data \in Nat /\ heapBump' \in Nat
<1>1. size \in Nat
  BY ZoneAssumption
<1>2. WordMod \in Nat \ {0}
  BY Constants
<1>3. Need(size) \in Nat
  BY <1>1, <1>2 DEF Need
<1>4. Data \in Nat
  BY DEF Data
<1>5. NextBump(size) \in Nat
  <2> DEFINE need == Need(size)
             data == Data
  <2>1. NextBump(size) = (data + need + 4) % WordMod /\ data \in Nat /\ need \in Nat
    BY <1>3, <1>4 DEF NextBump
  <2> HIDE DEF need, data
  <2> QED
    BY <1>2, <2>1
<1> QED
  BY <1>4, <1>5 DEF Carve

LEMMA Carved ==
  ASSUME HeapInv, Modest, NEW size \in Request, Fits(size), Carve(size)
  PROVE  /\ HeapInv'
         /\ blocks \subseteq blocks'
         /\ \E b \in blocks' : b.data = Data
         /\ \A b \in blocks : b.data # Data
         /\ Data \in Nat
<1> DEFINE need == Need(size)
           new == [data |-> Data, size |-> size, need |-> need]
<1>1. /\ size \in Nat /\ need \in Nat /\ need % 4 = 0 /\ size <= need /\ need <= size + 3
      /\ HeapEnd + size + 11 < WordMod
  BY RoundedUp DEF Modest
<1>2. heapBump \in Nat /\ heapBump % 4 = 0 /\ HeapAddr <= heapBump /\ heapBump <= HeapEnd
  BY DEF HeapInv
<1>3. NextBump(size) = heapBump + 8 + need
  <2>1. NextBump(size) = (heapBump + 4 + need + 4) % WordMod
    BY DEF NextBump, Data
  <2> HIDE DEF need
  <2>2. heapBump + 4 + need + 4 = heapBump + 8 + need /\ heapBump + 8 + need < WordMod
    BY <1>1, <1>2, Constants
  <2> QED
    BY <1>1, <1>2, <2>1, <2>2, Constants
<1>4. heapBump' = heapBump + 8 + need /\ blocks' = blocks \cup {new} /\ heapBump' <= HeapEnd
  BY <1>3 DEF Carve, Fits
<1>5. new.data = heapBump + 4 /\ new.size = size
  BY DEF Data
<1> HIDE DEF need, new
<1>6. heapBump' \in Nat /\ heapBump' % 4 = 0 /\ HeapAddr <= heapBump'
  BY <1>1, <1>2, <1>4, Constants
<1>7. /\ new.data \in Nat /\ new.size \in Nat /\ new.data % 4 = 0
      /\ HeapAddr + 4 <= new.data /\ new.data + new.size + 4 <= heapBump'
  BY <1>1, <1>2, <1>4, <1>5, Constants
<1>8. \A b \in blocks :
        /\ b.data \in Nat /\ b.size \in Nat /\ b.data % 4 = 0 /\ HeapAddr + 4 <= b.data
        /\ b.data + b.size + 4 <= heapBump
  BY DEF HeapInv, InHeap
<1>9. \A b \in blocks : b.data + b.size + 4 <= heapBump' /\ b.data # Data
                        /\ b.data + b.size + 8 <= new.data
  <2> TAKE b \in blocks
  <2>1. b.data \in Nat /\ b.size \in Nat /\ b.data + b.size + 4 <= heapBump
    BY <1>8
  <2> QED
    BY <1>1, <1>2, <1>4, <1>5, <2>1 DEF Data
<1>10. \A b, c \in blocks' : b # c => Apart(b, c)
  BY <1>4, <1>9 DEF HeapInv, Apart
<1>11. \A b \in blocks' : InHeap(b)'
  BY <1>4, <1>7, <1>8, <1>9 DEF InHeap
<1>12. HeapInv'
  BY <1>4, <1>6, <1>10, <1>11 DEF HeapInv, Apart, InHeap
<1> QED
  BY <1>2, <1>4, <1>5, <1>9, <1>12 DEF Data

-----------------------------------------------------------------------------
(***************************************************************************)
(* The invariant, action by action.                                        *)
(***************************************************************************)
Inv ==
  /\ PoolInv(pool) /\ word \in [Slot -> Nat] /\ OffChain(pool, live)
  /\ heapBump \in Nat
  /\ \E c : Linked(c, pool, word, live)

Heap == HeapInv /\ HandleInv(word, live, blocks)

\* Modest requests leave the heap as it should be.
HeapKept == Modest /\ Heap => Heap'

Conserved == Chain \cup live \subseteq (Chain \cup live)'

LEMMA ChainNow ==
  ASSUME Inv, NEW c, Linked(c, pool, word, live)
  PROVE  Chain = On(c, pool) /\ ChainAt[pool.free] = Nil /\ Cardinality(Chain) = pool.free
<1>1. ChainAt = Follow(pool, word)
  BY DEF ChainAt, Follow
<1>2. Chain = {Follow(pool, word)[k] : k \in 0 .. pool.free - 1}
  BY <1>1 DEF Chain
<1> QED
  BY <1>1, <1>2, ChainIs DEF Inv

\* A step that has a new chain d, on which all slots are found again.
LEMMA ConservedBy ==
  ASSUME Inv, NEW c, Linked(c, pool, word, live),
         PoolInv(pool'), NEW d, Linked(d, pool', word', live'),
         On(c, pool) \cup live \subseteq On(d, pool') \cup live'
  PROVE  Conserved
<1>1. Chain = On(c, pool)
  BY ChainNow
<1>2. ChainAt' = Follow(pool', word')
  BY DEF ChainAt, Follow
<1>3. Chain' = {Follow(pool', word')[k] : k \in 0 .. pool'.free - 1}
  BY <1>2 DEF Chain
<1>4. Chain' = On(d, pool')
  BY <1>3, ChainIs
<1> QED
  BY <1>1, <1>4 DEF Conserved

LEMMA GrownKeeps ==
  ASSUME Inv, NEW n \in Nat, NEW c, Linked(c, pool, word, live)
  PROVE  /\ PoolInv(PoolAfter(pool, n)) /\ WordsAfter(pool, word, n) \in [Slot -> Nat]
         /\ OffChain(PoolAfter(pool, n), live)
         /\ \A s \in live : WordsAfter(pool, word, n)[s] = word[s]
         /\ \E d : /\ Linked(d, PoolAfter(pool, n), WordsAfter(pool, word, n), live)
                   /\ On(c, pool) \subseteq On(d, PoolAfter(pool, n))
<1>1. PoolInv(pool) /\ word \in [Slot -> Nat] /\ OffChain(pool, live)
  BY DEF Inv
<1>2. pool.bump \in Nat
  BY <1>1 DEF PoolInv, Pool
<1>3. PoolInv(PoolAfter(pool, n)) /\ pool.bump <= PoolAfter(pool, n).bump
  BY <1>1, Grown
<1>4. PoolAfter(pool, n).bump \in Nat
  BY <1>3 DEF PoolInv, Pool
<1>5. OffChain(PoolAfter(pool, n), live)
  <2> SUFFICES ASSUME NEW s \in live PROVE s \in Slot /\ s < PoolAfter(pool, n).bump
    BY DEF OffChain
  <2>1. s \in Slot /\ s < pool.bump
    BY <1>1 DEF OffChain
  <2>2. s \in Nat
    BY <2>1, SlotProperties
  <2> QED
    BY <1>2, <1>3, <1>4, <2>1, <2>2
<1>6. \A s \in live : WordsAfter(pool, word, n)[s] = word[s]
  BY <1>1, WordsGrown DEF OffChain
<1> QED
  BY <1>1, <1>3, <1>5, <1>6, WordsGrown, GrownChain

LEMMA HeapSame ==
  ASSUME HeapInv, UNCHANGED <<heapBump, blocks>>
  PROVE  HeapInv'
BY DEF HeapInv, InHeap, Apart

LEMMA InitInv == Init => Inv /\ Heap
<1> SUFFICES ASSUME Init PROVE Inv /\ Heap
  OBVIOUS
<1>1. PoolInv(EmptyPool)
  <2>1. BlockAddr = BlockAddr + 8 * 0 /\ 0 \in Nat
    BY Constants
  <2> QED
    BY <2>1, Constants DEF PoolInv, Pool, EmptyPool, Nil
<1>2. Zeroed \in [Slot -> Nat]
  BY DEF Zeroed
<1>3. Linked([k \in 0 .. 0 |-> Nil], EmptyPool, Zeroed, {})
  BY DEF Linked, EmptyPool
<1>4. OffChain(EmptyPool, {})
  BY DEF OffChain
<1>5. PoolInv(pool)
  BY <1>1, Grown, Constants DEF Init
<1>6. word \in [Slot -> Nat]
  BY <1>1, <1>2, WordsGrown, Constants DEF Init
<1>7. \E d : Linked(d, pool, word, {})
  BY <1>1, <1>2, <1>3, <1>4, GrownChain, Constants DEF Init
<1>8. HeapInv /\ heapBump \in Nat
  BY Constants DEF Init, HeapInv
<1> QED
  BY <1>5, <1>6, <1>7, <1>8 DEF Init, Inv, Heap, OffChain, HandleInv

LEMMA MoreMastersKeeps ==
  ASSUME Inv, NEW n \in Masters, MoreMasters(n)
  PROVE  Inv' /\ HeapKept /\ Conserved
<1> DEFINE m == IF n = 0 THEN Grow ELSE n
<1>1. m \in Nat
  BY ZoneAssumption
<1>2. /\ pool' = PoolAfter(pool, m) /\ word' = WordsAfter(pool, word, m)
      /\ UNCHANGED <<heapBump, blocks, live>>
  BY DEF MoreMasters
<1> HIDE DEF m
<1>3. PICK c : Linked(c, pool, word, live)
  BY DEF Inv
<1>4. /\ PoolInv(pool') /\ word' \in [Slot -> Nat] /\ OffChain(pool', live)
      /\ \A s \in live : word'[s] = word[s]
      /\ \E d : Linked(d, pool', word', live) /\ On(c, pool) \subseteq On(d, pool')
  BY <1>1, <1>2, <1>3, GrownKeeps
<1>5. PICK d : Linked(d, pool', word', live) /\ On(c, pool) \subseteq On(d, pool')
  BY <1>4
<1>6. HandleInv(word, live, blocks) => HandleInv(word', live', blocks')
  BY <1>2, <1>4 DEF HandleInv
<1>7. HeapKept
  BY <1>2, <1>6, HeapSame DEF Heap, HeapKept
<1>8. Conserved
  BY <1>2, <1>3, <1>4, <1>5, ConservedBy
<1> QED
  BY <1>2, <1>4, <1>5, <1>7, <1>8 DEF Inv

\* A step that touches neither the pool nor the handles.
LEMMA PoolSame ==
  ASSUME Inv, UNCHANGED <<pool, word, live>>
  PROVE  /\ PoolInv(pool') /\ word' \in [Slot -> Nat] /\ OffChain(pool', live')
         /\ \E c : Linked(c, pool', word', live')
         /\ Conserved
BY DEF Inv, Conserved, Chain, ChainAt

LEMMA NewPtrKeeps ==
  ASSUME Inv, NEW size \in Request, NewPtr(size)
  PROVE  Inv' /\ HeapKept /\ Conserved
<1>1. UNCHANGED <<pool, word, live>>
  BY DEF NewPtr
<1>2. heapBump' \in Nat /\ HeapKept
  <2>1. CASE Fits(size)
    <3>1. Carve(size)
      BY <2>1 DEF NewPtr
    <3>2. HeapInv /\ Modest => HeapInv' /\ blocks \subseteq blocks'
      BY <2>1, <3>1, Carved
    <3>3. heapBump' \in Nat
      BY <3>1, BumpStaysWord DEF Inv
    <3> QED
      BY <1>1, <3>2, <3>3 DEF HeapKept, Heap, HandleInv
  <2>2. CASE ~Fits(size)
    <3>1. UNCHANGED <<heapBump, blocks>>
      BY <2>2 DEF NewPtr
    <3> QED
      BY <1>1, <3>1, HeapSame DEF Inv, HeapKept, Heap, HandleInv
  <2> QED
    BY <2>1, <2>2
<1> QED
  BY <1>1, <1>2, PoolSame DEF Inv

LEMMA RefilledKeeps ==
  ASSUME Inv, NEW c, Linked(c, pool, word, live)
  PROVE  /\ PoolInv(Refilled) /\ RefilledWords \in [Slot -> Nat] /\ OffChain(Refilled, live)
         /\ \A s \in live : RefilledWords[s] = word[s]
         /\ \E d : /\ Linked(d, Refilled, RefilledWords, live)
                   /\ On(c, pool) \subseteq On(d, Refilled)
<1>1. CASE pool.hfree = Nil
  BY <1>1, GrownKeeps, Constants DEF Refilled, RefilledWords
<1>2. CASE pool.hfree # Nil
  BY <1>2 DEF Refilled, RefilledWords, Inv
<1> QED
  BY <1>1, <1>2

LEMMA NewHandleKeeps ==
  ASSUME Inv, NEW size \in Request, NewHandle(size)
  PROVE  Inv' /\ HeapKept /\ (Fits(size) => Conserved)
<1> DEFINE mp == Refilled.hfree
           v == RefilledWords
<1>1. PICK c : Linked(c, pool, word, live)
  BY DEF Inv
<1>2. /\ PoolInv(Refilled) /\ v \in [Slot -> Nat] /\ OffChain(Refilled, live)
      /\ \A s \in live : v[s] = word[s]
  BY <1>1, RefilledKeeps
<1>3. PICK d : Linked(d, Refilled, v, live) /\ On(c, pool) \subseteq On(d, Refilled)
  BY <1>1, RefilledKeeps
<1> HIDE DEF v
<1>4. /\ Heap => HandleInv(v, live, blocks) /\ HeapInv
      /\ heapBump \in Nat
  BY <1>2 DEF Inv, Heap, HandleInv
<1>5. CASE mp = Nil
  <2>1. pool' = Refilled /\ word' = v /\ UNCHANGED <<heapBump, blocks, live>>
    BY <1>5 DEF NewHandle, v
  <2>2. HeapKept
    BY <1>4, <2>1, HeapSame DEF HeapKept, Heap
  <2>3. Conserved
    BY <1>1, <1>2, <1>3, <2>1, ConservedBy
  <2> QED
    BY <1>2, <1>3, <1>4, <2>1, <2>2, <2>3 DEF Inv
<1>6. CASE mp # Nil
  <2>1. /\ mp \in Slot \ live /\ mp < Refilled.bump
        /\ PoolInv(Popped(Refilled, v)) /\ Popped(Refilled, v).bump = Refilled.bump
        /\ \E e : /\ Linked(e, Popped(Refilled, v), v, live \cup {mp})
                  /\ On(d, Refilled) \subseteq On(e, Popped(Refilled, v)) \cup {mp}
    BY <1>2, <1>3, <1>6, PoppedChain
  <2>2. PICK e : /\ Linked(e, Popped(Refilled, v), v, live \cup {mp})
                 /\ On(d, Refilled) \subseteq On(e, Popped(Refilled, v)) \cup {mp}
    BY <2>1
  <2>3. pool' = Popped(Refilled, v)
    BY <1>6 DEF NewHandle, Popped, v
  <2>4. OffChain(pool', live \cup {mp})
    BY <1>2, <2>1, <2>3 DEF OffChain
  <2>5. CASE Fits(size)
    <3>1. Carve(size) /\ word' = [v EXCEPT ![mp] = Data] /\ live' = live \cup {mp}
      BY <1>6, <2>5 DEF NewHandle, v
    <3>2. Data \in Nat /\ heapBump' \in Nat
      BY <1>4, <3>1, BumpStaysWord
    <3>3. word' \in [Slot -> Nat] /\ word'[mp] = Data /\ \A s \in Slot : s # mp => word'[s] = v[s]
      BY <1>2, <2>1, <3>1, <3>2
    <3>4. HeapKept
      <4> SUFFICES ASSUME Modest, Heap PROVE Heap'
        BY DEF HeapKept
      <4>1. /\ HeapInv' /\ blocks \subseteq blocks'
            /\ \E b \in blocks' : b.data = Data
            /\ \A b \in blocks : b.data # Data
        BY <1>4, <2>5, <3>1, Carved
      <4>2. \A h \in live : word'[h] = v[h] /\ \E b \in blocks : b.data = word'[h]
        BY <1>2, <1>4, <2>1, <3>3 DEF OffChain, HandleInv
      <4>3. \A h \in live : word'[h] # Data
        BY <4>1, <4>2
      <4>4. \A h \in live' : \E b \in blocks' : b.data = word'[h]
        BY <3>1, <3>3, <4>1, <4>2
      <4>5. \A h, g \in live' : word'[h] = word'[g] => h = g
        BY <1>4, <3>1, <3>3, <4>2, <4>3 DEF HandleInv
      <4> QED
        BY <4>1, <4>4, <4>5 DEF Heap, HandleInv
    <3>5. Linked(e, pool', word', live')
      <4>1. \A s \in Slot \ (live \cup {mp}) : word'[s] = v[s]
        BY <3>3
      <4>2. Linked(e, pool', v, live \cup {mp})
        BY <2>2, <2>3
      <4>3. Linked(e, pool', word', live \cup {mp})
        BY <4>1, <4>2, LinkedElsewhere
      <4> QED
        BY <3>1, <4>3
    <3>6. Conserved
      <4>1. On(c, pool) \cup live \subseteq On(e, pool') \cup live'
        BY <1>3, <2>2, <2>3, <3>1
      <4> QED
        BY <1>1, <2>1, <2>3, <3>5, <4>1, ConservedBy
    <3> QED
      BY <2>1, <2>3, <2>4, <3>1, <3>2, <3>3, <3>4, <3>5, <3>6 DEF Inv
  <2>6. CASE ~Fits(size)
    <3>1. word' = v /\ UNCHANGED <<heapBump, blocks, live>>
      BY <1>6, <2>6 DEF NewHandle, v
    <3>2. Linked(e, pool', word', live')
      BY <2>2, <2>3, <3>1, LinkedElsewhere
    <3>3. OffChain(pool', live')
      BY <2>4, <3>1 DEF OffChain
    <3>4. HeapKept
      BY <1>4, <3>1, HeapSame DEF HeapKept, Heap
    <3> QED
      BY <1>2, <1>4, <2>1, <2>3, <2>6, <3>1, <3>2, <3>3, <3>4 DEF Inv
  <2> QED
    BY <2>5, <2>6
<1> QED
  BY <1>5, <1>6

LEMMA DisposeHandleKeeps ==
  ASSUME Inv, NEW h \in live, DisposeHandle(h)
  PROVE  Inv' /\ HeapKept /\ Conserved
<1>1. PICK c : Linked(c, pool, word, live)
  BY DEF Inv
<1>2. /\ word' = [word EXCEPT ![h] = pool.hfree + 1] /\ pool' = Pushed(pool, h)
      /\ live' = live \ {h} /\ UNCHANGED <<heapBump, blocks>>
  BY DEF DisposeHandle, Pushed
<1>3. PoolInv(pool) /\ word \in [Slot -> Nat] /\ OffChain(pool, live)
  BY DEF Inv
<1>4. /\ PoolInv(pool') /\ pool'.bump = pool.bump
      /\ \E d : Linked(d, pool', word', live') /\ On(c, pool) \cup {h} \subseteq On(d, pool')
  BY <1>1, <1>2, <1>3, PushedChain
<1>5. PICK d : Linked(d, pool', word', live') /\ On(c, pool) \cup {h} \subseteq On(d, pool')
  BY <1>4
<1>6. pool.hfree + 1 \in Nat
  BY <1>3 DEF PoolInv, Pool
<1>7. word' \in [Slot -> Nat]
  BY <1>2, <1>3, <1>6
<1>8. HandleInv(word, live, blocks) => HandleInv(word', live', blocks')
  <2>1. \A s \in live' : s \in live /\ word'[s] = word[s]
    BY <1>2, <1>3 DEF OffChain
  <2> QED
    BY <1>2, <2>1 DEF HandleInv
<1>9. OffChain(pool', live')
  BY <1>2, <1>3, <1>4 DEF OffChain
<1>10. HeapKept
  BY <1>2, <1>8, HeapSame DEF HeapKept, Heap
<1>11. Conserved
  <2>1. On(c, pool) \cup live \subseteq On(d, pool') \cup live'
    BY <1>2, <1>5
  <2> QED
    BY <1>1, <1>4, <1>5, <2>1, ConservedBy
<1> QED
  BY <1>2, <1>4, <1>5, <1>7, <1>9, <1>10, <1>11 DEF Inv

LEMMA NothingKeeps ==
  ASSUME Inv, UNCHANGED <<pool, word, heapBump, blocks, live>>
  PROVE  Inv' /\ HeapKept /\ Conserved
<1>1. HeapKept
  BY HeapSame DEF HeapKept, Heap
<1> QED
  BY <1>1, PoolSame DEF Inv

Lost == \E size \in Request : ~Fits(size) /\ NewHandle(size)

LEMMA NextKeeps ==
  ASSUME Inv, [Next]_vars
  PROVE  Inv' /\ HeapKept /\ (Lost \/ Conserved)
<1>1. ASSUME NEW n \in Masters, MoreMasters(n) PROVE Inv' /\ HeapKept /\ Conserved
  BY <1>1, MoreMastersKeeps
<1>2. ASSUME NEW size \in Request, NewPtr(size) PROVE Inv' /\ HeapKept /\ Conserved
  BY <1>2, NewPtrKeeps
<1>3. ASSUME NEW size \in Request, NewHandle(size) PROVE Inv' /\ HeapKept /\ (Lost \/ Conserved)
  BY <1>3, NewHandleKeeps DEF Lost
<1>4. ASSUME NEW h \in live, DisposeHandle(h) PROVE Inv' /\ HeapKept /\ Conserved
  BY <1>4, DisposeHandleKeeps
<1>5. ASSUME NEW h \in live, GetHandleSize(h) PROVE Inv' /\ HeapKept /\ Conserved
  BY <1>5, NothingKeeps DEF GetHandleSize
<1>6. CASE CompactMem
  BY <1>6, NothingKeeps DEF CompactMem
<1>7. CASE UNCHANGED vars
  BY <1>7, NothingKeeps DEF vars
<1> QED
  BY <1>1, <1>2, <1>3, <1>4, <1>5, <1>6, <1>7 DEF Next

-----------------------------------------------------------------------------
LEMMA ChainSoundNow ==
  ASSUME Inv
  PROVE  FreeChainIsSound /\ \A s \in Chain : word[s] % 2 = 1
<1>1. PICK c : Linked(c, pool, word, live)
  BY DEF Inv
<1>2. Chain = On(c, pool) /\ ChainAt[pool.free] = Nil /\ Cardinality(Chain) = pool.free
  BY <1>1, ChainNow
<1>3. \A s \in On(c, pool) : s \in Slot \ live /\ s < pool.bump /\ word[s] % 2 = 1
  <2> SUFFICES ASSUME NEW k \in 0 .. pool.free - 1
               PROVE  c[k] \in Slot \ live /\ c[k] < pool.bump /\ word[c[k]] % 2 = 1
    BY DEF On
  <2>1. pool.free \in Nat
    BY DEF Inv, PoolInv, Pool
  <2>2. k + 1 \in 0 .. pool.free
    BY <2>1
  <2>3. c[k + 1] \in Nat /\ c[k + 1] % 2 = 0
    BY <1>1, <2>2, LinkedValues DEF Inv
  <2>4. c[k] \in Slot \ live /\ c[k] < pool.bump /\ word[c[k]] = c[k + 1] + 1
    BY <1>1 DEF Linked
  <2> QED
    BY <2>3, <2>4
<1> QED
  BY <1>2, <1>3 DEF FreeChainIsSound, Issued

LEMMA HeapSoundNow ==
  ASSUME Inv, Heap
  PROVE  HeapIsSound
<1>1. \A b \in blocks : /\ b.data \in Nat /\ b.size \in Nat /\ b.data % 4 = 0
                        /\ HeapAddr + 4 <= b.data /\ b.data + b.size + 4 <= heapBump
  BY DEF Heap, HeapInv, InHeap
<1>2. BlocksApart
  <2>1. \A b \in blocks : HeapAddr <= b.data - 4
    BY <1>1, Constants
  <2>2. ASSUME NEW b \in blocks, NEW e \in blocks, b # e
        PROVE  b.data + b.size + 4 <= e.data - 4 \/ e.data + e.size + 4 <= b.data - 4
    <3>1. Apart(b, e)
      BY <2>2 DEF Heap, HeapInv
    <3> QED
      BY <1>1, <3>1 DEF Apart
  <2>3. heapBump <= HeapEnd
    BY DEF Heap, HeapInv
  <2> QED
    BY <1>1, <2>1, <2>2, <2>3 DEF BlocksApart
<1>3. HandlesOwnTheirBlock
  <2>1. \A b \in blocks : b.data % 2 = 0
    BY <1>1
  <2>2. \A h \in live : \E b \in blocks : b.data = word[h]
    BY DEF Heap, HandleInv
  <2>3. \A h, g \in live : word[h] = word[g] => h = g
    BY DEF Heap, HandleInv
  <2> QED
    BY <2>1, <2>2, <2>3, ChainSoundNow DEF HandlesOwnTheirBlock
<1> QED
  BY <1>2, <1>3, ChainSoundNow DEF HeapIsSound

\* The chain is one of distinct slots, each tagged, and none of them a handle
\* the guest holds; what the links say is what the function c says.
THEOREM InvIsInvariant == Spec => []Inv
<1>1. Inv /\ [Next]_vars => Inv'
  BY NextKeeps
<1> QED
  BY <1>1, InitInv, PTL DEF Spec

\* Whatever sizes are asked for, the chain of free master pointers is as long
\* as the count says, has no slot twice and none that the guest holds
\* (NatMemAddFree, NatMemPopFree, the DisposeHandle arm of NatMemDispatchStub).
THEOREM ChainStaysSound == Spec => []FreeChainIsSound
BY InvIsInvariant, ChainSoundNow, PTL

\* The chain, the blocks and the handles are sound, in whatever order NewPtr,
\* NewHandle, DisposeHandle and MoreMasters are called, as long as no request
\* wraps (NatMemNewBlock, NatMemNewHandle, NatMemDispatchStub).
THEOREM HeapStaysSound ==
  ASSUME Modest PROVE Spec => []HeapIsSound
<1>1. Inv /\ Heap /\ [Next]_vars => Heap'
  BY NextKeeps DEF HeapKept
<1>2. Inv /\ Heap => HeapIsSound
  BY HeapSoundNow
<1> QED
  BY <1>1, <1>2, InvIsInvariant, InitInv, PTL DEF Spec

\* No call loses a slot of the pool but a NewHandle whose block does not fit
\* (NatMemNewHandle pops the slot before it asks for the block).
THEOREM NoSlotIsLost == Spec => SlotsAreConserved
<1>1. Inv /\ [Next]_vars =>
        [\/ \E size \in Request : ~Fits(size) /\ NewHandle(size)
         \/ Chain \cup live \subseteq (Chain \cup live)']_vars
  BY NextKeeps DEF Lost, Conserved
<1> QED
  BY <1>1, InvIsInvariant, PTL DEF Spec, SlotsAreConserved
=============================================================================
