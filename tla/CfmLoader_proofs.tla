-------------------------- MODULE CfmLoader_proofs --------------------------
(***************************************************************************)
(* What the loader of the System's fragments promises, for every fork,     *)
(* every number of exports and stubs there is room for, and every pattern  *)
(* of fragments that fail in either pass.                                  *)
(***************************************************************************)
EXTENDS CfmLoader, FiniteSetTheorems, SequenceTheorems, WellFoundedInduction, TLAPS

(***************************************************************************)
(* Induction over the natural numbers, for a set, and loops.               *)
(***************************************************************************)
LEMMA Least ==
  ASSUME NEW S, S \subseteq Nat, S # {}
  PROVE  \E n \in S : \A m \in S : n <= m
<1> DEFINE R == OpToRel(<, Nat)
<1>1. IsWellFoundedOn(R, Nat)
  BY NatLessThanWellFounded
<1>2. \A m, n \in Nat : m < n => <<m, n>> \in R
  BY DEF OpToRel
<1> HIDE DEF R
<1>3. PICK n \in S : \A m \in S : <<m, n>> \notin R
  BY <1>1, WFMin
<1>4. \A m \in S : ~(m < n)
  BY <1>2, <1>3
<1> QED
  BY <1>4

LEMMA Induction ==
  ASSUME NEW T, 0 \in T, \A n \in Nat : n \in T => n + 1 \in T
  PROVE  Nat \subseteq T
<1>1. SUFFICES ASSUME Nat \ T # {} PROVE FALSE
  OBVIOUS
<1>2. PICK n \in Nat \ T : \A m \in Nat \ T : n <= m
  BY <1>1, Least
<1>3. n # 0 /\ n - 1 \in Nat
  BY <1>2
<1> QED
  BY <1>2, <1>3

\* f is the run of a loop of n turns, from a on.
IsLoop(f, S, a, turn, n) ==
  /\ f \in [0 .. n -> S]
  /\ f[0] = a
  /\ \A k \in 1 .. n : f[k] = turn[<<f[k - 1], k>>]

\* A loop that is given by its step has a result after each turn.
LEMMA LoopExists ==
  ASSUME NEW S, NEW a \in S, NEW turn \in [S \X Nat -> S], NEW n \in Nat
  PROVE  \E f : IsLoop(f, S, a, turn, n)
<1> DEFINE Turns(m) == \E f \in [0 .. m -> S] :
             /\ f[0] = a
             /\ \A k \in 1 .. m : f[k] = turn[<<f[k - 1], k>>]
           T == {m \in Nat : Turns(m)}
<1>1. Turns(0)
  <2> DEFINE f == [k \in 0 .. 0 |-> a]
  <2>1. f \in [0 .. 0 -> S] /\ f[0] = a /\ \A k \in 1 .. 0 : f[k] = turn[<<f[k - 1], k>>]
    OBVIOUS
  <2> QED
    BY <2>1
<1>2. ASSUME NEW m \in Nat, Turns(m)
      PROVE  Turns(m + 1)
  <2>1. PICK f \in [0 .. m -> S] :
           /\ f[0] = a
           /\ \A k \in 1 .. m : f[k] = turn[<<f[k - 1], k>>]
    BY <1>2
  <2> DEFINE g == [k \in 0 .. m + 1 |-> IF k <= m THEN f[k] ELSE turn[<<f[m], k>>]]
  <2>2. m \in 0 .. m /\ m + 1 \in Nat
    OBVIOUS
  <2>3. f[m] \in S /\ turn[<<f[m], m + 1>>] \in S
    BY <2>1, <2>2
  <2>4. \A k \in 0 .. m + 1 : k \in 0 .. m \/ k = m + 1
    OBVIOUS
  <2>5. \A k \in 0 .. m : g[k] = f[k]
    BY <2>2
  <2>6. g[m + 1] = turn[<<f[m], m + 1>>]
    BY <2>2
  <2>7. g \in [0 .. m + 1 -> S]
    BY <2>1, <2>3, <2>4
  <2>8. ASSUME NEW k \in 1 .. m + 1
        PROVE  g[k] = turn[<<g[k - 1], k>>]
    <3>1. CASE k \in 1 .. m
      <4>1. k \in 0 .. m /\ k - 1 \in 0 .. m
        BY <3>1
      <4> QED
        BY <2>1, <2>5, <3>1, <4>1
    <3>2. CASE k = m + 1
      <4>1. k - 1 = m
        BY <3>2
      <4> QED
        BY <2>2, <2>5, <2>6, <3>2, <4>1
    <3> QED
      BY <3>1, <3>2
  <2>9. g[0] = a
    BY <2>1, <2>5
  <2> QED
    BY <2>7, <2>8, <2>9
<1> HIDE DEF Turns
<1>3. 0 \in T /\ \A m \in Nat : m \in T => m + 1 \in T
  BY <1>1, <1>2
<1>4. Nat \subseteq T
  <2> HIDE DEF T
  <2> QED
    BY <1>3, Induction
<1>5. Turns(n)
  BY <1>4
<1> QED
  BY <1>5 DEF Turns, IsLoop

-----------------------------------------------------------------------------
(***************************************************************************)
(* NatCfmPlace.                                                            *)
(***************************************************************************)
LEMMA AlignUpBounds ==
  ASSUME NEW at \in Nat, NEW align \in Nat \ {0}
  PROVE  AlignUp(at, align) \in Nat /\ at <= AlignUp(at, align)
<1> DEFINE q == (at + align - 1) \div align
<1>1. q \in Nat /\ at + align - 1 < (q + 1) * align
  OBVIOUS
<1> HIDE DEF q
<1>2. (q + 1) * align = q * align + align /\ q * align \in Nat
  BY <1>1
<1>3. AlignUp(at, align) = q * align
  BY DEF AlignUp, q
<1> QED
  BY <1>1, <1>2, <1>3

Placing == [code : Nat, data : Nat, bases : Seq(Nat)]

LEMMA FragmentParts ==
  ASSUME NEW f \in Fragment
  PROVE  /\ f.base \in Nat /\ Len(f.sections) \in Nat \ {0}
         /\ DOMAIN f.sections = 1 .. Len(f.sections)
         /\ \A n \in 1 .. Len(f.sections) :
              /\ f.sections[n].kind \in {"code", "data", "loader"}
              /\ f.sections[n].at \in Nat /\ f.sections[n].length \in Nat
              /\ f.sections[n].align \in Nat \ {0}
         /\ f.exports \in Seq(ExportedSymbol) /\ f.imports \in Seq(Name)
<1>1. f.sections \in Seq(SectionHeader) /\ f.sections # <<>>
  BY DEF Fragment
<1>2. Len(f.sections) \in Nat /\ DOMAIN f.sections = 1 .. Len(f.sections)
  BY <1>1, LenProperties
<1>3. Len(f.sections) # 0
  BY <1>1, EmptySeq
<1>4. \A n \in 1 .. Len(f.sections) : f.sections[n] \in SectionHeader
  BY <1>1, <1>2, ElementOfSeq
<1> QED
  BY <1>2, <1>3, <1>4 DEF Fragment, SectionHeader

\* One turn of the loop: what it leaves alone, and where the section goes.
LEMMA PlaceSectionDoes ==
  ASSUME NEW f \in Fragment, NEW t \in Placing, NEW n \in 1 .. Len(f.sections)
  PROVE  LET s == f.sections[n]
             u == PlaceSection(f, t, s)
         IN  /\ u \in Placing
             /\ \E b \in Nat :
                  /\ u.bases = Append(t.bases, b)
                  /\ \/ s.kind = "code" /\ u.data = t.data /\ u.code = b + s.length
                        /\ t.code <= b /\ (t.code = 0 => f.base <= b)
                     \/ s.kind = "data" /\ u.code = t.code /\ u.data = b + s.length /\ t.data <= b
                     \/ s.kind = "loader" /\ u.code = t.code /\ u.data = t.data
<1> DEFINE s == f.sections[n]
           code == AlignUp(IF t.code = 0 THEN f.base + s.at ELSE t.code, s.align)
           data == AlignUp(t.data, s.align)
           u == PlaceSection(f, t, s)
<1>1. /\ f.base \in Nat /\ s.kind \in {"code", "data", "loader"}
      /\ s.at \in Nat /\ s.length \in Nat /\ s.align \in Nat \ {0}
  BY FragmentParts
<1>2. t.code \in Nat /\ t.data \in Nat /\ t.bases \in Seq(Nat)
  BY DEF Placing
<1>3. t = [code |-> t.code, data |-> t.data, bases |-> t.bases]
  BY DEF Placing
<1> HIDE DEF s
<1>4. code \in Nat /\ t.code <= code /\ (t.code = 0 => f.base <= code)
  <2> DEFINE from == IF t.code = 0 THEN f.base + s.at ELSE t.code
  <2>1. from \in Nat /\ t.code <= from /\ (t.code = 0 => f.base <= from)
    BY <1>1, <1>2
  <2> HIDE DEF from
  <2>2. AlignUp(from, s.align) \in Nat /\ from <= AlignUp(from, s.align)
    BY <1>1, <2>1, AlignUpBounds
  <2>3. code = AlignUp(from, s.align)
    BY DEF from
  <2> HIDE DEF code
  <2> QED
    BY <1>1, <1>2, <2>1, <2>2, <2>3
<1>5. data \in Nat /\ t.data <= data
  BY <1>1, <1>2, AlignUpBounds
<1>6. u = CASE s.kind = "code" ->
                 [t EXCEPT !.code = code + s.length, !.bases = Append(@, code)]
            [] s.kind = "data" ->
                 [t EXCEPT !.data = data + s.length, !.bases = Append(@, data)]
            [] s.kind = "loader" -> [t EXCEPT !.bases = Append(@, 0)]
  BY DEF PlaceSection
<1> HIDE DEF code, data, u
<1>7. CASE s.kind = "code"
  <2>1. u = [code |-> code + s.length, data |-> t.data, bases |-> Append(t.bases, code)]
    BY <1>3, <1>6, <1>7
  <2>2. Append(t.bases, code) \in Seq(Nat) /\ code + s.length \in Nat
    BY <1>1, <1>2, <1>4, AppendProperties
  <2> QED
    BY <1>2, <1>4, <1>7, <2>1, <2>2 DEF Placing, u, s
<1>8. CASE s.kind = "data"
  <2>1. u = [code |-> t.code, data |-> data + s.length, bases |-> Append(t.bases, data)]
    BY <1>3, <1>6, <1>8
  <2>2. Append(t.bases, data) \in Seq(Nat) /\ data + s.length \in Nat
    BY <1>1, <1>2, <1>5, AppendProperties
  <2> QED
    BY <1>2, <1>5, <1>8, <2>1, <2>2 DEF Placing, u, s
<1>9. CASE s.kind = "loader"
  <2>1. u = [code |-> t.code, data |-> t.data, bases |-> Append(t.bases, 0)]
    BY <1>3, <1>6, <1>9
  <2>2. Append(t.bases, 0) \in Seq(Nat)
    BY <1>2, AppendProperties
  <2> QED
    BY <1>2, <1>9, <2>1, <2>2 DEF Placing, u, s
<1> QED
  BY <1>1, <1>7, <1>8, <1>9

\* t is the loop over the sections of f.
IsPlacing(t, f, from) ==
  /\ t \in [0 .. Len(f.sections) -> Placing]
  /\ t[0] = [code |-> 0, data |-> from, bases |-> <<>>]
  /\ \A n \in 1 .. Len(f.sections) : t[n] = PlaceSection(f, t[n - 1], f.sections[n])
  /\ Bases(f, from) = t[Len(f.sections)]

LEMMA PlacingExists ==
  ASSUME NEW f \in Fragment, NEW from \in Nat
  PROVE  \E t : IsPlacing(t, f, from)
<1> DEFINE N == Len(f.sections)
           a == [code |-> 0, data |-> from, bases |-> <<>>]
           Turn(t, k) == PlaceSection(f, t, f.sections[k])
           turn == [p \in Placing \X Nat |-> IF p[2] \in 1 .. N THEN Turn(p[1], p[2]) ELSE p[1]]
           Body(g) == [n \in 0 .. N |-> IF n = 0 THEN a ELSE Turn(g[n - 1], n)]
           after == CHOOSE g : g = Body(g)
<1>1. N \in Nat /\ a \in Placing
  BY FragmentParts, EmptySeq DEF Placing
<1>2. \A t \in Placing, k \in 1 .. N : Turn(t, k) \in Placing
  BY PlaceSectionDoes
<1> HIDE DEF Turn, N, a
<1>3. turn \in [Placing \X Nat -> Placing]
  BY <1>2
<1>4. PICK g : IsLoop(g, Placing, a, turn, N)
  <2> HIDE DEF turn
  <2> QED
    BY <1>1, <1>3, LoopExists
<1>5. g \in [0 .. N -> Placing] /\ g[0] = a
  BY <1>4 DEF IsLoop
<1>6. \A k \in 1 .. N : g[k] = Turn(g[k - 1], k)
  <2> TAKE k \in 1 .. N
  <2>1. k - 1 \in 0 .. N /\ k \in Nat
    BY <1>1
  <2>2. g[k - 1] \in Placing /\ g[k] = turn[<<g[k - 1], k>>]
    BY <1>4, <1>5, <2>1 DEF IsLoop
  <2> QED
    BY <2>1, <2>2
<1>7. g = Body(g)
  <2>1. \A k \in 0 .. N : g[k] = IF k = 0 THEN a ELSE Turn(g[k - 1], k)
    BY <1>1, <1>5, <1>6
  <2> QED
    BY <1>5, <2>1
<1>8. after = Body(after)
  <2> HIDE DEF Body
  <2> QED
    BY <1>7
<1>9. Bases(f, from) = after[N]
  BY DEF Bases, N, a, Turn
<1> HIDE DEF after
<1>10. /\ DOMAIN after = 0 .. N /\ after[0] = a
       /\ \A k \in 1 .. N : after[k] = Turn(after[k - 1], k)
  <2>1. 0 \in 0 .. N /\ \A k \in 1 .. N : k \in 0 .. N /\ k # 0
    BY <1>1
  <2> QED
    BY <1>8, <2>1
<1> DEFINE T == {k \in Nat : k <= N => after[k] \in Placing}
<1>11. 0 \in T /\ \A k \in Nat : k \in T => k + 1 \in T
  <2>1. 0 \in T
    BY <1>1, <1>10
  <2>2. ASSUME NEW k \in Nat, k \in T, k + 1 <= N
        PROVE  after[k + 1] \in Placing
    <3>1. k + 1 \in 1 .. N /\ k <= N /\ (k + 1) - 1 = k
      BY <1>1, <2>2
    <3>2. after[k] \in Placing /\ after[k + 1] = Turn(after[k], k + 1)
      BY <1>10, <2>2, <3>1
    <3> QED
      BY <1>2, <3>1, <3>2
  <2> QED
    BY <2>1, <2>2
<1>12. \A k \in 0 .. N : after[k] \in Placing
  <2>1. Nat \subseteq T
    <3> HIDE DEF T
    <3> QED
      BY <1>11, Induction
  <2> QED
    BY <1>1, <2>1
<1>13. after \in [0 .. N -> Placing]
  <2>1. after = [k \in 0 .. N |-> after[k]]
    BY <1>8
  <2> QED
    BY <1>12, <2>1
<1> QED
  BY <1>9, <1>10, <1>13 DEF IsPlacing, N, a, Turn

\* Where the first m sections of f are: code from its container on, data from
\* from on, each kind in the order of the sections and below its cursor.
LaidOut(f, from, t, m) ==
  /\ Len(t.bases) = m
  /\ from <= t.data
  /\ t.code = 0 \/ f.base <= t.code
  /\ \A s \in 1 .. m :
       LET sec == f.sections[s]
           end == t.bases[s] + sec.length
       IN  /\ t.bases[s] \in Nat
           /\ sec.kind = "code" => end <= t.code /\ f.base <= t.bases[s]
           /\ sec.kind = "data" => end <= t.data /\ from <= t.bases[s]
           /\ \A r \in 1 .. s - 1 : f.sections[r].kind = sec.kind /\ sec.kind # "loader" =>
                t.bases[r] + f.sections[r].length <= t.bases[s]

LEMMA LaidOutNext ==
  ASSUME NEW f \in Fragment, NEW from \in Nat, NEW t \in Placing,
         NEW m \in Nat, m + 1 \in 1 .. Len(f.sections), LaidOut(f, from, t, m)
  PROVE  LaidOut(f, from, PlaceSection(f, t, f.sections[m + 1]), m + 1)
<1> DEFINE sec == f.sections[m + 1]
           u == PlaceSection(f, t, sec)
<1>1. u \in Placing
  BY PlaceSectionDoes
<1>2. PICK b \in Nat :
        /\ u.bases = Append(t.bases, b)
        /\ \/ sec.kind = "code" /\ u.data = t.data /\ u.code = b + sec.length
              /\ t.code <= b /\ (t.code = 0 => f.base <= b)
           \/ sec.kind = "data" /\ u.code = t.code /\ u.data = b + sec.length /\ t.data <= b
           \/ sec.kind = "loader" /\ u.code = t.code /\ u.data = t.data
  BY PlaceSectionDoes
<1>3. /\ t.code \in Nat /\ t.data \in Nat /\ t.bases \in Seq(Nat) /\ Len(t.bases) = m
      /\ f.base \in Nat /\ from <= t.data /\ (t.code = 0 \/ f.base <= t.code)
  BY FragmentParts DEF Placing, LaidOut
<1>4. \A s \in 1 .. m + 1 : /\ f.sections[s].length \in Nat
                            /\ f.sections[s].kind \in {"code", "data", "loader"}
  <2>1. \A s \in 1 .. m + 1 : s \in 1 .. Len(f.sections)
    BY FragmentParts
  <2> QED
    BY <2>1, FragmentParts
<1>5. sec.length \in Nat /\ sec.kind \in {"code", "data", "loader"}
  BY <1>4
<1>6. u.code \in Nat /\ u.data \in Nat /\ t.code <= u.code /\ t.data <= u.data
  <2> DEFINE l == sec.length
  <2>1. l \in Nat
    BY <1>5
  <2>2. \/ u.data = t.data /\ u.code = b + l /\ t.code <= b
        \/ u.code = t.code /\ u.data = b + l /\ t.data <= b
        \/ u.code = t.code /\ u.data = t.data
    BY <1>2
  <2> HIDE DEF sec, u, l
  <2>3. \A x \in Nat : x <= b => b + l \in Nat /\ x <= b + l
    BY <2>1
  <2>4. \A x \in Nat : x <= x
    OBVIOUS
  <2> QED
    BY <1>3, <2>2, <2>3, <2>4
<1>7. /\ Len(u.bases) = m + 1 /\ u.bases[m + 1] = b
      /\ \A s \in 1 .. m : u.bases[s] = t.bases[s]
  BY <1>2, <1>3, AppendProperties
<1>8. \A s \in 1 .. m :
        LET sc == f.sections[s]
            end == t.bases[s] + sc.length
        IN  /\ t.bases[s] \in Nat
            /\ sc.kind = "code" => end <= t.code /\ f.base <= t.bases[s]
            /\ sc.kind = "data" => end <= t.data /\ from <= t.bases[s]
            /\ \A r \in 1 .. s - 1 : f.sections[r].kind = sc.kind /\ sc.kind # "loader" =>
                 t.bases[r] + f.sections[r].length <= t.bases[s]
  BY DEF LaidOut
<1>9. u.code = 0 \/ f.base <= u.code
  <2> HIDE DEF sec, u
  <2> QED
    BY <1>2, <1>3, <1>5
<1>10. ASSUME NEW s \in 1 .. m
       PROVE  LET sc == f.sections[s]
                  end == u.bases[s] + sc.length
              IN  /\ u.bases[s] \in Nat
                  /\ sc.kind = "code" => end <= u.code /\ f.base <= u.bases[s]
                  /\ sc.kind = "data" => end <= u.data /\ from <= u.bases[s]
                  /\ \A r \in 1 .. s - 1 : f.sections[r].kind = sc.kind /\ sc.kind # "loader" =>
                       u.bases[r] + f.sections[r].length <= u.bases[s]
  <2>1. \A r \in 1 .. s - 1 : r \in 1 .. m
    OBVIOUS
  <2>2. f.sections[s].length \in Nat /\ s \in 1 .. m + 1
    BY <1>4
  <2>3. /\ t.bases[s] \in Nat /\ u.bases[s] = t.bases[s]
        /\ \A r \in 1 .. s - 1 : u.bases[r] = t.bases[r]
    BY <1>7, <1>8, <2>1
  <2> DEFINE end == t.bases[s] + f.sections[s].length
  <2>4. end \in Nat
    BY <2>2, <2>3
  <2>5. /\ f.sections[s].kind = "code" => end <= t.code /\ f.base <= t.bases[s]
        /\ f.sections[s].kind = "data" => end <= t.data /\ from <= t.bases[s]
        /\ \A r \in 1 .. s - 1 : f.sections[r].kind = f.sections[s].kind /\ f.sections[s].kind # "loader" =>
             t.bases[r] + f.sections[r].length <= t.bases[s]
    BY <1>8
  <2>6. u.bases[s] + f.sections[s].length = end
    BY <2>3
  <2> HIDE DEF u, end
  <2>7. /\ f.sections[s].kind = "code" => end <= u.code
        /\ f.sections[s].kind = "data" => end <= u.data
    BY <1>3, <1>6, <2>4, <2>5
  <2>8. \A r \in 1 .. s - 1 : f.sections[r].kind = f.sections[s].kind /\ f.sections[s].kind # "loader" =>
          u.bases[r] + f.sections[r].length <= u.bases[s]
    BY <2>3, <2>5
  <2> QED
    BY <2>3, <2>5, <2>6, <2>7, <2>8
<1>11. /\ u.bases[m + 1] \in Nat
       /\ sec.kind = "code" => u.bases[m + 1] + sec.length <= u.code /\ f.base <= u.bases[m + 1]
       /\ sec.kind = "data" => u.bases[m + 1] + sec.length <= u.data /\ from <= u.bases[m + 1]
       /\ \A r \in 1 .. m : f.sections[r].kind = sec.kind /\ sec.kind # "loader" =>
            u.bases[r] + f.sections[r].length <= u.bases[m + 1]
  <2>1. sec.kind = "code" => f.base <= b
    <3> HIDE DEF sec, u
    <3> QED
      BY <1>2, <1>3
  <2>2. sec.kind = "data" => from <= b
    <3> HIDE DEF sec, u
    <3> QED
      BY <1>2, <1>3
  <2>3. ASSUME NEW r \in 1 .. m, f.sections[r].kind = sec.kind, sec.kind # "loader"
        PROVE  t.bases[r] + f.sections[r].length <= b
    <3>1. f.sections[r].length \in Nat /\ t.bases[r] \in Nat
      BY <1>4, <1>8
    <3>2. \A y, z \in Nat : t.bases[r] + f.sections[r].length <= y /\ y <= z
            => t.bases[r] + f.sections[r].length <= z
      BY <3>1
    <3>3. CASE sec.kind = "code"
      <4>1. t.bases[r] + f.sections[r].length <= t.code /\ t.code <= b
        BY <1>2, <1>8, <2>3, <3>3
      <4> QED
        BY <1>3, <3>2, <4>1
    <3>4. CASE sec.kind = "data"
      <4>1. t.bases[r] + f.sections[r].length <= t.data /\ t.data <= b
        BY <1>2, <1>8, <2>3, <3>4
      <4> QED
        BY <1>3, <3>2, <4>1
    <3> QED
      BY <1>5, <2>3, <3>3, <3>4
  <2>4. sec.kind = "code" => u.code = b + sec.length
    <3> HIDE DEF sec, u
    <3> QED
      BY <1>2
  <2>5. sec.kind = "data" => u.data = b + sec.length
    <3> HIDE DEF sec, u
    <3> QED
      BY <1>2
  <2> HIDE DEF sec, u
  <2> QED
    BY <1>5, <1>6, <1>7, <2>1, <2>2, <2>3, <2>4, <2>5
<1>12. ASSUME NEW s \in 1 .. m + 1
       PROVE  LET sc == f.sections[s]
                  end == u.bases[s] + sc.length
              IN  /\ u.bases[s] \in Nat
                  /\ sc.kind = "code" => end <= u.code /\ f.base <= u.bases[s]
                  /\ sc.kind = "data" => end <= u.data /\ from <= u.bases[s]
                  /\ \A r \in 1 .. s - 1 : f.sections[r].kind = sc.kind /\ sc.kind # "loader" =>
                       u.bases[r] + f.sections[r].length <= u.bases[s]
  <2>1. CASE s \in 1 .. m
    <3> HIDE DEF u
    <3> QED
      BY <1>10, <2>1
  <2>2. CASE s = m + 1
    <3>1. s - 1 = m
      BY <2>2
    <3> HIDE DEF u
    <3> QED
      BY <1>11, <2>2, <3>1
  <2> QED
    BY <2>1, <2>2
<1>13. from <= u.data
  <2> HIDE DEF u
  <2> QED
    BY <1>3, <1>6
<1> HIDE DEF u
<1>14. LaidOut(f, from, u, m + 1)
  BY <1>7, <1>9, <1>12, <1>13 DEF LaidOut
<1> QED
  BY <1>14 DEF u

LEMMA Placement ==
  ASSUME NEW f \in Fragment, NEW from \in Nat
  PROVE  Bases(f, from) \in Placing /\ LaidOut(f, from, Bases(f, from), Len(f.sections))
<1> DEFINE N == Len(f.sections)
<1>1. PICK t : IsPlacing(t, f, from)
  BY PlacingExists
<1>2. N \in Nat /\ f.base \in Nat
  BY FragmentParts
<1> DEFINE T == {m \in Nat : m <= N => LaidOut(f, from, t[m], m)}
<1>3. 0 \in T
  <2>1. t[0].bases = <<>> /\ t[0].data = from /\ t[0].code = 0
    BY <1>1 DEF IsPlacing
  <2>2. Len(t[0].bases) = 0 /\ \A s \in 1 .. 0 : FALSE
    BY <2>1
  <2> QED
    BY <2>1, <2>2 DEF LaidOut
<1>4. ASSUME NEW m \in Nat, m \in T
      PROVE  m + 1 \in T
  <2> SUFFICES ASSUME m + 1 <= N PROVE LaidOut(f, from, t[m + 1], m + 1)
    OBVIOUS
  <2>1. m + 1 \in 1 .. N /\ m <= N /\ m \in 0 .. N /\ (m + 1) - 1 = m
    BY <1>2
  <2>2. t[m] \in Placing /\ t[m + 1] = PlaceSection(f, t[m], f.sections[m + 1])
    BY <1>1, <2>1 DEF IsPlacing
  <2>3. LaidOut(f, from, t[m], m)
    BY <1>4, <2>1
  <2> QED
    BY <2>1, <2>2, <2>3, LaidOutNext
<1>5. N \in T
  <2> HIDE DEF T
  <2> QED
    BY <1>2, <1>3, <1>4, Induction
<1> QED
  BY <1>1, <1>2, <1>5 DEF IsPlacing

-----------------------------------------------------------------------------
(***************************************************************************)
(* Where the fragments are.                                                *)
(***************************************************************************)
\* The code of a container ends before the next container and below the data,
\* wherever its alignment has moved it.
CodeInPlace ==
  \A f \in Forks : \A k \in DOMAIN f : \A from \in Nat :
    /\ Bases(f[k], from).code <= DataBump
    /\ \A j \in DOMAIN f : k < j => Bases(f[k], from).code <= f[j].base

\* Every fragment was placed where the one before had left the cursor.
PlacedFrom(from) ==
  \A k \in Placed :
    LET p == Bases(fork[k], from[k])
    IN  /\ secBase[k] = p.bases
        /\ DataBump <= from[k] /\ p.data <= bump
        /\ \A j \in Placed : j < k => Bases(fork[j], from[j]).data <= from[k]

PassInv ==
  /\ fork \in Forks
  /\ nf \in 0 .. Cardinality(DOMAIN fork)
  /\ pass \in {"enumerate", "collect", "bind", "done"}
  /\ i \in Nat /\ FirstFragment <= i
  /\ bump \in Nat /\ DataBump <= bump

PlaceInv ==
  /\ pass = "enumerate" => Placed = {}
  /\ \A k \in Placed : k \in DOMAIN fork /\ (pass = "collect" => k < i)
  /\ \E from : from \in [Placed -> Nat] /\ PlacedFrom(from)

LEMMA ForkParts ==
  ASSUME PassInv
  PROVE  /\ \A k \in DOMAIN fork : k \in Nat /\ fork[k] \in Fragment
         /\ Cardinality(DOMAIN fork) \in Nat
         /\ \A k \in Nat : k < nf => k \in DOMAIN fork
         /\ nf \in Nat
<1>1. IsFiniteSet(DOMAIN fork) /\ DOMAIN fork = 0 .. Cardinality(DOMAIN fork) - 1
  BY ForkAssumption DEF PassInv
<1>2. Cardinality(DOMAIN fork) \in Nat
  BY <1>1, FS_CardinalityType
<1>3. \A k \in DOMAIN fork : fork[k] \in Fragment
  BY ForkAssumption DEF PassInv
<1> DEFINE n == Cardinality(DOMAIN fork)
<1>4. DOMAIN fork = 0 .. n - 1 /\ n \in Nat /\ nf \in 0 .. n
  BY <1>1, <1>2 DEF PassInv
<1> HIDE DEF n
<1> QED
  BY <1>2, <1>3, <1>4

\* What a fragment that is placed next adds.
LEMMA PlacedNext ==
  ASSUME PassInv, PlaceInv, Collect
  PROVE  PlaceInv' /\ PassInv'
<1>1. pass = "collect" /\ i < nf /\ i' = i + 1 /\ pass' = pass /\ fork' = fork /\ nf' = nf
  BY DEF Collect
<1>2. i \in Nat /\ i \in DOMAIN fork /\ fork[i] \in Fragment
  BY <1>1, ForkParts DEF PassInv
<1> DEFINE p == Bases(fork[i], bump)
<1>3. bump \in Nat /\ DataBump \in Nat /\ DataBump <= bump
  BY ForkAssumption DEF PassInv
<1>4. p \in Placing /\ bump <= p.data
  BY <1>2, <1>3, Placement DEF LaidOut
<1>5. bump' = p.data /\ secBase' = With(secBase, i, p.bases)
  BY DEF Collect
<1> HIDE DEF p
<1>6. PassInv'
  BY <1>1, <1>2, <1>3, <1>4, <1>5 DEF PassInv, Placing, FirstFragment
<1>7. \A k \in Placed : k \in DOMAIN fork /\ k < i /\ k # i /\ k \in Nat
  BY <1>1, <1>2, ForkParts DEF PlaceInv
<1>8. /\ Placed' = Placed \cup {i} /\ secBase'[i] = p.bases
      /\ \A k \in Placed : secBase'[k] = secBase[k]
  BY <1>5, <1>7 DEF Placed, With
<1>9. PICK from : from \in [Placed -> Nat] /\ PlacedFrom(from)
  BY DEF PlaceInv
<1> DEFINE next == [k \in Placed \cup {i} |-> IF k = i THEN bump ELSE from[k]]
<1>10. /\ next \in [Placed' -> Nat] /\ next[i] = bump
       /\ \A k \in Placed : next[k] = from[k] /\ from[k] \in Nat
  BY <1>3, <1>7, <1>8, <1>9
<1> HIDE DEF next
<1>11. ASSUME NEW k \in Placed
       PROVE  /\ secBase'[k] = Bases(fork[k], next[k]).bases
              /\ DataBump <= next[k] /\ Bases(fork[k], next[k]).data <= bump'
              /\ \A j \in Placed' : j < k => Bases(fork[j], next[j]).data <= next[k]
              /\ Bases(fork[k], next[k]).data <= bump
  <2>1. /\ secBase[k] = Bases(fork[k], from[k]).bases
        /\ DataBump <= from[k] /\ Bases(fork[k], from[k]).data <= bump
        /\ \A j \in Placed : j < k => Bases(fork[j], from[j]).data <= from[k]
    BY <1>9 DEF PlacedFrom
  <2>2. Bases(fork[k], from[k]).data \in Nat
    BY <1>7, <1>10, ForkParts, Placement DEF Placing
  <2>3. k < i /\ ~(i < k)
    BY <1>2, <1>7
  <2>4. Bases(fork[k], next[k]).data <= bump'
    BY <1>3, <1>4, <1>5, <1>10, <2>1, <2>2 DEF Placing
  <2> QED
    BY <1>8, <1>10, <2>1, <2>3, <2>4
<1>12. /\ secBase'[i] = Bases(fork[i], next[i]).bases
       /\ DataBump <= next[i] /\ Bases(fork[i], next[i]).data <= bump'
       /\ \A j \in Placed' : j < i => Bases(fork[j], next[j]).data <= next[i]
  <2>1. Bases(fork[i], next[i]) = p
    BY <1>10 DEF p
  <2>2. \A j \in Placed : Bases(fork[j], next[j]).data <= next[i]
    BY <1>10, <1>11
  <2>3. bump' <= bump' /\ ~(i < i)
    BY <1>2, <1>4, <1>5 DEF Placing
  <2> QED
    BY <1>3, <1>5, <1>8, <1>10, <2>1, <2>2, <2>3
<1>13. \E from0 : from0 \in [Placed' -> Nat] /\ PlacedFrom(from0)'
  <2>1. \A k \in Placed' :
          /\ secBase'[k] = Bases(fork[k], next[k]).bases
          /\ DataBump <= next[k] /\ Bases(fork[k], next[k]).data <= bump'
          /\ \A j \in Placed' : j < k => Bases(fork[j], next[j]).data <= next[k]
    <3>1. \A k \in Placed' : k \in Placed \/ k = i
      BY <1>8
    <3> QED
      BY <1>11, <1>12, <3>1
  <2>2. PICK n : n = next
    OBVIOUS
  <2>3. PlacedFrom(n)'
    BY <1>1, <2>1, <2>2 DEF PlacedFrom
  <2> QED
    BY <1>10, <2>2, <2>3
<1>14. \A k \in Placed' : k \in DOMAIN fork' /\ k < i'
  BY <1>1, <1>2, <1>7, <1>8
<1>15. pass' # "enumerate"
  BY <1>1
<1> QED
  BY <1>6, <1>13, <1>14, <1>15 DEF PlaceInv

LEMMA PlacedSame ==
  ASSUME PassInv, PlaceInv, UNCHANGED <<fork, secBase, bump>>,
         nf' \in 0 .. Cardinality(DOMAIN fork),
         pass' \in {"enumerate", "collect", "bind", "done"},
         i' \in Nat, FirstFragment <= i',
         pass' = "enumerate" => pass = "enumerate",
         pass' = "collect" => pass = "enumerate" \/ (pass = "collect" /\ i <= i')
  PROVE  PassInv' /\ PlaceInv'
<1>1. PassInv'
  BY DEF PassInv
<1>2. Placed' = Placed
  BY DEF Placed
<1>3. \A k \in Placed : k \in Nat /\ k \in DOMAIN fork
  BY ForkParts DEF PlaceInv
<1>4. pass' = "collect" => \A k \in Placed : k < i'
  BY <1>3 DEF PassInv, PlaceInv
<1>5. \E from : from \in [Placed' -> Nat] /\ PlacedFrom(from)'
  BY <1>2 DEF PlaceInv, PlacedFrom
<1> QED
  BY <1>1, <1>2, <1>3, <1>4, <1>5 DEF PlaceInv

\* Sections of the same fragment and of two fragments do not meet.
LEMMA OneBelowTheOther ==
  ASSUME PassInv, PlaceInv, CodeInPlace,
         NEW k \in Placed, NEW j \in Placed, NEW s \in DOMAIN fork[k].sections,
         NEW r \in DOMAIN fork[j].sections,
         fork[k].sections[s].kind # "loader", fork[j].sections[r].kind # "loader",
         k < j \/ (k = j /\ s < r)
  PROVE  /\ secBase[k][s] \in Nat /\ secBase[j][r] \in Nat
         /\ \/ secBase[k][s] + fork[k].sections[s].length <= secBase[j][r]
            \/ secBase[j][r] + fork[j].sections[r].length <= secBase[k][s]
<1> DEFINE f == fork[k]
           g == fork[j]
<1>1. PICK from : from \in [Placed -> Nat] /\ PlacedFrom(from)
  BY DEF PlaceInv
<1> DEFINE t == Bases(f, from[k])
           u == Bases(g, from[j])
<1>2. /\ k \in DOMAIN fork /\ j \in DOMAIN fork /\ k \in Nat /\ j \in Nat
      /\ f \in Fragment /\ g \in Fragment
  BY ForkParts DEF PlaceInv
<1>3. from[k] \in Nat /\ from[j] \in Nat /\ DataBump \in Nat
  BY <1>1, ForkAssumption
<1>4. /\ t \in Placing /\ LaidOut(f, from[k], t, Len(f.sections))
      /\ u \in Placing /\ LaidOut(g, from[j], u, Len(g.sections))
  BY <1>2, <1>3, Placement
<1>5. /\ secBase[k] = t.bases /\ DataBump <= from[k]
      /\ secBase[j] = u.bases /\ DataBump <= from[j]
      /\ k < j => t.data <= from[j]
  BY <1>1 DEF PlacedFrom
<1>6. /\ t.code <= DataBump /\ u.code <= DataBump
      /\ k < j => t.code <= g.base
  BY <1>2, <1>3 DEF CodeInPlace, PassInv
<1>7. /\ s \in 1 .. Len(f.sections) /\ r \in 1 .. Len(g.sections)
      /\ f.base \in Nat /\ g.base \in Nat
      /\ f.sections[s].kind \in {"code", "data"} /\ f.sections[s].length \in Nat
      /\ g.sections[r].kind \in {"code", "data"} /\ g.sections[r].length \in Nat
  BY <1>2, FragmentParts
<1>8. t.code \in Nat /\ t.data \in Nat /\ u.code \in Nat /\ u.data \in Nat
  BY <1>4 DEF Placing
<1> DEFINE b == t.bases[s]
           c == u.bases[r]
<1>9. /\ b \in Nat
      /\ f.sections[s].kind = "code" => b + f.sections[s].length <= t.code /\ f.base <= b
      /\ f.sections[s].kind = "data" => b + f.sections[s].length <= t.data /\ from[k] <= b
  BY <1>4, <1>7 DEF LaidOut
<1>10. /\ c \in Nat
       /\ g.sections[r].kind = "code" => c + g.sections[r].length <= u.code /\ g.base <= c
       /\ g.sections[r].kind = "data" => c + g.sections[r].length <= u.data /\ from[j] <= c
  BY <1>4, <1>7 DEF LaidOut
<1> DEFINE l == f.sections[s].length
           m == g.sections[r].length
<1> HIDE DEF f, g, t, u, b, c, l, m
<1>11. b \in Nat /\ c \in Nat /\ l \in Nat /\ m \in Nat
  BY <1>7, <1>9, <1>10 DEF l, m
<1>12. \A a, n, x, y, z \in Nat : a + n <= x /\ x <= y /\ y <= z => a + n <= z
  OBVIOUS
<1>13. from[k] \in Nat /\ from[j] \in Nat /\ DataBump \in Nat /\ f.base \in Nat /\ g.base \in Nat
  BY <1>3, <1>7
<1>14. CASE k < j
  <2>1. \/ b + l <= c
        \/ c + m <= b
    <3>1. CASE f.sections[s].kind = "code" /\ g.sections[r].kind = "code"
      <4>1. b + l <= t.code /\ t.code <= g.base /\ g.base <= c
        BY <1>6, <1>9, <1>10, <1>14, <3>1 DEF l, m
      <4> QED
        BY <1>8, <1>11, <1>12, <1>13, <4>1
    <3>2. CASE f.sections[s].kind = "code" /\ g.sections[r].kind = "data"
      <4>1. /\ b + l <= t.code /\ t.code <= DataBump
            /\ DataBump <= from[j] /\ from[j] <= c
        BY <1>5, <1>6, <1>9, <1>10, <3>2 DEF l, m
      <4> QED
        BY <1>8, <1>11, <1>12, <1>13, <4>1
    <3>3. CASE f.sections[s].kind = "data" /\ g.sections[r].kind = "code"
      <4>1. /\ c + m <= u.code /\ u.code <= DataBump
            /\ DataBump <= from[k] /\ from[k] <= b
        BY <1>5, <1>6, <1>9, <1>10, <3>3 DEF l, m
      <4> QED
        BY <1>8, <1>11, <1>12, <1>13, <4>1
    <3>4. CASE f.sections[s].kind = "data" /\ g.sections[r].kind = "data"
      <4>1. b + l <= t.data /\ t.data <= from[j] /\ from[j] <= c
        BY <1>5, <1>9, <1>10, <1>14, <3>4 DEF l, m
      <4> QED
        BY <1>8, <1>11, <1>12, <1>13, <4>1
    <3> QED
      BY <1>7, <3>1, <3>2, <3>3, <3>4
  <2> QED
    BY <1>5, <1>11, <2>1 DEF f, g, b, c, l, m
<1>15. CASE k = j /\ s < r
  <2>1. s \in 1 .. r - 1 /\ t = u /\ f = g
    BY <1>7, <1>15 DEF f, g, t, u
  <2>2. f.sections[s].kind = g.sections[r].kind => b + l <= c
    BY <1>4, <1>7, <2>1 DEF LaidOut, b, c, l, m
  <2>3. \/ b + l <= c
        \/ c + m <= b
    <3>1. CASE f.sections[s].kind = g.sections[r].kind
      BY <2>2, <3>1
    <3>2. CASE f.sections[s].kind = "code" /\ g.sections[r].kind = "data"
      <4>1. /\ b + l <= t.code /\ t.code <= DataBump
            /\ DataBump <= from[j] /\ from[j] <= c
        BY <1>5, <1>6, <1>9, <1>10, <3>2 DEF l, m
      <4> QED
        BY <1>8, <1>11, <1>12, <1>13, <4>1
    <3>3. CASE f.sections[s].kind = "data" /\ g.sections[r].kind = "code"
      <4>1. /\ c + m <= u.code /\ u.code <= DataBump
            /\ DataBump <= from[k] /\ from[k] <= b
        BY <1>5, <1>6, <1>9, <1>10, <3>3 DEF l, m
      <4> QED
        BY <1>8, <1>11, <1>12, <1>13, <4>1
    <3> QED
      BY <1>7, <3>1, <3>2, <3>3
  <2> QED
    BY <1>5, <1>11, <2>3 DEF f, g, b, c, l, m
<1> QED
  BY <1>14, <1>15

LEMMA ApartNow ==
  ASSUME PassInv, PlaceInv, CodeInPlace
  PROVE  PlacedApart
<1> SUFFICES ASSUME NEW x \in PlacedSections, NEW y \in PlacedSections, x # y
             PROVE  Extent(x) \cap Extent(y) = {}
  BY DEF PlacedApart
<1>1. PICK k \in Placed : \E s \in DOMAIN fork[k].sections :
        x = <<k, s>> /\ fork[k].sections[s].kind # "loader"
  BY DEF PlacedSections
<1>2. PICK s \in DOMAIN fork[k].sections : x = <<k, s>> /\ fork[k].sections[s].kind # "loader"
  BY <1>1
<1>3. PICK j \in Placed : \E r \in DOMAIN fork[j].sections :
        y = <<j, r>> /\ fork[j].sections[r].kind # "loader"
  BY DEF PlacedSections
<1>4. PICK r \in DOMAIN fork[j].sections : y = <<j, r>> /\ fork[j].sections[r].kind # "loader"
  BY <1>3
<1>5. /\ k \in Nat /\ j \in Nat /\ s \in Nat /\ r \in Nat
      /\ fork[k].sections[s].length \in Nat /\ fork[j].sections[r].length \in Nat
  <2>1. \A m \in Placed : m \in Nat /\ fork[m] \in Fragment
    BY ForkParts DEF PlaceInv
  <2>2. \A m \in Placed : \A n \in DOMAIN fork[m].sections :
          n \in Nat /\ fork[m].sections[n].length \in Nat
    <3> TAKE m \in Placed
    <3> TAKE n \in DOMAIN fork[m].sections
    <3>1. fork[m] \in Fragment
      BY <2>1
    <3>2. n \in 1 .. Len(fork[m].sections) /\ Len(fork[m].sections) \in Nat
      BY <3>1, FragmentParts
    <3>3. fork[m].sections[n].length \in Nat
      BY <3>1, <3>2, FragmentParts
    <3> QED
      BY <3>2, <3>3
  <2> QED
    BY <2>1, <2>2
<1>6. (k < j \/ (k = j /\ s < r)) \/ (j < k \/ (j = k /\ r < s))
  BY <1>2, <1>4, <1>5
<1>7. /\ secBase[k][s] \in Nat /\ secBase[j][r] \in Nat
      /\ \/ secBase[k][s] + fork[k].sections[s].length <= secBase[j][r]
         \/ secBase[j][r] + fork[j].sections[r].length <= secBase[k][s]
  <2>1. CASE k < j \/ (k = j /\ s < r)
    BY <1>2, <1>4, <2>1, OneBelowTheOther
  <2>2. CASE j < k \/ (j = k /\ r < s)
    BY <1>2, <1>4, <2>2, OneBelowTheOther
  <2> QED
    BY <1>6, <2>1, <2>2
<1>8. /\ Extent(x) = secBase[k][s] .. secBase[k][s] + fork[k].sections[s].length - 1
      /\ Extent(y) = secBase[j][r] .. secBase[j][r] + fork[j].sections[r].length - 1
  BY <1>2, <1>4 DEF Extent
<1>9. \A b, c, m, n \in Nat : b + m <= c \/ c + n <= b =>
        (b .. b + m - 1) \cap (c .. c + n - 1) = {}
  OBVIOUS
<1> QED
  BY <1>5, <1>7, <1>8, <1>9

LEMMA PlaceStart ==
  ASSUME Init
  PROVE  PassInv /\ PlaceInv
<1>1. /\ fork \in Forks /\ nf = 0 /\ pass = "enumerate" /\ i = 2 /\ bump = DataBump
      /\ Placed = {}
  BY DEF Init, Placed, FirstFragment
<1>2. IsFiniteSet(DOMAIN fork) /\ Cardinality(DOMAIN fork) \in Nat
  BY <1>1, ForkAssumption, FS_CardinalityType
<1>3. DataBump \in Nat
  BY ForkAssumption
<1>4. PassInv
  BY <1>1, <1>2, <1>3 DEF PassInv, FirstFragment
<1>5. \E from : from \in [Placed -> Nat] /\ PlacedFrom(from)
  <2>1. PICK n : n = [k \in {} |-> 0]
    OBVIOUS
  <2>2. n \in [Placed -> Nat] /\ PlacedFrom(n)
    BY <1>1, <2>1 DEF PlacedFrom
  <2> QED
    BY <2>2
<1> QED
  BY <1>1, <1>4, <1>5 DEF PlaceInv

LEMMA PlaceStep ==
  ASSUME PassInv, PlaceInv, [Next]_vars
  PROVE  PassInv' /\ PlaceInv'
<1>1. /\ nf \in 0 .. Cardinality(DOMAIN fork) /\ i \in Nat /\ FirstFragment <= i
      /\ pass \in {"enumerate", "collect", "bind", "done"}
      /\ i + 1 \in Nat /\ FirstFragment <= i + 1 /\ i <= i + 1 /\ i <= i
      /\ FirstFragment \in Nat /\ FirstFragment <= FirstFragment
  BY DEF PassInv, FirstFragment
<1>2. CASE Enumerate
  BY <1>1, <1>2, PlacedSame DEF Enumerate
<1>3. CASE Collect
  BY <1>3, PlacedNext
<1>4. CASE ExpandFails
  BY <1>1, <1>4, PlacedSame DEF ExpandFails
<1>5. CASE EndOfCollect
  BY <1>1, <1>5, PlacedSame DEF EndOfCollect
<1>6. CASE Bind
  BY <1>1, <1>6, PlacedSame DEF Bind
<1>7. CASE BindFails
  BY <1>1, <1>7, PlacedSame DEF BindFails
<1>8. CASE EndOfBind
  BY <1>1, <1>8, PlacedSame DEF EndOfBind
<1>9. CASE Finished \/ UNCHANGED vars
  BY <1>1, <1>9, PlacedSame DEF Finished, vars
<1> QED
  BY <1>2, <1>3, <1>4, <1>5, <1>6, <1>7, <1>8, <1>9 DEF Next

\* The first pass leaves every fragment it has placed where the data cursor
\* stood, whichever fragments it could not expand.
THEOREM PlaceIsInvariant == Spec => [](PassInv /\ PlaceInv)
<1>1. Init => PassInv /\ PlaceInv
  BY PlaceStart
<1>2. PassInv /\ PlaceInv /\ [Next]_vars => PassInv' /\ PlaceInv'
  BY PlaceStep
<1> QED
  BY <1>1, <1>2, PTL DEF Spec

\* Where the file's code stays in its container, and below the data, no two
\* sections share a byte (NatCfmPlace).
THEOREM SectionsStayApart ==
  ASSUME CodeInPlace
  PROVE  Spec => []PlacedApart
<1>1. PassInv /\ PlaceInv => PlacedApart
  BY ApartNow
<1> QED
  BY <1>1, PlaceIsInvariant, PTL

-----------------------------------------------------------------------------
(***************************************************************************)
(* The TOC of the native handoff.                                          *)
(***************************************************************************)
Owners ==
  {k \in Placed : fork[k].sections[1].kind = "code" /\ EntryCode \in Extent(<<k, 1>>)}

LEMMA OwnersPlacedNext ==
  ASSUME PassInv', PlaceInv', NEW k \in Owners'
  PROVE  <<k, 1>> \in PlacedSections'
<1>1. /\ k \in Placed' /\ k \in DOMAIN fork' /\ fork' \in Forks
      /\ fork'[k].sections[1].kind = "code"
  BY DEF Owners, PlaceInv, PassInv
<1>2. fork'[k] \in Fragment
  BY <1>1, ForkAssumption
<1>3. 1 \in DOMAIN fork'[k].sections
  BY <1>2, FragmentParts
<1>4. "code" # "loader"
  OBVIOUS
<1> DEFINE S == {s \in DOMAIN fork'[k].sections : fork'[k].sections[s].kind # "loader"}
<1>5. 1 \in S
  BY <1>1, <1>3, <1>4
<1>6. <<k, 1>> \in {<<k, s>> : s \in S}
  BY <1>5
<1> QED
  BY <1>1, <1>6 DEF PlacedSections

\* Owns is what the extent of the first section says.
LEMMA OwnsIsExtent ==
  ASSUME NEW f \in Fragment, NEW bases, bases[1] \in Nat
  PROVE  Owns(f, bases) <=> /\ f.sections[1].kind = "code"
                            /\ EntryCode \in bases[1] .. bases[1] + f.sections[1].length - 1
<1>1. f.sections[1].length \in Nat /\ EntryCode \in Nat
  BY FragmentParts, ForkAssumption
<1>2. \A b, n, e \in Nat : (e >= b /\ e < b + n) <=> e \in b .. b + n - 1
  OBVIOUS
<1> QED
  BY <1>1, <1>2 DEF Owns

LEMMA EntryCollect ==
  ASSUME PassInv, PlaceInv, PassInv', PlaceInv', PlacedApart', EntryTocIsTheOwners, Collect
  PROVE  EntryTocIsTheOwners'
<1>1. PICK n : n = i
  OBVIOUS
<1> DEFINE f == fork[n]
           p == Bases(f, bump)
<1>2. pass = "collect" /\ n < nf /\ fork' = fork
  BY <1>1 DEF Collect
<1>3. n \in Nat /\ f \in Fragment /\ bump \in Nat
  BY <1>1, <1>2, ForkParts DEF PassInv
<1>4. /\ secBase' = With(secBase, n, p.bases)
      /\ entryToc' = IF Owns(f, p.bases) THEN Toc(f, p.bases) ELSE entryToc
  BY <1>1 DEF Collect
<1>5. p.bases[1] \in Nat
  <2>1. LaidOut(f, bump, p, Len(f.sections)) /\ 1 \in 1 .. Len(f.sections)
    BY <1>3, Placement, FragmentParts
  <2> QED
    BY <2>1 DEF LaidOut
<1> HIDE DEF p
<1>6. n \notin Placed
  BY <1>1, <1>2, <1>3, ForkParts DEF PlaceInv
<1>7. /\ Placed' = Placed \cup {n} /\ secBase'[n] = p.bases
      /\ \A k \in Placed : secBase'[k] = secBase[k]
  BY <1>4, <1>6 DEF Placed, With
<1>8. \A k \in Placed : Extent(<<k, 1>>)' = Extent(<<k, 1>>)
  BY <1>2, <1>7 DEF Extent
<1>9. Extent(<<n, 1>>)' = p.bases[1] .. p.bases[1] + f.sections[1].length - 1
  BY <1>2, <1>7 DEF Extent
<1>10. n \in Owners' <=> Owns(f, p.bases)
  <2>1. n \in Owners' <=> f.sections[1].kind = "code" /\ EntryCode \in Extent(<<n, 1>>)'
    BY <1>2, <1>7 DEF Owners
  <2> HIDE DEF f
  <2> QED
    BY <1>3, <1>5, <1>9, <2>1, OwnsIsExtent
<1>11. Owners' \ {n} = Owners
  BY <1>2, <1>6, <1>7, <1>8 DEF Owners
<1>12. CASE Owns(f, p.bases)
  <2>1. Owners' = {n}
    <3>1. SUFFICES ASSUME NEW k \in Owners', k # n PROVE FALSE
      BY <1>10, <1>12
    <3>2. /\ <<k, 1>> \in PlacedSections' /\ EntryCode \in Extent(<<k, 1>>)'
          /\ <<n, 1>> \in PlacedSections' /\ EntryCode \in Extent(<<n, 1>>)'
      <4>1. n \in Owners'
        BY <1>10, <1>12
      <4>2. \A m \in Owners' : <<m, 1>> \in PlacedSections' /\ EntryCode \in Extent(<<m, 1>>)'
        BY OwnersPlacedNext DEF Owners
      <4> QED
        BY <3>1, <4>1, <4>2
    <3>3. <<k, 1>> # <<n, 1>>
      BY <3>1
    <3> QED
      BY <3>2, <3>3 DEF PlacedApart
  <2>2. entryToc' = Toc(fork'[n], secBase'[n])
    BY <1>2, <1>4, <1>7, <1>12
  <2> QED
    BY <2>1, <2>2 DEF EntryTocIsTheOwners, Owners
<1>13. CASE ~Owns(f, p.bases)
  <2>1. Owners' = Owners /\ entryToc' = entryToc
    BY <1>4, <1>10, <1>11, <1>13
  <2>2. \A k \in Owners : Toc(fork'[k], secBase'[k]) = Toc(fork[k], secBase[k])
    BY <1>2, <1>7 DEF Owners
  <2>3. IF Owners = {} THEN entryToc = 0 ELSE \A k \in Owners : entryToc = Toc(fork[k], secBase[k])
    BY DEF EntryTocIsTheOwners, Owners
  <2>4. IF Owners' = {} THEN entryToc' = 0
        ELSE \A k \in Owners' : entryToc' = Toc(fork'[k], secBase'[k])
    BY <2>1, <2>2, <2>3
  <2> QED
    BY <2>4 DEF EntryTocIsTheOwners, Owners
<1> QED
  BY <1>12, <1>13

LEMMA EntryStep ==
  ASSUME PassInv, PlaceInv, PassInv', PlaceInv', PlacedApart', EntryTocIsTheOwners, [Next]_vars
  PROVE  EntryTocIsTheOwners'
<1>1. CASE Collect
  BY <1>1, EntryCollect
<1>2. CASE ~Collect
  <2>1. UNCHANGED <<fork, secBase, entryToc>>
    BY <1>2 DEF Next, vars, Enumerate, ExpandFails, EndOfCollect, Bind, BindFails, EndOfBind, Finished
  <2> QED
    BY <2>1 DEF EntryTocIsTheOwners, Placed, Extent
<1> QED
  BY <1>1, <1>2

\* The TOC handed to native code is that of the one fragment whose code holds
\* the entry address (NatCfmPlace), where the file's code is in its place.
THEOREM EntryHasItsToc ==
  ASSUME CodeInPlace
  PROVE  Spec => []EntryTocIsTheOwners
<1>1. Init => EntryTocIsTheOwners
  BY DEF Init, EntryTocIsTheOwners, Placed
<1>2. /\ PassInv /\ PlaceInv /\ PassInv' /\ PlaceInv' /\ PlacedApart'
      /\ EntryTocIsTheOwners /\ [Next]_vars
      => EntryTocIsTheOwners'
  BY EntryStep
<1>3. Spec => []PlacedApart
  BY SectionsStayApart
<1> QED
  BY <1>1, <1>2, <1>3, PlaceIsInvariant, PTL DEF Spec

-----------------------------------------------------------------------------
(***************************************************************************)
(* The map of the exports.                                                 *)
(***************************************************************************)
Entry == [name : Name, addr : Nat]

\* What the map says of an export of a fragment placed at these bases.
EntryOf(f, bases, e) == [name |-> e.name, addr |-> ExportAddress(f, bases, e)]
EntriesOf(f, bases) == {EntryOf(f, bases, f.exports[n]) : n \in 1 .. Len(f.exports)}

MapInv ==
  /\ map \in Seq(Entry) /\ Len(map) <= MaxExports
  /\ \A n \in 1 .. Len(map) : \E k \in Placed : map[n] \in EntriesOf(fork[k], secBase[k])
  /\ Len(map) < MaxExports =>
       \A k \in Placed : \A e \in EntriesOf(fork[k], secBase[k]) : \E n \in 1 .. Len(map) : map[n] = e

LEMMA EntryType ==
  ASSUME NEW f \in Fragment, NEW bases \in Seq(Nat), Len(bases) = Len(f.sections),
         NEW n \in 1 .. Len(f.exports)
  PROVE  f.exports[n] \in ExportedSymbol /\ EntryOf(f, bases, f.exports[n]) \in Entry
<1> DEFINE e == f.exports[n]
<1>1. f.exports \in Seq(ExportedSymbol) /\ DOMAIN f.sections = 1 .. Len(f.sections)
  BY FragmentParts
<1>2. e \in ExportedSymbol
  BY <1>1, ElementOfSeq
<1>3. e.name \in Name /\ e.value \in Nat /\ e.section \in Int
  BY <1>2 DEF ExportedSymbol
<1> HIDE DEF e
<1>4. ExportAddress(f, bases, e) \in Nat
  <2>1. CASE e.section \in DOMAIN f.sections
    <3>1. bases[e.section] \in Nat
      BY <1>1, <2>1, ElementOfSeq
    <3>2. bases[e.section] + e.value \in Nat
      BY <1>3, <3>1
    <3> QED
      BY <3>2 DEF ExportAddress
  <2>2. CASE e.section \notin DOMAIN f.sections
    BY <2>2 DEF ExportAddress
  <2> QED
    BY <2>1, <2>2
<1> QED
  BY <1>2, <1>3, <1>4 DEF Entry, EntryOf, e

\* What Collected appends: the first exports, all of them if there is room.
LEMMA CollectedDoes ==
  ASSUME NEW f \in Fragment, NEW bases \in Seq(Nat), Len(bases) = Len(f.sections),
         map \in Seq(Entry), Len(map) <= MaxExports
  PROVE  LET next == Collected(f, bases)
         IN  /\ next \in Seq(Entry) /\ Len(map) <= Len(next) /\ Len(next) <= MaxExports
             /\ \A n \in 1 .. Len(map) : next[n] = map[n]
             /\ \A n \in Len(map) + 1 .. Len(next) : next[n] \in EntriesOf(f, bases)
             /\ Len(next) < MaxExports =>
                  \A e \in EntriesOf(f, bases) : \E n \in 1 .. Len(next) : next[n] = e
<1> DEFINE room == MaxExports - Len(map)
           all == Len(f.exports)
           n == IF all < room THEN all ELSE room
           more == [k \in 1 .. n |-> EntryOf(f, bases, f.exports[k])]
           next == map \o more
<1>1. MaxExports \in Nat /\ Len(map) \in Nat /\ all \in Nat
  BY ForkAssumption, FragmentParts, LenProperties
<1>2. n \in Nat /\ n <= all /\ Len(map) + n <= MaxExports
      /\ (Len(map) + n < MaxExports => n = all)
  <2> HIDE DEF all
  <2> QED
    BY <1>1
<1> HIDE DEF n, all
<1>3. \A k \in 1 .. n : k \in 1 .. all
  BY <1>1, <1>2
<1>4. \A k \in 1 .. all : EntryOf(f, bases, f.exports[k]) \in Entry
  BY EntryType DEF all
<1>5. more \in [1 .. n -> Entry]
  BY <1>3, <1>4
<1>6. more \in Seq(Entry) /\ Len(more) = n
  BY <1>2, <1>5, SeqDef, LenProperties
<1>7. \A k \in 1 .. n : more[k] = EntryOf(f, bases, f.exports[k])
  OBVIOUS
<1> HIDE DEF more
<1>8. /\ next \in Seq(Entry) /\ Len(next) = Len(map) + n
      /\ \A k \in 1 .. Len(map) + n : next[k] = IF k <= Len(map) THEN map[k] ELSE more[k - Len(map)]
  BY <1>6, ConcatProperties
<1>9. Collected(f, bases) = next
  BY DEF Collected, next, more, n, all, EntryOf
<1> HIDE DEF next
<1>10. \A k \in 1 .. Len(map) : next[k] = map[k]
  BY <1>1, <1>2, <1>8
<1>11. \A k \in Len(map) + 1 .. Len(next) : next[k] \in EntriesOf(f, bases)
  <2> TAKE k \in Len(map) + 1 .. Len(next)
  <2> DEFINE j == k - Len(map)
  <2>1. j \in 1 .. n /\ next[k] = more[j]
    BY <1>1, <1>2, <1>8
  <2> HIDE DEF j
  <2>2. j \in 1 .. all
    BY <1>3, <2>1
  <2> QED
    BY <1>7, <2>1, <2>2 DEF EntriesOf, all
<1>12. ASSUME Len(next) < MaxExports, NEW e \in EntriesOf(f, bases)
       PROVE  \E k \in 1 .. Len(next) : next[k] = e
  <2>1. PICK j \in 1 .. all : e = EntryOf(f, bases, f.exports[j])
    BY DEF EntriesOf, all
  <2>2. n = all
    BY <1>2, <1>8, <1>12
  <2>3. Len(map) + j \in 1 .. Len(next) /\ next[Len(map) + j] = more[j]
    <3>1. \A a, b, c \in Nat : c \in 1 .. b => a + c \in 1 .. a + b /\ ~(a + c <= a) /\ (a + c) - a = c
      OBVIOUS
    <3>2. j \in Nat /\ j \in 1 .. n
      BY <1>1, <2>2
    <3>3. Len(map) + j \in 1 .. Len(map) + n /\ ~(Len(map) + j <= Len(map)) /\ (Len(map) + j) - Len(map) = j
      BY <1>1, <1>2, <3>1, <3>2
    <3> QED
      BY <1>8, <3>3
  <2> QED
    BY <1>7, <2>1, <2>2, <2>3
<1>13. Len(map) <= Len(next) /\ Len(next) <= MaxExports
  BY <1>1, <1>2, <1>8
<1> QED
  BY <1>8, <1>9, <1>10, <1>11, <1>12, <1>13

LEMMA MapCollect ==
  ASSUME PassInv, PlaceInv, MapInv, Collect
  PROVE  MapInv'
<1>1. PICK n : n = i
  OBVIOUS
<1> DEFINE f == fork[n]
           p == Bases(f, bump)
<1>2. pass = "collect" /\ n < nf /\ fork' = fork
  BY <1>1 DEF Collect
<1>3. n \in Nat /\ f \in Fragment /\ bump \in Nat
  BY <1>1, <1>2, ForkParts DEF PassInv
<1>4. secBase' = With(secBase, n, p.bases) /\ map' = Collected(f, p.bases)
  BY <1>1 DEF Collect
<1>5. p.bases \in Seq(Nat) /\ Len(p.bases) = Len(f.sections)
  BY <1>3, Placement DEF LaidOut, Placing
<1>6. n \notin Placed
  BY <1>1, <1>2, <1>3, ForkParts DEF PlaceInv
<1> HIDE DEF p
<1>7. /\ Placed' = Placed \cup {n} /\ secBase'[n] = p.bases
      /\ \A k \in Placed : secBase'[k] = secBase[k]
  BY <1>4, <1>6 DEF Placed, With
<1> HIDE DEF f
<1>8. /\ map \in Seq(Entry) /\ Len(map) <= MaxExports
      /\ \A m \in 1 .. Len(map) : \E k \in Placed : map[m] \in EntriesOf(fork[k], secBase[k])
  BY DEF MapInv
<1>9. /\ map' \in Seq(Entry) /\ Len(map) <= Len(map') /\ Len(map') <= MaxExports
      /\ \A m \in 1 .. Len(map) : map'[m] = map[m]
      /\ \A m \in Len(map) + 1 .. Len(map') : map'[m] \in EntriesOf(f, p.bases)
      /\ Len(map') < MaxExports =>
           \A e \in EntriesOf(f, p.bases) : \E m \in 1 .. Len(map') : map'[m] = e
  BY <1>3, <1>4, <1>5, <1>8, CollectedDoes
<1>10. Len(map) \in Nat /\ Len(map') \in Nat /\ MaxExports \in Nat
  BY <1>8, <1>9, LenProperties, ForkAssumption
<1>11. /\ fork'[n] = f
       /\ \A k \in Placed : fork'[k] = fork[k]
  BY <1>2 DEF f
<1>12. \A m \in 1 .. Len(map') : \E k \in Placed' : map'[m] \in EntriesOf(fork'[k], secBase'[k])
  <2> TAKE m \in 1 .. Len(map')
  <2>1. m \in 1 .. Len(map) \/ m \in Len(map) + 1 .. Len(map')
    BY <1>10
  <2>2. CASE m \in 1 .. Len(map)
    <3>1. PICK k \in Placed : map[m] \in EntriesOf(fork[k], secBase[k])
      BY <1>8, <2>2
    <3> QED
      BY <1>7, <1>9, <1>11, <2>2, <3>1
  <2>3. CASE m \in Len(map) + 1 .. Len(map')
    BY <1>7, <1>9, <1>11, <2>3
  <2> QED
    BY <2>1, <2>2, <2>3
<1>13. ASSUME Len(map') < MaxExports, NEW k \in Placed', NEW e \in EntriesOf(fork'[k], secBase'[k])
       PROVE  \E m \in 1 .. Len(map') : map'[m] = e
  <2>1. CASE k = n
    BY <1>7, <1>9, <1>11, <1>13, <2>1
  <2>2. CASE k \in Placed
    <3>1. e \in EntriesOf(fork[k], secBase[k]) /\ Len(map) < MaxExports
      BY <1>7, <1>9, <1>10, <1>11, <1>13, <2>2
    <3>2. PICK m \in 1 .. Len(map) : map[m] = e
      BY <2>2, <3>1 DEF MapInv
    <3>3. m \in 1 .. Len(map') /\ map'[m] = e
      BY <1>9, <1>10, <3>2
    <3> QED
      BY <3>3
  <2> QED
    BY <1>7, <2>1, <2>2
<1> QED
  BY <1>9, <1>12, <1>13 DEF MapInv

\* The map holds exports of placed fragments only, and all of them while it
\* has room (NatCfmLoadSystem).
THEOREM MapIsInvariant == Spec => []MapInv
<1>1. Init => MapInv
  <2> SUFFICES ASSUME Init PROVE MapInv
    OBVIOUS
  <2>1. map = <<>> /\ Placed = {} /\ MaxExports \in Nat
    BY ForkAssumption DEF Init, Placed
  <2>2. map \in Seq(Entry) /\ Len(map) = 0 /\ \A n \in 1 .. 0 : FALSE
    BY <2>1
  <2> QED
    BY <2>1, <2>2 DEF MapInv
<1>2. PassInv /\ PlaceInv /\ MapInv /\ [Next]_vars => MapInv'
  <2> SUFFICES ASSUME PassInv, PlaceInv, MapInv, [Next]_vars PROVE MapInv'
    OBVIOUS
  <2>1. CASE Collect
    BY <2>1, MapCollect
  <2>2. CASE ~Collect
    <3>1. UNCHANGED <<fork, secBase, map>>
      BY <2>2 DEF Next, vars, Enumerate, ExpandFails, EndOfCollect, Bind, BindFails, EndOfBind, Finished
    <3> QED
      BY <3>1 DEF MapInv, Placed
  <2> QED
    BY <2>1, <2>2
<1> QED
  BY <1>1, <1>2, PlaceIsInvariant, PTL DEF Spec

-----------------------------------------------------------------------------
(***************************************************************************)
(* Lookups, and the table of stubs.                                        *)
(***************************************************************************)
LEMMA LookupFinds ==
  ASSUME map \in Seq(Entry), NEW name
  PROVE  /\ Lookup(name) \in Nat
         /\ \/ Lookup(name) = 0 /\ \A n \in 1 .. Len(map) : map[n].name # name
            \/ \E n \in 1 .. Len(map) : map[n].name = name /\ Lookup(name) = map[n].addr
<1>1. Len(map) \in Nat /\ DOMAIN map = 1 .. Len(map)
  BY LenProperties
<1>2. \A n \in 1 .. Len(map) : map[n] \in Entry
  BY ElementOfSeq
<1> DEFINE I == {n \in 1 .. Len(map) : map[n].name = name}
<1>3. CASE I = {}
  BY <1>1, <1>3 DEF Lookup
<1>4. CASE I # {}
  <2>1. I \subseteq Nat
    BY <1>1
  <2> DEFINE m == CHOOSE x \in I : \A y \in I : x <= y
  <2>2. m \in I
    <3> HIDE DEF I
    <3> QED
      BY <1>4, <2>1, Least
  <2>3. SelectInSeq(map, LAMBDA e : e.name = name) = m
    BY <1>4 DEF SelectInSeq, Min
  <2> HIDE DEF m
  <2>4. m \in 1 .. Len(map) /\ map[m].name = name
    BY <2>2
  <2>5. Lookup(name) = map[m].addr
    BY <1>1, <2>3, <2>4 DEF Lookup
  <2>6. map[m].addr \in Nat
    BY <1>2, <2>4 DEF Entry
  <2> QED
    BY <2>4, <2>5, <2>6
<1> QED
  BY <1>3, <1>4

Handlers == {Handler[n] : n \in Name}
Import == [to : {"address", "stub", "glue"}, at : Nat]

\* No handler has two stubs.
GoodTable(table) ==
  /\ table \in Seq(Handlers) /\ Len(table) <= MaxStubs
  /\ \A x, y \in 1 .. Len(table) : x # y => table[x] # table[y] \/ table[x] = None

Extends(old, table) ==
  /\ Len(old) <= Len(table)
  /\ \A x \in 1 .. Len(old) : table[x] = old[x]

\* The import b has a stub of this handler, or the table is full.
HasStub(b, handler, table) ==
  \/ \E x \in 1 .. Len(table) : b = Stub(x) /\ table[x] = handler
  \/ b = Glue /\ Len(table) = MaxStubs

LEMMA BindStubDoes ==
  ASSUME NEW table, GoodTable(table), NEW handler \in Handlers
  PROVE  LET b == BindStub(table, handler)
         IN  /\ GoodTable(b.stubs) /\ Extends(table, b.stubs)
             /\ b.import \in Import /\ HasStub(b.import, handler, b.stubs)
<1> DEFINE b == BindStub(table, handler)
<1>1. table \in Seq(Handlers) /\ Len(table) \in Nat /\ Len(table) <= MaxStubs /\ MaxStubs \in Nat
  BY LenProperties, ForkAssumption DEF GoodTable
<1>2. Extends(table, table)
  BY <1>1 DEF Extends
<1>3. \A x \in Nat : Stub(x) \in Import /\ Glue \in Import
  BY DEF Stub, Glue, Import
<1>4. CASE handler # None /\ Contains(table, handler)
  <2> DEFINE I == {x \in 1 .. Len(table) : table[x] = handler}
             m == CHOOSE x \in I : \A y \in I : x <= y
  <2>1. I # {} /\ I \subseteq Nat
    BY <1>1, <1>4 DEF Contains
  <2>2. m \in I
    <3> HIDE DEF I
    <3> QED
      BY <2>1, Least
  <2>3. SelectInSeq(table, LAMBDA h : h = handler) = m
    BY <2>1 DEF SelectInSeq, Min
  <2> HIDE DEF m
  <2>4. b = [stubs |-> table, import |-> Stub(m)]
    BY <1>4, <2>3 DEF BindStub
  <2>5. m \in 1 .. Len(table) /\ table[m] = handler /\ m \in Nat
    BY <2>1, <2>2
  <2> QED
    BY <1>2, <1>3, <2>4, <2>5 DEF HasStub
<1>5. CASE ~(handler # None /\ Contains(table, handler)) /\ Len(table) >= MaxStubs
  <2>1. b = [stubs |-> table, import |-> Glue]
    BY <1>5 DEF BindStub
  <2>2. Len(table) = MaxStubs
    BY <1>1, <1>5
  <2> QED
    BY <1>2, <1>3, <2>1, <2>2 DEF HasStub
<1>6. CASE ~(handler # None /\ Contains(table, handler)) /\ ~(Len(table) >= MaxStubs)
  <2> DEFINE next == Append(table, handler)
             n == Len(table) + 1
  <2>1. b = [stubs |-> next, import |-> Stub(n)]
    BY <1>6 DEF BindStub
  <2>2. /\ next \in Seq(Handlers) /\ Len(next) = n /\ next[n] = handler
        /\ \A x \in 1 .. Len(table) : next[x] = table[x]
    BY <1>1, AppendProperties
  <2>3. n \in Nat /\ n <= MaxStubs /\ n \in 1 .. n /\ Len(table) <= n
    BY <1>1, <1>6
  <2>4. \A x \in 1 .. n : x \in 1 .. Len(table) \/ x = n
    BY <1>1
  <2>5. \A x \in 1 .. Len(table) : x # n /\ (table[x] # handler \/ table[x] = None)
    BY <1>1, <1>6 DEF Contains
  <2>6. handler # None \/ handler = None
    OBVIOUS
  <2> HIDE DEF next, n
  <2>7. ASSUME NEW x \in 1 .. n, NEW y \in 1 .. n, x # y
        PROVE  next[x] # next[y] \/ next[x] = None
    <3>1. CASE x \in 1 .. Len(table) /\ y \in 1 .. Len(table)
      BY <2>2, <2>7, <3>1 DEF GoodTable
    <3>2. CASE x \in 1 .. Len(table) /\ y = n
      BY <2>2, <2>5, <3>2
    <3>3. CASE x = n /\ y \in 1 .. Len(table)
      BY <2>2, <2>5, <3>3
    <3> QED
      BY <2>4, <2>7, <3>1, <3>2, <3>3
  <2>8. GoodTable(next) /\ Extends(table, next)
    BY <2>2, <2>3, <2>7 DEF GoodTable, Extends
  <2> QED
    BY <1>3, <2>1, <2>2, <2>3, <2>8 DEF HasStub
<1> QED
  BY <1>4, <1>5, <1>6

\* What is found in such a map, as by Lookup.
Found(w, name) ==
  IF \E k \in DOMAIN w : w[k].name = name
  THEN w[SelectInSeq(w, LAMBDA e : e.name = name)].addr
  ELSE 0

\* What NatCfmLoadSystem binds an import of that name to, with these stubs.
Served(b, name, w, table) ==
  IF Found(w, name) # 0 THEN b = Address(Found(w, name))
  ELSE \/ HasStub(b, Handler[name], table)
       \/ b = Glue /\ Handler[name] = None

LEMMA StaysServed ==
  ASSUME NEW old, NEW table, GoodTable(old), GoodTable(table), Extends(old, table),
         NEW w, NEW name, NEW b, Served(b, name, w, old)
  PROVE  Served(b, name, w, table)
<1>1. Len(old) \in Nat /\ Len(table) \in Nat /\ MaxStubs \in Nat
      /\ Len(old) <= Len(table) /\ Len(table) <= MaxStubs
  BY LenProperties, ForkAssumption DEF GoodTable, Extends
<1>2. \A x \in 1 .. Len(old) : x \in 1 .. Len(table) /\ table[x] = old[x]
  BY <1>1 DEF Extends
<1>3. Len(old) = MaxStubs => Len(table) = MaxStubs
  BY <1>1
<1> QED
  BY <1>2, <1>3 DEF Served, HasStub

LEMMA BindImportDoes ==
  ASSUME MapInv, NEW f, NEW table, GoodTable(table), NEW name \in Name
  PROVE  LET b == BindImport(f, table, name)
         IN  /\ GoodTable(b.stubs) /\ Extends(table, b.stubs)
             /\ b.import \in Import /\ Served(b.import, name, map, b.stubs)
<1> DEFINE b == BindImport(f, table, name)
<1>1. Len(table) \in Nat /\ Extends(table, table) /\ Handler[name] \in Handlers
  BY LenProperties DEF GoodTable, Extends, Handlers
<1>2. Lookup(name) \in Nat /\ Found(map, name) = Lookup(name)
  BY LookupFinds DEF MapInv, Lookup, Found
<1>3. CASE Lookup(name) # 0
  <2>1. b = [stubs |-> table, import |-> Address(Lookup(name))]
    BY <1>3 DEF BindImport
  <2>2. Address(Lookup(name)) \in Import
    BY <1>2 DEF Address, Import
  <2> QED
    BY <1>1, <1>2, <1>3, <2>1, <2>2 DEF Served
<1>4. CASE Lookup(name) = 0 /\ (Handler[name] # None \/ f.base = EntryBase)
  <2>1. b = BindStub(table, Handler[name])
    BY <1>4 DEF BindImport
  <2> QED
    BY <1>1, <1>2, <1>4, <2>1, BindStubDoes DEF Served
<1>5. CASE Lookup(name) = 0 /\ ~(Handler[name] # None \/ f.base = EntryBase)
  <2>1. b = [stubs |-> table, import |-> Glue]
    BY <1>5 DEF BindImport
  <2>2. Glue \in Import
    BY DEF Glue, Import
  <2> QED
    BY <1>1, <1>2, <1>5, <2>1, <2>2 DEF Served
<1> QED
  BY <1>3, <1>4, <1>5

Binding == [stubs : Seq(Handlers), imports : Seq(Import)]

\* t is what the first m imports of f leave of the table.
BoundSoFar(f, t, m) ==
  /\ t \in Binding /\ GoodTable(t.stubs) /\ Extends(stubs, t.stubs) /\ Len(t.imports) = m
  /\ \A n \in 1 .. m : Served(t.imports[n], f.imports[n], map, t.stubs)

LEMMA BoundNext ==
  ASSUME MapInv, GoodTable(stubs), NEW f \in Fragment, NEW t, NEW m \in Nat,
         m + 1 \in 1 .. Len(f.imports), BoundSoFar(f, t, m)
  PROVE  BoundSoFar(f, BindNext(f, t, f.imports[m + 1]), m + 1)
<1> DEFINE name == f.imports[m + 1]
           b == BindImport(f, t.stubs, name)
           u == BindNext(f, t, name)
<1>1. name \in Name
  BY FragmentParts, ElementOfSeq
<1>2. t \in Binding /\ GoodTable(t.stubs) /\ Extends(stubs, t.stubs) /\ Len(t.imports) = m
  BY DEF BoundSoFar
<1>3. t.imports \in Seq(Import)
  BY <1>2 DEF Binding
<1> HIDE DEF name
<1>4. /\ GoodTable(b.stubs) /\ Extends(t.stubs, b.stubs)
      /\ b.import \in Import /\ Served(b.import, name, map, b.stubs)
  BY <1>1, <1>2, BindImportDoes
<1>5. u = [stubs |-> b.stubs, imports |-> Append(t.imports, b.import)]
  BY DEF BindNext
<1> HIDE DEF b, u
<1>6. /\ u.imports \in Seq(Import) /\ Len(u.imports) = m + 1 /\ u.imports[m + 1] = b.import
      /\ \A n \in 1 .. m : u.imports[n] = t.imports[n]
  BY <1>2, <1>3, <1>4, <1>5, AppendProperties
<1>7. u.stubs = b.stubs /\ u \in Binding
  BY <1>4, <1>5, <1>6 DEF Binding, GoodTable
<1>8. Extends(stubs, b.stubs)
  <2>1. Len(stubs) \in Nat /\ Len(t.stubs) \in Nat /\ Len(b.stubs) \in Nat
    BY <1>2, <1>4, LenProperties DEF GoodTable
  <2>2. Len(stubs) <= Len(t.stubs) /\ Len(t.stubs) <= Len(b.stubs)
    BY <1>2, <1>4 DEF Extends
  <2>3. \A x \in 1 .. Len(stubs) : x \in 1 .. Len(t.stubs)
    BY <2>1, <2>2
  <2>4. Len(stubs) <= Len(b.stubs)
    BY <2>1, <2>2
  <2> QED
    BY <1>2, <1>4, <2>3, <2>4 DEF Extends
<1>9. ASSUME NEW n \in 1 .. m + 1
      PROVE  Served(u.imports[n], f.imports[n], map, u.stubs)
  <2>1. n \in 1 .. m \/ n = m + 1
    OBVIOUS
  <2>2. CASE n \in 1 .. m
    <3>1. Served(t.imports[n], f.imports[n], map, t.stubs)
      BY <2>2 DEF BoundSoFar
    <3>2. Served(t.imports[n], f.imports[n], map, b.stubs)
      BY <1>2, <1>4, <3>1, StaysServed
    <3> QED
      BY <1>6, <1>7, <2>2, <3>2
  <2>3. CASE n = m + 1
    BY <1>4, <1>6, <1>7, <2>3 DEF name
  <2> QED
    BY <2>1, <2>2, <2>3
<1>10. BoundSoFar(f, u, m + 1)
  BY <1>4, <1>6, <1>7, <1>8, <1>9 DEF BoundSoFar
<1> QED
  BY <1>10 DEF u, name

LEMMA BindAllDoes ==
  ASSUME MapInv, GoodTable(stubs), NEW f \in Fragment
  PROVE  BoundSoFar(f, BindAll(f), Len(f.imports))
<1> DEFINE N == Len(f.imports)
           a == [stubs |-> stubs, imports |-> <<>>]
           Turn(t, k) == BindNext(f, t, f.imports[k])
           S == {t \in Binding : GoodTable(t.stubs)}
           turn == [p \in S \X Nat |-> IF p[2] \in 1 .. N THEN Turn(p[1], p[2]) ELSE p[1]]
           Body(g) == [n \in 0 .. N |-> IF n = 0 THEN a ELSE Turn(g[n - 1], n)]
           after == CHOOSE g : g = Body(g)
<1>1. N \in Nat /\ f.imports \in Seq(Name)
  BY FragmentParts, LenProperties
<1>2. a \in S /\ BoundSoFar(f, a, 0)
  <2>1. a \in Binding /\ Len(a.imports) = 0 /\ a.stubs = stubs
    BY EmptySeq DEF Binding, GoodTable
  <2>2. Extends(stubs, stubs) /\ \A n \in 1 .. 0 : FALSE
    BY LenProperties DEF Extends, GoodTable
  <2> QED
    BY <2>1, <2>2 DEF BoundSoFar
<1>3. \A t \in S, k \in 1 .. N : Turn(t, k) \in S
  <2> TAKE t \in S, k \in 1 .. N
  <2> DEFINE name == f.imports[k]
             b == BindImport(f, t.stubs, name)
  <2>1. name \in Name
    BY <1>1, ElementOfSeq
  <2>2. GoodTable(b.stubs) /\ b.import \in Import
    BY <2>1, BindImportDoes
  <2>3. t.imports \in Seq(Import)
    BY DEF Binding
  <2> HIDE DEF b
  <2>4. Append(t.imports, b.import) \in Seq(Import)
    BY <2>2, <2>3, AppendProperties
  <2>5. Turn(t, k) = [stubs |-> b.stubs, imports |-> Append(t.imports, b.import)]
    BY DEF BindNext, b
  <2> QED
    BY <2>2, <2>4, <2>5 DEF Binding, GoodTable
<1> HIDE DEF Turn, N, a, S
<1>4. turn \in [S \X Nat -> S]
  BY <1>3
<1>5. PICK g : IsLoop(g, S, a, turn, N)
  <2> HIDE DEF turn
  <2> QED
    BY <1>1, <1>2, <1>4, LoopExists
<1>6. g \in [0 .. N -> S] /\ g[0] = a
  BY <1>5 DEF IsLoop
<1>7. \A k \in 1 .. N : g[k] = Turn(g[k - 1], k)
  <2> TAKE k \in 1 .. N
  <2>1. k - 1 \in 0 .. N /\ k \in Nat
    BY <1>1
  <2>2. g[k - 1] \in S /\ g[k] = turn[<<g[k - 1], k>>]
    BY <1>5, <1>6, <2>1 DEF IsLoop
  <2> QED
    BY <2>1, <2>2
<1>8. g = Body(g)
  <2>1. \A k \in 0 .. N : g[k] = IF k = 0 THEN a ELSE Turn(g[k - 1], k)
    BY <1>1, <1>6, <1>7
  <2> QED
    BY <1>6, <2>1
<1>9. after = Body(after)
  <2> HIDE DEF Body
  <2> QED
    BY <1>8
<1>10. BindAll(f) = after[N]
  BY DEF BindAll, N, a, Turn
<1> HIDE DEF after
<1>11. /\ after[0] = a
       /\ \A k \in 1 .. N : after[k] = Turn(after[k - 1], k)
  <2>1. 0 \in 0 .. N /\ \A k \in 1 .. N : k \in 0 .. N /\ k # 0
    BY <1>1
  <2> QED
    BY <1>9, <2>1
<1> DEFINE T == {m \in Nat : m <= N => BoundSoFar(f, after[m], m)}
<1>12. 0 \in T
  BY <1>2, <1>11
<1>13. ASSUME NEW m \in Nat, m \in T
       PROVE  m + 1 \in T
  <2> SUFFICES ASSUME m + 1 <= N PROVE BoundSoFar(f, after[m + 1], m + 1)
    OBVIOUS
  <2>1. m + 1 \in 1 .. N /\ m <= N /\ (m + 1) - 1 = m
    BY <1>1
  <2>2. after[m + 1] = BindNext(f, after[m], f.imports[m + 1])
    BY <1>11, <2>1 DEF Turn
  <2>3. BoundSoFar(f, after[m], m)
    BY <1>13, <2>1
  <2> QED
    BY <2>1, <2>2, <2>3, BoundNext DEF N
<1>14. N \in T
  <2> HIDE DEF T
  <2> QED
    BY <1>1, <1>12, <1>13, Induction
<1> QED
  BY <1>1, <1>10, <1>14 DEF N

\* Before the second pass nothing is bound; after it, what is bound serves.
BoundInv ==
  /\ GoodTable(stubs)
  /\ pass \in {"enumerate", "collect"} => DOMAIN bound = {}
  /\ \A k \in DOMAIN bound :
       /\ k \in DOMAIN fork
       /\ \A n \in 1 .. Len(fork[k].imports) : Served(bound[k][n], fork[k].imports[n], map, stubs)

LEMMA BoundStep ==
  ASSUME PassInv, MapInv, BoundInv, [Next]_vars
  PROVE  BoundInv'
<1>1. GoodTable(stubs) /\ MaxStubs \in Nat
  BY ForkAssumption DEF BoundInv
<1>2. CASE Enumerate \/ ExpandFails
  BY <1>2 DEF Enumerate, ExpandFails, BoundInv
<1>3. CASE Collect
  <2>1. pass = "collect" /\ UNCHANGED <<fork, pass, stubs, bound>>
    BY <1>3 DEF Collect
  <2>2. DOMAIN bound' = {}
    BY <2>1 DEF BoundInv
  <2> QED
    BY <1>1, <2>1, <2>2 DEF BoundInv
<1>4. CASE EndOfCollect
  <2>1. pass = "collect" /\ stubs' = <<>> /\ bound' = bound
    BY <1>4 DEF EndOfCollect
  <2>2. DOMAIN bound' = {}
    BY <2>1 DEF BoundInv
  <2>3. <<>> \in Seq(Handlers) /\ Len(<<>>) = 0 /\ \A x \in 1 .. 0 : FALSE
    OBVIOUS
  <2>4. GoodTable(<<>>)
    BY <1>1, <2>3 DEF GoodTable
  <2> QED
    BY <2>1, <2>2, <2>4 DEF BoundInv
<1>5. CASE Bind
  <2>1. PICK m : m = i
    OBVIOUS
  <2> DEFINE f == fork[m]
             all == BindAll(f)
  <2>2. /\ pass = "bind" /\ m < nf /\ pass' = pass /\ fork' = fork /\ map' = map
        /\ stubs' = all.stubs /\ bound' = With(bound, m, all.imports)
    BY <1>5, <2>1 DEF Bind
  <2>3. m \in DOMAIN fork /\ f \in Fragment
    BY <2>1, <2>2, ForkParts DEF PassInv
  <2>4. BoundSoFar(f, all, Len(f.imports))
    BY <1>1, <2>3, BindAllDoes
  <2> HIDE DEF all
  <2>5. /\ GoodTable(stubs') /\ Extends(stubs, stubs')
        /\ \A n \in 1 .. Len(f.imports) : Served(all.imports[n], f.imports[n], map, stubs')
    BY <2>2, <2>4 DEF BoundSoFar
  <2>6. /\ DOMAIN bound' = DOMAIN bound \cup {m} /\ bound'[m] = all.imports
        /\ \A k \in DOMAIN bound : k # m => bound'[k] = bound[k]
    BY <2>2 DEF With
  <2>7. PICK table : table = stubs'
    OBVIOUS
  <2>8. ASSUME NEW k \in DOMAIN bound'
        PROVE  /\ k \in DOMAIN fork
               /\ \A n \in 1 .. Len(fork[k].imports) :
                    Served(bound'[k][n], fork[k].imports[n], map, table)
    <3>1. CASE k = m
      BY <2>3, <2>5, <2>6, <2>7, <3>1
    <3>2. CASE k # m
      <4>1. k \in DOMAIN bound /\ bound'[k] = bound[k]
        BY <2>6, <3>2
      <4>2. /\ k \in DOMAIN fork
            /\ \A n \in 1 .. Len(fork[k].imports) : Served(bound[k][n], fork[k].imports[n], map, stubs)
        BY <4>1 DEF BoundInv
      <4>3. \A n \in 1 .. Len(fork[k].imports) : Served(bound[k][n], fork[k].imports[n], map, table)
        BY <1>1, <2>5, <2>7, <4>2, StaysServed
      <4> QED
        BY <4>1, <4>2, <4>3
    <3> QED
      BY <3>1, <3>2
  <2>9. GoodTable(stubs)'
    BY <2>5 DEF GoodTable
  <2>10. \A k \in DOMAIN bound' :
           /\ k \in DOMAIN fork'
           /\ \A n \in 1 .. Len(fork'[k].imports) :
                Served(bound'[k][n], fork'[k].imports[n], map', stubs')
    BY <2>2, <2>7, <2>8
  <2> QED
    BY <2>2, <2>9, <2>10 DEF BoundInv
<1>6. CASE BindFails \/ EndOfBind
  BY <1>6 DEF BindFails, EndOfBind, BoundInv
<1>7. CASE Finished \/ UNCHANGED vars
  BY <1>7 DEF Finished, vars, BoundInv
<1> QED
  BY <1>2, <1>3, <1>4, <1>5, <1>6, <1>7 DEF Next

\* Whatever fails, an import has what Served says, in every later state.
THEOREM BoundIsInvariant == Spec => []BoundInv
<1>1. Init => BoundInv
  <2> SUFFICES ASSUME Init PROVE BoundInv
    OBVIOUS
  <2>1. stubs = <<>> /\ DOMAIN bound = {} /\ MaxStubs \in Nat
    BY ForkAssumption DEF Init
  <2>2. stubs \in Seq(Handlers) /\ Len(stubs) = 0 /\ \A x \in 1 .. 0 : FALSE
    BY <2>1
  <2>3. GoodTable(stubs)
    BY <2>1, <2>2 DEF GoodTable
  <2> QED
    BY <2>1, <2>3 DEF BoundInv
<1>2. PassInv /\ MapInv /\ BoundInv /\ [Next]_vars => BoundInv'
  BY BoundStep
<1> QED
  BY <1>1, <1>2, PlaceIsInvariant, MapIsInvariant, PTL DEF Spec

\* ExportsOf is what the entries for the placed fragments say.
LEMMA ExportsAreEntries ==
  ASSUME PassInv, PlaceInv, NEW name
  PROVE  /\ \A k \in Placed : \A e \in EntriesOf(fork[k], secBase[k]) :
              e.name = name => e.addr \in ExportsOf(name)
         /\ \A a \in ExportsOf(name) : \E k \in Placed :
              \E e \in EntriesOf(fork[k], secBase[k]) : e.name = name /\ e.addr = a
<1> DEFINE Named(k) == {e \in Range(fork[k].exports) : e.name = name}
           Addresses(k) == {ExportAddress(fork[k], secBase[k], e) : e \in Named(k)}
<1>1. ExportsOf(name) = UNION {Addresses(k) : k \in Placed}
  BY DEF ExportsOf
<1>2. \A k \in Placed : /\ fork[k].exports \in Seq(ExportedSymbol)
                        /\ DOMAIN fork[k].exports = 1 .. Len(fork[k].exports)
  BY ForkParts, FragmentParts, LenProperties DEF PlaceInv
<1>3. ASSUME NEW k \in Placed, NEW e \in EntriesOf(fork[k], secBase[k]), e.name = name
      PROVE  e.addr \in ExportsOf(name)
  <2>1. PICK n \in 1 .. Len(fork[k].exports) : e = EntryOf(fork[k], secBase[k], fork[k].exports[n])
    BY DEF EntriesOf
  <2> DEFINE x == fork[k].exports[n]
  <2>2. x \in Range(fork[k].exports)
    BY <1>2 DEF Range
  <2> HIDE DEF x
  <2>3. e.name = x.name /\ e.addr = ExportAddress(fork[k], secBase[k], x)
    BY <2>1 DEF EntryOf, x
  <2>4. x \in Named(k)
    BY <1>3, <2>2, <2>3
  <2>5. e.addr \in Addresses(k)
    BY <2>3, <2>4
  <2> QED
    BY <1>1, <2>5
<1>4. ASSUME NEW a \in ExportsOf(name)
      PROVE  \E k \in Placed : \E e \in EntriesOf(fork[k], secBase[k]) : e.name = name /\ e.addr = a
  <2>1. PICK k \in Placed : a \in Addresses(k)
    BY <1>1
  <2>2. PICK x \in Range(fork[k].exports) : x.name = name /\ a = ExportAddress(fork[k], secBase[k], x)
    BY <2>1
  <2>3. PICK n \in 1 .. Len(fork[k].exports) : x = fork[k].exports[n]
    BY <1>2 DEF Range
  <2>4. EntryOf(fork[k], secBase[k], x) \in EntriesOf(fork[k], secBase[k])
    BY <2>3 DEF EntriesOf
  <2> QED
    BY <2>2, <2>4 DEF EntryOf
<1> QED
  BY <1>3, <1>4

LEMMA BoundIsServed ==
  ASSUME PassInv, BoundInv, NEW k \in DOMAIN bound, NEW n \in DOMAIN fork[k].imports
  PROVE  Served(bound[k][n], fork[k].imports[n], map, stubs)
<1>1. k \in DOMAIN fork
  BY DEF BoundInv
<1>2. DOMAIN fork[k].imports = 1 .. Len(fork[k].imports)
  BY <1>1, ForkParts, FragmentParts, LenProperties
<1> QED
  BY <1>2 DEF BoundInv

LEMMA ImportsFind ==
  ASSUME PassInv, PlaceInv, MapInv, BoundInv
  PROVE  ImportsFindTheirExport
<1>1. map \in Seq(Entry) /\ Len(map) <= MaxExports /\ Len(map) \in Nat /\ MaxExports \in Nat
  BY LenProperties, ForkAssumption DEF MapInv
<1> SUFFICES ASSUME NEW k \in DOMAIN bound, NEW n \in DOMAIN fork[k].imports
             PROVE  LET exports == ExportsOf(fork[k].imports[n])
                    IN  /\ \A a \in exports : exports = {a} /\ a # 0 /\ Len(map) < MaxExports
                             => bound[k][n] = Address(a)
                        /\ bound[k][n].to = "address" => bound[k][n].at \in exports
  BY <1>1 DEF ImportsFindTheirExport
<1> DEFINE name == fork[k].imports[n]
           b == bound[k][n]
<1>2. Served(b, name, map, stubs)
  BY BoundIsServed
<1>3. Found(map, name) = Lookup(name)
  BY DEF Found, Lookup
<1> HIDE DEF name, b
<1>4. /\ \A m \in 1 .. Len(map) : map[m].name = name => map[m].addr \in ExportsOf(name)
      /\ Len(map) < MaxExports =>
           \A a \in ExportsOf(name) : \E m \in 1 .. Len(map) : map[m].name = name /\ map[m].addr = a
  <2>1. ASSUME NEW m \in 1 .. Len(map), map[m].name = name
        PROVE  map[m].addr \in ExportsOf(name)
    <3>1. PICK j \in Placed : map[m] \in EntriesOf(fork[j], secBase[j])
      BY DEF MapInv
    <3> QED
      BY <2>1, <3>1, ExportsAreEntries
  <2>2. ASSUME Len(map) < MaxExports, NEW a \in ExportsOf(name)
        PROVE  \E m \in 1 .. Len(map) : map[m].name = name /\ map[m].addr = a
    <3>1. PICK j \in Placed : \E e \in EntriesOf(fork[j], secBase[j]) : e.name = name /\ e.addr = a
      BY ExportsAreEntries
    <3>2. PICK e \in EntriesOf(fork[j], secBase[j]) : e.name = name /\ e.addr = a
      BY <3>1
    <3>3. PICK m \in 1 .. Len(map) : map[m] = e
      BY <2>2 DEF MapInv
    <3> QED
      BY <3>2, <3>3
  <2> QED
    BY <2>1, <2>2
<1>5. \/ Lookup(name) = 0 /\ \A m \in 1 .. Len(map) : map[m].name # name
      \/ \E m \in 1 .. Len(map) : map[m].name = name /\ Lookup(name) = map[m].addr
  BY <1>1, LookupFinds
<1>6. ASSUME NEW a \in ExportsOf(name), ExportsOf(name) = {a}, a # 0, Len(map) < MaxExports
      PROVE  b = Address(a)
  <2>1. Lookup(name) \in ExportsOf(name)
    BY <1>4, <1>5, <1>6
  <2>2. Lookup(name) = a
    BY <1>6, <2>1
  <2> QED
    BY <1>2, <1>3, <1>6, <2>2 DEF Served
<1>7. ASSUME b.to = "address"
      PROVE  b.at \in ExportsOf(name)
  <2>1. Lookup(name) # 0 /\ b = Address(Lookup(name))
    <3>1. \A x : Stub(x).to = "stub" /\ Glue.to = "glue"
      BY DEF Stub, Glue
    <3>2. ~HasStub(b, Handler[name], stubs) /\ b # Glue
      BY <1>7, <3>1 DEF HasStub
    <3> QED
      BY <1>2, <1>3, <3>2 DEF Served
  <2>2. b.at = Lookup(name)
    BY <2>1 DEF Address
  <2>3. Lookup(name) \in ExportsOf(name)
    BY <1>4, <1>5, <2>1
  <2> QED
    BY <2>2, <2>3
<1> QED
  BY <1>6, <1>7 DEF name, b

LEMMA StubsServe ==
  ASSUME PassInv, BoundInv
  PROVE  StubsServeTheirName
<1>1. GoodTable(stubs) /\ DOMAIN stubs = 1 .. Len(stubs)
  BY LenProperties DEF BoundInv, GoodTable
<1>2. \A x, y \in DOMAIN stubs : x # y => stubs[x] # stubs[y] \/ stubs[x] = None
  BY <1>1 DEF GoodTable
<1>3. ASSUME NEW k \in DOMAIN bound, NEW n \in DOMAIN fork[k].imports
      PROVE  LET h == Handler[fork[k].imports[n]]
             IN  CASE bound[k][n].to = "stub" -> stubs[bound[k][n].at] = h
                   [] bound[k][n].to = "glue" -> h = None \/ Len(stubs) = MaxStubs
                   [] OTHER -> TRUE
  <2> DEFINE name == fork[k].imports[n]
             b == bound[k][n]
  <2>1. Served(b, name, map, stubs)
    BY BoundIsServed
  <2> HIDE DEF name, b
  <2>2. \/ b.to = "address"
        \/ b.to = "stub" /\ stubs[b.at] = Handler[name]
        \/ b.to = "glue" /\ (Handler[name] = None \/ Len(stubs) = MaxStubs)
    BY <2>1 DEF Served, HasStub, Address, Stub, Glue
  <2>3. CASE b.to = "address"
    BY <2>3 DEF b
  <2>4. CASE b.to = "stub" /\ stubs[b.at] = Handler[name]
    BY <2>4 DEF b, name
  <2>5. CASE b.to = "glue" /\ (Handler[name] = None \/ Len(stubs) = MaxStubs)
    BY <2>5 DEF b, name
  <2> QED
    BY <2>2, <2>3, <2>4, <2>5
<1> QED
  BY <1>2, <1>3 DEF StubsServeTheirName

\* An import finds the one export of its name, wherever in the fork it is and
\* whatever could not be expanded (NatCfmLoadSystem, NatCfmLookup).
THEOREM ImportsAreFound == Spec => []ImportsFindTheirExport
<1>1. PassInv /\ PlaceInv /\ MapInv /\ BoundInv => ImportsFindTheirExport
  BY ImportsFind
<1> QED
  BY <1>1, PlaceIsInvariant, MapIsInvariant, BoundIsInvariant, PTL

\* A stub answers for the names bound to it whatever the size of the table
\* (NatMemBindImport), and the handoff has its TOC where code is in its place.
THEOREM CallsReach ==
  ASSUME CodeInPlace
  PROVE  Spec => []CallsReachTheirTarget
<1>1. PassInv /\ BoundInv /\ EntryTocIsTheOwners => CallsReachTheirTarget
  BY StubsServe DEF CallsReachTheirTarget
<1>2. Spec => []EntryTocIsTheOwners
  BY EntryHasItsToc
<1> QED
  BY <1>1, <1>2, PlaceIsInvariant, BoundIsInvariant, PTL
=============================================================================
