---------------------------- MODULE MCHfsVolume ----------------------------
(* Two devices: the first empty or with an HFS+ volume, the second with a  *)
(* classic volume of two files cut into catalog extents and overflow       *)
(* records, these in every order, all of them or one missing, one more     *)
(* than the index holds.  Blocks of two bytes, files that end within one.  *)
EXTENDS HfsVolume

X(block, count) == [block |-> block, count |-> count]

MCFork == [f \in {5, 7} |-> IF f = 5 THEN <<2, 3, 6, 8, 9>> ELSE <<4, 5, 7, 1>>]

MCRecords ==
  {[id |-> 5, fabn |-> 2, exts |-> <<X(6, 1)>>],
   [id |-> 5, fabn |-> 3, exts |-> <<X(8, 1), X(9, 1)>>],
   [id |-> 7, fabn |-> 2, exts |-> <<X(7, 1)>>],
   [id |-> 7, fabn |-> 3, exts |-> <<X(1, 1)>>]}

MCOrders == UNION {{s \in [1 .. Cardinality(R) -> R] :
                      \A i, j \in 1 .. Cardinality(R) : s[i] = s[j] => i = j} :
                   R \in {R \in SUBSET MCRecords : Cardinality(R) \in {0, 3, 4}}}

MCClassic(order) ==
  [kind |-> "classic", fork |-> MCFork, ovf |-> order, catSize |-> 4, catRoom |-> 4,
   entries |-> {[id |-> 5, size |-> 9, exts |-> <<X(2, 2)>>],
                [id |-> 7, size |-> 8, exts |-> <<X(4, 1), X(5, 1)>>]}]

MCPlus ==
  [kind |-> "plus", fork |-> MCFork, ovf |-> <<>>, catSize |-> 4, catRoom |-> 4,
   entries |-> {[id |-> 5, size |-> 7, exts |-> <<X(2, 2), X(6, 1), X(8, 2)>>],
                [id |-> 7, size |-> 8, exts |-> <<X(4, 2), X(7, 1)>>]}]

MCDisks == {[i \in {0, 1} |-> IF i = 0 THEN first ELSE MCClassic(order)] :
              first \in {NoVolume, MCPlus}, order \in MCOrders}
=============================================================================
