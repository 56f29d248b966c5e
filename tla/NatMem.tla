------------------------------- MODULE NatMem -------------------------------
(***************************************************************************)
(* The host-side Mac OS Memory Manager (src/cpu/interpreter.c): one zone   *)
(* in guest RAM with a pool of master-pointer slots, whose free slots are  *)
(* chained through the slots themselves, and a heap that blocks are carved *)
(* from and never returned to.  Native code reaches it through host-bound  *)
(* imports, one call at a time.                                            *)
(*                                                                         *)
(* The guest holds handles and pointers it was given and disposes of a     *)
(* handle once.  What it writes into its blocks is left out, and so are    *)
(* the calls that only answer a register (HLock, MemError, PurgeMem ...).  *)
(***************************************************************************)
EXTENDS Naturals, FiniteSets

CONSTANTS
  WordMod,    \* 2^32: addresses and sizes are words
  BlockAddr,  \* NAT_MEM_BLOCK_ADDR: the first slot, of 8 bytes
  BlockEnd,   \* NAT_MEM_BLOCK_END
  HeapAddr,   \* NAT_MEM_HEAP_ADDR
  HeapEnd,    \* NAT_MEM_HEAP_END
  InitSlots,  \* 48 slots are freed when the zone is made
  Grow,       \* 32 more when NewHandle or MoreMasters(0) wants some
  Request,    \* the sizes the guest asks for
  Masters     \* the counts it passes to MoreMasters

ASSUME ZoneAssumption ==
  /\ {WordMod, BlockAddr, BlockEnd, HeapAddr, HeapEnd, InitSlots, Grow} \subseteq Nat
  /\ Request \subseteq 0 .. WordMod - 1
  /\ Masters \subseteq Nat
  /\ BlockAddr % 8 = 0 /\ 0 < BlockAddr /\ BlockAddr <= BlockEnd
  /\ HeapAddr % 4 = 0 /\ BlockEnd <= HeapAddr /\ HeapAddr <= HeapEnd
  /\ WordMod % 8 = 0 /\ HeapEnd < WordMod

SlotAddr == {BlockAddr + 8 * i : i \in 0 .. (BlockEnd - BlockAddr) \div 8}
Slot == {a \in SlotAddr : a + 8 <= BlockEnd}
Nil == 0

VARIABLES
  pool,     \* hfree: zone+8, the first free slot; bump: NatMemMpBump;
            \* free: NatMemFreeMps; cb: zone+12
  word,     \* what each slot holds: link + 1 if free, else a data address
  heapBump, \* NatMemHeapBump
  blocks,   \* the blocks handed out: data address, size, room reserved
  live,     \* the handles the guest holds
  r3        \* the result of the last call

vars == <<pool, word, heapBump, blocks, live, r3>>

-----------------------------------------------------------------------------
Smaller(a, b) == IF a < b THEN a ELSE b

\* NatMemAddFree(n): as many of n slots as the pool still has are pushed on
\* the chain, each linked to the one before it.
Added(p, n) == Smaller(n, (BlockEnd - p.bump) \div 8)

Fresh(p, n) == {p.bump + 8 * i : i \in 0 .. Added(p, n) - 1}

PoolAfter(p, n) ==
  [hfree |-> IF Added(p, n) = 0 THEN p.hfree ELSE p.bump + 8 * (Added(p, n) - 1),
   bump  |-> p.bump + 8 * Added(p, n),
   free  |-> p.free + Added(p, n),
   cb    |-> (p.cb + 32 * Added(p, n)) % WordMod]

\* Mutant of WordsAfter: the first new slot ends the chain.
WordsAfterCut(p, w, n) ==
  [s \in Slot |-> IF s \notin Fresh(p, n) THEN w[s]
                  ELSE IF s = p.bump THEN Nil + 1 ELSE s - 8 + 1]

WordsAfter(p, w, n) ==
  [s \in Slot |-> IF s \notin Fresh(p, n) THEN w[s]
                  ELSE IF s = p.bump THEN p.hfree + 1 ELSE s - 8 + 1]

\* NatMemInit, on the guest's zeroed memory.
EmptyPool == [hfree |-> Nil, bump |-> BlockAddr, free |-> 0, cb |-> 0]
Zeroed == [s \in Slot |-> 0]

Init ==
  /\ pool = PoolAfter(EmptyPool, InitSlots)
  /\ word = WordsAfter(EmptyPool, Zeroed, InitSlots)
  /\ heapBump = HeapAddr
  /\ blocks = {}
  /\ live = {}
  /\ r3 = 0

MoreMasters(n) ==
  LET m == IF n = 0 THEN Grow ELSE n
  IN /\ pool' = PoolAfter(pool, m)
     /\ word' = WordsAfter(pool, word, m)
     /\ r3' = 0
     /\ UNCHANGED <<heapBump, blocks, live>>

\* NatMemNewBlock(size): a header, the size rounded up to words, a guard
\* word; all of it in 32-bit arithmetic.
Data == heapBump + 4
Need(size) == (((size + 3) % WordMod) \div 4) * 4
NextBump(size) == (Data + Need(size) + 4) % WordMod
Fits(size) == NextBump(size) <= HeapEnd

\* Mutant of Carve: the rounded room is not reserved.
CarveUnrounded(size) ==
  /\ heapBump' = Data + size
  /\ blocks' = blocks \cup {[data |-> Data, size |-> size, need |-> Need(size)]}

Carve(size) ==
  /\ heapBump' = NextBump(size)
  /\ blocks' = blocks \cup {[data |-> Data, size |-> size, need |-> Need(size)]}

NewPtr(size) ==
  /\ IF Fits(size)
       THEN Carve(size) /\ r3' = Data
       ELSE UNCHANGED <<heapBump, blocks>> /\ r3' = Nil
  /\ UNCHANGED <<pool, word, live>>

\* NatMemPopFree grows the pool when the chain is empty.
Refilled == IF pool.hfree = Nil THEN PoolAfter(pool, Grow) ELSE pool
RefilledWords == IF pool.hfree = Nil THEN WordsAfter(pool, word, Grow) ELSE word

Unlink(link) == link - (link % 2)

NewHandle(size) ==
  /\ IF Refilled.hfree = Nil
       THEN /\ pool' = Refilled
            /\ word' = RefilledWords
            /\ r3' = Nil
            /\ UNCHANGED <<heapBump, blocks, live>>
       ELSE LET mp == Refilled.hfree
            IN /\ pool' = [Refilled EXCEPT !.hfree = Unlink(RefilledWords[mp]),
                                           !.free = @ - 1]
               /\ IF Fits(size)
                    THEN /\ Carve(size)
                         /\ word' = [RefilledWords EXCEPT ![mp] = Data]
                         /\ live' = live \cup {mp}
                         /\ r3' = mp
                    ELSE \* the slot is off the chain and no one has it
                         /\ word' = RefilledWords
                         /\ r3' = Nil
                         /\ UNCHANGED <<heapBump, blocks, live>>

\* Mutant of DisposeHandle: the slot is chained but still counted as used.
DisposeHandleUncounted(h) ==
  /\ h \in live
  /\ word' = [word EXCEPT ![h] = pool.hfree + 1]
  /\ pool' = [pool EXCEPT !.hfree = h]
  /\ live' = live \ {h}
  /\ r3' = 0
  /\ UNCHANGED <<heapBump, blocks>>

\* Mutant of DisposeHandle: the link is stored without its tag.
DisposeHandleUntagged(h) ==
  /\ h \in live
  /\ word' = [word EXCEPT ![h] = pool.hfree]
  /\ pool' = [pool EXCEPT !.hfree = h, !.free = @ + 1]
  /\ live' = live \ {h}
  /\ r3' = 0
  /\ UNCHANGED <<heapBump, blocks>>

\* The slot goes back on the chain; the block it pointed to does not come
\* back, nor does zone+12 change.
DisposeHandle(h) ==
  /\ h \in live
  /\ word' = [word EXCEPT ![h] = pool.hfree + 1]
  /\ pool' = [pool EXCEPT !.hfree = h, !.free = @ + 1]
  /\ live' = live \ {h}
  /\ r3' = 0
  /\ UNCHANGED <<heapBump, blocks>>

\* GetHandleSize reads the word before the block the handle points to.
GetHandleSize(h) ==
  /\ h \in live
  /\ \E b \in blocks : b.data = word[h] /\ r3' = b.size
  /\ UNCHANGED <<pool, word, heapBump, blocks, live>>

CompactMem ==
  /\ r3' = pool.cb
  /\ UNCHANGED <<pool, word, heapBump, blocks, live>>

Next == \/ \E n \in Masters : MoreMasters(n)
        \/ \E size \in Request : NewPtr(size) \/ NewHandle(size)
        \/ \E h \in live : DisposeHandle(h) \/ GetHandleSize(h)
        \/ CompactMem

Spec == Init /\ [][Next]_vars

-----------------------------------------------------------------------------
Issued == {s \in Slot : s < pool.bump}

\* The slot k links down the chain.
ChainAt == LET f[k \in Nat] == IF k = 0 THEN pool.hfree
                               ELSE IF f[k - 1] = Nil THEN Nil
                               ELSE Unlink(word[f[k - 1]])
           IN f

Chain == {ChainAt[k] : k \in 0 .. pool.free - 1}

(* The chain of free master pointers, which is linked through slots that   *)
(* are pushed, popped and pushed again in any order, is what the count     *)
(* says: free distinct slots, then the end, and no slot a guest holds is   *)
(* on it.  A slot that were linked twice would be handed to two owners.    *)
FreeChainIsSound ==
  /\ ChainAt[pool.free] = Nil
  /\ Cardinality(Chain) = pool.free
  /\ Chain \subseteq Issued \ live

(* Blocks lie in the heap below the bump and never overlap each other, the *)
(* size word in front and the guard word behind each of them included.     *)
BlocksApart ==
  /\ \A b \in blocks : HeapAddr <= b.data - 4 /\ b.data + b.size + 4 <= heapBump
  /\ heapBump <= HeapEnd
  /\ \A b, c \in blocks :
       b # c => b.data + b.size + 4 <= c.data - 4 \/ c.data + c.size + 4 <= b.data - 4

(* Every handle points at a block of its own, and the tag bit tells it     *)
(* from a free slot: the guest that dereferences a handle, and the host    *)
(* that walks the chain, never take the one for the other.                 *)
HandlesOwnTheirBlock ==
  /\ \A h \in live : word[h] \in {b.data : b \in blocks} /\ word[h] % 2 = 0
  /\ \A h, g \in live : word[h] = word[g] => h = g
  /\ \A s \in Chain : word[s] % 2 = 1

(* The heap the guest sees is sound, in whatever order blocks and master   *)
(* pointers were handed out and given back.                                *)
HeapIsSound == FreeChainIsSound /\ BlocksApart /\ HandlesOwnTheirBlock

(* No slot of the pool is lost by refilling, by popping or by disposing in *)
(* any order: only a NewHandle whose block does not fit drops the slot it  *)
(* has popped.                                                             *)
SlotsAreConserved ==
  [][\/ \E size \in Request : ~Fits(size) /\ NewHandle(size)
     \/ Chain \cup live \subseteq (Chain \cup live)']_vars
=============================================================================
