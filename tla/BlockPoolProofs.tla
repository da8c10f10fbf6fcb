-------------------------- MODULE BlockPoolProofs ---------------------------
(***************************************************************************)
(* Proofs about BlockPool: Inv is inductive, and it implies the properties *)
(* of the block pool for every number of blocks and requests.  There is    *)
(* one lemma per action.                                                   *)
(***************************************************************************)
EXTENDS BlockPool, FiniteSetTheorems, SequenceTheorems, TLAPS

-----------------------------------------------------------------------------
(* Sequences and counting                                                   *)

\* Removing an element from a sequence without duplicates, as
\* FreeKVCacheBlockQueue.remove does, removes exactly that element.
LEMMA RemoveBlockSpec ==
    ASSUME NEW q \in Seq(Block), NEW b \in ToSet(q),
           \A i, j \in DOMAIN q : q[i] = q[j] => i = j
    PROVE  /\ RemoveBlock(q, b) \in Seq(Block)
           /\ Len(RemoveBlock(q, b)) = Len(q) - 1
           /\ ToSet(RemoveBlock(q, b)) = ToSet(q) \ {b}
           /\ \A i, j \in DOMAIN RemoveBlock(q, b) :
                 RemoveBlock(q, b)[i] = RemoveBlock(q, b)[j] => i = j
<1> DEFINE k == CHOOSE i \in DOMAIN q : q[i] = b
           s == RemoveBlock(q, b)
<1>1. k \in 1 .. Len(q) /\ q[k] = b
  BY DEF ToSet
<1> DEFINE before == SubSeq(q, 1, k - 1)
           after  == SubSeq(q, k + 1, Len(q))
<1>2. s = before \o after
  BY DEF RemoveBlock, RemoveAt
<1> HIDE DEF k, s
<1>a. /\ before \in Seq(Block) /\ Len(before) = k - 1
      /\ \A i \in 1 .. k - 1 : before[i] = q[i]
  <2>1. \A i \in 1 .. k - 1 : q[i] \in Block
    BY <1>1
  <2> QED BY <1>1, <2>1, SubSeqProperties
<1>b. /\ after \in Seq(Block) /\ Len(after) = Len(q) - k
      /\ \A i \in 1 .. Len(q) - k : after[i] = q[k + i]
  <2>1. \A i \in k + 1 .. Len(q) : q[i] \in Block
    BY <1>1
  <2>2. k + 1 \in Int /\ Len(q) \in Int
    BY <1>1
  <2>3. /\ after \in Seq(Block)
        /\ Len(after) = IF k + 1 <= Len(q) THEN Len(q) - (k + 1) + 1 ELSE 0
        /\ \A i \in 1 .. Len(q) - (k + 1) + 1 : after[i] = q[k + 1 + i - 1]
    BY <2>1, <2>2, SubSeqProperties
  <2> QED BY <1>1, <2>3
<1> HIDE DEF before, after
<1>c. /\ s \in Seq(Block) /\ Len(s) = Len(before) + Len(after)
      /\ \A i \in 1 .. Len(before) + Len(after) :
            s[i] = IF i <= Len(before) THEN before[i] ELSE after[i - Len(before)]
  <2>1. before \in Seq(Block) /\ after \in Seq(Block)
    BY <1>a, <1>b
  <2>2. /\ before \o after \in Seq(Block)
        /\ Len(before \o after) = Len(before) + Len(after)
        /\ \A i \in 1 .. Len(before) + Len(after) :
              (before \o after)[i] = IF i <= Len(before) THEN before[i]
                                     ELSE after[i - Len(before)]
    BY <2>1, ConcatProperties, Zenon
  <2> QED BY <1>2, <2>2
<1>3. s \in Seq(Block) /\ Len(s) = Len(q) - 1
  BY <1>1, <1>a, <1>b, <1>c
<1>4. ASSUME NEW i \in 1 .. Len(q) - 1
      PROVE  s[i] = IF i < k THEN q[i] ELSE q[i + 1]
  <2>1. i \in 1 .. Len(before) + Len(after)
    BY <1>1, <1>a, <1>b
  <2>2. CASE i < k
    BY <2>1, <2>2, <1>1, <1>a, <1>c
  <2>3. CASE ~(i < k)
    <3>1. s[i] = after[i - (k - 1)] /\ i - (k - 1) \in 1 .. Len(q) - k
      BY <2>1, <2>3, <1>1, <1>a, <1>c
    <3>2. after[i - (k - 1)] = q[k + (i - (k - 1))]
      BY <3>1, <1>b
    <3>3. k + (i - (k - 1)) = i + 1
      BY <1>1
    <3> QED BY <2>3, <3>1, <3>2, <3>3
  <2> QED BY <2>2, <2>3
<1> DEFINE at(i) == IF i < k THEN i ELSE i + 1
<1>d. \A i \in 1 .. Len(s) : at(i) \in 1 .. Len(q) /\ at(i) # k /\ s[i] = q[at(i)]
  BY <1>1, <1>3, <1>4
<1>e. \A i, j \in 1 .. Len(s) : at(i) = at(j) => i = j
  BY <1>1, <1>3
<1> HIDE DEF at
<1>f. DOMAIN s = 1 .. Len(s) /\ DOMAIN q = 1 .. Len(q)
  BY <1>3
<1>5. \A i, j \in DOMAIN s : s[i] = s[j] => i = j
  BY <1>d, <1>e, <1>f
<1>6. ToSet(s) \subseteq ToSet(q) \ {b}
  BY <1>1, <1>d, <1>f DEF ToSet
<1>7. ASSUME NEW x \in ToSet(q) \ {b} PROVE x \in ToSet(s)
  <2>1. PICK i \in 1 .. Len(q) : q[i] = x /\ i # k
    BY <1>1 DEF ToSet
  <2>2. CASE i < k
    BY <2>1, <2>2, <1>1, <1>3, <1>4 DEF ToSet
  <2>3. CASE i > k
    <3>1. i - 1 \in 1 .. Len(s) /\ s[i - 1] = x
      BY <2>1, <2>3, <1>1, <1>3, <1>4
    <3> QED BY <3>1, <1>3 DEF ToSet
  <2> QED BY <2>1, <2>2, <2>3, <1>1
<1> QED BY <1>3, <1>5, <1>6, <1>7 DEF s

\* Appending an element adds it to the elements of the sequence.
LEMMA AppendSpec ==
    ASSUME NEW S, NEW q \in Seq(S), NEW x \in S
    PROVE  /\ Append(q, x) \in Seq(S) /\ Len(Append(q, x)) = Len(q) + 1
           /\ \A i \in 1 .. Len(q) : Append(q, x)[i] = q[i]
           /\ Append(q, x)[Len(q) + 1] = x
           /\ ToSet(Append(q, x)) = ToSet(q) \cup {x}
<1>1. PICK s : s = Append(q, x)
  OBVIOUS
<1>2. /\ s \in Seq(S) /\ Len(s) = Len(q) + 1 /\ s[Len(q) + 1] = x
      /\ \A i \in 1 .. Len(q) : s[i] = q[i]
  BY <1>1
<1>3. DOMAIN s = 1 .. Len(q) + 1 /\ DOMAIN q = 1 .. Len(q) /\ Len(q) \in Nat
  BY <1>2
<1>4. ToSet(s) \subseteq ToSet(q) \cup {x}
  BY <1>2, <1>3 DEF ToSet
<1>5. ToSet(q) \cup {x} \subseteq ToSet(s)
  BY <1>2, <1>3 DEF ToSet
<1> QED BY <1>1, <1>2, <1>4, <1>5

\* A set of holders is finite, and grows and shrinks by one.
LEMMA HoldersFinite ==
    ASSUME NEW S \in SUBSET Request
    PROVE  /\ IsFiniteSet(S) /\ Cardinality(S) \in Nat
           /\ (Cardinality(S) = 0 <=> S = {})
           /\ \A r \in Request \ S : Cardinality(S \cup {r}) = Cardinality(S) + 1
           /\ \A r \in S : Cardinality(S \ {r}) = Cardinality(S) - 1
<1>1. IsFiniteSet(S)
  BY FS_Subset, BlockPoolAssumption
<1> QED BY <1>1, FS_CardinalityType, FS_EmptySet, FS_AddElement, FS_RemoveElement

\* The same for sets of blocks.
LEMMA BlocksFinite ==
    ASSUME NEW S \in SUBSET Block
    PROVE  IsFiniteSet(S) /\ Cardinality(S) \in Nat
<1>1. IsFiniteSet(Block)
  BY FS_Interval, BlockPoolAssumption DEF Block
<1>2. IsFiniteSet(S)
  BY <1>1, FS_Subset
<1> QED BY <1>2, FS_CardinalityType

-----------------------------------------------------------------------------
(* The initial state                                                        *)

\* The pool as BlockPool.__init__ leaves it satisfies the invariant.
LEMMA InitInv == Init => Inv
<1> SUFFICES ASSUME Init PROVE Inv
  OBVIOUS
<1> USE BlockPoolAssumption DEF Init, Idle
<1>1. TypeOK
  BY DEF TypeOK, Block
<1>2. \A r \in Request : Held(r) = {}
  BY DEF Held, ToSet
<1>3. RefCountExact
  <2> SUFFICES ASSUME NEW b \in Block PROVE Cardinality(Holders(b)) = 0
    BY DEF RefCountExact
  <2>1. Holders(b) = {}
    BY <1>2 DEF Holders
  <2> QED BY <2>1, FS_EmptySet
<1>4. FreeQueueExact
  BY DEF FreeQueueExact, ToSet, Unqueued, Block
<1>5. CacheIndexExact /\ HeldBlocksKeepHash /\ UnpublishedIsPrivate
  BY DEF CacheIndexExact, HeldBlocksKeepHash, UnpublishedIsPrivate
<1>6. TablesWellFormed /\ LoopInvariant
  BY DEF TablesWellFormed, LoopInvariant, Distinct
<1> QED BY <1>1, <1>3, <1>4, <1>5, <1>6 DEF Inv

-----------------------------------------------------------------------------
(* Steps that only move the call in progress on                             *)

\* A step that changes op alone preserves the invariant, if it changes
\* neither what a request holds nor what waits to be queued.
LEMMA OpStep ==
    ASSUME Inv, UNCHANGED <<ref, hash, free, cache, table, cached>>,
           TypeOK', LoopInvariant',
           \A r \in Request : Held(r)' = Held(r),
           \A b \in Block : Unqueued(b)' <=> Unqueued(b)
    PROVE  Inv'
<1>1. \A b : Holders(b)' = Holders(b)
  BY DEF Holders
<1>2. RefCountExact'
  BY <1>1 DEF Inv, RefCountExact
<1>3. FreeQueueExact'
  BY DEF Inv, FreeQueueExact
<1>4. CacheIndexExact' /\ HeldBlocksKeepHash' /\ TablesWellFormed'
  BY DEF Inv, CacheIndexExact, HeldBlocksKeepHash, TablesWellFormed
<1>5. UnpublishedIsPrivate'
  BY <1>1 DEF Inv, UnpublishedIsPrivate
<1> QED BY <1>2, <1>3, <1>4, <1>5 DEF Inv

\* The type of the call in progress follows from the loop it is in.
LEMMA OpType ==
    ASSUME TypeOK
    PROVE  /\ op.loop \in {"touch", "new", "cache"} => op \in AllocOp /\ op.pos <= Len(op.blocks)
           /\ op.loop \in {"free", "enqueue"} => op \in FreeOp /\ op.pos <= Len(op.blocks)
  BY DEF TypeOK, AllocOp, FreeOp, Idle

\* allocate_slots enters its first loop: what was checked about the hits and
\* the free queue is what the loop relies on.
LEMMA BeginAllocateInv ==
    ASSUME Inv, NEW r \in Request, NEW n \in Nat, NEW hits \in [1 .. n -> Block],
           NEW new \in Nat, NEW upto \in Nat, BeginAllocate(r, hits, new, upto)
    PROVE  Inv'
<1> USE BlockPoolAssumption
<1>1. hits \in Seq(Block) /\ Len(hits) = n
  OBVIOUS
<1>2. /\ op.loop = "idle"
      /\ op' = Alloc("touch", r, hits, 0, new, upto)
      /\ UNCHANGED <<ref, hash, free, cache, table, cached>>
  BY DEF BeginAllocate, Idle
<1>3. op'.loop = "touch" /\ op'.req = r /\ op'.blocks = hits /\ op'.pos = 0
      /\ op'.new = new /\ op'.upto = upto
  BY <1>2 DEF Alloc
<1>4. TypeOK'
  <2>1. op' \in AllocOp
    BY <1>1, <1>2 DEF Alloc, AllocOp
  <2>2. op'.pos <= Len(op'.blocks)
    BY <1>1, <1>3
  <2> QED BY <1>2, <2>1, <2>2 DEF Inv, TypeOK
<1>5. TouchLoop'
  <2>1. hits # <<>> => Len(table[r]) = 0 /\ cached[r] = 0
    BY DEF BeginAllocate, IsHit, Inv, TypeOK, TablesWellFormed
  <2>2. Len(hits) <= Len(BlockHashes[r])
    BY <1>1 DEF BeginAllocate, IsHit
  <2>3. ASSUME NEW i \in 1 .. Len(hits) PROVE hash[hits[i]] = BlockHashes[r][i]
    BY <1>1, <2>2, SMTT(40) DEF BeginAllocate, IsHit, Inv, CacheIndexExact, TypeOK
  <2>4. Untouched' = ToSet(hits)
    BY <1>1, <1>3 DEF Untouched, ToSet
  <2>5. {b \in Untouched' : ref'[b] = 0} = Evictable(hits)
    BY <2>4, <1>2 DEF Evictable
  <2>6. new + Cardinality({b \in Untouched' : ref'[b] = 0}) <= Len(free)
    BY <2>5 DEF BeginAllocate, Fits
  <2>7. upto <= Len(table[r]) + Len(hits) + new
    BY DEF BeginAllocate
  <2>8. upto <= Len(table[r]) + (Len(hits) - 0) + new
    BY <1>1, <2>7
  <2>9. \A i \in 0 + 1 .. Len(hits) : hash[hits[i]] = BlockHashes[r][i]
    BY <2>3
  <2> QED BY <1>2, <1>3, <2>1, <2>2, <2>6, <2>8, <2>9 DEF TouchLoop
<1>6. LoopInvariant'
  BY <1>2, <1>3, <1>5 DEF LoopInvariant, BeginAllocate
<1>7. /\ \A s \in Request : Held(s)' = Held(s)
      /\ \A b \in Block : Unqueued(b)' <=> Unqueued(b)
  BY <1>2, <1>3 DEF Held, Unqueued
<1> QED BY <1>2, <1>4, <1>6, <1>7, OpStep

\* Leaving the touch loop: the queue covers the blocks still to be popped.
LEMMA EndTouchInv ==
    ASSUME Inv, EndTouch
    PROVE  Inv'
<1>1. /\ op.loop = "touch" /\ op \in AllocOp /\ op.pos = Len(op.blocks)
      /\ op' = [op EXCEPT !.loop = "new"]
      /\ UNCHANGED <<ref, hash, free, cache, table, cached>>
  BY OpType DEF Inv, EndTouch
<1>2. /\ op' \in AllocOp /\ op'.loop = "new" /\ op'.req = op.req /\ op'.blocks = op.blocks
      /\ op'.pos = op.pos /\ op'.new = op.new /\ op'.upto = op.upto
  BY <1>1 DEF AllocOp
<1>3. TypeOK'
  BY <1>1, <1>2 DEF Inv, TypeOK, AllocOp
<1>4. op.new <= Len(free) /\ op.upto <= Len(table[op.req]) + op.new
  <2>1. Untouched = {}
    BY <1>1 DEF Untouched, AllocOp
  <2>2. Cardinality({b \in Untouched : ref[b] = 0}) = 0
    BY <2>1, FS_EmptySet
  <2>3. TouchLoop
    BY <1>1 DEF Inv, LoopInvariant
  <2>4. Len(table[op.req]) \in Nat /\ Len(free) \in Nat /\ op.new \in Nat /\ op.upto \in Nat
        /\ Len(op.blocks) \in Nat
    BY <1>1 DEF Inv, TypeOK, AllocOp
  <2>5. op.new + 0 <= Len(free)
    BY <2>2, <2>3 DEF TouchLoop
  <2>6. op.upto <= Len(table[op.req]) + (Len(op.blocks) - Len(op.blocks)) + op.new
    BY <1>1, <2>3 DEF TouchLoop
  <2> QED BY <2>4, <2>5, <2>6
<1>5. LoopInvariant'
  BY <1>1, <1>2, <1>4 DEF Inv, LoopInvariant
<1>6. /\ \A r \in Request : Held(r)' = Held(r)
      /\ \A b \in Block : Unqueued(b)' <=> Unqueued(b)
  BY <1>1, <1>2 DEF Held, Unqueued
<1> QED BY <1>1, <1>3, <1>5, <1>6, OpStep

\* Leaving the loop of get_new_blocks: the table has all blocks to publish.
LEMMA EndNewInv ==
    ASSUME Inv, EndNew
    PROVE  Inv'
<1>1. /\ op.loop = "new" /\ op \in AllocOp /\ op.new = 0
      /\ op' = [op EXCEPT !.loop = "cache"]
      /\ UNCHANGED <<ref, hash, free, cache, table, cached>>
  BY OpType DEF Inv, EndNew
<1>2. /\ op' \in AllocOp /\ op'.loop = "cache" /\ op'.req = op.req /\ op'.blocks = op.blocks
      /\ op'.pos = op.pos /\ op'.upto = op.upto
  BY <1>1 DEF AllocOp
<1>3. TypeOK'
  BY <1>1, <1>2, OpType DEF Inv, TypeOK
<1>4. op.upto <= Len(table[op.req])
  BY <1>1 DEF Inv, LoopInvariant, TypeOK, AllocOp
<1>5. LoopInvariant'
  BY <1>1, <1>2, <1>4 DEF Inv, LoopInvariant
<1>6. /\ \A r \in Request : Held(r)' = Held(r)
      /\ \A b \in Block : Unqueued(b)' <=> Unqueued(b)
  BY <1>1, <1>2 DEF Held, Unqueued
<1> QED BY <1>1, <1>3, <1>5, <1>6, OpStep

\* The end of a call that allocates or publishes.
LEMMA EndCacheInv ==
    ASSUME Inv, EndCache
    PROVE  Inv'
<1>1. /\ op.loop = "cache" /\ op'.loop = "idle" /\ op' = Idle
      /\ UNCHANGED <<ref, hash, free, cache, table, cached>>
  BY DEF EndCache, Idle
<1>2. TypeOK' /\ LoopInvariant'
  BY <1>1 DEF Inv, TypeOK, LoopInvariant
<1>3. /\ \A r \in Request : Held(r)' = Held(r)
      /\ \A b \in Block : Unqueued(b)' <=> Unqueued(b)
  BY <1>1 DEF Held, Unqueued
<1> QED BY <1>1, <1>2, <1>3, OpStep

\* cache_blocks starts on blocks the table has.
LEMMA BeginCacheInv ==
    ASSUME Inv, NEW r \in Request, NEW upto \in Nat, BeginCache(r, upto)
    PROVE  Inv'
<1>1. /\ op.loop = "idle" /\ op' = Alloc("cache", r, <<>>, 0, 0, upto)
      /\ upto <= Len(table[r]) /\ upto <= Len(BlockHashes[r])
      /\ UNCHANGED <<ref, hash, free, cache, table, cached>>
  BY DEF BeginCache, Idle
<1>2. /\ op' \in AllocOp /\ op'.loop = "cache" /\ op'.req = r /\ op'.blocks = <<>>
      /\ op'.pos = 0 /\ op'.upto = upto
  BY <1>1 DEF Alloc, AllocOp
<1>3. TypeOK' /\ LoopInvariant'
  BY <1>1, <1>2 DEF Inv, TypeOK, LoopInvariant
<1>4. /\ \A s \in Request : Held(s)' = Held(s)
      /\ \A b \in Block : Unqueued(b)' <=> Unqueued(b)
  BY <1>1, <1>2 DEF Held, Unqueued
<1> QED BY <1>1, <1>3, <1>4, OpStep

\* Between the two loops of free_blocks: all references are dropped, and
\* the whole list is to be looked at again.
LEMMA EndReleaseInv ==
    ASSUME Inv, EndRelease
    PROVE  Inv'
<1>1. /\ op.loop = "free" /\ op \in FreeOp /\ op.pos = 0
      /\ op' = [op EXCEPT !.loop = "enqueue", !.pos = Len(op.blocks)]
      /\ UNCHANGED <<ref, hash, free, cache, table, cached>>
  BY OpType DEF Inv, EndRelease
<1>2. /\ op' \in FreeOp /\ op'.loop = "enqueue" /\ op'.req = op.req
      /\ op'.blocks = op.blocks /\ op'.pos = Len(op.blocks)
  <2>1. op.blocks \in Seq(Block) /\ Len(op.blocks) \in Nat /\ op.req \in Request
    BY <1>1 DEF FreeOp
  <2>2. op' = [loop |-> "enqueue", req |-> op.req, blocks |-> op.blocks,
               pos |-> Len(op.blocks)]
    BY <1>1 DEF FreeOp
  <2> QED BY <2>1, <2>2 DEF FreeOp
<1>3. TypeOK'
  BY <1>1, <1>2 DEF Inv, TypeOK, FreeOp
<1>4. LoopInvariant'
  BY <1>1, <1>2 DEF Inv, LoopInvariant
<1>5. \A r \in Request : Held(r)' = Held(r)
  BY <1>1, <1>2 DEF Held
<1>6. \A b \in Block : Unqueued(b)' <=> Unqueued(b)
  BY <1>1, <1>2 DEF Unqueued
<1> QED BY <1>1, <1>3, <1>4, <1>5, <1>6, OpStep

\* The end of free.
LEMMA EndEnqueueInv ==
    ASSUME Inv, EndEnqueue
    PROVE  Inv'
<1>1. /\ op.loop = "enqueue" /\ op.pos = 0 /\ op'.loop = "idle" /\ op' = Idle
      /\ UNCHANGED <<ref, hash, free, cache, table, cached>>
  BY DEF EndEnqueue, Idle
<1>2. TypeOK' /\ LoopInvariant'
  BY <1>1 DEF Inv, TypeOK, LoopInvariant
<1>3. /\ \A r \in Request : Held(r)' = Held(r)
      /\ \A b \in Block : Unqueued(b)' <=> Unqueued(b)
  BY <1>1 DEF Held, Unqueued
<1> QED BY <1>1, <1>2, <1>3, OpStep

-----------------------------------------------------------------------------
(* Steps that take a reference                                              *)

\* One more holder of b and one more reference to it keep the counts exact.
LEMMA AddHolder ==
    ASSUME TypeOK, RefCountExact, NEW b \in Block, NEW r \in Request, r \notin Holders(b),
           ref' = [ref EXCEPT ![b] = @ + 1],
           Holders(b)' = Holders(b) \cup {r},
           \A c \in Block \ {b} : Holders(c)' = Holders(c)
    PROVE  RefCountExact'
<1>1. Holders(b) \in SUBSET Request /\ r \in Request \ Holders(b)
  BY DEF Holders
<1>2. Cardinality(Holders(b) \cup {r}) = Cardinality(Holders(b)) + 1
  BY <1>1, HoldersFinite
<1>3. Cardinality(Holders(b)') = Cardinality(Holders(b)) + 1
  BY <1>2
<1> SUFFICES ASSUME NEW c \in Block PROVE ref'[c] = Cardinality(Holders(c)')
  BY DEF RefCountExact
<1>4. CASE c = b
  BY <1>3, <1>4 DEF RefCountExact, TypeOK
<1>5. CASE c # b
  BY <1>5 DEF RefCountExact, TypeOK
<1> QED BY <1>4, <1>5

\* Only an unreferenced block has no holder.
LEMMA UnreferencedIffUnheld ==
    ASSUME TypeOK, RefCountExact, NEW b \in Block
    PROVE  ref[b] = 0 <=> Holders(b) = {}
<1>1. Holders(b) \in SUBSET Request
  BY DEF Holders
<1>2. Cardinality(Holders(b)) = 0 <=> Holders(b) = {}
  BY <1>1, HoldersFinite
<1> QED BY <1>2 DEF RefCountExact

\* An iteration of touch.  The block is not in the table yet, because its
\* hash differs from the hashes of the blocks touched before it.
LEMMA TouchBlockInv ==
    ASSUME Inv, TouchBlock
    PROVE  Inv'
<1>a. /\ op.loop = "touch" /\ op \in AllocOp /\ op.pos < Len(op.blocks)
      /\ op.req \in Request /\ op.pos + 1 \in 1 .. Len(op.blocks)
      /\ op.new \in Nat /\ op.upto \in Nat /\ op.pos \in Nat /\ op.blocks \in Seq(Block)
  BY OpType DEF Inv, TouchBlock, AllocOp
<1>0. PICK BH : BH = BlockHashes[op.req]
  OBVIOUS
<1>b. PICK r \in Request, k \in 1 .. Len(op.blocks), b \in Block :
         r = op.req /\ k = op.pos + 1 /\ b = op.blocks[k] /\ BH = BlockHashes[op.req]
  BY <1>a, <1>0
<1>1. op.pos = k - 1 /\ k \in Nat /\ k <= Len(op.blocks) /\ Len(op.blocks) \in Nat
  BY <1>a, <1>b
<1>2. /\ op' = [op EXCEPT !.pos = k]
      /\ free' = IF ref[b] = 0 THEN RemoveBlock(free, b) ELSE free
      /\ ref' = [ref EXCEPT ![b] = @ + 1]
      /\ table' = [table EXCEPT ![r] = Append(@, b)]
      /\ cached' = [cached EXCEPT ![r] = @ + 1]
      /\ hash' = hash /\ cache' = cache
  BY <1>b DEF TouchBlock
<1>3. /\ op' \in AllocOp /\ op'.loop = "touch" /\ op'.req = r /\ op'.blocks = op.blocks
      /\ op'.pos = k /\ op'.new = op.new /\ op'.upto = op.upto
  <2>1. op \in AllocOp
    BY <1>a
  <2> QED BY <1>a, <1>b, <1>2, <2>1, SMTT(40) DEF AllocOp
<1>4. TouchLoop
  BY <1>a DEF Inv, LoopInvariant
<1>5. /\ Len(table[r]) = k - 1 /\ cached[r] = k - 1 /\ table[r] \in Seq(Block)
      /\ BH \in Seq(Hash) /\ Len(op.blocks) <= Len(BH)
      /\ \A i \in k .. Len(op.blocks) : hash[op.blocks[i]] = BH[i]
  <2>1. op.blocks # <<>>
    BY <1>1
  <2>2. Len(table[r]) = op.pos /\ cached[r] = op.pos
    BY <1>b, <1>4, <2>1 DEF TouchLoop
  <2>3. table[r] \in Seq(Block)
    BY DEF Inv, TypeOK
  <2>4. BH \in Seq(Hash) /\ Len(op.blocks) <= Len(BH)
    BY <1>b, <1>4, BlockPoolAssumption DEF TouchLoop
  <2>5. \A i \in op.pos + 1 .. Len(op.blocks) : hash[op.blocks[i]] = BH[i]
    BY <1>b, <1>4 DEF TouchLoop
  <2>6. op.pos + 1 = k
    BY <1>1
  <2> QED BY <1>1, <2>2, <2>3, <2>4, <2>5, <2>6
<1>c. \A i, j \in 1 .. Len(BH) : BH[i] = BH[j] => i = j
  BY <1>b, BlockPoolAssumption
<1>t. /\ ref \in [Block -> Nat] /\ free \in Seq(Block) /\ table \in [Request -> Seq(Block)]
      /\ cached \in [Request -> Nat]
  BY DEF Inv, TypeOK
<1>6. hash[b] = BH[k] /\ hash[b] \in Hash
  <2>1. k \in k .. Len(op.blocks) /\ Len(op.blocks) <= Len(BH) /\ BH \in Seq(Hash)
    BY <1>1, <1>5
  <2>2. hash[op.blocks[k]] = BH[k]
    BY <1>5, <2>1
  <2>3. k \in 1 .. Len(BH)
    BY <1>1, <2>1
  <2>4. BH[k] \in Hash
    BY <2>1, <2>3
  <2> QED BY <1>b, <2>2, <2>4
<1>7. b \notin ToSet(table[r])
  <2> SUFFICES ASSUME NEW i \in 1 .. Len(table[r]) PROVE table[r][i] # b
    BY <1>5, SMTT(40) DEF ToSet
  <2>1. hash[table[r][i]] = BH[i]
    BY <1>b, <1>1, <1>5, SMTT(40) DEF Inv, HeldBlocksKeepHash
  <2>2. i # k /\ i \in 1 .. Len(BH) /\ k \in 1 .. Len(BH)
    BY <1>1, <1>5
  <2> QED BY <1>6, <1>c, <2>1, <2>2
<1>8. ToSet(Append(table[r], b)) = ToSet(table[r]) \cup {b}
  BY <1>5, AppendSpec
<1>9. /\ \A s \in Request : Held(s) = ToSet(table[s]) /\ Held(s)' = ToSet(table'[s])
      /\ \A c \in Block : ~Unqueued(c) /\ ~Unqueued(c)'
  BY <1>a, <1>3 DEF Held, Unqueued
<1>10. /\ r \notin Holders(b) /\ Holders(b)' = Holders(b) \cup {r}
       /\ \A c \in Block \ {b} : Holders(c)' = Holders(c)
  <2>1. \A s \in Request : ToSet(table'[s]) = IF s = r THEN ToSet(table[s]) \cup {b}
                                               ELSE ToSet(table[s])
    BY <1>2, <1>8, <1>t
  <2> QED BY <1>7, <1>9, <2>1 DEF Holders
<1>11. RefCountExact'
  BY <1>2, <1>10, AddHolder DEF Inv
<1>12. /\ ref[b] = 0 => /\ free' \in Seq(Block) /\ Len(free') = Len(free) - 1
                        /\ ToSet(free') = ToSet(free) \ {b}
       /\ ref[b] # 0 => free' = free
       /\ \A i, j \in DOMAIN free' : free'[i] = free'[j] => i = j
  <2>1. CASE ref[b] = 0
    <3>1. b \in ToSet(free) /\ \A i, j \in DOMAIN free : free[i] = free[j] => i = j
      BY <1>9, <2>1 DEF Inv, FreeQueueExact
    <3>2. free' = RemoveBlock(free, b)
      BY <1>2, <2>1
    <3> QED BY <1>t, <2>1, <3>1, <3>2, RemoveBlockSpec
  <2>2. CASE ref[b] # 0
    BY <1>2, <2>2 DEF Inv, FreeQueueExact
  <2> QED BY <2>1, <2>2
<1>13. TypeOK'
  <2>1. ref' \in [Block -> Nat]
    BY <1>2, <1>t
  <2>2. free' \in Seq(Block)
    BY <1>12, <1>t
  <2>3. table' \in [Request -> Seq(Block)]
    BY <1>2, <1>5, <1>t
  <2>4. cached' \in [Request -> Nat]
    BY <1>2, <1>t
  <2>5. op' \in AllocOp /\ op'.pos <= Len(op'.blocks)
    BY <1>1, <1>3
  <2> QED BY <1>2, <2>1, <2>2, <2>3, <2>4, <2>5 DEF Inv, TypeOK
<1>14. FreeQueueExact'
  <2> SUFFICES ASSUME NEW c \in Block PROVE c \in ToSet(free') <=> ref'[c] = 0
    BY <1>9, <1>12 DEF FreeQueueExact
  <2>1. c \in ToSet(free) <=> ref[c] = 0
    BY <1>9 DEF Inv, FreeQueueExact
  <2>2. ref'[b] # 0 /\ (c # b => ref'[c] = ref[c])
    BY <1>2, <1>t
  <2> QED BY <1>12, <2>1, <2>2
<1>15. CacheIndexExact'
  BY <1>2 DEF Inv, CacheIndexExact
<1>16. \A s \in Request : s # r => table'[s] = table[s] /\ cached'[s] = cached[s]
  BY <1>2, <1>t
<1>17. /\ table'[r] = Append(table[r], b) /\ cached'[r] = k /\ Len(table'[r]) = k
       /\ table'[r][k] = b /\ \A i \in 1 .. k - 1 : table'[r][i] = table[r][i]
  <2>1. table'[r] = Append(table[r], b) /\ cached'[r] = k
    BY <1>1, <1>2, <1>5, <1>t
  <2> QED BY <1>1, <1>5, <2>1
<1>18. HeldBlocksKeepHash'
  <2> SUFFICES ASSUME NEW s \in Request, NEW i \in 1 .. Len(table'[s]), i <= cached'[s]
               PROVE  hash[table'[s][i]] = BlockHashes[s][i]
    BY <1>2 DEF HeldBlocksKeepHash
  <2>1. CASE s # r
    BY <1>16, <2>1 DEF Inv, HeldBlocksKeepHash
  <2>2. CASE s = r /\ i = k
    BY <1>b, <1>6, <1>17, <2>2
  <2>3. CASE s = r /\ i # k
    <3>1. i \in 1 .. k - 1
      BY <1>1, <1>17, <2>3
    <3>2. hash[table[r][i]] = BlockHashes[r][i]
      BY <1>5, <3>1 DEF Inv, HeldBlocksKeepHash
    <3> QED BY <1>17, <2>3, <3>1, <3>2
  <2> QED BY <2>1, <2>2, <2>3
<1>19. UnpublishedIsPrivate'
  <2> SUFFICES ASSUME NEW s \in Request, NEW i \in cached'[s] + 1 .. Len(table'[s]),
                      NEW c, c = table'[s][i]
               PROVE  hash[c] = NoHash /\ Holders(c)' = {s}
    BY <1>2 DEF UnpublishedIsPrivate, Holders
  <2>1. s # r
    BY <1>1, <1>17
  <2>2. i \in cached[s] + 1 .. Len(table[s]) /\ c = table[s][i]
    BY <1>16, <2>1
  <2>3. hash[c] = NoHash /\ Holders(c) = {s}
    BY <2>2 DEF Inv, UnpublishedIsPrivate
  <2>4. c \in Block
    BY <2>2, <1>t
  <2>5. c # b
    BY <1>6, <2>3, BlockPoolAssumption
  <2> QED BY <1>10, <2>3, <2>4, <2>5
<1>20. TablesWellFormed'
  <2> SUFFICES ASSUME NEW s \in Request
               PROVE  /\ Distinct(table'[s]) /\ cached'[s] <= Len(table'[s])
                      /\ cached'[s] <= Len(BlockHashes[s])
    BY DEF TablesWellFormed, Distinct
  <2>1. CASE s # r
    BY <1>16, <2>1 DEF Inv, TablesWellFormed, Distinct
  <2>2. CASE s = r
    <3>1. \A i, j \in 1 .. k - 1 : table[r][i] = table[r][j] => i = j
      BY <1>5 DEF Inv, TablesWellFormed, Distinct
    <3>2. \A i \in 1 .. k - 1 : table[r][i] # b
      BY <1>5, <1>7 DEF ToSet
    <3>3. Distinct(table'[r])
      BY <1>1, <1>17, <3>1, <3>2 DEF Distinct
    <3>4. k <= k /\ k <= Len(BH)
      BY <1>1, <1>5
    <3> QED BY <1>b, <1>17, <2>2, <3>3, <3>4
  <2> QED BY <2>1, <2>2
<1>21. op.new + Cardinality({c \in Untouched' : ref'[c] = 0}) <= Len(free')
  <2>1. PICK W, X : W = Untouched /\ X = Untouched'
    OBVIOUS
  <2>2. PICK U, V : U = {c \in W : ref[c] = 0} /\ V = {c \in X : ref'[c] = 0}
    OBVIOUS
  <2>3. X = {op.blocks[i] : i \in k + 1 .. Len(op.blocks)} /\ X \subseteq Block
    BY <1>a, <1>1, <1>3, <2>1 DEF Untouched
  <2>4. W = {op.blocks[i] : i \in k .. Len(op.blocks)} /\ W \subseteq Block
    BY <1>a, <1>1, <2>1 DEF Untouched
  <2>5. W = X \cup {b}
    <3>1. k .. Len(op.blocks) = (k + 1 .. Len(op.blocks)) \cup {k}
      BY <1>1
    <3> QED BY <1>b, <2>3, <2>4, <3>1
  <2>6. b \notin X
    <3> SUFFICES ASSUME NEW i \in k + 1 .. Len(op.blocks) PROVE op.blocks[i] # b
      BY <2>3
    <3>1. hash[op.blocks[i]] = BH[i] /\ i # k /\ i \in 1 .. Len(BH) /\ k \in 1 .. Len(BH)
      BY <1>1, <1>5
    <3> QED BY <1>6, <1>c, <3>1
  <2>7. \A c \in X : ref'[c] = ref[c]
    BY <1>2, <1>t, <2>3, <2>6
  <2>8. V \in SUBSET Block /\ U \in SUBSET Block
    BY <2>2, <2>3, <2>4
  <2>9. IsFiniteSet(V) /\ Cardinality(V) \in Nat /\ Cardinality(U) \in Nat
    BY <2>8, BlocksFinite
  <2>10. op.new + Cardinality(U) <= Len(free) /\ Len(free) \in Nat /\ op.new \in Nat
    <3>1. U = {c \in Untouched : ref[c] = 0}
      BY <2>1, <2>2
    <3>2. op.new + Cardinality({c \in Untouched : ref[c] = 0}) <= Len(free)
      BY <1>4 DEF TouchLoop
    <3> QED BY <1>a, <1>t, <3>1, <3>2, SMTT(40)
  <2>11. op.new + Cardinality(V) <= Len(free')
    <3>1. CASE ref[b] = 0
      <4>1. U = V \cup {b} /\ b \notin V
        BY <2>2, <2>5, <2>6, <2>7, <3>1
      <4>2. Cardinality(V \cup {b}) = Cardinality(V) + 1
        BY <2>9, <4>1, FS_AddElement
      <4> QED BY <1>12, <2>9, <2>10, <3>1, <4>1, <4>2
    <3>2. CASE ref[b] # 0
      <4>1. U = V
        BY <2>2, <2>5, <2>6, <2>7, <3>2
      <4> QED BY <1>12, <2>10, <3>2, <4>1
    <3> QED BY <3>1, <3>2
  <2> QED BY <2>1, <2>2, <2>11
<1>22. LoopInvariant'
  <2>1. Len(table[r]) + (Len(op.blocks) - (k - 1)) = k + (Len(op.blocks) - k)
    BY <1>1, <1>5
  <2>2. op.upto <= Len(table'[r]) + (Len(op.blocks) - k) + op.new
    BY <1>b, <1>1, <1>4, <1>17, <2>1 DEF TouchLoop
  <2>3. \A i \in k + 1 .. Len(op.blocks) : hash[op.blocks[i]] = BH[i]
    BY <1>1, <1>5
  <2>4. TouchLoop'
    <3>1. hash' = hash /\ BH = BlockHashes[r]
      BY <1>b, <1>2
    <3>2. Len(op.blocks) <= Len(BlockHashes[r])
      BY <1>5, <3>1
    <3>3. \A i \in k + 1 .. Len(op.blocks) : hash'[op.blocks[i]] = BlockHashes[r][i]
      BY <2>3, <3>1
    <3>4. Len(table'[r]) = k /\ cached'[r] = k
      BY <1>17
    <3> QED BY <1>3, <1>21, <2>2, <3>2, <3>3, <3>4, SMTT(40) DEF TouchLoop
  <2> QED BY <1>a, <1>b, <1>3, <2>4 DEF Inv, LoopInvariant
<1> QED BY <1>11, <1>13, <1>14, <1>15, <1>18, <1>19, <1>20, <1>22 DEF Inv

\* An iteration of get_new_blocks.  The popped block is unreferenced, so no
\* table lists it and evicting it takes no hash away from a block in use.
LEMMA GetNewBlockInv ==
    ASSUME Inv, GetNewBlock
    PROVE  Inv'
<1>a. /\ op.loop = "new" /\ op \in AllocOp /\ op.pos <= Len(op.blocks)
      /\ op.new \in Nat /\ op.new > 0 /\ op.new <= Len(free) /\ op.req \in Request
      /\ op.upto \in Nat /\ op.upto <= Len(table[op.req]) + op.new
  BY OpType DEF Inv, LoopInvariant, GetNewBlock, AllocOp
<1>t. /\ ref \in [Block -> Nat] /\ free \in Seq(Block) /\ table \in [Request -> Seq(Block)]
      /\ cached \in [Request -> Nat] /\ hash \in [Block -> Hash \cup {NoHash}]
      /\ cache \in [Hash -> SUBSET Block] /\ NoHash \notin Hash
  BY BlockPoolAssumption DEF Inv, TypeOK
<1>1. free # <<>> /\ Len(free) \in Nat /\ Len(free) > 0
  BY <1>a, <1>t
<1>b. PICK r \in Request, b \in Block : r = op.req /\ b = Head(free)
  BY <1>a, <1>1, <1>t
<1>2. /\ op' = [op EXCEPT !.new = @ - 1]
      /\ free' = Tail(free)
      /\ hash' = [hash EXCEPT ![b] = NoHash]
      /\ cache' = EvictedFrom(cache, b)
      /\ ref' = [ref EXCEPT ![b] = @ + 1]
      /\ table' = [table EXCEPT ![r] = Append(@, b)]
      /\ cached' = cached
  BY <1>b DEF GetNewBlock
<1>3. /\ op' \in AllocOp /\ op'.loop = "new" /\ op'.req = r /\ op'.blocks = op.blocks
      /\ op'.pos = op.pos /\ op'.new = op.new - 1 /\ op'.upto = op.upto
  <2>1. op \in AllocOp
    BY <1>a
  <2> QED BY <1>a, <1>b, <1>2, <2>1, SMTT(40) DEF AllocOp
<1>4. /\ \A s \in Request : Held(s) = ToSet(table[s]) /\ Held(s)' = ToSet(table'[s])
      /\ \A c \in Block : ~Unqueued(c) /\ ~Unqueued(c)'
  BY <1>a, <1>3 DEF Held, Unqueued
<1>5. /\ free' \in Seq(Block) /\ Len(free') = Len(free) - 1 /\ free[1] = b
      /\ \A i \in 1 .. Len(free') : free'[i] = free[i + 1]
  BY <1>b, <1>1, <1>2, <1>t, HeadTailProperties
<1>6. \A i, j \in 1 .. Len(free) : free[i] = free[j] => i = j
  BY <1>t DEF Inv, FreeQueueExact
<1>7. ToSet(free') = ToSet(free) \ {b}
  <2>1. DOMAIN free = 1 .. Len(free) /\ DOMAIN free' = 1 .. Len(free) - 1
    BY <1>5, <1>t
  <2>2. ToSet(free') \subseteq ToSet(free) \ {b}
    BY <1>1, <1>5, <1>6, <2>1 DEF ToSet
  <2>3. ASSUME NEW x \in ToSet(free) \ {b} PROVE x \in ToSet(free')
    <3>1. PICK i \in 1 .. Len(free) : free[i] = x /\ i # 1
      BY <1>5, <2>1 DEF ToSet
    <3>2. i - 1 \in 1 .. Len(free) - 1 /\ free'[i - 1] = free[i]
      BY <1>1, <1>5, <3>1
    <3> QED BY <2>1, <3>1, <3>2 DEF ToSet
  <2> QED BY <2>2, <2>3
<1>8. ref[b] = 0 /\ Holders(b) = {}
  <2>0. 1 \in DOMAIN free
    BY <1>1, <1>t
  <2>1. b \in ToSet(free)
    BY <1>5, <2>0 DEF ToSet
  <2>2. ref[b] = 0
    BY <1>4, <2>1 DEF Inv, FreeQueueExact
  <2> QED BY <2>2, UnreferencedIffUnheld DEF Inv
<1>9. \A s \in Request : \A i \in 1 .. Len(table[s]) : table[s][i] # b
  <2>1. \A s \in Request : b \notin ToSet(table[s])
    BY <1>4, <1>8 DEF Holders
  <2> QED BY <1>t, <2>1 DEF ToSet
<1>10. /\ table'[r] = Append(table[r], b) /\ Len(table[r]) \in Nat
       /\ Len(table'[r]) = Len(table[r]) + 1 /\ table'[r][Len(table[r]) + 1] = b
       /\ \A i \in 1 .. Len(table[r]) : table'[r][i] = table[r][i]
       /\ ToSet(table'[r]) = ToSet(table[r]) \cup {b} /\ table'[r] \in Seq(Block)
  <2>1. table'[r] = Append(table[r], b) /\ table[r] \in Seq(Block)
    BY <1>2, <1>t
  <2> QED BY <2>1, AppendSpec
<1>11. \A s \in Request : s # r => table'[s] = table[s]
  BY <1>2, <1>t
<1>12. /\ Holders(b)' = Holders(b) \cup {r}
       /\ \A c \in Block \ {b} : Holders(c)' = Holders(c)
  <2>1. \A s \in Request : ToSet(table'[s]) = IF s = r THEN ToSet(table[s]) \cup {b}
                                               ELSE ToSet(table[s])
    BY <1>10, <1>11
  <2>2. Holders(b)' = Holders(b) \cup {r}
    BY <1>4, <2>1 DEF Holders
  <2>3. ASSUME NEW c \in Block \ {b} PROVE Holders(c)' = Holders(c)
    BY <1>4, <2>1 DEF Holders
  <2> QED BY <2>2, <2>3
<1>13. RefCountExact'
  BY <1>2, <1>8, <1>12, AddHolder DEF Inv
<1>14. TypeOK'
  <2>1. ref' \in [Block -> Nat] /\ hash' \in [Block -> Hash \cup {NoHash}]
    BY <1>2, <1>t
  <2>2. cache' \in [Hash -> SUBSET Block]
    BY <1>2, <1>t DEF EvictedFrom
  <2>3. table' \in [Request -> Seq(Block)]
    BY <1>2, <1>10, <1>t
  <2>4. op'.pos <= Len(op'.blocks)
    BY <1>a, <1>3
  <2> QED BY <1>2, <1>3, <1>5, <1>t, <2>1, <2>2, <2>3, <2>4 DEF TypeOK
<1>15. FreeQueueExact'
  <2>1. \A i, j \in DOMAIN free' : free'[i] = free'[j] => i = j
    <3>1. DOMAIN free' = 1 .. Len(free) - 1
      BY <1>5
    <3> SUFFICES ASSUME NEW i \in 1 .. Len(free) - 1, NEW j \in 1 .. Len(free) - 1,
                        free'[i] = free'[j]
                 PROVE  i = j
      BY <3>1
    <3>2. free[i + 1] = free[j + 1] /\ i + 1 \in 1 .. Len(free) /\ j + 1 \in 1 .. Len(free)
      BY <1>1, <1>5
    <3>3. i + 1 = j + 1
      BY <1>6, <3>2
    <3> QED BY <3>3
  <2>2. ASSUME NEW c \in Block PROVE c \in ToSet(free') <=> ref'[c] = 0
    <3>1. c \in ToSet(free) <=> ref[c] = 0
      BY <1>4 DEF Inv, FreeQueueExact
    <3>2. ref'[b] # 0 /\ (c # b => ref'[c] = ref[c])
      BY <1>2, <1>t
    <3> QED BY <1>7, <3>1, <3>2
  <2> QED BY <1>4, <2>1, <2>2 DEF FreeQueueExact
<1>16. \A c \in Block : hash'[c] = IF c = b THEN NoHash ELSE hash[c]
  BY <1>2, <1>t
<1>17. CacheIndexExact'
  <2> SUFFICES ASSUME NEW h \in Hash, NEW c \in Block PROVE c \in cache'[h] <=> hash'[c] = h
    BY DEF CacheIndexExact
  <2>1. cache'[h] = cache[h] \ {b}
    BY <1>2 DEF EvictedFrom
  <2>2. c \in cache[h] <=> hash[c] = h
    BY DEF Inv, CacheIndexExact
  <2> QED BY <1>16, <1>t, <2>1, <2>2
<1>18. HeldBlocksKeepHash'
  <2> SUFFICES ASSUME NEW s \in Request, NEW i \in 1 .. Len(table'[s]), i <= cached[s]
               PROVE  hash'[table'[s][i]] = BlockHashes[s][i]
    BY <1>2 DEF HeldBlocksKeepHash
  <2>1. cached[s] <= Len(table[s]) /\ Len(table[s]) \in Nat /\ cached[s] \in Nat
    BY <1>t DEF Inv, TablesWellFormed
  <2>2. i \in 1 .. Len(table[s]) /\ table'[s][i] = table[s][i]
    BY <1>10, <1>11, <2>1, SMTT(40)
  <2>3. hash[table[s][i]] = BlockHashes[s][i]
    BY <2>2 DEF Inv, HeldBlocksKeepHash
  <2>4. table[s][i] \in Block /\ table[s][i] # b
    BY <1>9, <1>t, <2>2
  <2> QED BY <1>16, <2>2, <2>3, <2>4
<1>19. UnpublishedIsPrivate'
  <2> SUFFICES ASSUME NEW s \in Request, NEW i \in cached'[s] + 1 .. Len(table'[s]),
                      NEW c, c = table'[s][i]
               PROVE  hash'[c] = NoHash /\ Holders(c)' = {s}
    BY DEF UnpublishedIsPrivate, Holders
  <2>0. i \in cached[s] + 1 .. Len(table'[s]) /\ cached[s] \in Nat
    BY <1>2, <1>t
  <2>1. CASE c = b
    <3>1. s = r
      <4> SUFFICES ASSUME s # r PROVE FALSE
        OBVIOUS
      <4>1. i \in 1 .. Len(table[s]) /\ c = table[s][i]
        BY <1>11, <1>t, <2>0
      <4> QED BY <1>9, <2>1, <4>1
    <3> QED BY <1>8, <1>12, <1>16, <2>1, <3>1
  <2>2. CASE c # b
    <3>1. i \in cached[s] + 1 .. Len(table[s]) /\ c = table[s][i]
      <4>1. CASE s # r
        BY <1>11, <2>0, <4>1
      <4>2. CASE s = r
        <5>1. i # Len(table[r]) + 1
          BY <1>10, <2>2, <4>2
        <5>2. i \in 1 .. Len(table[r]) /\ i >= cached[r] + 1
          BY <1>10, <2>0, <4>2, <5>1
        <5> QED BY <1>10, <2>0, <4>2, <5>2, SMTT(40)
      <4> QED BY <4>1, <4>2
    <3>2. hash[c] = NoHash /\ Holders(c) = {s}
      BY <3>1 DEF Inv, UnpublishedIsPrivate
    <3>3. c \in Block
      <4>1. i \in 1 .. Len(table[s]) /\ table[s] \in Seq(Block)
        BY <1>t, <2>0, <3>1
      <4> QED BY <3>1, <4>1
    <3> QED BY <1>12, <1>16, <2>2, <3>2, <3>3
  <2> QED BY <2>1, <2>2
<1>20. TablesWellFormed'
  <2> SUFFICES ASSUME NEW s \in Request
               PROVE  /\ Distinct(table'[s]) /\ cached[s] <= Len(table'[s])
                      /\ cached[s] <= Len(BlockHashes[s])
    BY <1>2 DEF TablesWellFormed, Distinct
  <2>1. /\ Distinct(table[s]) /\ cached[s] <= Len(table[s])
        /\ cached[s] <= Len(BlockHashes[s]) /\ cached[s] \in Nat
    BY <1>t DEF Inv, TablesWellFormed
  <2>2. CASE s # r
    BY <1>11, <2>1, <2>2
  <2>3. CASE s = r
    <3>1. Distinct(table'[r])
      BY <1>9, <1>10, <2>1, <2>3 DEF Distinct
    <3>2. cached[r] <= Len(table'[r])
      BY <1>10, <2>1, <2>3
    <3> QED BY <2>1, <2>3, <3>1, <3>2
  <2> QED BY <2>2, <2>3
<1>21. LoopInvariant'
  <2>1. op'.new <= Len(free') /\ op'.upto <= Len(table'[r]) + op'.new
    BY <1>a, <1>b, <1>1, <1>3, <1>5, <1>10
  <2> QED BY <1>a, <1>b, <1>3, <2>1 DEF Inv, LoopInvariant
<1> QED BY <1>13, <1>14, <1>15, <1>17, <1>18, <1>19, <1>20, <1>21 DEF Inv

-----------------------------------------------------------------------------
(* Publishing                                                               *)

\* An iteration of cache_full_blocks.  The block has no hash and no other
\* holder, so giving it one changes no hash that a request relies on.
LEMMA CacheBlockInv ==
    ASSUME Inv, CacheBlock
    PROVE  Inv'
<1>a. /\ op.loop = "cache" /\ op \in AllocOp /\ op.req \in Request /\ op.upto \in Nat
      /\ cached[op.req] < op.upto
      /\ op.upto <= Len(table[op.req]) /\ op.upto <= Len(BlockHashes[op.req])
  BY OpType DEF Inv, LoopInvariant, CacheBlock, AllocOp
<1>t. /\ table \in [Request -> Seq(Block)] /\ cached \in [Request -> Nat]
      /\ hash \in [Block -> Hash \cup {NoHash}] /\ cache \in [Hash -> SUBSET Block]
      /\ NoHash \notin Hash /\ BlockHashes \in [Request -> Seq(Hash)]
  BY BlockPoolAssumption DEF Inv, TypeOK
<1>b. PICK r \in Request, k \in Nat : r = op.req /\ k = cached[r] + 1
  BY <1>a, <1>t
<1>1. /\ k \in cached[r] + 1 .. Len(table[r]) /\ k \in 1 .. Len(BlockHashes[r])
      /\ k \in 1 .. Len(table[r]) /\ k <= op.upto /\ cached[r] = k - 1
  BY <1>a, <1>b, <1>t
<1>c. PICK b \in Block, h \in Hash : b = table[r][k] /\ h = BlockHashes[r][k]
  BY <1>1, <1>t
<1>2. /\ hash' = [hash EXCEPT ![b] = h]
      /\ cache' = [cache EXCEPT ![h] = @ \cup {b}]
      /\ cached' = [cached EXCEPT ![r] = k]
      /\ ref' = ref /\ free' = free /\ table' = table /\ op' = op
  BY <1>b, <1>c DEF CacheBlock
<1>3. hash[b] = NoHash /\ Holders(b) = {r}
  BY <1>1, <1>c DEF Inv, UnpublishedIsPrivate
<1>4. /\ \A c \in Block : hash'[c] = IF c = b THEN h ELSE hash[c]
      /\ \A g \in Hash : cache'[g] = IF g = h THEN cache[g] \cup {b} ELSE cache[g]
      /\ \A s \in Request : cached'[s] = IF s = r THEN k ELSE cached[s]
  BY <1>2, <1>t
<1>5. /\ \A s \in Request : Held(s)' = Held(s)
      /\ \A c : Holders(c)' = Holders(c)
      /\ \A c \in Block : Unqueued(c)' <=> Unqueued(c)
  BY <1>2 DEF Held, Holders, Unqueued
<1>6. \A s \in Request : \A i \in 1 .. Len(table[s]) : table[s][i] = b => s = r /\ i = k
  <2> SUFFICES ASSUME NEW s \in Request, NEW i \in 1 .. Len(table[s]), table[s][i] = b
               PROVE  s = r /\ i = k
    OBVIOUS
  <2>1. i \in DOMAIN table[s]
    BY <1>t
  <2>2. s \in Holders(b)
    BY <2>1 DEF Holders, Held, ToSet
  <2>3. s = r
    BY <1>3, <2>2
  <2> QED BY <1>1, <1>c, <2>3 DEF Inv, TablesWellFormed, Distinct
<1>7. TypeOK'
  <2>1. hash' \in [Block -> Hash \cup {NoHash}] /\ cached' \in [Request -> Nat]
    BY <1>2, <1>t
  <2>2. cache' \in [Hash -> SUBSET Block]
    BY <1>2, <1>t
  <2> QED BY <1>2, <2>1, <2>2 DEF Inv, TypeOK
<1>8. RefCountExact' /\ FreeQueueExact'
  <2>1. RefCountExact'
    BY <1>2, <1>5 DEF Inv, RefCountExact
  <2>2. FreeQueueExact'
    BY <1>2, <1>5 DEF Inv, FreeQueueExact
  <2> QED BY <2>1, <2>2
<1>9. CacheIndexExact'
  <2> SUFFICES ASSUME NEW g \in Hash, NEW c \in Block PROVE c \in cache'[g] <=> hash'[c] = g
    BY DEF CacheIndexExact
  <2>1. c \in cache[g] <=> hash[c] = g
    BY DEF Inv, CacheIndexExact
  <2>2. cache'[g] = IF g = h THEN cache[g] \cup {b} ELSE cache[g]
    BY <1>4
  <2>3. hash'[c] = IF c = b THEN h ELSE hash[c]
    BY <1>4
  <2>4. b \notin cache[g]
    BY <1>3, <1>t DEF Inv, CacheIndexExact
  <2>5. CASE c = b
    BY <2>2, <2>3, <2>4, <2>5, Zenon
  <2>6. CASE c # b
    BY <2>1, <2>2, <2>3, <2>6, Zenon
  <2> QED BY <2>5, <2>6
<1>10. HeldBlocksKeepHash'
  <2> SUFFICES ASSUME NEW s \in Request, NEW i \in 1 .. Len(table[s]), i <= cached'[s]
               PROVE  hash'[table[s][i]] = BlockHashes[s][i]
    BY <1>2 DEF HeldBlocksKeepHash
  <2>1. table[s][i] \in Block
    BY <1>t
  <2>2. CASE table[s][i] = b
    BY <1>4, <1>6, <1>c, <2>2
  <2>3. CASE table[s][i] # b
    <3>1. i <= cached[s]
      <4>1. CASE s = r
        <5>1. i # k /\ i <= k
          BY <1>4, <1>c, <2>3, <4>1
        <5> QED BY <1>1, <4>1, <5>1
      <4>2. CASE s # r
        BY <1>4, <4>2
      <4> QED BY <4>1, <4>2
    <3>2. hash[table[s][i]] = BlockHashes[s][i]
      BY <3>1 DEF Inv, HeldBlocksKeepHash
    <3> QED BY <1>4, <2>1, <2>3, <3>2
  <2> QED BY <2>2, <2>3
<1>11. UnpublishedIsPrivate'
  <2> SUFFICES ASSUME NEW s \in Request, NEW i \in cached'[s] + 1 .. Len(table'[s]),
                      NEW c, c = table'[s][i]
               PROVE  hash'[c] = NoHash /\ Holders(c)' = {s}
    BY DEF UnpublishedIsPrivate, Holders
  <2>1. /\ i \in cached[s] + 1 .. Len(table[s]) /\ c = table[s][i] /\ i \in 1 .. Len(table[s])
        /\ (s = r => i # k)
    BY <1>1, <1>2, <1>4, <1>t
  <2>2. hash[c] = NoHash /\ Holders(c) = {s}
    BY <2>1 DEF Inv, UnpublishedIsPrivate
  <2>3. c \in Block /\ c # b
    BY <1>6, <1>t, <2>1
  <2> QED BY <1>4, <1>5, <2>2, <2>3
<1>12. TablesWellFormed'
  <2> SUFFICES ASSUME NEW s \in Request
               PROVE  /\ Distinct(table[s]) /\ cached'[s] <= Len(table[s])
                      /\ cached'[s] <= Len(BlockHashes[s])
    BY <1>2 DEF TablesWellFormed, Distinct
  <2>1. /\ Distinct(table[s]) /\ cached[s] <= Len(table[s])
        /\ cached[s] <= Len(BlockHashes[s])
    BY DEF Inv, TablesWellFormed
  <2> QED BY <1>1, <1>4, <2>1
<1>13. LoopInvariant'
  BY <1>a, <1>2 DEF Inv, LoopInvariant, Distinct
<1> QED BY <1>7, <1>8, <1>9, <1>10, <1>11, <1>12, <1>13 DEF Inv

-----------------------------------------------------------------------------
(* Freeing                                                                  *)

\* free takes the table over as the list to release: the request holds the
\* same blocks as before.
LEMMA BeginFreeInv ==
    ASSUME Inv, NEW r \in Request, BeginFree(r)
    PROVE  Inv'
<1>t. /\ table \in [Request -> Seq(Block)] /\ cached \in [Request -> Nat]
  BY DEF Inv, TypeOK
<1>1. /\ op.loop = "idle"
      /\ op' = Free("free", r, table[r], Len(table[r]))
      /\ table' = [table EXCEPT ![r] = <<>>]
      /\ cached' = [cached EXCEPT ![r] = 0]
      /\ ref' = ref /\ hash' = hash /\ free' = free /\ cache' = cache
  BY DEF BeginFree, Idle
<1>2. /\ op' \in FreeOp /\ op'.loop = "free" /\ op'.req = r /\ op'.blocks = table[r]
      /\ op'.pos = Len(table[r])
  BY <1>1, <1>t DEF Free, FreeOp
<1>3. /\ table'[r] = <<>> /\ cached'[r] = 0
      /\ \A s \in Request : s # r => table'[s] = table[s] /\ cached'[s] = cached[s]
  BY <1>1, <1>t
<1>4. \A s \in Request : Held(s)' = Held(s)
  <2> SUFFICES ASSUME NEW s \in Request PROVE Held(s)' = Held(s)
    OBVIOUS
  <2>1. CASE s = r
    <3>1. Held(r)' = ToSet(<<>>) \cup {table[r][i] : i \in 1 .. Len(table[r])}
      BY <1>2, <1>3 DEF Held
    <3>2. Held(r) = ToSet(table[r])
      BY <1>1 DEF Held
    <3>3. ToSet(table[r]) = {table[r][i] : i \in 1 .. Len(table[r])} /\ ToSet(<<>>) = {}
      BY <1>t DEF ToSet
    <3> QED BY <2>1, <3>1, <3>2, <3>3
  <2>2. CASE s # r
    BY <1>1, <1>2, <1>3, <2>2 DEF Held
  <2> QED BY <2>1, <2>2
<1>5. \A c : Holders(c)' = Holders(c)
  BY <1>4 DEF Holders
<1>6. \A c \in Block : ~Unqueued(c) /\ ~Unqueued(c)'
  BY <1>1, <1>2, <1>t DEF Unqueued
<1>7. TypeOK'
  <2>1. table' \in [Request -> Seq(Block)] /\ cached' \in [Request -> Nat]
    BY <1>1, <1>t
  <2>2. op'.pos <= Len(op'.blocks)
    BY <1>2, <1>t
  <2> QED BY <1>1, <1>2, <2>1, <2>2 DEF Inv, TypeOK
<1>8. RefCountExact'
  BY <1>1, <1>5 DEF Inv, RefCountExact
<1>9. FreeQueueExact'
  BY <1>1, <1>6 DEF Inv, FreeQueueExact
<1>10. CacheIndexExact'
  BY <1>1 DEF Inv, CacheIndexExact
<1>11. HeldBlocksKeepHash'
  <2> SUFFICES ASSUME NEW s \in Request, NEW i \in 1 .. Len(table'[s]), i <= cached'[s]
               PROVE  hash[table'[s][i]] = BlockHashes[s][i]
    BY <1>1 DEF HeldBlocksKeepHash
  <2>1. s # r
    BY <1>3
  <2> QED BY <1>3, <2>1 DEF Inv, HeldBlocksKeepHash
<1>12. UnpublishedIsPrivate'
  <2> SUFFICES ASSUME NEW s \in Request, NEW i \in cached'[s] + 1 .. Len(table'[s]),
                      NEW c, c = table'[s][i]
               PROVE  hash'[c] = NoHash /\ Holders(c)' = {s}
    BY DEF UnpublishedIsPrivate, Holders
  <2>1. s # r
    BY <1>3
  <2>2. i \in cached[s] + 1 .. Len(table[s]) /\ c = table[s][i]
    BY <1>3, <2>1
  <2> QED BY <1>1, <1>5, <2>2 DEF Inv, UnpublishedIsPrivate
<1>13. TablesWellFormed'
  <2> SUFFICES ASSUME NEW s \in Request
               PROVE  /\ Distinct(table'[s]) /\ cached'[s] <= Len(table'[s])
                      /\ cached'[s] <= Len(BlockHashes[s])
    BY DEF TablesWellFormed, Distinct
  <2>1. Len(BlockHashes[s]) \in Nat
    BY BlockPoolAssumption
  <2>2. CASE s = r
    BY <1>3, <2>1, <2>2 DEF Distinct
  <2>3. CASE s # r
    BY <1>3, <2>3 DEF Inv, TablesWellFormed, Distinct
  <2> QED BY <2>2, <2>3
<1>14. LoopInvariant'
  <2>1. Distinct(table[r])
    BY DEF Inv, TablesWellFormed
  <2> QED BY <1>2, <1>3, <2>1 DEF LoopInvariant, Distinct
<1> QED BY <1>7, <1>8, <1>9, <1>10, <1>11, <1>12, <1>13, <1>14 DEF Inv

\* An iteration of the first loop of free_blocks.  The request loses its only
\* claim to the block, because the list has no duplicates.
LEMMA ReleaseBlockInv ==
    ASSUME Inv, ReleaseBlock
    PROVE  Inv'
<1>a. /\ op.loop = "free" /\ op \in FreeOp /\ op.pos \in Nat /\ op.pos > 0
      /\ op.pos <= Len(op.blocks) /\ op.req \in Request /\ op.blocks \in Seq(Block)
      /\ table[op.req] = <<>> /\ Distinct(op.blocks)
  BY OpType DEF Inv, LoopInvariant, ReleaseBlock, FreeOp
<1>b. PICK r \in Request, k \in 1 .. Len(op.blocks), b \in Block :
         r = op.req /\ k = op.pos /\ b = op.blocks[k]
  BY <1>a
<1>t. ref \in [Block -> Nat] /\ table \in [Request -> Seq(Block)]
  BY DEF Inv, TypeOK
<1>1. /\ ref' = [ref EXCEPT ![b] = @ - 1]
      /\ op' = [op EXCEPT !.pos = k - 1]
      /\ hash' = hash /\ free' = free /\ cache' = cache /\ table' = table /\ cached' = cached
  BY <1>b DEF ReleaseBlock
<1>2. /\ op' \in FreeOp /\ op'.loop = "free" /\ op'.req = r /\ op'.blocks = op.blocks
      /\ op'.pos = k - 1
  BY <1>a, <1>b, <1>1 DEF FreeOp
<1>3. /\ Held(r) = {op.blocks[i] : i \in 1 .. k}
      /\ Held(r)' = {op.blocks[i] : i \in 1 .. k - 1}
      /\ \A s \in Request \ {r} : Held(s) = ToSet(table[s]) /\ Held(s)' = ToSet(table[s])
  BY <1>a, <1>b, <1>1, <1>2 DEF Held, ToSet
<1>4. Held(r) = Held(r)' \cup {b} /\ b \notin Held(r)'
  <2>1. 1 .. k = (1 .. k - 1) \cup {k}
    BY <1>b
  <2>2. \A i \in 1 .. k - 1 : op.blocks[i] # b
    BY <1>a, <1>b DEF Distinct
  <2> QED BY <1>b, <1>3, <2>1, <2>2
<1>5. /\ r \in Holders(b) /\ Holders(b)' = Holders(b) \ {r}
      /\ \A c \in Block \ {b} : Holders(c)' = Holders(c)
  <2>1. r \in Holders(b)
    BY <1>4 DEF Holders
  <2>2. Holders(b)' = Holders(b) \ {r}
    BY <1>3, <1>4 DEF Holders
  <2>3. ASSUME NEW c \in Block \ {b} PROVE Holders(c)' = Holders(c)
    BY <1>3, <1>4 DEF Holders
  <2> QED BY <2>1, <2>2, <2>3
<1>6. Cardinality(Holders(b)') = Cardinality(Holders(b)) - 1 /\ ref[b] = Cardinality(Holders(b))
  <2>1. Holders(b) \in SUBSET Request
    BY DEF Holders
  <2>2. Cardinality(Holders(b) \ {r}) = Cardinality(Holders(b)) - 1
    BY <1>5, <2>1, HoldersFinite
  <2> QED BY <1>5, <2>2 DEF Inv, RefCountExact
<1>7. ref[b] # 0
  BY <1>5, UnreferencedIffUnheld DEF Inv
<1>8. TypeOK'
  <2>1. ref' \in [Block -> Nat]
    BY <1>1, <1>7, <1>t
  <2>2. op'.pos <= Len(op'.blocks)
    BY <1>a, <1>b, <1>2
  <2> QED BY <1>1, <1>2, <2>1, <2>2 DEF Inv, TypeOK
<1>9. RefCountExact'
  <2> SUFFICES ASSUME NEW c \in Block PROVE ref'[c] = Cardinality(Holders(c)')
    BY DEF RefCountExact
  <2>1. CASE c = b
    <3>1. ref'[b] = ref[b] - 1
      BY <1>1, <1>t
    <3> QED BY <1>6, <2>1, <3>1
  <2>2. CASE c # b
    <3>1. ref'[c] = ref[c] /\ Holders(c)' = Holders(c)
      BY <1>1, <1>5, <1>t, <2>2
    <3> QED BY <3>1 DEF Inv, RefCountExact
  <2> QED BY <2>1, <2>2
<1>10. FreeQueueExact'
  <2> SUFFICES ASSUME NEW c \in Block
               PROVE  c \in ToSet(free) <=> (ref'[c] = 0 /\ ~Unqueued(c)')
    BY <1>1 DEF Inv, FreeQueueExact
  <2>1. c \in ToSet(free) <=> (ref[c] = 0 /\ ~Unqueued(c))
    BY DEF Inv, FreeQueueExact
  <2>2. Unqueued(c) <=> \E i \in k + 1 .. Len(op.blocks) : op.blocks[i] = c
    BY <1>a, <1>b DEF Unqueued
  <2>3. Unqueued(c)' <=> \E i \in k .. Len(op.blocks) : op.blocks[i] = c
    BY <1>b, <1>2 DEF Unqueued
  <2>4. k .. Len(op.blocks) = (k + 1 .. Len(op.blocks)) \cup {k}
    BY <1>b
  <2>5. Unqueued(c)' <=> (Unqueued(c) \/ c = b)
    BY <1>b, <2>2, <2>3, <2>4
  <2>6. c # b => ref'[c] = ref[c]
    BY <1>1, <1>t
  <2> QED BY <1>7, <2>1, <2>5, <2>6
<1>11. CacheIndexExact' /\ HeldBlocksKeepHash' /\ TablesWellFormed'
  BY <1>1 DEF Inv, CacheIndexExact, HeldBlocksKeepHash, TablesWellFormed, Distinct
<1>12. UnpublishedIsPrivate'
  <2> SUFFICES ASSUME NEW s \in Request, NEW i \in cached'[s] + 1 .. Len(table'[s]),
                      NEW c, c = table'[s][i]
               PROVE  hash'[c] = NoHash /\ Holders(c)' = {s}
    BY DEF UnpublishedIsPrivate, Holders
  <2>1. hash[c] = NoHash /\ Holders(c) = {s}
    BY <1>1 DEF Inv, UnpublishedIsPrivate
  <2>2. s # r
    <3>1. table[r] = <<>> /\ cached[r] \in Nat
      BY <1>a, <1>b DEF Inv, TypeOK
    <3> QED BY <1>1, <3>1
  <2>3. c # b
    BY <1>5, <2>1, <2>2
  <2>4. c \in Block
    <3>1. i \in 1 .. Len(table[s]) /\ table[s] \in Seq(Block)
      BY <1>1, <1>t DEF Inv, TypeOK
    <3> QED BY <1>1, <3>1
  <2> QED BY <1>1, <1>5, <2>1, <2>3, <2>4
<1>13. LoopInvariant'
  BY <1>a, <1>b, <1>1, <1>2 DEF LoopInvariant, Distinct
<1> QED BY <1>8, <1>9, <1>10, <1>11, <1>12, <1>13 DEF Inv

\* An iteration of append_n: a block joins the queue if nobody references it
\* any more, and it was not in the queue before.
LEMMA EnqueueBlockInv ==
    ASSUME Inv, EnqueueBlock
    PROVE  Inv'
<1>a. /\ op.loop = "enqueue" /\ op \in FreeOp /\ op.pos \in Nat /\ op.pos > 0
      /\ op.pos <= Len(op.blocks) /\ op.blocks \in Seq(Block) /\ Distinct(op.blocks)
  BY OpType DEF Inv, LoopInvariant, EnqueueBlock, FreeOp
<1>b. PICK k \in 1 .. Len(op.blocks), b \in Block : k = op.pos /\ b = op.blocks[k]
  BY <1>a
<1>t. free \in Seq(Block)
  BY DEF Inv, TypeOK
<1>1. /\ free' = IF ref[b] = 0 THEN Append(free, b) ELSE free
      /\ op' = [op EXCEPT !.pos = k - 1]
      /\ ref' = ref /\ hash' = hash /\ cache' = cache /\ table' = table /\ cached' = cached
  BY <1>b DEF EnqueueBlock
<1>2. /\ op' \in FreeOp /\ op'.loop = "enqueue" /\ op'.req = op.req /\ op'.blocks = op.blocks
      /\ op'.pos = k - 1
  BY <1>a, <1>b, <1>1 DEF FreeOp
<1>3. ASSUME NEW c \in Block
      PROVE  /\ Unqueued(c) <=> (Unqueued(c)' \/ c = b)
             /\ c = b => ~Unqueued(c)'
  <2>1. Unqueued(c) <=> \E i \in 1 .. k : op.blocks[i] = c
    BY <1>a, <1>b DEF Unqueued
  <2>2. Unqueued(c)' <=> \E i \in 1 .. k - 1 : op.blocks[i] = c
    BY <1>2 DEF Unqueued
  <2>3. 1 .. k = (1 .. k - 1) \cup {k}
    BY <1>b
  <2>4. \A i \in 1 .. k - 1 : op.blocks[i] # b
    BY <1>a, <1>b DEF Distinct
  <2> QED BY <1>b, <2>1, <2>2, <2>3, <2>4
<1>4. \A c : Holders(c)' = Holders(c)
  BY <1>a, <1>1, <1>2 DEF Holders, Held
<1>5. /\ free' \in Seq(Block)
      /\ ToSet(free') = IF ref[b] = 0 THEN ToSet(free) \cup {b} ELSE ToSet(free)
  <2>1. CASE ref[b] = 0
    BY <1>1, <1>t, <2>1, AppendSpec
  <2>2. CASE ref[b] # 0
    BY <1>1, <1>t, <2>2
  <2> QED BY <2>1, <2>2
<1>6. \A i, j \in DOMAIN free' : free'[i] = free'[j] => i = j
  <2>1. \A i, j \in DOMAIN free : free[i] = free[j] => i = j
    BY DEF Inv, FreeQueueExact
  <2>2. CASE ref[b] = 0
    <3>1. b \notin ToSet(free)
      BY <1>3 DEF Inv, FreeQueueExact
    <3>2. \A i \in 1 .. Len(free) : free[i] # b
      BY <1>t, <3>1 DEF ToSet
    <3>3. free' = Append(free, b)
      BY <1>1, <2>2
    <3>4. /\ DOMAIN free' = 1 .. Len(free) + 1 /\ free'[Len(free) + 1] = b
          /\ \A i \in 1 .. Len(free) : free'[i] = free[i]
          /\ DOMAIN free = 1 .. Len(free) /\ Len(free) \in Nat
      BY <1>t, <3>3
    <3> QED BY <2>1, <3>2, <3>4
  <2>3. CASE ref[b] # 0
    BY <1>1, <2>1, <2>3
  <2> QED BY <2>2, <2>3
<1>7. FreeQueueExact'
  <2> SUFFICES ASSUME NEW c \in Block
               PROVE  c \in ToSet(free') <=> (ref[c] = 0 /\ ~Unqueued(c)')
    BY <1>1, <1>6 DEF FreeQueueExact
  <2>1. c \in ToSet(free) <=> (ref[c] = 0 /\ ~Unqueued(c))
    BY DEF Inv, FreeQueueExact
  <2> QED BY <1>3, <1>5, <2>1
<1>8. TypeOK'
  <2>1. op'.pos <= Len(op'.blocks)
    BY <1>a, <1>b, <1>2
  <2> QED BY <1>1, <1>2, <1>5, <2>1 DEF Inv, TypeOK
<1>9. RefCountExact'
  BY <1>1, <1>4 DEF Inv, RefCountExact
<1>10. CacheIndexExact' /\ HeldBlocksKeepHash' /\ TablesWellFormed'
  BY <1>1 DEF Inv, CacheIndexExact, HeldBlocksKeepHash, TablesWellFormed, Distinct
<1>11. UnpublishedIsPrivate'
  BY <1>1, <1>4 DEF Inv, UnpublishedIsPrivate
<1>12. LoopInvariant'
  BY <1>a, <1>2 DEF LoopInvariant, Distinct
<1> QED BY <1>7, <1>8, <1>9, <1>10, <1>11, <1>12 DEF Inv

\* A free queue as long as the pool holds every block, so that no request
\* has a table when reset_prefix_cache clears the hashes.
LEMMA AllFree ==
    ASSUME TypeOK, FreeQueueExact, Len(free) = NumBlocks
    PROVE  ToSet(free) = Block
<1> SUFFICES ASSUME NEW b \in Block, b \notin ToSet(free) PROVE FALSE
  BY DEF TypeOK, ToSet
<1>1. NumBlocks \in Nat /\ free \in Seq(Block) /\ DOMAIN free = 1 .. NumBlocks
  BY BlockPoolAssumption DEF TypeOK
<1>2. free \in [1 .. NumBlocks -> Block \ {b}]
  BY <1>1 DEF ToSet
<1>3. IsFiniteSet(Block) /\ Cardinality(Block) = NumBlocks
  BY <1>1, FS_Interval DEF Block
<1>4. IsFiniteSet(Block \ {b}) /\ Cardinality(Block \ {b}) = NumBlocks - 1
  BY <1>3, FS_RemoveElement
<1>5. Cardinality(Block \ {b}) < Cardinality(Block)
  BY <1>1, <1>3, <1>4
<1>6. \E x, y \in Block : x # y /\ free[x] = free[y]
  BY <1>2, <1>3, <1>4, <1>5, FS_PigeonHole DEF Block
<1> QED BY <1>1, <1>6 DEF FreeQueueExact, Block

\* reset_prefix_cache takes no hash away from a block in use.
LEMMA ResetPrefixCacheInv ==
    ASSUME Inv, ResetPrefixCache
    PROVE  Inv'
<1>1. /\ op.loop = "idle" /\ Len(free) = NumBlocks
      /\ hash' = [b \in Block |-> NoHash] /\ cache' = [h \in Hash |-> {}]
      /\ ref' = ref /\ free' = free /\ table' = table /\ cached' = cached /\ op' = op
  BY DEF ResetPrefixCache, Idle
<1>2. \A b \in Block : Holders(b) = {}
  BY <1>1, AllFree, UnreferencedIffUnheld DEF Inv, FreeQueueExact
<1>3. \A r \in Request : Len(table[r]) = 0
  <2> SUFFICES ASSUME NEW r \in Request, Len(table[r]) # 0 PROVE FALSE
    OBVIOUS
  <2>1. table[r] \in Seq(Block) /\ 1 \in DOMAIN table[r] /\ table[r][1] \in Block
    BY DEF Inv, TypeOK
  <2>2. r \in Holders(table[r][1])
    BY <2>1 DEF Holders, Held, ToSet
  <2> QED BY <1>2, <2>1, <2>2
<1>4. /\ \A c : Holders(c)' = Holders(c)
      /\ \A c \in Block : Unqueued(c)' <=> Unqueued(c)
  BY <1>1 DEF Holders, Held, Unqueued
<1>5. TypeOK'
  BY <1>1 DEF Inv, TypeOK
<1>6. RefCountExact'
  BY <1>1, <1>4 DEF Inv, RefCountExact
<1>7. FreeQueueExact'
  BY <1>1, <1>4 DEF Inv, FreeQueueExact
<1>8. CacheIndexExact'
  BY <1>1, BlockPoolAssumption DEF CacheIndexExact
<1>9. HeldBlocksKeepHash'
  BY <1>1, <1>3 DEF HeldBlocksKeepHash
<1>10. UnpublishedIsPrivate'
  <2>1. \A r \in Request : cached[r] \in Nat
    BY DEF Inv, TypeOK
  <2> QED BY <1>1, <1>3, <2>1 DEF UnpublishedIsPrivate
<1>11. TablesWellFormed' /\ LoopInvariant'
  BY <1>1 DEF Inv, TablesWellFormed, LoopInvariant, Distinct
<1> QED BY <1>5, <1>6, <1>7, <1>8, <1>9, <1>10, <1>11 DEF Inv

-----------------------------------------------------------------------------
(* The theorems                                                             *)

\* Every step of the pool, and a step of its environment, preserves Inv.
LEMMA NextInv ==
    ASSUME Inv, [Next]_vars
    PROVE  Inv'
<1>1. CASE \E r \in Request, n, new, upto \in 0 .. NumBlocks :
              \E hits \in [1 .. n -> Block] : BeginAllocate(r, hits, new, upto)
  <2>1. 0 .. NumBlocks \subseteq Nat
    BY BlockPoolAssumption
  <2> QED BY <1>1, <2>1, BeginAllocateInv
<1>2. CASE \E r \in Request, upto \in 0 .. NumBlocks : BeginCache(r, upto)
  <2>1. 0 .. NumBlocks \subseteq Nat
    BY BlockPoolAssumption
  <2> QED BY <1>2, <2>1, BeginCacheInv
<1>3. CASE \E r \in Request : BeginFree(r)
  BY <1>3, BeginFreeInv
<1>4. CASE TouchBlock \/ EndTouch
  BY <1>4, TouchBlockInv, EndTouchInv
<1>5. CASE GetNewBlock \/ EndNew
  BY <1>5, GetNewBlockInv, EndNewInv
<1>6. CASE CacheBlock \/ EndCache
  BY <1>6, CacheBlockInv, EndCacheInv
<1>7. CASE ReleaseBlock \/ EndRelease
  BY <1>7, ReleaseBlockInv, EndReleaseInv
<1>8. CASE EnqueueBlock \/ EndEnqueue
  BY <1>8, EnqueueBlockInv, EndEnqueueInv
<1>9. CASE ResetPrefixCache
  BY <1>9, ResetPrefixCacheInv
<1>10. CASE UNCHANGED vars
  <2>1. UNCHANGED <<ref, hash, free, cache, table, cached>> /\ op' = op
    BY <1>10 DEF vars
  <2>2. TypeOK' /\ LoopInvariant'
    BY <2>1 DEF Inv, TypeOK, LoopInvariant, TouchLoop, Untouched, Distinct
  <2>3. /\ \A r \in Request : Held(r)' = Held(r)
        /\ \A b \in Block : Unqueued(b)' <=> Unqueued(b)
    BY <2>1 DEF Held, Unqueued
  <2> QED BY <2>1, <2>2, <2>3, OpStep
<1> QED BY <1>1, <1>2, <1>3, <1>4, <1>5, <1>6, <1>7, <1>8, <1>9, <1>10 DEF Next

\* The inductive invariant holds in every reachable state of the pool.
THEOREM Invariance == Spec => []Inv
<1>1. Inv /\ [Next]_vars => Inv'
  BY NextInv
<1> QED BY InitInv, <1>1, PTL DEF Spec

\* The block pool's variables keep their types, and loops stay in range.
THEOREM TypeCorrect == Spec => []TypeOK
<1>1. Inv => TypeOK
  BY DEF Inv
<1> QED BY <1>1, Invariance, PTL

\* ref_cnt is the number of requests that hold the block, at every iteration
\* of touch, get_new_blocks and free_blocks.
THEOREM RefCountsAreExact == Spec => []RefCountExact
<1>1. Inv => RefCountExact
  BY DEF Inv
<1> QED BY <1>1, Invariance, PTL

\* The free queue holds exactly the unreferenced blocks, each once.
THEOREM FreeQueueIsExact == Spec => []FreeQueueExact
<1>1. Inv => FreeQueueExact
  BY DEF Inv
<1> QED BY <1>1, Invariance, PTL

\* A block in use keeps the hash it was published or hit under.
THEOREM HeldBlocksAreNotEvicted == Spec => []HeldBlocksKeepHash
<1>1. Inv => HeldBlocksKeepHash
  BY DEF Inv
<1> QED BY <1>1, Invariance, PTL

\* No raise and no assert of block_pool.py fires, in particular the check of
\* allocate_slots is enough for all the touches and pops that follow it.
THEOREM NothingRaises == Spec => []NoRaise
<1>1. Inv => NoRaise
  <2> SUFFICES ASSUME Inv PROVE NoRaise
    OBVIOUS
  <2>1. ASSUME op.loop = "touch", op.pos < Len(op.blocks), ref[op.blocks[op.pos + 1]] = 0
        PROVE  op.blocks[op.pos + 1] \in ToSet(free)
    <3>1. op.blocks[op.pos + 1] \in Block
      BY <2>1, OpType DEF Inv, AllocOp
    <3>2. ~Unqueued(op.blocks[op.pos + 1])
      BY <2>1 DEF Unqueued
    <3> QED BY <2>1, <3>1, <3>2 DEF Inv, FreeQueueExact
  <2>2. ASSUME op.loop = "new", op.new > 0
        PROVE  free # <<>> /\ ref[Head(free)] = 0
    <3>1. op.new \in Nat /\ op.new <= Len(free) /\ free \in Seq(Block)
      BY <2>2, OpType DEF Inv, LoopInvariant, AllocOp, TypeOK
    <3>2. free # <<>> /\ 1 \in DOMAIN free /\ Head(free) = free[1] /\ free[1] \in Block
      BY <2>2, <3>1
    <3>3. free[1] \in ToSet(free)
      BY <3>2 DEF ToSet
    <3> QED BY <3>2, <3>3 DEF Inv, FreeQueueExact
  <2>3. ASSUME op.loop = "cache", cached[op.req] < op.upto
        PROVE  /\ cached[op.req] < Len(table[op.req])
               /\ hash[table[op.req][cached[op.req] + 1]] = NoHash
    <3>1. /\ op.req \in Request /\ op.upto \in Nat /\ op.upto <= Len(table[op.req])
          /\ cached[op.req] \in Nat /\ Len(table[op.req]) \in Nat
      BY <2>3, OpType DEF Inv, LoopInvariant, AllocOp, TypeOK
    <3>2. cached[op.req] + 1 \in cached[op.req] + 1 .. Len(table[op.req])
      BY <2>3, <3>1
    <3> QED BY <2>3, <3>1, <3>2 DEF Inv, UnpublishedIsPrivate
  <2> QED BY <2>1, <2>2, <2>3 DEF NoRaise
<1> QED BY <1>1, Invariance, PTL
=============================================================================
