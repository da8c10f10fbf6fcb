----------------------------- MODULE BlockPool ------------------------------
(***************************************************************************)
(* The block pool under any sequence of calls the KV cache manager makes:  *)
(* allocate_slots (touch, get_new_blocks, cache_full_blocks), cache_blocks, *)
(* free and reset_prefix_cache.  Every iteration of the loops of           *)
(* block_pool.py is a step, for any number of blocks and requests; the     *)
(* proofs about this module are in BlockPoolProofs.tla.                    *)
(*                                                                         *)
(* KVCacheManager.tla has the same methods as one-step operators, which    *)
(* the scheduler's model calls.                                            *)
(*                                                                         *)
(* An operator X_Fault is X with a plausible bug; only the mutation checks *)
(* use it.                                                                 *)
(***************************************************************************)
EXTENDS Integers, Sequences, FiniteSets, SequencesExt

CONSTANTS
    Request,     \* the requests that may hold blocks
    NumBlocks,   \* blocks of the pool, the null block not counted
    Hash,        \* block hashes
    BlockHashes, \* Request.block_hashes of every request
    NoHash       \* block_hash is None

\* A block hash covers the whole prefix up to its block, so the hashes of a
\* request are distinct; requests with a common prefix share its hashes.
ASSUME BlockPoolAssumption ==
    /\ IsFiniteSet(Request)
    /\ NumBlocks \in Nat
    /\ NoHash \notin Hash
    /\ BlockHashes \in [Request -> Seq(Hash)]
    /\ \A r \in Request : \A i, j \in 1 .. Len(BlockHashes[r]) :
          BlockHashes[r][i] = BlockHashes[r][j] => i = j

Block == 1 .. NumBlocks

VARIABLES
    ref,    \* KVCacheBlock.ref_cnt
    hash,   \* KVCacheBlock.block_hash
    free,   \* the free block queue, head first
    cache,  \* BlockHashToBlockMap: the blocks listed under a hash
    table,  \* req_to_blocks
    cached, \* num_cached_block, 0 for a request that is no key
    op      \* the call in progress

vars == <<ref, hash, free, cache, table, cached, op>>

\* The loop a call is in, the list it runs over and how far it has come.
Idle == [loop |-> "idle"]
Alloc(loop, r, hits, pos, new, upto) ==
    [loop |-> loop, req |-> r, blocks |-> hits, pos |-> pos, new |-> new, upto |-> upto]
Free(loop, r, blocks, pos) ==
    [loop |-> loop, req |-> r, blocks |-> blocks, pos |-> pos]

Init ==
    /\ ref = [b \in Block |-> 0]
    /\ hash = [b \in Block |-> NoHash]
    /\ free = [i \in 1 .. NumBlocks |-> i]
    /\ cache = [h \in Hash |-> {}]
    /\ table = [r \in Request |-> <<>>]
    /\ cached = [r \in Request |-> 0]
    /\ op = Idle

-----------------------------------------------------------------------------
(* allocate_slots                                                           *)

\* What find_longest_cache_hit may return for a request: a block cached
\* under each of its first hashes.
IsHit(r, hits) ==
    /\ table[r] = <<>>
    /\ Len(hits) <= Len(BlockHashes[r])
    /\ \A i \in 1 .. Len(hits) : hits[i] \in cache[BlockHashes[r][i]]

\* get_num_blocks_to_allocate: the hit blocks that are on the free queue
\* count, because touching takes them off it.
Evictable_None(hits) == {}  \* Fault: they do not count.
Evictable(hits) == {b \in ToSet(hits) : ref[b] = 0}

Fits(hits, new) == new + Cardinality(Evictable(hits)) <= Len(free)

\* allocate_slots past its check.  new blocks are taken, and afterwards the
\* first upto blocks of the request are full.
BeginAllocate(r, hits, new, upto) ==
    /\ op = Idle
    /\ hits = <<>> \/ IsHit(r, hits)
    /\ Fits(hits, new)
    /\ Len(table[r]) + Len(hits) + new <= NumBlocks
    /\ upto <= Len(table[r]) + Len(hits) + new
    /\ upto <= Len(BlockHashes[r])
    /\ op' = Alloc("touch", r, hits, 0, new, upto)
    /\ UNCHANGED <<ref, hash, free, cache, table, cached>>

\* FreeKVCacheBlockQueue.remove
RemoveBlock(queue, b) == RemoveAt(queue, CHOOSE i \in DOMAIN queue : queue[i] = b)

\* Fault: a hit block gets a reference only if it was free.
TouchBlock_NotShared ==
    /\ op.loop = "touch"
    /\ op.pos < Len(op.blocks)
    /\ LET b == op.blocks[op.pos + 1]
       IN  /\ free' = IF ref[b] = 0 THEN RemoveBlock(free, b) ELSE free
           /\ ref' = [ref EXCEPT ![b] = 1]
           /\ table' = [table EXCEPT ![op.req] = Append(@, b)]
    /\ cached' = [cached EXCEPT ![op.req] = @ + 1]
    /\ op' = [op EXCEPT !.pos = @ + 1]
    /\ UNCHANGED <<hash, cache>>

\* An iteration of touch.  The block joins the request's table at once; the
\* code extends the table when the loop is over.
TouchBlock ==
    /\ op.loop = "touch"
    /\ op.pos < Len(op.blocks)
    /\ LET b == op.blocks[op.pos + 1]
       IN  /\ free' = IF ref[b] = 0 THEN RemoveBlock(free, b) ELSE free
           /\ ref' = [ref EXCEPT ![b] = @ + 1]
           /\ table' = [table EXCEPT ![op.req] = Append(@, b)]
    /\ cached' = [cached EXCEPT ![op.req] = @ + 1]
    /\ op' = [op EXCEPT !.pos = @ + 1]
    /\ UNCHANGED <<hash, cache>>

EndTouch ==
    /\ op.loop = "touch"
    /\ op.pos = Len(op.blocks)
    /\ op' = [op EXCEPT !.loop = "new"]
    /\ UNCHANGED <<ref, hash, free, cache, table, cached>>

\* Fault: the block stays in the cache.
EvictedFrom_Nothing(index, b) == index

\* _maybe_evict_cached_block
EvictedFrom(index, b) == [h \in Hash |-> index[h] \ {b}]

\* An iteration of get_new_blocks: the block is popped, loses its hash and
\* its place in the cache, and joins the request's table.
GetNewBlock ==
    /\ op.loop = "new"
    /\ op.new > 0
    /\ LET b == Head(free)
       IN  /\ free' = Tail(free)
           /\ hash' = [hash EXCEPT ![b] = NoHash]
           /\ cache' = EvictedFrom(cache, b)
           /\ ref' = [ref EXCEPT ![b] = @ + 1]
           /\ table' = [table EXCEPT ![op.req] = Append(@, b)]
    /\ op' = [op EXCEPT !.new = @ - 1]
    /\ UNCHANGED cached

EndNew ==
    /\ op.loop = "new"
    /\ op.new = 0
    /\ op' = [op EXCEPT !.loop = "cache"]
    /\ UNCHANGED <<ref, hash, free, cache, table, cached>>

\* An iteration of cache_full_blocks.
CacheBlock ==
    /\ op.loop = "cache"
    /\ cached[op.req] < op.upto
    /\ LET i == cached[op.req] + 1
           b == table[op.req][i]
           h == BlockHashes[op.req][i]
       IN  /\ hash' = [hash EXCEPT ![b] = h]
           /\ cache' = [cache EXCEPT ![h] = @ \cup {b}]
           /\ cached' = [cached EXCEPT ![op.req] = i]
    /\ UNCHANGED <<ref, free, table, op>>

EndCache ==
    /\ op.loop = "cache"
    /\ cached[op.req] >= op.upto
    /\ op' = Idle
    /\ UNCHANGED <<ref, hash, free, cache, table, cached>>

\* cache_blocks outside allocate_slots: the async scheduler publishes blocks
\* when their tokens are known.
BeginCache(r, upto) ==
    /\ op = Idle
    /\ upto <= Len(table[r])
    /\ upto <= Len(BlockHashes[r])
    /\ op' = Alloc("cache", r, <<>>, 0, 0, upto)
    /\ UNCHANGED <<ref, hash, free, cache, table, cached>>

-----------------------------------------------------------------------------
(* free and reset_prefix_cache                                              *)

\* SingleTypeKVCacheManager.free: the table is given up and its blocks are
\* freed from the last to the first.
BeginFree(r) ==
    /\ op = Idle
    /\ table[r] # <<>>
    /\ op' = Free("free", r, table[r], Len(table[r]))
    /\ table' = [table EXCEPT ![r] = <<>>]
    /\ cached' = [cached EXCEPT ![r] = 0]
    /\ UNCHANGED <<ref, hash, free, cache>>

\* First loop of free_blocks
ReleaseBlock ==
    /\ op.loop = "free"
    /\ op.pos > 0
    /\ ref' = [ref EXCEPT ![op.blocks[op.pos]] = @ - 1]
    /\ op' = [op EXCEPT !.pos = @ - 1]
    /\ UNCHANGED <<hash, free, cache, table, cached>>

EndRelease ==
    /\ op.loop = "free"
    /\ op.pos = 0
    /\ op' = [op EXCEPT !.loop = "enqueue", !.pos = Len(op.blocks)]
    /\ UNCHANGED <<ref, hash, free, cache, table, cached>>

\* Fault: a block that another request holds is queued too.
EnqueueBlock_Shared ==
    /\ op.loop = "enqueue"
    /\ op.pos > 0
    /\ free' = Append(free, op.blocks[op.pos])
    /\ op' = [op EXCEPT !.pos = @ - 1]
    /\ UNCHANGED <<ref, hash, cache, table, cached>>

\* append_n of the blocks that nobody references any more
EnqueueBlock ==
    /\ op.loop = "enqueue"
    /\ op.pos > 0
    /\ LET b == op.blocks[op.pos]
       IN  free' = IF ref[b] = 0 THEN Append(free, b) ELSE free
    /\ op' = [op EXCEPT !.pos = @ - 1]
    /\ UNCHANGED <<ref, hash, cache, table, cached>>

EndEnqueue ==
    /\ op.loop = "enqueue"
    /\ op.pos = 0
    /\ op' = Idle
    /\ UNCHANGED <<ref, hash, free, cache, table, cached>>

\* Fault: the reset does not look whether blocks are in use.
ResetPrefixCache_InUse ==
    /\ op = Idle
    /\ hash' = [b \in Block |-> NoHash]
    /\ cache' = [h \in Hash |-> {}]
    /\ UNCHANGED <<ref, free, table, cached, op>>

\* reset_prefix_cache, which refuses while a block is in use.
ResetPrefixCache ==
    /\ op = Idle
    /\ Len(free) = NumBlocks
    /\ hash' = [b \in Block |-> NoHash]
    /\ cache' = [h \in Hash |-> {}]
    /\ UNCHANGED <<ref, free, table, cached, op>>

-----------------------------------------------------------------------------
Next ==
    \/ \E r \in Request, n, new, upto \in 0 .. NumBlocks :
          \E hits \in [1 .. n -> Block] : BeginAllocate(r, hits, new, upto)
    \/ TouchBlock \/ EndTouch
    \/ GetNewBlock \/ EndNew
    \/ CacheBlock \/ EndCache
    \/ \E r \in Request, upto \in 0 .. NumBlocks : BeginCache(r, upto)
    \/ \E r \in Request : BeginFree(r)
    \/ ReleaseBlock \/ EndRelease
    \/ EnqueueBlock \/ EndEnqueue
    \/ ResetPrefixCache

Spec == Init /\ [][Next]_vars

-----------------------------------------------------------------------------
(* Properties                                                               *)

AllocOp ==
    [loop : {"touch", "new", "cache"}, req : Request, blocks : Seq(Block),
     pos : Nat, new : Nat, upto : Nat]

FreeOp == [loop : {"free", "enqueue"}, req : Request, blocks : Seq(Block), pos : Nat]

\* The variables hold values of their types; a loop is within its list.
TypeOK ==
    /\ ref \in [Block -> Nat]
    /\ hash \in [Block -> Hash \cup {NoHash}]
    /\ free \in Seq(Block)
    /\ cache \in [Hash -> SUBSET Block]
    /\ table \in [Request -> Seq(Block)]
    /\ cached \in [Request -> Nat]
    /\ op = Idle \/ (op \in AllocOp \cup FreeOp /\ op.pos <= Len(op.blocks))

\* The blocks a request has a reference to: its table, and what a free in
\* progress has not released yet.
Held(r) ==
    ToSet(table[r]) \cup
    (IF op.loop = "free" /\ op.req = r THEN {op.blocks[i] : i \in 1 .. op.pos} ELSE {})

Holders(b) == {r \in Request : b \in Held(r)}

\* ref_cnt of every block is the number of requests that hold it, at every
\* iteration of every call: no reference is leaked or dropped twice.
RefCountExact == \A b \in Block : ref[b] = Cardinality(Holders(b))

\* Unreferenced blocks that free_blocks has yet to append to the queue
Unqueued(b) ==
    \/ op.loop = "free" /\ \E i \in op.pos + 1 .. Len(op.blocks) : op.blocks[i] = b
    \/ op.loop = "enqueue" /\ \E i \in 1 .. op.pos : op.blocks[i] = b

\* The free queue holds exactly the unreferenced blocks, each of them once.
FreeQueueExact ==
    /\ \A i, j \in DOMAIN free : free[i] = free[j] => i = j
    /\ \A b \in Block : b \in ToSet(free) <=> (ref[b] = 0 /\ ~Unqueued(b))

\* The map from hashes to blocks lists a block under h exactly if the block
\* carries the hash h.
CacheIndexExact ==
    \A h \in Hash, b \in Block : b \in cache[h] <=> hash[b] = h

\* While a request holds a block it published or hit, the block keeps the
\* hash of its position: eviction never touches a block in use.
HeldBlocksKeepHash ==
    \A r \in Request : \A i \in 1 .. Len(table[r]) :
        i <= cached[r] => hash[table[r][i]] = BlockHashes[r][i]

\* A block that is not published yet has no hash, and no other request can
\* have got hold of it.
UnpublishedIsPrivate ==
    \A r \in Request : \A i \in cached[r] + 1 .. Len(table[r]) :
        hash[table[r][i]] = NoHash /\ Holders(table[r][i]) = {r}

\* No raise and no assert of block_pool.py fires: the check of allocate_slots
\* leaves enough blocks for the pops that follow the touches, touch finds an
\* unreferenced block in the queue, a popped block is unreferenced, and a
\* block to be published carries no hash.
NoRaise ==
    /\ op.loop = "touch" /\ op.pos < Len(op.blocks) /\ ref[op.blocks[op.pos + 1]] = 0
          => op.blocks[op.pos + 1] \in ToSet(free)
    /\ op.loop = "new" /\ op.new > 0 => free # <<>> /\ ref[Head(free)] = 0
    /\ op.loop = "cache" /\ cached[op.req] < op.upto
          => /\ cached[op.req] < Len(table[op.req])
             /\ hash[table[op.req][cached[op.req] + 1]] = NoHash

-----------------------------------------------------------------------------
(* The inductive invariant                                                  *)

Distinct(s) == \A i, j \in 1 .. Len(s) : s[i] = s[j] => i = j

\* A table lists no block twice, and published blocks are within the table
\* and the hashes the request has.
TablesWellFormed ==
    \A r \in Request : /\ Distinct(table[r])
                       /\ cached[r] <= Len(table[r])
                       /\ cached[r] <= Len(BlockHashes[r])

\* Hit blocks that the touch loop has not reached yet
Untouched == {op.blocks[i] : i \in op.pos + 1 .. Len(op.blocks)}

TouchLoop ==
    /\ op.blocks # <<>> => Len(table[op.req]) = op.pos /\ cached[op.req] = op.pos
    /\ Len(op.blocks) <= Len(BlockHashes[op.req])
    /\ \A i \in op.pos + 1 .. Len(op.blocks) : hash[op.blocks[i]] = BlockHashes[op.req][i]
    /\ op.new + Cardinality({b \in Untouched : ref[b] = 0}) <= Len(free)
    /\ op.upto <= Len(table[op.req]) + (Len(op.blocks) - op.pos) + op.new

\* What each loop of a call may rely on: the hit blocks still to be touched
\* carry the hashes of their positions, the free queue covers the touches
\* and the pops still to come, and a list being freed has no duplicates.
LoopInvariant ==
    /\ op.loop \in {"touch", "new", "cache"} => op.upto <= Len(BlockHashes[op.req])
    /\ op.loop = "touch" => TouchLoop
    /\ op.loop = "new" => /\ op.new <= Len(free)
                          /\ op.upto <= Len(table[op.req]) + op.new
    /\ op.loop = "cache" => op.upto <= Len(table[op.req])
    /\ op.loop = "free" => table[op.req] = <<>>
    /\ op.loop \in {"free", "enqueue"} => Distinct(op.blocks)

\* The conjunction that every step preserves.
Inv ==
    /\ TypeOK
    /\ RefCountExact
    /\ FreeQueueExact
    /\ CacheIndexExact
    /\ HeldBlocksKeepHash
    /\ UnpublishedIsPrivate
    /\ TablesWellFormed
    /\ LoopInvariant

=============================================================================
