--------------------------- MODULE KVCacheManager ---------------------------
(***************************************************************************)
(* The KV cache manager of the V1 engine for one full-attention group:     *)
(* block_pool.py, single_type_kv_cache_manager.py (base class and          *)
(* FullAttentionManager), kv_cache_coordinator.py (unitary) and            *)
(* kv_cache_manager.py.  Each method is an operator from the manager's     *)
(* state to its next state, because one scheduler step calls several of    *)
(* them in a row; Scheduler.tla holds the state in its variable kv.        *)
(*                                                                         *)
(* The manager's state is a record:                                        *)
(*   ref    KVCacheBlock.ref_cnt of every block                            *)
(*   hash   KVCacheBlock.block_hash, NoHash when it is None                *)
(*   free   the free block queue, head (next to be evicted) first          *)
(*   cache  BlockHashToBlockMap: the blocks of a hash, oldest entry first  *)
(*   table  req_to_blocks: the block table of every request                *)
(*   cached num_cached_block: NotCached when the request is not a key      *)
(*   err    TRUE once an assert or a raise of this code has fired          *)
(*                                                                         *)
(* A block hash is the token prefix it stands for: the hash chain is taken *)
(* to be free of collisions.                                               *)
(*                                                                         *)
(* An operator X_Fault is X with a plausible bug; only the mutation checks *)
(* use it.                                                                 *)
(***************************************************************************)
EXTENDS Integers, Sequences, FiniteSets, SequencesExt

CONSTANTS
    Request,         \* the requests a client may submit
    NumGpuBlocks,    \* number of blocks of the pool, the null block included
    BlockSize,       \* tokens per block
    EnableCaching,   \* enable_prefix_caching
    MaxModelLen      \* max_model_len

ASSUME KVCacheAssumption ==
    /\ NumGpuBlocks \in Nat \ {0}
    /\ BlockSize \in Nat \ {0}
    /\ EnableCaching \in BOOLEAN
    /\ MaxModelLen \in Nat \ {0}

NoHash == <<>>
NotCached == -1

Block == 0 .. NumGpuBlocks - 1
NullBlock == 0

MinOf(a, b) == IF a <= b THEN a ELSE b
MaxOf(a, b) == IF a >= b THEN a ELSE b
CDiv(a, b) == (a + b - 1) \div b

\* The elements of a queue that are in S, in their order.
Among(queue, S) ==
    FoldLeft(LAMBDA kept, e : IF e \in S THEN Append(kept, e) ELSE kept, <<>>, queue)

\* BlockPool.__init__: every block is free except the null block, which is
\* popped off the head of the queue for good.
EmptyKV ==
    [ref    |-> [b \in Block |-> 0],
     hash   |-> [b \in Block |-> NoHash],
     free   |-> [i \in 1 .. NumGpuBlocks - 1 |-> i],
     cache  |-> <<>>,
     table  |-> [r \in Request |-> <<>>],
     cached |-> [r \in Request |-> NotCached],
     err    |-> FALSE]

\* The hash of the i-th block of a request with these tokens.
BlockHash(tokens, i) == SubSeq(tokens, 1, i * BlockSize)

Fail(kv) == [kv EXCEPT !.err = TRUE]

-----------------------------------------------------------------------------
(* BlockPool *)

\* get_one_block: the oldest block cached under the hash.
GetCachedBlock(kv, h) == Head(kv.cache[h])

\* _maybe_evict_cached_block for each block of S: a block that is listed
\* under its hash is unlisted and loses the hash, any other block is left.
EvictCachedBlocks(kv, S) ==
    LET evicted == {b \in S : /\ kv.hash[b] \in DOMAIN kv.cache
                              /\ b \in ToSet(kv.cache[kv.hash[b]])}
        left(h) == Among(kv.cache[h], {b \in Block : ~(b \in evicted /\ kv.hash[b] = h)})
        keys    == {h \in DOMAIN kv.cache : left(h) # <<>>}
    IN  [kv EXCEPT !.hash = [b \in Block |-> IF b \in evicted THEN NoHash ELSE @[b]],
                   !.cache = [h \in keys |-> left(h)]]

\* get_new_blocks: the first n free blocks, which leave the cache.  The
\* caller reads the blocks it gets as NewBlocks(kv, n).
NewBlocks(kv, n) == SubSeq(kv.free, 1, n)

GetNewBlocks(kv, n) ==
    IF n > Len(kv.free) THEN Fail(kv)
    ELSE LET taken == ToSet(NewBlocks(kv, n))
             kv1   == EvictCachedBlocks(kv, IF EnableCaching THEN taken ELSE {})
         IN  [kv1 EXCEPT !.free = SubSeq(@, n + 1, Len(@)),
                         !.ref  = [b \in Block |-> IF b \in taken THEN @[b] + 1 ELSE @[b]],
                         !.err  = @ \/ \E b \in taken : kv.ref[b] # 0]

\* touch: one more reference for each block; the unreferenced ones leave the
\* free queue.
Touch(kv, blocks) ==
    LET times(b) == Cardinality({i \in DOMAIN blocks : blocks[i] = b})
        freed(b) == kv.ref[b] = 0 /\ b # NullBlock
    IN  [kv EXCEPT !.free = Among(@, {b \in Block : ~(times(b) > 0 /\ freed(b))}),
                   !.ref  = [b \in Block |-> @[b] + times(b)],
                   !.err  = @ \/ \E b \in ToSet(blocks) : freed(b) /\ b \notin ToSet(kv.free)]

\* free_blocks: one reference less for each block, in the given order; those
\* that have none left join the tail of the free queue.
FreeBlocks(kv, blocks) ==
    LET times(b) == Cardinality({i \in DOMAIN blocks : blocks[i] = b})
        ref1     == [b \in Block |-> kv.ref[b] - times(b)]
    IN  [kv EXCEPT !.ref  = ref1,
                   !.free = @ \o Among(blocks, {b \in Block \ {NullBlock} : ref1[b] = 0})]

\* BlockHashToBlockMap.insert for the blocks of a request from index
\* from + 1 to upto, under the hashes of the request's tokens.
CacheFullBlocks(kv, r, tokens, from, upto) ==
    LET new   == {i \in from + 1 .. upto : kv.table[r][i] # NullBlock}
        added == {BlockHash(tokens, i) : i \in new}
        blk(h) == kv.table[r][Len(h) \div BlockSize]
        old(h) == IF h \in DOMAIN kv.cache THEN kv.cache[h] ELSE <<>>
        idx(b) == {i \in new : kv.table[r][i] = b}
    IN  IF Len(kv.table[r]) < upto \/ Len(tokens) < upto * BlockSize
        THEN Fail(kv)
        ELSE [kv EXCEPT
                !.hash  = [b \in Block |-> IF idx(b) = {} THEN @[b]
                              ELSE BlockHash(tokens, CHOOSE i \in idx(b) : TRUE)],
                !.cache = [h \in DOMAIN @ \cup added |->
                              IF h \in added /\ blk(h) \notin ToSet(old(h))
                              THEN Append(old(h), blk(h)) ELSE old(h)],
                !.err   = @ \/ \E i \in new : kv.hash[kv.table[r][i]] # NoHash]

\* reset_prefix_cache: only when no block but the null block is in use.
CanResetPrefixCache(kv) == NumGpuBlocks - Len(kv.free) = 1

ResetPrefixCache(kv) ==
    IF CanResetPrefixCache(kv)
    THEN [kv EXCEPT !.hash = [b \in Block |-> NoHash], !.cache = <<>>]
    ELSE kv

-----------------------------------------------------------------------------
(* FullAttentionManager and KVCacheManager *)

\* find_longest_cache_hit / get_computed_blocks: the longest run of cached
\* blocks that starts at the first block and leaves at least one token to
\* compute.
GetComputedBlocks(kv, tokens) ==
    LET maxBlocks == (Len(tokens) - 1) \div BlockSize
        isHit(n)  == \A i \in 1 .. n : BlockHash(tokens, i) \in DOMAIN kv.cache
        n         == CHOOSE k \in 0 .. maxBlocks :
                        isHit(k) /\ (k = maxBlocks \/ ~isHit(k + 1))
    IN  IF EnableCaching THEN [i \in 1 .. n |-> GetCachedBlock(kv, BlockHash(tokens, i))]
        ELSE <<>>

\* Fault: hit blocks that are in the free queue are not counted.
NumBlocksToAllocate_IgnoresEvictable(kv, r, numTokens, hits) ==
    MaxOf(CDiv(numTokens, BlockSize) - (Len(hits) + Len(kv.table[r])), 0)

\* get_num_blocks_to_allocate: the blocks a request still lacks, and the hit
\* blocks that touching will take off the free queue.
NumBlocksToAllocate(kv, r, numTokens, hits) ==
    LET required  == CDiv(numTokens, BlockSize)
        held      == Len(kv.table[r])
        evictable == {i \in DOMAIN hits : kv.ref[hits[i]] = 0 /\ hits[i] # NullBlock}
    IN  IF kv.cached[r] # NotCached
        THEN MaxOf(required - held, 0)
        ELSE MaxOf(required - (Len(hits) + held), 0) + Cardinality(evictable)

\* allocate_new_computed_blocks: the hit blocks start the block table.
AllocateNewComputedBlocks(kv, r, hits) ==
    IF kv.cached[r] # NotCached THEN IF hits = <<>> THEN kv ELSE Fail(kv)
    ELSE IF kv.table[r] # <<>> THEN Fail(kv)
    ELSE [Touch(kv, hits) EXCEPT !.table[r] = hits, !.cached[r] = Len(hits)]

\* allocate_new_blocks: as many new blocks as the tokens need.
AllocateNewBlocks(kv, r, numTokens) ==
    LET n == CDiv(numTokens, BlockSize) - Len(kv.table[r])
    IN  IF n <= 0 THEN kv
        ELSE IF n > Len(kv.free) THEN Fail(kv)
        ELSE [GetNewBlocks(kv, n) EXCEPT !.table[r] = @ \o NewBlocks(kv, n)]

\* cache_blocks: publish the blocks that these many tokens fill.
CacheBlocks(kv, r, tokens, numTokens) ==
    LET from == IF kv.cached[r] = NotCached THEN 0 ELSE kv.cached[r]
        upto == numTokens \div BlockSize
    IN  IF from >= upto THEN kv
        ELSE [CacheFullBlocks(kv, r, tokens, from, upto) EXCEPT !.cached[r] = upto]

\* Fault: a block that the scheduled tokens fill only in part is published.
AllocateSlots_SlotsAsTokens(kv, r, tokens, numComputed, hits, numNew) ==
    LET total    == MinOf(numComputed + Len(hits) * BlockSize, MaxModelLen)
        needSlot == MinOf(total + numNew, MaxModelLen)
        toCache  == MinOf(CDiv(needSlot, BlockSize) * BlockSize, Len(tokens))
        kv1      == IF hits = <<>> THEN kv ELSE AllocateNewComputedBlocks(kv, r, hits)
        kv2      == AllocateNewBlocks(kv1, r, needSlot)
    IN  IF NumBlocksToAllocate(kv, r, needSlot, hits) > Len(kv.free)
        THEN [ok |-> FALSE, kv |-> kv]
        ELSE [ok |-> TRUE,
              kv |-> IF EnableCaching THEN CacheBlocks(kv2, r, tokens, toCache) ELSE kv2]

\* allocate_slots: ok is FALSE where the code returns None.  The blocks are
\* published when they are allocated, before the model has run.
AllocateSlots(kv, r, tokens, numComputed, hits, numNew) ==
    LET total    == MinOf(numComputed + Len(hits) * BlockSize, MaxModelLen)
        needSlot == MinOf(total + numNew, MaxModelLen)
        toCache  == MinOf(total + numNew, Len(tokens))
        kv1      == IF hits = <<>> THEN kv ELSE AllocateNewComputedBlocks(kv, r, hits)
        kv2      == AllocateNewBlocks(kv1, r, needSlot)
    IN  IF NumBlocksToAllocate(kv, r, needSlot, hits) > Len(kv.free)
        THEN [ok |-> FALSE, kv |-> kv]
        ELSE [ok |-> TRUE,
              kv |-> IF EnableCaching THEN CacheBlocks(kv2, r, tokens, toCache) ELSE kv2]

\* Fault: the table goes back in order.
FreeRequest_HeadFirst(kv, r) ==
    [FreeBlocks(kv, kv.table[r]) EXCEPT !.table[r] = <<>>, !.cached[r] = NotCached]

\* free: the table goes back in reverse, so that the tail is evicted first.
FreeRequest(kv, r) ==
    [FreeBlocks(kv, Reverse(kv.table[r])) EXCEPT !.table[r]  = <<>>,
                                                 !.cached[r] = NotCached]
=============================================================================
