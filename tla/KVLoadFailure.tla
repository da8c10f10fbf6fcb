--------------------------- MODULE KVLoadFailure ----------------------------
(***************************************************************************)
(* Loads of KV blocks that fail: _handle_invalid_blocks and                *)
(* _update_requests_with_invalid_blocks of the scheduler, with the         *)
(* scheduling, the prefix cache and the batches in flight around them.     *)
(*                                                                         *)
(* A connector loads blocks of a waiting request in the forward pass it is *)
(* scheduled for (synchronous loading).  The scheduler learns with the     *)
(* output of that batch which blocks were not loaded; until then it treats *)
(* them as computed, and other requests may share them.  The KV of a       *)
(* position is the token sequence it was computed from, Junk otherwise.    *)
(* Not modelled here: the token budget (every step schedules all tokens a  *)
(* request has), speculative tokens and asynchronous loads (KVTransfer).   *)
(***************************************************************************)
EXTENDS Integers, FiniteSets, Sequences, FiniteSetsExt, SequencesExt

CONSTANTS
  Requests,      \* numbered from 1
  BlockSize,
  Configs        \* settings and bounds to start with: records as below

LoadFailureAssumption ==
  /\ Requests \subseteq Nat \ {0} /\ BlockSize \in Nat \ {0}
  /\ \A c \in Configs :
       /\ c.requests \subseteq Requests /\ c.numBlocks \in Nat
       /\ \A r \in Requests :
            /\ c.prompt[r] \in Seq(1..9) /\ c.prompt[r] # <<>>
            /\ c.hit \in Nat /\ c.hit < Len(c.prompt[r]) /\ c.hit % BlockSize = 0
            (* a request that is alone can always run *)
            /\ Len(c.prompt[r]) + c.maxOutputs <= c.numBlocks * BlockSize
       /\ c.maxOutputs \in Nat \ {0} /\ c.recompute \in BOOLEAN
       /\ c.maxInflight \in Nat \ {0} /\ c.maxFailures \in Nat /\ c.maxAborts \in Nat

VARIABLES
  config,             \* chosen at the start
  waiting, running,   \* queues of requests
  ended,              \* requests that stopped, were aborted or failed
  table,              \* the blocks of a request, in order
  free,               \* free_block_queue, next block to give out first
  hash,               \* block_hash: the prefix a cached block ends, <<>> if none
  computed, cached,   \* num_computed_tokens, num_cached_tokens
  outputs,            \* number of output tokens
  step,               \* the locals of schedule()
  inflight,           \* batches handed to the worker, oldest first
  mem,                \* the KV in each slot of each block
  delivered,          \* requests that were given a token sampled from wrong KV
  failures, aborts

vars == <<config, waiting, running, ended, table, free, hash, computed, cached, outputs,
          step, inflight, mem, delivered, failures, aborts>>

Prompt      == config.prompt       \* token numbers below 10, per request
NumBlocks   == config.numBlocks
HitLength   == config.hit          \* length of the prefix the connector has
MaxOutputs  == config.maxOutputs   \* output tokens of a request
Recompute   == config.recompute    \* kv_load_failure_policy = "recompute", else "fail"
MaxInflight == config.maxInflight  \* batches in flight
MaxFailures == config.maxFailures  \* bound on the batches with a failed load
MaxAborts   == config.maxAborts    \* bound on aborts

Tokens(r, n) == Prompt[r] \o [k \in 1..n |-> 10 * r + k]

Blocks  == 1..NumBlocks
Slots   == 1..BlockSize
Junk    == <<0>>
NoHash  == <<>>
NoStep  == [part |-> "none", index |-> 1, sched |-> <<>>, preempted |-> FALSE]
Ceil(n) == (n + BlockSize - 1) \div BlockSize

NumTokens(r) == Len(Prompt[r]) + outputs[r]
Prefix(r, n) == SubSeq(Tokens(r, outputs[r]), 1, n)

(* Entry of a batch: the positions lo+1..hi of req are computed, the       *)
(* blocks at indices load are loaded first, blocks is the block table      *)
Entry(r, lo, hi, load, blocks) ==
  [req |-> r, lo |-> lo, hi |-> hi, load |-> load, blocks |-> blocks,
   toks |-> Tokens(r, outputs[r])]

TypeOK ==
  /\ config \in Configs
  /\ waiting \in Seq(Requests) /\ running \in Seq(Requests) /\ ended \subseteq Requests
  /\ table \in [Requests -> Seq(Blocks)] /\ free \in Seq(Blocks)
  /\ DOMAIN hash = Blocks
  /\ computed \in [Requests -> Nat] /\ cached \in [Requests -> Int]
  /\ outputs \in [Requests -> 0..MaxOutputs]
  /\ step.part \in {"none", "running", "waiting", "end"}
  /\ Len(inflight) <= MaxInflight
  /\ \A b \in Blocks : DOMAIN mem[b] = Slots
  /\ delivered \subseteq Requests
  /\ failures \in 0..MaxFailures /\ aborts \in 0..MaxAborts

Init ==
  /\ config \in Configs
  /\ waiting = <<>> /\ running = <<>> /\ ended = {}
  /\ table = [r \in Requests |-> <<>>]
  /\ free = [i \in Blocks |-> i]
  /\ hash = [b \in Blocks |-> NoHash]
  /\ computed = [r \in Requests |-> 0]
  /\ cached = [r \in Requests |-> -1]
  /\ outputs = [r \in Requests |-> 0]
  /\ step = NoStep
  /\ inflight = <<>>
  /\ mem = [b \in Blocks |-> [o \in Slots |-> Junk]]
  /\ delivered = {} /\ failures = 0 /\ aborts = 0

-----------------------------------------------------------------------------
(* The block pool                                                          *)

(* KVCacheManager.free: the blocks nobody else holds go to the free queue, *)
(* last block first; they keep their hash                                  *)
Release(pool, r) ==
  [table |-> [pool.table EXCEPT ![r] = <<>>],
   free  |-> pool.free \o SelectSeq(Reverse(pool.table[r]),
               LAMBDA b : \A o \in Requests \ {r} : b \notin Range(pool.table[o]))]

ReleaseAll(rs) == FoldLeft(Release, [table |-> table, free |-> free], rs)

(* get_computed_blocks: the longest prefix, short of the last token, whose *)
(* blocks are all cached                                                   *)
HitBlocks(r) ==
  LET hit(k) == \A i \in 1..k : \E b \in Blocks : hash[b] = Prefix(r, i * BlockSize)
      ks     == {k \in 0..((NumTokens(r) - 1) \div BlockSize) : hit(k)}
  IN  {t \in [1..Max(ks) -> Blocks] :
         \A i \in DOMAIN t : hash[t[i]] = Prefix(r, i * BlockSize)}

(* The blocks that get_new_blocks takes lose their hash; all full blocks   *)
(* up to token n are then cached, before they are loaded or computed       *)
CacheFullBlocks(r, blocks, new, n) ==
  [b \in Blocks |->
     IF \E i \in 1..(n \div BlockSize) : blocks[i] = b
     THEN Prefix(r, BlockSize * (CHOOSE i \in 1..(n \div BlockSize) : blocks[i] = b))
     ELSE IF b \in Range(new) THEN NoHash ELSE hash[b]]

(* The blocks of the request become blocks followed by the first need of   *)
(* the queue; they hold its tokens up to n                                 *)
Allocate(r, blocks, need, queue, n) ==
  LET new == SubSeq(queue, 1, need) IN
  /\ table' = [table EXCEPT ![r] = blocks \o new]
  /\ free' = SubSeq(queue, need + 1, Len(queue))
  /\ hash' = CacheFullBlocks(r, blocks \o new, new, n)

-----------------------------------------------------------------------------
(* schedule(), one request at a time                                       *)

Arrive(r) ==
  /\ step = NoStep
  /\ r \in config.requests \ (Range(waiting) \cup Range(running) \cup ended)
  /\ waiting' = Append(waiting, r)
  /\ UNCHANGED <<config, running, ended, table, free, hash, computed, cached, outputs, step,
                 inflight, mem, delivered, failures, aborts>>

StartSchedule ==
  /\ step = NoStep
  /\ Len(inflight) < MaxInflight
  /\ waiting # <<>> \/ running # <<>>
  /\ step' = [NoStep EXCEPT !.part = "running"]
  /\ UNCHANGED <<config, waiting, running, ended, table, free, hash, computed, cached, outputs,
                 inflight, mem, delivered, failures, aborts>>

InRunning == step.part = "running" /\ step.index <= Len(running)
Current   == running[step.index]
NeedOf(r) == Max({0, Ceil(NumTokens(r)) - Len(table[r])})

(* All tokens of the request are computed or in flight *)
SkipRunning ==
  /\ InRunning
  /\ computed[Current] = NumTokens(Current)
  /\ step' = [step EXCEPT !.index = @ + 1]
  /\ UNCHANGED <<config, waiting, running, ended, table, free, hash, computed, cached, outputs,
                 inflight, mem, delivered, failures, aborts>>

ScheduleRunning ==
  /\ InRunning
  /\ computed[Current] < NumTokens(Current)
  /\ NeedOf(Current) <= Len(free)
  /\ Allocate(Current, table[Current], NeedOf(Current), free, NumTokens(Current))
  /\ step' = [step EXCEPT !.index = @ + 1,
                !.sched = Append(@, Entry(Current, computed[Current], NumTokens(Current),
                                          {}, table'[Current]))]
  /\ UNCHANGED <<config, waiting, running, ended, computed, cached, outputs, inflight, mem,
                 delivered, failures, aborts>>

(* _preempt_request of the last running request; when it is the current    *)
(* one, nothing more is scheduled                                          *)
PreemptLast ==
  LET r == Last(running)
      p == ReleaseAll(<<r>>)
  IN
  /\ InRunning
  /\ computed[Current] < NumTokens(Current)
  /\ NeedOf(Current) > Len(free)
  /\ running' = Front(running)
  /\ waiting' = <<r>> \o waiting
  /\ computed' = [computed EXCEPT ![r] = 0]
  /\ table' = p.table /\ free' = p.free
  /\ step' = [step EXCEPT !.part = IF r = Current THEN "end" ELSE @, !.preempted = TRUE]
  /\ UNCHANGED <<config, ended, hash, cached, outputs, inflight, mem, delivered, failures, aborts>>

(* Waiting requests are not scheduled in a step that preempted one *)
EndRunning ==
  /\ step.part = "running" /\ step.index > Len(running)
  /\ step' = [step EXCEPT !.part = IF step.preempted THEN "end" ELSE "waiting"]
  /\ UNCHANGED <<config, waiting, running, ended, table, free, hash, computed, cached, outputs,
                 inflight, mem, delivered, failures, aborts>>

(* Prefix cache hits, then what the connector offers beyond them; all      *)
(* remaining tokens are scheduled with the load                            *)
ScheduleWaiting ==
  /\ step.part = "waiting" /\ waiting # <<>>
  /\ LET r == Head(waiting) IN
     \E hits \in HitBlocks(r), total \in {0, HitLength} :
       LET local == Len(hits) * BlockSize
           done  == Max({local, total})
           queue == SelectSeq(free, LAMBDA b : b \notin Range(hits))
           need  == Ceil(NumTokens(r)) - Len(hits)
       IN
       /\ need <= Len(queue)
       /\ Allocate(r, hits, need, queue, NumTokens(r))
       /\ running' = Append(running, r)
       /\ waiting' = Tail(waiting)
       /\ computed' = [computed EXCEPT ![r] = done]
       /\ cached' = [cached EXCEPT ![r] = IF @ < 0 THEN done ELSE @]
       /\ step' = [step EXCEPT
            !.sched = Append(@, Entry(r, done, NumTokens(r),
                                      (Len(hits) + 1)..(done \div BlockSize), table'[r]))]
  /\ UNCHANGED <<config, ended, outputs, inflight, mem, delivered, failures, aborts>>

(* The loop also ends when the first waiting request does not fit *)
WaitingFits ==
  LET r == Head(waiting) IN
  \E hits \in HitBlocks(r) :
    Ceil(NumTokens(r)) - Len(hits)
      <= Len(SelectSeq(free, LAMBDA b : b \notin Range(hits)))

(* A batch without requests is not handed to the worker.                   *)
(* _update_after_schedule counts the scheduled tokens as computed          *)
EndSchedule ==
  /\ \/ step.part = "end"
     \/ step.part = "waiting" /\ waiting = <<>>
     \/ step.part = "waiting" /\ waiting # <<>> /\ ~ WaitingFits
  /\ step' = NoStep
  /\ computed' = [r \in Requests |->
       IF \E i \in DOMAIN step.sched : step.sched[i].req = r THEN NumTokens(r) ELSE computed[r]]
  /\ inflight' = IF step.sched = <<>> THEN inflight
                 ELSE Append(inflight, [sched |-> step.sched, done |-> FALSE,
                                        good |-> {}, invalid |-> {}])
  /\ UNCHANGED <<config, waiting, running, ended, table, free, hash, cached, outputs, mem,
                 delivered, failures, aborts>>

-----------------------------------------------------------------------------
(* The worker                                                              *)

BlockOf(e, p) == e.blocks[((p - 1) \div BlockSize) + 1]
SlotOf(p)     == ((p - 1) % BlockSize) + 1

(* Every position before p holds the KV of the request's own tokens *)
ReadsOwnKV(m, e, p) ==
  \A q \in 1..(p - 1) : m[BlockOf(e, q)][SlotOf(q)] = SubSeq(e.toks, 1, q)

Loaded(m, sched, bad) ==
  [b \in Blocks |-> [o \in Slots |->
     LET es == {e \in Range(sched) : \E i \in e.load : e.blocks[i] = b} IN
     IF es = {} THEN m[b][o]
     ELSE IF b \in bad THEN Junk
     ELSE LET e == CHOOSE e \in es : TRUE
              i == CHOOSE i \in e.load : e.blocks[i] = b
          IN  SubSeq(e.toks, 1, (i - 1) * BlockSize + o)]]

(* The forward pass: a layer writes the KV of all scheduled positions      *)
(* before any of them is read, so a request sees what another one of the   *)
(* same batch computes in a block they share                               *)
Computed(m, sched) ==
  LET writers(b, p) == {e \in Range(sched) : e.lo < p /\ p <= e.hi /\ BlockOf(e, p) = b}
      last == Max({e.hi : e \in Range(sched)})
      upto[p \in 0..last] ==
        IF p = 0 THEN m
        ELSE [b \in Blocks |-> [o \in Slots |->
               LET ws == writers(b, p) IN
               IF o # SlotOf(p) \/ ws = {} THEN upto[p - 1][b][o]
               ELSE LET e == CHOOSE e \in ws : TRUE IN
                    IF ReadsOwnKV(upto[p - 1], e, p) THEN SubSeq(e.toks, 1, p) ELSE Junk]]
  IN  upto[last]

(* The oldest batch that was not executed yet: the connector loads, blocks *)
(* bad fail, the model computes and samples                                *)
Execute ==
  \E i \in DOMAIN inflight :
    /\ ~ inflight[i].done
    /\ \A j \in 1..(i - 1) : inflight[j].done
    /\ LET sched == inflight[i].sched
           loads == UNION {{e.blocks[k] : k \in e.load} : e \in Range(sched)}
       IN
       \E bad \in SUBSET loads :
         LET after == Computed(Loaded(mem, sched, bad), sched) IN
         /\ bad # {} => failures < MaxFailures
         /\ failures' = failures + (IF bad # {} THEN 1 ELSE 0)
         /\ mem' = after
         /\ inflight' = [inflight EXCEPT ![i] =
              [sched |-> sched, done |-> TRUE, invalid |-> bad,
               good |-> {e.req : e \in {e \in Range(sched) : ReadsOwnKV(after, e, e.hi + 1)}}]]
  /\ UNCHANGED <<config, waiting, running, ended, table, free, hash, computed, cached, outputs,
                 step, delivered, aborts>>

-----------------------------------------------------------------------------
(* update_from_output()                                                    *)

(* Faults: a request whose invalid blocks were all marked by earlier ones  *)
(* is passed over, or is not cut back; only the invalid block is evicted   *)
MarkInvalid_OnlyFirst(acc, r) ==
  LET hits == {i \in 1..Min({Ceil(cached[r]), Len(table[r])}) :
                 table[r][i] \in acc.invalid \ acc.marked} IN
  IF hits = {} THEN acc
  ELSE [acc EXCEPT !.marked = @ \cup {table[r][i] : i \in hits},
                   !.affected = @ \cup {r},
                   !.computed[r] = (Min(hits) - 1) * BlockSize,
                   !.evict = @ \cup {table[r][i] : i \in Min(hits)..Len(table[r])}]

MarkInvalid_KeepComputed(acc, r) ==
  LET hits  == {i \in 1..Min({Ceil(cached[r]), Len(table[r])}) : table[r][i] \in acc.invalid}
      fresh == {i \in hits : table[r][i] \notin acc.marked}
  IN
  IF hits = {} THEN acc
  ELSE [acc EXCEPT !.marked = @ \cup {table[r][i] : i \in hits},
                   !.affected = @ \cup {r},
                   !.computed[r] = IF fresh = {} THEN @ ELSE (Min(fresh) - 1) * BlockSize,
                   !.evict = IF fresh = {} THEN @
                             ELSE @ \cup {table[r][i] : i \in Min(fresh)..Len(table[r])}]

MarkInvalid_EvictOne(acc, r) ==
  LET hits == {i \in 1..Min({Ceil(cached[r]), Len(table[r])}) : table[r][i] \in acc.invalid} IN
  IF hits = {} THEN acc
  ELSE [acc EXCEPT !.marked = @ \cup {table[r][i] : i \in hits},
                   !.affected = @ \cup {r},
                   !.evict = @ \cup {table[r][i] : i \in hits}]

(* One running request of _update_requests_with_invalid_blocks: of the     *)
(* blocks its cached tokens fill, hits are invalid; the first that no      *)
(* earlier request has marked is where it is cut off                       *)
MarkInvalid(acc, r) ==
  LET hits  == {i \in 1..Min({Ceil(cached[r]), Len(table[r])}) : table[r][i] \in acc.invalid}
      fresh == {i \in hits : table[r][i] \notin acc.marked}
  IN
  IF hits = {} THEN acc
  ELSE [acc EXCEPT
         !.marked = @ \cup {table[r][i] : i \in hits},
         !.affected = @ \cup {r},
         !.computed[r] = IF fresh = {} THEN cached[r] ELSE (Min(fresh) - 1) * BlockSize,
         !.evict = IF fresh = {} THEN @
                   ELSE @ \cup {table[r][i] : i \in Min(fresh)..Len(table[r])}]

HandleInvalid(invalid) ==
  FoldLeft(MarkInvalid,
           [invalid |-> invalid, marked |-> {}, affected |-> {}, computed |-> computed,
            evict |-> {}], running)

(* The failed requests of this batch are skipped and, under the policy     *)
(* "fail", finished; the others get their token                            *)
UpdateFromOutput ==
  /\ step = NoStep
  /\ inflight # <<>> /\ Head(inflight).done
  /\ LET batch == Head(inflight)
         h     == HandleInvalid(batch.invalid)
         gets  == {e.req : e \in {e \in Range(batch.sched) :
                                    e.req \notin h.affected \cup ended}}
         out   == [r \in Requests |-> outputs[r] + (IF r \in gets THEN 1 ELSE 0)]
         stops == {r \in gets : out[r] = MaxOutputs}
         fails == IF Recompute THEN {} ELSE h.affected
         gone  == SelectSeq([i \in DOMAIN batch.sched |-> batch.sched[i].req],
                            LAMBDA r : r \in stops)
                    \o SelectSeq(running, LAMBDA r : r \in fails)
         p     == ReleaseAll(gone)
     IN
     /\ outputs' = out
     /\ delivered' = delivered \cup (gets \ batch.good)
     /\ ended' = ended \cup stops \cup fails
     /\ running' = SelectSeq(running, LAMBDA r : r \notin stops \cup fails)
     /\ waiting' = SelectSeq(waiting, LAMBDA r : r \notin stops)
     /\ table' = p.table /\ free' = p.free
     /\ computed' = h.computed
     /\ hash' = IF Recompute THEN hash
                ELSE [b \in Blocks |-> IF b \in h.evict THEN NoHash ELSE hash[b]]
  /\ inflight' = Tail(inflight)
  /\ UNCHANGED <<config, cached, step, mem, failures, aborts>>

(* finish_requests(FINISHED_ABORTED), also between the execution of a      *)
(* batch and its update_from_output                                        *)
Abort(r) ==
  /\ step = NoStep /\ aborts < MaxAborts
  /\ r \in Range(waiting) \cup Range(running)
  /\ LET p == ReleaseAll(<<r>>) IN table' = p.table /\ free' = p.free
  /\ ended' = ended \cup {r}
  /\ running' = SelectSeq(running, LAMBDA o : o # r)
  /\ waiting' = SelectSeq(waiting, LAMBDA o : o # r)
  /\ aborts' = aborts + 1
  /\ UNCHANGED <<config, hash, computed, cached, outputs, step, inflight, mem, delivered, failures>>

Finished ==
  /\ ended = config.requests /\ inflight = <<>>
  /\ UNCHANGED vars

Schedule ==
  \/ StartSchedule \/ SkipRunning \/ ScheduleRunning \/ PreemptLast \/ EndRunning
  \/ ScheduleWaiting \/ EndSchedule

Next ==
  \/ \E r \in Requests : Arrive(r) \/ Abort(r)
  \/ Schedule \/ Execute \/ UpdateFromOutput \/ Finished

Spec == Init /\ [][Next]_vars

-----------------------------------------------------------------------------
(* No client is given a token that was sampled from KV which a failed load *)
(* left behind, or which was computed from such KV: the affected requests  *)
(* are skipped and cut back far enough (_update_requests_with_invalid_     *)
(* blocks), whoever shares the blocks.                                     *)
NoTokenFromBadLoad == delivered = {}

(* With nothing in flight, a block that the prefix cache would hand to     *)
(* another request holds the KV of the tokens it is cached for: failed     *)
(* loads, and what was computed from them, are evicted (evict_blocks).     *)
(* Under the policy "recompute" the blocks stay cached, and no block is    *)
(* evicted when its request was aborted before the failure was reported.   *)
CacheHoldsItsPrefix ==
  (~ Recompute /\ aborts = 0 /\ inflight = <<>> /\ step = NoStep) =>
    \A b \in Blocks : hash[b] # NoHash =>
      \A o \in Slots : mem[b][o] = SubSeq(hash[b], 1, Len(hash[b]) - BlockSize + o)
=============================================================================
