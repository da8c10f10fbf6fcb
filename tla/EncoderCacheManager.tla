------------------------ MODULE EncoderCacheManager -------------------------
(***************************************************************************)
(* The bookkeeping of encoder outputs (image or audio embeddings):         *)
(* EncoderCacheManager of v1/core/encoder_cache_manager.py, as operators   *)
(* on a record.  The outputs themselves are in the worker's cache; the     *)
(* manager decides what the worker keeps.                                  *)
(***************************************************************************)
EXTENDS Integers, Sequences, SequencesExt, FiniteSetsExt, Functions

CONSTANTS
  Requests,     \* requests, by number
  Features,     \* mm_features: per request, its inputs in order of position
  Size          \* number of embeddings of an input, by hash

Hashes == DOMAIN Size

ASSUME EncoderAssumption ==
  /\ \A h \in Hashes : Size[h] \in Nat \ {0}
  /\ \A r \in Requests : \A i \in DOMAIN Features[r] : Features[r][i].hash \in Hashes

(* capacity: cache_size; cached: the requests that refer to an entry;      *)
(* freeable: entries nobody refers to, oldest first; freed: evicted since  *)
(* the workers were told; slots and reclaimable: num_free_slots and        *)
(* num_freeable_slots                                                      *)
EmptyManager(cacheSize) ==
  [capacity |-> cacheSize, cached |-> <<>>, freeable |-> <<>>, freed |-> <<>>,
   slots |-> cacheSize, reclaimable |-> cacheSize]

IsCached(m, h) == h \in DOMAIN m.cached

(* check_and_update_cache() of an entry that is cached *)
Refer(m, r, h) ==
  LET n == [m EXCEPT !.cached[h] = @ \union {r}]
  IN  IF m.cached[h] # {} THEN n
      ELSE [n EXCEPT !.freeable = Remove(@, h), !.reclaimable = @ - Size[h]]

(* can_allocate(): n embeddings, those already planned for the same request *)
(* included.  Entries are evicted until they fit.                           *)
CanAllocate(m, n) == n <= m.slots \/ n <= m.reclaimable

SizeOf(s) == FoldLeft(LAMBDA t, h : t + Size[h], 0, s)

MakeRoom(m, n) ==
  LET k     == Min({j \in 0..Len(m.freeable) :
                      n <= m.slots + SizeOf(SubSeq(m.freeable, 1, j))})
      gone  == SubSeq(m.freeable, 1, k)
  IN  [m EXCEPT !.freeable = SubSeq(@, k + 1, Len(@)),
                !.cached = Restrict(@, DOMAIN @ \ ToSet(gone)),
                !.freed = @ \o gone,
                !.slots = @ + SizeOf(gone)]

(* allocate() *)
AllocateInput(m, r, h) ==
  [m EXCEPT !.cached = [g \in DOMAIN @ \union {h} |->
                          (IF g \in DOMAIN @ THEN @[g] ELSE {})
                            \union (IF g = h THEN {r} ELSE {})],
            !.slots = @ - Size[h],
            !.reclaimable = @ - Size[h]]

(* free_encoder_input() *)
FreeInput_Twice(m, r, h) ==
  IF ~IsCached(m, h) THEN m
  ELSE LET n == [m EXCEPT !.cached[h] = @ \ {r}]
       IN  IF n.cached[h] # {} THEN n
           ELSE [n EXCEPT !.freeable = IF h \in ToSet(@) THEN @ ELSE Append(@, h),
                          !.reclaimable = @ + Size[h]]

FreeInput(m, r, h) ==
  IF ~IsCached(m, h) \/ (IsCached(m, h) /\ m.cached[h] = {}) THEN m
  ELSE LET n == [m EXCEPT !.cached[h] = @ \ {r}]
       IN  IF n.cached[h] # {} THEN n
           ELSE [n EXCEPT !.freeable = Append(@, h), !.reclaimable = @ + Size[h]]

(* The inputs of r with an index in I, whose entries exist: freed in the   *)
(* order of their position (CPython's order of a small set of integers)    *)
FreeInputs(m, r, I) ==
  FoldLeft(LAMBDA n, f : IF f \in I /\ IsCached(m, Features[r][f].hash)
                         THEN FreeInput(n, r, Features[r][f].hash) ELSE n,
           m, [i \in 1..Len(Features[r]) |-> i])

(* free() *)
FreeAll(m, r) == FreeInputs(m, r, DOMAIN Features[r])

(* get_freed_mm_hashes() *)
TakeFreed(m) == [m EXCEPT !.freed = <<>>]

-----------------------------------------------------------------------------
(* The slots are counted exactly: what is free is what no entry occupies,  *)
(* what can be reclaimed is that and the entries nobody refers to, which   *)
(* are the freeable ones, each once.  So neither number is ever negative   *)
(* and the assertions of allocate() hold.                                  *)
SlotsExact(m) ==
  LET total(S) == MapThenSumSet(LAMBDA h : Size[h], S)
      idle == {h \in DOMAIN m.cached : m.cached[h] = {}}
  IN  /\ m.slots = m.capacity - total(DOMAIN m.cached)
      /\ m.reclaimable = m.capacity - total(DOMAIN m.cached \ idle)
      /\ ToSet(m.freeable) = idle
      /\ Len(m.freeable) = Cardinality(idle)
      /\ m.slots >= 0
=============================================================================
