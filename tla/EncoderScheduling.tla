------------------------- MODULE EncoderScheduling --------------------------
(***************************************************************************)
(* Multi-modal inputs in the scheduler: _try_schedule_encoder_inputs, the  *)
(* loops of schedule() around it, _preempt_request, _free_encoder_inputs   *)
(* and the worker's encoder cache.                                         *)
(*                                                                         *)
(* The prompt of a request has inputs (Features), each a range of          *)
(* positions whose embeddings the encoder computes.  A batch that computes *)
(* a position of an input needs its embeddings in the worker's cache; with *)
(* EAGLE the draft model also reads one position further (Shift).  KV      *)
(* blocks are left out: that allocate_slots() fails is a choice here.      *)
(***************************************************************************)
EXTENDS EncoderCacheManager

CONSTANTS
  PromptLen,       \* per request
  MaxOutputs,      \* output tokens of a request
  TokenBudget,     \* max_num_scheduled_tokens
  Hits,            \* prefix cache hits that are tried for a waiting request
  MaxInflight,     \* batches in flight
  Configs          \* settings and bounds to start with: records as below

ASSUME SchedulingAssumption ==
  /\ \A r \in Requests : r \in Nat /\ PromptLen[r] \in Nat \ {0}
  /\ MaxOutputs \in Nat \ {0} /\ TokenBudget \in Nat \ {0}
  /\ Hits \subseteq Nat /\ 0 \in Hits
  /\ MaxInflight \in Nat \ {0}
  /\ Configs \subseteq [requests : SUBSET Requests, cacheSize : Nat, encoderBudget : Nat,
                       shift : {0, 1}, noChunking : BOOLEAN, priority : BOOLEAN,
                       maxFailures : Nat, maxResets : Nat]
  \* Start-up makes the cache large enough for any one input
  /\ \A c \in Configs : \A h \in Hashes : Size[h] <= c.cacheSize

VARIABLES
  config,     \* chosen at the start
  m,          \* encoder_cache_manager
  running, waiting,
  computed,   \* num_computed_tokens
  outputs,    \* output tokens so far
  step,       \* the locals of schedule()
  inflight,   \* batches on their way to the worker, oldest first
  worker,     \* hashes in the worker's encoder_cache
  finished,
  failures, resets

vars == <<config, m, running, waiting, computed, outputs, step, inflight, worker, finished,
          failures, resets>>

EncoderBudget == config.encoderBudget  \* max_num_encoder_input_tokens
Shift == config.shift                  \* 1 with EAGLE, else 0
NoChunking == config.noChunking        \* disable_chunked_mm_input
Priority == config.priority            \* priority by request number, else FCFS
MaxFailures == config.maxFailures      \* bound on failures of allocate_slots()
MaxResets == config.maxResets          \* bound on reset_encoder_cache() calls

(* part: which loop; index: req_index; tokens and encoder: the budgets;    *)
(* sched: the scheduled requests, their tokens and inputs to encode; plan: *)
(* what is planned for the running request that waits for KV blocks        *)
NoPlan == [req |-> 0]
NoStep == [part |-> "none", index |-> 1, tokens |-> 0, encoder |-> 0,
           sched |-> <<>>, plan |-> NoPlan, preempted |-> FALSE]

NumTokens(r) == PromptLen[r] + outputs[r]
HashOf(r, i) == Features[r][i].hash

TypeOK ==
  /\ config \in Configs
  /\ m.slots \in Int /\ m.reclaimable \in Int
  /\ DOMAIN m.cached \subseteq Hashes
  /\ \A h \in DOMAIN m.cached : m.cached[h] \subseteq Requests
  /\ running \in Seq(Requests) /\ waiting \in Seq(Requests)
  /\ \A r \in Requests : computed[r] \in 0..NumTokens(r) /\ outputs[r] \in 0..MaxOutputs
  /\ step.part \in {"none", "running", "waiting", "end"}
  /\ step.tokens \in 0..TokenBudget
  /\ Len(inflight) <= MaxInflight + MaxResets
  /\ worker \subseteq Hashes /\ finished \subseteq Requests
  /\ failures \in 0..MaxFailures /\ resets \in 0..MaxResets

Init ==
  /\ config \in Configs
  /\ m = EmptyManager(config.cacheSize)
  /\ running = <<>> /\ waiting = <<>>
  /\ computed = [r \in Requests |-> 0]
  /\ outputs = [r \in Requests |-> 0]
  /\ step = NoStep
  /\ inflight = <<>> /\ worker = {} /\ finished = {}
  /\ failures = 0 /\ resets = 0

Drop(s, r) == SelectSeq(s, LAMBDA x : x # r)
Known(r) == r \in ToSet(running) \union ToSet(waiting)

(* The waiting queue: FIFO with new requests at the end and preempted ones *)
(* at the front, or ordered by priority                                    *)
Insert(q, r, front) ==
  IF ~Priority THEN IF front THEN <<r>> \o q ELSE Append(q, r)
  ELSE SelectSeq(q, LAMBDA x : x < r) \o <<r>> \o SelectSeq(q, LAMBDA x : x > r)

-----------------------------------------------------------------------------
(* _try_schedule_encoder_inputs() for request r, of which c tokens are     *)
(* computed and n are to be scheduled: the inputs that overlap the range   *)
(* are referred to when they are cached, planned when they fit, and else   *)
(* the range ends before them.                                             *)

PlanInput_NoRollback(r, c, a, i) ==
  LET f == Features[r][i]
      want == a.embeds + Size[f.hash]
      planned == {HashOf(r, j) : j \in ToSet(a.plan)}
  IN  IF a.stop \/ f.start >= c + a.n + Shift THEN [a EXCEPT !.stop = TRUE]
      ELSE IF f.start + f.len <= c \/ f.hash \in planned THEN a
      ELSE IF IsCached(a.m, f.hash) THEN [a EXCEPT !.m = Refer(@, r, f.hash)]
      ELSE IF Size[f.hash] > a.encoder \/ ~CanAllocate(a.m, want) THEN [a EXCEPT !.stop = TRUE]
      ELSE IF f.start >= c + a.n THEN [a EXCEPT !.m = MakeRoom(@, want)]
      ELSE [a EXCEPT !.m = MakeRoom(@, want), !.plan = Append(@, i),
                     !.embeds = want, !.encoder = @ - Size[f.hash]]

PlanInput(r, c, a, i) ==
  LET f == Features[r][i]
      want == a.embeds + Size[f.hash]
      planned == {HashOf(r, j) : j \in ToSet(a.plan)}
      before == Max({0, f.start - (c + Shift)})
  IN  IF a.stop \/ f.start >= c + a.n + Shift THEN [a EXCEPT !.stop = TRUE]
      ELSE IF f.start + f.len <= c \/ f.hash \in planned THEN a
      ELSE IF IsCached(a.m, f.hash) THEN [a EXCEPT !.m = Refer(@, r, f.hash)]
      ELSE IF \/ NoChunking /\ c < f.start /\ c + a.n < f.start + f.len
              \/ Size[f.hash] > a.encoder
              \/ ~CanAllocate(a.m, want)
           THEN [a EXCEPT !.n = before, !.stop = TRUE]
      ELSE IF f.start >= c + a.n      \* no embedding of it in the range itself
           THEN [a EXCEPT !.m = MakeRoom(@, want)]
      ELSE [a EXCEPT !.m = MakeRoom(@, want), !.plan = Append(@, i),
                     !.embeds = want, !.encoder = @ - Size[f.hash]]

TrySchedule(r, c, n) ==
  FoldLeft(LAMBDA a, i : PlanInput(r, c, a, i),
           [m |-> m, n |-> n, encoder |-> step.encoder, plan |-> <<>>, embeds |-> 0,
            stop |-> n = 0],
           [i \in 1..Len(Features[r]) |-> i])

(* allocate() for every planned input of r *)
AllocatePlan(a, r) ==
  FoldLeft(LAMBDA x, i : AllocateInput(x, r, HashOf(r, i)), a.m, a.plan)

(* r is scheduled with the plan a *)
Scheduled(a, r) ==
  /\ m' = AllocatePlan(a, r)
  /\ step' = [step EXCEPT !.index = @ + 1,
                          !.tokens = @ - a.n,
                          !.encoder = IF a.plan = <<>> THEN @ ELSE a.encoder,
                          !.sched = Append(@, [req |-> r, n |-> a.n, inputs |-> a.plan]),
                          !.plan = NoPlan]

-----------------------------------------------------------------------------
(* Requests come and go between steps                                      *)

Arrive(r) ==
  /\ step.part = "none"
  /\ r \in config.requests /\ ~Known(r) /\ r \notin finished
  /\ waiting' = Insert(waiting, r, FALSE)
  /\ UNCHANGED <<config, m, running, computed, outputs, step, inflight, worker, finished, failures,
                 resets>>

(* finish_requests() and _free_request() *)
Abort(r) ==
  /\ step.part = "none" /\ Known(r)
  /\ m' = FreeAll(m, r)
  /\ running' = Drop(running, r) /\ waiting' = Drop(waiting, r)
  /\ finished' = finished \union {r}
  /\ UNCHANGED <<config, computed, outputs, step, inflight, worker, failures, resets>>

(* EngineCore.reset_encoder_cache(): the manager at once, the worker after *)
(* the batches it was sent before                                          *)
Reset ==
  /\ step.part = "none" /\ resets < MaxResets
  /\ m' = EmptyManager(m.capacity)
  /\ inflight' = Append(inflight, [reset |-> TRUE])
  /\ resets' = resets + 1
  /\ UNCHANGED <<config, running, waiting, computed, outputs, step, worker, finished, failures>>

-----------------------------------------------------------------------------
(* schedule()                                                              *)

StartSchedule ==
  /\ step.part = "none"
  /\ running # <<>> \/ waiting # <<>>
  /\ Len(SelectSeq(inflight, LAMBDA b : ~b.reset)) < MaxInflight
  /\ step' = [NoStep EXCEPT !.part = "running", !.tokens = TokenBudget,
                            !.encoder = EncoderBudget]
  /\ UNCHANGED <<config, m, running, waiting, computed, outputs, inflight, worker, finished,
                 failures, resets>>

(* The first loop: the running request at req_index.  It is skipped when   *)
(* its inputs leave it no token.                                           *)
InRunning == step.part = "running" /\ step.index <= Len(running) /\ step.tokens > 0

PlanRunning ==
  /\ InRunning /\ step.plan = NoPlan
  /\ LET r == running[step.index]
         a == TrySchedule(r, computed[r], Min({NumTokens(r) - computed[r], step.tokens}))
     IN  /\ m' = a.m
         /\ step' = IF a.n = 0 THEN [step EXCEPT !.index = @ + 1]
                    ELSE [step EXCEPT !.plan = [req |-> r, n |-> a.n, plan |-> a.plan,
                                                encoder |-> a.encoder]]
  /\ UNCHANGED <<config, running, waiting, computed, outputs, inflight, worker, finished, failures,
                 resets>>

(* allocate_slots() succeeds *)
ScheduleRunning ==
  /\ step.plan # NoPlan
  /\ Scheduled([m |-> m, n |-> step.plan.n, plan |-> step.plan.plan,
                encoder |-> step.plan.encoder], step.plan.req)
  /\ UNCHANGED <<config, running, waiting, computed, outputs, inflight, worker, finished, failures,
                 resets>>

(* allocate_slots() fails: the last running request, or the one with the   *)
(* lowest priority, is preempted, and the allocation is tried again.  A    *)
(* request that was already scheduled in this step leaves the batch; its   *)
(* tokens and its encoder budget are given back.                           *)
PreemptFor ==
  /\ step.plan # NoPlan
  /\ failures < MaxFailures
  /\ failures' = failures + 1
  /\ LET victim == IF Priority THEN Max(ToSet(running)) ELSE Last(running)
         gone   == {k \in DOMAIN step.sched : step.sched[k].req = victim}
         sizes(k) == SizeOf([j \in DOMAIN step.sched[k].inputs |->
                               HashOf(victim, step.sched[k].inputs[j])])
     IN  /\ m' = FreeAll(m, victim)
         /\ running' = Drop(running, victim)
         /\ waiting' = Insert(waiting, victim, TRUE)
         /\ computed' = [computed EXCEPT ![victim] = 0]
         /\ step' = IF victim = step.plan.req
                    THEN [step EXCEPT !.part = "end", !.plan = NoPlan]
                    ELSE [step EXCEPT
                           !.index = @ - Cardinality(gone),
                           !.tokens = @ + MapThenSumSet(LAMBDA k : step.sched[k].n, gone),
                           !.encoder = @ + MapThenSumSet(sizes, gone),
                           !.sched = SelectSeq(@, LAMBDA x : x.req # victim),
                           !.preempted = TRUE]
  /\ UNCHANGED <<config, outputs, inflight, worker, finished, resets>>

EndRunning ==
  /\ step.part = "running" /\ ~InRunning /\ step.plan = NoPlan
  /\ step' = [step EXCEPT !.part = IF step.preempted THEN "end" ELSE "waiting"]
  /\ UNCHANGED <<config, m, running, waiting, computed, outputs, inflight, worker, finished,
                 failures, resets>>

(* The second loop: the head of the waiting queue.  A request that was     *)
(* preempted or is new may find a prefix of its tokens cached.             *)
InWaiting == step.part = "waiting" /\ waiting # <<>> /\ step.tokens > 0
WaitingPlan(c) ==
  TrySchedule(Head(waiting), c, Min({NumTokens(Head(waiting)) - c, step.tokens}))

ScheduleWaiting(c) ==
  /\ InWaiting /\ c < NumTokens(Head(waiting))
  /\ LET r == Head(waiting)
         a == WaitingPlan(c)
     IN  \/ /\ a.n = 0                                \* no encoder space: stop here
            /\ m' = a.m
            /\ step' = [step EXCEPT !.part = "end"]
            /\ UNCHANGED <<running, waiting, computed, failures>>
         \/ /\ a.n > 0 /\ failures < MaxFailures      \* no KV blocks: untouch the cache
            /\ failures' = failures + 1
            /\ m' = FreeAll(a.m, r)
            /\ step' = [step EXCEPT !.part = "end"]
            /\ UNCHANGED <<running, waiting, computed>>
         \/ /\ a.n > 0
            /\ Scheduled(a, r)
            /\ running' = Append(running, r)
            /\ waiting' = Tail(waiting)
            /\ computed' = [computed EXCEPT ![r] = c]
            /\ UNCHANGED failures
  /\ UNCHANGED <<config, outputs, inflight, worker, finished, resets>>

EndWaiting ==
  /\ step.part = "waiting" /\ ~InWaiting
  /\ step' = [step EXCEPT !.part = "end"]
  /\ UNCHANGED <<config, m, running, waiting, computed, outputs, inflight, worker, finished,
                 failures, resets>>

(* The batch is built and sent; _update_after_schedule() advances the      *)
(* requests and drops their references to inputs that are past             *)
Past_Never(r, c) == {}
Past(r, c) == {i \in DOMAIN Features[r] : Features[r][i].start + Features[r][i].len <= c}

EndSchedule ==
  /\ step.part = "end"
  /\ LET adv == [r \in Requests |->
                   computed[r] + MapThenSumSet(LAMBDA k : step.sched[k].n,
                                   {k \in DOMAIN step.sched : step.sched[k].req = r})]
     IN  /\ computed' = adv
         /\ m' = FoldLeft(LAMBDA x, s : FreeInputs(x, s.req, Past(s.req, adv[s.req])),
                          TakeFreed(m), step.sched)
         /\ inflight' = Append(inflight,
              [reset |-> FALSE,
               drop |-> ToSet(m.freed),
               encode |-> UNION {{HashOf(x.req, i) : i \in ToSet(x.inputs)} : x \in ToSet(step.sched)},
               parts |-> {[req |-> s.req, from |-> computed[s.req], n |-> s.n,
                           samples |-> adv[s.req] = NumTokens(s.req)] : s \in ToSet(step.sched)}])
  /\ step' = NoStep
  /\ UNCHANGED <<config, running, waiting, outputs, worker, finished, failures, resets>>

-----------------------------------------------------------------------------
(* The worker executes the oldest batch: it drops what the scheduler       *)
(* evicted, encodes the new inputs and reads the embeddings of the range;  *)
(* then update_from_output() appends the sampled tokens.                   *)

(* The hashes that one part of a batch reads: _gather_mm_embeddings(), for *)
(* the model and, shifted, for the draft model                             *)
Reads(p) ==
  {HashOf(p.req, i) : i \in {j \in DOMAIN Features[p.req] :
     /\ Features[p.req][j].start < p.from + p.n + Shift
     /\ Features[p.req][j].start + Features[p.req][j].len > p.from}}

InCache(b) == (worker \ b.drop) \union b.encode

ExecuteBatch ==
  /\ step.part = "none"
  /\ inflight # <<>> /\ ~Head(inflight).reset
  /\ LET b == Head(inflight)
         sampled == {p.req : p \in {q \in b.parts : q.samples /\ q.req \notin finished}}
         done == {r \in sampled : outputs[r] + 1 = MaxOutputs}
     IN  /\ worker' = InCache(b)
         /\ outputs' = [r \in Requests |-> IF r \in sampled THEN outputs[r] + 1 ELSE outputs[r]]
         /\ m' = FoldLeft(LAMBDA x, r : FreeAll(x, r), m, SetToSeq(done))
         /\ running' = SelectSeq(running, LAMBDA r : r \notin done)
         /\ waiting' = SelectSeq(waiting, LAMBDA r : r \notin done)
         /\ finished' = finished \union done
  /\ inflight' = Tail(inflight)
  /\ UNCHANGED <<config, computed, step, failures, resets>>

WorkerReset ==
  /\ inflight # <<>> /\ Head(inflight).reset
  /\ worker' = {}
  /\ inflight' = Tail(inflight)
  /\ UNCHANGED <<config, m, running, waiting, computed, outputs, step, finished, failures, resets>>

-----------------------------------------------------------------------------
ScheduleStep ==
  \/ StartSchedule \/ PlanRunning \/ ScheduleRunning \/ PreemptFor \/ EndRunning
  \/ (\E c \in Hits : ScheduleWaiting(c)) \/ EndWaiting \/ EndSchedule

Next ==
  \/ \E r \in Requests : Arrive(r) \/ Abort(r)
  \/ Reset
  \/ StartSchedule \/ PlanRunning \/ ScheduleRunning \/ PreemptFor \/ EndRunning
  \/ \E c \in Hits : ScheduleWaiting(c)
  \/ EndWaiting \/ EndSchedule
  \/ ExecuteBatch \/ WorkerReset

Spec == Init /\ [][Next]_vars

(* The engine's loop runs, and batches come back *)
LiveSpec == Spec /\ WF_vars(ScheduleStep) /\ WF_vars(ExecuteBatch) /\ WF_vars(WorkerReset)

-----------------------------------------------------------------------------
(* SlotsExact for the manager at every point of the scheduler's work:      *)
(* shared inputs, evictions, preemptions, aborts and resets lose or invent *)
(* no slot, and num_free_slots is never negative.                          *)
SlotAccounting == SlotsExact(m)

(* FCFS scheduling without EAGLE.  By priority a request may be preempted  *)
(* in the step that was to encode its inputs, and EAGLE reads past the end *)
(* of the range that was checked; both break the next property.            *)
Reliable == ~Priority /\ Shift = 0

(* The worker's assertion "Encoder cache miss": when the worker gets to a  *)
(* batch, every embedding that the batch reads is in its cache after the   *)
(* evictions and encodings of that batch.                                  *)
NoEncoderMiss ==
  Reliable /\ inflight # <<>> /\ ~Head(inflight).reset =>
    \A p \in Head(inflight).parts : Reads(p) \subseteq InCache(Head(inflight))

(* The worker's cache, which nothing but the scheduler bounds, never holds *)
(* more embeddings than the configured cache size.                         *)
WorkerCacheBounded == MapThenSumSet(LAMBDA h : Size[h], worker) <= m.capacity

(* A request that is gone refers to no entry: none stays pinned for ever.  *)
NoLeakedReference ==
  \A h \in DOMAIN m.cached : m.cached[h] \intersect finished = {}

(* The manager's entries, references and slots are exact at every point of *)
(* the scheduler's work (allocate, free_encoder_input, can_allocate).      *)
EncoderCacheExact == TypeOK /\ SlotAccounting /\ NoLeakedReference

(* The worker's cache follows the scheduler's idea of it: it has what a    *)
(* batch reads, and drops what it is told to (free_encoder_mm_hashes).     *)
WorkerCacheFollows == NoEncoderMiss /\ WorkerCacheBounded

(* All requests that arrive are finished in the end, though the encoder    *)
(* cache holds too little for the inputs of all of them at once.           *)
RequestsFinish ==
  (Shift = 0 /\ running \o waiting # <<>>) ~> (running \o waiting = <<>>)
=============================================================================
