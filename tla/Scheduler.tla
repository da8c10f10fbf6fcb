----------------------------- MODULE Scheduler ------------------------------
(***************************************************************************)
(* The V1 scheduler (sched/scheduler.py, sched/async_scheduler.py) driven  *)
(* by the engine core's loop (engine/core.py), on top of the KV cache      *)
(* manager.  schedule() is one atomic call in the code; here each          *)
(* iteration of its two loops is a step of its own, ordered by step.phase, *)
(* and no other operation can come in between, so that the invariants are  *)
(* checked inside the call too.                                            *)
(*                                                                         *)
(* Phases of the engine loop:                                              *)
(*   "idle"     client requests are handled (add, abort, reset, pause)     *)
(*   "running"  the loop of schedule() over the running requests           *)
(*   "waiting"  the loop of schedule() over the waiting requests           *)
(*   "update"   a batch was dispatched and the oldest output is awaited    *)
(*                                                                         *)
(* The worker runs batches in the order they are dispatched and nothing    *)
(* but a batch reads its memory, so a batch is run in the step that        *)
(* dispatches it; its output is handed to the scheduler later.             *)
(*                                                                         *)
(* An operator X_Fault is X with a plausible bug; only the mutation checks *)
(* use it.                                                                 *)
(***************************************************************************)
EXTENDS KVCacheManager

CONSTANTS
    Vocabulary,               \* tokens the model can sample
    Eos,                      \* the end-of-sequence token
    MaxNumScheduledTokens,    \* token budget of one step
    EnableChunkedPrefill,
    Configs                   \* settings and requests to start with: records
                              \* with the fields of SchedulerConfig

\* The requests a client may send and the settings of an engine.
SchedulerConfig(c) ==
    /\ DOMAIN c.prompt \subseteq Request
    /\ \A r \in DOMAIN c.prompt : /\ c.prompt[r] \in Seq(ToSet(c.prompt[r]))
                                 /\ Len(c.prompt[r]) \in 1 .. MaxModelLen - 1
    /\ c.maxTokens \in [DOMAIN c.prompt -> Nat \ {0}]
    /\ c.priority \in [DOMAIN c.prompt -> Nat]
    /\ c.policy \in {"fcfs", "priority"}
    /\ c.async \in BOOLEAN
    /\ c.batchQueueSize \in Nat \ {0}
    /\ c.maxNumRunningReqs \in Nat \ {0}
    /\ c.longPrefillTokenThreshold \in Nat
    /\ c.reserveFullISL \in BOOLEAN
    /\ c.maxAdmin \in Nat

ASSUME SchedulerAssumption ==
    /\ MaxNumScheduledTokens \in Nat \ {0}
    \* Every request fits: start-up refuses a max_model_len the pool cannot
    \* hold, or the token budget when prefills are not chunked, and the front
    \* end refuses a prompt that leaves no room for a token.
    /\ CDiv(MaxModelLen, BlockSize) < NumGpuBlocks
    /\ EnableChunkedPrefill \/ MaxModelLen <= MaxNumScheduledTokens
    /\ \A c \in Configs : SchedulerConfig(c)

VARIABLES
    config,    \* the settings, chosen at the start
    req,       \* the fields of every Request object the scheduler reads
    waiting,   \* Scheduler.waiting
    running,   \* Scheduler.running
    kv,        \* the KV cache manager
    pause,     \* PauseState
    finishedIds, \* finished_req_ids, not yet reported to the worker
    step,      \* the local variables of the schedule() call in progress
    inflight,  \* EngineCore.batch_queue, oldest batch first
    worker,    \* the worker's own copy of each request's tokens
    mem,       \* contents of the KV slots: the token prefix each was computed from
    faults,    \* what went wrong, as the properties below name it
    admin,     \* number of pause and reset calls so far
    callback   \* TRUE while a pause waits for the engine to become idle

vars == <<config, req, waiting, running, kv, pause, finishedIds, step, inflight,
          worker, mem, faults, admin, callback>>

Prompt == config.prompt         \* prompt tokens of every request
MaxTokens == config.maxTokens   \* sampling_params.max_tokens
Priority == config.priority     \* lower is sooner
Policy == config.policy
Async == config.async           \* TRUE: AsyncScheduler, FALSE: Scheduler
BatchQueueSize == config.batchQueueSize  \* max_concurrent_batches
MaxNumRunningReqs == config.maxNumRunningReqs  \* max_num_seqs
LongPrefillTokenThreshold == config.longPrefillTokenThreshold \* 0: none
ReserveFullISL == config.reserveFullISL  \* scheduler_reserve_full_isl
MaxAdmin == config.maxAdmin     \* bound: pause and cache-reset calls of a run

NoRequest == "none"
Finished == {"FINISHED_STOPPED", "FINISHED_LENGTH_CAPPED", "FINISHED_ABORTED"}
Queued == {"WAITING", "PREEMPTED"}

\* Request.__init__; "NEW" is a request the client has not sent yet.
NewRequest == [status |-> "NEW", arrival |-> 0, computed |-> 0, output |-> <<>>,
               placeholders |-> 0, discard |-> FALSE]

Tokens(r) == Prompt[r] \o req[r].output
NumTokens(r) == Len(Tokens(r))

\* The locals of schedule() outside a call.
NoStep(phase) == [phase |-> phase, idx |-> 1, cur |-> NoRequest, want |-> 0,
                  budget |-> 0, num |-> [r \in Request |-> 0], order |-> <<>>,
                  fresh |-> {}, preempted |-> {}, stop |-> FALSE]

Init ==
    /\ config \in Configs
    /\ req = [r \in Request |-> NewRequest]
    /\ waiting = <<>>
    /\ running = <<>>
    /\ kv = EmptyKV
    /\ pause = "UNPAUSED"
    /\ finishedIds = {}
    /\ step = NoStep("idle")
    /\ inflight = <<>>
    /\ worker = [r \in Request |-> <<>>]
    /\ mem = [b \in Block |-> [s \in 1 .. BlockSize |-> <<>>]]
    /\ faults = {}
    /\ admin = 0
    /\ callback = FALSE

-----------------------------------------------------------------------------
(* Request queues (request_queue.py).  A queue is a sequence; the heap of   *)
(* the priority queue is a sequence kept sorted.                            *)

\* Request.__lt__: by priority, then by arrival.
Before(r, s) == \/ Priority[r] < Priority[s]
                \/ Priority[r] = Priority[s] /\ req[r].arrival < req[s].arrival

InsertSorted(queue, r) ==
    LET after == {s \in ToSet(queue) : Before(r, s)}
    IN  Among(queue, ToSet(queue) \ after) \o <<r>> \o Among(queue, after)

\* add_request: a new request has the latest arrival time.
AddToQueue(queue, r) ==
    LET after == {s \in ToSet(queue) : Priority[s] > Priority[r]}
    IN  IF Policy = "fcfs" THEN Append(queue, r)
        ELSE Among(queue, ToSet(queue) \ after) \o <<r>> \o Among(queue, after)

\* Fault: a preempted request is dropped.
PrependRequest_Lost(queue, r) == queue

\* prepend_request: the front of a deque; a heap has no front.
PrependRequest(queue, r) ==
    IF Policy = "fcfs" THEN <<r>> \o queue ELSE InsertSorted(queue, r)

PrependRequests(queue, order) == FoldLeft(PrependRequest, queue, order)

RemoveRequests(queue, S) == Among(queue, ToSet(queue) \ S)

-----------------------------------------------------------------------------
(* Client calls, handled by the engine loop between two steps               *)

\* get_num_unfinished_requests and has_requests.
NumUnfinished ==
    CASE pause = "PAUSED_ALL" -> 0
      [] pause = "PAUSED_NEW" -> Len(running)
      [] OTHER -> Len(waiting) + Len(running)

HasRequests == NumUnfinished > 0 \/ finishedIds # {}

\* EngineCoreProc.has_work
HasWork == HasRequests \/ inflight # <<>>

\* EngineCore.add_request, Scheduler.add_request
AddRequest(r) ==
    /\ step.phase = "idle"
    /\ r \in DOMAIN Prompt
    /\ req[r].status = "NEW"
    /\ req' = [req EXCEPT ![r].status = "WAITING",
                         ![r].arrival = 1 + Cardinality({s \in Request : req[s].status # "NEW"})]
    /\ waiting' = AddToQueue(waiting, r)
    /\ UNCHANGED <<config, running, kv, pause, finishedIds, step, inflight, worker, mem,
                   faults, admin, callback>>

\* The blocks of several requests are freed one request after the other.
FreeRequests(m, order) == FoldLeft(FreeRequest, m, order)

\* finish_requests for the unfinished requests of S, in some order: they
\* leave the queues and their blocks are freed at once.
FinishRequests(S, order) ==
    /\ req' = [r \in Request |-> IF r \in S THEN [req[r] EXCEPT !.status = "FINISHED_ABORTED"]
                                ELSE req[r]]
    /\ running' = RemoveRequests(running, S)
    /\ waiting' = RemoveRequests(waiting, S)
    /\ kv' = FreeRequests(kv, order)
    /\ finishedIds' = finishedIds \cup S

\* abort_requests from the input queue, or _process_aborts_queue just before
\* an output is processed.
AbortRequest(r) ==
    /\ step.phase \in {"idle", "update"}
    /\ req[r].status \in Queued \cup {"RUNNING"}
    /\ FinishRequests({r}, <<r>>)
    /\ UNCHANGED <<config, pause, step, inflight, worker, mem, faults, admin, callback>>

\* _preempt_request on the fields of the request.
Preempted(q) == [q EXCEPT !.status = "PREEMPTED", !.computed = 0]

\* reset_prefix_cache(reset_running_requests=True): all running requests are
\* preempted, the last one first, and told to drop the token in flight.
ResetRunning(reqs, run, wait, kv0) ==
    LET victims == ToSet(run)
        kv1     == FreeRequests(kv0, Reverse(run))
    IN  /\ req' = [r \in Request |->
                     IF r \in victims
                     THEN [Preempted(reqs[r]) EXCEPT !.placeholders = 0, !.discard = TRUE]
                     ELSE reqs[r]]
        /\ waiting' = PrependRequests(wait, Reverse(run))
        /\ running' = <<>>
        /\ kv' = ResetPrefixCache(kv1)
        /\ faults' = IF CanResetPrefixCache(kv1) THEN faults ELSE faults \cup {"reset failed"}

\* The reset_prefix_cache call of a client.
ResetCache(resetRunning) ==
    /\ step.phase = "idle"
    /\ admin < MaxAdmin
    /\ admin' = admin + 1
    /\ IF resetRunning THEN ResetRunning(req, running, waiting, kv)
       ELSE /\ kv' = ResetPrefixCache(kv)
            /\ UNCHANGED <<req, waiting, running, faults>>
    /\ UNCHANGED <<config, pause, finishedIds, step, inflight, worker, mem, callback>>

\* EngineCoreProc.pause_scheduler in mode "keep" or "wait": the caches are
\* cleared at once if the engine has no work, else when it becomes idle.
PauseScheduler(mode, clearCache) ==
    LET newPause == IF mode = "keep" THEN "PAUSED_ALL" ELSE "PAUSED_NEW"
        busy     == \/ mode = "wait" /\ running # <<>>
                    \/ finishedIds # {}
                    \/ inflight # <<>>
    IN  /\ step.phase = "idle"
        /\ admin < MaxAdmin
        /\ admin' = admin + 1
        /\ pause' = newPause
        /\ IF clearCache /\ ~busy
           THEN /\ ResetRunning(req, running, waiting, kv)
                /\ UNCHANGED callback
           ELSE /\ callback' = (callback \/ clearCache)
                /\ UNCHANGED <<req, waiting, running, kv, faults>>
        /\ UNCHANGED <<config, finishedIds, step, inflight, worker, mem>>

\* pause_scheduler in mode "abort": every request is aborted first, in the
\* order of Scheduler.requests (with none to abort it acts as mode "wait").
\* Their ids are still to be reported, so the engine has work.
PauseAbort(clearCache) ==
    LET S == {r \in Request : req[r].status \in Queued \cup {"RUNNING"}}
    IN  /\ step.phase = "idle"
        /\ admin < MaxAdmin
        /\ S # {}
        /\ admin' = admin + 1
        /\ \E order \in [1 .. Cardinality(S) -> S] :
              /\ ToSet(order) = S
              /\ \A i, j \in DOMAIN order :
                    i < j => req[order[i]].arrival < req[order[j]].arrival
              /\ FinishRequests(S, order)
        /\ pause' = "PAUSED_NEW"
        /\ callback' = (callback \/ clearCache)
        /\ UNCHANGED <<config, step, inflight, worker, mem, faults>>

\* _notify_idle_state_callbacks: engine_idle_callback clears the caches.
IdleCallback ==
    /\ step.phase = "idle"
    /\ callback
    /\ ~HasWork
    /\ callback' = FALSE
    /\ ResetRunning(req, running, waiting, kv)
    /\ UNCHANGED <<config, pause, finishedIds, step, inflight, worker, mem, admin>>

\* resume_scheduler
ResumeScheduler ==
    /\ step.phase = "idle"
    /\ pause # "UNPAUSED"
    /\ pause' = "UNPAUSED"
    /\ UNCHANGED <<config, req, waiting, running, kv, finishedIds, step, inflight, worker,
                   mem, faults, admin, callback>>

-----------------------------------------------------------------------------
(* schedule(): the running requests                                         *)

\* EngineCore.step and step_with_batch_queue call schedule() when there are
\* requests; PAUSED_ALL leaves no budget.
BeginSchedule ==
    /\ step.phase = "idle"
    /\ HasRequests
    /\ step' = [NoStep("running") EXCEPT
                   !.budget = IF pause = "PAUSED_ALL" THEN 0 ELSE MaxNumScheduledTokens]
    /\ UNCHANGED <<config, req, waiting, running, kv, pause, finishedIds, inflight, worker,
                   mem, faults, admin, callback>>

\* step.cur is the request of an iteration that preempts others to retry.
InRunningLoop ==
    /\ step.phase = "running"
    /\ ~step.stop
    /\ step.cur # NoRequest \/ (step.idx <= Len(running) /\ step.budget > 0)

CurrentRequest == IF step.cur # NoRequest THEN step.cur ELSE running[step.idx]

\* Async scheduling: the tokens in flight already reach max_tokens.
AwaitsLastToken(r) ==
    /\ req[r].placeholders > 0
    /\ req[r].computed + 2 - req[r].placeholders >= Len(Prompt[r]) + MaxTokens[r]

Threshold(n) ==
    IF 0 < LongPrefillTokenThreshold /\ LongPrefillTokenThreshold < n
    THEN LongPrefillTokenThreshold ELSE n

NumNewTokens(r) ==
    MinOf(MinOf(Threshold(NumTokens(r) + req[r].placeholders - req[r].computed),
                step.budget),
          MaxModelLen - 1 - req[r].computed)

\* num_new_tokens is computed once, before the preemption loop.
Wanted(r) == IF step.cur # NoRequest THEN step.want ELSE NumNewTokens(r)

NothingToSchedule(r) ==
    step.cur = NoRequest /\ (AwaitsLastToken(r) \/ NumNewTokens(r) = 0)

RunningAlloc(r) == AllocateSlots(kv, r, Tokens(r), req[r].computed, <<>>, Wanted(r))

SkipRunning ==
    /\ InRunningLoop
    /\ NothingToSchedule(CurrentRequest)
    /\ step' = [step EXCEPT !.idx = @ + 1]
    /\ UNCHANGED <<config, req, waiting, running, kv, pause, finishedIds, inflight, worker,
                   mem, faults, admin, callback>>

ScheduleRunning ==
    /\ InRunningLoop
    /\ LET r == CurrentRequest
           n == Wanted(r)
           a == RunningAlloc(r)
       IN  /\ ~NothingToSchedule(r)
           /\ a.ok
           /\ kv' = a.kv
           /\ step' = [step EXCEPT !.num[r] = n, !.order = Append(@, r), !.budget = @ - n,
                                  !.idx = @ + 1, !.cur = NoRequest, !.want = 0]
    /\ UNCHANGED <<config, req, waiting, running, pause, finishedIds, inflight, worker, mem,
                   faults, admin, callback>>

\* The lowest-priority running request, by (priority, arrival_time), or the
\* last one admitted.
PreemptionVictim ==
    IF Policy = "fcfs" THEN Last(running)
    ELSE CHOOSE v \in ToSet(running) : \A s \in ToSet(running) : ~Before(v, s)

\* One round of the preemption loop.  A victim that this call had already
\* scheduled gives its budget back.
PreemptRunning ==
    /\ InRunningLoop
    /\ LET r == CurrentRequest
           v == PreemptionVictim
           back == Policy = "priority" /\ step.num[v] > 0
       IN  /\ ~NothingToSchedule(r)
           /\ ~RunningAlloc(r).ok
           /\ running' = RemoveRequests(running, {v})
           /\ waiting' = PrependRequest(waiting, v)
           /\ req' = [req EXCEPT ![v] = Preempted(@)]
           /\ kv' = FreeRequest(kv, v)
           /\ step' = [step EXCEPT
                 !.preempted = @ \cup {v},
                 !.budget = IF back THEN @ + step.num[v] ELSE @,
                 !.num[v] = IF back THEN 0 ELSE @,
                 !.order  = IF back THEN RemoveRequests(@, {v}) ELSE @,
                 !.idx    = IF back THEN @ - 1 ELSE @,
                 !.cur    = IF v = r THEN NoRequest ELSE r,
                 !.want   = IF v = r THEN 0 ELSE Wanted(r),
                 !.stop   = (v = r)]
    /\ UNCHANGED <<config, pause, finishedIds, inflight, worker, mem, faults, admin, callback>>

EndRunning ==
    /\ step.phase = "running"
    /\ ~InRunningLoop
    /\ step' = [step EXCEPT !.phase = "waiting", !.idx = 1, !.stop = FALSE]
    /\ UNCHANGED <<config, req, waiting, running, kv, pause, finishedIds, inflight, worker,
                   mem, faults, admin, callback>>

-----------------------------------------------------------------------------
(* schedule(): the waiting requests                                         *)

InWaitingLoop ==
    /\ step.phase = "waiting"
    /\ step.preempted = {}
    /\ pause = "UNPAUSED"
    /\ waiting # <<>>
    /\ step.budget > 0
    /\ Len(running) # MaxNumRunningReqs

\* get_computed_blocks; the loop calls it once per request, and hits below
\* is what it returned.
Hits(r) == GetComputedBlocks(kv, Tokens(r))

NumPrefillTokens(r, hits) == Threshold(NumTokens(r) - Len(hits) * BlockSize)

NumAdmitted(r, hits) == MinOf(NumPrefillTokens(r, hits), step.budget)

\* can_fit_full_sequence
CanFitFullSequence(r, hits) ==
    NumBlocksToAllocate(kv, r, MinOf(NumTokens(r), MaxModelLen), hits) <= Len(kv.free)

WaitingAlloc(r, hits) ==
    AllocateSlots(kv, r, Tokens(r), 0, hits, NumAdmitted(r, hits))

\* What keeps the loop from breaking at the head of the waiting queue.
Admissible(r, hits) ==
    /\ EnableChunkedPrefill \/ NumPrefillTokens(r, hits) <= step.budget
    /\ ReserveFullISL => CanFitFullSequence(r, hits)
    /\ WaitingAlloc(r, hits).ok

AdmitWaiting(r, hits) ==
    /\ Admissible(r, hits)
    /\ kv' = WaitingAlloc(r, hits).kv
    /\ waiting' = Tail(waiting)
    /\ running' = Append(running, r)
    /\ req' = [req EXCEPT ![r].status = "RUNNING",
                         ![r].computed = Len(hits) * BlockSize]
    /\ step' = [step EXCEPT !.num[r] = NumAdmitted(r, hits),
                           !.order  = Append(@, r),
                           !.budget = @ - NumAdmitted(r, hits),
                           !.fresh  = @ \cup {r}]

ScheduleWaiting ==
    /\ InWaitingLoop
    /\ \E hits \in {Hits(Head(waiting))} : AdmitWaiting(Head(waiting), hits)
    /\ UNCHANGED <<config, pause, finishedIds, inflight, worker, mem, faults, admin, callback>>

-----------------------------------------------------------------------------
(* The end of schedule() and the worker                                     *)

\* The worker's tokens of a request when the batch runs: what the scheduler
\* sends for a new or resumed request, else its own copy, cut to the length
\* the scheduler counts.
WorkerTokens(r) ==
    IF r \in step.fresh THEN Tokens(r)
    ELSE SubSeq(worker[r], 1, MinOf(Len(worker[r]), NumTokens(r) + req[r].placeholders))

BatchEnd(r) == req[r].computed + step.num[r]

\* The slot of the p-th token of a request.
Slot(r, p) == <<kv.table[r][CDiv(p, BlockSize)], 1 + ((p - 1) % BlockSize)>>

\* The forward pass writes the KV of every scheduled token.
WriteKV ==
    LET written == UNION {{<<r, p>> : p \in req[r].computed + 1 .. BatchEnd(r)} :
                          r \in ToSet(step.order)}
        at(b, s) == {w \in written : Slot(w[1], w[2]) = <<b, s>>}
    IN  [b \in Block |-> [s \in 1 .. BlockSize |->
            IF at(b, s) = {} THEN mem[b][s]
            ELSE LET w == CHOOSE w \in at(b, s) : TRUE
                 IN  SubSeq(WorkerTokens(w[1]), 1, w[2])]]

\* Attention over the request's tokens finds the KV of exactly these tokens.
ReadsOwnKV(r, memory) ==
    \A p \in 1 .. BatchEnd(r) :
        memory[Slot(r, p)[1]][Slot(r, p)[2]] = SubSeq(WorkerTokens(r), 1, p)

\* A token is sampled for a request whose known tokens are all computed.
Samples == {r \in ToSet(step.order) : BatchEnd(r) >= Len(WorkerTokens(r))}

\* _update_after_schedule of Scheduler and AsyncScheduler.
UpdateAfterSchedule ==
    req' = [r \in Request |->
        IF step.num[r] = 0 THEN req[r]
        ELSE LET chunk == BatchEnd(r) < NumTokens(r) + req[r].placeholders
             IN  [req[r] EXCEPT !.computed = @ + step.num[r],
                                !.placeholders = IF Async /\ ~chunk THEN @ + 1 ELSE @]]

\* The batch joins the batch queue.  The engine goes on to the next call of
\* schedule() if it may keep more batches in flight and the oldest is not
\* done; else it waits for the oldest.
FinishSchedule ==
    /\ step.phase = "waiting"
    /\ ~(InWaitingLoop /\ Admissible(Head(waiting), Hits(Head(waiting))))
    /\ UpdateAfterSchedule
    /\ finishedIds' = {}
    /\ mem' = WriteKV
    /\ faults' = faults \cup
          {f \in {"wrong KV"} : \E r \in ToSet(step.order) : ~ReadsOwnKV(r, mem')} \cup
          {f \in {"bad batch"} : \/ step.budget < 0
                                \/ Len(running) > MaxNumRunningReqs
                                \/ Len(step.order) > Len(running)}
    /\ \E sampled \in [Samples -> Vocabulary] :
          /\ worker' = [r \in Request |->
                CASE r \in Samples -> Append(WorkerTokens(r), sampled[r])
                  [] r \in ToSet(step.order) \ Samples -> WorkerTokens(r)
                  [] OTHER -> worker[r]]
          /\ inflight' = Append(inflight,
                [order |-> step.order,
                 out   |-> [r \in Samples |-> [token |-> sampled[r], after |-> WorkerTokens(r)]]])
    /\ \/ /\ step.order # <<>>
          /\ Len(inflight') < BatchQueueSize
          /\ step' = NoStep("idle")
       \/ step' = NoStep("update")
    /\ UNCHANGED <<config, waiting, running, kv, pause, admin, callback>>

-----------------------------------------------------------------------------
(* update_from_output                                                       *)

\* check_stop: the status a request ends with, or its present one.
StatusAfter(r, q) ==
    LET capped == \/ Len(Prompt[r]) + Len(q.output) >= MaxModelLen
                  \/ Len(q.output) >= MaxTokens[r]
    IN  IF Last(q.output) = Eos THEN "FINISHED_STOPPED"
        ELSE IF capped THEN "FINISHED_LENGTH_CAPPED" ELSE q.status

\* AsyncScheduler._update_request_with_output: the token replaces a
\* placeholder, and blocks whose tokens are now known are published.
AsyncBookkeeping(r, before, q, m) ==
    LET q1     == [q EXCEPT !.placeholders = @ - 1]
        tokens == Prompt[r] \o q.output
    IN  IF ~Async THEN [q |-> q, m |-> m]
        ELSE [q |-> q1,
              m |-> IF EnableCaching /\ before.status = "RUNNING"
                    THEN CacheBlocks(m, r, tokens, q1.computed - q1.placeholders) ELSE m]

\* Fault: a request that finished or was aborted meanwhile takes its output.
TakesOutput_AnyStatus(q, r, out) == r \in DOMAIN out

\* The output is for a live request: one that was aborted or that finished
\* while the batch ran is skipped.
TakesOutput(q, r, out) ==
    q.status \in Queued \cup {"RUNNING"} /\ r \in DOMAIN out

\* discard_latest_async_tokens, which only AsyncScheduler reads.
DiscardsOutput(q) == Async /\ q.discard

\* The body of the loop for one request of the batch.  s collects the fields
\* that the loop changes.
UpdateRequest(s, r, out) ==
    LET q0   == s.req[r]
        q1   == [q0 EXCEPT !.output = Append(@, out[r].token)]
        done == StatusAfter(r, q1)
        b    == AsyncBookkeeping(r, q0, [q1 EXCEPT !.status = done], s.kv)
        bad  == {f \in {"misplaced token"} : out[r].after # Prompt[r] \o q0.output}
                \cup {f \in {"placeholder underflow"} : b.q.placeholders < 0}
        stop == done \in Finished
    IN  IF ~TakesOutput(q0, r, out) THEN s
        ELSE IF DiscardsOutput(q0) THEN [s EXCEPT !.req[r].discard = FALSE]
        ELSE [s EXCEPT !.req[r]  = b.q,
                       !.kv      = IF stop THEN FreeRequest(b.m, r) ELSE b.m,
                       !.faults  = @ \cup bad,
                       !.stopped = IF stop THEN @ \cup {r} ELSE @]

\* The loop over the requests of the batch.
UpdateRequests(s, order, out) ==
    FoldLeft(LAMBDA acc, r : UpdateRequest(acc, r, out), s, order)

\* Fault: a request that was preempted while its last token was in flight
\* stays in the waiting queue.
RemoveStopped_OnlyRunning(stopped) ==
    /\ running' = RemoveRequests(running, stopped)
    /\ waiting' = waiting
    /\ finishedIds' = finishedIds \cup stopped

\* Requests that stopped leave both queues and are reported to the worker.
RemoveStopped(stopped) ==
    /\ running' = RemoveRequests(running, stopped)
    /\ waiting' = RemoveRequests(waiting, stopped)
    /\ finishedIds' = finishedIds \cup stopped

\* Fault: the batch queue is popped at the wrong end.
AwaitedBatch_Newest == Len(inflight)

\* batch_queue.pop(): the place in inflight of the batch that is awaited.
AwaitedBatch == 1

\* The oldest batch is applied.  A batch that schedule() did not follow up is
\* awaited when no request is left to schedule.
UpdateFromOutput ==
    /\ inflight # <<>>
    /\ step.phase = "update" \/ (step.phase = "idle" /\ ~HasRequests)
    /\ LET batch == inflight[AwaitedBatch]
           s     == UpdateRequests([req |-> req, kv |-> kv, faults |-> faults,
                                    stopped |-> {}], batch.order, batch.out)
       IN  /\ req' = s.req
           /\ kv' = s.kv
           /\ faults' = s.faults
           /\ RemoveStopped(s.stopped)
    /\ inflight' = RemoveAt(inflight, AwaitedBatch)
    /\ step' = NoStep("idle")
    /\ UNCHANGED <<config, pause, worker, mem, admin, callback>>

-----------------------------------------------------------------------------
EngineStep ==
    \/ BeginSchedule
    \/ SkipRunning
    \/ ScheduleRunning
    \/ PreemptRunning
    \/ EndRunning
    \/ ScheduleWaiting
    \/ FinishSchedule
    \/ UpdateFromOutput

ClientCall ==
    \/ \E r \in Request : AddRequest(r)
    \/ \E r \in Request : AbortRequest(r)
    \/ \E all \in BOOLEAN : ResetCache(all)
    \/ \E mode \in {"keep", "wait"}, clear \in BOOLEAN : PauseScheduler(mode, clear)
    \/ \E clear \in BOOLEAN : PauseAbort(clear)

Next ==
    \/ EngineStep
    \/ IdleCallback
    \/ ResumeScheduler
    \/ ClientCall

Spec == Init /\ [][Next]_vars

\* The busy loop of the engine core keeps stepping while it has work and runs
\* the idle callbacks when it has none.  No client is assumed to call again.
FairSpec == Spec /\ WF_vars(EngineStep) /\ WF_vars(IdleCallback)

-----------------------------------------------------------------------------
(* Properties                                                               *)

Status == {"NEW", "RUNNING"} \cup Queued \cup Finished

\* The variables hold values of their types.
TypeOK ==
    /\ \A r \in Request : /\ req[r].status \in Status
                          /\ req[r].computed \in 0 .. MaxModelLen
                          /\ req[r].output \in Seq(Vocabulary)
                          /\ kv.table[r] \in Seq(Block)
    /\ kv.ref \in [Block -> Nat]
    /\ waiting \in Seq(Request) /\ running \in Seq(Request)
    /\ step.budget \in 0 .. MaxNumScheduledTokens
    /\ Len(inflight) <= BatchQueueSize

\* Reference counts, block tables and the free queue of block_pool.py agree
\* at every point of the engine loop: a block's ref_cnt is the number of
\* tables that list it, a table lists no block twice, and the queue holds
\* each unreferenced block exactly once.
BlockAccounting ==
    /\ \A b \in Block \ {NullBlock} :
          kv.ref[b] = Cardinality({r \in Request : b \in ToSet(kv.table[r])})
    /\ \A r \in Request : IsInjective(kv.table[r])
    /\ IsInjective(kv.free)
    /\ ToSet(kv.free) = {b \in Block \ {NullBlock} : kv.ref[b] = 0}

\* No assert and no raise of the KV cache manager fires: allocate_slots never
\* asks get_new_blocks for more than is free, a block to be cached has no
\* hash yet, and touch finds an unreferenced block in the free queue.
NoAssertFails == ~kv.err

\* The hash index and the hashes stored in the blocks agree, so eviction
\* never leaves a stale entry that a later request could hit.
CacheIndexExact ==
    \A b \in Block : \A h \in DOMAIN kv.cache \cup {kv.hash[b]} :
        (h # NoHash /\ kv.hash[b] = h) <=> (h \in DOMAIN kv.cache /\ b \in ToSet(kv.cache[h]))

\* FullAttentionManager.find_longest_cache_hit stops at the first miss,
\* because "the following block hashes are not computed yet for sure": a
\* cached block never outlives all cached copies of its prefix.
CachePrefixClosed ==
    \A h \in DOMAIN kv.cache :
        Len(h) > BlockSize => SubSeq(h, 1, Len(h) - BlockSize) \in DOMAIN kv.cache

\* The KV cache is consistent at every point of the engine loop, also in the
\* middle of schedule(): types, references, hash index and eviction order.
CacheConsistent == TypeOK /\ BlockAccounting /\ CacheIndexExact /\ CachePrefixClosed

\* The scheduler's queues and the request statuses agree, each request is in
\* one place once, and only a running request holds blocks.
QueuesMatchStatus ==
    /\ IsInjective(waiting \o running)
    /\ ToSet(running) = {r \in Request : req[r].status = "RUNNING"}
    /\ ToSet(waiting) = {r \in Request : req[r].status \in Queued}
    /\ \A r \in Request : kv.table[r] # <<>> => req[r].status = "RUNNING"

\* Whenever the worker runs a request, each KV slot its attention reads holds
\* the KV of the request's own token prefix: "get a sequence of blocks that
\* have already been computed" (docs/design/prefix_caching.md).
ReadsComputedKV == "wrong KV" \notin faults

\* The same under the fcfs policy, where a preempted request is always the
\* last one admitted, so that no request admitted later shares its blocks.
FcfsReadsComputedKV == Policy = "fcfs" => ReadsComputedKV

\* A sampled token is appended to exactly the tokens it was sampled after:
\* preemption, reset and batches in flight lose, repeat and reorder nothing.
OutputExtendsContext == "misplaced token" \notin faults

\* The asserts at the end of schedule() and in AsyncScheduler hold, and a
\* reset that preempts the running requests finds every block free.
NoSchedulerAssertFails ==
    faults \cap {"bad batch", "placeholder underflow", "reset failed"} = {}

\* num_output_placeholders of a live request counts its tokens in flight.
PlaceholdersMatchInflight ==
    \A r \in Request : Async /\ step.phase \in {"idle", "update"}
                       /\ req[r].status \in Queued \cup {"RUNNING"} =>
        req[r].placeholders = Cardinality({i \in DOMAIN inflight : r \in DOMAIN inflight[i].out})

\* Outputs are applied in order, and the async scheduler knows how many are
\* still to come (update_from_output, _update_after_schedule).
OutputsInOrder == OutputExtendsContext /\ PlaceholdersMatchInflight

\* No assert and no raise fires, in the scheduler or in the KV cache below it.
NoStepRaises == NoAssertFails /\ NoSchedulerAssertFails

\* A finished request stays finished and its output no longer grows.
FinishedIsFinal ==
    [][\A r \in Request : req[r].status \in Finished =>
          req'[r].status = req[r].status /\ req'[r].output = req[r].output]_vars

\* Every request that was added is finished in the end, whatever is
\* preempted, reset or aborted on the way, unless a client leaves the engine
\* paused.
EveryRequestFinishes ==
    <>[](pause = "UNPAUSED") =>
        \A r \in Request : req[r].status = "WAITING" ~> req[r].status \in Finished
=============================================================================
