----------------------------- MODULE KVTransfer -----------------------------
(***************************************************************************)
(* Asynchronous KV transfers as the scheduler sees them: requests that     *)
(* wait for remote KV (WAITING_FOR_REMOTE_KVS), their promotion, failed    *)
(* loads, blocks whose release is delayed until a transfer is over, and    *)
(* the KVOutputAggregator that counts the workers' reports.                *)
(*                                                                         *)
(* The connector is what its base class promises the scheduler: a load     *)
(* starts when a worker is handed the batch, runs between the batches,     *)
(* and ends; blocks that fail are reported no later than the request.      *)
(* Each worker has its own memory; a block holds the KV of block i of a    *)
(* request or something else.  Prefix caching is off, every step schedules *)
(* all tokens a request has (no token budget), FCFS policy.                *)
(***************************************************************************)
EXTENDS Integers, FiniteSets, Sequences, FiniteSetsExt, SequencesExt

CONSTANTS
  Requests,
  BlockSize,
  Configs         \* settings and bounds to start with: records as below

ASSUME TransferAssumption ==
  /\ BlockSize \in Nat \ {0}
  /\ \A c \in Configs :
       /\ c.workers # {} /\ c.numBlocks \in Nat
       /\ \A r \in Requests :
            /\ c.promptLen[r] \in Nat \ {0} /\ c.external[r] \in 0..c.promptLen[r]
            (* a request that is alone can always run *)
            /\ c.promptLen[r] + c.maxOutputs <= c.numBlocks * BlockSize
       /\ c.sends \subseteq Requests /\ c.maxOutputs \in Nat \ {0}
       /\ c.reserveFull \in BOOLEAN /\ c.recompute \in BOOLEAN
       /\ c.maxInflight \in Nat \ {0} /\ c.maxFailures \in Nat /\ c.maxAborts \in Nat

VARIABLES
  config,     \* chosen at the start
  s,          \* the scheduler: see SchedulerInit
  running, waiting, skipped,   \* queues; skipped is skipped_waiting
  step,       \* the locals of schedule()
  inflight,   \* batches, oldest first, with the outputs of the workers
  remaining,  \* KVOutputAggregator: reports still missing, per kind and request
  load, send, \* per worker and request: the transfer in progress
  mem,        \* per worker and block: <<r, i>>, block i of request r
  wrong,      \* requests computed from a block without their KV
  failures, aborts

vars == <<config, s, running, waiting, skipped, step, inflight, remaining, load, send, mem,
          wrong, failures, aborts>>

Workers     == config.workers
PromptLen   == config.promptLen    \* per request
External    == config.external     \* per request: tokens the connector can load
Sends       == config.sends        \* requests whose blocks are sent when they stop
NumBlocks   == config.numBlocks
MaxOutputs  == config.maxOutputs   \* output tokens of a request
ReserveFull == config.reserveFull  \* scheduler_reserve_full_isl
Recompute   == config.recompute    \* kv_load_failure_policy = "recompute", else "fail"
MaxInflight == config.maxInflight  \* batches in flight
MaxFailures == config.maxFailures  \* bound on the blocks that fail to load
MaxAborts   == config.maxAborts    \* bound on aborts

Blocks  == 1..NumBlocks
Ceil(n) == (n + BlockSize - 1) \div BlockSize
Nothing == <<0, 0>>
NoStep  == [part |-> "none", index |-> 1, sched |-> <<>>, loads |-> {}, skipped |-> <<>>,
            preempted |-> FALSE]
NoLoad  == [state |-> "none", target |-> {}, bad |-> {}, reported |-> {}]

(* status: "new" before add_request, "gone" once it is not in              *)
(* self.requests; "finished" requests are still there, with their blocks.  *)
(* recvd, failed: finished_recving_kv_req_ids, failed_recving_kv_req_ids;  *)
(* ids: finished_req_ids; error: an assertion of the scheduler failed      *)
SchedulerInit ==
  [status |-> [r \in Requests |-> "new"], table |-> [r \in Requests |-> <<>>],
   free |-> [i \in Blocks |-> i], computed |-> [r \in Requests |-> 0],
   outputs |-> [r \in Requests |-> 0], preempts |-> {},
   recvd |-> {}, failed |-> {}, ids |-> {}, error |-> FALSE]

NumTokens(r) == PromptLen[r] + s.outputs[r]

TypeOK ==
  /\ config \in Configs
  /\ s.status \in [Requests -> {"new", "waiting", "remote", "running", "preempted",
                                "finished", "gone"}]
  /\ s.table \in [Requests -> Seq(Blocks)] /\ s.free \in Seq(Blocks)
  /\ \A r \in Requests : s.computed[r] \in 0..NumTokens(r)
  /\ s.outputs \in [Requests -> 0..MaxOutputs]
  /\ s.recvd \subseteq {r \in Requests : s.status[r] = "remote"}
  /\ s.failed \subseteq {r \in Requests : s.status[r] = "remote"}
  /\ \A k \in {"recv", "send"} : remaining[k] \in [Requests -> 1..Cardinality(Workers)]
  /\ load \in [Workers -> [Requests -> [state : {"none", "running", "ended"},
       target : SUBSET (Nat \X Blocks), bad : SUBSET Blocks, reported : SUBSET Blocks]]]
  /\ send \in [Workers -> [Requests -> {"none", "running", "ended"}]]
  /\ Len(inflight) <= MaxInflight

Init ==
  /\ config \in Configs
  /\ s = SchedulerInit
  /\ running = <<>> /\ waiting = <<>> /\ skipped = <<>>
  /\ step = NoStep /\ inflight = <<>>
  /\ remaining = [k \in {"recv", "send"} |-> [r \in Requests |-> Cardinality(Workers)]]
  /\ load = [w \in Workers |-> [r \in Requests |-> NoLoad]]
  /\ send = [w \in Workers |-> [r \in Requests |-> "none"]]
  /\ mem = [w \in Workers |-> [b \in Blocks |-> Nothing]]
  /\ wrong = {} /\ failures = 0 /\ aborts = 0

-----------------------------------------------------------------------------
(* Finishing requests and freeing blocks                                   *)

(* KVCacheManager.free *)
Free(t, r) ==
  [t EXCEPT !.free = @ \o Reverse(t.table[r]), !.table[r] = <<>>]

(* _free_blocks: the request leaves self.requests *)
FreeBlocks(t, r) == [Free(t, r) EXCEPT !.status[r] = "gone"]

(* _free_request; the connector delays the release of a request it sends *)
FreeRequest(t, r, delay) ==
  LET u == [t EXCEPT !.status[r] = "finished", !.ids = @ \cup {r}] IN
  IF delay THEN u ELSE FreeBlocks(u, r)

(* Fault: the blocks of an aborted request are freed at once *)
FinishRequest_AtOnce(t, r) ==
  FreeRequest([t EXCEPT !.recvd = @ \ {r}, !.failed = @ \ {r}], r, FALSE)

(* finish_requests of a request that did not stop by itself *)
FinishRequest(t, r) ==
  LET loading == t.status[r] = "remote" /\ r \notin t.recvd
      u == [t EXCEPT !.recvd = @ \ {r}, !.failed = @ \ {r}]
  IN  FreeRequest(u, r, loading)

Without(q, rs) == SelectSeq(q, LAMBDA r : r \notin rs)

-----------------------------------------------------------------------------
(* schedule()                                                              *)

Arrive(r) ==
  /\ step = NoStep /\ s.status[r] = "new"
  /\ s' = [s EXCEPT !.status[r] = "waiting"]
  /\ waiting' = Append(waiting, r)
  /\ UNCHANGED <<config, running, skipped, step, inflight, remaining, load, send, mem, wrong,
                 failures, aborts>>

(* has_requests() *)
HasRequests == running # <<>> \/ waiting # <<>> \/ skipped # <<>> \/ s.ids # {}

StartSchedule ==
  /\ step = NoStep /\ Len(inflight) < MaxInflight /\ HasRequests
  /\ step' = [NoStep EXCEPT !.part = "running"]
  /\ UNCHANGED <<config, s, running, waiting, skipped, inflight, remaining, load, send, mem, wrong,
                 failures, aborts>>

InRunning == step.part = "running" /\ step.index <= Len(running)
Current   == running[step.index]
NeedOf(r) == Max({0, Ceil(NumTokens(r)) - Len(s.table[r])})

Take(t, r, n) ==
  [t EXCEPT !.table[r] = @ \o SubSeq(t.free, 1, n),
            !.free = SubSeq(t.free, n + 1, Len(t.free))]

(* An entry of the batch: positions up to hi are computed from lo on *)
Scheduled(t, r, lo) ==
  Append(step.sched, [req |-> r, lo |-> lo, hi |-> NumTokens(r), blocks |-> t.table[r]])

SkipRunning ==
  /\ InRunning /\ s.computed[Current] = NumTokens(Current)
  /\ step' = [step EXCEPT !.index = @ + 1]
  /\ UNCHANGED <<config, s, running, waiting, skipped, inflight, remaining, load, send, mem, wrong,
                 failures, aborts>>

ScheduleRunning ==
  /\ InRunning /\ s.computed[Current] < NumTokens(Current)
  /\ NeedOf(Current) <= Len(s.free)
  /\ s' = Take(s, Current, NeedOf(Current))
  /\ step' = [step EXCEPT !.index = @ + 1,
                          !.sched = Scheduled(s', Current, s.computed[Current])]
  /\ UNCHANGED <<config, running, waiting, skipped, inflight, remaining, load, send, mem, wrong,
                 failures, aborts>>

(* Only running requests are preempted; those that wait for KV keep theirs *)
PreemptLast ==
  LET r == Last(running) IN
  /\ InRunning /\ s.computed[Current] < NumTokens(Current)
  /\ NeedOf(Current) > Len(s.free)
  /\ s' = [Free(s, r) EXCEPT !.status[r] = "preempted", !.computed[r] = 0,
                             !.preempts = @ \cup {r}]
  /\ running' = Front(running)
  /\ waiting' = <<r>> \o waiting
  /\ step' = [step EXCEPT !.part = IF r = Current THEN "end" ELSE @, !.preempted = TRUE]
  /\ UNCHANGED <<config, skipped, inflight, remaining, load, send, mem, wrong, failures, aborts>>

EndRunning ==
  /\ step.part = "running" /\ step.index > Len(running)
  /\ step' = [step EXCEPT !.part = IF step.preempted THEN "end" ELSE "waiting"]
  /\ UNCHANGED <<config, s, running, waiting, skipped, inflight, remaining, load, send, mem, wrong,
                 failures, aborts>>

(* _select_waiting_queue_for_scheduling: skipped requests first *)
InWaiting == step.part = "waiting" /\ skipped \o waiting # <<>>
Candidate == Head(skipped \o waiting)
PopCandidate ==
  IF skipped # <<>> THEN skipped' = Tail(skipped) /\ UNCHANGED waiting
  ELSE waiting' = Tail(waiting) /\ UNCHANGED skipped

(* The KV of the request is still on its way *)
SkipRemote ==
  /\ InWaiting /\ s.status[Candidate] = "remote" /\ Candidate \notin s.recvd
  /\ PopCandidate
  /\ step' = [step EXCEPT !.skipped = Append(@, Candidate)]
  /\ UNCHANGED <<config, s, running, inflight, remaining, load, send, mem, wrong, failures, aborts>>

(* _update_waiting_for_remote_kv: what was loaded counts as computed; the  *)
(* last token of a complete prompt is computed again; if nothing could be  *)
(* loaded the blocks are given back                                        *)
Promoted(r) ==
  LET t == [s EXCEPT !.recvd = @ \ {r}, !.failed = @ \ {r},
                     !.status[r] = IF r \in s.preempts THEN "preempted" ELSE "waiting"]
  IN
  IF r \in s.failed
  THEN IF s.computed[r] = 0 THEN Free(t, r) ELSE t
  ELSE IF s.computed[r] = NumTokens(r) THEN [t EXCEPT !.computed[r] = @ - 1] ELSE t

Promote ==
  /\ InWaiting /\ s.status[Candidate] = "remote" /\ Candidate \in s.recvd
  /\ s' = Promoted(Candidate)
  /\ UNCHANGED <<config, running, waiting, skipped, step, inflight, remaining, load, send, mem,
                 wrong, failures, aborts>>

(* allocate_slots for n tokens; with scheduler_reserve_full_isl all tokens *)
(* of the request have to fit in the blocks that are free now              *)
Fits(r, n) ==
  /\ Ceil(n) - Len(s.table[r]) <= Len(s.free)
  /\ ReserveFull => Ceil(NumTokens(r)) - Len(s.table[r]) <= Len(s.free)

(* The connector offers External tokens or, at its choice, nothing *)
Offers(r) == IF s.computed[r] > 0 THEN {0} ELSE {0, External[r]}

(* The blocks of a load: those allocated for the external tokens *)
LoadBlocks(r, ext) ==
  Take(s, r, Max({0, Ceil(ext) - Len(s.table[r])}))

StartLoad ==
  /\ InWaiting /\ s.status[Candidate] \in {"waiting", "preempted"}
  /\ LET r == Candidate IN
     \E ext \in Offers(r) \ {0} :
       /\ Fits(r, ext)
       /\ s' = [LoadBlocks(r, ext) EXCEPT !.status[r] = "remote", !.computed[r] = ext]
       /\ step' = [step EXCEPT
            !.skipped = Append(@, r),
            !.loads = @ \cup {[req |-> r, target |->
                                {<<i, s'.table[r][i]>> : i \in 1..Ceil(ext)}]}]
  /\ PopCandidate
  /\ UNCHANGED <<config, running, inflight, remaining, load, send, mem, wrong, failures, aborts>>

ScheduleWaiting ==
  /\ InWaiting /\ s.status[Candidate] \in {"waiting", "preempted"}
  /\ LET r == Candidate IN
     /\ 0 \in Offers(r)
     /\ Fits(r, NumTokens(r))
     /\ s' = [Take(s, r, NeedOf(r)) EXCEPT !.status[r] = "running"]
     /\ running' = Append(running, r)
     /\ step' = [step EXCEPT !.sched = Scheduled(s', r, s.computed[r])]
  /\ PopCandidate
  /\ UNCHANGED <<config, inflight, remaining, load, send, mem, wrong, failures, aborts>>

(* The first request that does not fit ends the loop *)
Blocked ==
  /\ InWaiting /\ s.status[Candidate] \in {"waiting", "preempted"}
  /\ \E ext \in Offers(Candidate) :
       ~ Fits(Candidate, IF ext = 0 THEN NumTokens(Candidate) ELSE ext)

(* Skipped requests go back in front; _update_after_schedule *)
EndSchedule ==
  /\ \/ step.part = "end"
     \/ step.part = "waiting" /\ skipped \o waiting = <<>>
     \/ Blocked
  /\ s' = [s EXCEPT !.ids = {},
             !.computed = [r \in Requests |->
                IF \E i \in DOMAIN step.sched : step.sched[i].req = r THEN NumTokens(r) ELSE @[r]]]
  /\ skipped' = step.skipped \o skipped
  /\ step' = NoStep
  /\ inflight' = Append(inflight,
       [sched |-> step.sched, loads |-> step.loads,
        sends |-> {r \in s.ids \cap Sends : s.status[r] = "finished" /\ s.outputs[r] = MaxOutputs},
        stage |-> [w \in Workers |-> "queued"],
        recv |-> [w \in Workers |-> {}], sent |-> [w \in Workers |-> {}],
        invalid |-> {}])
  /\ UNCHANGED <<config, running, waiting, remaining, load, send, mem, wrong, failures, aborts>>

-----------------------------------------------------------------------------
(* The workers                                                             *)

NextBatch(w) == {i \in DOMAIN inflight :
  inflight[i].stage[w] # "done" /\ \A j \in 1..(i - 1) : inflight[j].stage[w] = "done"}

Holds(m, e, i) == m[e.blocks[i]] = <<e.req, i>>

(* start_load_kv, then the forward pass: a request needs the blocks of its *)
(* positions up to lo; it writes the ones after                            *)
StartBatch(w) ==
  \E i \in NextBatch(w) :
    LET b  == inflight[i]
        es == Range(b.sched)
        after == [x \in Blocks |->
          LET ws == {<<e, k>> \in es \X Blocks :
                       /\ k \in (e.lo \div BlockSize + 1)..Ceil(e.hi)
                       /\ e.blocks[k] = x}
          IN IF ws = {} THEN mem[w][x]
             ELSE LET p == CHOOSE p \in ws : TRUE IN
                  IF (p[2] - 1) * BlockSize >= p[1].lo \/ Holds(mem[w], p[1], p[2])
                  THEN <<p[1].req, p[2]>> ELSE Nothing]
    IN
    /\ b.stage[w] = "queued"
    /\ inflight' = [inflight EXCEPT ![i].stage[w] = "started"]
    /\ load' = [load EXCEPT ![w] = [r \in Requests |->
         IF \E l \in b.loads : l.req = r
         THEN [NoLoad EXCEPT !.state = "running",
                             !.target = (CHOOSE l \in b.loads : l.req = r).target]
         ELSE @[r]]]
    /\ send' = [send EXCEPT ![w] = [r \in Requests |->
         IF r \in b.sends THEN "running" ELSE @[r]]]
    /\ mem' = [mem EXCEPT ![w] = after]
    /\ wrong' = wrong \cup {e.req : e \in {e \in es :
         \E k \in 1..Ceil(e.lo) : ~ Holds(mem[w], e, k)}}
  /\ UNCHANGED <<config, s, running, waiting, skipped, step, remaining, failures, aborts>>

(* A block of a load fails; it is left with anything *)
LoadFails(w, r) ==
  /\ load[w][r].state = "running" /\ failures < MaxFailures
  /\ \E t \in load[w][r].target :
       /\ t[2] \notin load[w][r].bad
       /\ load' = [load EXCEPT ![w][r].bad = @ \cup {t[2]}]
  /\ failures' = failures + 1
  /\ UNCHANGED <<config, s, running, waiting, skipped, step, inflight, remaining, send, mem, wrong,
                 aborts>>

LoadEnds(w, r) ==
  LET l == load[w][r] IN
  /\ l.state = "running"
  /\ load' = [load EXCEPT ![w][r].state = "ended"]
  /\ mem' = [mem EXCEPT ![w] = [b \in Blocks |->
       IF b \in l.bad THEN Nothing
       ELSE IF \E t \in l.target : t[2] = b
       THEN <<r, (CHOOSE t \in l.target : t[2] = b)[1]>> ELSE @[b]]]
  /\ UNCHANGED <<config, s, running, waiting, skipped, step, inflight, remaining, send, wrong,
                 failures, aborts>>

SendEnds(w, r) ==
  /\ send[w][r] = "running"
  /\ send' = [send EXCEPT ![w][r] = "ended"]
  /\ UNCHANGED <<config, s, running, waiting, skipped, step, inflight, remaining, load, mem, wrong,
                 failures, aborts>>

(* get_finished and get_block_ids_with_load_errors *)
FinishBatch(w) ==
  \E i \in NextBatch(w) :
    LET done == {r \in Requests : load[w][r].state = "ended"}
        sent == {r \in Requests : send[w][r] = "ended"}
        bad  == UNION {load[w][r].bad \ load[w][r].reported : r \in Requests}
    IN
    /\ inflight[i].stage[w] = "started"
    /\ inflight' = [inflight EXCEPT ![i].stage[w] = "done", ![i].recv[w] = done,
                                    ![i].sent[w] = sent, ![i].invalid = @ \cup bad]
    /\ load' = [load EXCEPT ![w] = [r \in Requests |->
         IF r \in done THEN NoLoad ELSE [@[r] EXCEPT !.reported = @ \cup (bad \cap load[w][r].bad)]]]
    /\ send' = [send EXCEPT ![w] = [r \in Requests |-> IF r \in sent THEN "none" ELSE @[r]]]
  /\ UNCHANGED <<config, s, running, waiting, skipped, step, remaining, mem, wrong, failures, aborts>>

-----------------------------------------------------------------------------
(* update_from_output()                                                    *)

(* KVOutputAggregator: a request is finished once every worker said so *)
Reports(k, b) == [r \in Requests |-> Cardinality({w \in Workers : r \in b[k][w]})]
Complete(k, b) == {r \in Requests : Reports(k, b)[r] = remaining[IF k = "recv" THEN k ELSE "send"][r]}
CountDown(k, b) ==
  LET kind == IF k = "recv" THEN k ELSE "send" IN
  [r \in Requests |-> IF r \in Complete(k, b) THEN Cardinality(Workers)
                      ELSE remaining[kind][r] - Reports(k, b)[r]]

(* Requests waiting for KV are cut back to their first invalid block *)
FirstBad(r, invalid) ==
  {i \in 1..Min({Ceil(s.computed[r]), Len(s.table[r])}) : s.table[r][i] \in invalid}
Affected(invalid) ==
  {r \in Range(skipped) : s.status[r] = "remote" /\ FirstBad(r, invalid) # {}}

(* A running request with an invalid block would be cut back as well: its  *)
(* blocks were loaded and reported before it ran                           *)
Blamed(invalid) ==
  {r \in Range(running) : Range(s.table[r]) \cap invalid # {}}

(* _update_from_kv_xfer_finished, with its assertions *)
Received(t, r) ==
  CASE t.status[r] = "remote"   -> [t EXCEPT !.recvd = @ \cup {r}]
    [] t.status[r] = "finished" -> FreeBlocks(t, r)
    [] OTHER                    -> [t EXCEPT !.error = TRUE]
Sent(t, r) ==
  IF t.status[r] = "finished" THEN FreeBlocks(t, r) ELSE [t EXCEPT !.error = TRUE]

UpdateFromOutput ==
  /\ step = NoStep /\ inflight # <<>>
  /\ \A w \in Workers : Head(inflight).stage[w] = "done"
  /\ LET b     == Head(inflight)
         hit   == Affected(b.invalid)
         cut   == [s EXCEPT
                    !.error = @ \/ Blamed(b.invalid) # {},
                    !.failed = IF Recompute THEN @ \cup hit ELSE @,
                    !.computed = [r \in Requests |->
                       IF r \in hit THEN (Min(FirstBad(r, b.invalid)) - 1) * BlockSize ELSE @[r]]]
         gets  == {r \in {e.req : e \in Range(b.sched)} : s.status[r] \notin {"finished", "gone"}}
         out   == [cut EXCEPT !.outputs =
                    [r \in Requests |-> IF r \in gets THEN @[r] + 1 ELSE @[r]]]
         stops == {r \in gets : out.outputs[r] = MaxOutputs}
         gone  == stops \cup (IF Recompute THEN {} ELSE hit)
         done  == FoldSet(LAMBDA r, t : FreeRequest(t, r, r \in Sends), out, stops)
         fails == FoldSet(LAMBDA r, t : FinishRequest(t, r), done,
                          IF Recompute THEN {} ELSE hit)
         recv  == FoldSet(LAMBDA r, t : Received(t, r), fails, Complete("recv", b))
     IN
     /\ s' = FoldSet(LAMBDA r, t : Sent(t, r), recv, Complete("sent", b))
     /\ running' = Without(running, gone)
     /\ waiting' = Without(waiting, gone)
     /\ skipped' = Without(skipped, gone)
     /\ remaining' = [recv |-> CountDown("recv", b), send |-> CountDown("sent", b)]
  /\ inflight' = Tail(inflight)
  /\ UNCHANGED <<config, step, load, send, mem, wrong, failures, aborts>>

Abort(r) ==
  /\ step = NoStep /\ aborts < MaxAborts
  /\ s.status[r] \in {"waiting", "remote", "running", "preempted"}
  /\ s' = FinishRequest(s, r)
  /\ running' = Without(running, {r})
  /\ waiting' = Without(waiting, {r})
  /\ skipped' = Without(skipped, {r})
  /\ aborts' = aborts + 1
  /\ UNCHANGED <<config, step, inflight, remaining, load, send, mem, wrong, failures>>

Ended(r) == s.status[r] \in {"finished", "gone"}

(* The engine waits for new requests *)
Idle ==
  /\ \A r \in Requests : Ended(r)
  /\ inflight = <<>> /\ ~ HasRequests /\ step = NoStep
  /\ UNCHANGED vars

Schedule ==
  \/ StartSchedule \/ SkipRunning \/ ScheduleRunning \/ PreemptLast \/ EndRunning
  \/ SkipRemote \/ Promote \/ StartLoad \/ ScheduleWaiting \/ EndSchedule

Batches(w) == StartBatch(w) \/ FinishBatch(w)

Next ==
  \/ \E r \in Requests : Arrive(r) \/ Abort(r)
  \/ Schedule
  \/ \E w \in Workers : StartBatch(w) \/ FinishBatch(w)
  \/ \E w \in Workers, r \in Requests : LoadFails(w, r) \/ LoadEnds(w, r) \/ SendEnds(w, r)
  \/ UpdateFromOutput
  \/ Idle

Spec == Init /\ [][Next]_vars

-----------------------------------------------------------------------------
(* A transfer in progress only touches blocks that its request holds:      *)
(* nobody is given them before every worker is done, whatever is aborted   *)
(* (delay_free_blocks of finish_requests and _free_request).               *)
TransfersOwnTheirBlocks ==
  \A w \in Workers, r \in Requests :
    /\ load[w][r].state = "running" =>
         \A t \in load[w][r].target : t[1] \in DOMAIN s.table[r] /\ s.table[r][t[1]] = t[2]
    /\ send[w][r] = "running" =>
         s.table[r] # <<>> /\ \A i \in DOMAIN s.table[r] : mem[w][s.table[r][i]] = <<r, i>>

(* The assertions of _update_from_kv_xfer_finished hold, and no running    *)
(* request is found to have an invalid block (_handle_invalid_blocks).     *)
NoTransferAssertFails == ~ s.error

(* No request is computed on a block whose load has not ended on every     *)
(* worker, or has failed on one of them.                                   *)
NoReadBeforeLoad == wrong = {}

(* Every block is free or belongs to exactly one request that is still     *)
(* known: delayed releases neither leak a block nor free one twice.        *)
BlocksAccounted ==
  LET held == UNION {Range(s.table[r]) : r \in Requests} IN
  /\ Range(s.free) \cup held = Blocks
  /\ Len(s.free) + FoldSet(LAMBDA r, n : n + Len(s.table[r]), 0, Requests) = NumBlocks
  /\ \A r \in Requests : s.status[r] = "gone" => s.table[r] = <<>>
=============================================================================
