------------------------ MODULE OffloadingConnector ------------------------
(***************************************************************************)
(* KV blocks offloaded to CPU memory: the OffloadingConnector's scheduler  *)
(* and worker side, the CPUOffloadingManager with its LRU policy, and the  *)
(* copies that run between GPU and CPU.                                    *)
(*                                                                         *)
(* A block hash stands for the KV of a block after its prefix.  A request  *)
(* has full blocks, one hash each, and a tail block that is never stored.  *)
(* A step computes one block of a request (a chunk of its prompt) or, once *)
(* the prompt is done, a token in the tail.  An offloaded block is one GPU *)
(* block; GPU prefix caching is off; one worker.  The GPU runs forward     *)
(* passes in order behind the worker's thread; copies have streams of      *)
(* their own, one per direction.                                           *)
(***************************************************************************)
EXTENDS Integers, FiniteSets, Sequences, FiniteSetsExt, SequencesExt

CONSTANTS
  Reqs, Prompt,   \* Prompt[r]: the hashes of the full blocks of r
  NumCpu,
  Configs         \* settings and bounds to start with: records as below

ASSUME OffloadAssumption ==
  /\ NumCpu \in Nat \ {0}
  /\ Configs \subseteq [reqs : SUBSET Reqs, numGpu : Nat, maxInflight : Nat \ {0},
                       maxAborts : Nat, maxResets : Nat]
  /\ \A f \in Configs, r \in Reqs : Prompt[r] # <<>> /\ Len(Prompt[r]) < f.numGpu

VARIABLES
  config,    \* chosen at the start
  s,         \* scheduler and block pool
  step,      \* the locals of schedule()
  c,         \* scheduler side of the connector
  cpu,       \* CPUOffloadingManager: the policy's blocks, oldest first
  inflight,  \* batches, oldest first
  wk,        \* worker side of the connector
  stores, loads,  \* copies in the order of their streams
  gpuq,      \* forward passes the GPU has not done yet
  gpu, ram,  \* content of GPU and CPU blocks
  wrong,     \* requests whose output came from a block without its KV
  bounds     \* aborts and resets so far

vars == <<config, s, step, c, cpu, inflight, wk, stores, loads, gpuq, gpu, ram, wrong, bounds>>

NumGpu      == config.numGpu
MaxInflight == config.maxInflight  \* batches in flight
MaxAborts   == config.maxAborts
MaxResets   == config.maxResets

Hashes  == UNION {Range(Prompt[r]) : r \in Reqs}
Tail_   == "tail"
Nothing == "nothing"
Full(r) == Len(Prompt[r])
NoStep  == [part |-> "none", index |-> 1, run |-> <<>>, flush |-> {}, loads |-> <<>>]

Init ==
  /\ config \in Configs
  /\ s = [status |-> [r \in Reqs |-> IF r \in config.reqs THEN "waiting" ELSE "gone"],
          table |-> [r \in Reqs |-> <<>>],
          free |-> [i \in 1..NumGpu |-> i], computed |-> [r \in Reqs |-> 0],
          running |-> <<>>, recvd |-> {}, ids |-> {}, error |-> FALSE]
  /\ step = NoStep
  (* keys: the requests in _reqs_being_stored, maybe with no block left *)
  /\ c = [stored |-> [r \in Reqs |-> {}], keys |-> {}, loading |-> [r \in Reqs |-> {}],
          next |-> [r \in Reqs |-> 0]]
  /\ cpu = <<>> /\ inflight = <<>>
  (* keys: the requests in _store_jobs; fin: _finished_reqs_waiting_for_store *)
  /\ wk = [keys |-> {}, fin |-> {}]
  /\ stores = <<>> /\ loads = <<>> /\ gpuq = <<>>
  /\ gpu = [b \in 1..NumGpu |-> Nothing] /\ ram = [i \in 1..NumCpu |-> Nothing]
  /\ wrong = {} /\ bounds = [aborts |-> 0, resets |-> 0]

-----------------------------------------------------------------------------
(* CPUOffloadingManager, LRU policy                                        *)

Cached(m, h) == \E i \in DOMAIN m : m[i].hash = h
Entry(m, h)  == CHOOSE e \in Range(m) : e.hash = h
Ready(m, h)  == Cached(m, h) /\ Entry(m, h).ref >= 0
AddRef(m, hs, n) == [i \in DOMAIN m |-> IF m[i].hash \in hs THEN [m[i] EXCEPT !.ref = @ + n] ELSE m[i]]

(* touch: hs are moved to the end, the last of them first *)
Touch(m, hs) ==
  FoldLeft(LAMBDA q, h : IF Cached(q, h) THEN SelectSeq(q, LAMBDA e : e.hash # h) \o <<Entry(q, h)>> ELSE q,
           m, Reverse(hs))

(* lookup: the number of hashes, from the first, that can be loaded *)
Lookup(m, hs) == Max({n \in 0..Len(hs) : \A i \in 1..n : Ready(m, hs[i])})

Evictable(e, protected) == e.ref = 0 /\ e.hash \notin protected

(* prepare_store: new blocks for the hashes that are not cached, evicting  *)
(* the oldest ones; nothing is stored if that is not enough                *)
PrepareStore(m, hs) ==
  LET new   == SelectSeq(hs, LAMBDA h : ~ Cached(m, h))
      short == Max({0, Len(new) - (NumCpu - Len(m))})
      old   == SelectSeq(m, LAMBDA e : Evictable(e, Range(hs)))
      kept  == SelectSeq(m, LAMBDA e : \A i \in 1..Min({short, Len(old)}) : old[i] # e)
      ids   == SetToSeq((1..NumCpu) \ {e.id : e \in Range(kept)})
  IN
  IF new = <<>> THEN [ok |-> TRUE, blocks |-> m, new |-> <<>>]
  ELSE IF Len(old) < short THEN [ok |-> FALSE, blocks |-> m, new |-> <<>>]
  ELSE LET es == [i \in DOMAIN new |-> [hash |-> new[i], id |-> ids[i], ref |-> -1]]
       IN  [ok |-> TRUE, blocks |-> kept \o es, new |-> es]

CompleteStore(m, hs) ==
  [i \in DOMAIN m |-> IF m[i].hash \in hs /\ m[i].ref = -1 THEN [m[i] EXCEPT !.ref = 0] ELSE m[i]]

-----------------------------------------------------------------------------
(* Releasing blocks                                                        *)

Free(t, r) == [t EXCEPT !.free = @ \o Reverse(t.table[r]), !.table[r] = <<>>]
Gone(t, r) == [Free(t, r) EXCEPT !.status[r] = "gone"]

(* Fault: a load does not keep the blocks of an aborted request *)
Delayed_Stores(t, r) == r \in c.keys
(* request_finished of the connector, and of a request that is loading *)
Delayed(t, r) == r \in c.keys \/ (t.status[r] = "remote" /\ r \notin t.recvd)

(* _free_request; the request leaves the queues *)
Finish(t, r) ==
  LET u == [t EXCEPT !.ids = @ \cup {r}, !.recvd = @ \ {r}, !.status[r] = "finished",
                     !.running = SelectSeq(@, LAMBDA x : x # r)]
  IN IF Delayed(t, r) THEN u ELSE Gone(u, r)

Preempted(t, r) ==
  [Free(t, r) EXCEPT !.status[r] = "waiting", !.computed[r] = 0,
                     !.running = SelectSeq(@, LAMBDA x : x # r)]

-----------------------------------------------------------------------------
(* schedule()                                                              *)

Live == {r \in Reqs : s.status[r] \in {"waiting", "remote", "running"}}

StartSchedule ==
  /\ step = NoStep /\ Len(inflight) < MaxInflight /\ (Live # {} \/ s.ids # {})
  /\ step' = [NoStep EXCEPT !.part = "running"]
  /\ UNCHANGED <<config, s, c, cpu, inflight, wk, stores, loads, gpuq, gpu, ram, wrong, bounds>>

NextBlock(r) == Min({s.computed[r] + 1, Full(r) + 1})

(* Block NextBlock(r) is computed; it is allocated unless it is there *)
Scheduled(r) ==
  LET i == NextBlock(r)
      t == IF Len(s.table[r]) >= i THEN s
           ELSE [s EXCEPT !.table[r] = Append(@, Head(s.free)), !.free = Tail(@)]
  IN  /\ Len(s.table[r]) >= i \/ s.free # <<>>
      /\ s' = [t EXCEPT !.computed[r] = i, !.status[r] = "running", !.recvd = @ \ {r},
                        !.running = IF r \in Range(@) THEN @ ELSE Append(@, r)]
      /\ step' = [step EXCEPT !.index = IF step.part = "running" THEN @ + 1 ELSE @,
           !.run = Append(@, [req |-> r, block |-> i, table |-> s'.table[r]])]

ScheduleRunning ==
  /\ step.part = "running" /\ step.index <= Len(s.running)
  /\ Scheduled(s.running[step.index])
  /\ UNCHANGED <<config, c, cpu, inflight, wk, stores, loads, gpuq, gpu, ram, wrong, bounds>>

PreemptLast ==
  /\ step.part = "running" /\ step.index <= Len(s.running)
  /\ LET r == s.running[step.index] IN Len(s.table[r]) < NextBlock(r) /\ s.free = <<>>
  /\ s' = Preempted(s, Last(s.running))
  /\ step' = [step EXCEPT !.flush = @ \cup {Last(s.running)}]
  /\ UNCHANGED <<config, c, cpu, inflight, wk, stores, loads, gpuq, gpu, ram, wrong, bounds>>

InWaiting == step.part = "running" /\ step.index > Len(s.running) /\ step.flush = {}

(* get_num_new_matched_tokens, then update_state_after_alloc and           *)
(* prepare_load: blocks that are on the CPU are loaded                     *)
StartLoad(r) ==
  LET m == Touch(cpu, Prompt[r])
      n == Lookup(m, Prompt[r])
      hs == Range(SubSeq(Prompt[r], 1, n))
  IN
  /\ InWaiting /\ s.status[r] = "waiting" /\ s.computed[r] = 0
  /\ n > 0 /\ n <= Len(s.free)
  /\ s' = [s EXCEPT !.status[r] = "remote", !.computed[r] = n,
                    !.table[r] = SubSeq(s.free, 1, n), !.free = SubSeq(s.free, n + 1, Len(s.free))]
  /\ cpu' = AddRef(m, hs, 1)
  /\ c' = [c EXCEPT !.loading[r] = @ \cup hs, !.next[r] = n]
  /\ step' = [step EXCEPT !.loads = Append(@, [req |-> r, state |-> "run", after |-> 0, pairs |->
       {[block |-> s'.table[r][i], id |-> Entry(m, Prompt[r][i]).id, hash |-> Prompt[r][i]] : i \in 1..n}])]
  /\ UNCHANGED <<config, inflight, wk, stores, loads, gpuq, gpu, ram, wrong, bounds>>

(* Fault: a request is scheduled while its blocks are loaded *)
Promotable_Early(r) == s.status[r] = "remote"
Promotable(r) == s.status[r] = "remote" /\ r \in s.recvd

(* A request without a hit, or one whose blocks have been loaded *)
ScheduleWaiting(r) ==
  /\ InWaiting
  /\ \/ /\ s.status[r] = "waiting" /\ Lookup(cpu, Prompt[r]) = 0
        /\ cpu' = Touch(cpu, Prompt[r])
        /\ Scheduled(r)
     \/ /\ Promotable(r)
        /\ Scheduled(r)
        /\ UNCHANGED cpu
  /\ UNCHANGED <<config, c, inflight, wk, stores, loads, gpuq, gpu, ram, wrong, bounds>>

(* A request that was looked up and found no room ends the loop; its       *)
(* blocks on the CPU have been touched                                     *)
NoRoom(r) ==
  /\ InWaiting /\ s.status[r] = "waiting"
  /\ Max({1, Lookup(cpu, Prompt[r])}) > Len(s.free)
  /\ cpu' = Touch(cpu, Prompt[r])
  /\ step' = [step EXCEPT !.part = "full"]
  /\ UNCHANGED <<config, s, c, inflight, wk, stores, loads, gpuq, gpu, ram, wrong, bounds>>

(* _get_reqs_to_store for one scheduled request *)
Store(acc, e) ==
  LET r  == e.req
      n  == Min({e.block, Full(r)})
      hs == SubSeq(Prompt[r], acc.c.next[r] + 1, n)
      out == PrepareStore(acc.cpu, hs)
      es == Range(out.new)
  IN
  IF hs = <<>> \/ ~ out.ok THEN acc
  ELSE IF out.new = <<>> THEN [acc EXCEPT !.c.next[r] = n]
  ELSE [cpu |-> Touch(out.blocks, SubSeq(Prompt[r], 1, n)),
        c |-> [acc.c EXCEPT !.next[r] = n, !.keys = @ \cup {r},
                            !.stored[r] = @ \cup {x.hash : x \in es}],
        jobs |-> Append(acc.jobs, [req |-> r, state |-> "new", after |-> 0, pairs |->
          {[block |-> e.table[i], id |-> (CHOOSE x \in es : x.hash = Prompt[r][i]).id,
            hash |-> Prompt[r][i]] : i \in {i \in 1..n : \E x \in es : x.hash = Prompt[r][i]}}])]

(* Blocks being stored for preempted requests count as stored: the worker  *)
(* waits for their copies before it does anything else in this batch       *)
Flushed(m, flush) == CompleteStore(m, UNION {c.stored[r] : r \in flush})

(* build_connector_meta; a request preempted in this step is not scheduled *)
EndSchedule ==
  /\ step.part = "full" \/ (step.part = "running" /\ step.index > Len(s.running))
  /\ LET run == SelectSeq(step.run, LAMBDA e : e.req \notin step.flush)
         out == FoldLeft(Store, [cpu |-> cpu, c |-> c, jobs |-> <<>>], run)
     IN
     /\ cpu' = Flushed(out.cpu, step.flush)
     /\ c' = [out.c EXCEPT !.stored = [r \in Reqs |-> IF r \in step.flush THEN {} ELSE @[r]]]
     /\ inflight' = Append(inflight,
          [run |-> run, loads |-> step.loads, stores |-> out.jobs, flush |-> step.flush,
           ids |-> s.ids, stage |-> "queued", sent |-> {}, recv |-> {}, bad |-> {}, done |-> FALSE])
  /\ s' = [s EXCEPT !.ids = {}]
  /\ step' = NoStep
  /\ UNCHANGED <<config, wk, stores, loads, gpuq, gpu, ram, wrong, bounds>>

-----------------------------------------------------------------------------
(* The worker                                                              *)

Todo == {i \in DOMAIN inflight : inflight[i].stage # "end" /\ \A j \in 1..(i - 1) : inflight[j].stage = "end"}

(* The deferred stores are submitted; they wait for the forward passes     *)
(* launched so far                                                         *)
Submitted == [i \in DOMAIN stores |->
  IF stores[i].state = "new" THEN [stores[i] EXCEPT !.state = "run", !.after = Len(gpuq)] ELSE stores[i]]

(* handle_preemptions, first part *)
SubmitStores ==
  \E i \in Todo :
    /\ inflight[i].stage = "queued"
    /\ stores' = Submitted
    /\ inflight' = [inflight EXCEPT ![i].stage = "flush"]
    /\ UNCHANGED <<config, s, step, c, cpu, wk, loads, gpuq, gpu, ram, wrong, bounds>>

(* Fault: the worker does not wait *)
FlushDone_Always(b) == b.stage = "flush"
(* worker.wait(): the stores of preempted requests are over *)
FlushDone(b) == \A j \in Range(stores) : j.req \in b.flush => j.state = "end"

(* start_kv_transfers, the launch of the forward pass, prepare_store_kv *)
Launch ==
  \E i \in Todo :
    LET b == inflight[i] IN
    /\ b.stage = "flush" /\ FlushDone(b)
    /\ loads' = loads \o b.loads
    /\ s' = [s EXCEPT !.error = @ \/ \E j \in Range(loads), k \in Range(b.loads) : j.req = k.req]
    /\ stores' = stores \o b.stores
    /\ wk' = [wk EXCEPT !.keys = @ \cup {j.req : j \in Range(b.stores)}]
    /\ gpuq' = IF b.run = <<>> THEN gpuq ELSE Append(gpuq, b.run)
    /\ inflight' = [inflight EXCEPT ![i].stage = "launched", ![i].done = b.run = <<>>]
    /\ UNCHANGED <<config, step, c, cpu, gpu, ram, wrong, bounds>>

(* get_finished *)
Collect ==
  \E i \in Todo :
    LET b     == inflight[i]
        left  == SelectSeq(stores, LAMBDA j : j.state # "end")
        pend  == {j.req : j \in Range(left)}
        ended == {j.req : j \in {j \in Range(stores) : j.state = "end"}}
        sent1 == (ended \ pend) \cap wk.fin
        sent2 == {r \in b.ids : r \in wk.keys /\ r \notin pend}
    IN
    /\ b.stage = "launched"
    /\ stores' = left
    /\ loads' = SelectSeq(loads, LAMBDA j : j.state # "end")
    /\ wk' = [keys |-> wk.keys \ (sent1 \cup sent2),
              fin |-> (wk.fin \ sent1) \cup {r \in b.ids : r \in wk.keys \cap pend}]
    /\ inflight' = [inflight EXCEPT ![i].stage = "end", ![i].sent = sent1 \cup sent2,
         ![i].recv = {j.req : j \in {j \in Range(loads) : j.state = "end"}}]
    /\ UNCHANGED <<config, s, step, c, cpu, gpuq, gpu, ram, wrong, bounds>>

(* The GPU does a forward pass: each request reads the blocks before the   *)
(* one it writes                                                           *)
Want(r, i) == IF i > Full(r) THEN Tail_ ELSE Prompt[r][i]
Computed(e) == \A i \in 1..(e.block - 1) : gpu[e.table[i]] = Want(e.req, i)

Forward ==
  /\ gpuq # <<>>
  /\ LET run == Head(gpuq)
         n   == Min({i \in DOMAIN inflight : ~ inflight[i].done})
     IN
     /\ gpu' = [b \in DOMAIN gpu |->
          LET es == {e \in Range(run) : e.table[e.block] = b} IN
          IF es = {} THEN gpu[b]
          ELSE LET e == CHOOSE e \in es : TRUE IN
               IF Computed(e) THEN Want(e.req, e.block) ELSE Nothing]
     /\ inflight' = [inflight EXCEPT ![n].done = TRUE,
          ![n].bad = {e.req : e \in {e \in Range(run) : ~ Computed(e)}}]
  /\ gpuq' = Tail(gpuq)
  /\ stores' = [i \in DOMAIN stores |-> [stores[i] EXCEPT !.after = Max({0, @ - 1})]]
  /\ UNCHANGED <<config, s, step, c, cpu, wk, loads, ram, wrong, bounds>>

First(q) == {i \in DOMAIN q : q[i].state # "end" /\ \A j \in 1..(i - 1) : q[j].state = "end"}

StoreEnds ==
  \E i \in First(stores) :
    /\ stores[i].state = "run" /\ stores[i].after = 0
    /\ ram' = [x \in DOMAIN ram |->
         LET ps == {p \in stores[i].pairs : p.id = x} IN
         IF ps = {} THEN ram[x] ELSE gpu[(CHOOSE p \in ps : TRUE).block]]
    /\ stores' = [stores EXCEPT ![i].state = "end"]
    /\ UNCHANGED <<config, s, step, c, cpu, inflight, wk, loads, gpuq, gpu, wrong, bounds>>

(* A load does not wait for forward passes *)
LoadEnds ==
  \E i \in First(loads) :
    /\ gpu' = [b \in DOMAIN gpu |->
         LET ps == {p \in loads[i].pairs : p.block = b} IN
         IF ps = {} THEN gpu[b] ELSE ram[(CHOOSE p \in ps : TRUE).id]]
    /\ loads' = [loads EXCEPT ![i].state = "end"]
    /\ UNCHANGED <<config, s, step, c, cpu, inflight, wk, stores, gpuq, ram, wrong, bounds>>

-----------------------------------------------------------------------------
(* update_from_output()                                                    *)

Received(t, r) ==
  CASE t.status[r] = "remote"   -> [t EXCEPT !.recvd = @ \cup {r}]
    [] t.status[r] = "finished" -> Gone(t, r)
    [] OTHER                    -> [t EXCEPT !.error = TRUE]
Sent(t, r) == IF t.status[r] = "finished" THEN Gone(t, r) ELSE [t EXCEPT !.error = TRUE]

(* Some requests that computed a token stop; then the connector's          *)
(* update_connector_output and _update_from_kv_xfer_finished               *)
UpdateFromOutput ==
  /\ step = NoStep /\ inflight # <<>> /\ Head(inflight).stage = "end" /\ Head(inflight).done
  /\ LET b    == Head(inflight)
         outs == {e.req : e \in {e \in Range(b.run) : e.block > Full(e.req)}} \cap Live
         held == UNION {c.loading[r] : r \in b.recv}
         less == [h \in Hashes |-> Cardinality({r \in b.recv : h \in c.loading[r]})]
         m    == [i \in DOMAIN cpu |-> [cpu[i] EXCEPT !.ref = @ - less[cpu[i].hash]]]
     IN
     \E fin \in SUBSET {r \in outs : s.status[r] = "running"} :
       LET t == FoldSet(LAMBDA r, u : Finish(u, r), s, fin)
           u == FoldSet(LAMBDA r, v : Received(v, r), t, b.recv)
           v == FoldSet(LAMBDA r, w : Sent(w, r), u, b.sent)
       IN
       /\ s' = [v EXCEPT !.error = @ \/ \E h \in held : ~ Cached(cpu, h) \/ Entry(cpu, h).ref < less[h]]
       /\ wrong' = wrong \cup (b.bad \cap Live)
       /\ cpu' = CompleteStore(m, UNION {c.stored[r] : r \in b.sent})
       /\ c' = [c EXCEPT !.keys = @ \ b.sent,
                  !.stored = [r \in Reqs |-> IF r \in b.sent THEN {} ELSE @[r]],
                  !.loading = [r \in Reqs |-> IF r \in b.recv THEN {} ELSE @[r]],
                  !.next = [r \in Reqs |-> IF r \in fin THEN 0 ELSE @[r]]]
  /\ inflight' = Tail(inflight)
  /\ UNCHANGED <<config, step, wk, stores, loads, gpuq, gpu, ram, bounds>>

Abort(r) ==
  /\ step = NoStep /\ r \in Live /\ bounds.aborts < MaxAborts
  /\ s' = Finish(s, r)
  /\ c' = [c EXCEPT !.next[r] = 0]
  /\ bounds' = [bounds EXCEPT !.aborts = @ + 1]
  /\ UNCHANGED <<config, step, cpu, inflight, wk, stores, loads, gpuq, gpu, ram, wrong>>

(* reset_prefix_cache(reset_running_requests=True): all running requests   *)
(* are preempted between two calls of schedule()                           *)
Reset ==
  /\ step = NoStep /\ s.running # <<>> /\ bounds.resets < MaxResets
  /\ MaxInflight = 1 => inflight = <<>>
  /\ s' = FoldLeft(Preempted, s, Reverse(s.running))
  /\ bounds' = [bounds EXCEPT !.resets = @ + 1]
  /\ UNCHANGED <<config, step, c, cpu, inflight, wk, stores, loads, gpuq, gpu, ram, wrong>>

(* The engine waits for requests *)
Idle ==
  /\ step = NoStep /\ inflight = <<>> /\ Live = {} /\ s.ids = {}
  /\ UNCHANGED vars

Next ==
  \/ StartSchedule \/ ScheduleRunning \/ PreemptLast \/ EndSchedule
  \/ \E r \in Reqs : StartLoad(r) \/ ScheduleWaiting(r) \/ NoRoom(r) \/ Abort(r)
  \/ SubmitStores \/ Launch \/ Collect \/ Forward \/ StoreEnds \/ LoadEnds
  \/ UpdateFromOutput \/ Reset \/ Idle

Spec == Init /\ [][Next]_vars

-----------------------------------------------------------------------------
TypeOK ==
  /\ config \in Configs
  /\ s.status \in [Reqs -> {"waiting", "remote", "running", "finished", "gone"}]
  /\ s.free \in Seq(1..NumGpu) /\ s.table \in [Reqs -> Seq(1..NumGpu)]
  /\ Len(s.free) + FoldSet(LAMBDA r, n : n + Len(s.table[r]), 0, Reqs) = NumGpu
  /\ \A e \in Range(cpu) : e.hash \in Hashes /\ e.id \in 1..NumCpu /\ e.ref \in -1..Cardinality(Reqs)
  /\ Len(cpu) = Cardinality({e.id : e \in Range(cpu)})
  /\ Len(cpu) = Cardinality({e.hash : e \in Range(cpu)})
  /\ wk.fin \subseteq wk.keys
  /\ Len(inflight) <= MaxInflight

(* One batch at a time and no reset.  With two batches a load may write a  *)
(* block that a pass of its former owner is still to write, and the stores *)
(* of requests that a reset preempts are not flushed.                      *)
InStep == MaxInflight = 1 /\ MaxResets = 0

(* No request is answered from a block that does not hold its KV, wherever *)
(* the block came from: computed, loaded, or both.                         *)
NoWrongKV == InStep => wrong = {}

(* What may be loaded is what was stored: once its copy is over, a ready   *)
(* CPU block holds the KV of its hash ("Following this call, the given     *)
(* blocks will become loadable").                                          *)
ReadyBlocksHoldTheirKV ==
  InStep => \A e \in Range(cpu) :
    /\ e.ref >= 0
    /\ \A j \in Range(stores) : j.state # "end" => \A p \in j.pairs : p.hash # e.hash
    /\ \A i \in DOMAIN inflight : inflight[i].stage \in {"queued", "flush"} =>
         \A j \in Range(inflight[i].stores) : \A p \in j.pairs : p.hash # e.hash
    => ram[e.id] = e.hash

(* A copy in progress keeps both its ends: the GPU blocks of a load belong *)
(* to its request, the CPU blocks of a copy to their hash.  Blocks stored  *)
(* for a preempted request may be given away before the copy is over, once *)
(* a batch is queued in which the worker waits for it.                     *)
CopiesKeepTheirBlocks ==
  LET flushed == UNION {b.flush : b \in {b \in Range(inflight) : b.stage \in {"queued", "flush"}}}
      copies  == Range(loads) \cup {j \in Range(stores) : j.req \notin flushed}
  IN
  /\ \A j \in Range(loads) : j.state = "run" =>
       \A p \in j.pairs : p.block \in Range(s.table[j.req])
  /\ \A j \in copies : j.state # "end" =>
       \A p \in j.pairs : Cached(cpu, p.hash) /\ Entry(cpu, p.hash).id = p.id

(* The reference count of a CPU block is the number of loads from it; it   *)
(* is unready exactly while one request stores it.                         *)
RefCountsExact ==
  \A e \in Range(cpu) :
    LET storing == Cardinality({r \in Reqs : e.hash \in c.stored[r]}) IN
    IF e.ref = -1 THEN storing = 1
    ELSE storing = 0 /\ e.ref = Cardinality({r \in Reqs : e.hash \in c.loading[r]})

(* Every assertion holds: of complete_load, of the worker (one load per    *)
(* request) and of _update_from_kv_xfer_finished.                          *)
NoAssertFails == ~ s.error

(* The CPU cache is exact: what it counts, what it holds and what the      *)
(* worker reports about it (CPUOffloadingManager).                         *)
CpuCacheExact == TypeOK /\ RefCountsExact /\ ReadyBlocksHoldTheirKV /\ NoAssertFails
=============================================================================
