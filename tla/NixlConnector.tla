--------------------------- MODULE NixlConnector ---------------------------
(***************************************************************************)
(* Disaggregated prefill with the NIXL connector: a prefill engine P keeps *)
(* the blocks of a request it has finished until the workers of a decode   *)
(* engine D have read them.  P's workers count notifications and expire    *)
(* requests nobody reads; D's workers shake hands with P on a background   *)
(* thread, read, and report what they have and what failed.                *)
(*                                                                         *)
(* A request is the same model value on both sides, its id is not: a       *)
(* notification carries the id of P or of D.  Blocks are counted per       *)
(* request: P holds those of a request until its status is "gone".  NIXL   *)
(* itself (reads, notifications) is external.                              *)
(***************************************************************************)
EXTENDS Integers, FiniteSets, Sequences, FiniteSetsExt, SequencesExt

CONSTANTS
  Reqs,
  Configs      \* settings and bounds to start with: records as below

FaultKinds == {"handshake", "setup", "transfer", "notify"}

ASSUME NixlAssumption ==
  /\ Configs \subseteq [np : Nat \ {0}, nd : Nat \ {0}, mla : BOOLEAN, hma : BOOLEAN,
       known : BOOLEAN, recompute : BOOLEAN, expires : BOOLEAN, reqs : SUBSET Reqs,
       hits : SUBSET Reqs, aborts : SUBSET Reqs, maxBatches : Nat \ {0},
       faults : SUBSET FaultKinds, maxFaults : Nat]
  /\ \A c \in Configs : c.np % c.nd = 0 \/ c.nd % c.np = 0

VARIABLES
  config,   \* chosen at the start
  p,        \* scheduler of P, its side of the connector and the aggregator
  pr,       \* workers of P
  d, dr,    \* the same for D
  notifs,   \* per worker of P: notifications it has not taken yet
  expired,  \* requests whose expiration time has passed
  faults    \* number of faults so far

vars == <<config, p, pr, d, dr, notifs, expired, faults>>

NP         == config.np          \* tensor parallel sizes
ND         == config.nd
Mla        == config.mla         \* use_mla
Hma        == config.hma         \* _is_hma_required
Known      == config.known       \* the handshake was done for an earlier request
Recompute  == config.recompute   \* kv_load_failure_policy
Expires    == config.expires     \* VLLM_NIXL_ABORT_REQUEST_TIMEOUT may pass
Hits       == config.hits        \* requests D may find in its prefix cache, or abort unscheduled
Aborts     == config.aborts      \* requests that may be aborted, on P or while D loads them
MaxBatches == config.maxBatches  \* batches P has in flight
Faults     == config.faults      \* what may fail
MaxFaults  == config.maxFaults

PRanks == 0..(NP - 1)
DRanks == 0..(ND - 1)

(* get_target_remote_ranks *)
Targets(k) ==
  IF NP > ND THEN {k * (NP \div ND) + i : i \in 0..(NP \div ND - 1)}
  ELSE {k \div (ND \div NP)}
(* With MLA one of them is enough *)
Reads(k) == IF Mla /\ NP > ND THEN {Min(Targets(k))} ELSE Targets(k)
(* Fault: the producer does not wait for all its consumers *)
Consumers_One == 1
(* consumers_per_producer *)
Consumers == IF ND > NP THEN ND \div NP ELSE 1

NoBatch == [recv |-> {}, left |-> {}, done |-> [k \in DRanks |-> {}], invalid |-> {}]
NoMeta  == [in |-> {}, not |-> {}, send |-> {}]

(* P: "finished" requests are kept for D; told: their parameters are known *)
(* to the proxy; pend: _reqs_in_batch, _reqs_not_processed, _reqs_need_send*)
PInit == [status |-> [r \in Reqs |-> "new"], told |-> {}, pend |-> NoMeta,
          batches |-> <<>>, missing |-> [r \in Reqs |-> NP], error |-> FALSE]

(* D: need is _reqs_need_recv, with or without local blocks; used: started *)
(* with the KV it loaded; bad: failed_recving_kv_req_ids                   *)
DInit == [status |-> [r \in Reqs |-> "new"], need |-> {}, batch |-> NoBatch, bad |-> {},
          used |-> {}, missing |-> [r \in Reqs |-> ND], error |-> FALSE]

(* A worker of D.  jobs: handshakes, oldest first, each with its result,   *)
(* whether done_callback is still to run, and the requests whose callback  *)
(* is; pc: where its thread is in start_load_kv and get_finished           *)
WorkerInit ==
  [pc |-> "idle", todo |-> {}, meta |-> {}, local |-> {}, agents |-> Known, jobs |-> <<>>,
   ready |-> <<>>, xfer |-> [r \in Reqs |-> [t \in PRanks |-> "none"]], got |-> {},
   failed |-> {}, invalid |-> {}, done |-> {}]

Init ==
  /\ config \in Configs
  /\ p = PInit /\ d = DInit
  /\ pr = [t \in PRanks |-> [process |-> {}, send |-> {}, count |-> [r \in Reqs |-> 0]]]
  /\ dr = [k \in DRanks |-> WorkerInit]
  /\ notifs = [t \in PRanks |-> {}]
  /\ expired = {} /\ faults = 0

-----------------------------------------------------------------------------
(* The prefill engine                                                      *)

(* The request is scheduled: update_state_after_alloc *)
PAdmit(r) ==
  /\ r \in config.reqs /\ p.status[r] = "new"
  /\ p' = [p EXCEPT !.status[r] = "running", !.pend.in = @ \cup {r}]
  /\ UNCHANGED <<config, pr, d, dr, notifs, expired, faults>>

PBusy == p.pend # NoMeta \/ \E r \in Reqs : p.status[r] \in {"running", "finished"}

(* build_connector_meta *)
PSchedule ==
  /\ Len(p.batches) < MaxBatches /\ PBusy
  /\ p' = [p EXCEPT !.pend = NoMeta,
       !.batches = Append(@, [meta |-> p.pend, stage |-> [t \in PRanks |-> "queued"],
                              sent |-> [t \in PRanks |-> {}]])]
  /\ UNCHANGED <<config, pr, d, dr, notifs, expired, faults>>

PBatch(t) == {i \in DOMAIN p.batches :
  p.batches[i].stage[t] # "done" /\ \A j \in 1..(i - 1) : p.batches[j].stage[t] = "done"}

(* Only requests that D has not read yet get an expiration time *)
PSend(w, send) == send \cap w.process

(* start_load_kv *)
PStart(t) ==
  \E i \in PBatch(t) :
    LET b == p.batches[i]
        w == [pr[t] EXCEPT !.process = (@ \cup b.meta.in) \ b.meta.not]
    IN
    /\ b.stage[t] = "queued"
    /\ pr' = [pr EXCEPT ![t] = [w EXCEPT !.send = @ \cup PSend(w, b.meta.send)]]
    /\ p' = [p EXCEPT !.batches[i].stage[t] = "started",
                      !.error = @ \/ b.meta.not \cap pr[t].send # {}]
    /\ UNCHANGED <<config, d, dr, notifs, expired, faults>>

(* Fault: nothing expires *)
Late_None(w, read) == {r \in {} : r \in w.send \ read}
Late(w, read) == (w.send \ read) \cap expired

(* get_finished: notifications, then the requests that expired; its        *)
(* _reqs_to_process.remove() raises for a request that is not there        *)
PFinish(t) ==
  \E i \in PBatch(t) :
    LET w     == pr[t]
        n     == [r \in Reqs |-> w.count[r] + Cardinality({m \in notifs[t] : m.req = r /\ m.id = "P"})]
        known == {r \in Reqs : r \in w.send \cup w.process /\ n[r] > w.count[r]}
        read  == {r \in known : n[r] >= Consumers}
        out   == read \cup Late(w, read)
    IN
    /\ p.batches[i].stage[t] = "started"
    /\ notifs' = [notifs EXCEPT ![t] = {}]
    /\ pr' = [pr EXCEPT ![t] =
         [process |-> w.process \ out, send |-> w.send \ out,
          count |-> [r \in Reqs |-> IF r \in out THEN 0 ELSE IF r \in known THEN n[r] ELSE w.count[r]]]]
    /\ p' = [p EXCEPT !.batches[i] = [@ EXCEPT !.stage[t] = "done", !.sent[t] = out],
                      !.error = @ \/ ~ out \subseteq w.process]
    /\ UNCHANGED <<config, d, dr, expired, faults>>

(* KVOutputAggregator: the number of workers that have not reported a      *)
(* request; after the last of them it starts again                         *)
Count(missing, reports) == IF reports < missing THEN missing - reports ELSE missing
Done(missing, reports)  == reports > 0 /\ reports = missing

PReports(r) == Cardinality({t \in PRanks : r \in Head(p.batches).sent[t]})

(* update_from_output: some requests finish with FINISHED_LENGTH_CAPPED,   *)
(* request_finished delays the release of their blocks; the blocks of      *)
(* requests that every worker has reported are freed                       *)
PUpdate ==
  /\ p.batches # <<>> /\ \A t \in PRanks : Head(p.batches).stage[t] = "done"
  /\ LET over == {r \in Reqs : Done(p.missing[r], PReports(r))}
         ran  == {r \in Reqs : p.status[r] = "running" /\ r \notin p.pend.in
                    /\ \A i \in 2..Len(p.batches) : r \notin p.batches[i].meta.in}
     IN
     \E fin \in SUBSET ran :
       p' = [p EXCEPT !.batches = Tail(@), !.told = @ \cup fin, !.pend.send = @ \cup fin,
               !.missing = [r \in Reqs |-> IF r \in over THEN NP ELSE Count(@[r], PReports(r))],
               !.status = [r \in Reqs |-> IF r \in fin THEN "finished"
                                          ELSE IF r \in over THEN "gone" ELSE @[r]],
               !.error = @ \/ \E r \in over : p.status[r] # "finished"]
  /\ UNCHANGED <<config, pr, d, dr, notifs, expired, faults>>

(* request_finished of an aborted request: freed at once, not processed *)
PAbort(r) ==
  /\ r \in Aborts /\ p.status[r] = "running"
  /\ p' = [p EXCEPT !.status[r] = "gone", !.pend.not = @ \cup {r}]
  /\ UNCHANGED <<config, pr, d, dr, notifs, expired, faults>>

Expire(r) ==
  /\ Expires /\ r \in p.told \ expired
  /\ expired' = expired \cup {r}
  /\ UNCHANGED <<config, p, pr, d, dr, notifs, faults>>

-----------------------------------------------------------------------------
(* The decode engine's scheduler                                           *)

DArrive(r) ==
  /\ r \in p.told /\ d.status[r] = "new"
  /\ d' = [d EXCEPT !.status[r] = "waiting"]
  /\ UNCHANGED <<config, p, pr, dr, notifs, expired, faults>>

(* update_state_after_alloc: blocks to load, or a full prefix cache hit *)
DAdmit(r) ==
  /\ d.status[r] = "waiting"
  /\ \/ d' = [d EXCEPT !.status[r] = "remote", !.need = @ \cup {[req |-> r, local |-> TRUE]}]
     \/ /\ r \in Hits
        /\ d' = [d EXCEPT !.status[r] = "running", !.need = @ \cup {[req |-> r, local |-> FALSE]}]
  /\ UNCHANGED <<config, p, pr, dr, notifs, expired, faults>>

(* Aborted before it was scheduled: P is told that nothing will be read.   *)
(* Aborted while its KV is on the way: the blocks are kept until then.     *)
DAbort(r) ==
  /\ \/ /\ r \in Hits /\ d.status[r] = "waiting"
        /\ d' = [d EXCEPT !.status[r] = "gone", !.need = @ \cup {[req |-> r, local |-> FALSE]}]
     \/ /\ r \in Aborts /\ d.status[r] = "remote"
        /\ d' = [d EXCEPT !.status[r] = "finished"]
  /\ UNCHANGED <<config, p, pr, dr, notifs, expired, faults>>

DSchedule ==
  /\ d.batch = NoBatch /\ \A k \in DRanks : dr[k].pc = "idle"
  /\ d.need # {} \/ \E r \in Reqs : d.status[r] \in {"remote", "finished"}
  /\ d' = [d EXCEPT !.need = {}, !.batch = [NoBatch EXCEPT !.recv = d.need, !.left = DRanks]]
  /\ UNCHANGED <<config, p, pr, dr, notifs, expired, faults>>

DReports(r) == Cardinality({k \in DRanks : r \in d.batch.done[k]})

(* update_from_output: invalid blocks, then requests all workers are done  *)
(* with (see KVTransfer for the scheduler's side in detail)                *)
DUpdate ==
  /\ d.batch # NoBatch /\ d.batch.left = {} /\ \A k \in DRanks : dr[k].pc = "idle"
  /\ LET hit  == {r \in d.batch.invalid : d.status[r] = "remote"}
         bad  == IF Recompute THEN d.bad \cup hit ELSE d.bad
         stat == [r \in Reqs |-> IF r \in hit /\ ~ Recompute THEN "finished" ELSE d.status[r]]
         over == {r \in Reqs : Done(d.missing[r], DReports(r))}
     IN
     d' = [d EXCEPT !.batch = NoBatch, !.bad = bad \ over,
             !.missing = [r \in Reqs |-> IF r \in over THEN ND ELSE Count(@[r], DReports(r))],
             !.status = [r \in Reqs |->
                IF r \notin over THEN stat[r]
                ELSE IF stat[r] = "remote" THEN "running" ELSE "gone"],
             !.used = @ \cup {r \in over : stat[r] = "remote" /\ r \notin bad},
             !.error = @ \/ \E r \in over : stat[r] \notin {"remote", "finished"}]
  /\ UNCHANGED <<config, p, pr, dr, notifs, expired, faults>>

-----------------------------------------------------------------------------
(* A worker of D: start_load_kv                                            *)

DStart(k) ==
  /\ dr[k].pc = "idle" /\ k \in d.batch.left
  /\ dr' = [dr EXCEPT ![k].pc = "load", ![k].todo = d.batch.recv]
  /\ d' = [d EXCEPT !.batch.left = @ \ {k}]
  /\ UNCHANGED <<config, p, pr, notifs, expired, faults>>

(* One more of these faults is possible n times *)
May(kind, n) == n = 0 \/ (kind \in Faults /\ faults + n <= MaxFaults)

(* The except branch of _read_blocks *)
SetupFailed(w, r) ==
  [w EXCEPT !.failed = @ \cup {r}, !.invalid = IF Hma THEN @ ELSE @ \cup {r}]

(* _read_blocks_for_req: one read per target, or only a notification.  The *)
(* other producers of a replicated cache are notified with D's own id.     *)
ReadBlocks(k, w, r) ==
  IF r \in w.local
  THEN \E bad \in SUBSET Reads(k) :
         LET v == [w EXCEPT !.xfer[r] = [t \in PRanks |->
                     IF t \in Reads(k) \ bad THEN "proc" ELSE @[t]]]
         IN
         /\ May("setup", Cardinality(bad))
         /\ dr' = [dr EXCEPT ![k] = IF bad = {} THEN v ELSE SetupFailed(v, r)]
         /\ faults' = faults + Cardinality(bad)
         /\ notifs' = [t \in PRanks |->
              IF w.agents /\ t \in Targets(k) \ Reads(k)
              THEN notifs[t] \cup {[from |-> k, req |-> r, id |-> "D"]} ELSE notifs[t]]
         /\ UNCHANGED d
  ELSE \E lost \in SUBSET Reads(k) :
         /\ May("notify", Cardinality(lost))
         /\ dr' = [dr EXCEPT ![k] = w]
         /\ faults' = faults + Cardinality(lost)
         (* the look-up of the agent raises if done_callback has not run *)
         /\ d' = [d EXCEPT !.error = @ \/ ~ w.agents]
         /\ notifs' = [t \in PRanks |->
              IF ~ w.agents \/ t \in lost \/ t \notin Targets(k) THEN notifs[t]
              ELSE notifs[t] \cup {[from |-> k, req |-> r,
                                    id |-> IF t \in Reads(k) THEN "P" ELSE "D"]}]

(* Fault: its blocks are not marked *)
MarkInvalid_Not(w, r) == IF r \in w.local THEN w ELSE w
(* request_ready of a failed handshake.  A request without local blocks    *)
(* has no first group to mark: the callback raises, which is only logged.  *)
MarkInvalid(w, r) == IF r \in w.local /\ ~ Hma THEN [w EXCEPT !.invalid = @ \cup {r}] ELSE w
MarkFailed(w, r)  == IF r \in w.local \/ Hma THEN [w EXCEPT !.failed = @ \cup {r}] ELSE w

(* _background_nixl_handshake joins a handshake whose done_callback has    *)
(* not run; if that one is over, request_ready runs at once                *)
Joined(w, r) ==
  LET n == Len(w.jobs) IN
  IF n > 0 /\ w.jobs[n].first
  THEN CASE w.jobs[n].res = "running" -> [w EXCEPT !.jobs[n].cbs = Append(@, r)]
         [] w.jobs[n].res = "ok"      -> [w EXCEPT !.ready = Append(@, r)]
         [] OTHER                     -> MarkFailed(MarkInvalid(w, r), r)
  ELSE [w EXCEPT !.jobs = Append(@, [res |-> "running", first |-> TRUE, cbs |-> <<r>>,
                                     marked |-> FALSE])]

DLoad(k) ==
  \E m \in dr[k].todo :
    LET w == [dr[k] EXCEPT !.todo = @ \ {m}, !.meta = @ \cup {m.req},
                           !.local = IF m.local THEN @ \cup {m.req} ELSE @]
    IN
    /\ dr[k].pc = "load"
    /\ IF w.agents THEN ReadBlocks(k, w, m.req)
       ELSE dr' = [dr EXCEPT ![k] = Joined(w, m.req)] /\ UNCHANGED <<d, notifs, faults>>
    /\ UNCHANGED <<config, p, pr, expired>>

(* Requests whose handshake has finished in the meantime *)
DReady(k) ==
  /\ dr[k].pc = "load" /\ dr[k].todo = {} /\ dr[k].ready # <<>>
  /\ ReadBlocks(k, [dr[k] EXCEPT !.ready = Tail(@)], Head(dr[k].ready))
  /\ UNCHANGED <<config, p, pr, expired>>

-----------------------------------------------------------------------------
(* The background thread of a worker of D                                  *)

HandshakeEnds(k, ok) ==
  /\ dr[k].jobs # <<>> /\ Head(dr[k].jobs).res = "running"
  /\ ok \/ May("handshake", 1)
  /\ faults' = IF ok THEN faults ELSE faults + 1
  /\ dr' = [dr EXCEPT ![k].jobs[1].res = IF ok THEN "ok" ELSE "failed"]
  /\ UNCHANGED <<config, p, pr, d, notifs, expired>>

(* done_callback, under _handshake_lock *)
DoneCallback(k) ==
  /\ dr[k].jobs # <<>> /\ Head(dr[k].jobs).res # "running" /\ Head(dr[k].jobs).first
  /\ dr' = [dr EXCEPT ![k].jobs[1].first = FALSE,
                      ![k].agents = @ \/ Head(dr[k].jobs).res = "ok"]
  /\ UNCHANGED <<config, p, pr, d, notifs, expired, faults>>

(* request_ready: a failure is recorded in two steps *)
RequestReady(k) ==
  /\ dr[k].jobs # <<>> /\ Head(dr[k].jobs).res # "running" /\ ~ Head(dr[k].jobs).first
  /\ LET job  == Head(dr[k].jobs)
         r    == Head(job.cbs)
         next == [dr[k] EXCEPT !.jobs = IF Len(job.cbs) = 1 THEN Tail(@)
                    ELSE <<[job EXCEPT !.cbs = Tail(@), !.marked = FALSE]>> \o Tail(@)]
     IN
     dr' = [dr EXCEPT ![k] =
       IF job.res = "ok" THEN [next EXCEPT !.ready = Append(@, r)]
       ELSE IF job.marked THEN MarkFailed(next, r)
       ELSE [MarkInvalid(dr[k], r) EXCEPT !.jobs[1].marked = TRUE]]
  /\ UNCHANGED <<config, p, pr, d, notifs, expired, faults>>

-----------------------------------------------------------------------------
(* Reads                                                                   *)

(* A read that ends notifies its producer.  It got the KV of the request   *)
(* only if P still held the blocks.                                        *)
ReadEnds(k, r, t) ==
  /\ dr[k].xfer[r][t] = "proc"
  /\ dr' = [dr EXCEPT ![k].xfer[r][t] = "ok",
       ![k].got = IF p.status[r] = "finished" THEN @ \cup {<<r, t>>} ELSE @]
  /\ notifs' = [notifs EXCEPT ![t] = @ \cup {[from |-> k, req |-> r, id |-> "P"]}]
  /\ UNCHANGED <<config, p, pr, d, expired, faults>>

ReadFails(k, r, t) ==
  /\ dr[k].xfer[r][t] = "proc" /\ May("transfer", 1)
  /\ dr' = [dr EXCEPT ![k].xfer[r][t] = "err"]
  /\ faults' = faults + 1
  /\ UNCHANGED <<config, p, pr, d, notifs, expired>>

-----------------------------------------------------------------------------
(* A worker of D: get_finished and get_block_ids_with_load_errors          *)

Has(w, r, states) == \E t \in PRanks : w.xfer[r][t] \in states

(* _pop_done_transfers: requests without a read in progress *)
Popped(w) == {r \in Reqs : Has(w, r, {"ok", "err"}) /\ ~ Has(w, r, {"proc"})}

(* _handle_failed_transfer *)
Broken(w) == {r \in w.meta : Has(w, r, {"err"}) /\ ~ Hma}

(* ... and done_recving.update(self._failed_recv_reqs) *)
TakeDone(k) ==
  /\ dr[k].pc = "load" /\ dr[k].todo = {} /\ dr[k].ready = <<>>
  /\ dr' = [dr EXCEPT ![k].pc = "taken", ![k].done = Popped(dr[k]) \cup dr[k].failed,
       ![k].invalid = @ \cup Broken(dr[k]),
       ![k].xfer = [r \in Reqs |-> [t \in PRanks |-> IF @[r][t] = "proc" THEN "proc" ELSE "none"]]]
  /\ UNCHANGED <<config, p, pr, d, notifs, expired, faults>>

(* Fault: the requests that failed are reported with every batch *)
Cleared_Never(w) == w.failed
(* self._failed_recv_reqs.clear() *)
Cleared(w) == {r \in {} : r \in w.failed}

(* The metadata of every request that is reported is asserted to be there *)
Report(k) ==
  /\ dr[k].pc = "taken"
  /\ d' = [d EXCEPT !.batch.done[k] = dr[k].done, !.batch.invalid = @ \cup dr[k].invalid,
                    !.error = @ \/ ~ dr[k].done \subseteq dr[k].meta]
  /\ dr' = [dr EXCEPT ![k].pc = "idle", ![k].done = {}, ![k].invalid = {},
                      ![k].failed = Cleared(dr[k]),
                      ![k].meta = @ \ dr[k].done, ![k].local = @ \ dr[k].done]
  /\ UNCHANGED <<config, p, pr, notifs, expired, faults>>

-----------------------------------------------------------------------------
Producer(t) == PStart(t) \/ PFinish(t)
Worker(k)   == DStart(k) \/ DLoad(k) \/ DReady(k) \/ TakeDone(k) \/ Report(k)
Handshake(k) == (\E ok \in BOOLEAN : HandshakeEnds(k, ok)) \/ DoneCallback(k) \/ RequestReady(k)

(* Nothing is left to do *)
Rest ==
  /\ \A r \in config.reqs : p.status[r] \in {"finished", "gone"} /\ d.status[r] \in {"new", "running", "gone"}
  /\ UNCHANGED vars

Next ==
  \/ \E r \in Reqs : PAdmit(r) \/ PAbort(r) \/ Expire(r) \/ DArrive(r) \/ DAdmit(r) \/ DAbort(r)
  \/ PSchedule \/ PUpdate \/ DSchedule \/ DUpdate
  \/ \E t \in PRanks : PStart(t) \/ PFinish(t)
  \/ \E k \in DRanks : DStart(k) \/ DLoad(k) \/ DReady(k) \/ TakeDone(k) \/ Report(k)
  \/ \E k \in DRanks : DoneCallback(k) \/ RequestReady(k)
  \/ \E k \in DRanks, ok \in BOOLEAN : HandshakeEnds(k, ok)
  \/ \E k \in DRanks, r \in Reqs, t \in PRanks : ReadEnds(k, r, t) \/ ReadFails(k, r, t)
  \/ Rest

Spec == Init /\ [][Next]_vars

(* Both engines keep stepping (they have other requests to serve), every   *)
(* handshake and every read ends, the proxy passes every request on, P's   *)
(* requests finish, and time passes.                                       *)
FairSpec ==
  /\ Spec
  /\ WF_vars(PSchedule) /\ WF_vars(PUpdate)
  /\ WF_vars(DSchedule) /\ WF_vars(DUpdate)
  /\ WF_vars(\E r \in Reqs : DArrive(r) \/ DAdmit(r))
  /\ WF_vars(\E r \in Reqs : Expire(r))
  /\ WF_vars(\E t \in PRanks : Producer(t))
  /\ WF_vars(\E k \in DRanks : Worker(k)) /\ WF_vars(\E k \in DRanks : Handshake(k))
  /\ WF_vars(\E k \in DRanks, r \in Reqs, t \in PRanks : ReadEnds(k, r, t) \/ ReadFails(k, r, t))

-----------------------------------------------------------------------------
Statuses == {"new", "waiting", "remote", "running", "finished", "gone"}

TypeOK ==
  /\ config \in Configs
  /\ p.status \in [Reqs -> Statuses] /\ d.status \in [Reqs -> Statuses]
  /\ p.missing \in [Reqs -> 1..NP] /\ d.missing \in [Reqs -> 1..ND]
  /\ Len(p.batches) <= MaxBatches /\ faults <= MaxFaults
  /\ \A t \in PRanks :
       /\ pr[t].count \in [Reqs -> 0..(Consumers - 1)]
       (* every request that may expire is also being processed *)
       /\ pr[t].send \subseteq pr[t].process
  /\ \A k \in DRanks :
       /\ dr[k].pc \in {"idle", "load", "taken"}
       /\ dr[k].local \subseteq dr[k].meta
       /\ dr[k].xfer \in [Reqs -> [PRanks -> {"none", "proc", "ok", "err"}]]

(* P keeps the blocks of a request while any worker of D reads them, until *)
(* the request expires: it counts one notification per consumer, and one   *)
(* may arrive before the request is in reqs_to_send (_get_new_notifs,      *)
(* start_load_kv).                                                         *)
ReadsHeldBlocks ==
  \A k \in DRanks, r \in Reqs \ expired, t \in PRanks :
    dr[k].xfer[r][t] = "proc" => p.status[r] = "finished"

(* Several reads per request and one that cannot be set up: the request is *)
(* reported at once, and the next property fails.                          *)
OneOfSeveralFails == NP > ND /\ "setup" \in Faults

(* D keeps the local blocks of a request while a read writes to them:      *)
(* "Only report request as completed when all transfers are done."         *)
ReadsIntoHeldBlocks ==
  ~ OneOfSeveralFails =>
    \A k \in DRanks, r \in Reqs, t \in PRanks :
      dr[k].xfer[r][t] = "proc" => d.status[r] \in {"remote", "finished"}

(* Blocks stay with their request while they are read, on both engines.    *)
ReadsKeepTheirBlocks == ReadsHeldBlocks /\ ReadsIntoHeldBlocks

(* A request that D runs with loaded KV has all of it, on every worker,    *)
(* unless it had expired: no failure is lost between the worker's sets and *)
(* the scheduler.  With several KV cache groups failures are not reported. *)
LoadedKVIsComplete ==
  ~ Hma => \A r \in d.used \ expired, k \in DRanks :
             \A t \in Reads(k) : <<r, t>> \in dr[k].got

(* No assertion and no look-up fails: a request is reported sent only      *)
(* while P holds it, received only while D waits for it, with its metadata *)
(* (get_finished, _update_from_kv_xfer_finished, _read_blocks).            *)
NoAssertFails == ~ p.error /\ ~ d.error

(* The reports of the workers fit the state of the schedulers.             *)
ReportsAreSound == TypeOK /\ NoAssertFails

(* P gives the blocks of every request back: after the timeout or, when    *)
(* nothing fails, because of the notifications alone (get_finished).  A    *)
(* request finishes once, so it suffices that none is kept again and again.*)
BlocksReleased ==
  []<>(Expires \/ (Faults = {} /\ Aborts = {}) => \A r \in Reqs : p.status[r] # "finished")

(* Every load is reported, also one that fails: "Even if failures occur,   *)
(* the request must still be reported via get_finished()".  A handshake    *)
(* that fails at the wrong moment is forgotten (_failed_recv_reqs).        *)
LoadsReported ==
  []<>("handshake" \notin Faults => \A r \in Reqs : d.status[r] # "remote")

(* Every transfer comes to an end on both engines (get_finished).          *)
TransfersEnd == BlocksReleased /\ LoadsReported
=============================================================================
