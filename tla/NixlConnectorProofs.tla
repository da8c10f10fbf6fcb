------------------------ MODULE NixlConnectorProofs ------------------------
(***************************************************************************)
(* Proofs about the NIXL connector, for any numbers of prefill and decode  *)
(* workers one of which divides the other, and for every configuration: the *)
(* blocks of a request are kept at both ends as long as a worker reads them *)
(* (BlocksKeptForReads), what the workers of both engines report fits the  *)
(* state of their schedulers (ReportsSound), and a request that runs with  *)
(* loaded KV has all of it (LoadsComplete). The latter two have hypotheses: *)
(* without those of ReportsSound TLC finds counterexamples; the one of     *)
(* LoadsComplete is what its proof needs.                                  *)
(***************************************************************************)
EXTENDS NixlConnector, FiniteSetTheorems, TLAPS

-----------------------------------------------------------------------------
(* Which worker of the decode engine (D) reads from which of the prefill    *)
(* engine (P): at most Consumers workers read from one                      *)

Readers(t) == {k \in DRanks : t \in Reads(k)}

LEMMA DivFacts ==
  ASSUME NEW a \in Nat, NEW b \in Nat \ {0}
  PROVE  /\ a \div b \in Nat
         /\ (a \div b) * b <= a /\ a < (a \div b) * b + b
         /\ a < (a \div b + 1) * b
  OBVIOUS

LEMMA DivUnique ==
  ASSUME NEW a \in Nat, NEW b \in Nat \ {0}, NEW n \in Nat
  PROVE  a \div b = n <=> n * b <= a /\ a < (n + 1) * b
  OBVIOUS

LEMMA ConfigSpec ==
  ASSUME config \in Configs
  PROVE  /\ NP \in Nat \ {0} /\ ND \in Nat \ {0}
         /\ NP % ND = 0 \/ ND % NP = 0
         /\ Mla \in BOOLEAN /\ Hma \in BOOLEAN /\ Known \in BOOLEAN /\ Recompute \in BOOLEAN
         /\ Expires \in BOOLEAN /\ Hits \subseteq Reqs /\ Aborts \subseteq Reqs /\ config.reqs \subseteq Reqs
         /\ MaxBatches \in Nat \ {0} /\ MaxFaults \in Nat
BY NixlAssumption DEF NP, ND, Mla, Hma, Known, Recompute, Expires, Hits, Aborts, MaxBatches,
   MaxFaults

LEMMA MultOrder ==
  ASSUME NEW q \in Nat, NEW a \in Nat, NEW b \in Nat, a <= b
  PROVE  a * q <= b * q
  OBVIOUS

LEMMA RanksFinite ==
  ASSUME config \in Configs
  PROVE  IsFiniteSet(PRanks) /\ IsFiniteSet(DRanks)
<1>1. NP - 1 \in Int /\ ND - 1 \in Int
  BY ConfigSpec
<1> QED BY <1>1, FS_Interval DEF PRanks, DRanks

\* The reads of k are among its targets, and every target is a worker of P.
LEMMA ReadsSpec ==
  ASSUME config \in Configs, NEW k \in DRanks
  PROVE  /\ Reads(k) \subseteq Targets(k) /\ Targets(k) \subseteq PRanks
         /\ Reads(k) # {} /\ IsFiniteSet(Reads(k))
         /\ ~ (NP > ND) => \E t : Reads(k) = {t}
<1>1. NP \in Nat \ {0} /\ ND \in Nat \ {0} /\ (NP % ND = 0 \/ ND % NP = 0)
  BY ConfigSpec
<1>2. k \in Nat /\ k < ND /\ IsFiniteSet(PRanks)
  BY <1>1, FS_Interval DEF DRanks, PRanks
<1>3. CASE NP > ND
  <2> DEFINE q == NP \div ND
  <2>1. q \in Nat /\ q * ND <= NP /\ q > 0
    BY <1>1, <1>3, DivFacts
  <2>2. Targets(k) = {k * q + i : i \in 0..(q - 1)}
    BY <1>3 DEF Targets
  <2> HIDE DEF q
  <2>3. k * q \in Nat /\ k * q + q <= NP
    <3>1. (k + 1) * q <= ND * q
      BY <1>1, <1>2, <2>1, MultOrder
    <3> QED BY <1>1, <1>2, <2>1, <3>1
  <2>4. Targets(k) \subseteq PRanks
    BY <1>1, <2>1, <2>2, <2>3 DEF PRanks
  <2>5. k * q \in Targets(k)
    BY <2>1, <2>2, <2>3
  <2>6. \A t \in Targets(k) : k * q <= t /\ t \in Nat
    BY <2>1, <2>2, <2>3
  <2>7. Min(Targets(k)) \in Targets(k)
    BY <2>5, <2>6 DEF Min
  <2>8. Reads(k) \subseteq Targets(k) /\ Reads(k) # {}
    BY <1>3, <2>5, <2>7 DEF Reads
  <2> QED BY <1>2, <1>3, <2>4, <2>8, FS_Subset
<1>4. CASE ~ (NP > ND)
  <2> DEFINE q == ND \div NP
  <2>1. q \in Nat \ {0} /\ ND < q * NP + NP /\ q * NP <= ND
    BY <1>1, <1>4, DivFacts
  <2>2. Targets(k) = {k \div q}
    BY <1>4 DEF Targets
  <2>3. Reads(k) = Targets(k)
    BY <1>1, <1>4 DEF Reads
  <2>4. ND = q * NP
    <3>1. CASE ND % NP = 0
      BY <1>1, <3>1
    <3>2. CASE NP % ND = 0
      BY <1>1, <1>4, <3>2
    <3> QED BY <1>1, <3>1, <3>2
  <2> HIDE DEF q
  <2>5. k \div q \in PRanks
    <3>1. k \div q \in Nat /\ (k \div q) * q <= k
      BY <1>2, <2>1, DivFacts
    <3>2. CASE k \div q >= NP
      <4>1. NP * q <= (k \div q) * q
        BY <1>1, <2>1, <3>1, <3>2, MultOrder
      <4> QED BY <1>1, <1>2, <2>1, <2>4, <3>1, <4>1
    <3> QED BY <1>1, <3>1, <3>2 DEF PRanks
  <2> QED BY <1>2, <1>4, <2>2, <2>3, <2>5, FS_Subset
<1> QED BY <1>3, <1>4

\* A worker of P is read by as many workers of D as it counts.
LEMMA ReadersBound ==
  ASSUME config \in Configs, NEW t \in PRanks
  PROVE  /\ IsFiniteSet(Readers(t)) /\ Cardinality(Readers(t)) <= Consumers
         /\ Cardinality(Readers(t)) \in Nat /\ Consumers \in Nat \ {0}
<1>1. NP \in Nat \ {0} /\ ND \in Nat \ {0} /\ (NP % ND = 0 \/ ND % NP = 0)
  BY ConfigSpec
<1>2. IsFiniteSet(DRanks) /\ t \in Nat
  BY <1>1, FS_Interval DEF DRanks, PRanks
<1>3. IsFiniteSet(Readers(t)) /\ Cardinality(Readers(t)) \in Nat
  BY <1>2, FS_Subset, FS_CardinalityType DEF Readers
<1>4. \A k \in Readers(t) : k \in DRanks /\ t \in Targets(k)
  BY ReadsSpec DEF Readers
<1>5. CASE NP > ND
  <2> DEFINE q == NP \div ND
  <2>1. q \in Nat /\ q > 0
    BY <1>1, <1>5, DivFacts
  <2>2. \A k \in DRanks : Targets(k) = {k * q + i : i \in 0..(q - 1)}
    BY <1>5 DEF Targets
  <2> HIDE DEF q
  <2>3. ASSUME NEW k \in Readers(t), NEW l \in Readers(t), k < l PROVE FALSE
    <3>1. k \in Nat /\ l \in Nat /\ k + 1 <= l
      BY <1>1, <1>4, <2>3 DEF DRanks
    <3>2. (k + 1) * q <= l * q
      BY <2>1, <3>1, MultOrder
    <3>3. t < (k + 1) * q
      BY <1>4, <2>1, <2>2, <3>1
    <3>4. t >= l * q
      BY <1>4, <2>1, <2>2, <3>1
    <3> QED BY <1>2, <2>1, <3>1, <3>2, <3>3, <3>4
  <2>4. \A k, l \in Readers(t) : k = l
    BY <1>1, <1>4, <2>3 DEF DRanks
  <2>5. Cardinality(Readers(t)) <= 1
    <3>1. CASE Readers(t) = {}
      BY <3>1, FS_EmptySet
    <3>2. CASE Readers(t) # {}
      <4>1. PICK k : Readers(t) = {k}
        BY <2>4, <3>2
      <4> QED BY <4>1, FS_Singleton
    <3> QED BY <3>1, <3>2
  <2> QED BY <1>1, <1>3, <1>5, <2>5 DEF Consumers
<1>6. CASE ~ (NP > ND)
  <2> DEFINE q == ND \div NP
  <2>1. q \in Nat \ {0}
    BY <1>1, <1>6, DivFacts
  <2>2. \A k \in DRanks : Targets(k) = {k \div q}
    BY <1>6 DEF Targets
  <2>3. Consumers = q
    BY <1>1, <1>6 DEF Consumers
  <2> HIDE DEF q
  <2> DEFINE a == t * q
  <2>4. a \in Nat /\ (t + 1) * q = a + q
    BY <1>2, <2>1
  <2>5. \A k \in Readers(t) : k \in Nat /\ a <= k /\ k < a + q
    <3>1. SUFFICES ASSUME NEW k \in Readers(t) PROVE k \in Nat /\ a <= k /\ k < a + q
      OBVIOUS
    <3>2. k \in Nat /\ k \div q = t
      BY <1>1, <1>4, <2>2 DEF DRanks
    <3>3. t * q <= k /\ k < (t + 1) * q
      BY <1>2, <2>1, <3>2, DivUnique
    <3> QED BY <2>4, <3>2, <3>3
  <2> HIDE DEF a
  <2> DEFINE I == a..(a + q - 1)
  <2>6. IsFiniteSet(I) /\ Cardinality(I) = q
    BY <2>1, <2>4, FS_Interval
  <2> HIDE DEF I
  <2>7. Readers(t) \subseteq I
    BY <2>1, <2>4, <2>5 DEF I
  <2>8. Cardinality(Readers(t)) <= Cardinality(I)
    BY <2>6, <2>7, FS_Subset
  <2> QED BY <1>3, <2>1, <2>3, <2>6, <2>8
<1> QED BY <1>5, <1>6
-----------------------------------------------------------------------------
(* Types of the variables, with every field *)

Metas    == [in : SUBSET Reqs, not : SUBSET Reqs, send : SUBSET Reqs]
PBatches == [meta : Metas, stage : [PRanks -> {"queued", "started", "done"}],
             sent : [PRanks -> SUBSET Reqs]]
PStates  == [status : [Reqs -> Statuses], told : SUBSET Reqs, pend : Metas,
             batches : Seq(PBatches), missing : [Reqs -> Nat], error : BOOLEAN]
ProducerStates == [process : SUBSET Reqs, send : SUBSET Reqs, count : [Reqs -> Nat]]
Loads    == [req : Reqs, local : BOOLEAN]
DBatches == [recv : SUBSET Loads, left : SUBSET DRanks, done : [DRanks -> SUBSET Reqs],
             invalid : SUBSET Reqs]
DStates  == [status : [Reqs -> Statuses], need : SUBSET Loads, batch : DBatches,
             bad : SUBSET Reqs, used : SUBSET Reqs, missing : [Reqs -> Nat], error : BOOLEAN]
JobStates     == [res : {"running", "ok", "failed"}, first : BOOLEAN, cbs : Seq(Reqs),
             marked : BOOLEAN]
WorkerStates == [pc : {"idle", "load", "taken"}, todo : SUBSET Loads, meta : SUBSET Reqs,
             local : SUBSET Reqs, agents : BOOLEAN, jobs : Seq(JobStates), ready : Seq(Reqs),
             xfer : [Reqs -> [PRanks -> {"none", "proc", "ok", "err"}]],
             got : SUBSET (Reqs \X PRanks), failed : SUBSET Reqs, invalid : SUBSET Reqs,
             done : SUBSET Reqs]
Notes    == [from : DRanks, req : Reqs, id : {"P", "D"}]

Shape ==
  /\ config \in Configs
  /\ p \in PStates /\ pr \in [PRanks -> ProducerStates]
  /\ d \in DStates /\ dr \in [DRanks -> WorkerStates]
  /\ notifs \in [PRanks -> SUBSET Notes] /\ \A t \in PRanks : IsFiniteSet(notifs[t])
  /\ expired \subseteq Reqs /\ faults \in Nat /\ faults <= MaxFaults

-----------------------------------------------------------------------------
(* The prefill engine: a request that its scheduler has announced (told) is  *)
(* held until every worker has reported it, and missing counts those who     *)
(* have not                                                                  *)

\* A batch that worker t has not started carries r.
Queued(t, r)  == \E i \in DOMAIN p.batches : r \in p.batches[i].meta.in /\ p.batches[i].stage[t] = "queued"
Reported(t, r) == \E i \in DOMAIN p.batches : r \in p.batches[i].sent[t]
InSome(r)     == r \in p.pend.in \/ \E i \in DOMAIN p.batches : r \in p.batches[i].meta.in
NotSome(r)    == r \in p.pend.not \/ \E i \in DOMAIN p.batches : r \in p.batches[i].meta.not
SendSome(r)    == r \in p.pend.send \/ \E i \in DOMAIN p.batches : r \in p.batches[i].meta.send
\* The workers whose report of r the scheduler has still to count.
PAwait(r)     == {t \in PRanks : r \in pr[t].process \/ Reported(t, r)}
\* Notifications for r on their way to worker t.
About(t, r)   == {m \in notifs[t] : m.req = r /\ m.id = "P"}

UntoldInv(r) ==
  r \notin p.told =>
    /\ p.status[r] # "finished" /\ p.missing[r] = NP
    /\ ~ SendSome(r) /\ d.status[r] = "new"
    /\ \A t \in PRanks : /\ ~ Reported(t, r) /\ r \notin pr[t].send
                         /\ pr[t].count[r] = 0 /\ About(t, r) = {}
ToldInv(r) ==
  r \in p.told =>
    /\ ~ InSome(r) /\ ~ NotSome(r)
    /\ PAwait(r) # {} => p.status[r] = "finished" /\ p.missing[r] = Cardinality(PAwait(r))
    /\ PAwait(r) = {} => p.status[r] = "gone" /\ p.missing[r] = NP
RunningInv(r) ==
  /\ p.status[r] = "running" =>
       \A t \in PRanks : r \in pr[t].process \/ r \in p.pend.in \/ Queued(t, r)
  /\ p.status[r] \in {"new", "running"} => ~ NotSome(r)
OnceInv(t, r) ==
  /\ r \in pr[t].process => ~ Reported(t, r)
  /\ \A i, j \in DOMAIN p.batches :
       r \in p.batches[i].sent[t] /\ r \in p.batches[j].sent[t] => i = j
StageInv == \A i \in DOMAIN p.batches, t \in PRanks :
              p.batches[i].stage[t] # "done" => p.batches[i].sent[t] = {}
PInv ==
  /\ \A r \in Reqs : UntoldInv(r) /\ ToldInv(r) /\ RunningInv(r)
  /\ \A r \in Reqs, t \in PRanks : OnceInv(t, r)
  /\ StageInv
  /\ \A t \in PRanks : pr[t].send \subseteq pr[t].process
  /\ \A t \in PRanks, r \in Reqs : pr[t].count[r] < Consumers
  /\ expired \subseteq p.told /\ ~ p.error
  /\ Len(p.batches) <= MaxBatches /\ \A r \in Reqs : p.missing[r] \in 1..NP

-----------------------------------------------------------------------------
(* The flow of notifications: at each worker of D a request is at one place  *)
(* at a time (PlaceInv), and as long as it is at one, or its read runs, the   *)
(* worker owes the producers it reads from a notification. Debts,            *)
(* notifications under way and notifications counted never exceed the number *)
(* that a worker of P waits for (FlowInv).                                   *)

\* The places in the order in which a request passes through them.
Asked(S, r) == \E m \in S : m.req = r
Fresh(r)    == d.status[r] \in {"new", "waiting"}
Sent(k, r)  == k \in d.batch.left /\ Asked(d.batch.recv, r)
Joins(w, r) == \E i \in DOMAIN w.jobs : r \in Range(w.jobs[i].cbs)
Ready(w, r) == r \in Range(w.ready)
Moves(w, r) == \E t \in PRanks : w.xfer[r][t] # "none"
Failing(w, r) == r \in w.failed \/ r \in w.done
Reading(w, r) == \E t \in PRanks : w.xfer[r][t] = "proc"

\* Worker k has still to set up its read of r, or to notify without one.
Owes(k, r)  == Fresh(r) \/ Asked(d.need, r) \/ Sent(k, r) \/ Asked(dr[k].todo, r)
               \/ Joins(dr[k], r) \/ Ready(dr[k], r)
Owed(k, r, t) == Owes(k, r) \/ dr[k].xfer[r][t] = "proc"
Owing(t, r) == {k \in Readers(t) : Owed(k, r, t)}

Distinct(S) == \A m, n \in S : m.req = n.req => m = n
PlaceInv(k, r) ==
  /\ Fresh(r) => ~ (Asked(d.need, r) \/ Sent(k, r) \/ Asked(dr[k].todo, r)
                    \/ Joins(dr[k], r) \/ Ready(dr[k], r) \/ Moves(dr[k], r)
                    \/ Failing(dr[k], r) \/ r \in d.batch.done[k])
  /\ Asked(d.need, r) => ~ (Sent(k, r) \/ Asked(dr[k].todo, r)
                    \/ Joins(dr[k], r) \/ Ready(dr[k], r) \/ Reading(dr[k], r))
  /\ Sent(k, r) => ~ (Asked(dr[k].todo, r) \/ Joins(dr[k], r) \/ Ready(dr[k], r) \/ Reading(dr[k], r))
  /\ Asked(dr[k].todo, r) => ~ (Joins(dr[k], r) \/ Ready(dr[k], r) \/ Reading(dr[k], r))
  /\ Joins(dr[k], r) => ~ (Ready(dr[k], r) \/ Reading(dr[k], r))
  /\ Ready(dr[k], r) => ~ Reading(dr[k], r)
JobsInv(w) ==
  /\ \A i \in DOMAIN w.jobs : w.jobs[i].cbs # <<>> /\ IsInjective(w.jobs[i].cbs)
  /\ \A i, j \in DOMAIN w.jobs : i # j => Range(w.jobs[i].cbs) \cap Range(w.jobs[j].cbs) = {}
  /\ \A i \in DOMAIN w.jobs : i > 1 => ~ w.jobs[i].marked
ThreadInv(w) ==
  /\ IsInjective(w.ready) /\ JobsInv(w)
  /\ w.pc # "load" => w.todo = {}
  /\ Distinct(w.todo)
FlowInv(t, r) ==
  r \in p.told \ expired =>
    /\ Owing(t, r) # {} => r \in pr[t].process
    /\ r \in pr[t].process =>
         Cardinality(Owing(t, r)) + Cardinality(About(t, r)) + pr[t].count[r] <= Consumers
ChannelInv ==
  /\ Distinct(d.need) /\ Distinct(d.batch.recv)
  /\ \A k \in DRanks : ThreadInv(dr[k])
  /\ \A k \in DRanks, r \in Reqs : PlaceInv(k, r)
  /\ \A k \in DRanks, r \in Reqs, t \in PRanks : dr[k].xfer[r][t] # "none" => t \in Reads(k)
  /\ \A t \in PRanks, r \in Reqs : FlowInv(t, r)

-----------------------------------------------------------------------------
(* The decode engine: a request that is being loaded (Loading) is counted as *)
(* missing by those workers that have it or are to get it (DAwait)           *)

Load(r)  == [req |-> r, local |-> TRUE]
Note(r)  == [req |-> r, local |-> FALSE]
Loading(r) == d.status[r] \in {"remote", "finished"}
Here(k, x) == x \in d.need \/ (k \in d.batch.left /\ x \in d.batch.recv) \/ x \in dr[k].todo
DAwait(r) == {k \in DRanks : Here(k, Load(r)) \/ r \in dr[k].local \/ r \in d.batch.done[k]}

LocalInv(k, r) ==
  LET w == dr[k] IN
  /\ Moves(w, r) => r \in w.local
  /\ r \in w.local => ~ Here(k, Load(r)) /\ r \notin d.batch.done[k]
  /\ r \in d.batch.done[k] => ~ Here(k, Load(r))
  /\ r \in w.local =>
       /\ Joins(w, r) => ~ (Ready(w, r) \/ Moves(w, r) \/ Failing(w, r))
       /\ Ready(w, r) => ~ (Moves(w, r) \/ Failing(w, r))
       /\ Moves(w, r) => ~ Failing(w, r)
  /\ Loading(r) => /\ ~ Here(k, Note(r))
                   /\ Joins(w, r) \/ Ready(w, r) \/ Failing(w, r) => r \in w.local
  /\ ~ Loading(r) => ~ Here(k, Load(r)) /\ r \notin w.local
StepsInv(k) ==
  LET w == dr[k] IN
  /\ w.local \subseteq w.meta
  /\ w.pc # "taken" => w.done = {}
  /\ k \in d.batch.left \/ w.pc # "idle" => d.batch.done[k] = {}
  /\ k \in d.batch.left => w.pc = "idle"
CountInv(r) ==
  /\ Loading(r) => DAwait(r) # {} /\ d.missing[r] = Cardinality(DAwait(r))
  /\ Fresh(r) => d.missing[r] = ND
DecodeInv ==
  /\ \A k \in DRanks : StepsInv(k)
  /\ ~ OneOfSeveralFails => \A r \in Reqs : CountInv(r) /\ \A k \in DRanks : LocalInv(k, r)

-----------------------------------------------------------------------------
(* Reports: whatever a worker has of a request it has because the scheduler  *)
(* waits for it. With handshakes still to be made this needs that no request *)
(* only notifies (Observation 20).                                           *)

Joinable == Known \/ Hits = {}
Busy(k, r) == Joins(dr[k], r) \/ Ready(dr[k], r) \/ Failing(dr[k], r) \/ r \in d.batch.done[k]
CalmInv(k) ==
  /\ \A r \in Reqs : Busy(k, r) => Loading(r)
  /\ Known => dr[k].agents /\ dr[k].jobs = <<>> /\ dr[k].ready = <<>>
  /\ Hits = {} => \A r \in Reqs : ~ Here(k, Note(r))
SoundInv ==
  ~ OneOfSeveralFails /\ Joinable =>
    /\ ~ d.error
    /\ \A r \in Reqs : ~ Loading(r) => d.missing[r] = ND
    /\ \A k \in DRanks : CalmInv(k)

-----------------------------------------------------------------------------
(* KV: what a worker of D has not got it has noted as invalid, and the note  *)
(* is in its own set, in the report of the batch or with the scheduler       *)

Complete(k, r) == \A t \in Reads(k) : <<r, t>> \in dr[k].got
\* The first callback of the first handshake has marked the blocks of r.
Marked(w, r) == w.jobs # <<>> /\ w.jobs[1].marked /\ r = w.jobs[1].cbs[1]
Noted(k, r) == r \in dr[k].invalid \/ r \in d.batch.invalid \/ r \in d.bad
GotInv(k, r) ==
  LET w == dr[k] IN
  /\ k \notin DAwait(r) \/ r \in d.batch.done[k] \/ r \in w.done => Complete(k, r) \/ Noted(k, r)
  /\ r \in w.failed => Noted(k, r)
  /\ Marked(w, r) => Noted(k, r)
  /\ Moves(w, r) => \A t \in Reads(k) : w.xfer[r][t] \in {"proc", "err"} \/ <<r, t>> \in w.got \/ Noted(k, r)
KVInv ==
  ~ Hma /\ ~ OneOfSeveralFails =>
    /\ \A r \in d.used \ expired, k \in DRanks : Complete(k, r)
    /\ \A k \in DRanks, r \in Reqs \ expired : d.status[r] = "remote" => GotInv(k, r)
    /\ \A k \in DRanks : dr[k].invalid \subseteq dr[k].local

-----------------------------------------------------------------------------
(* Shapes are kept *)

LEMMA Frozen ==
  ASSUME config' = config
  PROVE  /\ PRanks' = PRanks /\ DRanks' = DRanks /\ NP' = NP /\ ND' = ND
         /\ Consumers' = Consumers /\ Hma' = Hma /\ Known' = Known /\ Hits' = Hits
         /\ Recompute' = Recompute /\ MaxBatches' = MaxBatches /\ MaxFaults' = MaxFaults
         /\ Faults' = Faults /\ Mla' = Mla
         /\ OneOfSeveralFails' = OneOfSeveralFails /\ Joinable' = Joinable
         /\ \A k : Reads(k)' = Reads(k)
         /\ PBatches' = PBatches /\ PStates' = PStates /\ DBatches' = DBatches
         /\ DStates' = DStates /\ WorkerStates' = WorkerStates /\ Notes' = Notes
BY DEF PRanks, DRanks, NP, ND, Consumers, Hma, Known, Hits, Recompute, MaxBatches, MaxFaults,
   Faults,
   Mla, OneOfSeveralFails, Joinable, Reads, Targets, PBatches, PStates, DBatches, DStates, WorkerStates, Notes

LEMMA PAdmitSpec ==
  ASSUME Shape, NEW r \in Reqs, PAdmit(r)
  PROVE  /\ Shape'
         /\ UNCHANGED <<config, pr, d, dr, notifs, expired, faults>>
         /\ p.status[r] = "new"
         /\ p'.status = [p.status EXCEPT ![r] = "running"]
         /\ p'.pend.in = p.pend.in \cup {r} /\ p'.pend.not = p.pend.not /\ p'.pend.send = p.pend.send
         /\ p'.told = p.told /\ p'.batches = p.batches /\ p'.missing = p.missing /\ p'.error = p.error
<1>1. p \in PStates /\ p' = [p EXCEPT !.status[r] = "running", !.pend.in = @ \cup {r}]
  BY DEF Shape, PAdmit
<1>2. /\ p'.pend \in Metas /\ p'.pend.in = p.pend.in \cup {r}
      /\ p'.pend.not = p.pend.not /\ p'.pend.send = p.pend.send
  BY <1>1 DEF PStates, Metas
<1>3. /\ p'.status \in [Reqs -> Statuses] /\ p'.status = [p.status EXCEPT ![r] = "running"]
      /\ p'.told = p.told /\ p'.batches = p.batches /\ p'.missing = p.missing /\ p'.error = p.error
  BY <1>1 DEF PStates, Statuses
<1>4. p' \in PStates
  BY <1>1, <1>2, <1>3 DEF PStates
<1>5. UNCHANGED <<config, pr, d, dr, notifs, expired, faults>> /\ p.status[r] = "new"
  BY DEF PAdmit
<1>6. Shape'
  BY <1>4, <1>5, Frozen DEF Shape, ProducerStates
<1> QED BY <1>2, <1>3, <1>5, <1>6

LEMMA PScheduleSpec ==
  ASSUME Shape, PSchedule
  PROVE  /\ Shape'
         /\ UNCHANGED <<config, pr, d, dr, notifs, expired, faults>>
         /\ Len(p.batches) < MaxBatches
         /\ p'.status = p.status /\ p'.told = p.told /\ p'.missing = p.missing /\ p'.error = p.error
         /\ p'.pend.in = {} /\ p'.pend.not = {} /\ p'.pend.send = {}
         /\ \E b \in PBatches :
              /\ p'.batches = Append(p.batches, b)
              /\ b.meta = p.pend
              /\ \A t \in PRanks : b.stage[t] = "queued" /\ b.sent[t] = {}
<1> DEFINE b == [meta |-> p.pend, stage |-> [t \in PRanks |-> "queued"], sent |-> [t \in PRanks |-> {}]]
<1>1. p \in PStates /\ p' = [p EXCEPT !.pend = NoMeta, !.batches = Append(@, b)]
  BY DEF Shape, PSchedule
<1>2. NoMeta \in Metas /\ NoMeta.in = {} /\ NoMeta.not = {} /\ NoMeta.send = {}
  BY DEF NoMeta, Metas
<1>3. b \in PBatches
  BY <1>1 DEF PStates, PBatches
<1>4. b.meta = p.pend /\ \A t \in PRanks : b.stage[t] = "queued" /\ b.sent[t] = {}
  OBVIOUS
<1> HIDE DEF b
<1>5. /\ p'.pend = NoMeta /\ p'.batches = Append(p.batches, b)
      /\ p'.status = p.status /\ p'.told = p.told /\ p'.missing = p.missing /\ p'.error = p.error
  BY <1>1 DEF PStates
<1>6. p.batches \in Seq(PBatches)
  BY <1>1 DEF PStates
<1>7. Append(p.batches, b) \in Seq(PBatches)
  BY <1>3, <1>6
<1>8. p' \in PStates
  BY <1>1, <1>2, <1>5, <1>7 DEF PStates
<1>9. UNCHANGED <<config, pr, d, dr, notifs, expired, faults>> /\ Len(p.batches) < MaxBatches
  BY DEF PSchedule
<1>10. Shape'
  BY <1>8, <1>9, Frozen DEF Shape, ProducerStates
<1> QED BY <1>2, <1>3, <1>4, <1>5, <1>9, <1>10

PStarts(t, i, m) ==
  /\ p.batches[i].stage[t] = "queued"
  /\ DOMAIN p'.batches = DOMAIN p.batches
  /\ \A j \in DOMAIN p.batches :
       /\ p'.batches[j].meta = p.batches[j].meta
       /\ p'.batches[j].sent = p.batches[j].sent
       /\ j # i => p'.batches[j] = p.batches[j]
  /\ p'.batches[i].stage = [p.batches[i].stage EXCEPT ![t] = "started"]
  /\ p'.error = (p.error \/ m.not \cap pr[t].send # {})
  /\ pr'[t].process = (pr[t].process \cup m.in) \ m.not
  /\ pr'[t].send = pr[t].send \cup (m.send \cap pr'[t].process)
  /\ pr'[t].count = pr[t].count
  /\ \A u \in PRanks \ {t} : pr'[u] = pr[u]

LEMMA PStartSpec ==
  ASSUME Shape, NEW t \in PRanks, PStart(t)
  PROVE  /\ Shape'
         /\ UNCHANGED <<config, d, dr, notifs, expired, faults>>
         /\ p'.status = p.status /\ p'.told = p.told /\ p'.missing = p.missing /\ p'.pend = p.pend
         /\ \E i \in DOMAIN p.batches : PStarts(t, i, p.batches[i].meta)
<1> PICK i \in PBatch(t) :
      LET b == p.batches[i]
          w == [pr[t] EXCEPT !.process = (@ \cup b.meta.in) \ b.meta.not]
      IN
      /\ b.stage[t] = "queued"
      /\ pr' = [pr EXCEPT ![t] = [w EXCEPT !.send = @ \cup PSend(w, b.meta.send)]]
      /\ p' = [p EXCEPT !.batches[i].stage[t] = "started",
                        !.error = @ \/ b.meta.not \cap pr[t].send # {}]
      /\ UNCHANGED <<config, d, dr, notifs, expired, faults>>
  BY DEF PStart
<1> DEFINE b == p.batches[i]
           m == b.meta
           w == [pr[t] EXCEPT !.process = (@ \cup m.in) \ m.not]
           b2 == [b EXCEPT !.stage[t] = "started"]
<1>1. p \in PStates /\ p.batches \in Seq(PBatches) /\ i \in DOMAIN p.batches
  BY DEF Shape, PStates, PBatch
<1>2. b \in PBatches /\ m \in Metas
  <2>1. b \in PBatches
    BY <1>1
  <2> QED BY <2>1 DEF PBatches
<1>3. /\ b2 \in PBatches /\ b2.meta = b.meta /\ b2.sent = b.sent
      /\ b2.stage = [b.stage EXCEPT ![t] = "started"]
  BY <1>2 DEF PBatches
<1>4. pr[t] \in ProducerStates
  BY DEF Shape
<1>5. w \in ProducerStates /\ w.process = (pr[t].process \cup m.in) \ m.not /\ w.send = pr[t].send
      /\ w.count = pr[t].count
  BY <1>2, <1>4 DEF ProducerStates, Metas
<1> DEFINE w2 == [w EXCEPT !.send = @ \cup PSend(w, m.send)]
<1>6. w2 \in ProducerStates /\ w2.process = w.process /\ w2.send = w.send \cup (m.send \cap w.process)
      /\ w2.count = w.count
  BY <1>2, <1>5 DEF ProducerStates, Metas, PSend
<1>7. pr' = [pr EXCEPT ![t] = w2]
  OBVIOUS
<1>8. p' = [p EXCEPT !.batches = [@ EXCEPT ![i] = b2], !.error = @ \/ m.not \cap pr[t].send # {}]
  BY <1>1 DEF PStates
<1>9. b.stage[t] = "queued"
  OBVIOUS
<1> HIDE DEF b2, w2, w, b
<1>10. /\ p'.status = p.status /\ p'.told = p.told /\ p'.missing = p.missing /\ p'.pend = p.pend
       /\ p'.batches = [p.batches EXCEPT ![i] = b2]
       /\ p'.error = (p.error \/ m.not \cap pr[t].send # {})
  BY <1>1, <1>8 DEF PStates
<1>11. [p.batches EXCEPT ![i] = b2] \in Seq(PBatches)
  BY <1>1, <1>3
<1>12. p' \in PStates
  BY <1>1, <1>8, <1>10, <1>11 DEF PStates
<1>13. pr' \in [PRanks -> ProducerStates]
  BY <1>6, <1>7 DEF Shape
<1>14. Shape'
  BY <1>12, <1>13, Frozen DEF Shape, ProducerStates
<1>15. /\ DOMAIN p'.batches = DOMAIN p.batches /\ p'.batches[i] = b2
       /\ \A j \in DOMAIN p.batches : j # i => p'.batches[j] = p.batches[j]
  BY <1>1, <1>10
<1>16. pr'[t] = w2 /\ \A u \in PRanks \ {t} : pr'[u] = pr[u]
  BY <1>7 DEF Shape
<1>17. \A j \in DOMAIN p.batches : /\ p'.batches[j].meta = p.batches[j].meta
                                   /\ p'.batches[j].sent = p.batches[j].sent
  BY <1>3, <1>15 DEF b
<1>18. p'.batches[i].stage = [p.batches[i].stage EXCEPT ![t] = "started"]
  BY <1>3, <1>15 DEF b
<1>19. UNCHANGED <<config, d, dr, notifs, expired, faults>>
  OBVIOUS
<1> HIDE DEF m
<1>20. PStarts(t, i, m)
  BY <1>5, <1>6, <1>9, <1>10, <1>15, <1>16, <1>17, <1>18 DEF PStarts, b
<1> QED BY <1>1, <1>10, <1>14, <1>19, <1>20 DEF b, m

\* The number of notifications a worker of P has been sent, seen or not.
Notified(t, r) == pr[t].count[r] + Cardinality(About(t, r))

PFinishes(t, i, out) ==
  /\ p.batches[i].stage[t] = "started"
  /\ DOMAIN p'.batches = DOMAIN p.batches
  /\ \A j \in DOMAIN p.batches :
       /\ p'.batches[j].meta = p.batches[j].meta
       /\ j # i => p'.batches[j] = p.batches[j]
  /\ p'.batches[i].stage = [p.batches[i].stage EXCEPT ![t] = "done"]
  /\ p'.batches[i].sent = [p.batches[i].sent EXCEPT ![t] = out]
  /\ p'.error = (p.error \/ ~ out \subseteq pr[t].process)
  /\ notifs'[t] = {} /\ \A u \in PRanks \ {t} : notifs'[u] = notifs[u] /\ pr'[u] = pr[u]
  /\ pr'[t].process = pr[t].process \ out /\ pr'[t].send = pr[t].send \ out
  /\ \A r \in out :
       /\ r \in Reqs /\ pr'[t].count[r] = 0
       /\ \/ r \in pr[t].send \cup pr[t].process /\ Notified(t, r) >= Consumers
             /\ Notified(t, r) > pr[t].count[r]
          \/ r \in pr[t].send /\ r \in expired
  /\ \A r \in Reqs \ out :
       /\ pr'[t].count[r] \in {pr[t].count[r], Notified(t, r)}
       /\ pr'[t].count[r] # pr[t].count[r] => pr'[t].count[r] < Consumers
       /\ r \in pr[t].process => pr'[t].count[r] = Notified(t, r)

LEMMA PFinishSpec ==
  ASSUME Shape, NEW t \in PRanks, PFinish(t)
  PROVE  /\ Shape'
         /\ UNCHANGED <<config, d, dr, expired, faults>>
         /\ p'.status = p.status /\ p'.told = p.told /\ p'.missing = p.missing /\ p'.pend = p.pend
         /\ \E i \in DOMAIN p.batches, out \in SUBSET Reqs : PFinishes(t, i, out)
<1> DEFINE w     == pr[t]
           n     == [r \in Reqs |-> w.count[r] + Cardinality({m \in notifs[t] : m.req = r /\ m.id = "P"})]
           known == {r \in Reqs : r \in w.send \cup w.process /\ n[r] > w.count[r]}
           read  == {r \in known : n[r] >= Consumers}
           out   == read \cup Late(w, read)
           count == [r \in Reqs |-> IF r \in out THEN 0 ELSE IF r \in known THEN n[r] ELSE w.count[r]]
           w2    == [process |-> w.process \ out, send |-> w.send \ out, count |-> count]
<1> PICK i \in PBatch(t) :
      /\ p.batches[i].stage[t] = "started"
      /\ notifs' = [notifs EXCEPT ![t] = {}]
      /\ pr' = [pr EXCEPT ![t] = w2]
      /\ p' = [p EXCEPT !.batches[i] = [@ EXCEPT !.stage[t] = "done", !.sent[t] = out],
                        !.error = @ \/ ~ out \subseteq w.process]
      /\ UNCHANGED <<config, d, dr, expired, faults>>
  BY DEF PFinish
<1>1. p \in PStates /\ p.batches \in Seq(PBatches) /\ i \in DOMAIN p.batches
  BY DEF Shape, PStates, PBatch
<1>2. w \in ProducerStates
  BY DEF Shape
<1>3. \A r \in Reqs : Cardinality(About(t, r)) \in Nat /\ Notified(t, r) \in Nat /\ w.count[r] \in Nat
  <2>1. SUFFICES ASSUME NEW r \in Reqs
                 PROVE  Cardinality(About(t, r)) \in Nat /\ Notified(t, r) \in Nat /\ w.count[r] \in Nat
    OBVIOUS
  <2>2. IsFiniteSet(notifs[t]) /\ About(t, r) \subseteq notifs[t]
    BY DEF Shape, About
  <2>3. Cardinality(About(t, r)) \in Nat
    BY <2>2, FS_Subset, FS_CardinalityType
  <2>4. w.count[r] \in Nat
    BY <1>2 DEF ProducerStates
  <2>5. Notified(t, r) = w.count[r] + Cardinality(About(t, r))
    BY DEF Notified
  <2> HIDE DEF w
  <2> QED BY <2>3, <2>4, <2>5
<1>4. \A r \in Reqs : n[r] = Notified(t, r)
  BY DEF Notified, About
<1>5. known \subseteq Reqs /\ read \subseteq known /\ out \subseteq Reqs
  BY <1>2 DEF Late, ProducerStates
<1>6. \A r \in out : \/ r \in known /\ Notified(t, r) >= Consumers
                     \/ r \in w.send /\ r \in expired
  BY <1>4, <1>5 DEF Late
<1>7. \A r \in known : r \in w.send \cup w.process /\ Notified(t, r) > w.count[r]
  BY <1>4
<1>8. \A r \in known \ out : ~ (Notified(t, r) >= Consumers)
  BY <1>4
<1>9. \A r \in Reqs \ known : r \in w.process => Notified(t, r) = w.count[r]
  <2>1. SUFFICES ASSUME NEW r \in Reqs \ known, r \in w.process PROVE Notified(t, r) = w.count[r]
    OBVIOUS
  <2>3. Notified(t, r) = w.count[r] + Cardinality(About(t, r))
    BY DEF Notified
  <2>4. n[r] = Notified(t, r) /\ Cardinality(About(t, r)) \in Nat /\ w.count[r] \in Nat
    BY <1>3, <1>4
  <2> HIDE DEF n, w, out, read, count
  <2>2. ~ (n[r] > w.count[r])
    <3>1. SUFFICES ASSUME n[r] > w.count[r] PROVE r \in known
      BY <2>1
    <3> QED BY <2>1, <3>1
  <2> HIDE DEF known
  <2> QED BY <2>2, <2>3, <2>4
<1>10. \A r \in Reqs : count[r] = IF r \in out THEN 0 ELSE IF r \in known THEN Notified(t, r) ELSE w.count[r]
  BY <1>4
<1>11. count \in [Reqs -> Nat]
  BY <1>3, <1>10
<1> HIDE DEF n, known, read, out, count
<1>12. w2 \in ProducerStates /\ w2.process = w.process \ out /\ w2.send = w.send \ out /\ w2.count = count
  BY <1>2, <1>11 DEF ProducerStates
<1> DEFINE b  == p.batches[i]
           b2 == [b EXCEPT !.stage[t] = "done", !.sent[t] = out]
<1>13. b \in PBatches
  BY <1>1
<1>14. /\ b2 \in PBatches /\ b2.meta = b.meta
       /\ b2.stage = [b.stage EXCEPT ![t] = "done"] /\ b2.sent = [b.sent EXCEPT ![t] = out]
  BY <1>5, <1>13 DEF PBatches
<1>15. p' = [p EXCEPT !.batches = [@ EXCEPT ![i] = b2], !.error = @ \/ ~ out \subseteq w.process]
  BY <1>1 DEF PStates
<1>16. b.stage[t] = "started"
  OBVIOUS
<1> HIDE DEF b2, b, w2
<1>17. /\ p'.status = p.status /\ p'.told = p.told /\ p'.missing = p.missing /\ p'.pend = p.pend
       /\ p'.batches = [p.batches EXCEPT ![i] = b2]
       /\ p'.error = (p.error \/ ~ out \subseteq w.process)
  BY <1>1, <1>15 DEF PStates
<1>18. [p.batches EXCEPT ![i] = b2] \in Seq(PBatches)
  BY <1>1, <1>14
<1>19. p' \in PStates
  BY <1>1, <1>15, <1>17, <1>18 DEF PStates
<1>20. pr' \in [PRanks -> ProducerStates]
  BY <1>12 DEF Shape
<1>21. notifs' \in [PRanks -> SUBSET Notes] /\ \A u \in PRanks : IsFiniteSet(notifs'[u])
  BY FS_EmptySet DEF Shape
<1>22. Shape'
  BY <1>19, <1>20, <1>21, Frozen DEF Shape, ProducerStates
<1>23. /\ DOMAIN p'.batches = DOMAIN p.batches /\ p'.batches[i] = b2
       /\ \A j \in DOMAIN p.batches : j # i => p'.batches[j] = p.batches[j]
  BY <1>1, <1>17
<1>24. pr'[t] = w2 /\ notifs'[t] = {} /\ \A u \in PRanks \ {t} : pr'[u] = pr[u] /\ notifs'[u] = notifs[u]
  BY DEF Shape
<1>25. \A j \in DOMAIN p.batches : p'.batches[j].meta = p.batches[j].meta
  BY <1>14, <1>23 DEF b
<1>26. /\ p'.batches[i].stage = [p.batches[i].stage EXCEPT ![t] = "done"]
       /\ p'.batches[i].sent = [p.batches[i].sent EXCEPT ![t] = out]
  BY <1>14, <1>23 DEF b
<1>27. UNCHANGED <<config, d, dr, expired, faults>>
  OBVIOUS
<1>28. \A r \in Reqs \ out :
       /\ pr'[t].count[r] \in {pr[t].count[r], Notified(t, r)}
       /\ pr'[t].count[r] # pr[t].count[r] => pr'[t].count[r] < Consumers
       /\ r \in pr[t].process => pr'[t].count[r] = Notified(t, r)
  <2>1. SUFFICES ASSUME NEW r \in Reqs \ out
                 PROVE  /\ count[r] \in {w.count[r], Notified(t, r)}
                        /\ count[r] # w.count[r] => count[r] < Consumers
                        /\ r \in w.process => count[r] = Notified(t, r)
    BY <1>12, <1>24
  <2>2. Consumers \in Nat
    BY ReadersBound DEF Shape
  <2>3. CASE r \in known
    BY <1>3, <1>8, <1>10, <2>2, <2>3
  <2>4. CASE r \notin known
    BY <1>9, <1>10, <2>4
  <2> QED BY <2>3, <2>4
<1>29. \A r \in out :
       /\ r \in Reqs /\ pr'[t].count[r] = 0
       /\ \/ r \in pr[t].send \cup pr[t].process /\ Notified(t, r) >= Consumers
             /\ Notified(t, r) > pr[t].count[r]
          \/ r \in pr[t].send /\ r \in expired
  BY <1>5, <1>6, <1>7, <1>10, <1>12, <1>24
<1>30. PFinishes(t, i, out)
  BY <1>12, <1>16, <1>17, <1>23, <1>24, <1>25, <1>26, <1>28, <1>29 DEF PFinishes, b
<1> QED BY <1>1, <1>5, <1>17, <1>22, <1>27, <1>30

PUpdates(fin, over) ==
  LET n == Len(p.batches) IN
  /\ n > 0 /\ \A t \in PRanks : p.batches[1].stage[t] = "done"
  /\ over = {r \in Reqs : Done(p.missing[r], PReports(r))}
  /\ \A r \in fin : /\ r \in Reqs /\ p.status[r] = "running" /\ r \notin p.pend.in
                    /\ \A i \in 2..n : r \notin p.batches[i].meta.in
  /\ p'.batches = Tail(p.batches) /\ p'.told = p.told \cup fin
  /\ p'.pend.in = p.pend.in /\ p'.pend.not = p.pend.not /\ p'.pend.send = p.pend.send \cup fin
  /\ \A r \in Reqs : /\ p'.missing[r] = IF r \in over THEN NP ELSE Count(p.missing[r], PReports(r))
                     /\ p'.status[r] = IF r \in fin THEN "finished"
                                       ELSE IF r \in over THEN "gone" ELSE p.status[r]
  /\ p'.error = (p.error \/ \E r \in over : p.status[r] # "finished")

LEMMA PUpdateSpec ==
  ASSUME Shape, PUpdate
  PROVE  /\ Shape'
         /\ UNCHANGED <<config, pr, d, dr, notifs, expired, faults>>
         /\ \E fin, over : PUpdates(fin, over)
<1> DEFINE over == {r \in Reqs : Done(p.missing[r], PReports(r))}
           ran  == {r \in Reqs : p.status[r] = "running" /\ r \notin p.pend.in
                    /\ \A i \in 2..Len(p.batches) : r \notin p.batches[i].meta.in}
<1> PICK fin \in SUBSET ran :
       p' = [p EXCEPT !.batches = Tail(@), !.told = @ \cup fin, !.pend.send = @ \cup fin,
               !.missing = [r \in Reqs |-> IF r \in over THEN NP ELSE Count(@[r], PReports(r))],
               !.status = [r \in Reqs |-> IF r \in fin THEN "finished"
                                          ELSE IF r \in over THEN "gone" ELSE @[r]],
               !.error = @ \/ \E r \in over : p.status[r] # "finished"]
  BY DEF PUpdate
<1>1. p \in PStates /\ p.batches \in Seq(PBatches) /\ p.batches # <<>>
  BY DEF Shape, PStates, PUpdate
<1>2. UNCHANGED <<config, pr, d, dr, notifs, expired, faults>>
  BY DEF PUpdate
<1>3. Len(p.batches) > 0 /\ \A t \in PRanks : p.batches[1].stage[t] = "done"
  BY <1>1 DEF PUpdate
<1>4. \A r \in fin : /\ r \in Reqs /\ p.status[r] = "running" /\ r \notin p.pend.in
                     /\ \A i \in 2..Len(p.batches) : r \notin p.batches[i].meta.in
  OBVIOUS
<1> HIDE DEF ran
<1> DEFINE missing == [r \in Reqs |-> IF r \in over THEN NP ELSE Count(p.missing[r], PReports(r))]
           status  == [r \in Reqs |-> IF r \in fin THEN "finished"
                                      ELSE IF r \in over THEN "gone" ELSE p.status[r]]
           err     == p.error \/ \E r \in over : p.status[r] # "finished"
<1>5. \A r \in Reqs : PReports(r) \in Nat
  <2>1. IsFiniteSet(PRanks)
    BY RanksFinite DEF Shape
  <2> QED BY <2>1, FS_Subset, FS_CardinalityType DEF PReports
<1>6. missing \in [Reqs -> Nat]
  <2>1. \A r \in Reqs : p.missing[r] \in Nat /\ NP \in Nat
    BY <1>1, ConfigSpec DEF PStates, Shape
  <2> QED BY <1>5, <2>1 DEF Count
<1>7. status \in [Reqs -> Statuses]
  BY <1>1 DEF PStates, Statuses
<1>8. p' = [p EXCEPT !.batches = Tail(@), !.told = @ \cup fin, !.pend.send = @ \cup fin,
                     !.missing = missing, !.status = status, !.error = err]
  BY DEF PStates
<1> HIDE DEF over
<1>9. err \in BOOLEAN
  OBVIOUS
<1>10. /\ \A r \in Reqs : missing[r] = IF r \in over THEN NP ELSE Count(p.missing[r], PReports(r))
       /\ \A r \in Reqs : status[r] = IF r \in fin THEN "finished"
                                      ELSE IF r \in over THEN "gone" ELSE p.status[r]
  OBVIOUS
<1> HIDE DEF missing, status
<1>11. /\ p'.batches = Tail(p.batches) /\ p'.told = p.told \cup fin
       /\ p'.missing = missing /\ p'.status = status /\ p'.error = err
  BY <1>1, <1>8 DEF PStates
<1> HIDE DEF err
<1>12. /\ p'.pend \in Metas /\ p'.pend.in = p.pend.in /\ p'.pend.not = p.pend.not
       /\ p'.pend.send = p.pend.send \cup fin
  BY <1>1, <1>4, <1>8 DEF PStates, Metas
<1>13. Tail(p.batches) \in Seq(PBatches)
  BY <1>1
<1>14. p' \in PStates
  BY <1>1, <1>4, <1>6, <1>7, <1>8, <1>9, <1>11, <1>12, <1>13 DEF PStates
<1>15. Shape'
  BY <1>2, <1>14, Frozen DEF Shape, ProducerStates
<1>16. PUpdates(fin, over)
  BY <1>3, <1>4, <1>10, <1>11, <1>12 DEF PUpdates, over, err
<1> QED BY <1>2, <1>15, <1>16

LEMMA PAbortSpec ==
  ASSUME Shape, NEW r \in Reqs, PAbort(r)
  PROVE  /\ Shape'
         /\ UNCHANGED <<config, pr, d, dr, notifs, expired, faults>>
         /\ p.status[r] = "running"
         /\ p'.status = [p.status EXCEPT ![r] = "gone"]
         /\ p'.pend.in = p.pend.in /\ p'.pend.not = p.pend.not \cup {r} /\ p'.pend.send = p.pend.send
         /\ p'.told = p.told /\ p'.batches = p.batches /\ p'.missing = p.missing /\ p'.error = p.error
<1>1. p \in PStates /\ p' = [p EXCEPT !.status[r] = "gone", !.pend.not = @ \cup {r}]
  BY DEF Shape, PAbort
<1>2. /\ p'.pend \in Metas /\ p'.pend.not = p.pend.not \cup {r}
      /\ p'.pend.in = p.pend.in /\ p'.pend.send = p.pend.send
  BY <1>1 DEF PStates, Metas
<1>3. /\ p'.status \in [Reqs -> Statuses] /\ p'.status = [p.status EXCEPT ![r] = "gone"]
      /\ p'.told = p.told /\ p'.batches = p.batches /\ p'.missing = p.missing /\ p'.error = p.error
  BY <1>1 DEF PStates, Statuses
<1>4. p' \in PStates
  BY <1>1, <1>2, <1>3 DEF PStates
<1>5. UNCHANGED <<config, pr, d, dr, notifs, expired, faults>> /\ p.status[r] = "running"
  BY DEF PAbort
<1>6. Shape'
  BY <1>4, <1>5, Frozen DEF Shape, ProducerStates
<1> QED BY <1>2, <1>3, <1>5, <1>6

-----------------------------------------------------------------------------
(* The prefill engine: an inductive invariant *)

LEMMA PInvAdmit ==
  ASSUME Shape, PInv, NEW r \in Reqs, PAdmit(r)
  PROVE  PInv'
<1>1. /\ UNCHANGED <<config, pr, d, dr, notifs, expired, faults>>
      /\ p.status[r] = "new" /\ p'.status = [p.status EXCEPT ![r] = "running"]
      /\ p'.pend.in = p.pend.in \cup {r} /\ p'.pend.not = p.pend.not /\ p'.pend.send = p.pend.send
      /\ p'.told = p.told /\ p'.batches = p.batches /\ p'.missing = p.missing /\ p'.error = p.error
  BY PAdmitSpec
<1>2. PRanks' = PRanks /\ NP' = NP /\ Consumers' = Consumers /\ MaxBatches' = MaxBatches
  BY <1>1, Frozen
<1>3. p.status \in [Reqs -> Statuses]
  BY DEF Shape, PStates
<1>4. \A x \in Reqs : /\ p'.status[x] = IF x = r THEN "running" ELSE p.status[x]
                      /\ NotSome(x)' = NotSome(x) /\ SendSome(x)' = SendSome(x)
                      /\ PAwait(x)' = PAwait(x) /\ InSome(x)' = (InSome(x) \/ x = r)
                      /\ \A t : Reported(t, x)' = Reported(t, x) /\ Queued(t, x)' = Queued(t, x)
                                /\ About(t, x)' = About(t, x)
  BY <1>1, <1>2, <1>3 DEF NotSome, SendSome, PAwait, InSome, Reported, Queued, About
<1>5. r \notin p.told
  BY <1>1 DEF PInv, ToldInv
<1>6. ASSUME NEW x \in Reqs PROVE UntoldInv(x)' /\ ToldInv(x)' /\ RunningInv(x)'
  <2>1. UntoldInv(x) /\ ToldInv(x) /\ RunningInv(x)
    BY DEF PInv
  <2>2. UntoldInv(x)'
    BY <1>1, <1>2, <1>4, <2>1 DEF UntoldInv
  <2>3. ToldInv(x)'
    BY <1>1, <1>2, <1>4, <1>5, <2>1 DEF ToldInv
  <2>4. RunningInv(x)'
    BY <1>1, <1>2, <1>4, <2>1 DEF RunningInv
  <2> QED BY <2>2, <2>3, <2>4
<1>7. \A x \in Reqs, t \in PRanks : OnceInv(t, x)'
  BY <1>1, <1>4 DEF PInv, OnceInv
<1>8. StageInv'
  BY <1>1, <1>2 DEF PInv, StageInv
<1> QED BY <1>1, <1>2, <1>6, <1>7, <1>8 DEF PInv

LEMMA PInvSchedule ==
  ASSUME Shape, PInv, PSchedule
  PROVE  PInv'
<1>1. /\ UNCHANGED <<config, pr, d, dr, notifs, expired, faults>> /\ Len(p.batches) < MaxBatches
      /\ p'.status = p.status /\ p'.told = p.told /\ p'.missing = p.missing /\ p'.error = p.error
      /\ p'.pend.in = {} /\ p'.pend.not = {} /\ p'.pend.send = {}
  BY PScheduleSpec
<1> PICK b \in PBatches : /\ p'.batches = Append(p.batches, b)
                          /\ b.meta = p.pend
                          /\ \A t \in PRanks : b.stage[t] = "queued" /\ b.sent[t] = {}
  BY PScheduleSpec
<1> DEFINE n == Len(p.batches)
<1>2. PRanks' = PRanks /\ NP' = NP /\ Consumers' = Consumers /\ MaxBatches' = MaxBatches /\ MaxBatches \in Nat
  BY <1>1, Frozen, ConfigSpec DEF Shape
<1>3. p.batches \in Seq(PBatches)
  BY DEF Shape, PStates
<1>4. /\ n \in Nat /\ Len(p'.batches) = n + 1
      /\ DOMAIN p'.batches = DOMAIN p.batches \cup {n + 1} /\ n + 1 \notin DOMAIN p.batches
      /\ p'.batches[n + 1] = b /\ \A i \in DOMAIN p.batches : p'.batches[i] = p.batches[i]
  BY <1>3
<1> DEFINE m == n + 1
<1>5. m = n + 1
  OBVIOUS
<1> HIDE DEF m, n
<1>6. ASSUME NEW x \in Reqs
      PROVE  /\ NotSome(x)' = NotSome(x) /\ SendSome(x)' = SendSome(x) /\ InSome(x)' = InSome(x)
             /\ \A t \in PRanks : /\ Reported(t, x)' = Reported(t, x)
                                  /\ Queued(t, x)' = (Queued(t, x) \/ x \in p.pend.in)
                                  /\ About(t, x)' = About(t, x)
  BY <1>1, <1>4, <1>5 DEF NotSome, SendSome, InSome, Reported, Queued, About
<1>7. \A x \in Reqs : PAwait(x)' = PAwait(x)
  BY <1>1, <1>2, <1>6 DEF PAwait
<1>8. ASSUME NEW x \in Reqs PROVE UntoldInv(x)' /\ ToldInv(x)' /\ RunningInv(x)'
  <2>1. UntoldInv(x) /\ ToldInv(x) /\ RunningInv(x)
    BY DEF PInv
  <2>2. UntoldInv(x)'
    BY <1>1, <1>2, <1>6, <2>1 DEF UntoldInv
  <2>3. ToldInv(x)'
    BY <1>1, <1>2, <1>6, <1>7, <2>1 DEF ToldInv
  <2>4. RunningInv(x)'
    BY <1>1, <1>2, <1>6, <2>1 DEF RunningInv
  <2> QED BY <2>2, <2>3, <2>4
<1>9. ASSUME NEW x \in Reqs, NEW t \in PRanks PROVE OnceInv(t, x)'
  <2>1. OnceInv(t, x)
    BY DEF PInv
  <2>2. /\ \A i \in DOMAIN p.batches : p'.batches[i].sent[t] = p.batches[i].sent[t]
        /\ p'.batches[m].sent[t] = {}
    BY <1>4, <1>5
  <2> QED BY <1>1, <1>4, <1>5, <1>6, <2>1, <2>2 DEF OnceInv
<1>10. StageInv'
  BY <1>1, <1>2, <1>4, <1>5 DEF PInv, StageInv
<1>11. Len(p'.batches) <= MaxBatches'
  BY <1>1, <1>2, <1>4 DEF n
<1> QED BY <1>1, <1>2, <1>8, <1>9, <1>10, <1>11 DEF PInv

LEMMA PInvStart ==
  ASSUME Shape, PInv, NEW t \in PRanks, PStart(t)
  PROVE  PInv'
<1>1. /\ UNCHANGED <<config, d, dr, notifs, expired, faults>>
      /\ p'.status = p.status /\ p'.told = p.told /\ p'.missing = p.missing /\ p'.pend = p.pend
  BY PStartSpec
<1> PICK i \in DOMAIN p.batches : PStarts(t, i, p.batches[i].meta)
  BY PStartSpec
<1> DEFINE m == p.batches[i].meta
<1>2. PRanks' = PRanks /\ NP' = NP /\ Consumers' = Consumers /\ MaxBatches' = MaxBatches
  BY <1>1, Frozen
<1>3. /\ p.batches \in Seq(PBatches) /\ p'.batches \in Seq(PBatches)
      /\ DOMAIN p'.batches = DOMAIN p.batches /\ Len(p'.batches) = Len(p.batches)
  <2>1. p.batches \in Seq(PBatches) /\ p'.batches \in Seq(PBatches)
    BY <1>1, PStartSpec, Frozen DEF Shape, PStates
  <2> QED BY <2>1 DEF PStarts
<1>4. /\ \A j \in DOMAIN p.batches : p'.batches[j].meta = p.batches[j].meta
                                     /\ p'.batches[j].sent = p.batches[j].sent
      /\ \A j \in DOMAIN p.batches : j # i => p'.batches[j] = p.batches[j]
  BY DEF PStarts
<1>5. \A u \in PRanks : p'.batches[i].stage[u] = IF u = t THEN "started" ELSE p.batches[i].stage[u]
  <2>1. p.batches[i] \in PBatches
    BY <1>3
  <2> QED BY <2>1 DEF PStarts, PBatches
<1>6. /\ p.batches[i].stage[t] = "queued"
      /\ pr'[t].process = (pr[t].process \cup m.in) \ m.not
      /\ pr'[t].send = pr[t].send \cup (m.send \cap pr'[t].process)
      /\ pr'[t].count = pr[t].count /\ \A u \in PRanks \ {t} : pr'[u] = pr[u]
      /\ p'.error = (p.error \/ m.not \cap pr[t].send # {})
  BY DEF PStarts
<1>7. \A x \in Reqs : /\ x \in m.in => InSome(x)
                      /\ x \in m.not => NotSome(x)
                      /\ x \in m.send => SendSome(x)
  BY DEF InSome, NotSome, SendSome
<1>8. pr[t] \in ProducerStates /\ m \in Metas
  <2>1. p.batches[i] \in PBatches
    BY <1>3
  <2> QED BY <2>1 DEF Shape, PBatches
<1> HIDE DEF m
<1>9. ASSUME NEW x \in Reqs
      PROVE  /\ NotSome(x)' = NotSome(x) /\ SendSome(x)' = SendSome(x) /\ InSome(x)' = InSome(x)
             /\ \A u \in PRanks : /\ Reported(u, x)' = Reported(u, x)
                                  /\ About(u, x)' = About(u, x)
  BY <1>1, <1>3, <1>4 DEF NotSome, SendSome, InSome, Reported, About
<1>10. ASSUME NEW x \in Reqs, NEW u \in PRanks
       PROVE  Queued(u, x) => Queued(u, x)' \/ (u = t /\ x \in m.in)
  BY <1>3, <1>4, <1>5 DEF Queued, m
<1>11. \A x \in p.told : ~ InSome(x) /\ ~ NotSome(x) /\ x \in Reqs
  BY DEF PInv, ToldInv, Shape, PStates
<1>12. \A u \in PRanks : pr[u].send \subseteq p.told
  <2>1. \A u \in PRanks : pr[u].send \subseteq Reqs
    BY DEF Shape, ProducerStates
  <2> QED BY <2>1 DEF PInv, UntoldInv
<1>13. \A x \in Reqs : SendSome(x) => x \in p.told
  BY DEF PInv, UntoldInv
<1>14. \A x \in p.told, u \in PRanks : x \in pr'[u].process <=> x \in pr[u].process
  BY <1>6, <1>7, <1>11
<1>15. \A x \in p.told : PAwait(x)' = PAwait(x)
  BY <1>2, <1>9, <1>11, <1>14 DEF PAwait
<1>16. ASSUME NEW x \in Reqs PROVE UntoldInv(x)' /\ ToldInv(x)' /\ RunningInv(x)'
  <2>1. UntoldInv(x) /\ ToldInv(x) /\ RunningInv(x)
    BY DEF PInv
  <2>2. UntoldInv(x)'
    BY <1>1, <1>2, <1>6, <1>7, <1>9, <1>13, <2>1 DEF UntoldInv
  <2>3. ToldInv(x)'
    BY <1>1, <1>2, <1>9, <1>15, <2>1 DEF ToldInv
  <2>4. RunningInv(x)'
    BY <1>1, <1>2, <1>6, <1>7, <1>9, <1>10, <2>1 DEF RunningInv
  <2> QED BY <2>2, <2>3, <2>4
<1>17. ASSUME NEW x \in Reqs, NEW u \in PRanks PROVE OnceInv(u, x)'
  <2>1. OnceInv(u, x) /\ (x \notin p.told => ~ Reported(u, x))
    BY DEF PInv, UntoldInv
  <2> QED BY <1>3, <1>4, <1>9, <1>14, <2>1 DEF OnceInv
<1>18. StageInv'
  <2>1. \A j \in DOMAIN p.batches, u \in PRanks :
          p'.batches[j].stage[u] # "done" => p.batches[j].stage[u] # "done"
    BY <1>4, <1>5, <1>6
  <2> QED BY <1>2, <1>3, <1>4, <2>1 DEF PInv, StageInv
<1>19. ~ p'.error
  BY <1>6, <1>7, <1>8, <1>11, <1>12 DEF PInv, Metas
<1>20. \A u \in PRanks : pr'[u].send \subseteq pr'[u].process
  <2>1. pr[t].send \cap m.not = {}
    BY <1>7, <1>8, <1>11, <1>12 DEF Metas
  <2>2. pr[t].send \subseteq pr[t].process
    BY DEF PInv
  <2>3. pr'[t].send \subseteq pr'[t].process
    BY <1>6, <2>1, <2>2
  <2> QED BY <1>6, <2>3 DEF PInv
<1>21. \A u \in PRanks, x \in Reqs : pr'[u].count[x] < Consumers
  BY <1>6 DEF PInv
<1> QED BY <1>1, <1>2, <1>3, <1>16, <1>17, <1>18, <1>19, <1>20, <1>21 DEF PInv

LEMMA PInvFinish ==
  ASSUME Shape, PInv, NEW t \in PRanks, PFinish(t)
  PROVE  PInv'
<1>1. /\ UNCHANGED <<config, d, dr, expired, faults>>
      /\ p'.status = p.status /\ p'.told = p.told /\ p'.missing = p.missing /\ p'.pend = p.pend
  BY PFinishSpec
<1> PICK i \in DOMAIN p.batches, out \in SUBSET Reqs : PFinishes(t, i, out)
  BY PFinishSpec
<1>2. /\ PRanks' = PRanks /\ NP' = NP /\ Consumers' = Consumers /\ MaxBatches' = MaxBatches
      /\ Consumers \in Nat \ {0}
  BY <1>1, Frozen, ReadersBound DEF Shape
<1>3. /\ p.batches \in Seq(PBatches) /\ DOMAIN p'.batches = DOMAIN p.batches
      /\ Len(p'.batches) = Len(p.batches)
  <2>1. p.batches \in Seq(PBatches) /\ p'.batches \in Seq(PBatches)
    BY <1>1, PFinishSpec, Frozen DEF Shape, PStates
  <2> QED BY <2>1 DEF PFinishes
<1>4. /\ \A j \in DOMAIN p.batches : p'.batches[j].meta = p.batches[j].meta
      /\ \A j \in DOMAIN p.batches : j # i => p'.batches[j] = p.batches[j]
  BY DEF PFinishes
<1>5. \A u \in PRanks : /\ p'.batches[i].stage[u] = IF u = t THEN "done" ELSE p.batches[i].stage[u]
                        /\ p'.batches[i].sent[u] = IF u = t THEN out ELSE p.batches[i].sent[u]
  <2>1. p.batches[i] \in PBatches
    BY <1>3
  <2> QED BY <2>1 DEF PFinishes, PBatches
<1>6. /\ p.batches[i].stage[t] = "started"
      /\ p'.error = (p.error \/ ~ out \subseteq pr[t].process)
      /\ notifs'[t] = {} /\ \A u \in PRanks \ {t} : notifs'[u] = notifs[u] /\ pr'[u] = pr[u]
      /\ pr'[t].process = pr[t].process \ out /\ pr'[t].send = pr[t].send \ out
  BY DEF PFinishes
<1>7. p.batches[i].sent[t] = {}
  BY <1>6 DEF PInv, StageInv
<1>8. \A x \in Reqs : x \notin p.told => Notified(t, x) = 0 /\ pr[t].count[x] = 0 /\ x \notin pr[t].send
  <2>1. SUFFICES ASSUME NEW x \in Reqs, x \notin p.told
                 PROVE Notified(t, x) = 0 /\ pr[t].count[x] = 0 /\ x \notin pr[t].send
    OBVIOUS
  <2>2. pr[t].count[x] = 0 /\ About(t, x) = {} /\ x \notin pr[t].send
    BY <2>1 DEF PInv, UntoldInv
  <2> QED BY <2>2, FS_EmptySet DEF Notified
<1>9. out \subseteq p.told /\ out \subseteq pr[t].process
  <2>1. SUFFICES ASSUME NEW r \in out PROVE r \in p.told /\ r \in pr[t].process
    OBVIOUS
  <2>2. /\ r \in Reqs
        /\ \/ r \in pr[t].send \cup pr[t].process /\ Notified(t, r) >= Consumers
              /\ Notified(t, r) > pr[t].count[r]
           \/ r \in pr[t].send /\ r \in expired
    BY DEF PFinishes
  <2>3. pr[t].send \subseteq pr[t].process
    BY DEF PInv
  <2>4. r \in pr[t].process
    BY <2>2, <2>3
  <2>5. r \in p.told
    <3>1. SUFFICES ASSUME r \notin p.told PROVE FALSE
      OBVIOUS
    <3>2. Notified(t, r) = 0 /\ r \notin pr[t].send
      BY <1>8, <2>2, <3>1
    <3> QED BY <1>2, <2>2, <3>2
  <2> QED BY <2>4, <2>5
<1>10. ASSUME NEW x \in Reqs
       PROVE  /\ NotSome(x)' = NotSome(x) /\ SendSome(x)' = SendSome(x) /\ InSome(x)' = InSome(x)
              /\ \A u \in PRanks : Queued(u, x)' = Queued(u, x)
  <2>1. NotSome(x)' = NotSome(x) /\ SendSome(x)' = SendSome(x) /\ InSome(x)' = InSome(x)
    BY <1>1, <1>3, <1>4 DEF NotSome, SendSome, InSome
  <2>2. \A j \in DOMAIN p.batches, u \in PRanks :
          p'.batches[j].stage[u] = "queued" <=> p.batches[j].stage[u] = "queued"
    BY <1>4, <1>5, <1>6
  <2>3. \A u \in PRanks : Queued(u, x)' = Queued(u, x)
    BY <1>3, <1>4, <2>2 DEF Queued
  <2> QED BY <2>1, <2>3
<1>11. ASSUME NEW x \in Reqs, NEW u \in PRanks
       PROVE  /\ Reported(u, x)' = (Reported(u, x) \/ (u = t /\ x \in out))
              /\ x \in pr'[u].process <=> x \in pr[u].process /\ ~ (u = t /\ x \in out)
              /\ About(u, x)' = IF u = t THEN {} ELSE About(u, x)
  <2>1. \A j \in DOMAIN p.batches :
          x \in p'.batches[j].sent[u] <=> x \in p.batches[j].sent[u] \/ (j = i /\ u = t /\ x \in out)
    BY <1>4, <1>5, <1>7
  <2>2. Reported(u, x)' = (Reported(u, x) \/ (u = t /\ x \in out))
    BY <1>3, <2>1 DEF Reported
  <2>3. x \in pr'[u].process <=> x \in pr[u].process /\ ~ (u = t /\ x \in out)
    BY <1>6
  <2>4. About(u, x)' = IF u = t THEN {} ELSE About(u, x)
    BY <1>6 DEF About
  <2> QED BY <2>2, <2>3, <2>4
<1>12. \A x \in Reqs : PAwait(x)' = PAwait(x)
  BY <1>2, <1>9, <1>11 DEF PAwait
<1>13. \A x \in Reqs : x \notin out => /\ pr'[t].count[x] \in {pr[t].count[x], Notified(t, x)}
                                       /\ pr'[t].count[x] # pr[t].count[x] => pr'[t].count[x] < Consumers
  BY DEF PFinishes
<1>14. ASSUME NEW x \in Reqs PROVE UntoldInv(x)' /\ ToldInv(x)' /\ RunningInv(x)'
  <2>1. UntoldInv(x) /\ ToldInv(x) /\ RunningInv(x)
    BY DEF PInv
  <2>2. UntoldInv(x)'
    <3>1. SUFFICES ASSUME x \notin p.told PROVE UntoldInv(x)'
      BY <1>1 DEF UntoldInv
    <3>2. x \notin out /\ pr'[t].count[x] = 0
      BY <1>8, <1>9, <1>13, <3>1
    <3>3. \A u \in PRanks : ~ Reported(u, x) /\ x \notin pr[u].send /\ pr[u].count[x] = 0 /\ About(u, x) = {}
      BY <2>1, <3>1 DEF UntoldInv
    <3>4. \A u \in PRanks : ~ Reported(u, x)' /\ About(u, x)' = {}
      BY <1>11, <3>2, <3>3
    <3>5. \A u \in PRanks : x \notin pr'[u].send /\ pr'[u].count[x] = 0
      BY <1>6, <3>2, <3>3
    <3>6. p.status[x] # "finished" /\ p.missing[x] = NP /\ ~ SendSome(x) /\ d.status[x] = "new"
      BY <2>1, <3>1 DEF UntoldInv
    <3> QED BY <1>1, <1>2, <1>10, <3>4, <3>5, <3>6 DEF UntoldInv
  <2>3. ToldInv(x)'
    BY <1>1, <1>2, <1>10, <1>12, <2>1 DEF ToldInv
  <2>4. RunningInv(x)'
    <3>1. p.status[x] = "running" => x \notin out
      <4>1. x \in p.told => p.status[x] # "running"
        BY <2>1 DEF ToldInv
      <4> QED BY <1>9, <4>1
    <3>2. \A u \in PRanks : x \in pr[u].process \/ x \in p.pend.in \/ Queued(u, x)
            => (p.status[x] = "running" => x \in pr'[u].process \/ x \in p.pend.in \/ Queued(u, x)')
      BY <1>10, <1>11, <3>1
    <3>3. NotSome(x)' = NotSome(x)
      BY <1>10
    <3> QED BY <1>1, <1>2, <2>1, <3>2, <3>3 DEF RunningInv
  <2> QED BY <2>2, <2>3, <2>4
<1>15. ASSUME NEW x \in Reqs, NEW u \in PRanks PROVE OnceInv(u, x)'
  <2>1. OnceInv(u, x)
    BY DEF PInv
  <2>2. \A j \in DOMAIN p.batches :
          x \in p'.batches[j].sent[u] <=> x \in p.batches[j].sent[u] \/ (j = i /\ u = t /\ x \in out)
    BY <1>4, <1>5, <1>7
  <2>3. u = t /\ x \in out => ~ Reported(t, x)
    BY <1>9, <2>1 DEF OnceInv
  <2>4. u = t /\ x \in out => \A j \in DOMAIN p.batches : x \notin p.batches[j].sent[u]
    BY <2>3 DEF Reported
  <2>5. x \in pr'[u].process => ~ Reported(u, x)'
    BY <1>11, <2>1 DEF OnceInv
  <2>6. \A a, b \in DOMAIN p.batches : x \in p'.batches[a].sent[u] /\ x \in p'.batches[b].sent[u] => a = b
    <3>1. CASE u = t /\ x \in out
      BY <2>2, <2>4, <3>1
    <3>2. CASE ~ (u = t /\ x \in out)
      BY <2>1, <2>2, <3>2 DEF OnceInv
    <3> QED BY <3>1, <3>2
  <2> QED BY <1>3, <2>5, <2>6 DEF OnceInv
<1>16. StageInv'
  BY <1>2, <1>3, <1>4, <1>5 DEF PInv, StageInv
<1>17. ~ p'.error
  BY <1>6, <1>9 DEF PInv
<1>18. \A u \in PRanks : pr'[u].send \subseteq pr'[u].process
  BY <1>6 DEF PInv
<1>19. \A u \in PRanks, x \in Reqs : pr'[u].count[x] < Consumers
  <2>1. SUFFICES ASSUME NEW x \in Reqs PROVE pr'[t].count[x] < Consumers
    BY <1>6 DEF PInv
  <2>2. CASE x \in out
    BY <1>2, <2>2 DEF PFinishes
  <2>3. CASE x \notin out
    BY <1>13, <2>3 DEF PInv
  <2> QED BY <2>2, <2>3
<1> QED BY <1>1, <1>2, <1>3, <1>14, <1>15, <1>16, <1>17, <1>18, <1>19 DEF PInv

LEMMA PInvAbort ==
  ASSUME Shape, PInv, NEW r \in Reqs, PAbort(r)
  PROVE  PInv'
<1>1. /\ UNCHANGED <<config, pr, d, dr, notifs, expired, faults>>
      /\ p.status[r] = "running" /\ p'.status = [p.status EXCEPT ![r] = "gone"]
      /\ p'.pend.in = p.pend.in /\ p'.pend.not = p.pend.not \cup {r} /\ p'.pend.send = p.pend.send
      /\ p'.told = p.told /\ p'.batches = p.batches /\ p'.missing = p.missing /\ p'.error = p.error
  BY PAbortSpec
<1>2. PRanks' = PRanks /\ NP' = NP /\ Consumers' = Consumers /\ MaxBatches' = MaxBatches
  BY <1>1, Frozen
<1>3. p.status \in [Reqs -> Statuses]
  BY DEF Shape, PStates
<1>4. \A x \in Reqs : /\ p'.status[x] = IF x = r THEN "gone" ELSE p.status[x]
                      /\ NotSome(x)' = (NotSome(x) \/ x = r) /\ SendSome(x)' = SendSome(x)
                      /\ PAwait(x)' = PAwait(x) /\ InSome(x)' = InSome(x)
                      /\ \A t : Reported(t, x)' = Reported(t, x) /\ Queued(t, x)' = Queued(t, x)
                                /\ About(t, x)' = About(t, x)
  BY <1>1, <1>2, <1>3 DEF NotSome, SendSome, PAwait, InSome, Reported, Queued, About
<1>5. r \notin p.told
  BY <1>1 DEF PInv, ToldInv
<1>6. ASSUME NEW x \in Reqs PROVE UntoldInv(x)' /\ ToldInv(x)' /\ RunningInv(x)'
  <2>1. UntoldInv(x) /\ ToldInv(x) /\ RunningInv(x)
    BY DEF PInv
  <2>2. UntoldInv(x)'
    BY <1>1, <1>2, <1>4, <2>1 DEF UntoldInv
  <2>3. ToldInv(x)'
    BY <1>1, <1>2, <1>4, <1>5, <2>1 DEF ToldInv
  <2>4. RunningInv(x)'
    BY <1>1, <1>2, <1>4, <2>1 DEF RunningInv
  <2> QED BY <2>2, <2>3, <2>4
<1>7. \A x \in Reqs, t \in PRanks : OnceInv(t, x)'
  BY <1>1, <1>4 DEF PInv, OnceInv
<1>8. StageInv'
  BY <1>1, <1>2 DEF PInv, StageInv
<1> QED BY <1>1, <1>2, <1>6, <1>7, <1>8 DEF PInv

\* Steps of the decode engine, and time: news only of requests D was told of.
LEMMA PInvKept ==
  ASSUME Shape, PInv, UNCHANGED <<config, p, pr>>, expired' \subseteq p.told,
         \A r \in Reqs \ p.told : d'.status[r] = d.status[r],
         \A t \in PRanks, r \in Reqs \ p.told : About(t, r)' = About(t, r)
  PROVE  PInv'
<1>1. PRanks' = PRanks /\ NP' = NP /\ Consumers' = Consumers /\ MaxBatches' = MaxBatches
  BY Frozen
<1>2. \A x \in Reqs : /\ NotSome(x)' = NotSome(x) /\ SendSome(x)' = SendSome(x)
                      /\ PAwait(x)' = PAwait(x) /\ InSome(x)' = InSome(x)
                      /\ \A t : Reported(t, x)' = Reported(t, x) /\ Queued(t, x)' = Queued(t, x)
  BY <1>1 DEF NotSome, SendSome, PAwait, InSome, Reported, Queued
<1>3. ASSUME NEW x \in Reqs PROVE UntoldInv(x)' /\ ToldInv(x)' /\ RunningInv(x)'
  <2>1. UntoldInv(x) /\ ToldInv(x) /\ RunningInv(x)
    BY DEF PInv
  <2>2. UntoldInv(x)'
    BY <1>1, <1>2, <2>1 DEF UntoldInv
  <2>3. ToldInv(x)'
    BY <1>1, <1>2, <2>1 DEF ToldInv
  <2>4. RunningInv(x)'
    BY <1>1, <1>2, <2>1 DEF RunningInv
  <2> QED BY <2>2, <2>3, <2>4
<1>4. \A x \in Reqs, t \in PRanks : OnceInv(t, x)'
  BY <1>2 DEF PInv, OnceInv
<1>5. StageInv'
  BY <1>1 DEF PInv, StageInv
<1> QED BY <1>1, <1>3, <1>4, <1>5 DEF PInv

LEMMA PInvUpdate ==
  ASSUME Shape, PInv, PUpdate
  PROVE  PInv'
<1>1. /\ UNCHANGED <<config, pr, d, dr, notifs, expired, faults>>
      /\ Shape'
  BY PUpdateSpec
<1> PICK fin, over : PUpdates(fin, over)
  BY PUpdateSpec
<1> DEFINE n == Len(p.batches)
<1>2. /\ PRanks' = PRanks /\ NP' = NP /\ Consumers' = Consumers /\ MaxBatches' = MaxBatches
      /\ NP \in Nat \ {0} /\ IsFiniteSet(PRanks) /\ Cardinality(PRanks) = NP /\ MaxBatches \in Nat
  <2>1. NP \in Nat \ {0} /\ MaxBatches \in Nat
    BY ConfigSpec DEF Shape
  <2>2. IsFiniteSet(PRanks) /\ Cardinality(PRanks) = NP
    BY <2>1, FS_Interval DEF PRanks
  <2> QED BY <1>1, <2>1, <2>2, Frozen
<1>3. p.batches \in Seq(PBatches) /\ n \in Nat /\ n > 0 /\ DOMAIN p.batches = 1..n
  <2>1. p.batches \in Seq(PBatches)
    BY DEF Shape, PStates
  <2> QED BY <2>1 DEF PUpdates
<1>4. /\ DOMAIN p'.batches = 1..(n - 1) /\ Len(p'.batches) = n - 1
      /\ \A j \in 1..(n - 1) : p'.batches[j] = p.batches[j + 1]
  BY <1>3 DEF PUpdates
<1>5. /\ \A t \in PRanks : p.batches[1].stage[t] = "done"
      /\ \A x \in fin : /\ x \in Reqs /\ p.status[x] = "running" /\ x \notin p.pend.in
                        /\ \A i \in 2..n : x \notin p.batches[i].meta.in
      /\ p'.told = p.told \cup fin
      /\ p'.pend.in = p.pend.in /\ p'.pend.not = p.pend.not /\ p'.pend.send = p.pend.send \cup fin
  BY DEF PUpdates
<1>6. /\ \A x \in Reqs : /\ p'.missing[x] = IF x \in over THEN NP ELSE Count(p.missing[x], PReports(x))
                         /\ p'.status[x] = IF x \in fin THEN "finished"
                                           ELSE IF x \in over THEN "gone" ELSE p.status[x]
      /\ over = {x \in Reqs : Done(p.missing[x], PReports(x))}
      /\ p'.error = (p.error \/ \E x \in over : p.status[x] # "finished")
  BY DEF PUpdates
<1> DEFINE A(x) == {t \in PRanks : x \in p.batches[1].sent[t]}
<1>7. \A x \in Reqs : PReports(x) = Cardinality(A(x))
  BY <1>3 DEF PReports
<1>8. \A x \in Reqs : /\ IsFiniteSet(A(x)) /\ Cardinality(A(x)) \in Nat /\ A(x) \subseteq PRanks
                      /\ A(x) = {} <=> Cardinality(A(x)) = 0
  <2>1. SUFFICES ASSUME NEW x \in Reqs
                 PROVE  /\ IsFiniteSet(A(x)) /\ Cardinality(A(x)) \in Nat /\ A(x) \subseteq PRanks
                        /\ A(x) = {} <=> Cardinality(A(x)) = 0
    OBVIOUS
  <2>2. A(x) \subseteq PRanks
    OBVIOUS
  <2> HIDE DEF A
  <2> QED BY <1>2, <2>2, FS_Subset, FS_CardinalityType, FS_EmptySet
<1> HIDE DEF n, A
<1>9. ASSUME NEW x \in Reqs
      PROVE  /\ p.missing[x] \in 1..NP
             /\ A(x) = {} => x \notin over /\ p'.missing[x] = p.missing[x]
             /\ A(x) # {} => (x \in over <=> p.missing[x] = Cardinality(A(x)))
             /\ x \notin over /\ Cardinality(A(x)) < p.missing[x] =>
                  p'.missing[x] = p.missing[x] - Cardinality(A(x))
             /\ x \in over => p'.missing[x] = NP
  <2>1. p.missing[x] \in 1..NP
    BY DEF PInv
  <2>2. p'.missing[x] = IF x \in over THEN NP ELSE Count(p.missing[x], Cardinality(A(x)))
    BY <1>6, <1>7
  <2>3. x \in over <=> Done(p.missing[x], Cardinality(A(x)))
    BY <1>6, <1>7
  <2>4. Cardinality(A(x)) \in Nat /\ (A(x) = {} <=> Cardinality(A(x)) = 0)
    BY <1>8
  <2> DEFINE c == Cardinality(A(x))
             e == p.missing[x]
             o == x \in over
             z == A(x) = {}
  <2>5. o <=> c > 0 /\ c = e
    BY <2>3 DEF Done
  <2>6. p'.missing[x] = IF o THEN NP ELSE IF c < e THEN e - c ELSE e
    BY <2>2 DEF Count
  <2>7. z <=> c = 0
    BY <2>4
  <2>8. c \in Nat /\ e \in 1..NP /\ NP \in Nat
    BY <1>2, <2>1, <2>4
  <2> HIDE DEF c, e, o, z
  <2>9. /\ z => ~ o /\ p'.missing[x] = e
        /\ ~ z => (o <=> e = c)
        /\ ~ o /\ c < e => p'.missing[x] = e - c
        /\ o => p'.missing[x] = NP
    BY <2>5, <2>6, <2>7, <2>8
  <2> QED BY <2>1, <2>9 DEF c, e, o, z
<1>10. ASSUME NEW x \in Reqs
       PROVE  /\ (InSome(x)' => InSome(x)) /\ (NotSome(x)' => NotSome(x))
              /\ (SendSome(x)' => SendSome(x) \/ x \in fin)
  <2>1. \A j \in 1..(n - 1) : j + 1 \in DOMAIN p.batches /\ p'.batches[j] = p.batches[j + 1]
    BY <1>3, <1>4
  <2>2. InSome(x)' => InSome(x)
    BY <1>4, <1>5, <2>1 DEF InSome
  <2>3. NotSome(x)' => NotSome(x)
    BY <1>4, <1>5, <2>1 DEF NotSome
  <2>4. SendSome(x)' => SendSome(x) \/ x \in fin
    BY <1>4, <1>5, <2>1 DEF SendSome
  <2> QED BY <2>2, <2>3, <2>4
<1>11. ASSUME NEW x \in Reqs, NEW t \in PRanks
       PROVE  /\ Reported(t, x) <=> t \in A(x) \/ Reported(t, x)'
              /\ t \in A(x) => ~ Reported(t, x)' /\ x \notin pr[t].process
              /\ Queued(t, x) => Queued(t, x)'
  <2>1. t \in A(x) <=> x \in p.batches[1].sent[t]
    BY DEF A
  <2>2. \A j \in 2..n : j - 1 \in 1..(n - 1) /\ p'.batches[j - 1] = p.batches[j]
    BY <1>3, <1>4
  <2>3. \A j \in 1..(n - 1) : j + 1 \in 2..n /\ p'.batches[j] = p.batches[j + 1]
    BY <1>3, <1>4
  <2>4. Reported(t, x)' <=> \E j \in 2..n : x \in p.batches[j].sent[t]
    BY <1>4, <2>2, <2>3 DEF Reported
  <2>5. 1..n = {1} \cup 2..n /\ 1 \notin 2..n
    BY <1>3
  <2>6. Reported(t, x) <=> t \in A(x) \/ Reported(t, x)'
    BY <1>3, <2>1, <2>4, <2>5 DEF Reported
  <2>7. OnceInv(t, x)
    BY DEF PInv
  <2>8. t \in A(x) => ~ Reported(t, x)' /\ x \notin pr[t].process
    BY <1>3, <2>1, <2>4, <2>5, <2>6, <2>7 DEF OnceInv
  <2>9. Queued(t, x) => \E j \in 2..n : x \in p.batches[j].meta.in /\ p.batches[j].stage[t] = "queued"
    BY <1>3, <1>5, <2>5 DEF Queued
  <2>10. Queued(t, x) => Queued(t, x)'
    BY <1>4, <2>2, <2>9 DEF Queued
  <2> QED BY <2>6, <2>8, <2>10
<1>12. \A x \in Reqs : PAwait(x)' = PAwait(x) \ A(x) /\ A(x) \subseteq PAwait(x)
  <2>1. SUFFICES ASSUME NEW x \in Reqs
                 PROVE  PAwait(x)' = PAwait(x) \ A(x) /\ A(x) \subseteq PAwait(x)
    OBVIOUS
  <2>2. \A t \in PRanks : /\ t \in PAwait(x)' <=> t \in PAwait(x) /\ t \notin A(x)
                          /\ t \in A(x) => t \in PAwait(x)
    BY <1>1, <1>2, <1>11 DEF PAwait
  <2>3. PAwait(x)' \subseteq PRanks /\ PAwait(x) \subseteq PRanks /\ A(x) \subseteq PRanks
    BY <1>2, <1>8 DEF PAwait
  <2> QED BY <2>2, <2>3
<1>13. ASSUME NEW x \in fin
       PROVE  /\ x \in Reqs /\ x \notin p.told /\ p.missing[x] = NP /\ A(x) = {}
              /\ ~ InSome(x)' /\ ~ NotSome(x)' /\ PAwait(x)' = PRanks
  <2>1. x \in Reqs /\ p.status[x] = "running"
    BY <1>5
  <2>2. UntoldInv(x) /\ ToldInv(x) /\ RunningInv(x)
    BY <2>1 DEF PInv
  <2>3. x \notin p.told
    BY <2>1, <2>2 DEF ToldInv
  <2>4. p.missing[x] = NP /\ \A t \in PRanks : ~ Reported(t, x)
    BY <2>2, <2>3 DEF UntoldInv
  <2>5. A(x) = {}
    BY <1>8, <1>11, <2>1, <2>4
  <2>6. ~ NotSome(x)'
    BY <1>10, <2>1, <2>2 DEF RunningInv
  <2>7. \A j \in 1..(n - 1) : j + 1 \in 2..n /\ p'.batches[j] = p.batches[j + 1]
    BY <1>3, <1>4
  <2>8. x \notin p.pend.in /\ \A i \in 2..n : x \notin p.batches[i].meta.in
    BY <1>5
  <2>9. ~ InSome(x)'
    BY <1>4, <1>5, <2>7, <2>8 DEF InSome
  <2>10. \A t \in PRanks : ~ Queued(t, x)
    <3>1. 1..n = {1} \cup 2..n
      BY <1>3
    <3>2. \A t \in PRanks : p.batches[1].stage[t] # "queued"
      BY <1>5
    <3> QED BY <1>3, <2>8, <3>1, <3>2 DEF Queued
  <2>11. \A t \in PRanks : x \in pr[t].process
    BY <2>1, <2>2, <2>8, <2>10 DEF RunningInv
  <2>12. PAwait(x) = PRanks
    BY <2>11 DEF PAwait
  <2> QED BY <1>12, <2>1, <2>3, <2>4, <2>5, <2>6, <2>9, <2>12
<1>14. ASSUME NEW x \in Reqs, x \notin p.told
       PROVE  A(x) = {} /\ p.missing[x] = NP /\ x \notin over /\ p'.missing[x] = NP
  <2>1. UntoldInv(x)
    BY DEF PInv
  <2>2. p.missing[x] = NP /\ \A t \in PRanks : ~ Reported(t, x)
    BY <1>14, <2>1 DEF UntoldInv
  <2>3. A(x) = {}
    BY <1>8, <1>11, <2>2
  <2> QED BY <1>9, <2>2, <2>3
<1>15. ASSUME NEW x \in Reqs PROVE UntoldInv(x)'
  <2>1. UntoldInv(x)
    BY DEF PInv
  <2>2. SUFFICES ASSUME x \notin p'.told PROVE UntoldInv(x)'
    BY DEF UntoldInv
  <2>3. x \notin p.told /\ x \notin fin
    BY <1>5, <2>2
  <2>4. p'.status[x] = p.status[x] /\ p'.missing[x] = NP /\ ~ SendSome(x)' /\ \A t \in PRanks : ~ Reported(t, x)'
    BY <1>6, <1>10, <1>11, <1>14, <2>1, <2>3 DEF UntoldInv
  <2>5. \A t \in PRanks : About(t, x)' = About(t, x)
    BY <1>1 DEF About
  <2> QED BY <1>1, <1>2, <2>1, <2>3, <2>4, <2>5 DEF UntoldInv
<1>16. ASSUME NEW x \in Reqs PROVE ToldInv(x)'
  <2>1. CASE x \in fin
    <3>1. x \notin over /\ p'.missing[x] = NP /\ p'.status[x] = "finished"
      BY <1>6, <1>13, <1>14, <2>1
    <3>2. Cardinality(PAwait(x)') = NP /\ PAwait(x)' # {}
      BY <1>2, <1>13, <2>1, FS_EmptySet
    <3> QED BY <1>2, <1>13, <2>1, <3>1, <3>2 DEF ToldInv
  <2>2. CASE x \in p.told /\ x \notin fin
    <3> DEFINE W == PAwait(x)
               V == PAwait(x)'
               c == Cardinality(A(x))
    <3>1. ~ InSome(x) /\ ~ NotSome(x) /\ (W # {} => p.status[x] = "finished" /\ p.missing[x] = Cardinality(W))
          /\ (W = {} => p.status[x] = "gone" /\ p.missing[x] = NP)
      BY <2>2 DEF PInv, ToldInv
    <3>2. V = W \ A(x) /\ A(x) \subseteq W /\ IsFiniteSet(W)
      BY <1>2, <1>12, FS_Subset DEF PAwait
    <3>3. p'.status[x] = IF x \in over THEN "gone" ELSE p.status[x]
      BY <1>6, <2>2
    <3>4. ~ InSome(x)' /\ ~ NotSome(x)'
      BY <1>10, <3>1
    <3> HIDE DEF W, V
    <3>5. IsFiniteSet(V) /\ Cardinality(V) = Cardinality(W) - c /\ Cardinality(V) \in Nat /\ Cardinality(W) \in Nat
      <4>1. W \cap A(x) = A(x)
        BY <3>2
      <4>2. IsFiniteSet(V) /\ Cardinality(V) = Cardinality(W) - Cardinality(W \cap A(x))
        BY <3>2, <1>8, FS_Difference
      <4> QED BY <3>2, <4>1, <4>2, FS_CardinalityType
    <3>6. CASE A(x) = {}
      <4>1. x \notin over /\ p'.missing[x] = p.missing[x] /\ V = W
        BY <1>9, <3>2, <3>6
      <4> QED BY <1>2, <3>1, <3>3, <3>4, <4>1 DEF ToldInv, V
    <3>7. CASE A(x) # {} /\ V = {}
      <4>1. Cardinality(W) = c /\ W # {}
        <5>1. Cardinality(V) = 0
          BY <3>7, FS_EmptySet
        <5> QED BY <1>8, <3>2, <3>5, <3>7, <5>1
      <4>2. x \in over
        BY <1>9, <3>1, <3>7, <4>1
      <4> QED BY <1>2, <1>9, <3>3, <3>4, <3>7, <4>2 DEF ToldInv, V
    <3>8. CASE A(x) # {} /\ V # {}
      <4>1. Cardinality(V) > 0 /\ W # {}
        <5>1. Cardinality(V) # 0
          BY <3>5, <3>8, FS_EmptySet
        <5> QED BY <3>2, <3>5, <3>8, <5>1
      <4>2. c \in Nat /\ c < Cardinality(W)
        BY <1>8, <3>5, <4>1
      <4>3. x \notin over /\ p'.missing[x] = Cardinality(W) - c
        BY <1>9, <3>1, <3>8, <4>1, <4>2
      <4> QED BY <3>1, <3>3, <3>4, <3>5, <3>8, <4>1, <4>3 DEF ToldInv, V
    <3> QED BY <3>6, <3>7, <3>8
  <2>3. CASE x \notin p'.told
    BY <2>3 DEF ToldInv
  <2> QED BY <1>5, <2>1, <2>2, <2>3
<1>17. ASSUME NEW x \in Reqs PROVE RunningInv(x)'
  <2>1. RunningInv(x)
    BY DEF PInv
  <2>2. p'.status[x] \in {"new", "running"} => p'.status[x] = p.status[x]
    BY <1>6
  <2>3. \A t \in PRanks : x \in pr[t].process \/ x \in p.pend.in \/ Queued(t, x)
          => x \in pr[t].process \/ x \in p.pend.in \/ Queued(t, x)'
    BY <1>11
  <2>4. NotSome(x)' => NotSome(x)
    BY <1>10
  <2> QED BY <1>1, <1>2, <1>5, <2>1, <2>2, <2>3, <2>4 DEF RunningInv
<1>18. ASSUME NEW x \in Reqs, NEW t \in PRanks PROVE OnceInv(t, x)'
  <2>1. OnceInv(t, x)
    BY DEF PInv
  <2>2. x \in pr'[t].process => ~ Reported(t, x)'
    BY <1>1, <1>11, <2>1 DEF OnceInv
  <2>3. \A j \in 1..(n - 1) : j + 1 \in DOMAIN p.batches /\ p'.batches[j] = p.batches[j + 1]
    BY <1>3, <1>4
  <2>4. \A a, b \in DOMAIN p'.batches : x \in p'.batches[a].sent[t] /\ x \in p'.batches[b].sent[t] => a = b
    <3>1. SUFFICES ASSUME NEW a \in 1..(n - 1), NEW b \in 1..(n - 1),
                          x \in p'.batches[a].sent[t], x \in p'.batches[b].sent[t]
                   PROVE  a = b
      BY <1>4
    <3>2. a + 1 = b + 1
      BY <2>1, <2>3, <3>1 DEF OnceInv
    <3> QED BY <1>3, <3>2
  <2> QED BY <2>2, <2>4 DEF OnceInv
<1>19. StageInv'
  <2>1. \A j \in 1..(n - 1) : j + 1 \in DOMAIN p.batches /\ p'.batches[j] = p.batches[j + 1]
    BY <1>3, <1>4
  <2> QED BY <1>2, <1>4, <2>1 DEF PInv, StageInv
<1>20. ~ p'.error
  <2>1. \A x \in over : p.status[x] = "finished"
    <3>1. SUFFICES ASSUME NEW x \in Reqs, x \in over PROVE p.status[x] = "finished"
      BY <1>6
    <3>2. A(x) # {} /\ x \in p.told
      BY <1>9, <1>14, <3>1
    <3> QED BY <1>12, <3>2 DEF PInv, ToldInv
  <2> QED BY <1>6, <2>1 DEF PInv
<1>21. \A x \in Reqs : p'.missing[x] \in 1..NP
  <2>1. SUFFICES ASSUME NEW x \in Reqs PROVE p'.missing[x] \in 1..NP
    OBVIOUS
  <2>2. p'.missing[x] = IF x \in over THEN NP ELSE Count(p.missing[x], PReports(x))
    BY <1>6
  <2>3. PReports(x) \in Nat /\ p.missing[x] \in 1..NP /\ NP \in Nat \ {0}
    BY <1>2, <1>7, <1>8, <1>9
  <2> QED BY <2>2, <2>3 DEF Count
<1>22. expired' \subseteq p'.told /\ Len(p'.batches) <= MaxBatches
  BY <1>1, <1>2, <1>3, <1>4, <1>5 DEF PInv, n
<1> QED BY <1>1, <1>2, <1>15, <1>16, <1>17, <1>18, <1>19, <1>20, <1>21, <1>22 DEF PInv
-----------------------------------------------------------------------------
(* What the steps of the decode engine do, component by component *)

DOther == /\ d'.batch = d.batch /\ d'.bad = d.bad /\ d'.used = d.used
          /\ d'.missing = d.missing /\ d'.error = d.error

LEMMA DArriveSpec ==
  ASSUME Shape, NEW r \in Reqs, DArrive(r)
  PROVE  /\ Shape'
         /\ UNCHANGED <<config, p, pr, dr, notifs, expired, faults>>
         /\ r \in p.told /\ d.status[r] = "new"
         /\ d'.status = [d.status EXCEPT ![r] = "waiting"] /\ d'.need = d.need /\ DOther
<1>1. d \in DStates /\ d' = [d EXCEPT !.status[r] = "waiting"]
  BY DEF Shape, DArrive
<1>2. /\ d'.status \in [Reqs -> Statuses] /\ d'.status = [d.status EXCEPT ![r] = "waiting"]
      /\ d'.need = d.need /\ DOther
  BY <1>1 DEF DStates, Statuses, DOther
<1>3. d' \in DStates
  BY <1>1, <1>2 DEF DStates
<1>4. UNCHANGED <<config, p, pr, dr, notifs, expired, faults>> /\ r \in p.told /\ d.status[r] = "new"
  BY DEF DArrive
<1>5. Shape'
  BY <1>3, <1>4, Frozen DEF Shape, ProducerStates
<1> QED BY <1>2, <1>4, <1>5

LEMMA DAdmitSpec ==
  ASSUME Shape, NEW r \in Reqs, DAdmit(r)
  PROVE  /\ Shape'
         /\ UNCHANGED <<config, p, pr, dr, notifs, expired, faults>>
         /\ d.status[r] = "waiting" /\ DOther
         /\ \/ /\ d'.status = [d.status EXCEPT ![r] = "remote"] /\ d'.need = d.need \cup {Load(r)}
            \/ /\ d'.status = [d.status EXCEPT ![r] = "running"] /\ d'.need = d.need \cup {Note(r)}
               /\ r \in Hits
<1>1. d \in DStates
  BY DEF Shape
<1>2. UNCHANGED <<config, p, pr, dr, notifs, expired, faults>> /\ d.status[r] = "waiting"
  BY DEF DAdmit
<1>3. Load(r) \in Loads /\ Note(r) \in Loads
  BY DEF Load, Note, Loads
<1>4. CASE d' = [d EXCEPT !.status[r] = "remote", !.need = @ \cup {Load(r)}]
  <2>1. /\ d'.status \in [Reqs -> Statuses] /\ d'.status = [d.status EXCEPT ![r] = "remote"]
        /\ d'.need \in SUBSET Loads /\ d'.need = d.need \cup {Load(r)} /\ DOther
    BY <1>1, <1>3, <1>4 DEF DStates, Statuses, DOther
  <2>2. d' \in DStates
    BY <1>1, <1>4, <2>1 DEF DStates
  <2>3. Shape'
    BY <1>2, <2>2, Frozen DEF Shape, ProducerStates
  <2> QED BY <1>2, <2>1, <2>3
<1>5. CASE d' = [d EXCEPT !.status[r] = "running", !.need = @ \cup {Note(r)}] /\ r \in Hits
  <2>1. /\ d'.status \in [Reqs -> Statuses] /\ d'.status = [d.status EXCEPT ![r] = "running"]
        /\ d'.need \in SUBSET Loads /\ d'.need = d.need \cup {Note(r)} /\ DOther
    BY <1>1, <1>3, <1>5 DEF DStates, Statuses, DOther
  <2>2. d' \in DStates
    BY <1>1, <1>5, <2>1 DEF DStates
  <2>3. Shape'
    BY <1>2, <2>2, Frozen DEF Shape, ProducerStates
  <2> QED BY <1>2, <1>5, <2>1, <2>3
<1> QED BY <1>4, <1>5 DEF DAdmit, Load, Note

LEMMA DAbortSpec ==
  ASSUME Shape, NEW r \in Reqs, DAbort(r)
  PROVE  /\ Shape'
         /\ UNCHANGED <<config, p, pr, dr, notifs, expired, faults>> /\ DOther
         /\ \/ /\ d.status[r] = "waiting" /\ r \in Hits
               /\ d'.status = [d.status EXCEPT ![r] = "gone"] /\ d'.need = d.need \cup {Note(r)}
            \/ /\ d.status[r] = "remote"
               /\ d'.status = [d.status EXCEPT ![r] = "finished"] /\ d'.need = d.need
<1>1. d \in DStates
  BY DEF Shape
<1>2. UNCHANGED <<config, p, pr, dr, notifs, expired, faults>>
  BY DEF DAbort
<1>3. Note(r) \in Loads
  BY DEF Note, Loads
<1>4. CASE /\ r \in Hits /\ d.status[r] = "waiting"
           /\ d' = [d EXCEPT !.status[r] = "gone", !.need = @ \cup {Note(r)}]
  <2>1. /\ d'.status \in [Reqs -> Statuses] /\ d'.status = [d.status EXCEPT ![r] = "gone"]
        /\ d'.need \in SUBSET Loads /\ d'.need = d.need \cup {Note(r)} /\ DOther
    BY <1>1, <1>3, <1>4 DEF DStates, Statuses, DOther
  <2>2. d' \in DStates
    BY <1>1, <1>4, <2>1 DEF DStates
  <2>3. Shape'
    BY <1>2, <2>2, Frozen DEF Shape, ProducerStates
  <2> QED BY <1>2, <1>4, <2>1, <2>3
<1>5. CASE d.status[r] = "remote" /\ d' = [d EXCEPT !.status[r] = "finished"]
  <2>1. /\ d'.status \in [Reqs -> Statuses] /\ d'.status = [d.status EXCEPT ![r] = "finished"]
        /\ d'.need = d.need /\ DOther
    BY <1>1, <1>5 DEF DStates, Statuses, DOther
  <2>2. d' \in DStates
    BY <1>1, <1>5, <2>1 DEF DStates
  <2>3. Shape'
    BY <1>2, <2>2, Frozen DEF Shape, ProducerStates
  <2> QED BY <1>2, <1>5, <2>1, <2>3
<1> QED BY <1>4, <1>5 DEF DAbort, Note

LEMMA DScheduleSpec ==
  ASSUME Shape, DSchedule
  PROVE  /\ Shape'
         /\ UNCHANGED <<config, p, pr, dr, notifs, expired, faults>>
         /\ \A k \in DRanks : dr[k].pc = "idle" /\ d.batch.done[k] = {} /\ d'.batch.done[k] = {}
         /\ d.batch.left = {} /\ d.batch.invalid = {} /\ d'.batch.invalid = {}
         /\ d'.batch.recv = d.need /\ d'.batch.left = DRanks /\ d'.need = {}
         /\ d'.status = d.status /\ d'.bad = d.bad /\ d'.used = d.used
         /\ d'.missing = d.missing /\ d'.error = d.error
<1> DEFINE b == [NoBatch EXCEPT !.recv = d.need, !.left = DRanks]
<1>1. d \in DStates /\ d' = [d EXCEPT !.need = {}, !.batch = b] /\ d.batch = NoBatch
  BY DEF Shape, DSchedule
<1>2. /\ NoBatch.left = {} /\ NoBatch.invalid = {} /\ \A k \in DRanks : NoBatch.done[k] = {}
      /\ b.recv = d.need /\ b.left = DRanks /\ b.invalid = {} /\ \A k \in DRanks : b.done[k] = {}
      /\ b \in DBatches
  BY <1>1 DEF NoBatch, DBatches, DStates
<1> HIDE DEF b
<1>3. /\ d'.batch = b /\ d'.need = {}
      /\ d'.status = d.status /\ d'.bad = d.bad /\ d'.used = d.used
      /\ d'.missing = d.missing /\ d'.error = d.error
  BY <1>1 DEF DStates
<1>4. d' \in DStates
  BY <1>1, <1>2, <1>3 DEF DStates
<1>5. UNCHANGED <<config, p, pr, dr, notifs, expired, faults>> /\ \A k \in DRanks : dr[k].pc = "idle"
  BY DEF DSchedule
<1>6. Shape'
  BY <1>4, <1>5, Frozen DEF Shape, ProducerStates
<1> QED BY <1>1, <1>2, <1>3, <1>5, <1>6

DHit     == {r \in d.batch.invalid : d.status[r] = "remote"}
DBad     == IF Recompute THEN d.bad \cup DHit ELSE d.bad
DStat(r) == IF r \in DHit /\ ~ Recompute THEN "finished" ELSE d.status[r]

DUpdates(over) ==
  /\ over = {r \in Reqs : Done(d.missing[r], DReports(r))}
  /\ \A r \in Reqs :
       /\ d'.missing[r] = IF r \in over THEN ND ELSE Count(d.missing[r], DReports(r))
       /\ d'.status[r] = IF r \notin over THEN DStat(r)
                         ELSE IF DStat(r) = "remote" THEN "running" ELSE "gone"
  /\ d'.bad = DBad \ over
  /\ d'.used = d.used \cup {r \in over : DStat(r) = "remote" /\ r \notin DBad}
  /\ d'.error = (d.error \/ \E r \in over : DStat(r) \notin {"remote", "finished"})

LEMMA DUpdateSpec ==
  ASSUME Shape, DUpdate
  PROVE  /\ Shape'
         /\ UNCHANGED <<config, p, pr, dr, notifs, expired, faults>>
         /\ d.batch.left = {} /\ \A k \in DRanks : dr[k].pc = "idle"
         /\ d'.batch = NoBatch /\ d'.need = d.need
         /\ d'.batch.left = {} /\ d'.batch.invalid = {} /\ d'.batch.recv = {}
         /\ \A k \in DRanks : d'.batch.done[k] = {}
         /\ \A r \in Reqs : DReports(r) \in Nat
         /\ \E over : DUpdates(over)
<1> DEFINE over == {r \in Reqs : Done(d.missing[r], DReports(r))}
           missing == [r \in Reqs |-> IF r \in over THEN ND ELSE Count(d.missing[r], DReports(r))]
           status  == [r \in Reqs |-> IF r \notin over THEN DStat(r)
                                      ELSE IF DStat(r) = "remote" THEN "running" ELSE "gone"]
           used    == {r \in over : DStat(r) = "remote" /\ r \notin DBad}
           err     == d.error \/ \E r \in over : DStat(r) \notin {"remote", "finished"}
<1>1. d \in DStates /\ d.batch.left = {} /\ (\A k \in DRanks : dr[k].pc = "idle")
      /\ UNCHANGED <<config, p, pr, dr, notifs, expired, faults>>
  BY DEF Shape, DUpdate
<1>2. \A r \in Reqs : [x \in Reqs |-> IF x \in DHit /\ ~ Recompute THEN "finished" ELSE d.status[x]][r] = DStat(r)
  BY DEF DStat
<1>3. d' = [d EXCEPT !.batch = NoBatch, !.bad = DBad \ over, !.missing = missing, !.status = status,
                     !.used = @ \cup used, !.error = err]
  <2> DEFINE stat == [x \in Reqs |-> IF x \in DHit /\ ~ Recompute THEN "finished" ELSE d.status[x]]
             missing1 == [r \in Reqs |-> IF r \in over THEN ND ELSE Count(d.missing[r], DReports(r))]
             status1 == [r \in Reqs |-> IF r \notin over THEN stat[r]
                                        ELSE IF stat[r] = "remote" THEN "running" ELSE "gone"]
             used1 == {r \in over : stat[r] = "remote" /\ r \notin DBad}
             err1  == d.error \/ \E r \in over : stat[r] \notin {"remote", "finished"}
  <2>1. d' = [d EXCEPT !.batch = NoBatch, !.bad = DBad \ over, !.missing = missing1, !.status = status1,
                       !.used = @ \cup used1, !.error = err1]
    BY <1>1 DEF DUpdate, DHit, DBad, DStates
  <2>2. \A r \in Reqs : stat[r] = DStat(r)
    BY <1>2
  <2> HIDE DEF stat
  <2>3. status1 = status /\ used1 = used /\ err1 = err /\ missing1 = missing
    BY <2>2
  <2> QED BY <2>1, <2>3
<1>4. DHit \subseteq Reqs /\ DBad \subseteq Reqs
  BY <1>1 DEF DHit, DBad, DStates, DBatches
<1>5. \A r \in Reqs : DReports(r) \in Nat
  <2>1. IsFiniteSet(DRanks)
    BY RanksFinite DEF Shape
  <2> QED BY <2>1, FS_Subset, FS_CardinalityType DEF DReports
<1>6. missing \in [Reqs -> Nat]
  <2>1. \A r \in Reqs : d.missing[r] \in Nat /\ ND \in Nat
    BY <1>1, ConfigSpec DEF DStates, Shape
  <2> QED BY <1>5, <2>1 DEF Count
<1>7. status \in [Reqs -> Statuses]
  BY <1>1 DEF DStates, Statuses, DStat
<1>8. /\ \A r \in Reqs : missing[r] = IF r \in over THEN ND ELSE Count(d.missing[r], DReports(r))
      /\ \A r \in Reqs : status[r] = IF r \notin over THEN DStat(r)
                                     ELSE IF DStat(r) = "remote" THEN "running" ELSE "gone"
      /\ used \subseteq Reqs /\ err \in BOOLEAN /\ over \subseteq Reqs
  OBVIOUS
<1>9. /\ NoBatch \in DBatches /\ NoBatch.left = {} /\ NoBatch.invalid = {} /\ NoBatch.recv = {}
      /\ \A k \in DRanks : NoBatch.done[k] = {}
  BY DEF NoBatch, DBatches
<1> HIDE DEF missing, status
<1>10. /\ d'.batch = NoBatch /\ d'.need = d.need /\ d'.bad = DBad \ over /\ d'.used = d.used \cup used
       /\ d'.missing = missing /\ d'.status = status /\ d'.error = err
  BY <1>1, <1>3 DEF DStates
<1>11. DUpdates(over)
  BY <1>8, <1>10 DEF DUpdates
<1> HIDE DEF over, used, err
<1>12. d' \in DStates
  BY <1>1, <1>3, <1>4, <1>6, <1>7, <1>8, <1>9, <1>10 DEF DStates
<1>13. Shape'
  BY <1>1, <1>12, Frozen DEF Shape, ProducerStates
<1> QED BY <1>1, <1>5, <1>9, <1>10, <1>11, <1>13

\* One worker of D takes a step.
OneWorker(k) == \A l \in DRanks \ {k} : dr'[l] = dr[l]

LEMMA DStartSpec ==
  ASSUME Shape, NEW k \in DRanks, DStart(k)
  PROVE  /\ Shape'
         /\ UNCHANGED <<config, p, pr, notifs, expired, faults>>
         /\ dr[k].pc = "idle" /\ k \in d.batch.left /\ OneWorker(k)
         /\ dr'[k] = [dr[k] EXCEPT !.pc = "load", !.todo = d.batch.recv]
         /\ d'.need = d.need /\ d'.status = d.status /\ d'.bad = d.bad /\ d'.used = d.used
         /\ d'.missing = d.missing /\ d'.error = d.error
         /\ d'.batch.recv = d.batch.recv /\ d'.batch.left = d.batch.left \ {k}
         /\ d'.batch.done = d.batch.done /\ d'.batch.invalid = d.batch.invalid
<1> DEFINE b == [d.batch EXCEPT !.left = @ \ {k}]
           v == [dr[k] EXCEPT !.pc = "load", !.todo = d.batch.recv]
<1>1. d \in DStates /\ d.batch \in DBatches /\ dr[k] \in WorkerStates
  BY DEF Shape, DStates
<1>2. /\ b \in DBatches /\ b.recv = d.batch.recv /\ b.left = d.batch.left \ {k}
      /\ b.done = d.batch.done /\ b.invalid = d.batch.invalid
  BY <1>1 DEF DBatches
<1>3. v \in WorkerStates
  BY <1>1 DEF WorkerStates, DBatches
<1>4. d' = [d EXCEPT !.batch = b] /\ dr' = [dr EXCEPT ![k] = v] /\ dr[k].pc = "idle" /\ k \in d.batch.left
      /\ UNCHANGED <<config, p, pr, notifs, expired, faults>>
  BY <1>1 DEF DStart, DStates, Shape, WorkerStates
<1> HIDE DEF b
<1>5. /\ d'.batch = b /\ d'.need = d.need /\ d'.status = d.status /\ d'.bad = d.bad /\ d'.used = d.used
      /\ d'.missing = d.missing /\ d'.error = d.error
  BY <1>1, <1>4 DEF DStates
<1>6. d' \in DStates
  BY <1>1, <1>2, <1>4, <1>5 DEF DStates
<1>7. OneWorker(k) /\ dr'[k] = v
  BY <1>4 DEF Shape, OneWorker
<1> HIDE DEF v
<1>8. dr' \in [DRanks -> WorkerStates]
  BY <1>3, <1>4 DEF Shape
<1>9. Shape'
  BY <1>4, <1>6, <1>8, Frozen DEF Shape, ProducerStates
<1> QED BY <1>2, <1>4, <1>5, <1>7, <1>9 DEF v

LEMMA MaySpec ==
  ASSUME Shape, NEW kind, NEW S, IsFiniteSet(S), May(kind, Cardinality(S))
  PROVE  /\ faults + Cardinality(S) \in Nat /\ faults + Cardinality(S) <= MaxFaults
         /\ S # {} => kind \in Faults
<1>1. Cardinality(S) \in Nat /\ (Cardinality(S) = 0 <=> S = {})
  BY FS_CardinalityType, FS_EmptySet
<1> DEFINE n == Cardinality(S)
<1>2. n = 0 \/ (kind \in Faults /\ faults + n <= MaxFaults)
  BY DEF May
<1>3. faults \in Nat /\ faults <= MaxFaults
  BY DEF Shape
<1> HIDE DEF n
<1>4. n \in Nat /\ (n = 0 <=> S = {})
  BY <1>1 DEF n
<1>5. faults + n \in Nat /\ faults + n <= MaxFaults
  BY <1>2, <1>3, <1>4
<1>6. S # {} => kind \in Faults
  BY <1>2, <1>4
<1> QED BY <1>5, <1>6 DEF n

\* v is w but for its transfers and failures.
Alike(v, w) ==
  /\ v.pc = w.pc /\ v.todo = w.todo /\ v.meta = w.meta /\ v.local = w.local
  /\ v.agents = w.agents /\ v.jobs = w.jobs /\ v.ready = w.ready /\ v.got = w.got /\ v.done = w.done

ReadsBegin(k, w, r, bad) ==
  /\ r \in w.local /\ d' = d
  /\ bad # {} => "setup" \in Faults
  /\ Alike(dr'[k], w)
  /\ \A x \in Reqs \ {r} : dr'[k].xfer[x] = w.xfer[x]
  /\ \A t \in PRanks : dr'[k].xfer[r][t] = IF t \in Reads(k) \ bad THEN "proc" ELSE w.xfer[r][t]
  /\ dr'[k].failed = IF bad = {} THEN w.failed ELSE w.failed \cup {r}
  /\ dr'[k].invalid = IF bad = {} \/ Hma THEN w.invalid ELSE w.invalid \cup {r}
  /\ \A x \in Reqs, t \in PRanks : About(t, x)' = About(t, x)

DKept == /\ d'.batch = d.batch /\ d'.bad = d.bad /\ d'.used = d.used
         /\ d'.missing = d.missing /\ d'.status = d.status /\ d'.need = d.need

NotesSent(k, w, r) ==
  /\ r \notin w.local /\ dr'[k] = w
  /\ DKept /\ d'.error = (d.error \/ ~ w.agents)
  /\ \A x \in Reqs, t \in PRanks :
       \/ About(t, x)' = About(t, x)
       \/ x = r /\ t \in Reads(k) /\ About(t, x)' = About(t, x) \cup {[from |-> k, req |-> r, id |-> "P"]}

LEMMA ReadBlocksSpec ==
  ASSUME Shape, NEW k \in DRanks, NEW w \in WorkerStates, NEW r \in Reqs,
         ReadBlocks(k, w, r), UNCHANGED <<config, p, pr, expired>>
  PROVE  /\ Shape' /\ OneWorker(k)
         /\ \/ \E bad \in SUBSET Reads(k) : ReadsBegin(k, w, r, bad)
            \/ NotesSent(k, w, r)
<1>1. IsFiniteSet(Reads(k)) /\ Reads(k) \subseteq PRanks
  BY ReadsSpec DEF Shape
<1>2. CASE r \in w.local
  <2> PICK bad \in SUBSET Reads(k) :
         LET v == [w EXCEPT !.xfer[r] = [t \in PRanks |->
                     IF t \in Reads(k) \ bad THEN "proc" ELSE @[t]]]
         IN
         /\ May("setup", Cardinality(bad))
         /\ dr' = [dr EXCEPT ![k] = IF bad = {} THEN v ELSE SetupFailed(v, r)]
         /\ faults' = faults + Cardinality(bad)
         /\ notifs' = [t \in PRanks |->
              IF w.agents /\ t \in Targets(k) \ Reads(k)
              THEN notifs[t] \cup {[from |-> k, req |-> r, id |-> "D"]} ELSE notifs[t]]
         /\ UNCHANGED d
    BY <1>2 DEF ReadBlocks
  <2> DEFINE x1 == [t \in PRanks |-> IF t \in Reads(k) \ bad THEN "proc" ELSE w.xfer[r][t]]
             v == [w EXCEPT !.xfer[r] = x1]
             u == IF bad = {} THEN v ELSE SetupFailed(v, r)
  <2>1. IsFiniteSet(bad)
    BY <1>1, FS_Subset
  <2>2. faults' \in Nat /\ faults' <= MaxFaults /\ (bad # {} => "setup" \in Faults)
    BY <2>1, MaySpec
  <2>3. dr' = [dr EXCEPT ![k] = u]
    BY DEF WorkerStates
  <2>4. x1 \in [PRanks -> {"none", "proc", "ok", "err"}]
    BY DEF WorkerStates
  <2>5. \A t \in PRanks : x1[t] = IF t \in Reads(k) \ bad THEN "proc" ELSE w.xfer[r][t]
    OBVIOUS
  <2> HIDE DEF x1
  <2>6. /\ v \in WorkerStates /\ Alike(v, w) /\ v.failed = w.failed /\ v.invalid = w.invalid
        /\ v.xfer = [w.xfer EXCEPT ![r] = x1]
    BY <2>4 DEF WorkerStates, Alike
  <2> HIDE DEF v
  <2>7. /\ u \in WorkerStates /\ Alike(u, w) /\ u.xfer = v.xfer
        /\ u.failed = IF bad = {} THEN w.failed ELSE w.failed \cup {r}
        /\ u.invalid = IF bad = {} \/ Hma THEN w.invalid ELSE w.invalid \cup {r}
    <3>1. CASE bad = {}
      BY <2>6, <3>1 DEF u
    <3>2. CASE bad # {}
      <4>1. u = [v EXCEPT !.failed = @ \cup {r}, !.invalid = IF Hma THEN @ ELSE @ \cup {r}]
        BY <3>2 DEF u, SetupFailed
      <4> HIDE DEF u
      <4> QED BY <2>6, <3>2, <4>1 DEF WorkerStates, Alike
    <3> QED BY <3>1, <3>2
  <2> HIDE DEF u
  <2>8. dr'[k] = u /\ OneWorker(k) /\ dr' \in [DRanks -> WorkerStates]
    BY <2>3, <2>7 DEF Shape, OneWorker
  <2>9. notifs' \in [PRanks -> SUBSET Notes] /\ \A t \in PRanks : IsFiniteSet(notifs'[t])
    <3>1. [from |-> k, req |-> r, id |-> "D"] \in Notes
      BY DEF Notes
    <3>2. \A t \in PRanks : notifs[t] \subseteq Notes /\ IsFiniteSet(notifs[t])
      BY DEF Shape
    <3> QED BY <3>1, <3>2, FS_AddElement
  <2>10. \A x \in Reqs, t \in PRanks : About(t, x)' = About(t, x)
    BY DEF About
  <2>11. Shape'
    BY <2>2, <2>8, <2>9, Frozen DEF Shape, ProducerStates
  <2>12. /\ \A x \in Reqs \ {r} : u.xfer[x] = w.xfer[x]
         /\ \A t \in PRanks : u.xfer[r][t] = IF t \in Reads(k) \ bad THEN "proc" ELSE w.xfer[r][t]
    BY <2>5, <2>6, <2>7 DEF WorkerStates
  <2>13. ReadsBegin(k, w, r, bad)
    BY <1>2, <2>2, <2>7, <2>8, <2>10, <2>12 DEF ReadsBegin
  <2> QED BY <2>8, <2>11, <2>13
<1>3. CASE r \notin w.local
  <2> DEFINE m(t) == [from |-> k, req |-> r, id |-> IF t \in Reads(k) THEN "P" ELSE "D"]
  <2> PICK lost \in SUBSET Reads(k) :
         /\ May("notify", Cardinality(lost))
         /\ dr' = [dr EXCEPT ![k] = w]
         /\ faults' = faults + Cardinality(lost)
         /\ d' = [d EXCEPT !.error = @ \/ ~ w.agents]
         /\ notifs' = [t \in PRanks |->
              IF ~ w.agents \/ t \in lost \/ t \notin Targets(k) THEN notifs[t]
              ELSE notifs[t] \cup {m(t)}]
    BY <1>3 DEF ReadBlocks
  <2>1. IsFiniteSet(lost)
    BY <1>1, FS_Subset
  <2>2. faults' \in Nat /\ faults' <= MaxFaults
    BY <2>1, MaySpec
  <2>3. dr'[k] = w /\ OneWorker(k) /\ dr' \in [DRanks -> WorkerStates]
    BY DEF Shape, OneWorker
  <2>4. DKept /\ d'.error = (d.error \/ ~ w.agents) /\ d' \in DStates
    <3>1. d \in DStates /\ (d.error \/ ~ w.agents) \in BOOLEAN
      BY DEF Shape
    <3> QED BY <3>1 DEF DStates, DKept
  <2>5. notifs' \in [PRanks -> SUBSET Notes] /\ \A t \in PRanks : IsFiniteSet(notifs'[t])
    <3>1. \A t \in PRanks : m(t) \in Notes
      BY DEF Notes
    <3>2. \A t \in PRanks : notifs[t] \subseteq Notes /\ IsFiniteSet(notifs[t])
      BY DEF Shape
    <3> HIDE DEF m
    <3> DEFINE S(t) == IF ~ w.agents \/ t \in lost \/ t \notin Targets(k) THEN notifs[t]
                       ELSE notifs[t] \cup {m(t)}
    <3>3. \A t \in PRanks : S(t) \in SUBSET Notes /\ IsFiniteSet(S(t))
      BY <3>1, <3>2, FS_AddElement
    <3>4. notifs' = [t \in PRanks |-> S(t)]
      OBVIOUS
    <3> HIDE DEF S
    <3> QED BY <3>3, <3>4
  <2>6. ASSUME NEW x \in Reqs, NEW t \in PRanks
        PROVE  \/ About(t, x)' = About(t, x)
               \/ x = r /\ t \in Reads(k) /\ About(t, x)' = About(t, x) \cup {[from |-> k, req |-> r, id |-> "P"]}
    <3>1. notifs'[t] = notifs[t] \/ notifs'[t] = notifs[t] \cup {m(t)}
      OBVIOUS
    <3>2. CASE notifs'[t] = notifs[t]
      BY <3>2 DEF About
    <3>3. CASE notifs'[t] = notifs[t] \cup {m(t)}
      <4>1. CASE t \in Reads(k) /\ x = r
        <5>1. m(t) = [from |-> k, req |-> r, id |-> "P"] /\ m(t).req = r /\ m(t).id = "P"
          BY <4>1
        <5> HIDE DEF m
        <5> QED BY <3>3, <4>1, <5>1 DEF About
      <4>2. CASE t \notin Reads(k)
        <5>1. m(t).id = "D"
          BY <4>2
        <5> HIDE DEF m
        <5> QED BY <3>3, <5>1 DEF About
      <4>3. CASE x # r
        <5>1. m(t).req = r
          OBVIOUS
        <5> HIDE DEF m
        <5> QED BY <3>3, <4>3, <5>1 DEF About
      <4> QED BY <4>1, <4>2, <4>3
    <3> QED BY <3>1, <3>2, <3>3
  <2>7. Shape'
    BY <2>2, <2>3, <2>4, <2>5, Frozen DEF Shape, ProducerStates
  <2>8. NotesSent(k, w, r)
    BY <1>3, <2>3, <2>4, <2>6 DEF NotesSent
  <2> QED BY <2>3, <2>7, <2>8
<1> QED BY <1>2, <1>3

LEMMA AppendRange ==
  ASSUME NEW S, NEW s \in Seq(S), NEW e \in S
  PROVE  /\ Range(Append(s, e)) = Range(s) \cup {e} /\ Append(s, e) # <<>>
         /\ IsInjective(s) /\ e \notin Range(s) => IsInjective(Append(s, e))
<1>1. /\ DOMAIN s = 1..Len(s) /\ Len(s) \in Nat
      /\ DOMAIN Append(s, e) = 1..(Len(s) + 1)
      /\ \A i \in 1..Len(s) : Append(s, e)[i] = s[i]
      /\ Append(s, e)[Len(s) + 1] = e
  OBVIOUS
<1>2. 1..(Len(s) + 1) = 1..Len(s) \cup {Len(s) + 1} /\ Len(s) + 1 \notin 1..Len(s)
  BY <1>1
<1>3. Range(Append(s, e)) = Range(s) \cup {e}
  BY <1>1, <1>2 DEF Range
<1>4. IsInjective(s) /\ e \notin Range(s) => IsInjective(Append(s, e))
  BY <1>1, <1>2 DEF Range, IsInjective
<1> QED BY <1>1, <1>3, <1>4

LEMMA TailRange ==
  ASSUME NEW S, NEW s \in Seq(S), s # <<>>, IsInjective(s)
  PROVE  /\ Range(Tail(s)) = Range(s) \ {Head(s)} /\ Head(s) \in Range(s) /\ Head(s) = s[1]
         /\ IsInjective(Tail(s)) /\ Tail(s) \in Seq(S)
         /\ Len(s) = 1 => Range(s) = {Head(s)}
         /\ Len(s) # 1 => Tail(s) # <<>>
<1> DEFINE n == Len(s)
<1>1. /\ DOMAIN s = 1..n /\ n \in Nat /\ n > 0
      /\ Tail(s) \in Seq(S) /\ Len(Tail(s)) = n - 1 /\ DOMAIN Tail(s) = 1..(n - 1)
      /\ \A i \in 1..(n - 1) : Tail(s)[i] = s[i + 1] /\ i + 1 \in 1..n /\ i + 1 # 1
      /\ Head(s) = s[1]
  OBVIOUS
<1>2. \A a, b \in 1..n : s[a] = s[b] => a = b
  BY <1>1 DEF IsInjective
<1> HIDE DEF n
<1>3. \A i \in 1..n : i = 1 \/ (i - 1 \in 1..(n - 1) /\ (i - 1) + 1 = i)
  BY <1>1
<1>4. 1 \in 1..n
  BY <1>1
<1>5. \A e \in Range(Tail(s)) : e \in Range(s) /\ e # Head(s)
  <2>1. SUFFICES ASSUME NEW i \in 1..(n - 1)
                 PROVE  Tail(s)[i] \in Range(s) /\ Tail(s)[i] # Head(s)
    BY <1>1 DEF Range
  <2> QED BY <1>1, <1>2, <1>4 DEF Range
<1>6. \A e \in Range(s) : e = Head(s) \/ e \in Range(Tail(s))
  <2>1. SUFFICES ASSUME NEW i \in 1..n PROVE s[i] = Head(s) \/ s[i] \in Range(Tail(s))
    BY <1>1 DEF Range
  <2>2. CASE i = 1
    BY <1>1, <2>2
  <2>3. CASE i # 1
    <3>1. i - 1 \in 1..(n - 1) /\ (i - 1) + 1 = i
      BY <1>3, <2>3
    <3>2. Tail(s)[i - 1] = s[i]
      BY <1>1, <3>1
    <3> QED BY <1>1, <3>1, <3>2 DEF Range
  <2> QED BY <2>2, <2>3
<1>7. IsInjective(Tail(s))
  <2>1. \A a, b \in 1..(n - 1) : a + 1 = b + 1 => a = b
    BY <1>1
  <2> QED BY <1>1, <1>2, <2>1 DEF IsInjective
<1>8. Head(s) \in Range(s)
  BY <1>1, <1>4 DEF Range
<1>9. n = 1 => Range(s) = {Head(s)}
  BY <1>1 DEF Range
<1>10. n # 1 => Tail(s) # <<>>
  <2> DEFINE l == Len(Tail(s))
  <2>1. l = n - 1
    BY <1>1
  <2>2. Tail(s) = <<>> => l = 0
    <3>1. Len(<<>>) = 0
      OBVIOUS
    <3> QED BY <3>1
  <2> HIDE DEF l
  <2>3. n # 1 => l # 0
    BY <1>1, <2>1
  <2> QED BY <2>2, <2>3
<1>11. Range(Tail(s)) = Range(s) \ {Head(s)}
  BY <1>5, <1>6
<1> QED BY <1>1, <1>7, <1>8, <1>9, <1>10, <1>11 DEF n


JoinsAdded(v, w, r) ==
  /\ v.ready = w.ready /\ v.failed = w.failed /\ v.invalid = w.invalid
  /\ \A x \in Reqs : Joins(v, x) <=> Joins(w, x) \/ x = r
  /\ ~ Joins(w, r) => JobsInv(v)
  /\ \A x : Marked(v, x) => Marked(w, x)
ReadyAdded(v, w, r) ==
  /\ v.ready = Append(w.ready, r) /\ v.failed = w.failed /\ v.invalid = w.invalid /\ v.jobs = w.jobs
FailedAdded(v, w, r) ==
  /\ v.ready = w.ready /\ v.jobs = w.jobs
  /\ v.failed = IF r \in w.local \/ Hma THEN w.failed \cup {r} ELSE w.failed
  /\ v.invalid = IF r \in w.local /\ ~ Hma THEN w.invalid \cup {r} ELSE w.invalid
\* v is w but for its handshakes and failures.
SameReads(v, w) ==
  /\ v.pc = w.pc /\ v.todo = w.todo /\ v.meta = w.meta /\ v.local = w.local
  /\ v.agents = w.agents /\ v.xfer = w.xfer /\ v.got = w.got /\ v.done = w.done

LEMMA MarksSpec ==
  ASSUME NEW w \in WorkerStates, NEW r \in Reqs
  PROVE  /\ MarkInvalid(w, r) \in WorkerStates /\ SameReads(MarkInvalid(w, r), w)
         /\ MarkInvalid(w, r).ready = w.ready /\ MarkInvalid(w, r).jobs = w.jobs
         /\ MarkInvalid(w, r).failed = w.failed
         /\ MarkInvalid(w, r).invalid = IF r \in w.local /\ ~ Hma THEN w.invalid \cup {r} ELSE w.invalid
         /\ MarkFailed(w, r) \in WorkerStates /\ SameReads(MarkFailed(w, r), w)
         /\ MarkFailed(w, r).ready = w.ready /\ MarkFailed(w, r).jobs = w.jobs
         /\ MarkFailed(w, r).invalid = w.invalid
         /\ MarkFailed(w, r).failed = IF r \in w.local \/ Hma THEN w.failed \cup {r} ELSE w.failed
<1> DEFINE a == [w EXCEPT !.failed = @ \cup {r}]
           b == [w EXCEPT !.invalid = @ \cup {r}]
           MI == MarkInvalid(w, r)
           MF == MarkFailed(w, r)
<1>1. /\ a \in WorkerStates /\ SameReads(a, w) /\ a.ready = w.ready /\ a.jobs = w.jobs
      /\ a.invalid = w.invalid /\ a.failed = w.failed \cup {r}
  BY DEF WorkerStates, SameReads
<1>2. /\ b \in WorkerStates /\ SameReads(b, w) /\ b.ready = w.ready /\ b.jobs = w.jobs
      /\ b.failed = w.failed /\ b.invalid = w.invalid \cup {r}
  BY DEF WorkerStates, SameReads
<1>3. MI = IF r \in w.local /\ ~ Hma THEN b ELSE w
  BY DEF MarkInvalid
<1>4. MF = IF r \in w.local \/ Hma THEN a ELSE w
  BY DEF MarkFailed
<1>5. SameReads(w, w)
  BY DEF SameReads
<1> HIDE DEF a, b, MI, MF
<1>6. /\ MI \in WorkerStates /\ SameReads(MI, w) /\ MI.ready = w.ready /\ MI.jobs = w.jobs
      /\ MI.failed = w.failed
      /\ MI.invalid = IF r \in w.local /\ ~ Hma THEN w.invalid \cup {r} ELSE w.invalid
  <2>1. CASE r \in w.local /\ ~ Hma
    <3>1. MI = b
      BY <1>3, <2>1
    <3> QED BY <1>2, <2>1, <3>1
  <2>2. CASE ~ (r \in w.local /\ ~ Hma)
    <3>1. MI = w
      BY <1>3, <2>2
    <3> QED BY <1>5, <2>2, <3>1
  <2> QED BY <2>1, <2>2
<1>7. /\ MF \in WorkerStates /\ SameReads(MF, w) /\ MF.ready = w.ready /\ MF.jobs = w.jobs
      /\ MF.invalid = w.invalid
      /\ MF.failed = IF r \in w.local \/ Hma THEN w.failed \cup {r} ELSE w.failed
  <2>1. CASE r \in w.local \/ Hma
    <3>1. MF = a
      BY <1>4, <2>1
    <3> QED BY <1>1, <2>1, <3>1
  <2>2. CASE ~ (r \in w.local \/ Hma)
    <3>1. MF = w
      BY <1>4, <2>2
    <3> QED BY <1>5, <2>2, <3>1
  <2> QED BY <2>1, <2>2
<1> QED BY <1>6, <1>7 DEF MI, MF

LEMMA JoinedSpec ==
  ASSUME NEW w \in WorkerStates, NEW r \in Reqs, JobsInv(w)
  PROVE  /\ Joined(w, r) \in WorkerStates /\ SameReads(Joined(w, r), w)
         /\ \/ JoinsAdded(Joined(w, r), w, r)
            \/ ReadyAdded(Joined(w, r), w, r) /\ w.jobs # <<>>
            \/ FailedAdded(Joined(w, r), w, r) /\ w.jobs # <<>>
<1> DEFINE n == Len(w.jobs)
           v == Joined(w, r)
<1>1. w.jobs \in Seq(JobStates) /\ w.ready \in Seq(Reqs) /\ n \in Nat /\ DOMAIN w.jobs = 1..n
  BY DEF WorkerStates
<1>2. CASE n > 0 /\ w.jobs[n].first /\ w.jobs[n].res = "running"
  <2> DEFINE j == [w.jobs[n] EXCEPT !.cbs = Append(@, r)]
             js == [w.jobs EXCEPT ![n] = j]
  <2>1. n \in 1..n /\ w.jobs[n] \in JobStates
    BY <1>1, <1>2
  <2>2. j \in JobStates /\ j.cbs = Append(w.jobs[n].cbs, r) /\ j.marked = w.jobs[n].marked
    <3>1. Append(w.jobs[n].cbs, r) \in Seq(Reqs)
      BY <2>1 DEF JobStates
    <3> QED BY <2>1, <3>1 DEF JobStates
  <2>3. v = [w EXCEPT !.jobs = js]
    BY <1>1, <1>2 DEF Joined, WorkerStates
  <2>4. w.jobs[n].cbs \in Seq(Reqs)
    BY <2>1 DEF JobStates
  <2> HIDE DEF j
  <2>5. js \in Seq(JobStates) /\ DOMAIN js = 1..n /\ Len(js) = n
        /\ js[n] = j /\ \A i \in 1..n : i # n => js[i] = w.jobs[i]
    BY <1>1, <2>1, <2>2
  <2> HIDE DEF js, v
  <2>6. v \in WorkerStates /\ SameReads(v, w) /\ v.jobs = js
        /\ v.ready = w.ready /\ v.failed = w.failed /\ v.invalid = w.invalid
    BY <2>3, <2>5 DEF WorkerStates, SameReads
  <2>7. /\ Range(j.cbs) = Range(w.jobs[n].cbs) \cup {r} /\ j.cbs # <<>>
        /\ IsInjective(w.jobs[n].cbs) /\ r \notin Range(w.jobs[n].cbs) => IsInjective(j.cbs)
    BY <2>2, <2>4, AppendRange
  <2>8. \A x \in Reqs : Joins(v, x) <=> Joins(w, x) \/ x = r
    <3>1. \A i \in 1..n : i # n => js[i] = w.jobs[i]
      BY <2>5
    <3> QED BY <1>1, <2>1, <2>5, <2>6, <2>7, <3>1 DEF Joins
  <2>9. ASSUME ~ Joins(w, r) PROVE JobsInv(v)
    <3>1. \A i \in 1..n : r \notin Range(w.jobs[i].cbs)
      BY <1>1, <2>9 DEF Joins
    <3>2. \A i \in 1..n : Range(js[i].cbs) = IF i = n THEN Range(w.jobs[i].cbs) \cup {r} ELSE Range(w.jobs[i].cbs)
      BY <2>5, <2>7
    <3>3. \A i \in 1..n : js[i].cbs # <<>> /\ IsInjective(js[i].cbs)
      BY <1>1, <2>1, <2>5, <2>7, <3>1 DEF JobsInv
    <3>4. \A a, b \in 1..n : a # b => Range(w.jobs[a].cbs) \cap Range(w.jobs[b].cbs) = {}
      BY <1>1 DEF JobsInv
    <3>5. \A a, b \in 1..n : a # b => Range(js[a].cbs) \cap Range(js[b].cbs) = {}
      BY <3>1, <3>2, <3>4
    <3>6. \A i \in 1..n : i > 1 => ~ js[i].marked
      BY <1>1, <2>2, <2>5 DEF JobsInv
    <3> QED BY <2>5, <2>6, <3>3, <3>5, <3>6 DEF JobsInv
  <2>10. \A x : Marked(v, x) => Marked(w, x)
    <3>1. 1 \in 1..n /\ w.jobs # <<>>
      BY <1>1, <1>2
    <3>2. w.jobs[1].cbs \in Seq(Reqs) /\ w.jobs[1].cbs # <<>>
      <4>1. w.jobs[1] \in JobStates
        BY <1>1, <3>1
      <4> QED BY <1>1, <3>1, <4>1 DEF JobsInv, JobStates
    <3>3. Append(w.jobs[1].cbs, r)[1] = w.jobs[1].cbs[1]
      BY <3>2
    <3>4. js[1].cbs[1] = w.jobs[1].cbs[1] /\ js[1].marked = w.jobs[1].marked
      BY <2>2, <2>5, <3>1, <3>3
    <3> QED BY <2>6, <3>1, <3>4 DEF Marked
  <2>11. JoinsAdded(v, w, r)
    BY <2>6, <2>8, <2>9, <2>10 DEF JoinsAdded
  <2> QED BY <2>6, <2>11 DEF v
<1>3. CASE n > 0 /\ w.jobs[n].first /\ w.jobs[n].res = "ok"
  <2>1. v = [w EXCEPT !.ready = Append(@, r)] /\ w.jobs # <<>>
    BY <1>1, <1>3 DEF Joined
  <2>2. Append(w.ready, r) \in Seq(Reqs)
    BY <1>1
  <2> HIDE DEF v
  <2>3. v \in WorkerStates /\ SameReads(v, w) /\ ReadyAdded(v, w, r)
    BY <2>1, <2>2 DEF WorkerStates, SameReads, ReadyAdded
  <2> QED BY <2>1, <2>3 DEF v
<1>4. CASE n > 0 /\ w.jobs[n].first /\ w.jobs[n].res \notin {"running", "ok"}
  <2>1. v = MarkFailed(MarkInvalid(w, r), r) /\ w.jobs # <<>>
    BY <1>1, <1>4 DEF Joined
  <2> DEFINE u == MarkInvalid(w, r)
  <2>2. u \in WorkerStates /\ SameReads(u, w) /\ u.ready = w.ready /\ u.jobs = w.jobs /\ u.failed = w.failed
        /\ u.invalid = IF r \in w.local /\ ~ Hma THEN w.invalid \cup {r} ELSE w.invalid
    BY MarksSpec
  <2> HIDE DEF u, v
  <2>3. v = MarkFailed(u, r)
    BY <2>1 DEF u
  <2>4. v \in WorkerStates /\ SameReads(v, u) /\ v.ready = u.ready /\ v.jobs = u.jobs /\ v.invalid = u.invalid
        /\ v.failed = IF r \in u.local \/ Hma THEN u.failed \cup {r} ELSE u.failed
    BY <2>2, <2>3, MarksSpec
  <2>5. SameReads(v, w) /\ u.local = w.local
    BY <2>2, <2>4 DEF SameReads
  <2>6. FailedAdded(v, w, r)
    BY <2>2, <2>4, <2>5 DEF FailedAdded
  <2> QED BY <2>1, <2>4, <2>5, <2>6 DEF v
<1>5. CASE ~ (n > 0 /\ w.jobs[n].first)
  <2> DEFINE j == [res |-> "running", first |-> TRUE, cbs |-> <<r>>, marked |-> FALSE]
             js == Append(w.jobs, j)
  <2>1. v = [w EXCEPT !.jobs = js]
    BY <1>5 DEF Joined
  <2>2. j \in JobStates /\ j.cbs = <<r>> /\ ~ j.marked
    BY DEF JobStates
  <2> HIDE DEF j
  <2>3. js \in Seq(JobStates) /\ DOMAIN js = 1..(n + 1) /\ js[n + 1] = j /\ \A i \in 1..n : js[i] = w.jobs[i]
    BY <1>1, <2>2
  <2> HIDE DEF js, v
  <2>4. v \in WorkerStates /\ SameReads(v, w) /\ v.jobs = js
        /\ v.ready = w.ready /\ v.failed = w.failed /\ v.invalid = w.invalid
    BY <2>1, <2>3 DEF WorkerStates, SameReads
  <2>5. Range(<<r>>) = {r} /\ <<r>> # <<>> /\ IsInjective(<<r>>)
    BY DEF Range, IsInjective
  <2>6. 1..(n + 1) = 1..n \cup {n + 1} /\ n + 1 \notin 1..n
    BY <1>1
  <2>7. \A x \in Reqs : Joins(v, x) <=> Joins(w, x) \/ x = r
    BY <1>1, <2>2, <2>3, <2>4, <2>5, <2>6 DEF Joins
  <2>8. ASSUME ~ Joins(w, r) PROVE JobsInv(v)
    <3>1. \A i \in 1..n : r \notin Range(w.jobs[i].cbs)
      BY <1>1, <2>8 DEF Joins
    <3>2. \A i \in 1..(n + 1) : js[i].cbs # <<>> /\ IsInjective(js[i].cbs)
      BY <1>1, <2>2, <2>3, <2>5, <2>6 DEF JobsInv
    <3>3. \A a, b \in 1..n : a # b => Range(w.jobs[a].cbs) \cap Range(w.jobs[b].cbs) = {}
      BY <1>1 DEF JobsInv
    <3>4. \A i \in 1..(n + 1) : Range(js[i].cbs) = IF i = n + 1 THEN {r} ELSE Range(w.jobs[i].cbs)
      BY <2>2, <2>3, <2>5, <2>6
    <3>5. \A a, b \in 1..(n + 1) : a # b => Range(js[a].cbs) \cap Range(js[b].cbs) = {}
      BY <2>6, <3>1, <3>3, <3>4
    <3>6. \A i \in 1..(n + 1) : i > 1 => ~ js[i].marked
      BY <1>1, <2>2, <2>3, <2>6 DEF JobsInv
    <3> QED BY <2>3, <2>4, <3>2, <3>5, <3>6 DEF JobsInv
  <2>9. \A x : Marked(v, x) => Marked(w, x)
    <3>1. CASE n = 0
      BY <2>2, <2>3, <2>4, <3>1 DEF Marked
    <3>2. CASE n > 0
      <4>1. js[1] = w.jobs[1] /\ w.jobs # <<>>
        BY <1>1, <2>3, <3>2
      <4> QED BY <2>4, <4>1 DEF Marked
    <3> QED BY <1>1, <3>1, <3>2
  <2>10. JoinsAdded(v, w, r)
    BY <2>4, <2>7, <2>8, <2>9 DEF JoinsAdded
  <2> QED BY <2>4, <2>10 DEF v
<1> QED BY <1>2, <1>3, <1>4, <1>5

LEMMA OneWorkerSpec ==
  ASSUME Shape, NEW k \in DRanks, NEW v \in WorkerStates, dr' = [dr EXCEPT ![k] = v]
  PROVE  dr' \in [DRanks -> WorkerStates] /\ dr'[k] = v /\ OneWorker(k)
BY DEF Shape, OneWorker

\* The worker without the load it starts now.
Taken(w, m) == [w EXCEPT !.todo = @ \ {m}, !.meta = @ \cup {m.req},
                         !.local = IF m.local THEN @ \cup {m.req} ELSE @]

LEMMA TakenSpec ==
  ASSUME NEW w \in WorkerStates, NEW m \in w.todo
  PROVE  /\ Taken(w, m) \in WorkerStates /\ m \in Loads
         /\ Taken(w, m).todo = w.todo \ {m} /\ Taken(w, m).meta = w.meta \cup {m.req}
         /\ Taken(w, m).local = IF m.local THEN w.local \cup {m.req} ELSE w.local
         /\ Taken(w, m).pc = w.pc /\ Taken(w, m).agents = w.agents /\ Taken(w, m).jobs = w.jobs
         /\ Taken(w, m).ready = w.ready /\ Taken(w, m).xfer = w.xfer /\ Taken(w, m).got = w.got
         /\ Taken(w, m).failed = w.failed /\ Taken(w, m).invalid = w.invalid /\ Taken(w, m).done = w.done
<1>1. m \in Loads /\ m.req \in Reqs
  BY DEF WorkerStates, Loads
<1> DEFINE l == IF m.local THEN w.local \cup {m.req} ELSE w.local
<1>2. l \subseteq Reqs
  BY <1>1 DEF WorkerStates
<1>3. Taken(w, m) = [w EXCEPT !.todo = @ \ {m}, !.meta = @ \cup {m.req}, !.local = l]
  BY DEF Taken, WorkerStates
<1>4. l = IF m.local THEN w.local \cup {m.req} ELSE w.local
  OBVIOUS
<1> DEFINE T == Taken(w, m)
<1> HIDE DEF l, T
<1>5. T = [w EXCEPT !.todo = @ \ {m}, !.meta = @ \cup {m.req}, !.local = l]
  BY <1>3 DEF T
<1>6. /\ T.todo = w.todo \ {m} /\ T.meta = w.meta \cup {m.req} /\ T.local = l
      /\ T.pc = w.pc /\ T.agents = w.agents /\ T.jobs = w.jobs
      /\ T.ready = w.ready /\ T.xfer = w.xfer /\ T.got = w.got
      /\ T.failed = w.failed /\ T.invalid = w.invalid /\ T.done = w.done
  BY <1>5 DEF WorkerStates
<1>7. T \in WorkerStates
  <2>1. w.todo \ {m} \subseteq Loads /\ w.meta \cup {m.req} \subseteq Reqs
    BY <1>1 DEF WorkerStates
  <2> QED BY <1>2, <1>5, <1>6, <2>1 DEF WorkerStates
<1> QED BY <1>1, <1>4, <1>6, <1>7 DEF T

\* The request joins the handshake or starts one.
JoinStep(k, w, r) ==
  /\ d' = d /\ notifs' = notifs /\ SameReads(dr'[k], w)
  /\ \/ JoinsAdded(dr'[k], w, r)
     \/ ReadyAdded(dr'[k], w, r) /\ w.jobs # <<>>
     \/ FailedAdded(dr'[k], w, r) /\ w.jobs # <<>>

LoadStep(k, w, r) ==
  \/ \E bad \in SUBSET Reads(k) : ReadsBegin(k, w, r, bad)
  \/ NotesSent(k, w, r)

LEMMA DLoadSpec ==
  ASSUME Shape, NEW k \in DRanks, DLoad(k), JobsInv(dr[k])
  PROVE  /\ Shape' /\ OneWorker(k) /\ UNCHANGED <<config, p, pr, expired>>
         /\ dr[k].pc = "load"
         /\ \E m \in dr[k].todo :
              \/ dr[k].agents /\ LoadStep(k, Taken(dr[k], m), m.req)
              \/ ~ dr[k].agents /\ JoinStep(k, Taken(dr[k], m), m.req)
<1> PICK m \in dr[k].todo :
      /\ dr[k].pc = "load"
      /\ IF Taken(dr[k], m).agents THEN ReadBlocks(k, Taken(dr[k], m), m.req)
         ELSE dr' = [dr EXCEPT ![k] = Joined(Taken(dr[k], m), m.req)] /\ UNCHANGED <<d, notifs, faults>>
      /\ UNCHANGED <<config, p, pr, expired>>
  BY DEF DLoad, Taken
<1> DEFINE w == Taken(dr[k], m)
<1>1. dr[k] \in WorkerStates
  BY DEF Shape
<1>2. w \in WorkerStates /\ m.req \in Reqs /\ w.agents = dr[k].agents /\ w.jobs = dr[k].jobs
  BY <1>1, TakenSpec DEF Loads
<1> HIDE DEF w
<1>3. dr[k].agents \in BOOLEAN
  BY <1>1 DEF WorkerStates
<1>4. CASE dr[k].agents
  <2>1. ReadBlocks(k, w, m.req)
    BY <1>2, <1>4 DEF w
  <2>2. Shape' /\ OneWorker(k) /\ LoadStep(k, w, m.req)
    BY <1>2, <2>1, ReadBlocksSpec DEF LoadStep
  <2> QED BY <1>4, <2>2 DEF w
<1>5. CASE ~ dr[k].agents
  <2>1. dr' = [dr EXCEPT ![k] = Joined(w, m.req)] /\ UNCHANGED <<d, notifs, faults>>
    BY <1>2, <1>5 DEF w
  <2>2. JobsInv(w)
    BY <1>2 DEF JobsInv
  <2> DEFINE v == Joined(w, m.req)
  <2>3. /\ v \in WorkerStates /\ SameReads(v, w)
        /\ \/ JoinsAdded(v, w, m.req)
           \/ ReadyAdded(v, w, m.req) /\ w.jobs # <<>>
           \/ FailedAdded(v, w, m.req) /\ w.jobs # <<>>
    BY <1>2, <2>2, JoinedSpec
  <2>4. dr' = [dr EXCEPT ![k] = v]
    BY <2>1
  <2> HIDE DEF v
  <2>5. dr' \in [DRanks -> WorkerStates] /\ dr'[k] = v /\ OneWorker(k)
    BY <2>3, <2>4, OneWorkerSpec
  <2>6. JoinStep(k, w, m.req)
    BY <2>1, <2>3, <2>5 DEF JoinStep
  <2>7. Shape'
    BY <2>1, <2>5, Frozen DEF Shape, ProducerStates
  <2> QED BY <1>5, <2>5, <2>6, <2>7 DEF w
<1> QED BY <1>3, <1>4, <1>5

Rested(w) == [w EXCEPT !.ready = Tail(@)]

LEMMA DReadySpec ==
  ASSUME Shape, NEW k \in DRanks, DReady(k)
  PROVE  /\ Shape' /\ OneWorker(k) /\ UNCHANGED <<config, p, pr, expired>>
         /\ dr[k].pc = "load" /\ dr[k].ready # <<>> /\ Head(dr[k].ready) \in Reqs
         /\ Rested(dr[k]) \in WorkerStates /\ SameReads(Rested(dr[k]), dr[k])
         /\ Rested(dr[k]).ready = Tail(dr[k].ready) /\ Rested(dr[k]).jobs = dr[k].jobs
         /\ Rested(dr[k]).failed = dr[k].failed /\ Rested(dr[k]).invalid = dr[k].invalid
         /\ LoadStep(k, Rested(dr[k]), Head(dr[k].ready))
<1> DEFINE w == Rested(dr[k])
           r == Head(dr[k].ready)
<1>1. dr[k] \in WorkerStates /\ dr[k].pc = "load" /\ dr[k].ready # <<>> /\ UNCHANGED <<config, p, pr, expired>>
  BY DEF Shape, DReady
<1>2. dr[k].ready \in Seq(Reqs)
  BY <1>1 DEF WorkerStates
<1>3. r \in Reqs /\ Tail(dr[k].ready) \in Seq(Reqs)
  BY <1>1, <1>2
<1>4. /\ w \in WorkerStates /\ SameReads(w, dr[k]) /\ w.ready = Tail(dr[k].ready) /\ w.jobs = dr[k].jobs
      /\ w.failed = dr[k].failed /\ w.invalid = dr[k].invalid
  BY <1>1, <1>3 DEF WorkerStates, SameReads, Rested
<1>5. ReadBlocks(k, w, r)
  BY DEF DReady, Rested
<1> HIDE DEF w, r
<1>6. Shape' /\ OneWorker(k) /\ LoadStep(k, w, r)
  BY <1>1, <1>3, <1>4, <1>5, ReadBlocksSpec DEF LoadStep
<1> QED BY <1>1, <1>3, <1>4, <1>6 DEF w, r

\* The callbacks that are to run stay the same.
JobsSame(v, w) ==
  /\ \A x \in Reqs : Joins(v, x) <=> Joins(w, x)
  /\ JobsInv(w) => JobsInv(v)
  /\ \A x : Marked(v, x) => Marked(w, x)

LEMMA FirstJobSpec ==
  ASSUME NEW w \in WorkerStates, w.jobs # <<>>, NEW j \in JobStates,
         j.cbs = w.jobs[1].cbs, j.marked = w.jobs[1].marked,
         NEW v, v.jobs = [w.jobs EXCEPT ![1] = j]
  PROVE  JobsSame(v, w) /\ v.jobs \in Seq(JobStates)
<1>1. /\ DOMAIN v.jobs = DOMAIN w.jobs /\ 1 \in DOMAIN w.jobs /\ v.jobs # <<>>
      /\ v.jobs \in Seq(JobStates)
      /\ \A i \in DOMAIN w.jobs : v.jobs[i].cbs = w.jobs[i].cbs /\ v.jobs[i].marked = w.jobs[i].marked
  <2>1. w.jobs \in Seq(JobStates)
    BY DEF WorkerStates
  <2> QED BY <2>1
<1>2. \A x \in Reqs : Joins(v, x) <=> Joins(w, x)
  BY <1>1 DEF Joins
<1>3. ASSUME JobsInv(w) PROVE JobsInv(v)
  <2>1. \A i \in DOMAIN w.jobs : v.jobs[i].cbs # <<>> /\ IsInjective(v.jobs[i].cbs)
    BY <1>1, <1>3 DEF JobsInv
  <2>2. \A a, b \in DOMAIN w.jobs : a # b => Range(v.jobs[a].cbs) \cap Range(v.jobs[b].cbs) = {}
    <3>1. \A i \in DOMAIN w.jobs : Range(v.jobs[i].cbs) = Range(w.jobs[i].cbs)
      BY <1>1
    <3> QED BY <1>3, <3>1 DEF JobsInv
  <2>3. \A i \in DOMAIN w.jobs : i > 1 => ~ v.jobs[i].marked
    BY <1>1, <1>3 DEF JobsInv
  <2> QED BY <1>1, <2>1, <2>2, <2>3 DEF JobsInv
<1>4. \A x : Marked(v, x) => Marked(w, x)
  BY <1>1 DEF Marked
<1> QED BY <1>1, <1>2, <1>3, <1>4 DEF JobsSame

\* v is w but for the state of its handshakes.
SameButJobs(v, w) ==
  /\ v.pc = w.pc /\ v.todo = w.todo /\ v.meta = w.meta /\ v.local = w.local
  /\ v.ready = w.ready /\ v.xfer = w.xfer /\ v.got = w.got
  /\ v.failed = w.failed /\ v.invalid = w.invalid /\ v.done = w.done

LEMMA HandshakeEndsSpec ==
  ASSUME Shape, NEW k \in DRanks, NEW ok \in BOOLEAN, HandshakeEnds(k, ok)
  PROVE  /\ Shape' /\ OneWorker(k) /\ UNCHANGED <<config, p, pr, d, notifs, expired>>
         /\ dr[k].jobs # <<>> /\ SameButJobs(dr'[k], dr[k]) /\ JobsSame(dr'[k], dr[k])
<1> DEFINE w == dr[k]
           j == [w.jobs[1] EXCEPT !.res = IF ok THEN "ok" ELSE "failed"]
           js == [w.jobs EXCEPT ![1] = j]
           v == [w EXCEPT !.jobs = js]
<1>1. w \in WorkerStates /\ w.jobs # <<>> /\ w.jobs \in Seq(JobStates)
  BY DEF Shape, HandshakeEnds, WorkerStates
<1>2. w.jobs[1] \in JobStates
  BY <1>1
<1>3. j \in JobStates /\ j.cbs = w.jobs[1].cbs /\ j.marked = w.jobs[1].marked
  BY <1>2 DEF JobStates
<1>4. dr' = [dr EXCEPT ![k] = v] /\ UNCHANGED <<config, p, pr, d, notifs, expired>>
  BY <1>1 DEF HandshakeEnds, Shape, WorkerStates
<1> HIDE DEF j
<1>5. js \in Seq(JobStates)
  BY <1>1, <1>3
<1>6. js = [w.jobs EXCEPT ![1] = j]
  OBVIOUS
<1> HIDE DEF js
<1>7. v \in WorkerStates /\ SameButJobs(v, w) /\ v.jobs = js
  BY <1>1, <1>5 DEF WorkerStates, SameButJobs
<1> HIDE DEF v
<1>8. JobsSame(v, w)
  BY <1>1, <1>3, <1>6, <1>7, FirstJobSpec
<1>9. dr' \in [DRanks -> WorkerStates] /\ dr'[k] = v /\ OneWorker(k)
  BY <1>4, <1>7, OneWorkerSpec
<1>10. faults' \in Nat /\ faults' <= MaxFaults
  <2>1. ok \/ May("handshake", 1)
    BY DEF HandshakeEnds
  <2>2. faults' = IF ok THEN faults ELSE faults + 1
    BY DEF HandshakeEnds
  <2>3. faults \in Nat /\ faults <= MaxFaults
    BY DEF Shape
  <2> QED BY <2>1, <2>2, <2>3 DEF May
<1>11. Shape'
  BY <1>4, <1>9, <1>10, Frozen DEF Shape, ProducerStates
<1> QED BY <1>1, <1>4, <1>7, <1>8, <1>9, <1>11

LEMMA DoneCallbackSpec ==
  ASSUME Shape, NEW k \in DRanks, DoneCallback(k)
  PROVE  /\ Shape' /\ OneWorker(k) /\ UNCHANGED <<config, p, pr, d, notifs, expired>>
         /\ dr[k].jobs # <<>> /\ SameButJobs(dr'[k], dr[k]) /\ JobsSame(dr'[k], dr[k])
<1> DEFINE w == dr[k]
           j == [w.jobs[1] EXCEPT !.first = FALSE]
           js == [w.jobs EXCEPT ![1] = j]
           a == w.agents \/ w.jobs[1].res = "ok"
           v == [w EXCEPT !.jobs = js, !.agents = a]
<1>1. w \in WorkerStates /\ w.jobs # <<>> /\ w.jobs \in Seq(JobStates)
  BY DEF Shape, DoneCallback, WorkerStates
<1>2. w.jobs[1] \in JobStates
  BY <1>1
<1>3. j \in JobStates /\ j.cbs = w.jobs[1].cbs /\ j.marked = w.jobs[1].marked
  BY <1>2 DEF JobStates
<1>4. dr' = [dr EXCEPT ![k] = v] /\ UNCHANGED <<config, p, pr, d, notifs, expired, faults>>
  <2> DEFINE u == [w EXCEPT !.jobs = js]
             f == [dr EXCEPT ![k] = u]
  <2>1. f = [dr EXCEPT ![k].jobs[1].first = FALSE]
    BY <1>1
  <2>2. a = (w.agents \/ Head(w.jobs).res = "ok")
    BY <1>1
  <2> HIDE DEF js, a
  <2>4. v = [u EXCEPT !.agents = a] /\ u.agents = w.agents
    BY <1>1 DEF WorkerStates
  <2>5. f[k] = u /\ [f EXCEPT ![k].agents = a] = [dr EXCEPT ![k] = v]
    BY <2>4 DEF Shape
  <2> HIDE DEF u, f
  <2>6. dr' = [f EXCEPT ![k].agents = @ \/ Head(w.jobs).res = "ok"]
    BY <2>1 DEF DoneCallback
  <2> QED BY <2>2, <2>4, <2>5, <2>6 DEF DoneCallback
<1> HIDE DEF j
<1>5. js \in Seq(JobStates)
  BY <1>1, <1>3
<1>6. js = [w.jobs EXCEPT ![1] = j] /\ a \in BOOLEAN
  OBVIOUS
<1> HIDE DEF js, a
<1>7. v \in WorkerStates /\ SameButJobs(v, w) /\ v.jobs = js
  BY <1>1, <1>5, <1>6 DEF WorkerStates, SameButJobs
<1> HIDE DEF v
<1>8. JobsSame(v, w)
  BY <1>1, <1>3, <1>6, <1>7, FirstJobSpec
<1>9. dr' \in [DRanks -> WorkerStates] /\ dr'[k] = v /\ OneWorker(k)
  BY <1>4, <1>7, OneWorkerSpec
<1>10. Shape'
  BY <1>4, <1>9, Frozen DEF Shape, ProducerStates
<1> QED BY <1>1, <1>4, <1>7, <1>8, <1>9, <1>10

\* The first callback has run: r no longer waits for a handshake.
CallbackDone(v, w, r) ==
  /\ \A x \in Reqs : Joins(v, x) <=> Joins(w, x) /\ x # r
  /\ JobsInv(v) /\ \A x : ~ Marked(v, x)

\* RequestReady: "next" and the job with its first callback marked.
Popped1(w) == [w EXCEPT !.jobs = IF Len(w.jobs[1].cbs) = 1 THEN Tail(@)
                 ELSE <<[w.jobs[1] EXCEPT !.cbs = Tail(@), !.marked = FALSE]>> \o Tail(@)]

LEMMA Popped1Spec ==
  ASSUME NEW w \in WorkerStates, w.jobs # <<>>, JobsInv(w)
  PROVE  /\ Popped1(w) \in WorkerStates /\ SameReads(Popped1(w), w)
         /\ Popped1(w).ready = w.ready /\ Popped1(w).failed = w.failed /\ Popped1(w).invalid = w.invalid
         /\ CallbackDone(Popped1(w), w, w.jobs[1].cbs[1])
         /\ w.jobs[1].cbs[1] \in Reqs /\ Joins(w, w.jobs[1].cbs[1])
         /\ Head(w.jobs[1].cbs) = w.jobs[1].cbs[1]
<1> DEFINE n == Len(w.jobs)
           c == w.jobs[1].cbs
           r == c[1]
           j == [w.jobs[1] EXCEPT !.cbs = Tail(c), !.marked = FALSE]
           rest == Tail(w.jobs)
           js == IF Len(c) = 1 THEN rest ELSE <<j>> \o rest
           v == Popped1(w)
<1>1. w.jobs \in Seq(JobStates) /\ n \in Nat /\ n > 0 /\ DOMAIN w.jobs = 1..n /\ 1 \in 1..n /\ w.jobs[1] \in JobStates
  BY DEF WorkerStates
<1>2. c \in Seq(Reqs) /\ c # <<>> /\ IsInjective(c)
  BY <1>1 DEF JobsInv, JobStates
<1>3. /\ Range(Tail(c)) = Range(c) \ {Head(c)} /\ Head(c) \in Range(c) /\ Head(c) = c[1]
      /\ IsInjective(Tail(c)) /\ Tail(c) \in Seq(Reqs)
      /\ Len(c) = 1 => Range(c) = {Head(c)}
      /\ Len(c) # 1 => Tail(c) # <<>>
  BY <1>2, TailRange
<1>4. Head(c) \in Reqs
  BY <1>2
<1>5. j \in JobStates /\ j.cbs = Tail(c) /\ j.marked = FALSE
  BY <1>1, <1>3 DEF JobStates
<1>6. v = [w EXCEPT !.jobs = js]
  BY DEF Popped1, WorkerStates
<1>7. rest \in Seq(JobStates) /\ Len(rest) = n - 1 /\ \A i \in 1..(n - 1) : rest[i] = w.jobs[i + 1] /\ i + 1 \in 1..n
  BY <1>1
<1>8. \A a, b \in 1..n : a # b => Range(w.jobs[a].cbs) \cap Range(w.jobs[b].cbs) = {}
  BY <1>1 DEF JobsInv
<1>9. \A i \in 1..n : /\ w.jobs[i].cbs # <<>> /\ IsInjective(w.jobs[i].cbs)
                      /\ i > 1 => ~ w.jobs[i].marked
  BY <1>1 DEF JobsInv
<1>10. ASSUME NEW i \in 1..n, i > 1 PROVE r \notin Range(w.jobs[i].cbs)
  <2>1. 1 # i /\ 1 \in 1..n
    BY <1>1, <1>10
  <2> HIDE DEF n
  <2>2. Range(w.jobs[1].cbs) \cap Range(w.jobs[i].cbs) = {}
    BY <1>8, <2>1
  <2>3. r \in Range(w.jobs[1].cbs)
    BY <1>3
  <2> QED BY <2>2, <2>3
<1>11. Joins(w, r)
  BY <1>1, <1>3 DEF Joins
<1> HIDE DEF j, rest
<1>12. CASE Len(c) = 1
  <2>1. js = rest
    BY <1>12
  <2> HIDE DEF js, v
  <2>2. v \in WorkerStates /\ SameReads(v, w) /\ v.jobs = rest
        /\ v.ready = w.ready /\ v.failed = w.failed /\ v.invalid = w.invalid
    BY <1>6, <1>7, <2>1 DEF WorkerStates, SameReads
  <2>3. DOMAIN rest = 1..(n - 1)
    BY <1>7
  <2>4. Range(c) = {r}
    BY <1>3, <1>12
  <2> HIDE DEF c, r, n
  <2>5. \A i \in 1..n : i = 1 \/ (i - 1 \in 1..(n - 1) /\ (i - 1) + 1 = i /\ i > 1)
    BY <1>1
  <2>6. \A i \in 1..(n - 1) : i + 1 \in 1..n /\ i + 1 > 1
    BY <1>1
  <2>7. ASSUME NEW x \in Reqs PROVE Joins(v, x) <=> Joins(w, x) /\ x # r
    <3>1. ASSUME NEW i \in 1..(n - 1), x \in Range(rest[i].cbs) PROVE Joins(w, x) /\ x # r
      BY <1>1, <1>7, <1>10, <2>6, <3>1 DEF Joins
    <3>2. ASSUME NEW i \in 1..n, x \in Range(w.jobs[i].cbs), x # r
          PROVE  \E l \in 1..(n - 1) : x \in Range(rest[l].cbs)
      <4>1. i # 1
        BY <2>4, <3>2 DEF c
      <4>2. i - 1 \in 1..(n - 1) /\ (i - 1) + 1 = i
        BY <2>5, <4>1
      <4>3. rest[i - 1] = w.jobs[i]
        BY <1>7, <4>2
      <4> QED BY <3>2, <4>2, <4>3
    <3> QED BY <1>1, <2>2, <2>3, <3>1, <3>2 DEF Joins
  <2>8. JobsInv(v)
    <3>1. \A i \in 1..(n - 1) : /\ rest[i].cbs # <<>> /\ IsInjective(rest[i].cbs) /\ ~ rest[i].marked
      BY <1>7, <1>9, <2>6
    <3>2. \A a, b \in 1..(n - 1) : a # b => a + 1 # b + 1
      BY <1>1
    <3>3. \A a, b \in 1..(n - 1) : a # b => Range(rest[a].cbs) \cap Range(rest[b].cbs) = {}
      BY <1>7, <1>8, <3>2
    <3> QED BY <2>2, <2>3, <3>1, <3>3 DEF JobsInv
  <2>9. \A x : ~ Marked(v, x)
    <3>1. rest # <<>> => 1 \in 1..(n - 1)
      BY <1>1, <1>7, <2>3
    <3>2. rest # <<>> => ~ rest[1].marked
      BY <1>7, <1>9, <2>6, <3>1
    <3> QED BY <2>2, <3>2 DEF Marked
  <2>10. CallbackDone(v, w, r)
    BY <2>7, <2>8, <2>9 DEF CallbackDone
  <2> QED BY <1>3, <1>4, <1>11, <2>2, <2>10 DEF v, r, c
<1>13. CASE Len(c) # 1
  <2>1. js = <<j>> \o rest
    BY <1>13
  <2>2. js \in Seq(JobStates) /\ DOMAIN js = 1..n /\ js # <<>> /\ js[1] = j
        /\ \A i \in 1..n : i > 1 => js[i] = w.jobs[i]
    <3>1. <<j>> \in Seq(JobStates) /\ Len(<<j>>) = 1 /\ <<j>>[1] = j
      BY <1>5
    <3>2. Len(rest) = n - 1 /\ rest \in Seq(JobStates) /\ \A i \in 1..n : i > 1 => i - 1 \in 1..(n - 1) /\ rest[i - 1] = w.jobs[i]
      <4>1. \A i \in 1..n : i > 1 => i - 1 \in 1..(n - 1) /\ (i - 1) + 1 = i
        BY <1>1
      <4> QED BY <1>7, <4>1
    <3> HIDE DEF js, n
    <3>3. js \in Seq(JobStates) /\ Len(js) = 1 + (n - 1) /\ js[1] = j
          /\ \A i \in 1..(1 + (n - 1)) : i > 1 => js[i] = rest[i - 1]
      BY <1>1, <2>1, <3>1, <3>2
    <3>4. 1 + (n - 1) = n /\ DOMAIN js = 1..n /\ js # <<>>
      BY <1>1, <3>3
    <3> QED BY <3>2, <3>3, <3>4
  <2> HIDE DEF js, v
  <2>3. v \in WorkerStates /\ SameReads(v, w) /\ v.jobs = js
        /\ v.ready = w.ready /\ v.failed = w.failed /\ v.invalid = w.invalid
    BY <1>6, <2>2 DEF WorkerStates, SameReads
  <2>4. Range(j.cbs) = Range(c) \ {r} /\ j.cbs # <<>> /\ IsInjective(j.cbs) /\ ~ j.marked
    BY <1>3, <1>5, <1>13
  <2>5. \A i \in 1..n : i = 1 \/ i > 1
    BY <1>1
  <2> HIDE DEF c, r, n
  <2>6. \A i \in 1..n : Range(js[i].cbs) = IF i = 1 THEN Range(c) \ {r} ELSE Range(w.jobs[i].cbs)
    BY <2>2, <2>4, <2>5
  <2>7. ASSUME NEW x \in Reqs PROVE Joins(v, x) <=> Joins(w, x) /\ x # r
    <3>1. \A i \in 1..n : x \in Range(js[i].cbs) <=> x \in Range(w.jobs[i].cbs) /\ x # r
      BY <1>10, <2>5, <2>6 DEF c
    <3> QED BY <1>1, <2>2, <2>3, <3>1 DEF Joins
  <2>8. JobsInv(v)
    <3>1. \A i \in 1..n : /\ js[i].cbs # <<>> /\ IsInjective(js[i].cbs) /\ ~ js[i].marked
      BY <1>9, <2>2, <2>4, <2>5
    <3>2. \A i \in 1..n : Range(js[i].cbs) \subseteq Range(w.jobs[i].cbs)
      BY <2>6 DEF c
    <3>3. \A a, b \in 1..n : a # b => Range(js[a].cbs) \cap Range(js[b].cbs) = {}
      BY <1>8, <3>2
    <3> QED BY <2>2, <2>3, <3>1, <3>3 DEF JobsInv
  <2>9. \A x : ~ Marked(v, x)
    BY <2>2, <2>3, <2>4 DEF Marked
  <2>10. CallbackDone(v, w, r)
    BY <2>7, <2>8, <2>9 DEF CallbackDone
  <2> QED BY <1>3, <1>4, <1>11, <2>3, <2>10 DEF v, r, c
<1> QED BY <1>12, <1>13

RequestReadies(v, w, r) ==
  \/ /\ CallbackDone(v, w, r) /\ v.ready = Append(w.ready, r)
     /\ v.failed = w.failed /\ v.invalid = w.invalid
  \/ /\ CallbackDone(v, w, r) /\ v.ready = w.ready /\ Marked(w, r)
     /\ v.failed = IF r \in w.local \/ Hma THEN w.failed \cup {r} ELSE w.failed
     /\ v.invalid = w.invalid
  \/ /\ \A x \in Reqs : Joins(v, x) <=> Joins(w, x)
     /\ JobsInv(v) /\ \A x : Marked(v, x) => x = r
     /\ v.ready = w.ready /\ v.failed = w.failed
     /\ v.invalid = IF r \in w.local /\ ~ Hma THEN w.invalid \cup {r} ELSE w.invalid

LEMMA RequestReadySpec ==
  ASSUME Shape, NEW k \in DRanks, RequestReady(k), JobsInv(dr[k])
  PROVE  /\ Shape' /\ OneWorker(k) /\ UNCHANGED <<config, p, pr, d, notifs, expired>>
         /\ dr[k].jobs # <<>> /\ SameReads(dr'[k], dr[k])
         /\ \E r \in Reqs : Joins(dr[k], r) /\ RequestReadies(dr'[k], dr[k], r)
<1> DEFINE w == dr[k]
           job == w.jobs[1]
           r == job.cbs[1]
           next == Popped1(w)
           a == [next EXCEPT !.ready = Append(@, r)]
           b == MarkFailed(next, r)
           m == MarkInvalid(w, r)
           c == [m EXCEPT !.jobs[1].marked = TRUE]
           v == IF job.res = "ok" THEN a ELSE IF job.marked THEN b ELSE c
<1>1. w \in WorkerStates /\ w.jobs # <<>> /\ Head(w.jobs) = job /\ w.jobs \in Seq(JobStates)
  BY DEF Shape, RequestReady, WorkerStates
<1>2. job \in JobStates
  BY <1>1
<1>3. /\ next \in WorkerStates /\ SameReads(next, w)
      /\ next.ready = w.ready /\ next.failed = w.failed /\ next.invalid = w.invalid
      /\ CallbackDone(next, w, r) /\ r \in Reqs /\ Joins(w, r) /\ Head(job.cbs) = r
  BY <1>1, Popped1Spec
<1>4. dr' = [dr EXCEPT ![k] = v] /\ UNCHANGED <<config, p, pr, d, notifs, expired, faults>>
  <2>1. UNCHANGED <<config, p, pr, d, notifs, expired, faults>>
    BY DEF RequestReady
  <2>2. next = [w EXCEPT !.jobs = IF Len(job.cbs) = 1 THEN Tail(@)
                    ELSE <<[job EXCEPT !.cbs = Tail(@), !.marked = FALSE]>> \o Tail(@)]
    <3>1. [job EXCEPT !.cbs = Tail(@), !.marked = FALSE] = [job EXCEPT !.cbs = Tail(job.cbs), !.marked = FALSE]
      BY <1>2 DEF JobStates
    <3> QED BY <1>1, <3>1 DEF Popped1
  <2>3. dr' = [dr EXCEPT ![k] =
       IF job.res = "ok" THEN [next EXCEPT !.ready = Append(@, r)]
       ELSE IF job.marked THEN MarkFailed(next, r)
       ELSE [MarkInvalid(dr[k], r) EXCEPT !.jobs[1].marked = TRUE]]
    BY <1>1, <1>3, <2>2 DEF RequestReady
  <2> HIDE DEF next, job, r
  <2> QED BY <2>1, <2>3
<1>5. /\ m \in WorkerStates /\ SameReads(m, w) /\ m.ready = w.ready /\ m.jobs = w.jobs
      /\ m.failed = w.failed
      /\ m.invalid = IF r \in w.local /\ ~ Hma THEN w.invalid \cup {r} ELSE w.invalid
  BY <1>1, <1>3, MarksSpec
<1>6. /\ b \in WorkerStates /\ SameReads(b, next) /\ b.ready = next.ready /\ b.jobs = next.jobs
      /\ b.invalid = next.invalid
      /\ b.failed = IF r \in next.local \/ Hma THEN next.failed \cup {r} ELSE next.failed
  BY <1>3, MarksSpec
<1>7. job.marked \in BOOLEAN
  BY <1>2 DEF JobStates
<1> SUFFICES /\ v \in WorkerStates /\ SameReads(v, w) /\ RequestReadies(v, w, r)
  <2> HIDE DEF v, r, job
  <2>1. ASSUME v \in WorkerStates, SameReads(v, w), RequestReadies(v, w, r)
        PROVE  /\ Shape' /\ OneWorker(k) /\ UNCHANGED <<config, p, pr, d, notifs, expired>>
               /\ dr[k].jobs # <<>> /\ SameReads(dr'[k], dr[k])
               /\ \E x \in Reqs : Joins(dr[k], x) /\ RequestReadies(dr'[k], dr[k], x)
    <3>1. dr' \in [DRanks -> WorkerStates] /\ dr'[k] = v /\ OneWorker(k)
      BY <1>4, <2>1, OneWorkerSpec
    <3>2. Shape'
      BY <1>4, <3>1, Frozen DEF Shape, ProducerStates
    <3> QED BY <1>1, <1>3, <1>4, <2>1, <3>1, <3>2
  <2> QED BY <2>1
<1>8. CASE job.res = "ok"
  <2>1. v = a
    BY <1>8
  <2> HIDE DEF next, v, r, job
  <2>2. Append(next.ready, r) \in Seq(Reqs)
    BY <1>3 DEF WorkerStates
  <2>3. a \in WorkerStates /\ SameReads(a, next) /\ a.ready = Append(next.ready, r) /\ a.jobs = next.jobs
        /\ a.failed = next.failed /\ a.invalid = next.invalid
    BY <1>3, <2>2 DEF WorkerStates, SameReads
  <2> HIDE DEF a
  <2>4. SameReads(a, w)
    BY <1>3, <2>3 DEF SameReads
  <2>5. CallbackDone(a, w, r)
    BY <1>3, <2>3 DEF CallbackDone, Joins, JobsInv, Marked
  <2> QED BY <1>3, <2>1, <2>3, <2>4, <2>5 DEF RequestReadies
<1>9. CASE job.res # "ok" /\ job.marked
  <2>1. v = b /\ Marked(w, r)
    BY <1>1, <1>9 DEF Marked
  <2> HIDE DEF next, v, r, job, b
  <2>2. SameReads(b, w) /\ next.local = w.local
    BY <1>3, <1>6 DEF SameReads
  <2>3. CallbackDone(b, w, r)
    BY <1>3, <1>6 DEF CallbackDone, Joins, JobsInv, Marked
  <2>4. b.failed = IF r \in w.local \/ Hma THEN w.failed \cup {r} ELSE w.failed
    BY <1>3, <1>6, <2>2
  <2> QED BY <1>3, <1>6, <2>1, <2>2, <2>3, <2>4 DEF RequestReadies
<1>10. CASE job.res # "ok" /\ ~ job.marked
  <2> DEFINE j == [job EXCEPT !.marked = TRUE]
             js == [m.jobs EXCEPT ![1] = j]
  <2>1. v = c /\ c = [m EXCEPT !.jobs = js]
    BY <1>1, <1>5, <1>10 DEF WorkerStates
  <2>2. j \in JobStates /\ j.cbs = job.cbs
    BY <1>2 DEF JobStates
  <2> HIDE DEF v, c, m, j
  <2>3. /\ js \in Seq(JobStates) /\ DOMAIN js = DOMAIN w.jobs /\ js[1] = j /\ js # <<>>
        /\ \A i \in DOMAIN w.jobs : i # 1 => js[i] = w.jobs[i]
    BY <1>1, <1>5, <2>2
  <2> HIDE DEF js
  <2>4. c \in WorkerStates /\ SameReads(c, m) /\ c.ready = m.ready /\ c.jobs = js
        /\ c.failed = m.failed /\ c.invalid = m.invalid
    BY <1>5, <2>1, <2>3 DEF WorkerStates, SameReads
  <2>5. SameReads(c, w)
    BY <1>5, <2>4 DEF SameReads
  <2>6. \A i \in DOMAIN w.jobs : js[i].cbs = w.jobs[i].cbs /\ (i > 1 => js[i] = w.jobs[i])
    <3>1. \A i \in DOMAIN w.jobs : i \in Nat
      BY <1>1
    <3>2. \A i \in DOMAIN w.jobs : js[i].cbs = w.jobs[i].cbs
      BY <2>2, <2>3
    <3> QED BY <2>3, <3>1, <3>2
  <2>7. \A x \in Reqs : Joins(c, x) <=> Joins(w, x)
    BY <2>3, <2>4, <2>6 DEF Joins
  <2>8. JobsInv(c)
    <3>1. \A i \in DOMAIN js : js[i].cbs # <<>> /\ IsInjective(js[i].cbs)
      BY <2>3, <2>6 DEF JobsInv
    <3>2. \A i \in DOMAIN js : Range(js[i].cbs) = Range(w.jobs[i].cbs)
      BY <2>3, <2>6
    <3>3. \A x, y \in DOMAIN js : x # y => Range(js[x].cbs) \cap Range(js[y].cbs) = {}
      BY <2>3, <3>2 DEF JobsInv
    <3>4. \A i \in DOMAIN js : i > 1 => ~ js[i].marked
      BY <2>3, <2>6 DEF JobsInv
    <3> QED BY <2>4, <3>1, <3>3, <3>4 DEF JobsInv
  <2>9. \A x : Marked(c, x) => x = r
    BY <2>2, <2>3, <2>4 DEF Marked
  <2> HIDE DEF r
  <2>10. c.invalid = IF r \in w.local /\ ~ Hma THEN w.invalid \cup {r} ELSE w.invalid
    BY <1>5, <2>4
  <2> QED BY <1>5, <2>1, <2>4, <2>5, <2>7, <2>8, <2>9, <2>10 DEF RequestReadies
<1> QED BY <1>7, <1>8, <1>9, <1>10

\* v is w but for its reads.
SameButReads(v, w) ==
  /\ v.pc = w.pc /\ v.todo = w.todo /\ v.meta = w.meta /\ v.local = w.local
  /\ v.agents = w.agents /\ v.jobs = w.jobs /\ v.ready = w.ready
  /\ v.failed = w.failed /\ v.invalid = w.invalid /\ v.done = w.done

\* The read of r from t is in another state.
Moved(w, r, t, s, g) == [w EXCEPT !.xfer[r][t] = s, !.got = g]

LEMMA XferSpec ==
  ASSUME NEW w \in WorkerStates, NEW r \in Reqs, NEW t \in PRanks,
         NEW s \in {"none", "proc", "ok", "err"}, NEW g \in SUBSET (Reqs \X PRanks)
  PROVE  /\ Moved(w, r, t, s, g) \in WorkerStates /\ SameButReads(Moved(w, r, t, s, g), w)
         /\ Moved(w, r, t, s, g).got = g
         /\ \A x \in Reqs, u \in PRanks :
              Moved(w, r, t, s, g).xfer[x][u] = IF x = r /\ u = t THEN s ELSE w.xfer[x][u]
<1> DEFINE f == [w.xfer EXCEPT ![r][t] = s]
           v == Moved(w, r, t, s, g)
<1>1. f \in [Reqs -> [PRanks -> {"none", "proc", "ok", "err"}]]
  BY DEF WorkerStates
<1>2. \A x \in Reqs, u \in PRanks : f[x][u] = IF x = r /\ u = t THEN s ELSE w.xfer[x][u]
  BY DEF WorkerStates
<1>3. v = [w EXCEPT !.xfer = f, !.got = g]
  BY DEF WorkerStates, Moved
<1> HIDE DEF f, v
<1>4. v \in WorkerStates /\ SameButReads(v, w) /\ v.got = g /\ v.xfer = f
  BY <1>1, <1>3 DEF WorkerStates, SameButReads
<1> QED BY <1>2, <1>4 DEF v

\* Worker k tells worker t of P that it has read r.
Notifies(k, r, t) ==
  \A x \in Reqs, u \in PRanks :
    About(u, x)' = IF x = r /\ u = t THEN About(u, x) \cup {[from |-> k, req |-> r, id |-> "P"]}
                   ELSE About(u, x)

GotKV(k, r, t) ==
  dr'[k].got = IF p.status[r] = "finished" THEN dr[k].got \cup {<<r, t>>} ELSE dr[k].got

LEMMA ReadEndsSpec ==
  ASSUME Shape, NEW k \in DRanks, NEW r \in Reqs, NEW t \in PRanks, ReadEnds(k, r, t)
  PROVE  /\ Shape' /\ OneWorker(k) /\ UNCHANGED <<config, p, pr, d, expired>>
         /\ dr[k].xfer[r][t] = "proc" /\ SameButReads(dr'[k], dr[k])
         /\ \A x \in Reqs, u \in PRanks :
              dr'[k].xfer[x][u] = IF x = r /\ u = t THEN "ok" ELSE dr[k].xfer[x][u]
         /\ GotKV(k, r, t)
         /\ Notifies(k, r, t)
<1> DEFINE w == dr[k]
           g == IF p.status[r] = "finished" THEN w.got \cup {<<r, t>>} ELSE w.got
           v == [w EXCEPT !.xfer[r][t] = "ok", !.got = g]
           m == [from |-> k, req |-> r, id |-> "P"]
<1>1. w \in WorkerStates /\ w.xfer[r][t] = "proc" /\ UNCHANGED <<config, p, pr, d, expired, faults>>
  BY DEF Shape, ReadEnds
<1>2. g \in SUBSET (Reqs \X PRanks)
  BY <1>1 DEF WorkerStates
<1>3. dr' = [dr EXCEPT ![k] = v]
  <2>1. dr' = [dr EXCEPT ![k].xfer[r][t] = "ok",
       ![k].got = IF p.status[r] = "finished" THEN @ \cup {<<r, t>>} ELSE @]
    BY DEF ReadEnds
  <2> DEFINE u == [w EXCEPT !.xfer[r][t] = "ok"]
             f == [dr EXCEPT ![k] = u]
  <2>2. f = [dr EXCEPT ![k].xfer[r][t] = "ok"] /\ f[k] = u /\ u.got = w.got /\ v = [u EXCEPT !.got = g]
    BY <1>1 DEF Shape, WorkerStates
  <2> HIDE DEF u, v
  <2>3. dr' = [f EXCEPT ![k].got = g]
    BY <2>1, <2>2
  <2> HIDE DEF g
  <2>4. [f EXCEPT ![k].got = g] = [dr EXCEPT ![k] = v]
    BY <2>2 DEF Shape
  <2> QED BY <2>3, <2>4
<1>4. g = IF p.status[r] = "finished" THEN w.got \cup {<<r, t>>} ELSE w.got
  OBVIOUS
<1> HIDE DEF g
<1>5. /\ v \in WorkerStates /\ SameButReads(v, w) /\ v.got = g
      /\ \A x \in Reqs, u \in PRanks : v.xfer[x][u] = IF x = r /\ u = t THEN "ok" ELSE w.xfer[x][u]
  <2>1. "ok" \in {"none", "proc", "ok", "err"}
    OBVIOUS
  <2>2. v = Moved(w, r, t, "ok", g)
    BY DEF Moved
  <2> HIDE DEF v, w
  <2> QED BY <1>1, <1>2, <2>1, <2>2, XferSpec
<1> HIDE DEF v
<1>6. dr' \in [DRanks -> WorkerStates] /\ dr'[k] = v /\ OneWorker(k)
  BY <1>3, <1>5, OneWorkerSpec
<1>7. notifs' = [notifs EXCEPT ![t] = @ \cup {m}]
  BY DEF ReadEnds
<1>8. m \in Notes /\ m.req = r /\ m.id = "P"
  BY DEF Notes
<1> HIDE DEF m
<1>9. notifs' \in [PRanks -> SUBSET Notes] /\ \A u \in PRanks : IsFiniteSet(notifs'[u])
  <2>1. notifs \in [PRanks -> SUBSET Notes] /\ \A u \in PRanks : IsFiniteSet(notifs[u])
    BY DEF Shape
  <2>2. \A u \in PRanks : notifs'[u] = IF u = t THEN notifs[u] \cup {m} ELSE notifs[u]
    BY <1>7, <2>1
  <2>3. IsFiniteSet(notifs[t] \cup {m})
    BY <2>1, FS_AddElement
  <2>4. notifs' \in [PRanks -> SUBSET Notes]
    BY <1>7, <1>8, <2>1
  <2> QED BY <2>1, <2>2, <2>3, <2>4
<1>10. \A x \in Reqs, u \in PRanks :
         About(u, x)' = IF x = r /\ u = t THEN About(u, x) \cup {m} ELSE About(u, x)
  <2>1. \A u \in PRanks : notifs'[u] = IF u = t THEN notifs[u] \cup {m} ELSE notifs[u]
    BY <1>7 DEF Shape
  <2> QED BY <1>8, <2>1 DEF About
<1>11. Shape'
  BY <1>1, <1>6, <1>9, Frozen DEF Shape, ProducerStates
<1>12. Notifies(k, r, t)
  BY <1>10 DEF m, Notifies
<1>13. GotKV(k, r, t)
  BY <1>4, <1>5, <1>6 DEF GotKV
<1> QED BY <1>1, <1>5, <1>6, <1>11, <1>12, <1>13

LEMMA ReadFailsSpec ==
  ASSUME Shape, NEW k \in DRanks, NEW r \in Reqs, NEW t \in PRanks, ReadFails(k, r, t)
  PROVE  /\ Shape' /\ OneWorker(k) /\ UNCHANGED <<config, p, pr, d, notifs, expired>>
         /\ dr[k].xfer[r][t] = "proc" /\ SameButReads(dr'[k], dr[k]) /\ dr'[k].got = dr[k].got
         /\ \A x \in Reqs, u \in PRanks :
              dr'[k].xfer[x][u] = IF x = r /\ u = t THEN "err" ELSE dr[k].xfer[x][u]
<1> DEFINE w == dr[k]
           v == [w EXCEPT !.xfer[r][t] = "err", !.got = w.got]
<1>1. w \in WorkerStates /\ w.xfer[r][t] = "proc" /\ UNCHANGED <<config, p, pr, d, notifs, expired>>
  BY DEF Shape, ReadFails
<1>2. w.got \in SUBSET (Reqs \X PRanks)
  BY <1>1 DEF WorkerStates
<1>3. dr' = [dr EXCEPT ![k] = v]
  <2>1. v = [w EXCEPT !.xfer[r][t] = "err"]
    BY <1>1 DEF WorkerStates
  <2> HIDE DEF v
  <2> QED BY <2>1 DEF ReadFails
<1>4. /\ v \in WorkerStates /\ SameButReads(v, w) /\ v.got = w.got
      /\ \A x \in Reqs, u \in PRanks : v.xfer[x][u] = IF x = r /\ u = t THEN "err" ELSE w.xfer[x][u]
  <2>1. "err" \in {"none", "proc", "ok", "err"}
    OBVIOUS
  <2>2. v = Moved(w, r, t, "err", w.got)
    BY DEF Moved
  <2> HIDE DEF v, w
  <2> QED BY <1>1, <1>2, <2>1, <2>2, XferSpec
<1> HIDE DEF v
<1>5. dr' \in [DRanks -> WorkerStates] /\ dr'[k] = v /\ OneWorker(k)
  BY <1>3, <1>4, OneWorkerSpec
<1>6. faults' \in Nat /\ faults' <= MaxFaults
  <2>1. May("transfer", 1) /\ faults' = faults + 1
    BY DEF ReadFails
  <2>2. faults \in Nat /\ faults <= MaxFaults
    BY DEF Shape
  <2> QED BY <2>1, <2>2 DEF May
<1>7. Shape'
  BY <1>1, <1>5, <1>6, Frozen DEF Shape, ProducerStates
<1> QED BY <1>1, <1>4, <1>5, <1>7

Takes(v, w) ==
  /\ v.todo = w.todo /\ v.meta = w.meta /\ v.local = w.local /\ v.agents = w.agents
  /\ v.jobs = w.jobs /\ v.ready = w.ready /\ v.got = w.got /\ v.failed = w.failed
  /\ v.pc = "taken" /\ v.done = Popped(w) \cup w.failed /\ v.invalid = w.invalid \cup Broken(w)
  /\ \A x \in Reqs, u \in PRanks :
       v.xfer[x][u] = IF w.xfer[x][u] = "proc" THEN "proc" ELSE "none"

LEMMA TakeDoneSpec ==
  ASSUME Shape, NEW k \in DRanks, TakeDone(k)
  PROVE  /\ Shape' /\ OneWorker(k) /\ UNCHANGED <<config, p, pr, d, notifs, expired>>
         /\ dr[k].pc = "load" /\ dr[k].todo = {} /\ dr[k].ready = <<>> /\ Takes(dr'[k], dr[k])
<1> DEFINE w == dr[k]
           f == [r \in Reqs |-> [t \in PRanks |-> IF w.xfer[r][t] = "proc" THEN "proc" ELSE "none"]]
           v == [w EXCEPT !.pc = "taken", !.done = Popped(w) \cup w.failed,
                          !.invalid = @ \cup Broken(w), !.xfer = f]
<1>1. w \in WorkerStates /\ w.pc = "load" /\ w.todo = {} /\ w.ready = <<>>
      /\ UNCHANGED <<config, p, pr, d, notifs, expired, faults>>
  BY DEF Shape, TakeDone
<1>2. f \in [Reqs -> [PRanks -> {"none", "proc", "ok", "err"}]]
  OBVIOUS
<1>3. \A x \in Reqs, u \in PRanks : f[x][u] = IF w.xfer[x][u] = "proc" THEN "proc" ELSE "none"
  OBVIOUS
<1>4. Popped(w) \cup w.failed \in SUBSET Reqs /\ w.invalid \cup Broken(w) \in SUBSET Reqs
  BY <1>1 DEF WorkerStates, Popped, Broken
<1>5. dr' = [dr EXCEPT ![k] = v]
  <2>1. f = [r \in Reqs |-> [t \in PRanks |-> IF w.xfer[r][t] = "proc" THEN "proc" ELSE "none"]]
    OBVIOUS
  <2>2. w.xfer = [r \in Reqs |-> w.xfer[r]]
    BY <1>1 DEF WorkerStates
  <2>3. dr' = [dr EXCEPT ![k].pc = "taken", ![k].done = Popped(dr[k]) \cup dr[k].failed,
                         ![k].invalid = @ \cup Broken(dr[k]), ![k].xfer = f]
    BY <1>1 DEF TakeDone, Shape, WorkerStates
  <2> HIDE DEF f
  <2> QED BY <1>1, <2>3 DEF Shape, WorkerStates
<1> HIDE DEF f
<1>6. /\ v.todo = w.todo /\ v.meta = w.meta /\ v.local = w.local /\ v.agents = w.agents
      /\ v.jobs = w.jobs /\ v.ready = w.ready /\ v.got = w.got /\ v.failed = w.failed
      /\ v.pc = "taken" /\ v.done = Popped(w) \cup w.failed /\ v.invalid = w.invalid \cup Broken(w)
      /\ v.xfer = f
  BY <1>1 DEF WorkerStates
<1>7. v \in WorkerStates
  BY <1>1, <1>2, <1>4, <1>6 DEF WorkerStates
<1>8. Takes(v, w)
  BY <1>3, <1>6 DEF Takes
<1> HIDE DEF v
<1>9. dr' \in [DRanks -> WorkerStates] /\ dr'[k] = v /\ OneWorker(k)
  BY <1>5, <1>7, OneWorkerSpec
<1>10. Shape'
  BY <1>1, <1>9, Frozen DEF Shape, ProducerStates
<1> QED BY <1>1, <1>8, <1>9, <1>10

Reporting(v, w) ==
  /\ v.todo = w.todo /\ v.agents = w.agents
  /\ v.jobs = w.jobs /\ v.ready = w.ready /\ v.got = w.got /\ v.xfer = w.xfer
  /\ v.pc = "idle" /\ v.done = {} /\ v.invalid = {} /\ v.failed = {}
  /\ v.meta = w.meta \ w.done /\ v.local = w.local \ w.done

LEMMA ReportSpec ==
  ASSUME Shape, NEW k \in DRanks, Report(k)
  PROVE  /\ Shape' /\ OneWorker(k) /\ UNCHANGED <<config, p, pr, notifs, expired>>
         /\ dr[k].pc = "taken" /\ Reporting(dr'[k], dr[k])
         /\ d'.need = d.need /\ d'.status = d.status /\ d'.bad = d.bad /\ d'.used = d.used
         /\ d'.missing = d.missing
         /\ d'.error = (d.error \/ ~ dr[k].done \subseteq dr[k].meta)
         /\ d'.batch.recv = d.batch.recv /\ d'.batch.left = d.batch.left
         /\ d'.batch.done[k] = dr[k].done
         /\ \A l \in DRanks \ {k} : d'.batch.done[l] = d.batch.done[l]
         /\ d'.batch.invalid = d.batch.invalid \cup dr[k].invalid
<1> DEFINE w == dr[k]
           v == [w EXCEPT !.pc = "idle", !.done = {}, !.invalid = {}, !.failed = {},
                          !.meta = @ \ w.done, !.local = @ \ w.done]
           b == [d.batch EXCEPT !.done = [@ EXCEPT ![k] = w.done], !.invalid = @ \cup w.invalid]
           e == d.error \/ ~ w.done \subseteq w.meta
<1>1. w \in WorkerStates /\ w.pc = "taken" /\ UNCHANGED <<config, p, pr, notifs, expired, faults>>
      /\ d \in DStates /\ d.batch \in DBatches
  BY DEF Shape, Report, DStates
<1>2. Cleared(w) = {}
  BY DEF Cleared
<1>3. dr' = [dr EXCEPT ![k] = v]
  <2>1. dr' = [dr EXCEPT ![k].pc = "idle", ![k].done = {}, ![k].invalid = {}, ![k].failed = {},
                         ![k].meta = @ \ dr[k].done, ![k].local = @ \ dr[k].done]
    BY <1>2 DEF Report
  <2> QED BY <1>1, <2>1 DEF Shape, WorkerStates
<1>4. Reporting(v, w)
  BY <1>1 DEF WorkerStates, Reporting
<1>5. v \in WorkerStates
  BY <1>1 DEF WorkerStates
<1>6. b \in DBatches /\ b.recv = d.batch.recv /\ b.left = d.batch.left
      /\ b.done = [d.batch.done EXCEPT ![k] = w.done] /\ b.invalid = d.batch.invalid \cup w.invalid
  BY <1>1 DEF DBatches, WorkerStates
<1>7. b.done[k] = w.done /\ \A l \in DRanks \ {k} : b.done[l] = d.batch.done[l]
  BY <1>1, <1>6 DEF DBatches
<1>8. d' = [d EXCEPT !.batch = b, !.error = e]
  <2>1. d' = [d EXCEPT !.batch.done[k] = w.done, !.batch.invalid = @ \cup w.invalid,
                       !.error = @ \/ ~ w.done \subseteq w.meta]
    BY DEF Report
  <2> QED BY <1>1, <2>1 DEF DStates, DBatches
<1>9. e \in BOOLEAN /\ e = (d.error \/ ~ dr[k].done \subseteq dr[k].meta)
  OBVIOUS
<1> HIDE DEF b, e, v
<1>10. /\ d'.batch = b /\ d'.need = d.need /\ d'.status = d.status /\ d'.bad = d.bad /\ d'.used = d.used
       /\ d'.missing = d.missing /\ d'.error = e
  BY <1>1, <1>8 DEF DStates
<1>11. d' \in DStates
  BY <1>1, <1>6, <1>8, <1>9, <1>10 DEF DStates
<1>12. dr' \in [DRanks -> WorkerStates] /\ dr'[k] = v /\ OneWorker(k)
  BY <1>3, <1>5, OneWorkerSpec
<1>13. Shape'
  BY <1>1, <1>11, <1>12, Frozen DEF Shape, ProducerStates
<1> QED BY <1>1, <1>4, <1>6, <1>7, <1>9, <1>10, <1>12, <1>13
-----------------------------------------------------------------------------
(* Every notification is accounted for *)

LEMMA OwingFinite ==
  ASSUME Shape, NEW t \in PRanks, NEW r \in Reqs
  PROVE  /\ IsFiniteSet(Owing(t, r)) /\ Cardinality(Owing(t, r)) \in Nat
         /\ Cardinality(Owing(t, r)) <= Consumers /\ Consumers \in Nat \ {0}
         /\ Owing(t, r) = {} <=> Cardinality(Owing(t, r)) = 0
         /\ IsFiniteSet(About(t, r)) /\ Cardinality(About(t, r)) \in Nat
         /\ pr[t].count[r] \in Nat
<1>1. /\ IsFiniteSet(Readers(t)) /\ Cardinality(Readers(t)) <= Consumers
      /\ Cardinality(Readers(t)) \in Nat /\ Consumers \in Nat \ {0}
  BY ReadersBound DEF Shape
<1>2. Owing(t, r) \subseteq Readers(t)
  BY DEF Owing
<1>3. IsFiniteSet(Owing(t, r)) /\ Cardinality(Owing(t, r)) <= Cardinality(Readers(t)) /\ Cardinality(Owing(t, r)) \in Nat
  BY <1>1, <1>2, FS_Subset, FS_CardinalityType
<1>4. Cardinality(Owing(t, r)) <= Consumers
  BY <1>1, <1>3
<1>5. Owing(t, r) = {} <=> Cardinality(Owing(t, r)) = 0
  BY <1>3, FS_EmptySet
<1>6. IsFiniteSet(About(t, r)) /\ Cardinality(About(t, r)) \in Nat
  <2>1. IsFiniteSet(notifs[t]) /\ About(t, r) \subseteq notifs[t]
    BY DEF Shape, About
  <2> QED BY <2>1, FS_Subset, FS_CardinalityType
<1>7. pr[t].count[r] \in Nat
  BY DEF Shape, ProducerStates
<1> QED BY <1>1, <1>3, <1>4, <1>5, <1>6, <1>7

\* The producer's side of (t, r) stays as it is.
SameProducer(t, r) ==
  /\ r \in p'.told <=> r \in p.told
  /\ r \in p.told => /\ r \in pr'[t].process <=> r \in pr[t].process
                     /\ pr'[t].count[r] = pr[t].count[r]

\* What D's workers owe shrinks, by one for a notification.
FlowStep(t, r) ==
  \/ Owing(t, r)' \subseteq Owing(t, r) /\ About(t, r)' = About(t, r)
  \/ \E k \in Owing(t, r), m \in Notes :
       /\ Owing(t, r)' \subseteq Owing(t, r) \ {k}
       /\ About(t, r)' = About(t, r) \cup {m}

LEMMA FlowKept ==
  ASSUME Shape, Shape', config' = config, expired \subseteq expired',
         NEW t \in PRanks, NEW r \in Reqs, FlowInv(t, r), SameProducer(t, r), FlowStep(t, r)
  PROVE  FlowInv(t, r)'
<1> DEFINE O == Owing(t, r)
           O1 == Owing(t, r)'
           A == About(t, r)
           A1 == About(t, r)'
           c == pr[t].count[r]
<1>1. /\ IsFiniteSet(O) /\ Cardinality(O) \in Nat /\ IsFiniteSet(A) /\ Cardinality(A) \in Nat /\ c \in Nat
      /\ Consumers \in Nat
  BY OwingFinite
<1>2. Consumers' = Consumers
  BY Frozen
<1> SUFFICES ASSUME r \in p'.told \ expired'
             PROVE  /\ O1 # {} => r \in pr'[t].process
                    /\ r \in pr'[t].process =>
                         Cardinality(O1) + Cardinality(A1) + pr'[t].count[r] <= Consumers
  BY <1>2 DEF FlowInv
<1>3. /\ r \in pr'[t].process <=> r \in pr[t].process
      /\ pr'[t].count[r] = c
      /\ O # {} => r \in pr[t].process
      /\ r \in pr[t].process => Cardinality(O) + Cardinality(A) + c <= Consumers
  BY DEF SameProducer, FlowInv
<1>4. /\ O1 \subseteq O
      /\ Cardinality(O1) \in Nat /\ Cardinality(A1) \in Nat
      /\ Cardinality(O1) + Cardinality(A1) <= Cardinality(O) + Cardinality(A)
  <2>1. CASE O1 \subseteq O /\ A1 = A
    <3> HIDE DEF O, O1, A, A1
    <3>1. Cardinality(O1) <= Cardinality(O) /\ Cardinality(O1) \in Nat
      BY <1>1, <2>1, FS_Subset, FS_CardinalityType
    <3> QED BY <1>1, <2>1, <3>1
  <2>2. ASSUME NEW k \in O, NEW m \in Notes, O1 \subseteq O \ {k}, A1 = A \cup {m}
        PROVE  /\ O1 \subseteq O
               /\ Cardinality(O1) \in Nat /\ Cardinality(A1) \in Nat
               /\ Cardinality(O1) + Cardinality(A1) <= Cardinality(O) + Cardinality(A)
    <3> HIDE DEF O, O1, A, A1
    <3>1. IsFiniteSet(O \ {k}) /\ Cardinality(O \ {k}) = Cardinality(O) - 1
      BY <1>1, FS_RemoveElement
    <3>2. Cardinality(O1) <= Cardinality(O \ {k}) /\ Cardinality(O1) \in Nat
      BY <2>2, <3>1, FS_Subset, FS_CardinalityType
    <3>3. Cardinality(A1) \in Nat /\ Cardinality(A1) <= Cardinality(A) + 1
      <4>1. IsFiniteSet(A1) /\ (Cardinality(A1) = Cardinality(A) \/ Cardinality(A1) = Cardinality(A) + 1)
        BY <1>1, <2>2, FS_AddElement
      <4> QED BY <1>1, <4>1
    <3>4. O1 \subseteq O
      BY <2>2
    <3> QED BY <1>1, <3>1, <3>2, <3>3, <3>4
  <2> QED BY <2>1, <2>2 DEF FlowStep
<1>5. O1 # {} => O # {}
  BY <1>4
<1> HIDE DEF O, O1, A, A1, c
<1>6. r \in pr'[t].process => Cardinality(O1) + Cardinality(A1) + c <= Consumers
  BY <1>1, <1>3, <1>4
<1> QED BY <1>3, <1>5, <1>6

\* Steps of the prefill engine leave the channels of D alone.
LEMMA ChannelKept ==
  ASSUME Shape, ChannelInv, UNCHANGED <<config, d, dr>>,
         \A t \in PRanks, r \in Reqs : FlowInv(t, r)'
  PROVE  ChannelInv'
<1>1. PRanks' = PRanks /\ DRanks' = DRanks /\ \A k : Reads(k)' = Reads(k)
  BY Frozen
<1>2. \A k \in DRanks, r \in Reqs : PlaceInv(k, r)'
  <2>1. SUFFICES ASSUME NEW k \in DRanks, NEW r \in Reqs PROVE PlaceInv(k, r)'
    OBVIOUS
  <2>2. PlaceInv(k, r)
    BY DEF ChannelInv
  <2>3. /\ Fresh(r)' = Fresh(r) /\ Sent(k, r)' = Sent(k, r) /\ Moves(dr[k], r)' = Moves(dr[k], r)
        /\ Reading(dr[k], r)' = Reading(dr[k], r)
    BY <1>1 DEF Fresh, Sent, Moves, Reading
  <2> QED BY <2>2, <2>3 DEF PlaceInv
<1>3. \A k \in DRanks : ThreadInv(dr[k])'
  BY DEF ChannelInv, ThreadInv
<1> QED BY <1>1, <1>2, <1>3 DEF ChannelInv

LEMMA OwingKept ==
  ASSUME UNCHANGED <<config, d, dr>>, NEW t, NEW r
  PROVE  Owing(t, r)' = Owing(t, r)
BY Frozen DEF Owing, Owed, Owes, Fresh, Sent, Readers

\* A step of a worker of D or of its scheduler.
LEMMA ChannelStep ==
  ASSUME Shape, Shape', ChannelInv, UNCHANGED <<config, pr>>, p'.told = p.told, expired \subseteq expired',
         Distinct(d'.need), Distinct(d'.batch.recv),
         \A k \in DRanks : ThreadInv(dr'[k]),
         \A k \in DRanks, r \in Reqs : PlaceInv(k, r)',
         \A k \in DRanks, r \in Reqs, t \in PRanks : dr'[k].xfer[r][t] # "none" => t \in Reads(k),
         \A t \in PRanks, r \in Reqs : FlowStep(t, r)
  PROVE  ChannelInv'
<1>1. PRanks' = PRanks /\ DRanks' = DRanks /\ \A k : Reads(k)' = Reads(k)
  BY Frozen
<1>2. \A t \in PRanks, r \in Reqs : FlowInv(t, r)'
  <2>1. SUFFICES ASSUME NEW t \in PRanks, NEW r \in Reqs PROVE FlowInv(t, r)'
    OBVIOUS
  <2>2. FlowInv(t, r) /\ FlowStep(t, r)
    BY DEF ChannelInv
  <2>3. SameProducer(t, r)
    BY DEF SameProducer
  <2> QED BY <2>2, <2>3, FlowKept
<1> QED BY <1>1, <1>2 DEF ChannelInv

\* The scheduler of D: nothing is owed that was not.
LEMMA ChannelScheduler ==
  ASSUME Shape, Shape', ChannelInv, UNCHANGED <<config, p, pr, dr, notifs, expired>>,
         Distinct(d'.need), Distinct(d'.batch.recv),
         \A k \in DRanks, r \in Reqs : PlaceInv(k, r)',
         \A k \in DRanks, r \in Reqs : Owes(k, r)' => Owes(k, r)
  PROVE  ChannelInv'
<1>1. PRanks' = PRanks /\ DRanks' = DRanks /\ \A k : Reads(k)' = Reads(k)
  BY Frozen
<1>2. ASSUME NEW t \in PRanks, NEW r \in Reqs PROVE FlowStep(t, r)
  <2>1. Owing(t, r)' \subseteq Owing(t, r)
    BY <1>1 DEF Owing, Owed, Readers
  <2>2. About(t, r)' = About(t, r)
    BY DEF About
  <2> QED BY <2>1, <2>2 DEF FlowStep
<1>3. \A k \in DRanks : ThreadInv(dr'[k])
  BY DEF ChannelInv
<1>4. \A k \in DRanks, r \in Reqs, t \in PRanks : dr'[k].xfer[r][t] # "none" => t \in Reads(k)
  BY DEF ChannelInv
<1> QED BY <1>2, <1>3, <1>4, ChannelStep

\* The other workers of D when k takes a step.
OthersSame(k) ==
  /\ d'.status = d.status /\ d'.need = d.need /\ d'.batch.recv = d.batch.recv
  /\ \A l \in DRanks \ {k} : /\ l \in d'.batch.left <=> l \in d.batch.left
                             /\ d'.batch.done[l] = d.batch.done[l]

\* What one worker owes for a read: less, by one for a notification.
OwedStep(k, r, t) ==
  \/ (Owed(k, r, t)' => Owed(k, r, t)) /\ About(t, r)' = About(t, r)
  \/ /\ t \in Reads(k) /\ Owed(k, r, t) /\ ~ Owed(k, r, t)'
     /\ \E m \in Notes : About(t, r)' = About(t, r) \cup {m}

LEMMA ChannelWorker ==
  ASSUME Shape, Shape', ChannelInv, UNCHANGED <<config, p, pr>>, expired \subseteq expired',
         NEW k \in DRanks, OneWorker(k), OthersSame(k),
         ThreadInv(dr'[k]),
         \A r \in Reqs : PlaceInv(k, r)',
         \A r \in Reqs, t \in PRanks : dr'[k].xfer[r][t] # "none" => t \in Reads(k),
         \A r \in Reqs, t \in PRanks : OwedStep(k, r, t)
  PROVE  ChannelInv'
<1>1. PRanks' = PRanks /\ DRanks' = DRanks /\ \A l : Reads(l)' = Reads(l)
  BY Frozen
<1>2. ASSUME NEW l \in DRanks, l # k, NEW r \in Reqs
      PROVE  /\ dr'[l] = dr[l] /\ PlaceInv(l, r)'
             /\ \A t \in PRanks : Owed(l, r, t)' <=> Owed(l, r, t)
  <2>1. dr'[l] = dr[l] /\ l \in DRanks \ {k}
    BY <1>2 DEF OneWorker
  <2>2. PlaceInv(l, r)
    BY DEF ChannelInv
  <2>3. /\ Fresh(r)' <=> Fresh(r)
        /\ Sent(l, r)' <=> Sent(l, r)
        /\ Moves(dr[l], r)' <=> Moves(dr[l], r)
        /\ Reading(dr[l], r)' <=> Reading(dr[l], r)
        /\ d'.need = d.need /\ d'.batch.done[l] = d.batch.done[l]
    BY <1>1, <2>1 DEF OthersSame, Fresh, Sent, Moves, Reading
  <2>4. PlaceInv(l, r)'
    BY <2>1, <2>2, <2>3 DEF PlaceInv, Failing
  <2>5. Owes(l, r)' <=> Owes(l, r)
    BY <2>1, <2>3 DEF Owes
  <2>6. \A t \in PRanks : Owed(l, r, t)' <=> Owed(l, r, t)
    BY <2>1, <2>5 DEF Owed
  <2> QED BY <2>1, <2>4, <2>6
<1>3. \A l \in DRanks : ThreadInv(dr'[l])
  BY DEF ChannelInv, OneWorker
<1>4. \A l \in DRanks, r \in Reqs : PlaceInv(l, r)'
  BY <1>2
<1>5. \A l \in DRanks, r \in Reqs, t \in PRanks : dr'[l].xfer[r][t] # "none" => t \in Reads(l)
  BY DEF ChannelInv, OneWorker
<1>6. ASSUME NEW t \in PRanks, NEW r \in Reqs PROVE FlowStep(t, r)
  <2>1. Readers(t)' = Readers(t)
    BY <1>1 DEF Readers
  <2>2. OwedStep(k, r, t)
    OBVIOUS
  <2>3. CASE (Owed(k, r, t)' => Owed(k, r, t)) /\ About(t, r)' = About(t, r)
    <3>1. Owing(t, r)' \subseteq Owing(t, r)
      BY <1>2, <2>1, <2>3 DEF Owing, Readers
    <3> QED BY <2>3, <3>1 DEF FlowStep
  <2>4. CASE /\ t \in Reads(k) /\ Owed(k, r, t) /\ ~ Owed(k, r, t)'
             /\ \E m \in Notes : About(t, r)' = About(t, r) \cup {m}
    <3>1. k \in Owing(t, r)
      BY <2>4 DEF Owing, Readers
    <3>2. Owing(t, r)' \subseteq Owing(t, r) \ {k}
      BY <1>2, <2>1, <2>4 DEF Owing, Readers
    <3> QED BY <2>4, <3>1, <3>2 DEF FlowStep
  <2> QED BY <2>2, <2>3, <2>4 DEF OwedStep
<1>7. Distinct(d'.need) /\ Distinct(d'.batch.recv)
  BY DEF ChannelInv, OthersSame
<1> QED BY <1>3, <1>4, <1>5, <1>6, <1>7, ChannelStep

LEMMA ChannelPrefill ==
  ASSUME Shape, Shape', PInv, ChannelInv, UNCHANGED <<config, d, dr, notifs>>, expired \subseteq expired',
         \A t \in PRanks, r \in Reqs : SameProducer(t, r)
  PROVE  ChannelInv'
<1>1. ASSUME NEW t \in PRanks, NEW r \in Reqs PROVE FlowInv(t, r)'
  <2>1. FlowInv(t, r) /\ SameProducer(t, r)
    BY DEF ChannelInv
  <2>2. Owing(t, r)' = Owing(t, r) /\ About(t, r)' = About(t, r)
    BY OwingKept DEF About
  <2> QED BY <2>1, <2>2, FlowKept DEF FlowStep
<1> QED BY <1>1, ChannelKept

LEMMA ChannelPStart ==
  ASSUME Shape, PInv, ChannelInv, NEW t \in PRanks, PStart(t)
  PROVE  ChannelInv'
<1>1. /\ Shape' /\ UNCHANGED <<config, d, dr, notifs, expired, faults>> /\ p'.told = p.told
  BY PStartSpec
<1> PICK i \in DOMAIN p.batches : PStarts(t, i, p.batches[i].meta)
  BY PStartSpec
<1>2. ASSUME NEW u \in PRanks, NEW r \in Reqs PROVE SameProducer(u, r)
  <2>1. /\ \A v \in PRanks \ {t} : pr'[v] = pr[v]
        /\ pr'[t].process = (pr[t].process \cup p.batches[i].meta.in) \ p.batches[i].meta.not
        /\ pr'[t].count = pr[t].count
    BY DEF PStarts
  <2>2. r \in p.told => ~ InSome(r) /\ ~ NotSome(r)
    BY DEF PInv, ToldInv
  <2>3. r \in p.told => r \notin p.batches[i].meta.in /\ r \notin p.batches[i].meta.not
    BY <2>2 DEF InSome, NotSome
  <2> QED BY <1>1, <2>1, <2>3 DEF SameProducer
<1> QED BY <1>1, <1>2, ChannelPrefill

LEMMA ChannelPFinish ==
  ASSUME Shape, PInv, ChannelInv, NEW t \in PRanks, PFinish(t)
  PROVE  ChannelInv'
<1>1. Shape' /\ UNCHANGED <<config, d, dr, expired, faults>> /\ p'.told = p.told
  BY PFinishSpec
<1> PICK i \in DOMAIN p.batches, out \in SUBSET Reqs : PFinishes(t, i, out)
  BY PFinishSpec
<1>2. /\ notifs'[t] = {}
      /\ \A u \in PRanks \ {t} : notifs'[u] = notifs[u] /\ pr'[u] = pr[u]
      /\ pr'[t].process = pr[t].process \ out
      /\ \A r \in out : \/ r \in pr[t].send \cup pr[t].process /\ Notified(t, r) >= Consumers
                        \/ r \in expired
      /\ \A r \in Reqs \ out : r \in pr[t].process => pr'[t].count[r] = Notified(t, r)
  BY DEF PFinishes
<1>3. Consumers' = Consumers
  BY <1>1, Frozen
<1>4. ASSUME NEW u \in PRanks, NEW r \in Reqs PROVE FlowInv(u, r)'
  <2>1. FlowInv(u, r) /\ pr[u].send \subseteq pr[u].process
    BY DEF ChannelInv, PInv
  <2>2. Owing(u, r)' = Owing(u, r)
    BY <1>1, OwingKept
  <2>3. CASE u # t
    <3>1. About(u, r)' = About(u, r) /\ pr'[u] = pr[u]
      BY <1>2, <2>3 DEF About
    <3> QED BY <1>1, <1>3, <2>1, <2>2, <3>1 DEF FlowInv
  <2>4. CASE u = t
    <3> DEFINE o == Cardinality(Owing(t, r))
               a == Cardinality(About(t, r))
               c == pr[t].count[r]
    <3>1. /\ o \in Nat /\ a \in Nat /\ c \in Nat /\ Consumers \in Nat
          /\ Owing(t, r) = {} <=> o = 0
      BY OwingFinite
    <3>2. About(t, r)' = {} /\ Cardinality(About(t, r)') = 0
      BY <1>2, FS_EmptySet DEF About
    <3>3. Notified(t, r) = c + a
      BY DEF Notified
    <3>4. SUFFICES ASSUME r \in p.told \ expired
                   PROVE  /\ Owing(t, r) # {} => r \in pr'[t].process
                          /\ r \in pr'[t].process => o + 0 + pr'[t].count[r] <= Consumers
      BY <1>1, <1>3, <2>2, <2>4, <3>2 DEF FlowInv
    <3>5. /\ Owing(t, r) # {} => r \in pr[t].process
          /\ r \in pr[t].process => o + a + c <= Consumers
      BY <2>1, <2>4, <3>4 DEF FlowInv
    <3> HIDE DEF o, a, c
    <3>6. CASE r \in out
      <4>1. r \in pr[t].process /\ c + a >= Consumers
        BY <1>2, <2>1, <2>4, <3>3, <3>4, <3>6
      <4>2. o = 0
        BY <3>1, <3>5, <4>1
      <4> QED BY <1>2, <3>1, <3>6, <4>2
    <3>7. CASE r \notin out
      <4>1. r \in pr'[t].process <=> r \in pr[t].process
        BY <1>2, <3>7
      <4>2. r \in pr'[t].process => pr'[t].count[r] = c + a
        BY <1>2, <3>3, <3>7, <4>1
      <4> QED BY <3>1, <3>5, <4>1, <4>2
    <3> QED BY <3>6, <3>7
  <2> QED BY <2>3, <2>4
<1> QED BY <1>1, <1>4, ChannelKept

LEMMA ChannelPUpdate ==
  ASSUME Shape, PInv, ChannelInv, PUpdate
  PROVE  ChannelInv'
<1>1. Shape' /\ UNCHANGED <<config, pr, d, dr, notifs, expired, faults>>
  BY PUpdateSpec
<1> PICK fin, over : PUpdates(fin, over)
  BY PUpdateSpec
<1>2. p'.told = p.told \cup fin
  BY DEF PUpdates
<1>3. Consumers' = Consumers /\ PRanks' = PRanks
  BY <1>1, Frozen
<1>4. PInv'
  BY PInvUpdate
<1>5. ASSUME NEW t \in PRanks, NEW r \in Reqs PROVE FlowInv(t, r)'
  <2>1. Owing(t, r)' = Owing(t, r) /\ About(t, r)' = About(t, r)
    BY <1>1, OwingKept DEF About
  <2>2. FlowInv(t, r)
    BY DEF ChannelInv
  <2>3. CASE r \in p.told \/ r \notin p'.told
    BY <1>1, <1>3, <2>1, <2>2, <2>3 DEF FlowInv
  <2>4. CASE r \notin p.told /\ r \in p'.told
    <3>1. pr[t].count[r] = 0 /\ About(t, r) = {}
      BY <2>4 DEF PInv, UntoldInv
    <3>2. r \in pr[t].process
      <4>1. r \in fin
        BY <1>2, <2>4
      <4>2. /\ p.status[r] = "running" /\ r \notin p.pend.in
            /\ \A j \in 2..Len(p.batches) : r \notin p.batches[j].meta.in
            /\ p.batches[1].stage[t] = "done" /\ Len(p.batches) > 0
        BY <4>1 DEF PUpdates
      <4>3. r \in pr[t].process \/ Queued(t, r)
        BY <4>2 DEF PInv, RunningInv
      <4>4. ~ Queued(t, r)
        <5>1. p.batches \in Seq(PBatches)
          BY DEF Shape, PStates
        <5>2. \A j \in DOMAIN p.batches : j = 1 \/ j \in 2..Len(p.batches)
          BY <5>1
        <5> QED BY <4>2, <5>2 DEF Queued
      <4> QED BY <4>3, <4>4
    <3>3. Cardinality(About(t, r)) = 0 /\ Cardinality(Owing(t, r)) \in Nat /\ Cardinality(Owing(t, r)) <= Consumers
      BY <3>1, OwingFinite, FS_EmptySet
    <3>4. Cardinality(Owing(t, r)) + 0 + 0 <= Consumers
      BY <3>3, OwingFinite
    <3> QED BY <1>1, <1>3, <2>1, <3>1, <3>2, <3>3, <3>4 DEF FlowInv
  <2> QED BY <2>3, <2>4
<1> QED BY <1>1, <1>5, ChannelKept

\* Requests move on from fresh to the list of the scheduler to its batch.
SchedulerMoves(k, r) ==
  /\ Fresh(r)' => Fresh(r) /\ (r \in d'.batch.done[k] => r \in d.batch.done[k])
  /\ Asked(d'.need, r) => Asked(d.need, r) \/ (Fresh(r) /\ ~ Fresh(r)')
  /\ Sent(k, r)' => Sent(k, r) \/ (Asked(d.need, r) /\ ~ Asked(d'.need, r))

LEMMA SchedulerPlaces ==
  ASSUME UNCHANGED <<config, dr>>, NEW k \in DRanks, NEW r \in Reqs, PlaceInv(k, r), SchedulerMoves(k, r)
  PROVE  PlaceInv(k, r)' /\ (Owes(k, r)' => Owes(k, r))
<1>1. /\ Moves(dr[k], r)' <=> Moves(dr[k], r)
      /\ Reading(dr[k], r)' <=> Reading(dr[k], r)
      /\ Reading(dr[k], r) => Moves(dr[k], r)
  BY Frozen DEF Moves, Reading
<1>2. PlaceInv(k, r)'
  BY <1>1 DEF PlaceInv, SchedulerMoves, Failing
<1>3. Owes(k, r)' => Owes(k, r)
  BY DEF Owes, SchedulerMoves
<1> QED BY <1>2, <1>3

LEMMA DRanksNonempty ==
  ASSUME config \in Configs
  PROVE  0 \in DRanks
BY ConfigSpec DEF DRanks

LEMMA ChannelDArrive ==
  ASSUME Shape, ChannelInv, NEW r \in Reqs, DArrive(r)
  PROVE  ChannelInv'
<1>1. /\ Shape' /\ UNCHANGED <<config, p, pr, dr, notifs, expired, faults>>
      /\ d.status[r] = "new" /\ d'.status = [d.status EXCEPT ![r] = "waiting"]
      /\ d'.need = d.need /\ d'.batch = d.batch
  BY DArriveSpec DEF DOther
<1>2. d.status \in [Reqs -> Statuses]
  BY DEF Shape, DStates
<1>3. ASSUME NEW k \in DRanks, NEW x \in Reqs PROVE SchedulerMoves(k, x)
  BY <1>1, <1>2 DEF SchedulerMoves, Fresh, Sent
<1>4. \A k \in DRanks, x \in Reqs : PlaceInv(k, x)' /\ (Owes(k, x)' => Owes(k, x))
  BY <1>1, <1>3, SchedulerPlaces DEF ChannelInv
<1> QED BY <1>1, <1>4, ChannelScheduler DEF ChannelInv

\* A fresh request is put on the list.
LEMMA ChannelListed ==
  ASSUME Shape, Shape', ChannelInv, UNCHANGED <<config, p, pr, dr, notifs, expired>>,
         d'.batch = d.batch, NEW r \in Reqs, NEW x \in Loads, x.req = r, Fresh(r),
         d'.need = d.need \cup {x}, ~ Fresh(r)',
         \A y \in Reqs \ {r} : d'.status[y] = d.status[y]
  PROVE  ChannelInv'
<1>1. ~ Asked(d.need, r)
  BY DRanksNonempty DEF Shape, ChannelInv, PlaceInv
<1>2. Distinct(d'.need)
  BY <1>1 DEF ChannelInv, Distinct, Asked
<1>3. ASSUME NEW k \in DRanks, NEW y \in Reqs PROVE SchedulerMoves(k, y)
  <2>1. CASE y = r
    BY <2>1 DEF SchedulerMoves, Sent
  <2>2. CASE y # r
    <3>1. Asked(d'.need, y) => Asked(d.need, y)
      BY <2>2 DEF Asked
    <3>2. Fresh(y)' <=> Fresh(y)
      BY <2>2 DEF Fresh
    <3> QED BY <3>1, <3>2 DEF SchedulerMoves, Sent
  <2> QED BY <2>1, <2>2
<1>4. \A k \in DRanks, y \in Reqs : PlaceInv(k, y)' /\ (Owes(k, y)' => Owes(k, y))
  BY <1>3, SchedulerPlaces DEF ChannelInv
<1> QED BY <1>2, <1>4, ChannelScheduler DEF ChannelInv

LEMMA ChannelDAdmit ==
  ASSUME Shape, ChannelInv, NEW r \in Reqs, DAdmit(r)
  PROVE  ChannelInv'
<1>1. /\ Shape' /\ UNCHANGED <<config, p, pr, dr, notifs, expired, faults>>
      /\ d.status[r] = "waiting" /\ d'.batch = d.batch
      /\ \/ d'.status = [d.status EXCEPT ![r] = "remote"] /\ d'.need = d.need \cup {Load(r)}
         \/ d'.status = [d.status EXCEPT ![r] = "running"] /\ d'.need = d.need \cup {Note(r)}
  BY DAdmitSpec DEF DOther
<1>2. d.status \in [Reqs -> Statuses]
  BY DEF Shape, DStates
<1>3. Load(r) \in Loads /\ Load(r).req = r /\ Note(r) \in Loads /\ Note(r).req = r
  BY DEF Load, Note, Loads
<1>4. Fresh(r) /\ ~ Fresh(r)' /\ \A y \in Reqs \ {r} : d'.status[y] = d.status[y]
  BY <1>1, <1>2 DEF Fresh
<1> QED BY <1>1, <1>3, <1>4, ChannelListed

LEMMA ChannelDAbort ==
  ASSUME Shape, ChannelInv, NEW r \in Reqs, DAbort(r)
  PROVE  ChannelInv'
<1>1. /\ Shape' /\ UNCHANGED <<config, p, pr, dr, notifs, expired, faults>>
      /\ d'.batch = d.batch
      /\ \/ d.status[r] = "waiting" /\ d'.status = [d.status EXCEPT ![r] = "gone"] /\ d'.need = d.need \cup {Note(r)}
         \/ d.status[r] = "remote" /\ d'.status = [d.status EXCEPT ![r] = "finished"] /\ d'.need = d.need
  BY DAbortSpec DEF DOther
<1>2. d.status \in [Reqs -> Statuses]
  BY DEF Shape, DStates
<1>3. Note(r) \in Loads /\ Note(r).req = r
  BY DEF Note, Loads
<1>4. CASE d.status[r] = "waiting" /\ d'.status = [d.status EXCEPT ![r] = "gone"] /\ d'.need = d.need \cup {Note(r)}
  <2>1. Fresh(r) /\ ~ Fresh(r)' /\ \A y \in Reqs \ {r} : d'.status[y] = d.status[y]
    BY <1>2, <1>4 DEF Fresh
  <2> QED BY <1>1, <1>3, <1>4, <2>1, ChannelListed
<1>5. CASE d.status[r] = "remote" /\ d'.status = [d.status EXCEPT ![r] = "finished"] /\ d'.need = d.need
  <2>1. ASSUME NEW k \in DRanks, NEW x \in Reqs PROVE SchedulerMoves(k, x)
    BY <1>1, <1>2, <1>5 DEF SchedulerMoves, Fresh, Sent
  <2>2. \A k \in DRanks, x \in Reqs : PlaceInv(k, x)' /\ (Owes(k, x)' => Owes(k, x))
    BY <1>1, <2>1, SchedulerPlaces DEF ChannelInv
  <2> QED BY <1>1, <1>5, <2>2, ChannelScheduler DEF ChannelInv
<1> QED BY <1>1, <1>4, <1>5

LEMMA ChannelDSchedule ==
  ASSUME Shape, ChannelInv, DSchedule
  PROVE  ChannelInv'
<1>1. /\ Shape' /\ UNCHANGED <<config, p, pr, dr, notifs, expired, faults>>
      /\ \A k \in DRanks : d'.batch.done[k] = {}
      /\ d'.batch.recv = d.need /\ d'.need = {} /\ d'.status = d.status
  BY DScheduleSpec
<1>2. Distinct(d'.need) /\ Distinct(d'.batch.recv)
  BY <1>1 DEF ChannelInv, Distinct
<1>3. ASSUME NEW k \in DRanks, NEW x \in Reqs PROVE SchedulerMoves(k, x)
  <2>1. ~ Asked(d'.need, x) /\ (Sent(k, x)' => Asked(d.need, x)) /\ (Fresh(x)' <=> Fresh(x))
    BY <1>1 DEF Asked, Sent, Fresh
  <2> QED BY <1>1, <2>1 DEF SchedulerMoves
<1>4. \A k \in DRanks, x \in Reqs : PlaceInv(k, x)' /\ (Owes(k, x)' => Owes(k, x))
  BY <1>1, <1>3, SchedulerPlaces DEF ChannelInv
<1> QED BY <1>1, <1>2, <1>4, ChannelScheduler

LEMMA ChannelDUpdate ==
  ASSUME Shape, ChannelInv, DUpdate
  PROVE  ChannelInv'
<1>1. /\ Shape' /\ UNCHANGED <<config, p, pr, dr, notifs, expired, faults>>
      /\ \A k \in DRanks : d'.batch.done[k] = {}
      /\ d'.batch.recv = {} /\ d'.batch.left = {} /\ d'.need = d.need
  BY DUpdateSpec
<1> PICK over : DUpdates(over)
  BY DUpdateSpec
<1>2. Distinct(d'.need) /\ Distinct(d'.batch.recv)
  BY <1>1 DEF ChannelInv, Distinct
<1>3. ASSUME NEW k \in DRanks, NEW x \in Reqs PROVE SchedulerMoves(k, x)
  <2>1. ~ Sent(k, x)'
    BY <1>1 DEF Sent
  <2>2. Fresh(x)' => Fresh(x)
    BY DEF Fresh, DUpdates, DStat
  <2> QED BY <1>1, <2>1, <2>2 DEF SchedulerMoves
<1>4. \A k \in DRanks, x \in Reqs : PlaceInv(k, x)' /\ (Owes(k, x)' => Owes(k, x))
  BY <1>1, <1>3, SchedulerPlaces DEF ChannelInv
<1> QED BY <1>1, <1>2, <1>4, ChannelScheduler

LEMMA ExpireSpec ==
  ASSUME Shape, NEW r \in Reqs, Expire(r)
  PROVE  /\ Shape' /\ UNCHANGED <<config, p, pr, d, dr, notifs, faults>>
         /\ r \in p.told /\ expired' = expired \cup {r}
<1>1. UNCHANGED <<config, p, pr, d, dr, notifs, faults>> /\ r \in p.told /\ expired' = expired \cup {r}
  BY DEF Expire
<1>2. Shape'
  BY <1>1, Frozen DEF Shape, ProducerStates
<1> QED BY <1>1, <1>2

\* Steps of the prefill engine that no worker of P takes part in.
LEMMA ChannelPrefillOther ==
  ASSUME Shape, PInv, ChannelInv,
         PSchedule \/ \E r \in Reqs : PAdmit(r) \/ PAbort(r) \/ Expire(r)
  PROVE  ChannelInv'
<1> DEFINE Apart == /\ Shape' /\ UNCHANGED <<config, pr, d, dr, notifs>> /\ p'.told = p.told
                    /\ expired \subseteq expired'
<1>1. Apart
  <2>1. CASE PSchedule
    BY <2>1, PScheduleSpec
  <2>2. ASSUME NEW r \in Reqs, PAdmit(r) PROVE Apart
    BY <2>2, PAdmitSpec
  <2>3. ASSUME NEW r \in Reqs, PAbort(r) PROVE Apart
    BY <2>3, PAbortSpec
  <2>4. ASSUME NEW r \in Reqs, Expire(r) PROVE Apart
    BY <2>4, ExpireSpec
  <2> QED BY <2>1, <2>2, <2>3, <2>4
<1>2. \A t \in PRanks, r \in Reqs : SameProducer(t, r)
  BY <1>1 DEF SameProducer
<1> QED BY <1>1, <1>2, ChannelPrefill

\* Worker k has x at no place where it was not.
Stays(k, x) ==
  /\ d'.status[x] = d.status[x] /\ d'.need = d.need
  /\ Sent(k, x)' => Sent(k, x)
  /\ x \in d'.batch.done[k] => x \in d.batch.done[k] \/ Failing(dr[k], x)
  /\ Asked(dr'[k].todo, x) => Asked(dr[k].todo, x)
  /\ Joins(dr'[k], x) => Joins(dr[k], x)
  /\ Ready(dr'[k], x) => Ready(dr[k], x)
  /\ Failing(dr'[k], x) => Failing(dr[k], x) \/ Moves(dr[k], x) \/ Joins(dr[k], x)
  /\ \A t \in PRanks : /\ dr'[k].xfer[x][t] = "proc" => dr[k].xfer[x][t] = "proc"
                       /\ dr'[k].xfer[x][t] # "none" => dr[k].xfer[x][t] # "none"

LEMMA StaysKept ==
  ASSUME config' = config, NEW k \in DRanks, NEW x \in Reqs, PlaceInv(k, x), Stays(k, x)
  PROVE  PlaceInv(k, x)' /\ \A t \in PRanks : Owed(k, x, t)' => Owed(k, x, t)
<1>1. /\ Moves(dr[k], x)' => Moves(dr[k], x)
      /\ Reading(dr[k], x)' => Reading(dr[k], x)
      /\ Fresh(x)' <=> Fresh(x)
  BY Frozen DEF Moves, Reading, Stays, Fresh
<1>2. PlaceInv(k, x)'
  <2>1. /\ x \in d'.batch.done[k] => x \in d.batch.done[k] \/ Failing(dr[k], x)
        /\ Failing(dr[k], x)' => Failing(dr[k], x) \/ Moves(dr[k], x) \/ Joins(dr[k], x)
        /\ Asked(d.need, x)' <=> Asked(d.need, x)
    BY DEF Stays, Failing
  <2> QED BY <1>1, <2>1 DEF PlaceInv, Stays
<1>3. Owes(k, x)' => Owes(k, x)
  BY <1>1 DEF Owes, Stays
<1> QED BY <1>2, <1>3 DEF Owed, Stays

\* Worker k has r at one place at most, and nothing is left of it before.
LEMMA PlaceMoved ==
  ASSUME config' = config, NEW k \in DRanks, NEW r \in Reqs,
         ~ Fresh(r)', ~ Asked(d'.need, r), ~ Sent(k, r)',
         Asked(dr'[k].todo, r) => ~ Joins(dr'[k], r) /\ ~ Ready(dr'[k], r) /\ ~ Reading(dr'[k], r),
         Joins(dr'[k], r) => ~ Ready(dr'[k], r) /\ ~ Reading(dr'[k], r),
         Ready(dr'[k], r) => ~ Reading(dr'[k], r)
  PROVE  PlaceInv(k, r)'
<1>1. Reading(dr[k], r)' <=> Reading(dr'[k], r)
  BY Frozen DEF Reading
<1> QED BY <1>1 DEF PlaceInv

LEMMA ChannelDStart ==
  ASSUME Shape, ChannelInv, NEW k \in DRanks, DStart(k)
  PROVE  ChannelInv'
<1>1. /\ Shape' /\ UNCHANGED <<config, p, pr, notifs, expired, faults>>
      /\ dr[k].pc = "idle" /\ k \in d.batch.left /\ OneWorker(k)
      /\ dr'[k] = [dr[k] EXCEPT !.pc = "load", !.todo = d.batch.recv]
      /\ d'.need = d.need /\ d'.status = d.status
      /\ d'.batch.recv = d.batch.recv /\ d'.batch.left = d.batch.left \ {k}
      /\ d'.batch.done = d.batch.done
  BY DStartSpec
<1>2. /\ dr'[k].pc = "load" /\ dr'[k].todo = d.batch.recv /\ dr'[k].jobs = dr[k].jobs /\ dr'[k].ready = dr[k].ready
      /\ dr'[k].failed = dr[k].failed /\ dr'[k].done = dr[k].done /\ dr'[k].xfer = dr[k].xfer
  BY <1>1 DEF Shape, WorkerStates
<1>3. ThreadInv(dr'[k])
  <2>1. ThreadInv(dr[k]) /\ Distinct(d.batch.recv)
    BY DEF ChannelInv
  <2> QED BY <1>2, <2>1 DEF ThreadInv, JobsInv
<1>4. /\ \A x \in Reqs : Joins(dr'[k], x) <=> Joins(dr[k], x)
      /\ \A x \in Reqs : Ready(dr'[k], x) <=> Ready(dr[k], x)
      /\ \A x \in Reqs : Failing(dr'[k], x) <=> Failing(dr[k], x)
      /\ \A x \in Reqs : ~ Sent(k, x)'
  BY <1>1, <1>2 DEF Joins, Ready, Failing, Sent
<1>5. ASSUME NEW x \in Reqs
      PROVE  PlaceInv(k, x)' /\ \A t \in PRanks : Owed(k, x, t)' => Owed(k, x, t)
  <2>1. PlaceInv(k, x)
    BY DEF ChannelInv
  <2>2. CASE Asked(d.batch.recv, x)
    <3>1. Sent(k, x)
      BY <1>1, <2>2 DEF Sent
    <3>2. ~ Fresh(x) /\ ~ Asked(d.need, x) /\ ~ Joins(dr[k], x) /\ ~ Ready(dr[k], x) /\ ~ Reading(dr[k], x)
      BY <2>1, <3>1 DEF PlaceInv
    <3>3. ~ Fresh(x)' /\ ~ Asked(d'.need, x) /\ ~ Reading(dr'[k], x)
      BY <1>1, <1>2, <3>2 DEF Fresh, Reading
    <3>4. PlaceInv(k, x)'
      BY <1>1, <1>4, <3>2, <3>3, PlaceMoved
    <3> QED BY <3>1, <3>4 DEF Owed, Owes
  <2>3. CASE ~ Asked(d.batch.recv, x)
    <3>1. Stays(k, x)
      BY <1>1, <1>2, <1>4, <2>3 DEF Stays
    <3> QED BY <1>1, <2>1, <3>1, StaysKept
  <2> QED BY <2>2, <2>3
<1>6. OthersSame(k)
  BY <1>1 DEF OthersSame
<1>7. \A x \in Reqs, t \in PRanks : dr'[k].xfer[x][t] # "none" => t \in Reads(k)
  BY <1>2 DEF ChannelInv
<1>8. \A x \in Reqs, t \in PRanks : OwedStep(k, x, t)
  BY <1>1, <1>5 DEF OwedStep, About
<1>9. \A x \in Reqs : PlaceInv(k, x)'
  BY <1>5
<1> QED BY <1>1, <1>3, <1>6, <1>7, <1>8, <1>9, ChannelWorker

\* w is the worker k once it has taken up r, which is now at none of its places.
Takeup(k, w, r) ==
  /\ w \in WorkerStates /\ w.pc = "load" /\ ThreadInv(w)
  /\ ~ Asked(w.todo, r) /\ ~ Joins(w, r) /\ ~ Ready(w, r) /\ ~ Reading(w, r)
  /\ ~ Fresh(r) /\ ~ Asked(d.need, r) /\ ~ Sent(k, r) /\ Owes(k, r)
  /\ \A x \in Reqs \ {r} : /\ Asked(w.todo, x) => Asked(dr[k].todo, x)
                           /\ Joins(w, x) => Joins(dr[k], x)
                           /\ Ready(w, x) => Ready(dr[k], x)
  /\ w.xfer = dr[k].xfer /\ w.failed = dr[k].failed /\ w.done = dr[k].done

LEMMA ChannelTakeup ==
  ASSUME Shape, Shape', ChannelInv, UNCHANGED <<config, p, pr, expired>>,
         NEW k \in DRanks, NEW w, NEW r \in Reqs, Takeup(k, w, r), OneWorker(k), OthersSame(k),
         d'.batch = d.batch, ThreadInv(dr'[k]),
         dr'[k].todo = w.todo, dr'[k].done = w.done,
         \A x \in Reqs \ {r} : /\ Joins(dr'[k], x) => Joins(w, x)
                               /\ Ready(dr'[k], x) => Ready(w, x)
                               /\ x \in dr'[k].failed => x \in w.failed
                               /\ dr'[k].xfer[x] = w.xfer[x]
                               /\ \A t \in PRanks : About(t, x)' = About(t, x),
         Joins(dr'[k], r) => ~ Ready(dr'[k], r) /\ ~ Reading(dr'[k], r),
         Ready(dr'[k], r) => ~ Reading(dr'[k], r),
         \A t \in PRanks : dr'[k].xfer[r][t] # "none" => t \in Reads(k) \/ w.xfer[r][t] # "none",
         \A t \in PRanks : \/ About(t, r)' = About(t, r)
                           \/ /\ t \in Reads(k) /\ ~ Owed(k, r, t)'
                              /\ \E m \in Notes : About(t, r)' = About(t, r) \cup {m}
  PROVE  ChannelInv'
<1>1. ASSUME NEW x \in Reqs, x # r
      PROVE  /\ PlaceInv(k, x)' /\ \A t \in PRanks : OwedStep(k, x, t)
             /\ \A t \in PRanks : dr'[k].xfer[x][t] # "none" => t \in Reads(k)
  <2>1. x \in Reqs \ {r}
    BY <1>1
  <2>2. Stays(k, x)
    <3>1. Failing(dr'[k], x) => Failing(dr[k], x)
      BY <2>1 DEF Takeup, Failing
    <3>2. Sent(k, x)' => Sent(k, x)
      BY DEF Sent
    <3> QED BY <2>1, <3>1, <3>2 DEF Stays, Takeup, OthersSame
  <2>3. PlaceInv(k, x)' /\ \A t \in PRanks : Owed(k, x, t)' => Owed(k, x, t)
    BY <2>2, StaysKept DEF ChannelInv
  <2>4. \A t \in PRanks : dr'[k].xfer[x][t] # "none" => t \in Reads(k)
    BY <2>1 DEF Takeup, ChannelInv
  <2> QED BY <2>1, <2>3, <2>4 DEF OwedStep
<1>2. PlaceInv(k, r)'
  <2>1. ~ Fresh(r)' /\ ~ Asked(d'.need, r) /\ ~ Sent(k, r)' /\ ~ Asked(dr'[k].todo, r)
    BY DEF Takeup, OthersSame, Fresh, Sent
  <2> QED BY <2>1, PlaceMoved
<1>3. \A t \in PRanks : OwedStep(k, r, t)
  <2>1. \A t \in PRanks : Owed(k, r, t)
    BY DEF Takeup, Owed
  <2> QED BY <2>1 DEF OwedStep
<1>4. \A t \in PRanks : dr'[k].xfer[r][t] # "none" => t \in Reads(k)
  BY DEF Takeup, ChannelInv
<1>5. \A x \in Reqs : PlaceInv(k, x)'
  BY <1>1, <1>2
<1>6. \A x \in Reqs, t \in PRanks : OwedStep(k, x, t)
  BY <1>1, <1>3
<1>7. \A x \in Reqs, t \in PRanks : dr'[k].xfer[x][t] # "none" => t \in Reads(k)
  BY <1>1, <1>4
<1> QED BY <1>5, <1>6, <1>7, ChannelWorker

LEMMA ChannelLoad ==
  ASSUME Shape, Shape', ChannelInv, UNCHANGED <<config, p, pr, expired>>,
         NEW k \in DRanks, NEW w, NEW r \in Reqs, Takeup(k, w, r), OneWorker(k), LoadStep(k, w, r)
  PROVE  ChannelInv'
<1>1. ASSUME NEW bad \in SUBSET Reads(k), ReadsBegin(k, w, r, bad) PROVE ChannelInv'
  <2>1. /\ d' = d /\ Alike(dr'[k], w)
        /\ \A x \in Reqs \ {r} : dr'[k].xfer[x] = w.xfer[x]
        /\ \A t \in PRanks : dr'[k].xfer[r][t] = IF t \in Reads(k) \ bad THEN "proc" ELSE w.xfer[r][t]
        /\ dr'[k].failed \subseteq w.failed \cup {r}
        /\ \A x \in Reqs, t \in PRanks : About(t, x)' = About(t, x)
    BY <1>1 DEF ReadsBegin
  <2>2. ThreadInv(dr'[k])
    BY <2>1 DEF Alike, Takeup, ThreadInv, JobsInv
  <2>3. /\ \A x \in Reqs : Joins(dr'[k], x) <=> Joins(w, x)
        /\ \A x \in Reqs : Ready(dr'[k], x) <=> Ready(w, x)
        /\ dr'[k].todo = w.todo /\ dr'[k].done = w.done
    BY <2>1 DEF Alike, Joins, Ready
  <2>4. ~ Joins(dr'[k], r) /\ ~ Ready(dr'[k], r)
    BY <2>3 DEF Takeup
  <2>5. OthersSame(k)
    BY <2>1 DEF OthersSame
  <2>6. \A t \in PRanks : dr'[k].xfer[r][t] # "none" => t \in Reads(k) \/ w.xfer[r][t] # "none"
    BY <2>1
  <2> QED BY <2>1, <2>2, <2>3, <2>4, <2>5, <2>6, ChannelTakeup
<1>2. CASE NotesSent(k, w, r)
  <2>1. /\ dr'[k] = w /\ d'.batch = d.batch /\ OthersSame(k)
        /\ \A x \in Reqs, t \in PRanks :
             \/ About(t, x)' = About(t, x)
             \/ x = r /\ t \in Reads(k) /\ About(t, x)' = About(t, x) \cup {[from |-> k, req |-> r, id |-> "P"]}
    BY <1>2 DEF NotesSent, DKept, OthersSame
  <2>2. ThreadInv(dr'[k])
    BY <2>1 DEF Takeup
  <2>3. ~ Joins(dr'[k], r) /\ ~ Ready(dr'[k], r) /\ ~ Asked(dr'[k].todo, r) /\ ~ Reading(dr'[k], r)
    BY <2>1 DEF Takeup
  <2>4. \A t \in PRanks : ~ Owed(k, r, t)'
    <3>1. ~ Fresh(r)' /\ ~ Asked(d'.need, r) /\ ~ Sent(k, r)'
      BY <2>1 DEF Takeup, OthersSame, Fresh, Sent
    <3> QED BY <2>3, <3>1 DEF Owed, Owes, Reading
  <2>5. [from |-> k, req |-> r, id |-> "P"] \in Notes
    BY DEF Notes
  <2>6. \A t \in PRanks : \/ About(t, r)' = About(t, r)
                          \/ /\ t \in Reads(k) /\ ~ Owed(k, r, t)'
                             /\ \E m \in Notes : About(t, r)' = About(t, r) \cup {m}
    BY <2>1, <2>4, <2>5
  <2>7. \A x \in Reqs \ {r}, t \in PRanks : About(t, x)' = About(t, x)
    BY <2>1
  <2> QED BY <2>1, <2>2, <2>3, <2>6, <2>7, ChannelTakeup
<1> QED BY <1>1, <1>2 DEF LoadStep

LEMMA ChannelJoin ==
  ASSUME Shape, Shape', ChannelInv, UNCHANGED <<config, p, pr, expired>>,
         NEW k \in DRanks, NEW w, NEW r \in Reqs, Takeup(k, w, r), OneWorker(k), JoinStep(k, w, r)
  PROVE  ChannelInv'
<1> DEFINE v == dr'[k]
<1>1. d' = d /\ notifs' = notifs /\ SameReads(v, w) /\ w \in WorkerStates /\ w.ready \in Seq(Reqs)
      /\ ThreadInv(w)
  BY DEF JoinStep, Takeup, WorkerStates
<1>2. OthersSame(k) /\ \A x \in Reqs, t \in PRanks : About(t, x)' = About(t, x)
  BY <1>1 DEF OthersSame, About
<1>3. v.todo = w.todo /\ v.done = w.done /\ v.xfer = w.xfer /\ v.pc = w.pc
  BY <1>1 DEF SameReads
<1>4. ~ Joins(w, r) /\ ~ Ready(w, r) /\ ~ Reading(v, r) /\ r \notin Range(w.ready)
  BY <1>3 DEF Takeup, Reading, Ready
<1> SUFFICES /\ ThreadInv(v)
             /\ \A x \in Reqs \ {r} : /\ Joins(v, x) => Joins(w, x)
                                      /\ Ready(v, x) => Ready(w, x)
                                      /\ x \in v.failed => x \in w.failed
             /\ ~ (Joins(v, r) /\ Ready(v, r))
  <2> HIDE DEF v
  <2> QED BY <1>1, <1>2, <1>3, <1>4, ChannelTakeup DEF v
<1> HIDE DEF v
<1>5. CASE JoinsAdded(v, w, r)
  <2>1. ThreadInv(v)
    BY <1>1, <1>3, <1>4, <1>5 DEF JoinsAdded, ThreadInv
  <2> QED BY <1>4, <1>5, <2>1 DEF JoinsAdded, Ready
<1>6. CASE ReadyAdded(v, w, r)
  <2>1. Range(v.ready) = Range(w.ready) \cup {r} /\ IsInjective(v.ready)
    BY <1>1, <1>4, <1>6, AppendRange DEF ReadyAdded, ThreadInv
  <2>2. ThreadInv(v) /\ \A x \in Reqs : Joins(v, x) <=> Joins(w, x)
    BY <1>1, <1>3, <1>6, <2>1 DEF ReadyAdded, ThreadInv, JobsInv, Joins
  <2>3. v.failed = w.failed
    BY <1>6 DEF ReadyAdded
  <2> QED BY <1>4, <2>1, <2>2, <2>3 DEF Ready
<1>7. CASE FailedAdded(v, w, r)
  <2>1. ThreadInv(v) /\ \A x \in Reqs : (Joins(v, x) <=> Joins(w, x)) /\ (Ready(v, x) <=> Ready(w, x))
    BY <1>1, <1>3, <1>7 DEF FailedAdded, ThreadInv, JobsInv, Joins, Ready
  <2>2. v.failed \subseteq w.failed \cup {r}
    BY <1>7 DEF FailedAdded
  <2> QED BY <1>4, <2>1, <2>2
<1> QED BY <1>5, <1>6, <1>7 DEF JoinStep, v

LEMMA TakeupLoad ==
  ASSUME Shape, ChannelInv, NEW k \in DRanks, dr[k].pc = "load", NEW m \in dr[k].todo
  PROVE  Takeup(k, Taken(dr[k], m), m.req) /\ m.req \in Reqs
<1> DEFINE w == Taken(dr[k], m)
           r == m.req
<1>1. dr[k] \in WorkerStates /\ ThreadInv(dr[k])
  BY DEF Shape, ChannelInv
<1>2. /\ w \in WorkerStates /\ m \in Loads /\ w.todo = dr[k].todo \ {m}
      /\ w.pc = dr[k].pc /\ w.jobs = dr[k].jobs /\ w.ready = dr[k].ready /\ w.xfer = dr[k].xfer
      /\ w.failed = dr[k].failed /\ w.done = dr[k].done
  BY <1>1, TakenSpec
<1> HIDE DEF w
<1>3. r \in Reqs /\ Asked(dr[k].todo, r)
  BY <1>2 DEF Loads, Asked
<1>4. ~ Asked(w.todo, r) /\ Distinct(w.todo)
  BY <1>1, <1>2 DEF ThreadInv, Distinct, Asked
<1>5. \A x \in Reqs : Asked(w.todo, x) => Asked(dr[k].todo, x)
  BY <1>2 DEF Asked
<1>6. \A x \in Reqs : /\ Joins(w, x) <=> Joins(dr[k], x)
                      /\ Ready(w, x) <=> Ready(dr[k], x)
                      /\ Reading(w, x) <=> Reading(dr[k], x)
  BY <1>2 DEF Joins, Ready, Reading
<1>7. ThreadInv(w)
  BY <1>1, <1>2, <1>4 DEF ThreadInv, JobsInv
<1>8. PlaceInv(k, r)
  BY <1>3 DEF ChannelInv
<1> HIDE DEF r
<1>9. /\ ~ Fresh(r) /\ ~ Asked(d.need, r) /\ ~ Sent(k, r)
      /\ ~ Joins(dr[k], r) /\ ~ Ready(dr[k], r) /\ ~ Reading(dr[k], r)
  BY <1>3, <1>8 DEF PlaceInv
<1>10. Owes(k, r)
  BY <1>3 DEF Owes
<1>11. Takeup(k, w, r)
  BY <1>2, <1>3, <1>4, <1>5, <1>6, <1>7, <1>9, <1>10 DEF Takeup
<1> QED BY <1>3, <1>11 DEF w, r

LEMMA ChannelDLoad ==
  ASSUME Shape, ChannelInv, NEW k \in DRanks, DLoad(k)
  PROVE  ChannelInv'
<1>1. JobsInv(dr[k])
  BY DEF ChannelInv, ThreadInv
<1>2. /\ Shape' /\ OneWorker(k) /\ UNCHANGED <<config, p, pr, expired>> /\ dr[k].pc = "load"
  BY <1>1, DLoadSpec
<1>3. PICK m \in dr[k].todo : \/ LoadStep(k, Taken(dr[k], m), m.req)
                              \/ JoinStep(k, Taken(dr[k], m), m.req)
  BY <1>1, DLoadSpec
<1>4. Takeup(k, Taken(dr[k], m), m.req) /\ m.req \in Reqs
  BY <1>2, TakeupLoad
<1>5. CASE LoadStep(k, Taken(dr[k], m), m.req)
  BY <1>2, <1>4, <1>5, ChannelLoad
<1>6. CASE JoinStep(k, Taken(dr[k], m), m.req)
  BY <1>2, <1>4, <1>6, ChannelJoin
<1> QED BY <1>3, <1>5, <1>6

LEMMA ChannelDReady ==
  ASSUME Shape, ChannelInv, NEW k \in DRanks, DReady(k)
  PROVE  ChannelInv'
<1> DEFINE w == Rested(dr[k])
           r == Head(dr[k].ready)
<1>1. /\ Shape' /\ OneWorker(k) /\ UNCHANGED <<config, p, pr, expired>>
      /\ dr[k].pc = "load" /\ dr[k].ready # <<>> /\ r \in Reqs
      /\ w \in WorkerStates /\ SameReads(w, dr[k]) /\ w.ready = Tail(dr[k].ready) /\ w.jobs = dr[k].jobs
      /\ w.failed = dr[k].failed /\ LoadStep(k, w, r)
  BY DReadySpec
<1>2. dr[k].ready \in Seq(Reqs) /\ ThreadInv(dr[k])
  BY DEF Shape, WorkerStates, ChannelInv
<1>3. Range(Tail(dr[k].ready)) = Range(dr[k].ready) \ {r} /\ r \in Range(dr[k].ready)
      /\ IsInjective(Tail(dr[k].ready))
  BY <1>1, <1>2, TailRange DEF ThreadInv
<1> HIDE DEF w, r
<1>4. /\ w.todo = dr[k].todo /\ w.pc = dr[k].pc /\ w.xfer = dr[k].xfer /\ w.done = dr[k].done
  BY <1>1 DEF SameReads
<1>5. ThreadInv(w)
  BY <1>1, <1>2, <1>3, <1>4 DEF ThreadInv, JobsInv
<1>6. \A x \in Reqs : /\ Joins(w, x) <=> Joins(dr[k], x)
                      /\ Ready(w, x) <=> Ready(dr[k], x) /\ x # r
                      /\ Reading(w, x) <=> Reading(dr[k], x)
  BY <1>1, <1>3, <1>4 DEF Joins, Ready, Reading
<1>7. Ready(dr[k], r) /\ PlaceInv(k, r)
  BY <1>1, <1>3 DEF Ready, ChannelInv
<1>8. /\ ~ Fresh(r) /\ ~ Asked(d.need, r) /\ ~ Sent(k, r)
      /\ ~ Joins(dr[k], r) /\ ~ Asked(dr[k].todo, r) /\ ~ Reading(dr[k], r)
  BY <1>7 DEF PlaceInv
<1>9. Owes(k, r)
  BY <1>7 DEF Owes
<1>10. Takeup(k, w, r)
  BY <1>1, <1>4, <1>5, <1>6, <1>8, <1>9 DEF Takeup
<1> QED BY <1>1, <1>10, ChannelLoad

LEMMA ChannelStays ==
  ASSUME Shape, Shape', ChannelInv, UNCHANGED <<config, p, pr, notifs, expired>>,
         NEW k \in DRanks, OneWorker(k), OthersSame(k), ThreadInv(dr'[k]),
         \A x \in Reqs : Stays(k, x)
  PROVE  ChannelInv'
<1>1. ASSUME NEW x \in Reqs
      PROVE  /\ PlaceInv(k, x)' /\ \A t \in PRanks : OwedStep(k, x, t)
             /\ \A t \in PRanks : dr'[k].xfer[x][t] # "none" => t \in Reads(k)
  <2>1. Stays(k, x) /\ PlaceInv(k, x)
    BY DEF ChannelInv
  <2>2. PlaceInv(k, x)' /\ \A t \in PRanks : Owed(k, x, t)' => Owed(k, x, t)
    BY <2>1, StaysKept
  <2>3. \A t \in PRanks : OwedStep(k, x, t)
    BY <2>2 DEF OwedStep, About
  <2>4. \A t \in PRanks : dr'[k].xfer[x][t] # "none" => t \in Reads(k)
    BY <2>1 DEF Stays, ChannelInv
  <2> QED BY <2>2, <2>3, <2>4
<1> QED BY <1>1, ChannelWorker

\* A step of the background thread.
LEMMA ChannelJobs ==
  ASSUME Shape, Shape', ChannelInv, UNCHANGED <<config, p, pr, d, notifs, expired>>,
         NEW k \in DRanks, OneWorker(k), SameButJobs(dr'[k], dr[k]), JobsSame(dr'[k], dr[k])
  PROVE  ChannelInv'
<1> DEFINE v == dr'[k]
<1>1. ThreadInv(dr[k])
  BY DEF ChannelInv
<1>2. /\ v.pc = dr[k].pc /\ v.todo = dr[k].todo /\ v.ready = dr[k].ready /\ v.xfer = dr[k].xfer
      /\ v.failed = dr[k].failed /\ v.done = dr[k].done
  BY DEF SameButJobs
<1>3. ThreadInv(v)
  BY <1>1, <1>2 DEF ThreadInv, JobsSame
<1>4. OthersSame(k)
  BY DEF OthersSame
<1>5. \A x \in Reqs : Stays(k, x)
  BY <1>2 DEF Stays, Sent, Ready, Failing, JobsSame
<1> QED BY <1>3, <1>4, <1>5, ChannelStays

LEMMA ChannelHandshake ==
  ASSUME Shape, ChannelInv, NEW k \in DRanks,
         DoneCallback(k) \/ \E ok \in BOOLEAN : HandshakeEnds(k, ok)
  PROVE  ChannelInv'
<1>1. ASSUME NEW ok \in BOOLEAN, HandshakeEnds(k, ok) PROVE ChannelInv'
  BY <1>1, HandshakeEndsSpec, ChannelJobs
<1>2. CASE DoneCallback(k)
  BY <1>2, DoneCallbackSpec, ChannelJobs
<1> QED BY <1>1, <1>2

LEMMA ChannelRequestReady ==
  ASSUME Shape, ChannelInv, NEW k \in DRanks, RequestReady(k)
  PROVE  ChannelInv'
<1> DEFINE v == dr'[k]
           w == dr[k]
<1>1. ThreadInv(w) /\ JobsInv(w) /\ w \in WorkerStates /\ w.ready \in Seq(Reqs)
  BY DEF ChannelInv, ThreadInv, Shape, WorkerStates
<1>2. /\ Shape' /\ OneWorker(k) /\ UNCHANGED <<config, p, pr, d, notifs, expired>> /\ SameReads(v, w)
  BY <1>1, RequestReadySpec
<1> PICK r \in Reqs : Joins(w, r) /\ RequestReadies(v, w, r)
  BY <1>1, RequestReadySpec
<1>3. v.todo = w.todo /\ v.done = w.done /\ v.xfer = w.xfer /\ v.pc = w.pc
  BY <1>2 DEF SameReads
<1>4. OthersSame(k) /\ \A x \in Reqs : Sent(k, x)' <=> Sent(k, x)
  BY <1>2 DEF OthersSame, Sent
<1>5. PlaceInv(k, r)
  BY DEF ChannelInv
<1>6. CASE CallbackDone(v, w, r) /\ v.ready = Append(w.ready, r) /\ v.failed = w.failed /\ v.invalid = w.invalid
  <2>1. r \notin Range(w.ready)
    BY <1>5 DEF PlaceInv, Ready
  <2>2. Range(v.ready) = Range(w.ready) \cup {r} /\ IsInjective(v.ready)
    BY <1>1, <1>6, <2>1, AppendRange DEF ThreadInv
  <2>3. ThreadInv(v)
    BY <1>1, <1>3, <1>6, <2>2 DEF ThreadInv, CallbackDone
  <2>4. ASSUME NEW x \in Reqs
        PROVE  PlaceInv(k, x)' /\ \A t \in PRanks : OwedStep(k, x, t)
    <3>1. CASE x = r
      <4>1. ~ Joins(v, r) /\ Reading(v, r) = Reading(w, r)
        BY <1>3, <1>6 DEF CallbackDone, Reading
      <4>2. /\ ~ Fresh(r) /\ ~ Asked(d.need, r) /\ ~ Sent(k, r) /\ ~ Asked(w.todo, r) /\ ~ Reading(w, r)
        BY <1>5 DEF PlaceInv
      <4>3. ~ Fresh(r)' /\ ~ Asked(d'.need, r) /\ ~ Sent(k, r)' /\ ~ Asked(v.todo, r) /\ ~ Reading(v, r)
        BY <1>2, <1>3, <1>4, <4>1, <4>2 DEF Fresh
      <4>4. PlaceInv(k, r)'
        BY <1>2, <4>1, <4>3, PlaceMoved
      <4>5. \A t \in PRanks : Owed(k, r, t) /\ About(t, r)' = About(t, r)
        BY <1>2 DEF Owed, Owes, About
      <4> QED BY <3>1, <4>4, <4>5 DEF OwedStep
    <3>2. CASE x # r
      <4>1. /\ Joins(v, x) => Joins(w, x)
            /\ Ready(v, x) => Ready(w, x)
            /\ Failing(v, x) => Failing(w, x)
        BY <1>3, <1>6, <2>2, <3>2 DEF CallbackDone, Ready, Failing
      <4>2. Stays(k, x)
        BY <1>2, <1>3, <1>4, <4>1 DEF Stays
      <4>3. PlaceInv(k, x)' /\ \A t \in PRanks : Owed(k, x, t)' => Owed(k, x, t)
        BY <1>2, <4>2, StaysKept DEF ChannelInv
      <4> QED BY <1>2, <4>3 DEF OwedStep, About
    <3> QED BY <3>1, <3>2
  <2>5. \A x \in Reqs, t \in PRanks : v.xfer[x][t] # "none" => t \in Reads(k)
    BY <1>3 DEF ChannelInv
  <2> QED BY <1>2, <1>4, <2>3, <2>4, <2>5, ChannelWorker
<1>7. CASE /\ \A x \in Reqs : Joins(v, x) => Joins(w, x)
           /\ JobsInv(v) /\ v.ready = w.ready /\ v.failed \subseteq w.failed \cup {r}
  <2>1. ThreadInv(v)
    BY <1>1, <1>3, <1>7 DEF ThreadInv
  <2>2. ASSUME NEW x \in Reqs PROVE Stays(k, x)
    <3>1. Failing(v, x) => Failing(w, x) \/ Joins(w, x)
      BY <1>3, <1>7 DEF Failing
    <3> QED BY <1>2, <1>3, <1>4, <1>7, <3>1 DEF Stays, Ready
  <2> QED BY <1>2, <1>4, <2>1, <2>2, ChannelStays
<1>8. v.failed = (IF r \in w.local \/ Hma THEN w.failed \cup {r} ELSE w.failed) => v.failed \subseteq w.failed \cup {r}
  OBVIOUS
<1>9. v.failed = w.failed => v.failed \subseteq w.failed \cup {r}
  OBVIOUS
<1> HIDE DEF v, w
<1> QED BY <1>6, <1>7, <1>8, <1>9 DEF RequestReadies, CallbackDone

LEMMA ChannelReadEnds ==
  ASSUME Shape, ChannelInv, NEW k \in DRanks, NEW r \in Reqs, NEW t \in PRanks, ReadEnds(k, r, t)
  PROVE  ChannelInv'
<1>1. /\ Shape' /\ OneWorker(k) /\ UNCHANGED <<config, p, pr, d, expired>>
      /\ dr[k].xfer[r][t] = "proc" /\ SameButReads(dr'[k], dr[k])
      /\ \A x \in Reqs, u \in PRanks : dr'[k].xfer[x][u] = IF x = r /\ u = t THEN "ok" ELSE dr[k].xfer[x][u]
      /\ Notifies(k, r, t)
  BY ReadEndsSpec
<1> DEFINE v == dr'[k]
           w == dr[k]
<1>2. /\ v.pc = w.pc /\ v.todo = w.todo /\ v.jobs = w.jobs /\ v.ready = w.ready
      /\ v.failed = w.failed /\ v.done = w.done
  BY <1>1 DEF SameButReads
<1>3. ThreadInv(w)
  BY DEF ChannelInv
<1>4. ThreadInv(v)
  BY <1>2, <1>3 DEF ThreadInv, JobsInv
<1>5. OthersSame(k)
  BY <1>1 DEF OthersSame
<1>6. t \in Reads(k)
  BY <1>1 DEF ChannelInv
<1>7. ASSUME NEW x \in Reqs
      PROVE  Stays(k, x) /\ PlaceInv(k, x)' /\ \A u \in PRanks : Owed(k, x, u)' => Owed(k, x, u)
  <2>1. \A u \in PRanks : /\ v.xfer[x][u] = "proc" => w.xfer[x][u] = "proc"
                          /\ v.xfer[x][u] # "none" => w.xfer[x][u] # "none"
    BY <1>1
  <2>2. Stays(k, x)
    BY <1>1, <1>2, <2>1 DEF Stays, Sent, Joins, Ready, Failing
  <2> QED BY <1>1, <2>2, StaysKept DEF ChannelInv
<1>8. ASSUME NEW x \in Reqs, NEW u \in PRanks PROVE OwedStep(k, x, u)
  <2>1. CASE x = r /\ u = t
    <3>1. Reading(w, r) /\ PlaceInv(k, r)
      BY <1>1 DEF Reading, ChannelInv
    <3>2. Reading(w, r) => Moves(w, r)
      BY DEF Reading, Moves
    <3>3. ~ Owes(k, r)
      BY <3>1, <3>2 DEF PlaceInv, Owes
    <3>4. ~ Owes(k, r)'
      <4>1. d' = d
        BY <1>1
      <4>2. /\ Joins(v, r) <=> Joins(w, r)
            /\ Ready(v, r) <=> Ready(w, r)
            /\ v.todo = w.todo
        BY <1>2 DEF Joins, Ready
      <4>3. /\ Fresh(r)' <=> Fresh(r)
            /\ Sent(k, r)' <=> Sent(k, r)
        BY <4>1 DEF Fresh, Sent
      <4> QED BY <3>3, <4>1, <4>2, <4>3 DEF Owes
    <3>5. v.xfer[r][t] = "ok"
      BY <1>1
    <3>6. ~ Owed(k, r, t)' /\ Owed(k, r, t)
      BY <1>1, <3>4, <3>5 DEF Owed
    <3>7. [from |-> k, req |-> r, id |-> "P"] \in Notes
      BY DEF Notes
    <3> QED BY <1>1, <1>6, <2>1, <3>6, <3>7 DEF OwedStep, Notifies
  <2>2. CASE ~ (x = r /\ u = t)
    BY <1>1, <1>7, <2>2 DEF OwedStep, Notifies
  <2> QED BY <2>1, <2>2
<1>9. \A x \in Reqs, u \in PRanks : v.xfer[x][u] # "none" => u \in Reads(k)
  BY <1>1, <1>6 DEF ChannelInv
<1> QED BY <1>1, <1>4, <1>5, <1>7, <1>8, <1>9, ChannelWorker

LEMMA ChannelReadFails ==
  ASSUME Shape, ChannelInv, NEW k \in DRanks, NEW r \in Reqs, NEW t \in PRanks, ReadFails(k, r, t)
  PROVE  ChannelInv'
<1> DEFINE v == dr'[k]
           w == dr[k]
<1>1. /\ Shape' /\ OneWorker(k) /\ UNCHANGED <<config, p, pr, d, notifs, expired>>
      /\ w.xfer[r][t] = "proc" /\ SameButReads(v, w)
      /\ \A x \in Reqs, u \in PRanks : v.xfer[x][u] = IF x = r /\ u = t THEN "err" ELSE w.xfer[x][u]
  BY ReadFailsSpec
<1>2. /\ v.pc = w.pc /\ v.todo = w.todo /\ v.jobs = w.jobs /\ v.ready = w.ready
      /\ v.failed = w.failed /\ v.done = w.done
  BY <1>1 DEF SameButReads
<1>3. ThreadInv(w)
  BY DEF ChannelInv
<1>4. ThreadInv(v)
  BY <1>2, <1>3 DEF ThreadInv, JobsInv
<1>5. OthersSame(k)
  BY <1>1 DEF OthersSame
<1>6. ASSUME NEW x \in Reqs PROVE Stays(k, x)
  <2>1. \A u \in PRanks : /\ v.xfer[x][u] = "proc" => w.xfer[x][u] = "proc"
                          /\ v.xfer[x][u] # "none" => w.xfer[x][u] # "none"
    BY <1>1
  <2> QED BY <1>1, <1>2, <2>1 DEF Stays, Sent, Joins, Ready, Failing
<1> QED BY <1>1, <1>4, <1>5, <1>6, ChannelStays

LEMMA ChannelTakeDone ==
  ASSUME Shape, ChannelInv, NEW k \in DRanks, TakeDone(k)
  PROVE  ChannelInv'
<1> DEFINE v == dr'[k]
           w == dr[k]
<1>1. /\ Shape' /\ OneWorker(k) /\ UNCHANGED <<config, p, pr, d, notifs, expired>>
      /\ w.pc = "load" /\ w.todo = {} /\ w.ready = <<>> /\ Takes(v, w)
  BY TakeDoneSpec
<1>2. /\ v.pc = "taken" /\ v.todo = w.todo /\ v.jobs = w.jobs /\ v.ready = w.ready
      /\ v.failed = w.failed /\ v.done = Popped(w) \cup w.failed
      /\ \A x \in Reqs, u \in PRanks : v.xfer[x][u] = IF w.xfer[x][u] = "proc" THEN "proc" ELSE "none"
  BY <1>1 DEF Takes
<1>3. ThreadInv(w)
  BY DEF ChannelInv
<1>4. ThreadInv(v)
  BY <1>1, <1>2, <1>3 DEF ThreadInv, JobsInv
<1>5. OthersSame(k)
  BY <1>1 DEF OthersSame
<1>6. ASSUME NEW x \in Reqs PROVE Stays(k, x)
  <2>1. \A u \in PRanks : /\ v.xfer[x][u] = "proc" => w.xfer[x][u] = "proc"
                          /\ v.xfer[x][u] # "none" => w.xfer[x][u] # "none"
    BY <1>2
  <2>2. x \in Popped(w) => Moves(w, x)
    BY DEF Popped, Has, Moves
  <2>3. Failing(v, x) => Failing(w, x) \/ Moves(w, x)
    BY <1>2, <2>2 DEF Failing
  <2> QED BY <1>1, <1>2, <2>1, <2>3 DEF Stays, Sent, Joins, Ready
<1> QED BY <1>1, <1>4, <1>5, <1>6, ChannelStays

LEMMA ChannelReport ==
  ASSUME Shape, ChannelInv, NEW k \in DRanks, Report(k)
  PROVE  ChannelInv'
<1> DEFINE v == dr'[k]
           w == dr[k]
<1>1. /\ Shape' /\ OneWorker(k) /\ UNCHANGED <<config, p, pr, notifs, expired>>
      /\ w.pc = "taken" /\ Reporting(v, w)
      /\ d'.need = d.need /\ d'.status = d.status
      /\ d'.batch.recv = d.batch.recv /\ d'.batch.left = d.batch.left
      /\ d'.batch.done[k] = w.done
      /\ \A l \in DRanks \ {k} : d'.batch.done[l] = d.batch.done[l]
  BY ReportSpec
<1>2. /\ v.pc = "idle" /\ v.todo = w.todo /\ v.jobs = w.jobs /\ v.ready = w.ready
      /\ v.failed = {} /\ v.done = {} /\ v.xfer = w.xfer
  BY <1>1 DEF Reporting
<1>3. ThreadInv(w)
  BY DEF ChannelInv
<1>4. ThreadInv(v)
  BY <1>1, <1>2, <1>3 DEF ThreadInv, JobsInv
<1>5. OthersSame(k)
  BY <1>1 DEF OthersSame
<1>6. ASSUME NEW x \in Reqs PROVE Stays(k, x)
  BY <1>1, <1>2 DEF Stays, Sent, Joins, Ready, Failing
<1> QED BY <1>1, <1>4, <1>5, <1>6, ChannelStays
-----------------------------------------------------------------------------
(* What D does does not disturb what P keeps *)

LEMMA PInvFresh ==
  ASSUME Shape, PInv, UNCHANGED <<config, p, pr>>, expired' \subseteq p.told,
         \A x \in Reqs : d.status[x] = "new" => \/ x \in p.told
                                                \/ /\ d'.status[x] = d.status[x]
                                                   /\ \A t \in PRanks : About(t, x)' = About(t, x)
  PROVE  PInv'
<1>1. \A x \in Reqs \ p.told : d.status[x] = "new"
  BY DEF PInv, UntoldInv
<1> QED BY <1>1, PInvKept

LEMMA PInvScheduler ==
  ASSUME Shape, PInv, ChannelInv,
         DSchedule \/ DUpdate \/ \E r \in Reqs : DArrive(r) \/ DAdmit(r) \/ DAbort(r)
  PROVE  PInv'
<1> DEFINE Quiet == /\ UNCHANGED <<config, p, pr, notifs, expired>>
                    /\ \A x \in Reqs : d.status[x] = "new" => x \in p.told \/ d'.status[x] = d.status[x]
<1>1. d.status \in [Reqs -> Statuses] /\ expired \subseteq p.told
  BY DEF Shape, DStates, PInv
<1>2. CASE DSchedule
  <2>1. Quiet
    BY <1>2, DScheduleSpec
  <2> QED BY <1>1, <2>1, PInvFresh DEF About
<1>3. CASE DUpdate
  <2> PICK over : DUpdates(over)
    BY <1>3, DUpdateSpec
  <2>1. ASSUME NEW x \in Reqs, d.status[x] = "new" PROVE d'.status[x] = d.status[x]
    <3>1. \A k \in DRanks : x \notin d.batch.done[k]
      BY <2>1 DEF ChannelInv, PlaceInv, Fresh
    <3>2. DReports(x) = 0
      <4>1. {k \in DRanks : x \in d.batch.done[k]} = {}
        BY <3>1
      <4> QED BY <4>1, FS_EmptySet DEF DReports
    <3>3. x \notin over
      BY <3>2 DEF DUpdates, Done
    <3>4. DStat(x) = d.status[x]
      BY <2>1 DEF DStat, DHit
    <3> QED BY <3>3, <3>4 DEF DUpdates
  <2>2. Quiet
    BY <1>3, <2>1, DUpdateSpec
  <2> QED BY <1>1, <2>2, PInvFresh DEF About
<1>4. ASSUME NEW r \in Reqs, DArrive(r) PROVE PInv'
  <2>1. Quiet
    BY <1>1, <1>4, DArriveSpec
  <2> QED BY <1>1, <2>1, PInvFresh DEF About
<1>5. ASSUME NEW r \in Reqs, DAdmit(r) PROVE PInv'
  <2>1. Quiet
    BY <1>1, <1>5, DAdmitSpec
  <2> QED BY <1>1, <2>1, PInvFresh DEF About
<1>6. ASSUME NEW r \in Reqs, DAbort(r) PROVE PInv'
  <2>1. Quiet
    BY <1>1, <1>6, DAbortSpec
  <2> QED BY <1>1, <2>1, PInvFresh DEF About
<1> QED BY <1>2, <1>3, <1>4, <1>5, <1>6

LEMMA PInvLoad ==
  ASSUME Shape, PInv, NEW k \in DRanks, NEW w, NEW r \in Reqs, ~ Fresh(r),
         UNCHANGED <<config, p, pr, expired>>, LoadStep(k, w, r)
  PROVE  PInv'
<1>1. d'.status = d.status /\ \A x \in Reqs \ {r}, t \in PRanks : About(t, x)' = About(t, x)
  <2>1. ASSUME NEW bad \in SUBSET Reads(k), ReadsBegin(k, w, r, bad)
        PROVE  d' = d /\ \A x \in Reqs, t \in PRanks : About(t, x)' = About(t, x)
    BY <2>1 DEF ReadsBegin
  <2>2. CASE NotesSent(k, w, r)
    BY <2>2 DEF NotesSent, DKept
  <2> QED BY <2>1, <2>2 DEF LoadStep
<1>2. d.status[r] # "new" /\ expired \subseteq p.told
  BY DEF Fresh, PInv
<1> QED BY <1>1, <1>2, PInvFresh

LEMMA PInvWorker ==
  ASSUME Shape, PInv, ChannelInv, NEW k \in DRanks,
         DStart(k) \/ DLoad(k) \/ DReady(k) \/ TakeDone(k) \/ Report(k)
  PROVE  PInv'
<1>1. JobsInv(dr[k]) /\ expired \subseteq p.told
  BY DEF ChannelInv, ThreadInv, PInv
<1>2. CASE DStart(k)
  <2>1. UNCHANGED <<config, p, pr, notifs, expired>> /\ d'.status = d.status
    BY <1>2, DStartSpec
  <2> QED BY <1>1, <2>1, PInvFresh DEF About
<1>3. CASE DLoad(k)
  <2>1. UNCHANGED <<config, p, pr, expired>> /\ dr[k].pc = "load"
    BY <1>1, <1>3, DLoadSpec
  <2>2. PICK m \in dr[k].todo : \/ LoadStep(k, Taken(dr[k], m), m.req)
                                \/ JoinStep(k, Taken(dr[k], m), m.req)
    BY <1>1, <1>3, DLoadSpec
  <2>3. m.req \in Reqs /\ ~ Fresh(m.req)
    BY <2>1, TakeupLoad DEF Takeup
  <2>4. CASE LoadStep(k, Taken(dr[k], m), m.req)
    BY <2>1, <2>3, <2>4, PInvLoad
  <2>5. CASE JoinStep(k, Taken(dr[k], m), m.req)
    <3>1. d' = d /\ notifs' = notifs
      BY <2>5 DEF JoinStep
    <3> QED BY <1>1, <2>1, <3>1, PInvFresh DEF About
  <2> QED BY <2>2, <2>4, <2>5
<1>4. CASE DReady(k)
  <2> DEFINE r == Head(dr[k].ready)
  <2>1. /\ UNCHANGED <<config, p, pr, expired>> /\ dr[k].pc = "load" /\ r \in Reqs /\ dr[k].ready # <<>>
        /\ LoadStep(k, Rested(dr[k]), r)
    BY <1>4, DReadySpec
  <2>2. dr[k].ready \in Seq(Reqs) /\ IsInjective(dr[k].ready)
    BY DEF Shape, WorkerStates, ChannelInv, ThreadInv
  <2>3. Ready(dr[k], r)
    BY <2>1, <2>2, TailRange DEF Ready
  <2> HIDE DEF r
  <2>4. ~ Fresh(r)
    BY <2>1, <2>3 DEF ChannelInv, PlaceInv
  <2> QED BY <2>1, <2>4, PInvLoad
<1>5. CASE TakeDone(k)
  <2>1. UNCHANGED <<config, p, pr, d, notifs, expired>>
    BY <1>5, TakeDoneSpec
  <2> QED BY <1>1, <2>1, PInvFresh DEF About
<1>6. CASE Report(k)
  <2>1. UNCHANGED <<config, p, pr, notifs, expired>> /\ d'.status = d.status
    BY <1>6, ReportSpec
  <2> QED BY <1>1, <2>1, PInvFresh DEF About
<1> QED BY <1>2, <1>3, <1>4, <1>5, <1>6

LEMMA PInvReads ==
  ASSUME Shape, PInv, ChannelInv, NEW k \in DRanks,
         \/ DoneCallback(k) \/ RequestReady(k) \/ \E ok \in BOOLEAN : HandshakeEnds(k, ok)
         \/ \E r \in Reqs, t \in PRanks : ReadEnds(k, r, t) \/ ReadFails(k, r, t)
  PROVE  PInv'
<1>1. JobsInv(dr[k]) /\ expired \subseteq p.told
  BY DEF ChannelInv, ThreadInv, PInv
<1> DEFINE Quiet == UNCHANGED <<config, p, pr, d, notifs, expired>>
<1>2. CASE Quiet
  BY <1>1, <1>2, PInvFresh DEF About
<1>3. CASE DoneCallback(k)
  BY <1>2, <1>3, DoneCallbackSpec
<1>4. CASE RequestReady(k)
  BY <1>1, <1>2, <1>4, RequestReadySpec
<1>5. ASSUME NEW ok \in BOOLEAN, HandshakeEnds(k, ok) PROVE PInv'
  BY <1>2, <1>5, HandshakeEndsSpec
<1>6. ASSUME NEW r \in Reqs, NEW t \in PRanks, ReadFails(k, r, t) PROVE PInv'
  BY <1>2, <1>6, ReadFailsSpec
<1>7. ASSUME NEW r \in Reqs, NEW t \in PRanks, ReadEnds(k, r, t) PROVE PInv'
  <2>1. UNCHANGED <<config, p, pr, d, expired>> /\ dr[k].xfer[r][t] = "proc" /\ Notifies(k, r, t)
    BY <1>7, ReadEndsSpec
  <2>2. Moves(dr[k], r) /\ PlaceInv(k, r)
    BY <2>1 DEF Moves, ChannelInv
  <2>3. d.status[r] # "new"
    BY <2>2 DEF PlaceInv, Fresh
  <2>4. \A x \in Reqs \ {r}, u \in PRanks : About(u, x)' = About(u, x)
    BY <2>1 DEF Notifies
  <2> QED BY <1>1, <2>1, <2>3, <2>4, PInvFresh
<1> QED BY <1>3, <1>4, <1>5, <1>6, <1>7
-----------------------------------------------------------------------------
(* D keeps the blocks it loads *)

LEMMA LoadsSpec ==
  ASSUME NEW r \in Reqs
  PROVE  /\ Load(r) \in Loads /\ Note(r) \in Loads /\ Load(r).req = r /\ Note(r).req = r /\ Load(r) # Note(r)
         /\ \A m \in Loads : m.req = r => m = IF m.local THEN Load(r) ELSE Note(r)
         /\ \A x \in Reqs \ {r} : {Load(x), Note(x)} \cap {Load(r), Note(r)} = {}
BY DEF Load, Note, Loads

\* Worker k and D's scheduler have x as before; x may have left a step of its load.
LocalStays(k, x) ==
  /\ Loading(x)' <=> Loading(x)
  /\ \A y \in {Load(x), Note(x)} : Here(k, y)' <=> Here(k, y)
  /\ x \in dr'[k].local <=> x \in dr[k].local
  /\ x \in d'.batch.done[k] <=> x \in d.batch.done[k]
  /\ Joins(dr'[k], x) => Joins(dr[k], x)
  /\ Ready(dr'[k], x) => Ready(dr[k], x)
  /\ Failing(dr'[k], x) => Failing(dr[k], x)
  /\ \A t \in PRanks : dr'[k].xfer[x][t] # "none" => dr[k].xfer[x][t] # "none"

LEMMA LocalStaysKept ==
  ASSUME config' = config, NEW k \in DRanks, NEW x \in Reqs, LocalInv(k, x), LocalStays(k, x)
  PROVE  LocalInv(k, x)' /\ (k \in DAwait(x)' <=> k \in DAwait(x))
<1>1. /\ Moves(dr[k], x)' => Moves(dr[k], x)
      /\ Loading(x)' <=> Loading(x)
      /\ k \in DRanks'
  BY Frozen DEF Moves, LocalStays
<1>2. /\ Here(k, Load(x))' <=> Here(k, Load(x))
      /\ Here(k, Note(x))' <=> Here(k, Note(x))
  BY DEF LocalStays
<1>3. LocalInv(k, x)'
  <2>1. Failing(dr[k], x)' => Failing(dr[k], x)
    BY DEF LocalStays, Loading, Failing
  <2> QED BY <1>1, <1>2, <2>1 DEF LocalInv, LocalStays
<1>4. k \in DAwait(x)' <=> k \in DAwait(x)
  BY <1>1, <1>2 DEF DAwait, LocalStays
<1> QED BY <1>3, <1>4

\* One worker takes a step: the workers that are awaited stay the same.
LEMMA DecodeWorker ==
  ASSUME Shape, Shape', DecodeInv, config' = config, NEW k \in DRanks, OneWorker(k), OthersSame(k),
         d'.missing = d.missing, StepsInv(k)',
         ~ OneOfSeveralFails =>
           \A r \in Reqs : LocalInv(k, r)' /\ (Loading(r) => (k \in DAwait(r)' <=> k \in DAwait(r)))
  PROVE  DecodeInv'
<1>1. DRanks' = DRanks /\ OneOfSeveralFails' = OneOfSeveralFails /\ ND' = ND
  BY Frozen
<1>2. ASSUME NEW l \in DRanks, l # k PROVE StepsInv(l)'
  <2>1. dr'[l] = dr[l] /\ (l \in d'.batch.left <=> l \in d.batch.left) /\ d'.batch.done[l] = d.batch.done[l]
    BY <1>2 DEF OneWorker, OthersSame
  <2> QED BY <2>1 DEF StepsInv, DecodeInv
<1>3. ASSUME NEW l \in DRanks, l # k, NEW r \in Reqs, LocalInv(l, r)
      PROVE  LocalInv(l, r)' /\ (l \in DAwait(r)' <=> l \in DAwait(r))
  <2>1. dr'[l] = dr[l] /\ (l \in d'.batch.left <=> l \in d.batch.left) /\ d'.batch.done[l] = d.batch.done[l]
    BY <1>3 DEF OneWorker, OthersSame
  <2>2. \A y : Here(l, y)' <=> Here(l, y)
    BY <2>1 DEF Here, OthersSame
  <2>3. LocalStays(l, r)
    BY <2>1, <2>2 DEF LocalStays, Loading, OthersSame
  <2> QED BY <1>3, <2>3, LocalStaysKept
<1>4. ASSUME ~ OneOfSeveralFails, NEW r \in Reqs
      PROVE  CountInv(r)' /\ \A l \in DRanks : LocalInv(l, r)'
  <2>1. CountInv(r) /\ \A l \in DRanks : LocalInv(l, r)
    BY <1>4 DEF DecodeInv
  <2>2. \A l \in DRanks : LocalInv(l, r)'
    BY <1>3, <1>4, <2>1
  <2>3. (Loading(r)' <=> Loading(r)) /\ (Fresh(r)' <=> Fresh(r))
    BY DEF OthersSame, Loading, Fresh
  <2>4. ASSUME Loading(r) PROVE DAwait(r)' = DAwait(r)
    <3>1. \A l \in DRanks : l \in DAwait(r)' <=> l \in DAwait(r)
      BY <1>3, <1>4, <2>1, <2>4
    <3>2. DAwait(r) \subseteq DRanks /\ DAwait(r)' \subseteq DRanks
      BY <1>1 DEF DAwait
    <3> QED BY <3>1, <3>2
  <2>5. CountInv(r)'
    BY <1>1, <2>1, <2>3, <2>4 DEF CountInv
  <2> QED BY <2>2, <2>5
<1>5. \A l \in DRanks : StepsInv(l)'
  BY <1>2
<1> QED BY <1>1, <1>4, <1>5 DEF DecodeInv

\* ... of which no load goes on.
LEMMA DecodeStays ==
  ASSUME Shape, Shape', DecodeInv, config' = config, NEW k \in DRanks, OneWorker(k), OthersSame(k),
         d'.missing = d.missing, StepsInv(k)', \A x \in Reqs : LocalStays(k, x)
  PROVE  DecodeInv'
<1>1. ASSUME ~ OneOfSeveralFails, NEW r \in Reqs
      PROVE  LocalInv(k, r)' /\ (k \in DAwait(r)' <=> k \in DAwait(r))
  BY <1>1, LocalStaysKept DEF DecodeInv
<1> QED BY <1>1, DecodeWorker

LEMMA DecodeDStart ==
  ASSUME Shape, ChannelInv, DecodeInv, NEW k \in DRanks, DStart(k)
  PROVE  DecodeInv'
<1>1. /\ Shape' /\ UNCHANGED <<config, p, pr, notifs, expired, faults>>
      /\ dr[k].pc = "idle" /\ k \in d.batch.left /\ OneWorker(k)
      /\ dr'[k] = [dr[k] EXCEPT !.pc = "load", !.todo = d.batch.recv]
      /\ d'.need = d.need /\ d'.status = d.status /\ d'.missing = d.missing
      /\ d'.batch.recv = d.batch.recv /\ d'.batch.left = d.batch.left \ {k}
      /\ d'.batch.done = d.batch.done
  BY DStartSpec
<1>2. /\ dr'[k].pc = "load" /\ dr'[k].todo = d.batch.recv /\ dr'[k].jobs = dr[k].jobs /\ dr'[k].ready = dr[k].ready
      /\ dr'[k].failed = dr[k].failed /\ dr'[k].done = dr[k].done /\ dr'[k].xfer = dr[k].xfer
      /\ dr'[k].local = dr[k].local /\ dr'[k].meta = dr[k].meta
  BY <1>1 DEF Shape, WorkerStates
<1>3. dr[k].todo = {} /\ StepsInv(k)
  BY <1>1 DEF ChannelInv, ThreadInv, DecodeInv
<1>4. StepsInv(k)'
  BY <1>1, <1>2, <1>3 DEF StepsInv
<1>5. \A y : Here(k, y)' <=> Here(k, y)
  BY <1>1, <1>2, <1>3 DEF Here
<1>6. \A x \in Reqs : LocalStays(k, x)
  BY <1>1, <1>2, <1>5 DEF LocalStays, Loading, Joins, Ready, Failing
<1>7. OthersSame(k)
  BY <1>1 DEF OthersSame
<1> QED BY <1>1, <1>4, <1>6, <1>7, DecodeStays

\* A step of the background thread, or of a read.
LEMMA DecodeQuiet ==
  ASSUME Shape, Shape', DecodeInv, UNCHANGED <<config, d>>, NEW k \in DRanks, OneWorker(k),
         dr'[k].pc = dr[k].pc, dr'[k].todo = dr[k].todo, dr'[k].meta = dr[k].meta, dr'[k].local = dr[k].local,
         dr'[k].failed = dr[k].failed, dr'[k].done = dr[k].done,
         \A x \in Reqs : /\ Joins(dr'[k], x) => Joins(dr[k], x)
                         /\ Ready(dr'[k], x) => Ready(dr[k], x)
                         /\ \A t \in PRanks : dr'[k].xfer[x][t] # "none" => dr[k].xfer[x][t] # "none"
  PROVE  DecodeInv'
<1>1. StepsInv(k)'
  BY DEF DecodeInv, StepsInv
<1>2. \A x \in Reqs : LocalStays(k, x)
  BY DEF LocalStays, Loading, Here, Failing
<1>3. OthersSame(k)
  BY DEF OthersSame
<1> QED BY <1>1, <1>2, <1>3, DecodeStays

LEMMA DecodeHandshake ==
  ASSUME Shape, DecodeInv, NEW k \in DRanks,
         \/ DoneCallback(k) \/ \E ok \in BOOLEAN : HandshakeEnds(k, ok)
         \/ \E r \in Reqs, t \in PRanks : ReadEnds(k, r, t) \/ ReadFails(k, r, t)
  PROVE  DecodeInv'
<1>1. CASE /\ Shape' /\ OneWorker(k) /\ UNCHANGED <<config, d>>
           /\ SameButJobs(dr'[k], dr[k]) /\ JobsSame(dr'[k], dr[k])
  BY <1>1, DecodeQuiet DEF SameButJobs, JobsSame, Ready
<1>2. CASE /\ Shape' /\ OneWorker(k) /\ UNCHANGED <<config, d>> /\ SameButReads(dr'[k], dr[k])
           /\ \A x \in Reqs, t \in PRanks : dr'[k].xfer[x][t] # "none" => dr[k].xfer[x][t] # "none"
  BY <1>2, DecodeQuiet DEF SameButReads, Joins, Ready
<1>3. CASE DoneCallback(k)
  BY <1>1, <1>3, DoneCallbackSpec
<1>4. ASSUME NEW ok \in BOOLEAN, HandshakeEnds(k, ok) PROVE DecodeInv'
  BY <1>1, <1>4, HandshakeEndsSpec
<1>5. ASSUME NEW r \in Reqs, NEW t \in PRanks, ReadEnds(k, r, t) PROVE DecodeInv'
  <2>1. /\ Shape' /\ OneWorker(k) /\ UNCHANGED <<config, d>> /\ SameButReads(dr'[k], dr[k])
        /\ dr[k].xfer[r][t] = "proc"
        /\ \A x \in Reqs, u \in PRanks : dr'[k].xfer[x][u] = IF x = r /\ u = t THEN "ok" ELSE dr[k].xfer[x][u]
    BY <1>5, ReadEndsSpec
  <2> QED BY <1>2, <2>1
<1>6. ASSUME NEW r \in Reqs, NEW t \in PRanks, ReadFails(k, r, t) PROVE DecodeInv'
  <2>1. /\ Shape' /\ OneWorker(k) /\ UNCHANGED <<config, d>> /\ SameButReads(dr'[k], dr[k])
        /\ dr[k].xfer[r][t] = "proc"
        /\ \A x \in Reqs, u \in PRanks : dr'[k].xfer[x][u] = IF x = r /\ u = t THEN "err" ELSE dr[k].xfer[x][u]
    BY <1>6, ReadFailsSpec
  <2> QED BY <1>2, <2>1
<1> QED BY <1>3, <1>4, <1>5, <1>6

\* What is left of r besides its local blocks, once the worker has taken it up.
TakeupLocal(k, w, r) ==
  /\ w.local \subseteq w.meta /\ \A t \in PRanks : w.xfer[r][t] = "none"
  /\ \A x \in Reqs \ {r} : /\ x \in w.local <=> x \in dr[k].local
                           /\ \A y \in {Load(x), Note(x)} : y \in w.todo <=> y \in dr[k].todo
  /\ r \in w.local => /\ Loading(r) /\ k \in DAwait(r)
                      /\ r \notin d.batch.done[k] /\ ~ Failing(w, r)
  /\ r \notin w.local => ~ Loading(r)

LEMMA DecodeTakeup ==
  ASSUME Shape, Shape', DecodeInv, config' = config,
         NEW k \in DRanks, NEW w, NEW r \in Reqs, Takeup(k, w, r),
         ~ OneOfSeveralFails => TakeupLocal(k, w, r), w.local \subseteq w.meta,
         OneWorker(k), OthersSame(k), d'.batch = d.batch, d'.missing = d.missing,
         dr'[k].pc = w.pc, dr'[k].todo = w.todo, dr'[k].meta = w.meta, dr'[k].local = w.local,
         dr'[k].done = w.done, dr[k].pc = "load",
         \A x \in Reqs \ {r} : /\ Joins(dr'[k], x) => Joins(w, x)
                               /\ Ready(dr'[k], x) => Ready(w, x)
                               /\ x \in dr'[k].failed => x \in w.failed
                               /\ dr'[k].xfer[x] = w.xfer[x],
         ~ OneOfSeveralFails /\ r \in w.local =>
           /\ Joins(dr'[k], r) => ~ (Ready(dr'[k], r) \/ Moves(dr'[k], r) \/ Failing(dr'[k], r))
           /\ Ready(dr'[k], r) => ~ (Moves(dr'[k], r) \/ Failing(dr'[k], r))
           /\ Moves(dr'[k], r) => ~ Failing(dr'[k], r),
         ~ OneOfSeveralFails /\ r \notin w.local => ~ Moves(dr'[k], r)
  PROVE  DecodeInv'
<1>1. StepsInv(k)'
  BY DEF DecodeInv, StepsInv, Takeup
<1>2. ASSUME ~ OneOfSeveralFails, NEW x \in Reqs, x # r
      PROVE  LocalInv(k, x)' /\ (k \in DAwait(x)' <=> k \in DAwait(x))
  <2>1. x \in Reqs \ {r} /\ TakeupLocal(k, w, r)
    BY <1>2
  <2>2. \A y \in {Load(x), Note(x)} : Here(k, y)' <=> Here(k, y)
    BY <2>1 DEF Here, OthersSame, TakeupLocal
  <2>3. Failing(dr'[k], x) => Failing(dr[k], x)
    BY <2>1 DEF Failing, Takeup
  <2>4. LocalStays(k, x)
    BY <2>1, <2>2, <2>3 DEF LocalStays, Loading, Takeup, TakeupLocal, OthersSame
  <2> QED BY <1>2, <2>4, LocalStaysKept DEF DecodeInv
<1>3. ASSUME ~ OneOfSeveralFails
      PROVE  LocalInv(k, r)' /\ (Loading(r) => (k \in DAwait(r)' <=> k \in DAwait(r)))
  <2>1. TakeupLocal(k, w, r) /\ k \in DRanks'
    BY <1>3, Frozen
  <2>2. ~ Here(k, Load(r))' /\ ~ Here(k, Note(r))'
    <3>1. ~ Asked(w.todo, r) /\ ~ Asked(d.need, r) /\ ~ Sent(k, r)
      BY DEF Takeup
    <3>2. \A y \in {Load(r), Note(r)} : y.req = r
      BY LoadsSpec
    <3> QED BY <3>1, <3>2 DEF Here, Asked, Sent, OthersSame
  <2>3. (Loading(r)' <=> Loading(r)) /\ (Moves(dr[k], r)' <=> Moves(dr'[k], r))
    BY Frozen DEF OthersSame, Loading, Moves
  <2>4. CASE r \in w.local
    <3>1. LocalInv(k, r)'
      BY <1>3, <2>1, <2>2, <2>3, <2>4 DEF LocalInv, TakeupLocal
    <3>2. k \in DAwait(r)' /\ k \in DAwait(r)
      BY <2>1, <2>4 DEF DAwait, TakeupLocal
    <3> QED BY <3>1, <3>2
  <2>5. CASE r \notin w.local
    <3>1. ~ Loading(r)
      BY <2>1, <2>5 DEF TakeupLocal
    <3>2. LocalInv(k, r)'
      BY <1>3, <2>2, <2>3, <2>5, <3>1 DEF LocalInv
    <3> QED BY <3>1, <3>2
  <2> QED BY <2>4, <2>5
<1>4. ~ OneOfSeveralFails =>
        \A x \in Reqs : LocalInv(k, x)' /\ (Loading(x) => (k \in DAwait(x)' <=> k \in DAwait(x)))
  BY <1>2, <1>3
<1> QED BY <1>1, <1>4, DecodeWorker

LEMMA DecodeLoad ==
  ASSUME Shape, Shape', DecodeInv, config' = config,
         NEW k \in DRanks, NEW w, NEW r \in Reqs, Takeup(k, w, r),
         ~ OneOfSeveralFails => TakeupLocal(k, w, r), w.local \subseteq w.meta,
         OneWorker(k), dr[k].pc = "load", LoadStep(k, w, r)
  PROVE  DecodeInv'
<1>1. ASSUME NEW bad \in SUBSET Reads(k), ReadsBegin(k, w, r, bad) PROVE DecodeInv'
  <2>1. /\ d' = d /\ Alike(dr'[k], w) /\ r \in w.local
        /\ bad # {} => "setup" \in Faults
        /\ \A x \in Reqs \ {r} : dr'[k].xfer[x] = w.xfer[x]
        /\ \A t \in PRanks : dr'[k].xfer[r][t] = IF t \in Reads(k) \ bad THEN "proc" ELSE w.xfer[r][t]
        /\ dr'[k].failed = IF bad = {} THEN w.failed ELSE w.failed \cup {r}
    BY <1>1 DEF ReadsBegin
  <2>2. /\ \A x \in Reqs : Joins(dr'[k], x) <=> Joins(w, x)
        /\ \A x \in Reqs : Ready(dr'[k], x) <=> Ready(w, x)
        /\ dr'[k].pc = w.pc /\ dr'[k].todo = w.todo /\ dr'[k].done = w.done
        /\ dr'[k].local = w.local /\ dr'[k].meta = w.meta
    BY <2>1 DEF Alike, Joins, Ready
  <2>3. ~ Joins(dr'[k], r) /\ ~ Ready(dr'[k], r)
    BY <2>2 DEF Takeup
  <2>4. OthersSame(k)
    BY <2>1 DEF OthersSame
  <2>5. ASSUME ~ OneOfSeveralFails, Moves(dr'[k], r) PROVE ~ Failing(dr'[k], r)
    <3>1. TakeupLocal(k, w, r)
      BY <2>5
    <3>2. PICK t \in PRanks : dr'[k].xfer[r][t] # "none"
      BY <2>5 DEF Moves
    <3>3. t \in Reads(k) \ bad
      BY <2>1, <3>1, <3>2 DEF TakeupLocal
    <3>4. bad = {}
      <4>1. CASE NP > ND
        BY <2>1, <2>5, <4>1 DEF OneOfSeveralFails
      <4>2. CASE ~ (NP > ND)
        BY <3>3, <4>2, ReadsSpec DEF Shape
      <4> QED BY <4>1, <4>2
    <3> QED BY <2>1, <2>2, <3>1, <3>4 DEF TakeupLocal, Failing
  <2>6. \A x \in Reqs \ {r} : x \in dr'[k].failed => x \in w.failed
    BY <2>1
  <2> QED BY <2>1, <2>2, <2>3, <2>4, <2>5, <2>6, DecodeTakeup
<1>2. CASE NotesSent(k, w, r)
  <2>1. /\ dr'[k] = w /\ d'.batch = d.batch /\ OthersSame(k) /\ r \notin w.local /\ d'.missing = d.missing
    BY <1>2 DEF NotesSent, DKept, OthersSame
  <2>2. ~ OneOfSeveralFails => ~ Moves(dr'[k], r)
    BY <2>1 DEF TakeupLocal, Moves
  <2> QED BY <2>1, <2>2, DecodeTakeup
<1> QED BY <1>1, <1>2 DEF LoadStep

LEMMA DecodeJoin ==
  ASSUME Shape, Shape', DecodeInv, config' = config,
         NEW k \in DRanks, NEW w, NEW r \in Reqs, Takeup(k, w, r),
         ~ OneOfSeveralFails => TakeupLocal(k, w, r), w.local \subseteq w.meta,
         OneWorker(k), dr[k].pc = "load", JoinStep(k, w, r)
  PROVE  DecodeInv'
<1> DEFINE v == dr'[k]
<1>1. d' = d /\ SameReads(v, w) /\ w.ready \in Seq(Reqs) /\ ThreadInv(w)
  BY DEF JoinStep, Takeup, WorkerStates
<1>2. OthersSame(k)
  BY <1>1 DEF OthersSame
<1>3. v.todo = w.todo /\ v.done = w.done /\ v.xfer = w.xfer /\ v.pc = w.pc /\ v.local = w.local /\ v.meta = w.meta
  BY <1>1 DEF SameReads
<1>4. ~ Joins(w, r) /\ ~ Ready(w, r) /\ r \notin Range(w.ready)
  BY DEF Takeup, Ready
<1>5. ~ OneOfSeveralFails => ~ Moves(v, r)
  BY <1>3 DEF TakeupLocal, Moves
<1>6. ~ OneOfSeveralFails /\ r \in w.local => ~ Failing(w, r)
  BY DEF TakeupLocal
<1> SUFFICES /\ \A x \in Reqs \ {r} : /\ Joins(v, x) => Joins(w, x)
                                      /\ Ready(v, x) => Ready(w, x)
                                      /\ x \in v.failed => x \in w.failed
             /\ ~ (Joins(v, r) /\ Ready(v, r))
             /\ Joins(v, r) \/ Ready(v, r) => v.failed = w.failed
  <2> HIDE DEF v
  <2>1. Joins(v, r) \/ Ready(v, r) => (Failing(v, r) <=> Failing(w, r))
    BY <1>3 DEF Failing
  <2> QED BY <1>1, <1>2, <1>3, <1>5, <1>6, <2>1, DecodeTakeup DEF v
<1> HIDE DEF v
<1>7. CASE JoinsAdded(v, w, r)
  BY <1>4, <1>7 DEF JoinsAdded, Ready
<1>8. CASE ReadyAdded(v, w, r)
  <2>1. Range(v.ready) = Range(w.ready) \cup {r}
    BY <1>1, <1>4, <1>8, AppendRange DEF ReadyAdded
  <2>2. \A x \in Reqs : Joins(v, x) <=> Joins(w, x)
    BY <1>8 DEF ReadyAdded, Joins
  <2> QED BY <1>4, <1>8, <2>1, <2>2 DEF ReadyAdded, Ready
<1>9. CASE FailedAdded(v, w, r)
  <2>1. \A x \in Reqs : (Joins(v, x) <=> Joins(w, x)) /\ (Ready(v, x) <=> Ready(w, x))
    BY <1>9 DEF FailedAdded, Joins, Ready
  <2>2. v.failed \subseteq w.failed \cup {r}
    BY <1>9 DEF FailedAdded
  <2> QED BY <1>4, <2>1, <2>2
<1> QED BY <1>7, <1>8, <1>9 DEF JoinStep, v

LEMMA DecodeDLoad ==
  ASSUME Shape, ChannelInv, DecodeInv, NEW k \in DRanks, DLoad(k)
  PROVE  DecodeInv'
<1>1. JobsInv(dr[k])
  BY DEF ChannelInv, ThreadInv
<1>2. /\ Shape' /\ OneWorker(k) /\ UNCHANGED <<config, p, pr, expired>> /\ dr[k].pc = "load"
  BY <1>1, DLoadSpec
<1>3. PICK m \in dr[k].todo : \/ LoadStep(k, Taken(dr[k], m), m.req)
                              \/ JoinStep(k, Taken(dr[k], m), m.req)
  BY <1>1, DLoadSpec
<1> DEFINE w == Taken(dr[k], m)
           r == m.req
<1>4. Takeup(k, w, r) /\ r \in Reqs
  BY <1>2, TakeupLoad
<1>5. dr[k] \in WorkerStates /\ StepsInv(k)
  BY DEF Shape, DecodeInv
<1>6. /\ m \in Loads /\ w.todo = dr[k].todo \ {m} /\ w.meta = dr[k].meta \cup {r}
      /\ w.local = IF m.local THEN dr[k].local \cup {r} ELSE dr[k].local
      /\ w.xfer = dr[k].xfer /\ w.failed = dr[k].failed /\ w.done = dr[k].done
  BY <1>5, TakenSpec
<1> HIDE DEF w
<1>7. w.local \subseteq w.meta
  BY <1>5, <1>6 DEF StepsInv
<1>8. ASSUME ~ OneOfSeveralFails PROVE TakeupLocal(k, w, r)
  <2>1. LocalInv(k, r)
    BY <1>4, <1>8 DEF DecodeInv
  <2>2. m = IF m.local THEN Load(r) ELSE Note(r)
    BY <1>4, <1>6, LoadsSpec
  <2>3. Here(k, m)
    BY DEF Here
  <2>4. \A x \in Reqs \ {r} : \A y \in {Load(x), Note(x)} : y # m
    <3>1. \A x \in Reqs \ {r} : Load(x).req = x /\ Note(x).req = x
      BY LoadsSpec
    <3> QED BY <3>1
  <2> HIDE DEF r
  <2>5. \A x \in Reqs \ {r} : /\ x \in w.local <=> x \in dr[k].local
                              /\ \A y \in {Load(x), Note(x)} : y \in w.todo <=> y \in dr[k].todo
    BY <1>6, <2>4
  <2>6. Failing(w, r) <=> Failing(dr[k], r)
    BY <1>6 DEF Failing
  <2>7. CASE m.local
    <3>1. /\ Loading(r) /\ r \notin dr[k].local /\ r \notin d.batch.done[k] /\ ~ Failing(dr[k], r) /\ ~ Moves(dr[k], r)
      BY <2>1, <2>2, <2>3, <2>7 DEF LocalInv
    <3>2. k \in DAwait(r)
      BY <2>2, <2>3, <2>7 DEF DAwait
    <3>3. \A t \in PRanks : w.xfer[r][t] = "none"
      BY <1>6, <3>1 DEF Moves
    <3>4. r \in w.local
      BY <1>6, <2>7
    <3> QED BY <1>7, <2>5, <2>6, <3>1, <3>2, <3>3, <3>4 DEF TakeupLocal
  <2>8. CASE ~ m.local
    <3>1. ~ Loading(r) /\ r \notin dr[k].local /\ ~ Moves(dr[k], r)
      BY <2>1, <2>2, <2>3, <2>8 DEF LocalInv
    <3>2. \A t \in PRanks : w.xfer[r][t] = "none"
      BY <1>6, <3>1 DEF Moves
    <3>3. r \notin w.local
      BY <1>6, <2>8, <3>1
    <3> QED BY <1>7, <2>5, <3>1, <3>2, <3>3 DEF TakeupLocal
  <2> QED BY <2>7, <2>8
<1>9. CASE LoadStep(k, w, r)
  <2> HIDE DEF r
  <2> QED BY <1>2, <1>4, <1>7, <1>8, <1>9, DecodeLoad
<1>10. CASE JoinStep(k, w, r)
  <2> HIDE DEF r
  <2> QED BY <1>2, <1>4, <1>7, <1>8, <1>10, DecodeJoin
<1> QED BY <1>3, <1>9, <1>10 DEF w

LEMMA DecodeDReady ==
  ASSUME Shape, ChannelInv, DecodeInv, NEW k \in DRanks, DReady(k)
  PROVE  DecodeInv'
<1> DEFINE w == Rested(dr[k])
           r == Head(dr[k].ready)
<1>1. /\ Shape' /\ OneWorker(k) /\ UNCHANGED <<config, p, pr, expired>>
      /\ dr[k].pc = "load" /\ dr[k].ready # <<>> /\ r \in Reqs
      /\ w \in WorkerStates /\ SameReads(w, dr[k]) /\ w.ready = Tail(dr[k].ready) /\ w.jobs = dr[k].jobs
      /\ w.failed = dr[k].failed /\ LoadStep(k, w, r)
  BY DReadySpec
<1>2. dr[k].ready \in Seq(Reqs) /\ ThreadInv(dr[k])
  BY DEF Shape, WorkerStates, ChannelInv
<1>3. Range(Tail(dr[k].ready)) = Range(dr[k].ready) \ {r} /\ r \in Range(dr[k].ready)
      /\ IsInjective(Tail(dr[k].ready))
  BY <1>1, <1>2, TailRange DEF ThreadInv
<1> HIDE DEF w, r
<1>4. /\ w.todo = dr[k].todo /\ w.pc = dr[k].pc /\ w.xfer = dr[k].xfer /\ w.done = dr[k].done
      /\ w.local = dr[k].local /\ w.meta = dr[k].meta
  BY <1>1 DEF SameReads
<1>5. ThreadInv(w)
  BY <1>1, <1>2, <1>3, <1>4 DEF ThreadInv, JobsInv
<1>6. \A x \in Reqs : /\ Joins(w, x) <=> Joins(dr[k], x)
                      /\ Ready(w, x) <=> Ready(dr[k], x) /\ x # r
                      /\ Reading(w, x) <=> Reading(dr[k], x)
  BY <1>1, <1>3, <1>4 DEF Joins, Ready, Reading
<1>7. Ready(dr[k], r) /\ PlaceInv(k, r)
  BY <1>1, <1>3 DEF Ready, ChannelInv
<1>8. /\ ~ Fresh(r) /\ ~ Asked(d.need, r) /\ ~ Sent(k, r)
      /\ ~ Joins(dr[k], r) /\ ~ Asked(dr[k].todo, r) /\ ~ Reading(dr[k], r)
  BY <1>7 DEF PlaceInv
<1>9. Owes(k, r)
  BY <1>7 DEF Owes
<1>10. Takeup(k, w, r)
  BY <1>1, <1>4, <1>5, <1>6, <1>8, <1>9 DEF Takeup
<1>11. w.local \subseteq w.meta
  BY <1>4 DEF DecodeInv, StepsInv
<1>12. ASSUME ~ OneOfSeveralFails PROVE TakeupLocal(k, w, r)
  <2>1. LocalInv(k, r)
    BY <1>1, <1>12 DEF DecodeInv
  <2>2. ~ Moves(dr[k], r) /\ (r \in dr[k].local => ~ Failing(dr[k], r) /\ r \notin d.batch.done[k])
    BY <1>7, <2>1 DEF LocalInv
  <2>3. \A t \in PRanks : w.xfer[r][t] = "none"
    BY <1>4, <2>2 DEF Moves
  <2>4. r \in dr[k].local <=> Loading(r)
    BY <1>7, <2>1 DEF LocalInv
  <2>5. r \in dr[k].local => k \in DAwait(r)
    BY DEF DAwait
  <2>6. Failing(w, r) <=> Failing(dr[k], r)
    BY <1>1, <1>4 DEF Failing
  <2> QED BY <1>4, <1>11, <2>2, <2>3, <2>4, <2>5, <2>6 DEF TakeupLocal
<1> QED BY <1>1, <1>10, <1>11, <1>12, DecodeLoad

LEMMA DecodeRequestReady ==
  ASSUME Shape, ChannelInv, DecodeInv, NEW k \in DRanks, RequestReady(k)
  PROVE  DecodeInv'
<1> DEFINE v == dr'[k]
           w == dr[k]
<1>1. JobsInv(w) /\ w \in WorkerStates /\ w.ready \in Seq(Reqs)
  BY DEF ChannelInv, ThreadInv, Shape, WorkerStates
<1>2. /\ Shape' /\ OneWorker(k) /\ UNCHANGED <<config, p, pr, d, notifs, expired>> /\ SameReads(v, w)
  BY <1>1, RequestReadySpec
<1> PICK r \in Reqs : Joins(w, r) /\ RequestReadies(v, w, r)
  BY <1>1, RequestReadySpec
<1>3. v.todo = w.todo /\ v.done = w.done /\ v.xfer = w.xfer /\ v.pc = w.pc /\ v.local = w.local /\ v.meta = w.meta
  BY <1>2 DEF SameReads
<1>4. OthersSame(k) /\ d'.missing = d.missing
  BY <1>2 DEF OthersSame
<1>5. StepsInv(k)'
  BY <1>2, <1>3 DEF StepsInv, DecodeInv
<1>6. \A y : Here(k, y)' <=> Here(k, y)
  BY <1>2, <1>3 DEF Here
<1>7. PlaceInv(k, r)
  BY DEF ChannelInv
<1>8. ASSUME NEW x \in Reqs, x # r PROVE LocalStays(k, x)
  <2>1. /\ Joins(v, x) => Joins(w, x)
        /\ x \in v.failed => x \in w.failed
    BY <1>8 DEF RequestReadies, CallbackDone
  <2>2. Ready(v, x) => Ready(w, x)
    <3>1. CASE v.ready = Append(w.ready, r)
      BY <1>1, <1>8, <3>1, AppendRange DEF Ready
    <3>2. CASE v.ready = w.ready
      BY <3>2 DEF Ready
    <3> QED BY <3>1, <3>2 DEF RequestReadies
  <2> QED BY <1>2, <1>3, <1>6, <2>1, <2>2 DEF LocalStays, Loading, Failing
<1>9. ASSUME LocalInv(k, r) PROVE LocalInv(k, r)' /\ (k \in DAwait(r)' <=> k \in DAwait(r))
  <2>1. (Loading(r)' <=> Loading(r)) /\ (Moves(w, r)' <=> Moves(w, r)) /\ k \in DRanks'
    BY <1>2, <1>3, Frozen DEF Loading, Moves
  <2>2. ~ Ready(w, r) /\ Joins(w, r)
    BY <1>7 DEF PlaceInv
  <2>3. /\ r \in w.local => ~ Moves(w, r) /\ ~ Failing(w, r)
        /\ r \in w.local <=> Loading(r)
    BY <1>9, <2>2 DEF LocalInv
  <2>4. /\ r \in v.local => /\ Joins(v, r) => ~ (Ready(v, r) \/ Failing(v, r))
                            /\ Ready(v, r) => ~ Failing(v, r)
    <3>1. CASE CallbackDone(v, w, r) /\ v.failed = w.failed
      BY <1>3, <2>3, <3>1 DEF CallbackDone, Failing
    <3>2. CASE CallbackDone(v, w, r) /\ v.ready = w.ready
      BY <2>2, <3>2 DEF CallbackDone, Ready
    <3>3. CASE v.ready = w.ready /\ v.failed = w.failed
      BY <1>3, <2>2, <2>3, <3>3 DEF Ready, Failing
    <3> QED BY <3>1, <3>2, <3>3 DEF RequestReadies
  <2>5. LocalInv(k, r)'
    <3>1. d' = d /\ v.local = w.local
      BY <1>2, <1>3
    <3>2. Here(k, Load(r))' = Here(k, Load(r)) /\ Here(k, Note(r))' = Here(k, Note(r))
      BY <1>2, <1>3 DEF Here
    <3> QED BY <1>9, <2>1, <2>3, <2>4, <3>1, <3>2 DEF LocalInv
  <2>6. k \in DAwait(r)' <=> k \in DAwait(r)
    BY <1>2, <1>3, <1>6, <2>1 DEF DAwait
  <2> QED BY <2>5, <2>6
<1>10. ~ OneOfSeveralFails =>
         \A x \in Reqs : LocalInv(k, x)' /\ (Loading(x) => (k \in DAwait(x)' <=> k \in DAwait(x)))
  BY <1>2, <1>8, <1>9, LocalStaysKept DEF DecodeInv
<1> QED BY <1>2, <1>4, <1>5, <1>10, DecodeWorker

LEMMA DecodeTakeDone ==
  ASSUME Shape, DecodeInv, NEW k \in DRanks, TakeDone(k)
  PROVE  DecodeInv'
<1> DEFINE v == dr'[k]
           w == dr[k]
<1>1. /\ Shape' /\ OneWorker(k) /\ UNCHANGED <<config, p, pr, d, notifs, expired>>
      /\ w.pc = "load" /\ w.todo = {} /\ w.ready = <<>> /\ Takes(v, w)
  BY TakeDoneSpec
<1>2. /\ v.pc = "taken" /\ v.todo = w.todo /\ v.jobs = w.jobs /\ v.ready = w.ready
      /\ v.meta = w.meta /\ v.local = w.local
      /\ v.failed = w.failed /\ v.done = Popped(w) \cup w.failed
      /\ \A x \in Reqs, u \in PRanks : v.xfer[x][u] = IF w.xfer[x][u] = "proc" THEN "proc" ELSE "none"
  BY <1>1 DEF Takes
<1>3. StepsInv(k)'
  BY <1>1, <1>2 DEF StepsInv, DecodeInv
<1>4. OthersSame(k) /\ d'.missing = d.missing
  BY <1>1 DEF OthersSame
<1>5. ASSUME NEW x \in Reqs, LocalInv(k, x) PROVE LocalInv(k, x)' /\ (k \in DAwait(x)' <=> k \in DAwait(x))
  <2>1. \A y : Here(k, y)' <=> Here(k, y)
    BY <1>1, <1>2 DEF Here
  <2>2. (Loading(x)' <=> Loading(x)) /\ (Moves(w, x)' <=> Moves(v, x)) /\ k \in DRanks'
    BY <1>1, Frozen DEF Loading, Moves
  <2>3. Moves(v, x) => Moves(w, x) /\ x \notin Popped(w)
    BY <1>2 DEF Moves, Popped, Has
  <2>4. x \in Popped(w) => Moves(w, x)
    BY DEF Popped, Has, Moves
  <2>5. /\ Joins(v, x) <=> Joins(w, x)
        /\ Ready(v, x) <=> Ready(w, x)
        /\ Failing(v, x) => x \in w.failed \/ x \in Popped(w)
    BY <1>2 DEF Joins, Ready, Failing
  <2>6. LocalInv(k, x)'
    <3>1. Here(k, Load(x))' = Here(k, Load(x)) /\ Here(k, Note(x))' = Here(k, Note(x))
      BY <1>1, <1>2 DEF Here
    <3>2. d' = d /\ v.local = w.local
      BY <1>1, <1>2
    <3>3. x \in w.failed => Failing(w, x)
      BY DEF Failing
    <3> QED BY <1>5, <2>2, <2>3, <2>4, <2>5, <3>1, <3>2, <3>3 DEF LocalInv
  <2>7. k \in DAwait(x)' <=> k \in DAwait(x)
    BY <1>1, <1>2, <2>1, <2>2 DEF DAwait
  <2> QED BY <2>6, <2>7
<1>6. ~ OneOfSeveralFails =>
        \A x \in Reqs : LocalInv(k, x)' /\ (Loading(x) => (k \in DAwait(x)' <=> k \in DAwait(x)))
  BY <1>5 DEF DecodeInv
<1> QED BY <1>1, <1>3, <1>4, <1>6, DecodeWorker

LEMMA DecodeReport ==
  ASSUME Shape, DecodeInv, NEW k \in DRanks, Report(k)
  PROVE  DecodeInv'
<1> DEFINE v == dr'[k]
           w == dr[k]
<1>1. /\ Shape' /\ OneWorker(k) /\ UNCHANGED <<config, p, pr, notifs, expired>>
      /\ w.pc = "taken" /\ Reporting(v, w)
      /\ d'.need = d.need /\ d'.status = d.status /\ d'.missing = d.missing
      /\ d'.batch.recv = d.batch.recv /\ d'.batch.left = d.batch.left
      /\ d'.batch.done[k] = w.done
      /\ \A l \in DRanks \ {k} : d'.batch.done[l] = d.batch.done[l]
  BY ReportSpec
<1>2. /\ v.pc = "idle" /\ v.todo = w.todo /\ v.jobs = w.jobs /\ v.ready = w.ready
      /\ v.failed = {} /\ v.done = {} /\ v.xfer = w.xfer
      /\ v.meta = w.meta \ w.done /\ v.local = w.local \ w.done
  BY <1>1 DEF Reporting
<1>3. StepsInv(k)
  BY DEF DecodeInv
<1>4. StepsInv(k)'
  BY <1>1, <1>2, <1>3 DEF StepsInv
<1>5. OthersSame(k)
  BY <1>1 DEF OthersSame
<1>6. d.batch.done[k] = {}
  BY <1>1, <1>3 DEF StepsInv
<1>7. ASSUME NEW x \in Reqs, LocalInv(k, x)
      PROVE  LocalInv(k, x)' /\ (Loading(x) => (k \in DAwait(x)' <=> k \in DAwait(x)))
  <2>1. Here(k, Load(x))' = Here(k, Load(x)) /\ Here(k, Note(x))' = Here(k, Note(x))
    BY <1>1, <1>2 DEF Here
  <2>2. (Loading(x)' <=> Loading(x)) /\ (Moves(w, x)' <=> Moves(w, x)) /\ k \in DRanks'
    BY <1>1, <1>2, Frozen DEF Loading, Moves
  <2>3. /\ Joins(v, x) <=> Joins(w, x)
        /\ Ready(v, x) <=> Ready(w, x)
        /\ ~ Failing(v, x)
        /\ x \in w.done => Failing(w, x)
    BY <1>2 DEF Joins, Ready, Failing
  <2>4. /\ x \in v.local <=> x \in w.local /\ x \notin w.done
        /\ x \in d'.batch.done[k] <=> x \in w.done
    BY <1>1, <1>2
  <2>5. LocalInv(k, x)'
    BY <1>7, <2>1, <2>2, <2>3, <2>4 DEF LocalInv
  <2>6. Loading(x) => (x \in w.done => x \in w.local)
    BY <1>7, <2>3 DEF LocalInv
  <2>7. Loading(x) => (k \in DAwait(x)' <=> k \in DAwait(x))
    BY <1>6, <2>1, <2>2, <2>4, <2>6 DEF DAwait
  <2> QED BY <2>5, <2>7
<1>8. ~ OneOfSeveralFails =>
        \A x \in Reqs : LocalInv(k, x)' /\ (Loading(x) => (k \in DAwait(x)' <=> k \in DAwait(x)))
  BY <1>7 DEF DecodeInv
<1> QED BY <1>1, <1>4, <1>5, <1>8, DecodeWorker

\* Nothing happens to r.
LEMMA DecodeSame ==
  ASSUME Shape, config' = config, NEW r \in Reqs, CountInv(r), \A k \in DRanks : LocalInv(k, r),
         \A k \in DRanks : LocalStays(k, r), d'.missing[r] = d.missing[r], Fresh(r)' => Fresh(r)
  PROVE  CountInv(r)' /\ \A k \in DRanks : LocalInv(k, r)'
<1>1. ND' = ND /\ DRanks' = DRanks
  BY Frozen
<1>2. \A k \in DRanks : LocalInv(k, r)' /\ (k \in DAwait(r)' <=> k \in DAwait(r)) /\ (Loading(r)' <=> Loading(r))
  BY LocalStaysKept DEF LocalStays
<1>3. DAwait(r)' = DAwait(r)
  <2>1. DAwait(r) \subseteq DRanks /\ DAwait(r)' \subseteq DRanks
    BY <1>1 DEF DAwait
  <2> QED BY <1>2, <2>1
<1>4. Loading(r)' => Loading(r)
  BY <1>2, DRanksNonempty DEF Shape
<1> QED BY <1>1, <1>2, <1>3, <1>4 DEF CountInv

LEMMA DecodeArrive ==
  ASSUME Shape, DecodeInv, NEW r \in Reqs,
         DArrive(r) \/ (DAbort(r) /\ d.status[r] = "remote")
  PROVE  DecodeInv'
<1> DEFINE Moved1 == \/ d.status[r] = "new" /\ d'.status = [d.status EXCEPT ![r] = "waiting"]
                     \/ d.status[r] = "remote" /\ d'.status = [d.status EXCEPT ![r] = "finished"]
<1>1. /\ UNCHANGED <<config, dr>> /\ d'.batch = d.batch /\ d'.need = d.need /\ d'.missing = d.missing
      /\ Moved1
  <2>1. CASE DArrive(r)
    BY <2>1, DArriveSpec DEF DOther
  <2>2. CASE DAbort(r) /\ d.status[r] = "remote"
    <3>1. d.status[r] # "waiting"
      BY <2>2
    <3> QED BY <2>2, <3>1, DAbortSpec DEF DOther
  <2> QED BY <2>1, <2>2
<1>2. d.status \in [Reqs -> Statuses] /\ DRanks' = DRanks /\ OneOfSeveralFails' = OneOfSeveralFails
  BY <1>1, Frozen DEF Shape, DStates
<1>3. \A k \in DRanks : StepsInv(k)'
  BY <1>1 DEF StepsInv, DecodeInv
<1>4. ASSUME NEW x \in Reqs, NEW k \in DRanks PROVE LocalStays(k, x)
  <2>1. Loading(x)' <=> Loading(x)
    BY <1>1, <1>2 DEF Loading
  <2> QED BY <1>1, <2>1 DEF LocalStays, Here, Joins, Ready, Failing
<1>5. \A x \in Reqs : Fresh(x)' => Fresh(x)
  BY <1>1, <1>2 DEF Fresh
<1>6. ASSUME ~ OneOfSeveralFails, NEW x \in Reqs PROVE CountInv(x)' /\ \A k \in DRanks : LocalInv(k, x)'
  BY <1>1, <1>4, <1>5, <1>6, DecodeSame DEF DecodeInv
<1> QED BY <1>2, <1>3, <1>6 DEF DecodeInv

\* A fresh request is put on the list, to load or only to notify.
LEMMA DecodeListed ==
  ASSUME Shape, ChannelInv, DecodeInv, UNCHANGED <<config, dr>>,
         d'.batch = d.batch, d'.missing = d.missing, NEW r \in Reqs, Fresh(r), ~ Fresh(r)',
         \A y \in Reqs \ {r} : d'.status[y] = d.status[y],
         \/ d'.need = d.need \cup {Load(r)} /\ Loading(r)'
         \/ d'.need = d.need \cup {Note(r)} /\ ~ Loading(r)'
  PROVE  DecodeInv'
<1>1. DRanks' = DRanks /\ OneOfSeveralFails' = OneOfSeveralFails /\ ND' = ND
  BY Frozen
<1>2. \A k \in DRanks : StepsInv(k)'
  BY DEF StepsInv, DecodeInv
<1>3. ASSUME ~ OneOfSeveralFails, NEW x \in Reqs, x # r PROVE CountInv(x)' /\ \A k \in DRanks : LocalInv(k, x)'
  <2>1. (Loading(x)' <=> Loading(x)) /\ (Fresh(x)' <=> Fresh(x))
    BY <1>3 DEF Loading, Fresh
  <2>2. \A y \in {Load(x), Note(x)} : y \in d'.need <=> y \in d.need
    BY <1>3, LoadsSpec
  <2>3. \A k \in DRanks : LocalStays(k, x)
    BY <2>1, <2>2 DEF LocalStays, Here
  <2> QED BY <1>3, <2>1, <2>3, DecodeSame DEF DecodeInv
<1>4. ASSUME ~ OneOfSeveralFails PROVE CountInv(r)' /\ \A k \in DRanks : LocalInv(k, r)'
  <2>1. ~ Loading(r)
    BY DEF Fresh, Loading
  <2>2. \A k \in DRanks : LocalInv(k, r) /\ PlaceInv(k, r)
    BY <1>4 DEF DecodeInv, ChannelInv
  <2>3. \A k \in DRanks : /\ ~ Here(k, Load(r)) /\ ~ Here(k, Note(r)) /\ r \notin dr[k].local
                          /\ ~ Moves(dr[k], r) /\ ~ Joins(dr[k], r) /\ ~ Ready(dr[k], r)
                          /\ ~ Failing(dr[k], r) /\ r \notin d.batch.done[k]
    <3>1. SUFFICES ASSUME NEW k \in DRanks PROVE <2>3!(k)
      OBVIOUS
    <3>2. ~ Asked(d.need, r) /\ ~ Sent(k, r) /\ ~ Asked(dr[k].todo, r)
      BY <2>2 DEF PlaceInv
    <3>3. ~ Here(k, Load(r)) /\ ~ Here(k, Note(r))
      BY <3>2, LoadsSpec DEF Here, Asked, Sent
    <3> QED BY <2>1, <2>2, <3>3 DEF PlaceInv, LocalInv
  <2>4. \A k \in DRanks : Moves(dr[k], r)' <=> Moves(dr[k], r)
    BY <1>1, Frozen DEF Moves
  <2>5. CASE d'.need = d.need \cup {Load(r)} /\ Loading(r)'
    <3>1. \A k \in DRanks : Here(k, Load(r))' /\ ~ Here(k, Note(r))'
      BY <2>3, <2>5, LoadsSpec DEF Here
    <3>2. \A k \in DRanks : LocalInv(k, r)'
      BY <2>3, <2>4, <2>5, <3>1 DEF LocalInv, Failing
    <3>3. DAwait(r)' = DRanks
      BY <1>1, <3>1 DEF DAwait
    <3>4. Cardinality(DRanks) = ND /\ DRanks # {}
      <4>1. ND \in Nat \ {0} /\ ND - 1 \in Int
        BY ConfigSpec DEF Shape
      <4>2. Cardinality(0..(ND - 1)) = ND
        <5>1. Cardinality(0..(ND - 1)) = IF 0 > ND - 1 THEN 0 ELSE (ND - 1) - 0 + 1
          BY <4>1, FS_Interval
        <5> QED BY <4>1, <5>1
      <4> QED BY <4>2, DRanksNonempty DEF DRanks, Shape
    <3>5. d.missing[r] = ND
      BY <1>4 DEF DecodeInv, CountInv
    <3> QED BY <1>1, <3>2, <3>3, <3>4, <3>5 DEF CountInv
  <2>6. CASE d'.need = d.need \cup {Note(r)} /\ ~ Loading(r)'
    <3>1. \A k \in DRanks : ~ Here(k, Load(r))'
      BY <2>3, <2>6, LoadsSpec DEF Here
    <3>2. \A k \in DRanks : LocalInv(k, r)'
      BY <2>3, <2>4, <2>6, <3>1 DEF LocalInv, Failing
    <3> QED BY <2>6, <3>2 DEF CountInv
  <2> QED BY <2>5, <2>6
<1> QED BY <1>1, <1>2, <1>3, <1>4 DEF DecodeInv

LEMMA DecodeAdmit ==
  ASSUME Shape, ChannelInv, DecodeInv, NEW r \in Reqs, DAdmit(r) \/ DAbort(r)
  PROVE  DecodeInv'
<1>1. d.status \in [Reqs -> Statuses]
  BY DEF Shape, DStates
<1>2. CASE DAbort(r) /\ d.status[r] = "remote"
  BY <1>2, DecodeArrive
<1>3. CASE DAdmit(r) \/ (DAbort(r) /\ d.status[r] # "remote")
  <2>1. /\ UNCHANGED <<config, dr>> /\ d'.batch = d.batch /\ d'.missing = d.missing /\ d.status[r] = "waiting"
    BY <1>3, DAdmitSpec, DAbortSpec DEF DOther
  <2>2. \/ d'.status = [d.status EXCEPT ![r] = "remote"] /\ d'.need = d.need \cup {Load(r)}
        \/ d'.status = [d.status EXCEPT ![r] = "running"] /\ d'.need = d.need \cup {Note(r)}
        \/ d'.status = [d.status EXCEPT ![r] = "gone"] /\ d'.need = d.need \cup {Note(r)}
    BY <1>3, DAdmitSpec, DAbortSpec
  <2>3. /\ Fresh(r) /\ ~ Fresh(r)' /\ \A y \in Reqs \ {r} : d'.status[y] = d.status[y]
        /\ \/ d'.need = d.need \cup {Load(r)} /\ Loading(r)'
           \/ d'.need = d.need \cup {Note(r)} /\ ~ Loading(r)'
    BY <1>1, <2>1, <2>2 DEF Fresh, Loading
  <2> QED BY <2>1, <2>3, DecodeListed
<1> QED BY <1>2, <1>3

LEMMA DecodeDSchedule ==
  ASSUME Shape, ChannelInv, DecodeInv, DSchedule
  PROVE  DecodeInv'
<1>1. /\ UNCHANGED <<config, dr>>
      /\ \A k \in DRanks : dr[k].pc = "idle" /\ d.batch.done[k] = {} /\ d'.batch.done[k] = {}
      /\ d.batch.left = {} /\ d'.batch.recv = d.need /\ d'.batch.left = DRanks /\ d'.need = {}
      /\ d'.status = d.status /\ d'.missing = d.missing
  BY DScheduleSpec
<1>2. DRanks' = DRanks /\ OneOfSeveralFails' = OneOfSeveralFails
  BY <1>1, Frozen
<1>3. \A k \in DRanks : StepsInv(k)'
  BY <1>1 DEF StepsInv, DecodeInv
<1>4. ASSUME NEW x \in Reqs, NEW k \in DRanks PROVE LocalStays(k, x)
  <2>1. dr[k].todo = {}
    BY <1>1 DEF ChannelInv, ThreadInv
  <2> QED BY <1>1, <2>1 DEF LocalStays, Loading, Here
<1>5. \A x \in Reqs : (Fresh(x)' => Fresh(x)) /\ d'.missing[x] = d.missing[x]
  BY <1>1 DEF Fresh
<1>6. ASSUME ~ OneOfSeveralFails, NEW x \in Reqs PROVE CountInv(x)' /\ \A k \in DRanks : LocalInv(k, x)'
  <2>1. CountInv(x) /\ \A k \in DRanks : LocalInv(k, x)
    BY <1>6 DEF DecodeInv
  <2> QED BY <1>1, <1>4, <1>5, <2>1, DecodeSame
<1> QED BY <1>2, <1>3, <1>6 DEF DecodeInv

LEMMA DecodeDUpdate ==
  ASSUME Shape, ChannelInv, DecodeInv, DUpdate
  PROVE  DecodeInv'
<1>1. /\ Shape' /\ UNCHANGED <<config, dr>>
      /\ d.batch.left = {} /\ \A k \in DRanks : dr[k].pc = "idle"
      /\ d'.need = d.need /\ d'.batch.left = {}
      /\ \A k \in DRanks : d'.batch.done[k] = {}
      /\ \A r \in Reqs : DReports(r) \in Nat
  BY DUpdateSpec
<1> PICK over : DUpdates(over)
  BY DUpdateSpec
<1>2. DRanks' = DRanks /\ OneOfSeveralFails' = OneOfSeveralFails /\ ND' = ND
  BY <1>1, Frozen
<1>3. \A k \in DRanks : StepsInv(k)'
  BY <1>1 DEF StepsInv, DecodeInv
<1>4. ASSUME ~ OneOfSeveralFails, NEW r \in Reqs PROVE CountInv(r)' /\ \A k \in DRanks : LocalInv(k, r)'
  <2> DEFINE A == DAwait(r)
             D == {k \in DRanks : r \in d.batch.done[k]}
             A1 == DAwait(r)'
  <2>1. CountInv(r) /\ \A k \in DRanks : LocalInv(k, r) /\ PlaceInv(k, r)
    BY <1>4 DEF DecodeInv, ChannelInv
  <2>2. IsFiniteSet(DRanks) /\ A \subseteq DRanks /\ D \subseteq A
    BY RanksFinite DEF Shape, DAwait
  <2>3. IsFiniteSet(A) /\ IsFiniteSet(D) /\ Cardinality(A) \in Nat /\ Cardinality(D) \in Nat
        /\ Cardinality(D) <= Cardinality(A) /\ (Cardinality(D) = Cardinality(A) => D = A)
        /\ Cardinality(A \ D) = Cardinality(A) - Cardinality(D) /\ (Cardinality(D) = 0 <=> D = {})
    <3> HIDE DEF A, D
    <3>1. IsFiniteSet(A)
      BY <2>2, FS_Subset
    <3>2. IsFiniteSet(D) /\ Cardinality(D) <= Cardinality(A) /\ (Cardinality(D) = Cardinality(A) => D = A)
      BY <2>2, <3>1, FS_Subset
    <3>3. A \cap D = D
      BY <2>2
    <3>4. Cardinality(A \ D) = Cardinality(A) - Cardinality(A \cap D)
      BY <3>1, <3>2, FS_Difference
    <3> QED BY <3>1, <3>2, <3>3, <3>4, FS_CardinalityType, FS_EmptySet
  <2>4. DReports(r) = Cardinality(D)
    BY DEF DReports
  <2>5. \A k \in DRanks : \A y \in {Load(r), Note(r)} : Here(k, y)' <=> Here(k, y)
    BY <1>1 DEF Here
  <2>6. A1 = A \ D
    <3>1. \A k \in DRanks : k \in A1 <=> Here(k, Load(r)) \/ r \in dr[k].local
      BY <1>1, <1>2, <2>5 DEF DAwait
    <3>2. \A k \in DRanks : Here(k, Load(r)) \/ r \in dr[k].local => r \notin d.batch.done[k]
      BY <2>1 DEF LocalInv
    <3>3. A1 \subseteq DRanks
      BY <1>2 DEF DAwait
    <3> QED BY <3>1, <3>2, <3>3 DEF DAwait
  <2>7. \A k \in DRanks : Moves(dr[k], r)' <=> Moves(dr[k], r)
    BY <1>1, Frozen DEF Moves
  <2>8. /\ d'.missing[r] = IF r \in over THEN ND ELSE Count(d.missing[r], DReports(r))
        /\ d'.status[r] = IF r \notin over THEN DStat(r) ELSE IF DStat(r) = "remote" THEN "running" ELSE "gone"
        /\ r \in over <=> Done(d.missing[r], DReports(r))
    BY DEF DUpdates
  <2>9. (DStat(r) \in {"remote", "finished"} <=> Loading(r)) /\ (DStat(r) \in {"new", "waiting"} <=> Fresh(r))
    BY DEF DStat, DHit, Loading, Fresh
  <2>10. CASE Loading(r) /\ r \notin over
    <3>1. Loading(r)' /\ ~ Fresh(r)'
      BY <2>8, <2>9, <2>10 DEF Loading, Fresh
    <3>2. \A k \in DRanks : LocalInv(k, r)'
      BY <1>1, <2>1, <2>5, <2>7, <2>10, <3>1 DEF LocalInv, Failing
    <3>3. A # {} /\ d.missing[r] = Cardinality(A)
      BY <2>1, <2>10 DEF CountInv
    <3> HIDE DEF A, D, A1
    <3>4. D # A
      <4>1. D = A => Cardinality(D) > 0 /\ Cardinality(D) = d.missing[r]
        BY <2>3, <3>3
      <4> QED BY <2>4, <2>8, <2>10, <4>1 DEF Done
    <3>5. A1 # {} /\ Cardinality(D) < Cardinality(A)
      <4>1. A1 # {}
        BY <2>2, <2>6, <3>4
      <4>2. Cardinality(D) # Cardinality(A)
        BY <2>3, <3>4
      <4> QED BY <2>3, <4>1, <4>2
    <3>6. d'.missing[r] = Cardinality(A) - Cardinality(D)
      BY <2>4, <2>8, <2>10, <3>3, <3>5 DEF Count
    <3>7. d'.missing[r] = Cardinality(A1)
      BY <2>3, <2>6, <3>6
    <3> QED BY <3>1, <3>2, <3>5, <3>7 DEF CountInv, A1
  <2>11. CASE Loading(r) /\ r \in over
    <3>1. ~ Loading(r)' /\ ~ Fresh(r)'
      BY <2>8, <2>11 DEF Loading, Fresh
    <3>2. D = A
      <4>1. d.missing[r] = Cardinality(A)
        BY <2>1, <2>11 DEF CountInv
      <4> HIDE DEF A, D
      <4> QED BY <2>3, <2>4, <2>8, <2>11, <4>1 DEF Done
    <3>3. \A k \in DRanks : ~ Here(k, Load(r)) /\ r \notin dr[k].local
      <4>1. A1 = {}
        BY <2>6, <3>2
      <4> QED BY <1>1, <1>2, <2>5, <4>1 DEF DAwait
    <3>4. \A k \in DRanks : LocalInv(k, r)'
      BY <1>1, <2>1, <2>5, <2>7, <3>1, <3>3 DEF LocalInv
    <3> QED BY <3>1, <3>4 DEF CountInv
  <2>12. CASE ~ Loading(r)
    <3>1. ~ Loading(r)' /\ (Fresh(r)' => Fresh(r))
      BY <2>8, <2>9, <2>12 DEF Loading, Fresh
    <3>2. \A k \in DRanks : LocalInv(k, r)'
      BY <1>1, <2>1, <2>5, <2>7, <2>12, <3>1 DEF LocalInv, Failing
    <3>3. ASSUME Fresh(r)' PROVE d'.missing[r] = ND
      <4>1. D = {}
        BY <2>1, <3>1, <3>3 DEF PlaceInv
      <4>2. DReports(r) = 0
        BY <2>3, <2>4, <4>1
      <4>3. d.missing[r] = ND /\ ND \in Nat \ {0}
        BY <2>1, <3>1, <3>3, ConfigSpec DEF CountInv, Shape
      <4>4. r \notin over
        BY <2>8, <4>2 DEF Done
      <4> QED BY <2>8, <4>2, <4>3, <4>4 DEF Count
    <3> QED BY <1>2, <3>1, <3>2, <3>3 DEF CountInv
  <2> QED BY <2>10, <2>11, <2>12
<1> QED BY <1>2, <1>3, <1>4 DEF DecodeInv
-----------------------------------------------------------------------------
(* The inductive invariant *)

HeldInv == Shape /\ PInv /\ ChannelInv /\ DecodeInv

\* Steps outside D's engine leave what D loads alone.
LEMMA DecodeKept ==
  ASSUME Shape, DecodeInv, UNCHANGED <<config, d, dr>>
  PROVE  DecodeInv'
<1>1. DRanks' = DRanks /\ OneOfSeveralFails' = OneOfSeveralFails
  BY Frozen
<1>2. \A k \in DRanks : StepsInv(k)'
  BY DEF StepsInv, DecodeInv
<1>3. ASSUME NEW x \in Reqs, NEW k \in DRanks PROVE LocalStays(k, x)
  BY DEF LocalStays, Loading, Here
<1>4. \A x \in Reqs : Fresh(x)' => Fresh(x)
  BY DEF Fresh
<1>5. ASSUME ~ OneOfSeveralFails, NEW x \in Reqs PROVE CountInv(x)' /\ \A k \in DRanks : LocalInv(k, x)'
  <2>1. CountInv(x) /\ \A k \in DRanks : LocalInv(k, x)
    BY <1>5 DEF DecodeInv
  <2> QED BY <1>3, <1>4, <2>1, DecodeSame
<1> QED BY <1>1, <1>2, <1>5 DEF DecodeInv

LEMMA HeldInit ==
  ASSUME Init
  PROVE  HeldInv
<1>1. /\ config \in Configs /\ p = PInit /\ d = DInit
      /\ pr = [t \in PRanks |-> [process |-> {}, send |-> {}, count |-> [r \in Reqs |-> 0]]]
      /\ dr = [k \in DRanks |-> WorkerInit] /\ notifs = [t \in PRanks |-> {}]
      /\ expired = {} /\ faults = 0
  BY DEF Init
<1>2. NP \in Nat \ {0} /\ ND \in Nat \ {0} /\ Known \in BOOLEAN /\ MaxBatches \in Nat \ {0} /\ MaxFaults \in Nat
  BY <1>1, ConfigSpec
<1>3. /\ p.status = [r \in Reqs |-> "new"] /\ p.told = {} /\ p.pend = NoMeta /\ p.batches = <<>>
      /\ p.missing = [r \in Reqs |-> NP] /\ p.error = FALSE
      /\ p.pend.in = {} /\ p.pend.not = {} /\ p.pend.send = {}
  BY <1>1 DEF PInit, NoMeta
<1>4. /\ d.status = [r \in Reqs |-> "new"] /\ d.need = {} /\ d.batch = NoBatch
      /\ d.bad = {} /\ d.used = {} /\ d.missing = [r \in Reqs |-> ND] /\ d.error = FALSE
      /\ d.batch.recv = {} /\ d.batch.left = {} /\ d.batch.invalid = {}
      /\ \A k \in DRanks : d.batch.done[k] = {}
  BY <1>1 DEF DInit, NoBatch
<1>5. \A k \in DRanks : /\ dr[k].pc = "idle" /\ dr[k].todo = {} /\ dr[k].meta = {} /\ dr[k].local = {}
                        /\ dr[k].agents = Known /\ dr[k].jobs = <<>> /\ dr[k].ready = <<>>
                        /\ dr[k].got = {} /\ dr[k].failed = {} /\ dr[k].invalid = {} /\ dr[k].done = {}
                        /\ \A r \in Reqs, t \in PRanks : dr[k].xfer[r][t] = "none"
  BY <1>1 DEF WorkerInit
<1>6. \A t \in PRanks : /\ pr[t].process = {} /\ pr[t].send = {} /\ notifs[t] = {}
                        /\ \A r \in Reqs : pr[t].count[r] = 0
  BY <1>1
<1>7. Shape
  <2>1. p \in PStates
    <3>1. NoMeta \in Metas /\ <<>> \in Seq(PBatches)
      BY DEF NoMeta, Metas
    <3> QED BY <1>1, <1>2, <3>1 DEF PInit, PStates, Statuses
  <2>2. d \in DStates
    <3>1. NoBatch \in DBatches
      BY DEF NoBatch, DBatches
    <3> QED BY <1>1, <1>2, <3>1 DEF DInit, DStates, Statuses
  <2>3. WorkerInit \in WorkerStates
    <3>1. <<>> \in Seq(JobStates) /\ <<>> \in Seq(Reqs)
      OBVIOUS
    <3> QED BY <1>2, <3>1 DEF WorkerInit, WorkerStates
  <2>4. pr \in [PRanks -> ProducerStates]
    BY <1>1 DEF ProducerStates
  <2>5. notifs \in [PRanks -> SUBSET Notes] /\ \A t \in PRanks : IsFiniteSet(notifs[t])
    BY <1>1, FS_EmptySet
  <2>6. config \in Configs /\ dr \in [DRanks -> WorkerStates] /\ expired \subseteq Reqs
        /\ faults \in Nat /\ faults <= MaxFaults
    BY <1>1, <1>2, <2>3
  <2> QED BY <2>1, <2>2, <2>4, <2>5, <2>6 DEF Shape
<1>8. PInv
  <2>1. \A t \in PRanks, r \in Reqs : ~ Reported(t, r) /\ ~ Queued(t, r) /\ About(t, r) = {}
    BY <1>3, <1>6 DEF Reported, Queued, About
  <2>2. \A r \in Reqs : ~ InSome(r) /\ ~ NotSome(r) /\ ~ SendSome(r)
    BY <1>3 DEF InSome, NotSome, SendSome
  <2>3. \A r \in Reqs : UntoldInv(r) /\ ToldInv(r) /\ RunningInv(r)
    BY <1>3, <1>4, <1>6, <2>1, <2>2 DEF UntoldInv, ToldInv, RunningInv
  <2>4. \A r \in Reqs, t \in PRanks : OnceInv(t, r)
    BY <1>3, <1>6 DEF OnceInv
  <2>5. StageInv /\ Len(p.batches) <= MaxBatches
    BY <1>2, <1>3 DEF StageInv
  <2>6. \A t \in PRanks, r \in Reqs : pr[t].count[r] < Consumers
    BY <1>1, <1>6, ReadersBound
  <2>7. \A r \in Reqs : p.missing[r] \in 1..NP
    BY <1>2, <1>3
  <2> QED BY <1>1, <1>3, <1>6, <2>3, <2>4, <2>5, <2>6, <2>7 DEF PInv
<1>9. /\ \A k \in DRanks, r \in Reqs : ~ Joins(dr[k], r) /\ ~ Ready(dr[k], r) /\ ~ Moves(dr[k], r)
                                       /\ ~ Reading(dr[k], r) /\ ~ Failing(dr[k], r)
      /\ \A r \in Reqs : ~ Asked({}, r) /\ Fresh(r) /\ ~ Loading(r)
      /\ \A k \in DRanks, r \in Reqs : ~ Sent(k, r)
  BY <1>4, <1>5 DEF Joins, Ready, Moves, Reading, Failing, Asked, Fresh, Loading, Sent, Range
<1>10. ChannelInv
  <2>1. Distinct({})
    BY DEF Distinct
  <2>2. \A k \in DRanks, r \in Reqs : PlaceInv(k, r)
    <3>1. \A k \in DRanks, r \in Reqs : Fresh(r) /\ ~ Asked(d.need, r) /\ ~ Sent(k, r) /\ ~ Asked(dr[k].todo, r)
      <4>1. \A r \in Reqs : ~ Asked(d.need, r)
        BY <1>4 DEF Asked
      <4>2. \A k \in DRanks, r \in Reqs : ~ Asked(dr[k].todo, r)
        BY <1>5 DEF Asked
      <4> QED BY <1>9, <4>1, <4>2
    <3>2. \A k \in DRanks, r \in Reqs : ~ Joins(dr[k], r) /\ ~ Ready(dr[k], r) /\ ~ Reading(dr[k], r)
                                        /\ ~ Moves(dr[k], r) /\ ~ Failing(dr[k], r) /\ r \notin d.batch.done[k]
      BY <1>4, <1>9
    <3> QED BY <3>1, <3>2 DEF PlaceInv
  <2>3. \A k \in DRanks : ThreadInv(dr[k])
    <3>1. IsInjective(<<>>)
      BY DEF IsInjective
    <3>2. \A k \in DRanks : JobsInv(dr[k])
      BY <1>5 DEF JobsInv
    <3> QED BY <1>5, <2>1, <3>1, <3>2 DEF ThreadInv
  <2>4. \A t \in PRanks, r \in Reqs : FlowInv(t, r)
    BY <1>3 DEF FlowInv
  <2> QED BY <1>4, <1>5, <2>1, <2>2, <2>3, <2>4 DEF ChannelInv
<1>11. DecodeInv
  <2>1. \A k \in DRanks : StepsInv(k)
    BY <1>4, <1>5 DEF StepsInv
  <2>2. \A k \in DRanks : \A y : ~ Here(k, y)
    BY <1>4, <1>5 DEF Here
  <2>3. \A k \in DRanks, r \in Reqs : LocalInv(k, r)
    BY <1>4, <1>5, <1>9, <2>2 DEF LocalInv
  <2>4. \A r \in Reqs : CountInv(r)
    BY <1>4, <1>9 DEF CountInv
  <2> QED BY <2>1, <2>3, <2>4 DEF DecodeInv
<1> QED BY <1>7, <1>8, <1>10, <1>11 DEF HeldInv

LEMMA HeldStutter ==
  ASSUME HeldInv, UNCHANGED vars
  PROVE  HeldInv'
<1>1. Shape /\ PInv /\ ChannelInv /\ DecodeInv /\ UNCHANGED <<config, p, pr, d, dr, notifs, expired, faults>>
  BY DEF HeldInv, vars
<1>2. Shape'
  BY <1>1, Frozen DEF Shape, ProducerStates
<1>3. PInv'
  <2>1. expired' \subseteq p.told
    BY <1>1 DEF PInv
  <2> QED BY <1>1, <2>1, PInvFresh DEF About
<1>4. ChannelInv'
  <2>1. \A t \in PRanks, r \in Reqs : SameProducer(t, r)
    BY <1>1 DEF SameProducer
  <2> QED BY <1>1, <1>2, <2>1, ChannelPrefill
<1>5. DecodeInv'
  BY <1>1, DecodeKept
<1> QED BY <1>2, <1>3, <1>4, <1>5 DEF HeldInv

LEMMA HeldPrefill ==
  ASSUME HeldInv,
         \/ PSchedule \/ PUpdate
         \/ \E r \in Reqs : PAdmit(r) \/ PAbort(r) \/ Expire(r)
         \/ \E t \in PRanks : PStart(t) \/ PFinish(t)
  PROVE  HeldInv'
<1>1. Shape /\ PInv /\ ChannelInv /\ DecodeInv
  BY DEF HeldInv
<1>2. Shape' /\ UNCHANGED <<config, d, dr>>
  BY <1>1, PScheduleSpec, PUpdateSpec, PAdmitSpec, PAbortSpec, ExpireSpec, PStartSpec, PFinishSpec
<1>3. PInv'
  <2>1. ASSUME NEW r \in Reqs, Expire(r) PROVE PInv'
    <3>1. UNCHANGED <<config, p, pr, d, notifs>> /\ expired' \subseteq p.told
      BY <1>1, <2>1, ExpireSpec DEF PInv
    <3> QED BY <1>1, <3>1, PInvFresh DEF About
  <2> QED BY <1>1, <2>1, PInvSchedule, PInvUpdate, PInvAdmit, PInvAbort, PInvStart, PInvFinish
<1>4. ChannelInv'
  BY <1>1, ChannelPrefillOther, ChannelPUpdate, ChannelPStart, ChannelPFinish
<1>5. DecodeInv'
  BY <1>1, <1>2, DecodeKept
<1> QED BY <1>2, <1>3, <1>4, <1>5 DEF HeldInv

LEMMA HeldScheduler ==
  ASSUME HeldInv,
         DSchedule \/ DUpdate \/ \E r \in Reqs : DArrive(r) \/ DAdmit(r) \/ DAbort(r)
  PROVE  HeldInv'
<1>1. Shape /\ PInv /\ ChannelInv /\ DecodeInv
  BY DEF HeldInv
<1>2. Shape'
  BY <1>1, DScheduleSpec, DUpdateSpec, DArriveSpec, DAdmitSpec, DAbortSpec
<1>3. PInv'
  BY <1>1, PInvScheduler
<1>4. ChannelInv'
  BY <1>1, ChannelDSchedule, ChannelDUpdate, ChannelDArrive, ChannelDAdmit, ChannelDAbort
<1>5. DecodeInv'
  BY <1>1, DecodeDSchedule, DecodeDUpdate, DecodeArrive, DecodeAdmit
<1> QED BY <1>2, <1>3, <1>4, <1>5 DEF HeldInv

LEMMA HeldWorker ==
  ASSUME HeldInv, NEW k \in DRanks,
         DStart(k) \/ DLoad(k) \/ DReady(k) \/ TakeDone(k) \/ Report(k)
  PROVE  HeldInv'
<1>1. Shape /\ PInv /\ ChannelInv /\ DecodeInv /\ JobsInv(dr[k])
  BY DEF HeldInv, ChannelInv, ThreadInv
<1>2. Shape'
  BY <1>1, DStartSpec, DLoadSpec, DReadySpec, TakeDoneSpec, ReportSpec
<1>3. PInv'
  BY <1>1, PInvWorker
<1>4. ChannelInv'
  BY <1>1, ChannelDStart, ChannelDLoad, ChannelDReady, ChannelTakeDone, ChannelReport
<1>5. DecodeInv'
  BY <1>1, DecodeDStart, DecodeDLoad, DecodeDReady, DecodeTakeDone, DecodeReport
<1> QED BY <1>2, <1>3, <1>4, <1>5 DEF HeldInv

LEMMA HeldReads ==
  ASSUME HeldInv, NEW k \in DRanks,
         \/ DoneCallback(k) \/ RequestReady(k) \/ \E ok \in BOOLEAN : HandshakeEnds(k, ok)
         \/ \E r \in Reqs, t \in PRanks : ReadEnds(k, r, t) \/ ReadFails(k, r, t)
  PROVE  HeldInv'
<1>1. Shape /\ PInv /\ ChannelInv /\ DecodeInv /\ JobsInv(dr[k])
  BY DEF HeldInv, ChannelInv, ThreadInv
<1>2. Shape'
  BY <1>1, DoneCallbackSpec, RequestReadySpec, HandshakeEndsSpec, ReadEndsSpec, ReadFailsSpec
<1>3. PInv'
  BY <1>1, PInvReads
<1>4. ChannelInv'
  BY <1>1, ChannelHandshake, ChannelRequestReady, ChannelReadEnds, ChannelReadFails
<1>5. DecodeInv'
  BY <1>1, DecodeHandshake, DecodeRequestReady
<1> QED BY <1>2, <1>3, <1>4, <1>5 DEF HeldInv

LEMMA HeldNext ==
  ASSUME HeldInv, [Next]_vars
  PROVE  HeldInv'
BY HeldStutter, HeldPrefill, HeldScheduler, HeldWorker, HeldReads DEF Next, Rest

\* P holds the blocks of every read of a request that has not expired, and D those it writes to.
LEMMA HeldReadsKept ==
  ASSUME HeldInv
  PROVE  ReadsKeepTheirBlocks
<1>1. Shape /\ PInv /\ ChannelInv /\ DecodeInv
  BY DEF HeldInv
<1>2. ReadsHeldBlocks
  <2>1. SUFFICES ASSUME NEW k \in DRanks, NEW r \in Reqs \ expired, NEW t \in PRanks, dr[k].xfer[r][t] = "proc"
                 PROVE  p.status[r] = "finished"
    BY DEF ReadsHeldBlocks
  <2>2. k \in Owing(t, r)
    BY <1>1, <2>1 DEF ChannelInv, Owing, Readers, Owed
  <2>3. r \in p.told
    <3>1. PlaceInv(k, r) /\ Moves(dr[k], r)
      BY <1>1, <2>1 DEF ChannelInv, Moves
    <3>2. d.status[r] # "new"
      BY <3>1 DEF PlaceInv, Fresh
    <3> QED BY <1>1, <3>2 DEF PInv, UntoldInv
  <2>4. r \in pr[t].process
    BY <1>1, <2>2, <2>3 DEF ChannelInv, FlowInv
  <2>5. PAwait(r) # {}
    BY <2>4 DEF PAwait
  <2> QED BY <1>1, <2>3, <2>5 DEF PInv, ToldInv
<1>3. ReadsIntoHeldBlocks
  <2>1. SUFFICES ASSUME ~ OneOfSeveralFails, NEW k \in DRanks, NEW r \in Reqs, NEW t \in PRanks,
                        dr[k].xfer[r][t] = "proc"
                 PROVE  d.status[r] \in {"remote", "finished"}
    BY DEF ReadsIntoHeldBlocks
  <2>2. LocalInv(k, r) /\ Moves(dr[k], r)
    BY <1>1, <2>1 DEF DecodeInv, Moves
  <2> QED BY <2>2 DEF LocalInv, Loading
<1> QED BY <1>2, <1>3 DEF ReadsKeepTheirBlocks

\* The blocks of a request are kept at both ends of its reads. A worker of the prefill engine frees
\* them (get_finished) only when it has counted one notification of each consumer or the timeout has
\* passed, and no worker notifies before its read is over (_pop_done_transfers); the decode engine
\* frees them only when every worker has reported the request, and a worker reports it when none of
\* its transfers runs. The second half presupposes, in the property itself, that a worker with
\* several reads sets up all of them.
THEOREM BlocksKeptForReads == Spec => []ReadsKeepTheirBlocks
<1>1. Init => HeldInv
  BY HeldInit
<1>2. HeldInv /\ [Next]_vars => HeldInv'
  BY HeldNext
<1>3. HeldInv => ReadsKeepTheirBlocks
  BY HeldReadsKept
<1> QED BY <1>1, <1>2, <1>3, PTL DEF Spec
-----------------------------------------------------------------------------
(* Reports: what a worker has of a request it has because D waits for it *)

LEMMA SoundWorker ==
  ASSUME Shape, Shape', SoundInv, config' = config, NEW k \in DRanks, OneWorker(k), OthersSame(k),
         d'.missing = d.missing,
         ~ OneOfSeveralFails /\ Joinable => ~ d'.error /\ CalmInv(k)'
  PROVE  SoundInv'
<1>1. /\ DRanks' = DRanks /\ ND' = ND /\ OneOfSeveralFails' = OneOfSeveralFails
      /\ Joinable' = Joinable /\ Known' = Known /\ Hits' = Hits
  BY Frozen
<1>2. \A r \in Reqs : Loading(r)' <=> Loading(r)
  BY DEF OthersSame, Loading
<1>3. ASSUME NEW l \in DRanks \ {k}, CalmInv(l) PROVE CalmInv(l)'
  <2>1. dr'[l] = dr[l] /\ d'.batch.done[l] = d.batch.done[l]
    BY DEF OneWorker, OthersSame
  <2>2. \A y : Here(l, y)' <=> Here(l, y)
    BY <2>1 DEF Here, OthersSame
  <2>3. \A r \in Reqs : Busy(l, r)' <=> Busy(l, r)
    BY <2>1 DEF Busy
  <2> QED BY <1>1, <1>2, <1>3, <2>1, <2>2, <2>3 DEF CalmInv
<1> QED BY <1>1, <1>2, <1>3 DEF SoundInv

\* Worker k gets nothing of a request that D does not wait for.
CalmStays(k) ==
  /\ \A x \in Reqs : /\ Loading(x)' <=> Loading(x)
                     /\ Busy(k, x)' => Busy(k, x) \/ Loading(x)
                     /\ Here(k, Note(x))' => Here(k, Note(x))
  /\ dr[k].agents /\ dr[k].jobs = <<>> /\ dr[k].ready = <<>> =>
       dr'[k].agents /\ dr'[k].jobs = <<>> /\ dr'[k].ready = <<>>

LEMMA CalmKept ==
  ASSUME config' = config, NEW k \in DRanks, CalmInv(k), CalmStays(k)
  PROVE  CalmInv(k)'
BY Frozen DEF CalmInv, CalmStays

LEMMA SoundStays ==
  ASSUME Shape, Shape', SoundInv, config' = config, NEW k \in DRanks, OneWorker(k), OthersSame(k),
         d'.missing = d.missing,
         ~ OneOfSeveralFails /\ Joinable => (d'.error => d.error) /\ CalmStays(k)
  PROVE  SoundInv'
<1>1. ~ OneOfSeveralFails /\ Joinable => ~ d'.error /\ CalmInv(k)'
  BY CalmKept DEF SoundInv
<1> QED BY <1>1, SoundWorker

LEMMA SoundDStart ==
  ASSUME Shape, SoundInv, NEW k \in DRanks, DStart(k)
  PROVE  SoundInv'
<1>1. /\ Shape' /\ UNCHANGED <<config, p, pr, notifs, expired>>
      /\ k \in d.batch.left /\ OneWorker(k)
      /\ dr'[k] = [dr[k] EXCEPT !.pc = "load", !.todo = d.batch.recv]
      /\ d'.need = d.need /\ d'.status = d.status /\ d'.missing = d.missing /\ d'.error = d.error
      /\ d'.batch.recv = d.batch.recv /\ d'.batch.left = d.batch.left \ {k}
      /\ d'.batch.done = d.batch.done
  BY DStartSpec
<1>2. /\ dr'[k].todo = d.batch.recv /\ dr'[k].jobs = dr[k].jobs /\ dr'[k].ready = dr[k].ready
      /\ dr'[k].failed = dr[k].failed /\ dr'[k].done = dr[k].done /\ dr'[k].agents = dr[k].agents
  BY <1>1 DEF Shape, WorkerStates
<1>3. \A y : Here(k, y)' => Here(k, y)
  BY <1>1, <1>2 DEF Here
<1>4. \A x \in Reqs : Busy(k, x)' <=> Busy(k, x)
  BY <1>1, <1>2 DEF Busy, Joins, Ready, Failing
<1>5. CalmStays(k) /\ OthersSame(k)
  BY <1>1, <1>2, <1>3, <1>4 DEF CalmStays, OthersSame, Loading
<1> QED BY <1>1, <1>5, SoundStays

\* A step of the background thread, or of a read.
LEMMA SoundHandshake ==
  ASSUME Shape, SoundInv, NEW k \in DRanks,
         \/ DoneCallback(k) \/ \E ok \in BOOLEAN : HandshakeEnds(k, ok)
         \/ \E r \in Reqs, t \in PRanks : ReadEnds(k, r, t) \/ ReadFails(k, r, t)
  PROVE  SoundInv'
<1>1. /\ Shape' /\ OneWorker(k) /\ UNCHANGED <<config, d>>
      /\ dr'[k].todo = dr[k].todo /\ dr'[k].ready = dr[k].ready
      /\ dr'[k].failed = dr[k].failed /\ dr'[k].done = dr[k].done
      /\ \A x \in Reqs : Joins(dr'[k], x) <=> Joins(dr[k], x)
      /\ \/ dr[k].jobs # <<>>
         \/ dr'[k].agents = dr[k].agents /\ dr'[k].jobs = dr[k].jobs
  <2>1. CASE DoneCallback(k) \/ \E ok \in BOOLEAN : HandshakeEnds(k, ok)
    BY <2>1, DoneCallbackSpec, HandshakeEndsSpec DEF SameButJobs, JobsSame
  <2>2. CASE \E r \in Reqs, t \in PRanks : ReadEnds(k, r, t) \/ ReadFails(k, r, t)
    BY <2>2, ReadEndsSpec, ReadFailsSpec DEF SameButReads, Joins
  <2> QED BY <2>1, <2>2
<1>2. \A y : Here(k, y)' <=> Here(k, y)
  BY <1>1 DEF Here
<1>3. \A x \in Reqs : Busy(k, x)' <=> Busy(k, x)
  BY <1>1 DEF Busy, Ready, Failing
<1>4. CalmStays(k) /\ OthersSame(k)
  BY <1>1, <1>2, <1>3 DEF CalmStays, OthersSame, Loading
<1> QED BY <1>1, <1>4, SoundStays

LEMMA SoundRequestReady ==
  ASSUME Shape, ChannelInv, SoundInv, NEW k \in DRanks, RequestReady(k)
  PROVE  SoundInv'
<1> DEFINE v == dr'[k]
           w == dr[k]
<1>1. JobsInv(w) /\ w \in WorkerStates /\ w.ready \in Seq(Reqs)
  BY DEF ChannelInv, ThreadInv, Shape, WorkerStates
<1>2. /\ Shape' /\ OneWorker(k) /\ UNCHANGED <<config, p, pr, d, notifs, expired>> /\ SameReads(v, w)
      /\ w.jobs # <<>>
  BY <1>1, RequestReadySpec
<1> PICK r \in Reqs : Joins(w, r) /\ RequestReadies(v, w, r)
  BY <1>1, RequestReadySpec
<1>3. v.todo = w.todo /\ v.done = w.done
  BY <1>2 DEF SameReads
<1>4. \A y : Here(k, y)' <=> Here(k, y)
  BY <1>2, <1>3 DEF Here
<1>5. ASSUME NEW x \in Reqs PROVE Busy(k, x)' => Busy(k, x)
  <2>1. /\ Joins(v, x) => Joins(w, x)
        /\ x \in v.failed => x \in w.failed \/ x = r
    BY DEF RequestReadies, CallbackDone
  <2>2. Ready(v, x) => Ready(w, x) \/ x = r
    <3>1. CASE v.ready = Append(w.ready, r)
      BY <1>1, <3>1, AppendRange DEF Ready
    <3>2. CASE v.ready = w.ready
      BY <3>2 DEF Ready
    <3> QED BY <3>1, <3>2 DEF RequestReadies
  <2> QED BY <1>2, <1>3, <2>1, <2>2 DEF Busy, Failing
<1>6. CalmStays(k) /\ OthersSame(k)
  BY <1>2, <1>4, <1>5 DEF CalmStays, OthersSame, Loading
<1> QED BY <1>2, <1>6, SoundStays

LEMMA SoundTakeDone ==
  ASSUME Shape, DecodeInv, SoundInv, NEW k \in DRanks, TakeDone(k)
  PROVE  SoundInv'
<1> DEFINE v == dr'[k]
           w == dr[k]
<1>1. /\ Shape' /\ OneWorker(k) /\ UNCHANGED <<config, p, pr, d, notifs, expired>> /\ Takes(v, w)
  BY TakeDoneSpec
<1>2. /\ v.todo = w.todo /\ v.jobs = w.jobs /\ v.ready = w.ready /\ v.agents = w.agents
      /\ v.failed = w.failed /\ v.done = Popped(w) \cup w.failed
  BY <1>1 DEF Takes
<1>3. \A y : Here(k, y)' <=> Here(k, y)
  BY <1>1, <1>2 DEF Here
<1>4. ASSUME ~ OneOfSeveralFails, NEW x \in Reqs PROVE Busy(k, x)' => Busy(k, x) \/ Loading(x)
  <2>1. LocalInv(k, x)
    BY <1>4 DEF DecodeInv
  <2>2. x \in Popped(w) => Moves(w, x)
    BY DEF Popped, Has, Moves
  <2>3. x \in Popped(w) => Loading(x)
    BY <2>1, <2>2 DEF LocalInv
  <2> QED BY <1>1, <1>2, <2>3 DEF Busy, Joins, Ready, Failing
<1>5. OthersSame(k)
  BY <1>1 DEF OthersSame
<1>6. ~ OneOfSeveralFails => CalmStays(k)
  BY <1>1, <1>2, <1>3, <1>4 DEF CalmStays, Loading
<1> QED BY <1>1, <1>5, <1>6, SoundStays

LEMMA SoundReport ==
  ASSUME Shape, DecodeInv, SoundInv, NEW k \in DRanks, Report(k)
  PROVE  SoundInv'
<1> DEFINE v == dr'[k]
           w == dr[k]
<1>1. /\ Shape' /\ OneWorker(k) /\ config' = config /\ Reporting(v, w)
      /\ d'.need = d.need /\ d'.status = d.status /\ d'.missing = d.missing
      /\ d'.error = (d.error \/ ~ w.done \subseteq w.meta)
      /\ d'.batch.recv = d.batch.recv /\ d'.batch.left = d.batch.left
      /\ d'.batch.done[k] = w.done
      /\ \A l \in DRanks \ {k} : d'.batch.done[l] = d.batch.done[l]
  BY ReportSpec
<1>2. /\ v.todo = w.todo /\ v.jobs = w.jobs /\ v.ready = w.ready /\ v.agents = w.agents
      /\ v.failed = {} /\ v.done = {}
  BY <1>1 DEF Reporting
<1>3. \A y : Here(k, y)' <=> Here(k, y)
  BY <1>1, <1>2 DEF Here
<1>4. \A x \in Reqs : Busy(k, x)' => Busy(k, x)
  BY <1>1, <1>2 DEF Busy, Joins, Ready, Failing
<1>5. CalmStays(k) /\ OthersSame(k)
  BY <1>1, <1>2, <1>3, <1>4 DEF CalmStays, OthersSame, Loading
<1>6. ASSUME ~ OneOfSeveralFails /\ Joinable PROVE w.done \subseteq w.meta
  <2>1. w.local \subseteq w.meta /\ w.done \subseteq Reqs
    BY DEF DecodeInv, StepsInv, Shape, WorkerStates
  <2>2. ASSUME NEW x \in w.done PROVE x \in w.local
    <3>1. x \in Reqs /\ Failing(w, x) /\ Busy(k, x)
      BY <2>1, <2>2 DEF Failing, Busy
    <3>2. Loading(x) /\ LocalInv(k, x)
      BY <1>6, <3>1 DEF SoundInv, CalmInv, DecodeInv
    <3> QED BY <3>1, <3>2 DEF LocalInv
  <2> QED BY <2>1, <2>2
<1> QED BY <1>1, <1>5, <1>6, SoundStays

LEMMA SoundDLoad ==
  ASSUME Shape, ChannelInv, DecodeInv, SoundInv, NEW k \in DRanks, DLoad(k)
  PROVE  SoundInv'
<1>1. JobsInv(dr[k]) /\ dr[k] \in WorkerStates
  BY DEF ChannelInv, ThreadInv, Shape
<1>2. Shape' /\ OneWorker(k) /\ UNCHANGED <<config, p, pr, expired>>
  BY <1>1, DLoadSpec
<1>3. PICK m \in dr[k].todo : \/ dr[k].agents /\ LoadStep(k, Taken(dr[k], m), m.req)
                              \/ ~ dr[k].agents /\ JoinStep(k, Taken(dr[k], m), m.req)
  BY <1>1, DLoadSpec
<1> DEFINE v == dr'[k]
           w == Taken(dr[k], m)
           r == m.req
<1>4. /\ m \in Loads /\ w.todo = dr[k].todo \ {m} /\ w.agents = dr[k].agents
      /\ w.local = IF m.local THEN dr[k].local \cup {r} ELSE dr[k].local
      /\ w.jobs = dr[k].jobs /\ w.ready = dr[k].ready /\ w.failed = dr[k].failed /\ w.done = dr[k].done
  BY <1>1, TakenSpec
<1>11. dr[k].ready \in Seq(Reqs)
  BY <1>1 DEF WorkerStates
<1> HIDE DEF w
<1>5. r \in Reqs /\ m = IF m.local THEN Load(r) ELSE Note(r)
  BY <1>4, LoadsSpec DEF Loads
<1> HIDE DEF r
<1>6. Here(k, m)
  BY DEF Here
<1>7. OthersSame(k) /\ d'.missing = d.missing /\ d'.need = d.need /\ d'.status = d.status /\ d'.batch = d.batch
  BY <1>3 DEF LoadStep, JoinStep, ReadsBegin, NotesSent, DKept, OthersSame, w, r
<1>8. v.todo = w.todo /\ v.done = w.done
  BY <1>3 DEF LoadStep, JoinStep, ReadsBegin, NotesSent, Alike, SameReads, w, r
<1>9. \A y : Here(k, y)' => Here(k, y)
  BY <1>4, <1>7, <1>8 DEF Here
<1>10. ASSUME ~ OneOfSeveralFails /\ Joinable PROVE (d'.error => d.error) /\ CalmStays(k)
  <2>1. LocalInv(k, r) /\ CalmInv(k)
    BY <1>5, <1>10 DEF DecodeInv, SoundInv
  <2>2. r \in w.local => Loading(r)
    BY <1>4, <1>5, <1>6, <2>1 DEF LocalInv
  <2>3. CASE dr[k].agents /\ LoadStep(k, w, r)
    <3>1. CASE NotesSent(k, w, r)
      <4>1. v = w /\ (d'.error => d.error)
        BY <1>4, <2>3, <3>1 DEF NotesSent
      <4>2. \A x \in Reqs : Busy(k, x)' <=> Busy(k, x)
        BY <1>4, <1>7, <4>1 DEF Busy, Joins, Ready, Failing
      <4> QED BY <1>4, <1>7, <1>9, <4>1, <4>2 DEF CalmStays, Loading
    <3>2. CASE \E bad \in SUBSET Reads(k) : ReadsBegin(k, w, r, bad)
      <4>1. /\ d' = d /\ v.jobs = w.jobs /\ v.ready = w.ready /\ v.agents = w.agents /\ r \in w.local
            /\ v.failed \subseteq w.failed \cup {r}
        BY <3>2 DEF ReadsBegin, Alike
      <4>2. \A x \in Reqs : Busy(k, x)' => Busy(k, x) \/ x = r
        BY <1>4, <1>8, <4>1 DEF Busy, Joins, Ready, Failing
      <4> QED BY <1>4, <1>7, <1>9, <2>2, <4>1, <4>2 DEF CalmStays, Loading
    <3> QED BY <2>3, <3>1, <3>2 DEF LoadStep
  <2>4. CASE ~ dr[k].agents /\ JoinStep(k, w, r)
    <3>1. Hits = {}
      BY <1>10, <2>1, <2>4 DEF Joinable, CalmInv
    <3>2. Loading(r)
      BY <1>5, <1>6, <2>1, <3>1 DEF CalmInv, LocalInv
    <3>3. ASSUME NEW x \in Reqs, x # r PROVE Busy(k, x)' => Busy(k, x)
      <4>1. Joins(v, x) => Joins(w, x)
        BY <2>4, <3>3 DEF JoinStep, JoinsAdded, ReadyAdded, FailedAdded, Joins
      <4>2. Ready(v, x) => Ready(w, x)
        <5>1. CASE v.ready = w.ready
          BY <5>1 DEF Ready
        <5>2. CASE v.ready = Append(w.ready, r)
          BY <1>4, <1>5, <1>11, <3>3, <5>2, AppendRange DEF Ready
        <5> QED BY <2>4, <5>1, <5>2 DEF JoinStep, JoinsAdded, ReadyAdded, FailedAdded
      <4>3. v.failed \subseteq w.failed \cup {r}
        BY <2>4 DEF JoinStep, JoinsAdded, ReadyAdded, FailedAdded
      <4>4. (Joins(w, x) <=> Joins(dr[k], x)) /\ (Ready(w, x) <=> Ready(dr[k], x))
        BY <1>4 DEF Joins, Ready
      <4> QED BY <1>4, <1>7, <1>8, <3>3, <4>1, <4>2, <4>3, <4>4 DEF Busy, Failing
    <3>4. d' = d
      BY <2>4 DEF JoinStep
    <3> QED BY <1>9, <2>4, <3>2, <3>3, <3>4 DEF CalmStays, Loading
  <2> QED BY <1>3, <2>3, <2>4 DEF w, r
<1> QED BY <1>2, <1>7, <1>10, SoundStays

LEMMA SoundDReady ==
  ASSUME Shape, ChannelInv, DecodeInv, SoundInv, NEW k \in DRanks, DReady(k)
  PROVE  SoundInv'
<1> DEFINE v == dr'[k]
           w == Rested(dr[k])
           r == Head(dr[k].ready)
<1>1. /\ Shape' /\ OneWorker(k) /\ UNCHANGED <<config, p, pr, expired>>
      /\ dr[k].ready # <<>> /\ r \in Reqs
      /\ SameReads(w, dr[k]) /\ w.ready = Tail(dr[k].ready) /\ w.jobs = dr[k].jobs
      /\ w.failed = dr[k].failed /\ LoadStep(k, w, r)
  BY DReadySpec
<1>2. dr[k].ready \in Seq(Reqs) /\ IsInjective(dr[k].ready)
  BY DEF Shape, WorkerStates, ChannelInv, ThreadInv
<1>3. Range(Tail(dr[k].ready)) = Range(dr[k].ready) \ {r} /\ r \in Range(dr[k].ready)
  BY <1>1, <1>2, TailRange
<1> HIDE DEF w, r
<1>4. w.todo = dr[k].todo /\ w.done = dr[k].done /\ w.local = dr[k].local
  BY <1>1 DEF SameReads
<1>5. OthersSame(k) /\ d'.missing = d.missing /\ d'.need = d.need /\ d'.status = d.status /\ d'.batch = d.batch
  BY <1>1 DEF LoadStep, ReadsBegin, NotesSent, DKept, OthersSame
<1>6. ASSUME ~ OneOfSeveralFails /\ Joinable PROVE (d'.error => d.error) /\ CalmStays(k)
  <2>1. Busy(k, r) /\ CalmInv(k) /\ LocalInv(k, r)
    BY <1>1, <1>3, <1>6 DEF Busy, Ready, SoundInv, DecodeInv
  <2>2. Loading(r) /\ r \in w.local
    BY <1>1, <1>3, <1>4, <2>1 DEF CalmInv, LocalInv, Ready
  <2>3. PICK bad \in SUBSET Reads(k) : ReadsBegin(k, w, r, bad)
    BY <1>1, <2>2 DEF LoadStep, NotesSent
  <2>4. /\ d' = d /\ v.jobs = w.jobs /\ v.ready = w.ready /\ v.todo = w.todo /\ v.done = w.done
        /\ v.failed \subseteq w.failed \cup {r}
    BY <2>3 DEF ReadsBegin, Alike
  <2>5. \A x \in Reqs : Busy(k, x)' => Busy(k, x) \/ x = r
    BY <1>1, <1>3, <1>4, <2>4 DEF Busy, Joins, Ready, Failing
  <2>6. \A y : Here(k, y)' => Here(k, y)
    BY <1>4, <2>4 DEF Here
  <2> QED BY <1>1, <2>2, <2>4, <2>5, <2>6 DEF CalmStays, Loading
<1> QED BY <1>1, <1>5, <1>6, SoundStays

\* The scheduler of D: a request is put on the list.
LEMMA SoundListed ==
  ASSUME Shape, ChannelInv, DecodeInv, SoundInv, UNCHANGED <<config, dr>>, DOther,
         NEW r \in Reqs, NEW x \in Loads, x.req = r,
         d.status[r] = "waiting", d'.need = d.need \cup {x},
         x = Note(r) => Hits # {} /\ ~ Loading(r)', x # Note(r) => Loading(r)',
         \A y \in Reqs \ {r} : d'.status[y] = d.status[y]
  PROVE  SoundInv'
<1>1. /\ DRanks' = DRanks /\ ND' = ND /\ OneOfSeveralFails' = OneOfSeveralFails
      /\ Joinable' = Joinable /\ Known' = Known /\ Hits' = Hits
  BY Frozen
<1>2. ~ Loading(r) /\ Fresh(r)
  BY DEF Loading, Fresh
<1>3. \A y \in Reqs \ {r} : Loading(y)' <=> Loading(y)
  BY DEF Loading
<1>4. ASSUME NEW k \in DRanks, CalmInv(k) PROVE CalmInv(k)'
  <2>1. \A y \in Reqs : Busy(k, y)' <=> Busy(k, y)
    BY DEF DOther, Busy
  <2>2. ~ Busy(k, r)
    BY <1>2, <1>4 DEF CalmInv
  <2>3. \A y \in Loads : Here(k, y)' => Here(k, y) \/ y = x
    BY DEF DOther, Here
  <2>4. \A y \in Reqs : Note(y) \in Loads
    BY LoadsSpec
  <2>5. \A y \in Reqs : x = Note(y) => Hits # {}
    <3>1. \A y \in Reqs : Note(y).req = y
      BY LoadsSpec
    <3> QED BY <3>1
  <2> QED BY <1>1, <1>3, <1>4, <2>1, <2>2, <2>3, <2>4, <2>5 DEF CalmInv
<1> QED BY <1>1, <1>2, <1>3, <1>4 DEF SoundInv, DOther

LEMMA SoundArrive ==
  ASSUME Shape, ChannelInv, DecodeInv, SoundInv,
         \E r \in Reqs : DArrive(r) \/ DAdmit(r) \/ DAbort(r)
  PROVE  SoundInv'
<1> PICK r \in Reqs : DArrive(r) \/ DAdmit(r) \/ DAbort(r)
  OBVIOUS
<1>1. UNCHANGED <<config, dr>> /\ DOther
  BY DArriveSpec, DAdmitSpec, DAbortSpec
<1>2. d.status \in [Reqs -> Statuses] /\ Load(r) \in Loads /\ Note(r) \in Loads
      /\ Load(r).req = r /\ Note(r).req = r /\ Load(r) # Note(r)
  BY LoadsSpec DEF Shape, DStates
<1>3. CASE /\ d.status[r] = "waiting" /\ d'.status = [d.status EXCEPT ![r] = "remote"]
           /\ d'.need = d.need \cup {Load(r)}
  <2>1. Loading(r)' /\ \A y \in Reqs \ {r} : d'.status[y] = d.status[y]
    BY <1>2, <1>3 DEF Loading
  <2> QED BY <1>1, <1>2, <1>3, <2>1, SoundListed
<1>4. CASE /\ d.status[r] = "waiting" /\ r \in Hits /\ d'.need = d.need \cup {Note(r)}
           /\ \/ d'.status = [d.status EXCEPT ![r] = "running"]
              \/ d'.status = [d.status EXCEPT ![r] = "gone"]
  <2>1. ~ Loading(r)' /\ \A y \in Reqs \ {r} : d'.status[y] = d.status[y]
    BY <1>2, <1>4 DEF Loading
  <2> QED BY <1>1, <1>2, <1>4, <2>1, SoundListed
<1>5. CASE /\ d'.need = d.need
           /\ \/ d.status[r] = "new" /\ d'.status = [d.status EXCEPT ![r] = "waiting"]
              \/ d.status[r] = "remote" /\ d'.status = [d.status EXCEPT ![r] = "finished"]
  <2>1. \A y \in Reqs : Loading(y)' <=> Loading(y)
    BY <1>2, <1>5 DEF Loading
  <2>2. \A k \in DRanks : \A y : Here(k, y)' <=> Here(k, y)
    BY <1>1, <1>5 DEF Here, DOther
  <2>3. \A k \in DRanks : \A y \in Reqs : Busy(k, y)' <=> Busy(k, y)
    BY <1>1 DEF Busy, DOther
  <2>4. \A k \in DRanks : CalmInv(k) => CalmInv(k)'
    BY <1>1, <2>1, <2>2, <2>3, Frozen DEF CalmInv
  <2> QED BY <1>1, <2>1, <2>4, Frozen DEF SoundInv, DOther
<1> QED BY <1>3, <1>4, <1>5, DArriveSpec, DAdmitSpec, DAbortSpec

LEMMA SoundDSchedule ==
  ASSUME Shape, SoundInv, DSchedule
  PROVE  SoundInv'
<1>1. /\ UNCHANGED <<config, dr>>
      /\ \A k \in DRanks : d.batch.done[k] = {} /\ d'.batch.done[k] = {}
      /\ d'.batch.recv = d.need /\ d'.need = {}
      /\ d'.status = d.status /\ d'.missing = d.missing /\ d'.error = d.error
  BY DScheduleSpec
<1>2. \A y \in Reqs : Loading(y)' <=> Loading(y)
  BY <1>1 DEF Loading
<1>3. \A k \in DRanks : \A y : Here(k, y)' => Here(k, y)
  BY <1>1 DEF Here
<1>4. \A k \in DRanks : \A y \in Reqs : Busy(k, y)' <=> Busy(k, y)
  BY <1>1 DEF Busy
<1>5. \A k \in DRanks : CalmInv(k) => CalmInv(k)'
  BY <1>1, <1>2, <1>3, <1>4, Frozen DEF CalmInv
<1> QED BY <1>1, <1>2, <1>5, Frozen DEF SoundInv

LEMMA SoundDUpdate ==
  ASSUME Shape, ChannelInv, DecodeInv, SoundInv, DUpdate
  PROVE  SoundInv'
<1>1. /\ Shape' /\ UNCHANGED <<config, dr>>
      /\ d'.need = d.need /\ d'.batch.left = {} /\ \A k \in DRanks : d'.batch.done[k] = {}
      /\ d.batch.left = {} /\ \A r \in Reqs : DReports(r) \in Nat
  BY DUpdateSpec
<1> PICK over : DUpdates(over)
  BY DUpdateSpec
<1>2. DRanks' = DRanks /\ OneOfSeveralFails' = OneOfSeveralFails /\ ND' = ND
      /\ Joinable' = Joinable /\ Known' = Known /\ Hits' = Hits
  BY <1>1, Frozen
<1>3. ASSUME ~ OneOfSeveralFails, Joinable PROVE SoundInv'
  <2>1. DecodeInv'
    BY DecodeDUpdate
  <2>2. ASSUME NEW r \in Reqs
        PROVE  /\ r \in over => DStat(r) \in {"remote", "finished"}
               /\ ~ Loading(r)' => d'.missing[r] = ND /\ \A k \in DRanks : ~ Busy(k, r)'
    <3> DEFINE D == {k \in DRanks : r \in d.batch.done[k]}
    <3>1. /\ \A k \in DRanks : CalmInv(k) /\ LocalInv(k, r) /\ LocalInv(k, r)'
          /\ ~ Loading(r) => d.missing[r] = ND
      BY <1>2, <1>3, <2>1 DEF DecodeInv, SoundInv
    <3>2. DReports(r) = Cardinality(D) /\ IsFiniteSet(D) /\ (DReports(r) = 0 <=> D = {})
      <4>1. IsFiniteSet(D)
        BY RanksFinite, FS_Subset DEF Shape
      <4> QED BY <4>1, FS_EmptySet DEF DReports
    <3>3. (DStat(r) \in {"remote", "finished"} <=> Loading(r))
      BY DEF DStat, DHit, Loading
    <3>4. /\ d'.missing[r] = IF r \in over THEN ND ELSE Count(d.missing[r], DReports(r))
          /\ d'.status[r] = IF r \notin over THEN DStat(r) ELSE IF DStat(r) = "remote" THEN "running" ELSE "gone"
          /\ r \in over => DReports(r) > 0
      BY DEF DUpdates, Done
    <3>5. D # {} => Loading(r)
      BY <3>1 DEF CalmInv, Busy
    <3>6. r \in over => DStat(r) \in {"remote", "finished"}
      BY <3>2, <3>3, <3>4, <3>5
    <3>7. ASSUME ~ Loading(r)' PROVE d'.missing[r] = ND
      <4>1. CASE r \in over
        BY <3>4, <4>1
      <4>2. CASE r \notin over
        <5>1. ~ Loading(r)
          BY <3>3, <3>4, <3>7, <4>2 DEF Loading
        <5>2. DReports(r) = 0 /\ d.missing[r] = ND /\ ND \in Nat \ {0}
          BY <3>1, <3>2, <3>5, <5>1, ConfigSpec DEF Shape
        <5> QED BY <3>4, <4>2, <5>2 DEF Count
      <4> QED BY <4>1, <4>2
    <3>8. ASSUME ~ Loading(r)', NEW k \in DRanks PROVE ~ Busy(k, r)'
      <4>1. CASE Loading(r)
        <5>1. /\ r \notin dr[k].local
              /\ Joins(dr[k], r) \/ Ready(dr[k], r) \/ Failing(dr[k], r) => r \in dr[k].local
          BY <1>1, <3>1, <3>8, <4>1 DEF LocalInv
        <5> QED BY <1>1, <5>1 DEF Busy
      <4>2. CASE ~ Loading(r)
        BY <1>1, <3>1, <4>2 DEF CalmInv, Busy
      <4> QED BY <4>1, <4>2
    <3> QED BY <3>6, <3>7, <3>8
  <2>3. ~ d'.error
    BY <1>3, <2>2 DEF SoundInv, DUpdates
  <2>4. \A k \in DRanks : \A y : Here(k, y)' => Here(k, y)
    BY <1>1 DEF Here
  <2>5. \A k \in DRanks : CalmInv(k)'
    BY <1>1, <1>2, <1>3, <2>2, <2>4 DEF SoundInv, CalmInv
  <2> QED BY <1>2, <2>2, <2>3, <2>5 DEF SoundInv
<1> QED BY <1>2, <1>3 DEF SoundInv

LEMMA SoundKept ==
  ASSUME SoundInv, UNCHANGED <<config, d, dr>>
  PROVE  SoundInv'
<1>1. \A k \in DRanks : \A y : Here(k, y)' <=> Here(k, y)
  BY DEF Here
<1>2. \A k \in DRanks : \A y \in Reqs : Busy(k, y)' <=> Busy(k, y)
  BY DEF Busy
<1>3. \A k \in DRanks : CalmInv(k) => CalmInv(k)'
  BY <1>1, <1>2, Frozen DEF CalmInv, Loading
<1> QED BY <1>3, Frozen DEF SoundInv, Loading

LEMMA SoundNext ==
  ASSUME HeldInv, SoundInv, [Next]_vars
  PROVE  SoundInv'
<1>1. Shape /\ PInv /\ ChannelInv /\ DecodeInv
  BY DEF HeldInv
<1>2. CASE UNCHANGED vars \/ Rest
  BY <1>2, SoundKept DEF vars, Rest
<1>3. CASE \/ PSchedule \/ PUpdate
           \/ \E r \in Reqs : PAdmit(r) \/ PAbort(r) \/ Expire(r)
           \/ \E t \in PRanks : PStart(t) \/ PFinish(t)
  BY <1>1, <1>3, PScheduleSpec, PUpdateSpec, PAdmitSpec, PAbortSpec, ExpireSpec, PStartSpec,
     PFinishSpec,
     SoundKept
<1>4. CASE DSchedule \/ DUpdate \/ \E r \in Reqs : DArrive(r) \/ DAdmit(r) \/ DAbort(r)
  BY <1>1, <1>4, SoundDSchedule, SoundDUpdate, SoundArrive
<1>5. CASE \E k \in DRanks : DStart(k) \/ DLoad(k) \/ DReady(k) \/ TakeDone(k) \/ Report(k)
  BY <1>1, <1>5, SoundDStart, SoundDLoad, SoundDReady, SoundTakeDone, SoundReport
<1>6. CASE \E k \in DRanks : \/ DoneCallback(k) \/ RequestReady(k) \/ \E ok \in BOOLEAN : HandshakeEnds(k, ok)
                             \/ \E r \in Reqs, t \in PRanks : ReadEnds(k, r, t) \/ ReadFails(k, r, t)
  BY <1>1, <1>6, SoundHandshake, SoundRequestReady
<1> QED BY <1>2, <1>3, <1>4, <1>5, <1>6 DEF Next

LEMMA ConfigKept ==
  ASSUME [Next]_vars
  PROVE  config' = config
<1>1. CASE UNCHANGED vars \/ Rest
  BY <1>1 DEF vars, Rest
<1>2. CASE PSchedule \/ PUpdate \/ DSchedule \/ DUpdate
  BY <1>2 DEF PSchedule, PUpdate, DSchedule, DUpdate
<1>3. CASE \E r \in Reqs : PAdmit(r) \/ PAbort(r) \/ Expire(r) \/ DArrive(r) \/ DAdmit(r) \/ DAbort(r)
  BY <1>3 DEF PAdmit, PAbort, Expire, DArrive, DAdmit, DAbort
<1>4. CASE \E t \in PRanks : PStart(t) \/ PFinish(t)
  BY <1>4 DEF PStart, PFinish
<1>5. CASE \E k \in DRanks : DStart(k) \/ DLoad(k) \/ DReady(k) \/ TakeDone(k) \/ Report(k)
  BY <1>5 DEF DStart, DLoad, DReady, TakeDone, Report
<1>6. CASE \E k \in DRanks : DoneCallback(k) \/ RequestReady(k) \/ \E ok \in BOOLEAN : HandshakeEnds(k, ok)
  BY <1>6 DEF DoneCallback, RequestReady, HandshakeEnds
<1>7. CASE \E k \in DRanks, r \in Reqs, t \in PRanks : ReadEnds(k, r, t) \/ ReadFails(k, r, t)
  BY <1>7 DEF ReadEnds, ReadFails
<1> QED BY <1>1, <1>2, <1>3, <1>4, <1>5, <1>6, <1>7 DEF Next

LEMMA SoundInit ==
  ASSUME Init
  PROVE  SoundInv
<1>1. /\ d = DInit /\ dr = [k \in DRanks |-> WorkerInit]
  BY DEF Init
<1>2. /\ d.status = [r \in Reqs |-> "new"] /\ d.need = {} /\ d.batch = NoBatch
      /\ d.missing = [r \in Reqs |-> ND] /\ d.error = FALSE
      /\ d.batch.left = {} /\ \A k \in DRanks : d.batch.done[k] = {}
  BY <1>1 DEF DInit, NoBatch
<1>3. \A k \in DRanks : /\ dr[k].todo = {} /\ dr[k].agents = Known /\ dr[k].jobs = <<>> /\ dr[k].ready = <<>>
                        /\ dr[k].failed = {} /\ dr[k].done = {}
  BY <1>1 DEF WorkerInit
<1>4. \A k \in DRanks, r \in Reqs : ~ Busy(k, r)
  BY <1>2, <1>3 DEF Busy, Joins, Ready, Failing, Range
<1>5. \A k \in DRanks : \A y : ~ Here(k, y)
  BY <1>2, <1>3 DEF Here
<1>6. \A k \in DRanks : CalmInv(k)
  BY <1>3, <1>4, <1>5 DEF CalmInv
<1> QED BY <1>2, <1>6 DEF SoundInv

LEMMA SoundReports ==
  ASSUME HeldInv, SoundInv, ~ OneOfSeveralFails /\ Joinable
  PROVE  ReportsAreSound
<1>1. Shape /\ PInv /\ ChannelInv /\ DecodeInv
  BY DEF HeldInv
<1>2. NP \in Nat \ {0} /\ ND \in Nat \ {0}
  BY <1>1, ConfigSpec DEF Shape
<1>3. \A r \in Reqs : d.missing[r] \in 1..ND
  <2>1. SUFFICES ASSUME NEW r \in Reqs PROVE d.missing[r] \in 1..ND
    OBVIOUS
  <2>2. CASE Loading(r)
    <3>1. d.missing[r] = Cardinality(DAwait(r)) /\ DAwait(r) # {} /\ DAwait(r) \subseteq DRanks
      BY <1>1, <2>2 DEF DecodeInv, CountInv, DAwait
    <3>2. IsFiniteSet(DRanks) /\ Cardinality(DRanks) = ND
      BY <1>2, FS_Interval DEF DRanks
    <3>3. /\ Cardinality(DAwait(r)) <= ND /\ Cardinality(DAwait(r)) \in Nat
          /\ Cardinality(DAwait(r)) # 0
      BY <3>1, <3>2, FS_Subset, FS_CardinalityType, FS_EmptySet
    <3> QED BY <1>2, <3>1, <3>3
  <2>3. CASE ~ Loading(r)
    BY <1>2, <2>3 DEF SoundInv
  <2> QED BY <2>2, <2>3
<1>4. p.missing \in [Reqs -> 1..NP] /\ d.missing \in [Reqs -> 1..ND]
  BY <1>1, <1>3 DEF Shape, PStates, DStates, PInv
<1>5. \A t \in PRanks : /\ pr[t].count \in [Reqs -> 0..(Consumers - 1)]
                        /\ pr[t].send \subseteq pr[t].process
  <2>1. \A t \in PRanks : pr[t].count \in [Reqs -> Nat] /\ Consumers \in Nat \ {0}
    BY <1>1, ReadersBound DEF Shape, ProducerStates
  <2> QED BY <1>1, <2>1 DEF PInv
<1>6. \A k \in DRanks : /\ dr[k].pc \in {"idle", "load", "taken"} /\ dr[k].local \subseteq dr[k].meta
                        /\ dr[k].xfer \in [Reqs -> [PRanks -> {"none", "proc", "ok", "err"}]]
  BY <1>1 DEF Shape, WorkerStates, DecodeInv, StepsInv
<1>7. TypeOK
  BY <1>1, <1>4, <1>5, <1>6 DEF TypeOK, Shape, PStates, DStates, PInv
<1>8. NoAssertFails
  BY <1>1 DEF NoAssertFails, PInv, SoundInv
<1> QED BY <1>7, <1>8 DEF ReportsAreSound

\* Every report of a worker fits the state of its scheduler: _update_from_kv_xfer_finished meets only
\* requests that are waiting for their load or have finished, KVOutputAggregator counts each worker
\* once per request, and no assertion or look-up of the connector fails. The first hypothesis
\* excludes a request that is reported while others of its reads run (Observation 19); the second a
\* callback of the handshake that starts a read for a request which only notifies (Observation 20).
THEOREM ReportsSound ==
  Spec /\ ~ OneOfSeveralFails /\ (Known \/ Hits = {}) => []ReportsAreSound
<1> DEFINE Settled == ~ OneOfSeveralFails /\ Joinable
<1>1. Init => HeldInv /\ SoundInv
  BY HeldInit, SoundInit
<1>2. HeldInv /\ SoundInv /\ [Next]_vars => HeldInv' /\ SoundInv'
  BY HeldNext, SoundNext
<1>3. Settled /\ [Next]_vars => Settled'
  BY ConfigKept, Frozen
<1>4. HeldInv /\ SoundInv /\ Settled => ReportsAreSound
  BY SoundReports
<1>5. ~ OneOfSeveralFails /\ (Known \/ Hits = {}) => Settled
  BY DEF Joinable
<1> QED BY <1>1, <1>2, <1>3, <1>4, <1>5, PTL DEF Spec
-----------------------------------------------------------------------------
(* KV: what D has not got it has noted as missing *)

Single == ~ Hma /\ ~ OneOfSeveralFails

\* Worker k has all that it had of x, and starts or ends nothing.
GotStays(k, x) ==
  /\ Noted(k, x) => Noted(k, x)'
  /\ k \in DAwait(x) => k \in DAwait(x)'
  /\ x \in d'.batch.done[k] => x \in d.batch.done[k] \/ x \in dr[k].done
  /\ x \in dr'[k].done => x \in dr[k].done
  /\ x \in dr'[k].failed => x \in dr[k].failed
  /\ Marked(dr'[k], x) => Marked(dr[k], x)
  /\ dr[k].got \subseteq dr'[k].got
  /\ \A t \in PRanks : dr'[k].xfer[x][t] = dr[k].xfer[x][t]

LEMMA GotKept ==
  ASSUME Shape, config' = config, NEW k \in DRanks, NEW x \in Reqs, GotInv(k, x), GotStays(k, x)
  PROVE  GotInv(k, x)'
<1>1. Reads(k)' = Reads(k) /\ Reads(k) \subseteq PRanks /\ PRanks' = PRanks
  BY Frozen, ReadsSpec DEF Shape
<1>2. Complete(k, x) => Complete(k, x)'
  BY <1>1 DEF Complete, GotStays
<1>3. Marked(dr[k], x)' <=> Marked(dr'[k], x)
  BY DEF Marked
<1>4. k \notin DAwait(x)' \/ x \in d'.batch.done[k] \/ x \in dr'[k].done => Complete(k, x)' \/ Noted(k, x)'
  BY <1>2 DEF GotInv, GotStays
<1>5. Moves(dr[k], x)' => Moves(dr[k], x)
  BY <1>1 DEF Moves, GotStays
<1>6. ASSUME Moves(dr[k], x), NEW t \in Reads(k)
      PROVE  dr'[k].xfer[x][t] \in {"proc", "err"} \/ <<x, t>> \in dr'[k].got \/ Noted(k, x)'
  BY <1>1, <1>6 DEF GotInv, GotStays
<1>7. x \in dr'[k].failed \/ Marked(dr'[k], x) => Noted(k, x)'
  BY DEF GotInv, GotStays
<1> QED BY <1>1, <1>3, <1>4, <1>5, <1>6, <1>7 DEF GotInv

\* One worker takes a step.
LEMMA KVWorker ==
  ASSUME Shape, Shape', KVInv, config' = config, expired \subseteq expired',
         NEW k \in DRanks, OneWorker(k), OthersSame(k),
         dr[k].got \subseteq dr'[k].got, d'.used = d.used, d'.bad = d.bad,
         d.batch.invalid \subseteq d'.batch.invalid,
         Single => /\ dr'[k].invalid \subseteq dr'[k].local
                   /\ \A r \in Reqs \ expired : d.status[r] = "remote" => GotInv(k, r)'
  PROVE  KVInv'
<1>1. DRanks' = DRanks /\ Hma' = Hma /\ OneOfSeveralFails' = OneOfSeveralFails
      /\ d'.status = d.status /\ \A l : Reads(l)' = Reads(l)
  BY Frozen DEF OthersSame
<1>2. ASSUME NEW l \in DRanks \ {k} PROVE dr'[l] = dr[l] /\ \A x \in Reqs : GotStays(l, x)
  <2>1. dr'[l] = dr[l] /\ d'.batch.done[l] = d.batch.done[l]
    BY DEF OneWorker, OthersSame
  <2>2. \A y : Here(l, y)' <=> Here(l, y)
    BY <2>1 DEF Here, OthersSame
  <2>3. \A x \in Reqs : l \in DAwait(x) => l \in DAwait(x)'
    BY <1>1, <2>1, <2>2 DEF DAwait
  <2>4. \A x \in Reqs : Noted(l, x) => Noted(l, x)'
    BY <2>1 DEF Noted
  <2> QED BY <2>1, <2>3, <2>4 DEF GotStays
<1>3. ASSUME Single PROVE KVInv'
  <2>1. \A l \in DRanks, r \in Reqs \ expired' : d'.status[r] = "remote" => GotInv(l, r)'
    BY <1>1, <1>2, <1>3, GotKept DEF KVInv, Single
  <2>2. \A l \in DRanks : dr'[l].invalid \subseteq dr'[l].local
    BY <1>2, <1>3 DEF KVInv, Single
  <2>3. \A r \in d'.used \ expired', l \in DRanks : Complete(l, r)'
    <3>1. \A l \in DRanks : dr[l].got \subseteq dr'[l].got
      BY <1>2
    <3>2. \A r \in d'.used \ expired', l \in DRanks : Complete(l, r)
      BY <1>3 DEF KVInv, Single
    <3> QED BY <1>1, <3>1, <3>2 DEF Complete
  <2> QED BY <1>1, <2>1, <2>2, <2>3 DEF KVInv
<1> QED BY <1>1, <1>3 DEF KVInv, Single

LEMMA KVDStart ==
  ASSUME Shape, ChannelInv, KVInv, NEW k \in DRanks, DStart(k)
  PROVE  KVInv'
<1>1. /\ Shape' /\ UNCHANGED <<config, expired>> /\ dr[k].pc = "idle"
      /\ k \in d.batch.left /\ OneWorker(k)
      /\ dr'[k] = [dr[k] EXCEPT !.pc = "load", !.todo = d.batch.recv]
      /\ d'.need = d.need /\ d'.status = d.status /\ d'.bad = d.bad /\ d'.used = d.used
      /\ d'.batch.recv = d.batch.recv /\ d'.batch.left = d.batch.left \ {k}
      /\ d'.batch.done = d.batch.done /\ d'.batch.invalid = d.batch.invalid
  BY DStartSpec
<1>2. /\ dr'[k].todo = d.batch.recv /\ dr'[k].jobs = dr[k].jobs /\ dr'[k].xfer = dr[k].xfer
      /\ dr'[k].failed = dr[k].failed /\ dr'[k].done = dr[k].done /\ dr'[k].got = dr[k].got
      /\ dr'[k].invalid = dr[k].invalid /\ dr'[k].local = dr[k].local
  BY <1>1 DEF Shape, WorkerStates
<1>3. dr[k].todo = {}
  BY <1>1 DEF ChannelInv, ThreadInv
<1>4. \A y : Here(k, y) => Here(k, y)'
  BY <1>1, <1>2, <1>3 DEF Here
<1>5. ASSUME NEW x \in Reqs PROVE GotStays(k, x)
  BY <1>1, <1>2, <1>4, Frozen DEF GotStays, Noted, DAwait, Marked
<1>6. Single => /\ dr'[k].invalid \subseteq dr'[k].local
                /\ \A r \in Reqs \ expired : d.status[r] = "remote" => GotInv(k, r)'
  BY <1>1, <1>2, <1>5, GotKept DEF KVInv, Single
<1>7. OthersSame(k)
  BY <1>1 DEF OthersSame
<1> QED BY <1>1, <1>2, <1>6, <1>7, KVWorker

LEMMA KVHandshake ==
  ASSUME Shape, KVInv, NEW k \in DRanks, DoneCallback(k) \/ \E ok \in BOOLEAN : HandshakeEnds(k, ok)
  PROVE  KVInv'
<1>1. /\ Shape' /\ OneWorker(k) /\ UNCHANGED <<config, d, expired>>
      /\ SameButJobs(dr'[k], dr[k]) /\ JobsSame(dr'[k], dr[k])
  BY DoneCallbackSpec, HandshakeEndsSpec
<1>2. \A x : Marked(dr'[k], x) => Marked(dr[k], x)
  BY <1>1 DEF JobsSame
<1>3. /\ dr'[k].todo = dr[k].todo /\ dr'[k].xfer = dr[k].xfer
      /\ dr'[k].failed = dr[k].failed /\ dr'[k].done = dr[k].done /\ dr'[k].got = dr[k].got
      /\ dr'[k].invalid = dr[k].invalid /\ dr'[k].local = dr[k].local
  BY <1>1 DEF SameButJobs
<1>4. \A y : Here(k, y) => Here(k, y)'
  BY <1>1, <1>3 DEF Here
<1>5. ASSUME NEW x \in Reqs PROVE GotStays(k, x)
  BY <1>1, <1>2, <1>3, <1>4, Frozen DEF GotStays, Noted, DAwait
<1>6. Single => /\ dr'[k].invalid \subseteq dr'[k].local
                /\ \A r \in Reqs \ expired : d.status[r] = "remote" => GotInv(k, r)'
  BY <1>1, <1>3, <1>5, GotKept DEF KVInv, Single
<1>7. OthersSame(k)
  BY <1>1 DEF OthersSame
<1> QED BY <1>1, <1>3, <1>6, <1>7, KVWorker

LEMMA KVRequestReady ==
  ASSUME Shape, ChannelInv, DecodeInv, KVInv, NEW k \in DRanks, RequestReady(k)
  PROVE  KVInv'
<1> DEFINE v == dr'[k]
           w == dr[k]
<1>1. JobsInv(w)
  BY DEF ChannelInv, ThreadInv
<1>2. /\ Shape' /\ OneWorker(k) /\ UNCHANGED <<config, p, pr, d, notifs, expired>> /\ SameReads(v, w)
  BY <1>1, RequestReadySpec
<1> PICK r \in Reqs : Joins(w, r) /\ RequestReadies(v, w, r)
  BY <1>1, RequestReadySpec
<1>3. v.todo = w.todo /\ v.done = w.done /\ v.xfer = w.xfer /\ v.local = w.local /\ v.got = w.got
  BY <1>2 DEF SameReads
<1>4. \A y : Here(k, y)' <=> Here(k, y)
  BY <1>2, <1>3 DEF Here
<1>5. w.invalid \subseteq v.invalid
  BY DEF RequestReadies
<1>6. ASSUME NEW x \in Reqs
      PROVE  /\ Noted(k, x) => Noted(k, x)'
             /\ k \in DAwait(x) => k \in DAwait(x)'
  BY <1>2, <1>3, <1>4, <1>5, Frozen DEF Noted, DAwait
<1>7. ASSUME NEW x \in Reqs, x # r PROVE GotStays(k, x)
  <2>1. x \in v.failed => x \in w.failed
    BY <1>7 DEF RequestReadies
  <2>2. ~ Marked(v, x)
    BY <1>7 DEF RequestReadies, CallbackDone
  <2> QED BY <1>2, <1>3, <1>6, <2>1, <2>2 DEF GotStays
<1>8. ASSUME Single, d.status[r] = "remote", GotInv(k, r) PROVE GotInv(k, r)'
  <2>1. r \in w.local
    BY <1>8 DEF DecodeInv, LocalInv, Loading, Single
  <2>2. /\ r \in v.failed => r \in w.failed \/ Marked(w, r)
        /\ Marked(v, r) => r \in v.invalid
    BY <1>8, <2>1 DEF RequestReadies, CallbackDone, Single
  <2>3. r \in v.failed \/ Marked(v, r) => Noted(k, r)'
    BY <1>6, <1>8, <2>2 DEF GotInv, Noted
  <2>4. Reads(k)' = Reads(k) /\ PRanks' = PRanks
    BY <1>2, Frozen
  <2>5. (Complete(k, r)' <=> Complete(k, r)) /\ (Moves(dr[k], r)' <=> Moves(dr[k], r))
        /\ (Marked(dr[k], r)' <=> Marked(v, r))
    BY <1>3, <2>4 DEF Complete, Moves, Marked
  <2>6. k \notin DAwait(r)' \/ r \in d'.batch.done[k] \/ r \in v.done => Complete(k, r)' \/ Noted(k, r)'
    BY <1>2, <1>3, <1>6, <1>8, <2>5 DEF GotInv
  <2>7. Moves(w, r) => \A t \in Reads(k) : v.xfer[r][t] \in {"proc", "err"} \/ <<r, t>> \in v.got \/ Noted(k, r)'
    BY <1>3, <1>6, <1>8 DEF GotInv
  <2> QED BY <2>3, <2>4, <2>5, <2>6, <2>7 DEF GotInv
<1>9. ASSUME Single
      PROVE  /\ v.invalid \subseteq v.local
             /\ \A x \in Reqs \ expired : d.status[x] = "remote" => GotInv(k, x)'
  <2>1. v.invalid \subseteq w.local
    BY <1>9 DEF KVInv, Single, RequestReadies
  <2> QED BY <1>2, <1>3, <1>7, <1>8, <1>9, <2>1, GotKept DEF KVInv, Single
<1>10. OthersSame(k)
  BY <1>2 DEF OthersSame
<1> QED BY <1>2, <1>3, <1>9, <1>10, KVWorker

\* A read ends or fails.
LEMMA KVReads ==
  ASSUME HeldInv, KVInv, NEW k \in DRanks, NEW r \in Reqs, NEW t \in PRanks,
         ReadEnds(k, r, t) \/ ReadFails(k, r, t)
  PROVE  KVInv'
<1> DEFINE v == dr'[k]
           w == dr[k]
<1>1. Shape /\ ReadsKeepTheirBlocks
  BY HeldReadsKept DEF HeldInv
<1>2. /\ Shape' /\ OneWorker(k) /\ UNCHANGED <<config, p, d, expired>>
      /\ w.xfer[r][t] = "proc" /\ SameButReads(v, w) /\ w.got \subseteq v.got
      /\ \A x \in Reqs, u \in PRanks : x # r \/ u # t => v.xfer[x][u] = w.xfer[x][u]
      /\ v.xfer[r][t] = "err" \/ GotKV(k, r, t)
  <2>1. CASE ReadEnds(k, r, t)
    <3>1. /\ Shape' /\ OneWorker(k) /\ UNCHANGED <<config, p, d, expired>>
          /\ w.xfer[r][t] = "proc" /\ SameButReads(v, w) /\ GotKV(k, r, t)
      BY <1>1, <2>1, ReadEndsSpec
    <3>2. \A x \in Reqs, u \in PRanks :
            v.xfer[x][u] = IF x = r /\ u = t THEN "ok" ELSE w.xfer[x][u]
      BY <1>1, <2>1, ReadEndsSpec
    <3>3. w.got \subseteq v.got
      BY <3>1 DEF GotKV
    <3>4. \A x \in Reqs, u \in PRanks : x # r \/ u # t => v.xfer[x][u] = w.xfer[x][u]
      BY <3>2
    <3> QED BY <3>1, <3>3, <3>4
  <2>2. CASE ReadFails(k, r, t)
    BY <1>1, <2>2, ReadFailsSpec
  <2> QED BY <2>1, <2>2
<1>3. /\ v.todo = w.todo /\ v.local = w.local /\ v.failed = w.failed /\ v.done = w.done
      /\ v.invalid = w.invalid /\ v.jobs = w.jobs
  BY <1>2 DEF SameButReads
<1>4. \A y : Here(k, y)' <=> Here(k, y)
  BY <1>2, <1>3 DEF Here
<1>5. ASSUME NEW x \in Reqs
      PROVE  /\ Noted(k, x) <=> Noted(k, x)'
             /\ k \in DAwait(x) <=> k \in DAwait(x)'
             /\ Marked(v, x) <=> Marked(w, x)
  BY <1>2, <1>3, <1>4, Frozen DEF Noted, DAwait, Marked
<1>6. ASSUME NEW x \in Reqs, x # r PROVE GotStays(k, x)
  BY <1>2, <1>3, <1>5, <1>6 DEF GotStays
<1>7. ASSUME GotInv(k, r), r \notin expired PROVE GotInv(k, r)'
  <2>1. Reads(k)' = Reads(k) /\ PRanks' = PRanks /\ Reads(k) \subseteq PRanks
    BY <1>1, <1>2, Frozen, ReadsSpec DEF Shape
  <2>2. Complete(k, r) => Complete(k, r)'
    BY <1>2, <2>1 DEF Complete
  <2>3. Moves(w, r) /\ (Marked(dr[k], r)' <=> Marked(v, r))
    BY <1>2 DEF Moves, Marked
  <2>4. ASSUME NEW u \in Reads(k)
        PROVE  v.xfer[r][u] \in {"proc", "err"} \/ <<r, u>> \in v.got \/ Noted(k, r)'
    <3>1. CASE u = t
      <4>1. p.status[r] = "finished"
        BY <1>1, <1>2, <1>7 DEF ReadsKeepTheirBlocks, ReadsHeldBlocks
      <4>2. v.xfer[r][t] = "err" \/ <<r, t>> \in v.got
        BY <1>2, <4>1 DEF GotKV
      <4> QED BY <3>1, <4>2
    <3>2. CASE u # t
      BY <1>2, <1>5, <1>7, <2>1, <2>3, <3>2 DEF GotInv
    <3> QED BY <3>1, <3>2
  <2>5. k \notin DAwait(r)' \/ r \in d'.batch.done[k] \/ r \in v.done => Complete(k, r)' \/ Noted(k, r)'
    BY <1>2, <1>3, <1>5, <1>7, <2>2 DEF GotInv
  <2>6. r \in v.failed \/ Marked(v, r) => Noted(k, r)'
    BY <1>3, <1>5, <1>7 DEF GotInv
  <2> QED BY <2>1, <2>3, <2>4, <2>5, <2>6 DEF GotInv
<1>8. Single => /\ v.invalid \subseteq v.local
                /\ \A x \in Reqs \ expired : d.status[x] = "remote" => GotInv(k, x)'
  BY <1>1, <1>2, <1>3, <1>6, <1>7, GotKept DEF KVInv, Single
<1>9. OthersSame(k)
  BY <1>2 DEF OthersSame
<1> QED BY <1>1, <1>2, <1>8, <1>9, KVWorker

LEMMA KVTakeDone ==
  ASSUME Shape, ChannelInv, DecodeInv, KVInv, NEW k \in DRanks, TakeDone(k)
  PROVE  KVInv'
<1> DEFINE v == dr'[k]
           w == dr[k]
<1>1. /\ Shape' /\ OneWorker(k) /\ UNCHANGED <<config, p, pr, d, notifs, expired>> /\ Takes(v, w)
      /\ w.pc = "load"
  BY TakeDoneSpec
<1>2. /\ v.todo = w.todo /\ v.jobs = w.jobs /\ v.local = w.local /\ v.got = w.got
      /\ v.failed = w.failed /\ v.done = Popped(w) \cup w.failed
      /\ v.invalid = w.invalid \cup Broken(w)
      /\ \A x \in Reqs, u \in PRanks : v.xfer[x][u] = IF w.xfer[x][u] = "proc" THEN "proc" ELSE "none"
  BY <1>1 DEF Takes
<1>3. \A y : Here(k, y)' <=> Here(k, y)
  BY <1>1, <1>2 DEF Here
<1>4. Reads(k)' = Reads(k) /\ PRanks' = PRanks /\ Reads(k) \subseteq PRanks
  BY <1>1, Frozen, ReadsSpec DEF Shape
<1>5. ASSUME NEW x \in Reqs
      PROVE  /\ Noted(k, x) => Noted(k, x)'
             /\ k \in DAwait(x) <=> k \in DAwait(x)'
             /\ Marked(dr[k], x)' <=> Marked(w, x)
             /\ Complete(k, x)' <=> Complete(k, x)
  BY <1>1, <1>2, <1>3, <1>4, Frozen DEF Noted, DAwait, Marked, Complete
<1>6. ASSUME Single, NEW x \in Reqs, Moves(w, x) PROVE x \in w.local /\ x \in w.meta
  BY <1>6 DEF DecodeInv, LocalInv, StepsInv, Single
<1>7. ASSUME Single, NEW x \in Reqs, GotInv(k, x) PROVE GotInv(k, x)'
  <2>1. \A t \in Reads(k) : w.xfer[x][t] = "err" => Noted(k, x)'
    <3>1. SUFFICES ASSUME NEW t \in Reads(k), w.xfer[x][t] = "err" PROVE Noted(k, x)'
      OBVIOUS
    <3>2. Moves(w, x) /\ Has(w, x, {"err"})
      BY <1>4, <3>1 DEF Moves, Has
    <3>3. x \in Broken(w)
      BY <1>6, <1>7, <3>2 DEF Broken, Single
    <3> QED BY <1>2, <3>3 DEF Noted
  <2>2. ASSUME Moves(w, x), NEW t \in Reads(k)
        PROVE  w.xfer[x][t] = "proc" \/ <<x, t>> \in w.got \/ Noted(k, x)'
    BY <1>5, <1>7, <2>1, <2>2 DEF GotInv
  <2>3. x \in Popped(w) => Complete(k, x)' \/ Noted(k, x)'
    <3>1. SUFFICES ASSUME x \in Popped(w), ~ Noted(k, x)' PROVE Complete(k, x)
      BY <1>5
    <3>2. Moves(w, x) /\ \A t \in PRanks : w.xfer[x][t] # "proc"
      BY <3>1 DEF Popped, Has, Moves
    <3> QED BY <1>4, <2>2, <3>1, <3>2 DEF Complete
  <2>4. x \in w.failed => Noted(k, x)'
    BY <1>5, <1>7 DEF GotInv
  <2>5. k \notin DAwait(x)' \/ x \in d'.batch.done[k] \/ x \in v.done => Complete(k, x)' \/ Noted(k, x)'
    BY <1>1, <1>2, <1>5, <1>7, <2>3, <2>4 DEF GotInv
  <2>6. Marked(w, x) => Noted(k, x)'
    BY <1>5, <1>7 DEF GotInv
  <2>7. Moves(v, x) => Moves(w, x)
    BY <1>2 DEF Moves
  <2>8. Moves(v, x) =>
          \A t \in Reads(k) : v.xfer[x][t] \in {"proc", "err"} \/ <<x, t>> \in v.got \/ Noted(k, x)'
    BY <1>2, <1>4, <2>2, <2>7
  <2>9. Moves(dr[k], x)' <=> Moves(v, x)
    BY <1>4 DEF Moves
  <2> QED BY <1>2, <1>4, <1>5, <2>4, <2>5, <2>6, <2>8, <2>9 DEF GotInv
<1>8. ASSUME Single
      PROVE  /\ v.invalid \subseteq v.local
             /\ \A x \in Reqs \ expired : d.status[x] = "remote" => GotInv(k, x)'
  <2>1. Broken(w) \subseteq w.local
    <3>1. \A x \in Broken(w) : x \in Reqs /\ Moves(w, x)
      BY DEF Broken, Has, Moves, Shape, WorkerStates
    <3> QED BY <1>6, <1>8, <3>1
  <2> QED BY <1>2, <1>7, <1>8, <2>1 DEF KVInv, Single
<1>9. OthersSame(k)
  BY <1>1 DEF OthersSame
<1> QED BY <1>1, <1>2, <1>8, <1>9, KVWorker

LEMMA KVReport ==
  ASSUME Shape, ChannelInv, DecodeInv, KVInv, NEW k \in DRanks, Report(k)
  PROVE  KVInv'
<1> DEFINE v == dr'[k]
           w == dr[k]
<1>1. /\ Shape' /\ OneWorker(k) /\ UNCHANGED <<config, expired>> /\ w.pc = "taken" /\ Reporting(v, w)
      /\ d'.need = d.need /\ d'.status = d.status /\ d'.bad = d.bad /\ d'.used = d.used
      /\ d'.batch.recv = d.batch.recv /\ d'.batch.left = d.batch.left
      /\ d'.batch.done[k] = w.done
      /\ \A l \in DRanks \ {k} : d'.batch.done[l] = d.batch.done[l]
      /\ d'.batch.invalid = d.batch.invalid \cup w.invalid
  BY ReportSpec
<1>2. /\ v.todo = w.todo /\ v.jobs = w.jobs /\ v.got = w.got /\ v.xfer = w.xfer
      /\ v.done = {} /\ v.invalid = {} /\ v.failed = {} /\ v.local = w.local \ w.done
  BY <1>1 DEF Reporting
<1>3. \A y : Here(k, y)' <=> Here(k, y)
  BY <1>1, <1>2 DEF Here
<1>4. d.batch.done[k] = {}
  BY <1>1 DEF DecodeInv, StepsInv
<1>5. ASSUME NEW x \in Reqs PROVE GotStays(k, x)
  <2>1. Noted(k, x) => Noted(k, x)'
    BY <1>1, <1>2 DEF Noted
  <2>2. k \in DAwait(x) => k \in DAwait(x)'
    BY <1>1, <1>2, <1>3, <1>4, Frozen DEF DAwait
  <2> QED BY <1>1, <1>2, <2>1, <2>2 DEF GotStays, Marked
<1>6. Single => /\ v.invalid \subseteq v.local
                /\ \A x \in Reqs \ expired : d.status[x] = "remote" => GotInv(k, x)'
  BY <1>1, <1>2, <1>5, GotKept DEF KVInv, Single
<1>7. OthersSame(k)
  BY <1>1 DEF OthersSame
<1> QED BY <1>1, <1>2, <1>6, <1>7, KVWorker

\* w is worker k, which has taken up a request.
KeepsKV(k, w) ==
  /\ w.xfer = dr[k].xfer /\ w.failed = dr[k].failed /\ w.invalid = dr[k].invalid
  /\ w.done = dr[k].done /\ w.got = dr[k].got /\ w.jobs = dr[k].jobs /\ dr[k].local \subseteq w.local
  /\ \A x \in Reqs : k \in DAwait(x) =>
       \/ x \in w.local \/ x \in d.batch.done[k]
       \/ Load(x) \in d.need \cup w.todo \/ (k \in d.batch.left /\ Load(x) \in d.batch.recv)

LEMMA KVLoad ==
  ASSUME Shape, Shape', KVInv, UNCHANGED <<config, expired>>,
         NEW k \in DRanks, NEW w, NEW r \in Reqs, KeepsKV(k, w), OneWorker(k),
         LoadStep(k, w, r) \/ JoinStep(k, w, r)
  PROVE  KVInv'
<1> DEFINE v == dr'[k]
<1>1. /\ v.todo = w.todo /\ v.done = w.done /\ v.local = w.local /\ v.got = w.got
      /\ d'.need = d.need /\ d'.status = d.status /\ d'.batch = d.batch /\ d'.bad = d.bad /\ d'.used = d.used
  BY DEF LoadStep, JoinStep, ReadsBegin, NotesSent, DKept, Alike, SameReads
<1>2. /\ w.invalid \subseteq v.invalid
      /\ \A x : x \in v.invalid => x \in w.invalid \/ x \in w.local
  BY DEF LoadStep, JoinStep, ReadsBegin, NotesSent, JoinsAdded, ReadyAdded, FailedAdded
<1>3. Single => \A x : x \in v.failed => x \in w.failed \/ x \in v.invalid
  BY DEF LoadStep, JoinStep, ReadsBegin, NotesSent, JoinsAdded, ReadyAdded, FailedAdded, Single
<1>4. \A x : Marked(v, x) => Marked(w, x)
  BY DEF LoadStep, JoinStep, ReadsBegin, NotesSent, JoinsAdded, ReadyAdded, FailedAdded, Marked,
     Alike
<1>5. Single => \A x \in Reqs, t \in PRanks :
        \/ v.xfer[x][t] = w.xfer[x][t]
        \/ v.xfer[x][t] = "proc"
  <2>1. CASE \E bad \in SUBSET Reads(k) : ReadsBegin(k, w, r, bad)
    BY <2>1 DEF ReadsBegin
  <2>2. CASE NotesSent(k, w, r)
    BY <2>2 DEF NotesSent
  <2>3. CASE JoinStep(k, w, r)
    BY <2>3 DEF JoinStep, SameReads
  <2> QED BY <2>1, <2>2, <2>3 DEF LoadStep
<1>6. Reads(k)' = Reads(k) /\ PRanks' = PRanks /\ DRanks' = DRanks /\ Reads(k) \subseteq PRanks
  BY Frozen, ReadsSpec DEF Shape
\* A request whose reads are not all set up is noted.
<1>7. ASSUME Single, NEW x \in Reqs, Moves(v, x)
      PROVE  Moves(w, x) \/ \A t \in Reads(k) : v.xfer[x][t] = "proc" \/ x \in v.invalid
  <2>1. CASE \E bad \in SUBSET Reads(k) : ReadsBegin(k, w, r, bad)
    <3>1. PICK bad \in SUBSET Reads(k) : ReadsBegin(k, w, r, bad)
      BY <2>1
    <3>2. CASE x = r
      <4>1. \A t \in Reads(k) \ bad : v.xfer[r][t] = "proc"
        BY <1>6, <3>1 DEF ReadsBegin
      <4>2. bad # {} => r \in v.invalid
        BY <1>7, <3>1 DEF ReadsBegin, Single
      <4> QED BY <3>2, <4>1, <4>2
    <3>3. CASE x # r
      BY <1>7, <3>1, <3>3 DEF ReadsBegin, Moves
    <3> QED BY <3>2, <3>3
  <2>2. CASE NotesSent(k, w, r)
    BY <1>7, <2>2 DEF NotesSent
  <2>3. CASE JoinStep(k, w, r)
    BY <1>7, <2>3 DEF JoinStep, SameReads, Moves
  <2> QED BY <2>1, <2>2, <2>3 DEF LoadStep
<1>8. ASSUME NEW x \in Reqs
      PROVE  /\ Noted(k, x) => Noted(k, x)'
             /\ x \in v.invalid => Noted(k, x)'
             /\ k \in DAwait(x) => k \in DAwait(x)'
             /\ Complete(k, x)' <=> Complete(k, x)
             /\ Marked(dr[k], x)' <=> Marked(v, x)
             /\ Marked(w, x) <=> Marked(dr[k], x)
             /\ Moves(dr[k], x)' <=> Moves(v, x)
             /\ Moves(w, x) <=> Moves(dr[k], x)
  <2>1. (Noted(k, x) => Noted(k, x)') /\ (x \in v.invalid => Noted(k, x)')
    BY <1>1, <1>2 DEF Noted, KeepsKV
  <2>2. k \in DAwait(x) => k \in DAwait(x)'
    BY <1>1, <1>6 DEF DAwait, Here, KeepsKV
  <2>3. Complete(k, x)' <=> Complete(k, x)
    BY <1>1, <1>6 DEF Complete, KeepsKV
  <2> QED BY <1>6, <2>1, <2>2, <2>3 DEF Marked, Moves, KeepsKV
<1>9. ASSUME Single, NEW x \in Reqs, GotInv(k, x) PROVE GotInv(k, x)'
  <2>1. k \notin DAwait(x)' \/ x \in d'.batch.done[k] \/ x \in v.done => Complete(k, x)' \/ Noted(k, x)'
    BY <1>1, <1>8, <1>9 DEF GotInv, KeepsKV
  <2>2. x \in v.failed \/ Marked(v, x) => Noted(k, x)'
    BY <1>3, <1>4, <1>8, <1>9 DEF GotInv, KeepsKV
  <2>3. ASSUME Moves(v, x), NEW t \in Reads(k)
        PROVE  v.xfer[x][t] \in {"proc", "err"} \/ <<x, t>> \in v.got \/ Noted(k, x)'
    <3>1. CASE Moves(w, x)
      <4>1. w.xfer[x][t] \in {"proc", "err"} \/ <<x, t>> \in w.got \/ Noted(k, x)'
        BY <1>8, <1>9, <3>1 DEF GotInv, KeepsKV
      <4> QED BY <1>1, <1>5, <1>6, <1>9, <4>1
    <3>2. CASE ~ Moves(w, x)
      BY <1>7, <1>8, <1>9, <2>3, <3>2
    <3> QED BY <3>1, <3>2
  <2> QED BY <1>6, <1>8, <2>1, <2>2, <2>3 DEF GotInv
<1>10. ASSUME Single
       PROVE  /\ v.invalid \subseteq v.local
              /\ \A x \in Reqs \ expired : d.status[x] = "remote" => GotInv(k, x)'
  <2>1. w.invalid \subseteq w.local
    BY <1>10 DEF KVInv, Single, KeepsKV
  <2> QED BY <1>1, <1>2, <1>9, <1>10, <2>1 DEF KVInv, Single
<1>11. OthersSame(k) /\ dr[k].got \subseteq v.got
  BY <1>1 DEF OthersSame, KeepsKV
<1> QED BY <1>1, <1>10, <1>11, KVWorker

LEMMA KVDLoad ==
  ASSUME Shape, ChannelInv, KVInv, NEW k \in DRanks, DLoad(k)
  PROVE  KVInv'
<1>1. JobsInv(dr[k]) /\ dr[k] \in WorkerStates
  BY DEF ChannelInv, ThreadInv, Shape
<1>2. /\ Shape' /\ OneWorker(k) /\ UNCHANGED <<config, expired>>
  BY <1>1, DLoadSpec
<1>3. PICK m \in dr[k].todo : \/ LoadStep(k, Taken(dr[k], m), m.req)
                              \/ JoinStep(k, Taken(dr[k], m), m.req)
  BY <1>1, DLoadSpec
<1> DEFINE w == Taken(dr[k], m)
           r == m.req
<1>4. /\ m \in Loads /\ w.todo = dr[k].todo \ {m} /\ w.jobs = dr[k].jobs
      /\ w.local = IF m.local THEN dr[k].local \cup {r} ELSE dr[k].local
      /\ w.xfer = dr[k].xfer /\ w.got = dr[k].got
      /\ w.failed = dr[k].failed /\ w.invalid = dr[k].invalid /\ w.done = dr[k].done
  BY <1>1, TakenSpec
<1> HIDE DEF w
<1>5. r \in Reqs
  BY <1>4 DEF Loads
<1> HIDE DEF r
<1>6. \A x \in Reqs : Load(x) = m => x \in w.local
  BY <1>4 DEF Load, r
<1>7. KeepsKV(k, w)
  BY <1>4, <1>6 DEF KeepsKV, DAwait, Here
<1> QED BY <1>2, <1>3, <1>5, <1>7, KVLoad DEF w, r

LEMMA KVDReady ==
  ASSUME Shape, KVInv, NEW k \in DRanks, DReady(k)
  PROVE  KVInv'
<1> DEFINE w == Rested(dr[k])
           r == Head(dr[k].ready)
<1>1. /\ Shape' /\ OneWorker(k) /\ UNCHANGED <<config, expired>> /\ r \in Reqs
      /\ SameReads(w, dr[k]) /\ w.jobs = dr[k].jobs
      /\ w.failed = dr[k].failed /\ w.invalid = dr[k].invalid /\ LoadStep(k, w, r)
  BY DReadySpec
<1> HIDE DEF w, r
<1>2. KeepsKV(k, w)
  BY <1>1 DEF KeepsKV, SameReads, DAwait, Here
<1> QED BY <1>1, <1>2, KVLoad

\* The scheduler of D takes a step.
LEMMA KVScheduler ==
  ASSUME Shape, KVInv, UNCHANGED <<config, dr>>, expired \subseteq expired', d'.used = d.used,
         \A k \in DRanks, x \in Reqs : d'.status[x] = "remote" =>
           GotInv(k, x)' \/ (d.status[x] = "remote" /\ GotStays(k, x))
  PROVE  KVInv'
<1>1. DRanks' = DRanks /\ Hma' = Hma /\ OneOfSeveralFails' = OneOfSeveralFails /\ \A l : Reads(l)' = Reads(l)
  BY Frozen
<1>2. ASSUME Single PROVE KVInv'
  <2>1. \A k \in DRanks, r \in Reqs \ expired' : d'.status[r] = "remote" => GotInv(k, r)'
    BY <1>2, GotKept DEF KVInv, Single
  <2>2. \A r \in d'.used \ expired', k \in DRanks : Complete(k, r)'
    BY <1>1, <1>2 DEF KVInv, Single, Complete
  <2> QED BY <1>1, <1>2, <2>1, <2>2 DEF KVInv, Single
<1> QED BY <1>1, <1>2 DEF KVInv, Single

LEMMA KVKept ==
  ASSUME Shape, KVInv, UNCHANGED <<config, d, dr>>, expired \subseteq expired'
  PROVE  KVInv'
<1>1. ASSUME NEW k \in DRanks, NEW x \in Reqs PROVE GotStays(k, x)
  <2>1. Here(k, Load(x))' <=> Here(k, Load(x))
    BY DEF Here
  <2> QED BY <2>1, Frozen DEF GotStays, Noted, DAwait
<1> QED BY <1>1, KVScheduler

LEMMA KVArrive ==
  ASSUME Shape, ChannelInv, KVInv, \E r \in Reqs : DArrive(r) \/ DAdmit(r) \/ DAbort(r)
  PROVE  KVInv'
<1> PICK r \in Reqs : DArrive(r) \/ DAdmit(r) \/ DAbort(r)
  OBVIOUS
<1>1. /\ UNCHANGED <<config, dr, expired>> /\ DOther /\ d.need \subseteq d'.need
  BY DArriveSpec, DAdmitSpec, DAbortSpec
<1>2. /\ \A x \in Reqs \ {r} : d'.status[x] = d.status[x]
      /\ d'.status[r] = "remote" => d.status[r] = "waiting" /\ Load(r) \in d'.need
  <2>1. d.status \in [Reqs -> Statuses]
    BY DEF Shape, DStates
  <2> QED BY <2>1, DArriveSpec, DAdmitSpec, DAbortSpec
<1>3. ASSUME NEW k \in DRanks, NEW x \in Reqs \ {r} PROVE GotStays(k, x)
  <2>1. Here(k, Load(x)) => Here(k, Load(x))'
    BY <1>1 DEF Here, DOther
  <2> QED BY <1>1, <2>1, Frozen DEF GotStays, Noted, DAwait, DOther
<1>4. ASSUME NEW k \in DRanks, d'.status[r] = "remote" PROVE GotInv(k, r)'
  <2>1. Fresh(r)
    BY <1>2, <1>4 DEF Fresh
  <2>2. ~ Joins(dr[k], r) /\ ~ Moves(dr[k], r) /\ ~ Failing(dr[k], r) /\ r \notin d.batch.done[k]
    BY <2>1 DEF ChannelInv, PlaceInv
  <2>3. ~ Marked(dr[k], r)
    <3>1. JobsInv(dr[k]) /\ dr[k] \in WorkerStates
      BY DEF ChannelInv, ThreadInv, Shape
    <3> QED BY <2>2, <3>1, Popped1Spec DEF Marked
  <2>4. k \in DAwait(r)'
    BY <1>1, <1>2, <1>4, Frozen DEF DAwait, Here
  <2>5. (Moves(dr[k], r)' <=> Moves(dr[k], r)) /\ (Marked(dr[k], r)' <=> Marked(dr[k], r))
    BY <1>1, Frozen DEF Moves, Marked
  <2> QED BY <1>1, <2>2, <2>3, <2>4, <2>5 DEF GotInv, Failing, DOther
<1>5. d'.used = d.used
  BY <1>1 DEF DOther
<1> QED BY <1>1, <1>2, <1>3, <1>4, <1>5, KVScheduler

LEMMA KVDSchedule ==
  ASSUME Shape, KVInv, DSchedule
  PROVE  KVInv'
<1>1. /\ UNCHANGED <<config, dr, expired>>
      /\ \A k \in DRanks : d.batch.done[k] = {} /\ d'.batch.done[k] = {}
      /\ d.batch.left = {} /\ d.batch.invalid = {}
      /\ d'.batch.recv = d.need /\ d'.batch.left = DRanks
      /\ d'.status = d.status /\ d'.bad = d.bad /\ d'.used = d.used
  BY DScheduleSpec
<1>2. ASSUME NEW k \in DRanks, NEW x \in Reqs PROVE GotStays(k, x)
  <2>1. Here(k, Load(x)) => Here(k, Load(x))'
    BY <1>1 DEF Here
  <2> QED BY <1>1, <2>1, Frozen DEF GotStays, Noted, DAwait
<1> QED BY <1>1, <1>2, KVScheduler

LEMMA KVDUpdate ==
  ASSUME Shape, ChannelInv, DecodeInv, KVInv, DUpdate
  PROVE  KVInv'
<1>1. /\ Shape' /\ UNCHANGED <<config, dr, expired>>
      /\ d'.need = d.need /\ d'.batch.left = {} /\ \A k \in DRanks : d'.batch.done[k] = {}
      /\ d.batch.left = {}
  BY DUpdateSpec
<1> PICK over : DUpdates(over)
  BY DUpdateSpec
<1>2. DRanks' = DRanks /\ OneOfSeveralFails' = OneOfSeveralFails /\ Hma' = Hma
      /\ PRanks' = PRanks /\ \A l : Reads(l)' = Reads(l)
  BY <1>1, Frozen
<1>3. \A r \in Reqs : d'.status[r] = IF r \notin over THEN DStat(r)
                                     ELSE IF DStat(r) = "remote" THEN "running" ELSE "gone"
  BY DEF DUpdates
<1>4. ASSUME NEW r \in Reqs, DStat(r) = "remote"
      PROVE  d.status[r] = "remote" /\ (r \in d.batch.invalid \/ r \in d.bad => r \in DBad)
  BY <1>4 DEF DStat, DHit, DBad
<1>5. ASSUME NEW k \in DRanks, NEW r \in Reqs
      PROVE  k \notin DAwait(r)' => k \notin DAwait(r) \/ r \in d.batch.done[k]
  BY <1>1, <1>2 DEF DAwait, Here
<1>6. ASSUME NEW k \in DRanks, NEW r \in Reqs, d'.status[r] = "remote", GotInv(k, r) PROVE GotInv(k, r)'
  <2>1. r \notin over /\ DStat(r) = "remote"
    BY <1>3, <1>6
  <2>2. Noted(k, r) => Noted(k, r)'
    BY <1>1, <1>4, <2>1 DEF Noted, DUpdates
  <2>3. /\ Complete(k, r)' <=> Complete(k, r)
        /\ Moves(dr[k], r)' <=> Moves(dr[k], r)
        /\ Marked(dr[k], r)' <=> Marked(dr[k], r)
    BY <1>1, <1>2 DEF Complete, Moves, Marked
  <2> QED BY <1>1, <1>2, <1>5, <1>6, <2>2, <2>3 DEF GotInv
<1>7. ASSUME Single, NEW r \in over, DStat(r) = "remote", r \notin DBad, r \notin expired, NEW k \in DRanks
      PROVE  Complete(k, r)
  <2>1. r \in Reqs /\ d.status[r] = "remote"
    BY <1>4, <1>7 DEF DUpdates
  <2>2. GotInv(k, r) /\ dr[k].invalid \subseteq dr[k].local
    BY <1>7, <2>1 DEF KVInv, Single
  <2>3. ~ Loading(r)'
    BY <1>3, <1>7, <2>1 DEF Loading
  <2>4. LocalInv(k, r)'
    BY <1>2, <1>7, <2>1, DecodeDUpdate DEF DecodeInv, Single
  <2>5. ~ Here(k, Load(r))' /\ r \notin dr[k].local
    BY <1>1, <2>3, <2>4 DEF LocalInv
  <2>6. k \notin DAwait(r) \/ r \in d.batch.done[k]
    BY <1>1, <2>5 DEF DAwait, Here
  <2>7. ~ Noted(k, r)
    BY <1>4, <1>7, <2>1, <2>2, <2>5 DEF Noted
  <2> QED BY <2>2, <2>6, <2>7 DEF GotInv
<1>8. ASSUME Single PROVE KVInv'
  <2>1. \A k \in DRanks, r \in Reqs \ expired' : d'.status[r] = "remote" => GotInv(k, r)'
    <3>1. \A r \in Reqs : d'.status[r] = "remote" => d.status[r] = "remote"
      BY <1>3, <1>4
    <3> QED BY <1>1, <1>6, <1>8, <3>1 DEF KVInv, Single
  <2>2. \A r \in d'.used \ expired', k \in DRanks : Complete(k, r)'
    <3>1. \A r \in d'.used \ expired', k \in DRanks : Complete(k, r)
      BY <1>1, <1>7, <1>8 DEF KVInv, Single, DUpdates
    <3> QED BY <1>1, <1>2, <3>1 DEF Complete
  <2> QED BY <1>1, <1>2, <1>8, <2>1, <2>2 DEF KVInv, Single
<1> QED BY <1>2, <1>8 DEF KVInv, Single

LEMMA KVNext ==
  ASSUME HeldInv, KVInv, [Next]_vars
  PROVE  KVInv'
<1>1. Shape /\ PInv /\ ChannelInv /\ DecodeInv
  BY DEF HeldInv
<1>2. CASE UNCHANGED vars \/ Rest
  BY <1>1, <1>2, KVKept DEF vars, Rest
<1>3. CASE \/ PSchedule \/ PUpdate
           \/ \E r \in Reqs : PAdmit(r) \/ PAbort(r) \/ Expire(r)
           \/ \E t \in PRanks : PStart(t) \/ PFinish(t)
  BY <1>1, <1>3, PScheduleSpec, PUpdateSpec, PAdmitSpec, PAbortSpec, ExpireSpec, PStartSpec,
     PFinishSpec,
     KVKept
<1>4. CASE DSchedule \/ DUpdate \/ \E r \in Reqs : DArrive(r) \/ DAdmit(r) \/ DAbort(r)
  BY <1>1, <1>4, KVDSchedule, KVDUpdate, KVArrive
<1>5. CASE \E k \in DRanks : DStart(k) \/ DLoad(k) \/ DReady(k) \/ TakeDone(k) \/ Report(k)
  BY <1>1, <1>5, KVDStart, KVDLoad, KVDReady, KVTakeDone, KVReport
<1>6. CASE \E k \in DRanks : DoneCallback(k) \/ RequestReady(k) \/ \E ok \in BOOLEAN : HandshakeEnds(k, ok)
  BY <1>1, <1>6, KVHandshake, KVRequestReady
<1>7. CASE \E k \in DRanks, r \in Reqs, t \in PRanks : ReadEnds(k, r, t) \/ ReadFails(k, r, t)
  BY <1>7, KVReads
<1> QED BY <1>2, <1>3, <1>4, <1>5, <1>6, <1>7 DEF Next

LEMMA KVInit ==
  ASSUME Init
  PROVE  KVInv
<1>1. d.used = {} /\ d.status = [r \in Reqs |-> "new"]
  BY DEF Init, DInit
<1>2. \A k \in DRanks : dr[k].invalid = {}
  BY DEF Init, WorkerInit
<1> QED BY <1>1, <1>2 DEF KVInv

\* A request that D runs with loaded KV has all of it: a read or a handshake that failed is in
\* _invalid_block_ids of its worker, and so known to D's scheduler (get_block_ids_with_load_errors)
\* by the time the last worker reports the request. Without the hypothesis a request may be reported
\* before all of its reads have ended (Observation 19).
THEOREM LoadsComplete == Spec /\ ~ OneOfSeveralFails => []LoadedKVIsComplete
<1>1. Init => HeldInv /\ KVInv
  BY HeldInit, KVInit
<1>2. HeldInv /\ KVInv /\ [Next]_vars => HeldInv' /\ KVInv'
  BY HeldNext, KVNext
<1>3. ~ OneOfSeveralFails /\ [Next]_vars => ~ OneOfSeveralFails'
  BY ConfigKept, Frozen
<1>4. KVInv /\ ~ OneOfSeveralFails => LoadedKVIsComplete
  BY DEF KVInv, LoadedKVIsComplete, Complete
<1> QED BY <1>1, <1>2, <1>3, <1>4, PTL DEF Spec
=============================================================================
