---------------------------- MODULE DataParallel ----------------------------
(***************************************************************************)
(* Waves of data parallel engines: DPEngineCoreProc (engine/core.py), the  *)
(* coordinator process (engine/coordinator.py) and the front ends          *)
(* (DPAsyncMPClient of engine/core_client.py).                             *)
(*                                                                         *)
(* Every forward pass of an expert-parallel model is a collective          *)
(* operation: it ends when all engines take part, an engine without work   *)
(* runs a dummy batch.  Every SyncEvery passes the engines agree, with an  *)
(* all-reduce, whether anybody has work left; if not the wave is over and  *)
(* all of them pause.  A request that arrives at a paused engine must wake *)
(* the others, or its forward pass never ends.                             *)
(*                                                                         *)
(* Each pair of processes has its own FIFO channel (a ZMQ socket); nothing *)
(* orders the messages of two channels.                                    *)
(***************************************************************************)
EXTENDS Naturals, Sequences, FiniteSets

CONSTANTS
  Engines,       \* dp ranks; rank 0 reports the end of a wave
  Fronts,        \* front-end processes
  Admin,         \* the front end whose client pauses and resumes
  SyncEvery,     \* passes between two all-reduces (32 in the code)
  Loads          \* what clients may do: bounds on the requests sent, on those
                 \* aborted or refused, and on the pauses

ASSUME DataParallelAssumption ==
  /\ 0 \in Engines
  /\ Admin \in Fronts
  /\ SyncEvery \in Nat \ {0}
  /\ Loads \subseteq [requests: Nat, aborts: Nat, pauses: Nat]

VARIABLES
  eng,        \* per engine: wave, running, todo, paused, steps, phase, ...
  coord,      \* the coordinator's current_wave and engines_running
  front,      \* per front end: current_wave and engines_running as it knows them
  firstReq,   \* FIRST_REQ notes from add_request_async to the stats task
  toEng,      \* front end to engine: requests, aborts, utility calls
  start,      \* coordinator to engine: START_DP_WAVE
  fromFront,  \* front end to coordinator
  fromEng,    \* engine to coordinator: wave_complete and start_wave
  toFront,    \* coordinator to front end: wave and running state
  admin,      \* the client that pauses: state and engines that have answered
  left        \* requests, aborts and pauses that may still come

vars == <<eng, coord, front, firstReq, toEng, start, fromFront, fromEng,
          toFront, admin, left>>

Waves == Nat

\* Whom a START_DP_WAVE message leaves out.  A front end passes on the identity of
\* the engine's socket, which is a byte string; an engine passes its index.
Nobody == [kind |-> "none", of |-> 0]
Index(i) == [kind |-> "index", of |-> i]
Identity(i) == [kind |-> "identity", of |-> i]

Excluded == {Nobody} \union UNION {{Index(i), Identity(i)} : i \in Engines}

FrontMessages ==
  [type: {"add"}, wave: Waves] \union [type: {"abort", "pause", "resume"}]

TypeOK ==
  /\ eng \in [Engines -> [wave: Waves, running: BOOLEAN, todo: Nat,
                          paused: BOOLEAN, owesReply: BOOLEAN,
                          steps: 0..SyncEvery - 1, unfinished: BOOLEAN,
                          phase: {"loop", "pass", "sync"}]]
  /\ coord \in [wave: Waves, running: BOOLEAN]
  /\ front \in [Fronts -> [wave: Waves, running: BOOLEAN]]
  /\ firstReq \in [Fronts -> Seq(Engines)]
  /\ toEng \in [Fronts -> [Engines -> Seq(FrontMessages)]]
  /\ start \in [Engines -> Seq([wave: Waves, exclude: Excluded])]
  /\ fromFront \in [Fronts -> Seq([exclude: {Identity(i) : i \in Engines}, wave: Waves])]
  /\ fromEng \in [Engines -> Seq([type: {"complete", "start"}, wave: Waves])]
  /\ toFront \in [Fronts -> Seq([wave: Waves, running: BOOLEAN])]
  /\ admin \in [state: {"resumed", "pausing", "paused"}, answered: SUBSET Engines]
  /\ left \in [requests: Nat, aborts: Nat, pauses: Nat]

Init ==
  /\ eng = [i \in Engines |->
              [wave |-> 0, running |-> FALSE, todo |-> 0, paused |-> FALSE,
               owesReply |-> FALSE, steps |-> 0, unfinished |-> FALSE,
               phase |-> "loop"]]
  /\ coord = [wave |-> 0, running |-> FALSE]
  /\ front = [f \in Fronts |-> [wave |-> 0, running |-> FALSE]]
  /\ firstReq = [f \in Fronts |-> <<>>]
  /\ toEng = [f \in Fronts |-> [i \in Engines |-> <<>>]]
  /\ start = [i \in Engines |-> <<>>]
  /\ fromFront = [f \in Fronts |-> <<>>]
  /\ fromEng = [i \in Engines |-> <<>>]
  /\ toFront = [f \in Fronts |-> <<>>]
  /\ admin = [state |-> "resumed", answered |-> {}]
  /\ left \in Loads

-----------------------------------------------------------------------------
(* Front ends *)

\* add_request_async, with any engine as the choice of the load balancer.
SendRequest(f, i) ==
  /\ left.requests > 0
  /\ left' = [left EXCEPT !.requests = @ - 1]
  /\ toEng' = [toEng EXCEPT ![f][i] =
                 Append(@, [type |-> "add", wave |-> front[f].wave])]
  /\ firstReq' = IF front[f].running THEN firstReq
                 ELSE [firstReq EXCEPT ![f] = Append(@, i)]
  /\ UNCHANGED <<eng, coord, front, start, fromFront, fromEng, toFront, admin>>

\* The client goes away: abort_requests_async.
SendAbort(f, i) ==
  /\ left.aborts > 0
  /\ eng[i].todo > 0 \/ toEng[f][i] # <<>>
  /\ left' = [left EXCEPT !.aborts = @ - 1]
  /\ toEng' = [toEng EXCEPT ![f][i] = Append(@, [type |-> "abort"])]
  /\ UNCHANGED <<eng, coord, front, firstReq, start, fromFront, fromEng, toFront,
                 admin>>

\* The stats task: poll, pass a FIRST_REQ on to the coordinator, then drain the
\* updates and keep the last.  k is the number of updates that have arrived.
FrontTask(f) ==
  \E k \in 0..Len(toFront[f]) :
    LET first == firstReq[f] # <<>> /\ (k = 0 \/ ~front[f].running)
        note == [exclude |-> Identity(Head(firstReq[f])), wave |-> front[f].wave]
    IN
    /\ k > 0 \/ first
    /\ firstReq' = IF first THEN [firstReq EXCEPT ![f] = Tail(@)] ELSE firstReq
    /\ fromFront' = IF first THEN [fromFront EXCEPT ![f] = Append(@, note)]
                    ELSE fromFront
    /\ front' = [front EXCEPT ![f] =
                   IF k > 0 THEN toFront[f][k] ELSE [@ EXCEPT !.running = TRUE]]
    /\ toFront' = [toFront EXCEPT ![f] = SubSeq(@, k + 1, Len(@))]
    /\ UNCHANGED <<eng, coord, toEng, start, fromEng, admin, left>>

-----------------------------------------------------------------------------
(* Coordinator *)

PublishToFronts(state) == toFront' = [f \in Fronts |-> Append(toFront[f], state)]

SendStartWave(wave, exclude) ==
  start' = [i \in Engines |-> Append(start[i], [wave |-> wave, exclude |-> exclude])]

\* A front end has sent a request while it believed the engines paused.
CoordinatorFirstReq(f) ==
  /\ fromFront[f] # <<>>
  /\ fromFront' = [fromFront EXCEPT ![f] = Tail(@)]
  /\ LET note == Head(fromFront[f]) IN
     IF coord.running
       THEN UNCHANGED <<coord, start, toFront>>
       ELSE /\ coord' = [coord EXCEPT !.running = TRUE]
            /\ SendStartWave(coord.wave,
                 IF note.wave < coord.wave THEN Nobody ELSE note.exclude)
            /\ PublishToFronts(coord')
  /\ UNCHANGED <<eng, front, firstReq, toEng, fromEng, admin, left>>

CoordinatorWaveComplete_Later ==
  /\ fromEng[0] # <<>> /\ Head(fromEng[0]).type = "complete"
  /\ fromEng' = [fromEng EXCEPT ![0] = Tail(@)]
  /\ LET wave == Head(fromEng[0]).wave IN
     IF coord.wave < wave
       THEN /\ coord' = [wave |-> wave + 1, running |-> FALSE]
            /\ PublishToFronts(coord')
       ELSE UNCHANGED <<coord, toFront>>
  /\ UNCHANGED <<eng, front, firstReq, toEng, start, fromFront, admin, left>>

\* Rank 0 says that a wave is complete.
CoordinatorWaveComplete ==
  /\ fromEng[0] # <<>> /\ Head(fromEng[0]).type = "complete"
  /\ fromEng' = [fromEng EXCEPT ![0] = Tail(@)]
  /\ LET wave == Head(fromEng[0]).wave IN
     IF coord.wave <= wave
       THEN /\ coord' = [wave |-> wave + 1, running |-> FALSE]
            /\ PublishToFronts(coord')
       ELSE UNCHANGED <<coord, toFront>>
  /\ UNCHANGED <<eng, front, firstReq, toEng, start, fromFront, admin, left>>

StartIsNews(wave) == wave > coord.wave \/ (wave = coord.wave /\ ~coord.running)

\* An engine has got a request of an earlier wave while it was paused.
CoordinatorStartWave(i) ==
  /\ fromEng[i] # <<>> /\ Head(fromEng[i]).type = "start"
  /\ fromEng' = [fromEng EXCEPT ![i] = Tail(@)]
  /\ LET wave == Head(fromEng[i]).wave IN
     IF StartIsNews(wave)
       THEN /\ coord' = [wave |-> wave, running |-> TRUE]
            /\ SendStartWave(wave, Index(i))
            /\ PublishToFronts(coord')
       ELSE UNCHANGED <<coord, start, toFront>>
  /\ UNCHANGED <<eng, front, firstReq, toEng, fromFront, admin, left>>

\* The periodic publication of the load also carries the wave.  One that would
\* tell no front end anything new is left out.
PublishStats ==
  /\ \A f \in Fronts : toFront[f] = <<>>
  /\ \E f \in Fronts : front[f] # coord
  /\ PublishToFronts(coord)
  /\ UNCHANGED <<eng, coord, front, firstReq, toEng, start, fromFront, fromEng,
                 admin, left>>

-----------------------------------------------------------------------------
(* Engines *)

\* scheduler.has_unfinished_requests(): a paused scheduler counts nothing.
HasUnfinished(e) == e.todo > 0 /\ ~e.paused

HasWork(e) == e.running \/ HasUnfinished(e)

Receive(f, i, type) ==
  /\ eng[i].phase = "loop"
  /\ toEng[f][i] # <<>> /\ Head(toEng[f][i]).type = type
  /\ toEng' = [toEng EXCEPT ![f][i] = Tail(@)]

AddRequest_NoStart(f, i) ==
  /\ Receive(f, i, "add")
  /\ eng' = [eng EXCEPT ![i].todo = @ + 1]
  /\ UNCHANGED <<coord, front, firstReq, start, fromFront, fromEng, toFront, admin,
                 left>>

\* DPEngineCoreProc.add_request.
AddRequest(f, i) ==
  LET wave == Head(toEng[f][i]).wave
      stale == /\ wave < eng[i].wave
               /\ ~eng[i].running
               /\ ~eng[i].paused
  IN
  /\ Receive(f, i, "add")
  /\ eng' = [eng EXCEPT ![i].todo = @ + 1,
                        ![i].wave = IF wave > @ THEN wave ELSE @,
                        ![i].running = @ \/ stale]
  /\ fromEng' = IF stale THEN [fromEng EXCEPT ![i] =
                                 Append(@, [type |-> "start", wave |-> eng[i].wave])]
                ELSE fromEng
  /\ UNCHANGED <<coord, front, firstReq, start, fromFront, toFront, admin, left>>

\* preprocess_add_request raises in the input thread: the engine never sees the
\* request.
RefuseRequest(f, i) ==
  /\ left.aborts > 0
  /\ left' = [left EXCEPT !.aborts = @ - 1]
  /\ Receive(f, i, "add")
  /\ UNCHANGED <<eng, coord, front, firstReq, start, fromFront, fromEng, toFront,
                 admin>>

AbortRequest(f, i) ==
  /\ Receive(f, i, "abort")
  /\ eng' = [eng EXCEPT ![i].todo = IF @ > 0 THEN @ - 1 ELSE 0]
  /\ UNCHANGED <<coord, front, firstReq, start, fromFront, fromEng, toFront, admin,
                 left>>

StartApplies(i, m) == m.exclude # Index(i) /\ m.wave >= eng[i].wave

\* _handle_client_request of START_DP_WAVE.
StartWave(i) ==
  /\ eng[i].phase = "loop"
  /\ start[i] # <<>>
  /\ start' = [start EXCEPT ![i] = Tail(@)]
  /\ eng' = IF StartApplies(i, Head(start[i]))
              THEN [eng EXCEPT ![i].wave = Head(start[i]).wave, ![i].running = TRUE]
              ELSE eng
  /\ UNCHANGED <<coord, front, firstReq, toEng, fromFront, fromEng, toFront, admin,
                 left>>

EnterPass_OnlyRunning(i) ==
  /\ eng[i].phase = "loop"
  /\ eng[i].running
  /\ eng' = [eng EXCEPT ![i].phase = "pass"]
  /\ UNCHANGED <<coord, front, firstReq, toEng, start, fromFront, fromEng, toFront,
                 admin, left>>

\* run_busy_loop: the engine has work, or must run a dummy batch for the others.
EnterPass(i) ==
  /\ eng[i].phase = "loop"
  /\ HasWork(eng[i])
  /\ eng' = [eng EXCEPT ![i].phase = "pass"]
  /\ UNCHANGED <<coord, front, firstReq, toEng, start, fromFront, fromEng, toFront,
                 admin, left>>

\* The forward pass needs every engine.  It completes one request of an engine
\* that has any; _has_global_unfinished_reqs then counts the step.
AfterPass(e) ==
  LET steps == (e.steps + 1) % SyncEvery
      todo == IF HasUnfinished(e) THEN e.todo - 1 ELSE e.todo
  IN [e EXCEPT !.todo = todo, !.steps = steps,
               !.unfinished = todo > 0 /\ ~e.paused,
               !.running = IF steps = 0 THEN @ ELSE TRUE,
               !.phase = IF steps = 0 THEN "sync" ELSE "loop"]

CompletePass ==
  /\ \A i \in Engines : eng[i].phase = "pass"
  /\ eng' = [i \in Engines |-> AfterPass(eng[i])]
  /\ UNCHANGED <<coord, front, firstReq, toEng, start, fromFront, fromEng, toFront,
                 admin, left>>

CompleteSync_RankZeroOnly ==
  LET more == \E i \in Engines : eng[i].unfinished IN
  /\ \A i \in Engines : eng[i].phase = "sync"
  /\ eng' = [i \in Engines |->
               [eng[i] EXCEPT !.phase = "loop", !.running = more,
                              !.wave = IF more \/ i # 0 THEN @ ELSE @ + 1]]
  /\ fromEng' = IF more THEN fromEng
                ELSE [fromEng EXCEPT ![0] =
                        Append(@, [type |-> "complete", wave |-> eng[0].wave])]
  /\ UNCHANGED <<coord, front, firstReq, toEng, start, fromFront, toFront, admin,
                 left>>

\* The all-reduce (has_unfinished_dp) and the end of the loop body.
CompleteSync ==
  LET more == \E i \in Engines : eng[i].unfinished IN
  /\ \A i \in Engines : eng[i].phase = "sync"
  /\ eng' = [i \in Engines |->
               [eng[i] EXCEPT !.phase = "loop", !.running = more,
                              !.wave = IF more THEN @ ELSE @ + 1]]
  /\ fromEng' = IF more THEN fromEng
                ELSE [fromEng EXCEPT ![0] =
                        Append(@, [type |-> "complete", wave |-> eng[0].wave])]
  /\ UNCHANGED <<coord, front, firstReq, toEng, start, fromFront, toFront, admin,
                 left>>

-----------------------------------------------------------------------------
(* Pausing (mode "keep") and resuming all engines *)

SendPause ==
  /\ admin.state = "resumed" /\ left.pauses > 0
  /\ admin' = [state |-> "pausing", answered |-> {}]
  /\ left' = [left EXCEPT !.pauses = @ - 1]
  /\ toEng' = [toEng EXCEPT ![Admin] =
                 [i \in Engines |-> Append(@[i], [type |-> "pause"])]]
  /\ UNCHANGED <<eng, coord, front, firstReq, start, fromFront, fromEng, toFront>>

Answer(i) ==
  LET all == admin.answered \union {i} IN
  admin' = [state |-> IF all = Engines THEN "paused" ELSE admin.state,
            answered |-> all]

\* pause_scheduler answers at once when the engine has no work.
Pause(i) ==
  LET busy == eng[i].running IN
  /\ Receive(Admin, i, "pause")
  /\ eng' = [eng EXCEPT ![i].paused = TRUE, ![i].owesReply = busy]
  /\ IF busy THEN UNCHANGED admin ELSE Answer(i)
  /\ UNCHANGED <<coord, front, firstReq, start, fromFront, fromEng, toFront, left>>

IdleCallback(i) ==
  /\ eng[i].phase = "loop" /\ eng[i].owesReply /\ ~HasWork(eng[i])
  /\ eng' = [eng EXCEPT ![i].owesReply = FALSE]
  /\ Answer(i)
  /\ UNCHANGED <<coord, front, firstReq, toEng, start, fromFront, fromEng, toFront,
                 left>>

SendResume ==
  /\ admin.state = "paused"
  /\ admin' = [admin EXCEPT !.state = "resumed"]
  /\ toEng' = [toEng EXCEPT ![Admin] =
                 [i \in Engines |-> Append(@[i], [type |-> "resume"])]]
  /\ UNCHANGED <<eng, coord, front, firstReq, start, fromFront, fromEng, toFront,
                 left>>

\* DPEngineCoreProc.resume_scheduler.
Resume(i) ==
  LET wake == ~eng[i].running /\ eng[i].todo > 0 IN
  /\ Receive(Admin, i, "resume")
  /\ eng' = [eng EXCEPT ![i].paused = FALSE]
  /\ fromEng' = IF wake THEN [fromEng EXCEPT ![i] =
                                Append(@, [type |-> "start", wave |-> eng[i].wave])]
                ELSE fromEng
  /\ UNCHANGED <<coord, front, firstReq, start, fromFront, toFront, admin, left>>

-----------------------------------------------------------------------------
EngineStep(i) ==
  \/ StartWave(i) \/ EnterPass(i) \/ IdleCallback(i) \/ Pause(i) \/ Resume(i)
  \/ \E f \in Fronts : AddRequest(f, i) \/ RefuseRequest(f, i) \/ AbortRequest(f, i)

CoordinatorStep ==
  \/ CoordinatorWaveComplete
  \/ \E f \in Fronts : CoordinatorFirstReq(f)
  \/ \E i \in Engines : CoordinatorStartWave(i)

Next ==
  \/ \E f \in Fronts : FrontTask(f)
  \/ \E f \in Fronts, i \in Engines : SendRequest(f, i) \/ SendAbort(f, i)
  \/ SendPause \/ SendResume
  \/ CoordinatorStep \/ PublishStats
  \/ \E i \in Engines : EngineStep(i)
  \/ CompletePass \/ CompleteSync

Spec == Init /\ [][Next]_vars

\* Every process keeps running its loop and every socket delivers; a collective
\* operation that all engines have entered ends.  Clients owe nothing.
FairSpec ==
  /\ Spec
  /\ WF_vars(CompletePass) /\ WF_vars(CompleteSync) /\ WF_vars(PublishStats)
  /\ WF_vars(CoordinatorWaveComplete)
  /\ \A f \in Fronts : WF_vars(FrontTask(f)) /\ WF_vars(CoordinatorFirstReq(f))
  /\ \A i \in Engines :
       /\ WF_vars(CoordinatorStartWave(i)) /\ WF_vars(StartWave(i))
       /\ WF_vars(EnterPass(i)) /\ WF_vars(IdleCallback(i))
       /\ WF_vars(Pause(i)) /\ WF_vars(Resume(i))
       /\ \A f \in Fronts :
            WF_vars(AddRequest(f, i) \/ RefuseRequest(f, i)) /\ WF_vars(AbortRequest(f, i))

-----------------------------------------------------------------------------
(* Properties *)

\* Engines never disagree about the wave, and nobody is ahead of them: waves are
\* counted by each engine on its own, by the coordinator from messages, and by the
\* front ends from the coordinator's messages, all of which may be late.
WavesAgree ==
  /\ \A i, j \in Engines : eng[i].wave = eng[j].wave
  /\ coord.wave <= eng[0].wave
  /\ \A f \in Fronts : front[f].wave <= coord.wave

\* The wave numbers are consistent, whatever is delayed.
WavesConsistent == TypeOK /\ WavesAgree

\* A sleeping engine is on the way to being woken whenever another engine waits for
\* it in a forward pass: a START_DP_WAVE for this wave is under way to it or in the
\* making, or it has work of its own.
SomebodyWakes(i) ==
  \/ HasWork(eng[i])
  \/ \E n \in DOMAIN start[i] : StartApplies(i, start[i][n])
  \/ \E f \in Fronts : firstReq[f] # <<>> \/ fromFront[f] # <<>>
  \/ \E j \in Engines : fromEng[j] # <<>>
NobodyWaitsForever ==
  \A i, j \in Engines :
    eng[i].phase = "pass" /\ eng[j].phase = "loop" => SomebodyWakes(j)

\* Every request that an engine has accepted is completed (or aborted), unless the
\* engine is paused.
RequestsComplete ==
  \A i \in Engines : eng[i].todo > 0 ~> (eng[i].todo = 0 \/ eng[i].paused)

\* When no more requests come, everybody learns that the engines are paused, and
\* agrees on the number of the next wave.
Quiescent ==
  /\ \A i \in Engines : eng[i].phase = "loop" /\ ~HasWork(eng[i])
  /\ coord = [wave |-> eng[0].wave, running |-> FALSE]
  /\ \A f \in Fronts : front[f] = coord
SettlesDown == <>[]Quiescent

\* Pausing all engines comes to an end, also when requests arrive at the same time
\* at engines that are paused already.
PauseCompletes == admin.state = "pausing" ~> admin.state = "paused"

\* Waves and pauses come to an end that all processes know of.
EnginesSettle == SettlesDown /\ PauseCompletes
=============================================================================
