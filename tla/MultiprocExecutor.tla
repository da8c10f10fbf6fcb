------------------------- MODULE MultiprocExecutor --------------------------
(***************************************************************************)
(* The executor that runs its workers in processes of their own:           *)
(* MultiprocExecutor, FutureWrapper and WorkerProc of                      *)
(* v1/executor/multiproc_executor.py, one node.                            *)
(*                                                                         *)
(* A call is broadcast to every worker through one bounded queue; the      *)
(* workers answer through one queue each.  No message carries the number   *)
(* of its call: an answer is matched with a call by its position alone.    *)
(* Three threads of the engine process and the worker processes            *)
(* interleave: the engine's thread makes the calls, the monitor's thread   *)
(* shuts everything down when a worker dies.                               *)
(***************************************************************************)
EXTENDS Integers, Sequences, SequencesExt, FiniteSetsExt

CONSTANTS
  NWorkers,      \* world_size
  OutputRank,    \* the worker that answers a call with unique_reply_rank
  MaxChunks,     \* chunks of rpc_broadcast_mq
  MaxCalls,      \* bound on the calls
  Configs        \* settings and bounds to start with: records as below

Workers == 0..NWorkers - 1
Calls == 1..MaxCalls

ASSUME ExecutorAssumption ==
  /\ NWorkers \in Nat \ {0}
  /\ OutputRank \in Workers
  /\ MaxChunks \in Nat \ {0}
  /\ MaxCalls \in Nat
  /\ Configs \subseteq [asyncOutput : BOOLEAN, stepReply : {"unique", "all"},
                       failing : SUBSET {"unique", "all"}, calls : 0..MaxCalls,
                       timeouts : Nat, crashes : Nat]

VARIABLES
  config,     \* chosen at the start
  calls,      \* the calls made: who answers, is it blocking, its queues
  sent,       \* rpc_broadcast_mq: every call that was broadcast
  taken,      \* per worker: how many of them it has dequeued
  job,        \* per worker: the call it executes, or 0
  outputs,    \* per worker: async_output_queue
  answers,    \* per worker: worker_response_mq
  futures,    \* futures_queue, the oldest future first
  outcome,    \* per call: what the caller got
  engine,     \* the engine's thread: program counter, call, future waited for
  reply,      \* the get_response() it is in: the call and the answers so far
  alive,      \* worker processes
  shutdown,   \* shutting_down, the queues and lists, is_failed, callback
  stage,      \* per thread, how far it is in shutdown()
  timeouts, crashes

workerVars == <<taken, job, outputs>>
vars == <<config, calls, sent, workerVars, answers, futures, outcome, engine, reply,
          alive, shutdown, stage, timeouts, crashes>>

AsyncOutput == config.asyncOutput \* use_async_scheduling: workers answer from
                                  \* a second thread
StepReply == config.stepReply     \* who answers the calls of a step, which do
                                  \* not block: "all" with a KV connector
                                  \* (kv_output_aggregator), else "unique"
FailingCalls == config.failing    \* which calls may raise in a worker
MaxTimeouts == config.timeouts    \* bound on the timeouts
MaxCrashes == config.crashes      \* bound on the workers that die by themselves

Threads == {"monitor", "engine"}
Answer == [call : Calls, worker : Workers, ok : BOOLEAN]
Pending == [status |-> "pending", got |-> <<>>]
Result(status, got) == [status |-> status, got |-> got]
NoReply == [call |-> 0, got |-> <<>>]

TypeOK ==
  /\ config \in Configs
  /\ calls \in Seq([reply : {"unique", "all"}, block : BOOLEAN, queues : Seq(Workers)])
  /\ sent \in Seq(Calls)
  /\ taken \in [Workers -> 0..MaxCalls]
  /\ job \in [Workers -> Calls \union {0}]
  /\ outputs \in [Workers -> Seq(Answer)]
  /\ answers \in [Workers -> Seq(Answer)]
  /\ futures \in Seq(Calls)
  /\ outcome \in [Calls -> [status : {"pending", "ok", "failed", "timeout", "cancelled"},
                            got : Seq(Answer)]]
  /\ engine \in [pc : {"idle", "bind", "enqueue", "queues", "wait", "shutdown"},
                 want : Calls \union {0}]
  /\ reply \in [call : Calls \union {0}, got : Seq(Answer)]
  /\ alive \in [Workers -> BOOLEAN]
  /\ shutdown \in [shutting : BOOLEAN, deathPipe : BOOLEAN, closed : BOOLEAN,
                   broadcastGone : BOOLEAN, listGone : BOOLEAN,
                   failed : BOOLEAN, informed : BOOLEAN]
  /\ stage \in [Threads -> {"none", "terminate", "close", "broadcast", "list", "done"}]
  /\ timeouts \in 0..MaxTimeouts /\ crashes \in 0..MaxCrashes

Init ==
  /\ config \in Configs
  /\ calls = <<>> /\ sent = <<>> /\ futures = <<>>
  /\ taken = [w \in Workers |-> 0]
  /\ job = [w \in Workers |-> 0]
  /\ outputs = [w \in Workers |-> <<>>]
  /\ answers = [w \in Workers |-> <<>>]
  /\ outcome = [c \in Calls |-> Pending]
  /\ engine = [pc |-> "idle", want |-> 0]
  /\ reply = NoReply
  /\ alive = [w \in Workers |-> TRUE]
  /\ shutdown = [shutting |-> FALSE, deathPipe |-> TRUE, closed |-> FALSE,
                 broadcastGone |-> FALSE, listGone |-> FALSE,
                 failed |-> FALSE, informed |-> FALSE]
  /\ stage = [t \in Threads |-> "none"]
  /\ timeouts = 0 /\ crashes = 0

-----------------------------------------------------------------------------
(* collective_rpc(): the call itself                                       *)

(* The workers that answer call c *)
Repliers(c) == IF calls[c].reply = "all" THEN Workers ELSE {OutputRank}

Return(c, status, got) == outcome' = [outcome EXCEPT ![c] = Result(status, got)]

(* Entry: the assertion on the queue and the check of is_failed *)
BeginCall(kind, block) ==
  /\ engine.pc = "idle"
  /\ Len(calls) < config.calls
  /\ ~block => kind = StepReply
  /\ calls' = Append(calls, [reply |-> kind, block |-> block, queues |-> <<>>])
  /\ LET c == Len(calls) + 1
     IN  IF shutdown.broadcastGone \/ shutdown.failed
         THEN Return(c, "failed", <<>>) /\ UNCHANGED engine
         ELSE engine' = [engine EXCEPT !.pc = "bind"] /\ UNCHANGED outcome
  /\ UNCHANGED <<config, sent, workerVars, answers, futures, reply, alive, shutdown, stage,
                 timeouts, crashes>>

(* self.rpc_broadcast_mq is read again for the enqueue *)
BindBroadcast ==
  /\ engine.pc = "bind"
  /\ IF shutdown.broadcastGone
     THEN /\ Return(Len(calls), "failed", <<>>)
          /\ engine' = [engine EXCEPT !.pc = "idle"]
     ELSE /\ engine' = [engine EXCEPT !.pc = "enqueue"]
          /\ UNCHANGED outcome
  /\ UNCHANGED <<config, calls, sent, workerVars, answers, futures, reply, alive, shutdown,
                 stage, timeouts, crashes>>

(* acquire_write() has no chunk while a worker has not read the oldest one; *)
(* it looks neither at a deadline nor at shutting_down                      *)
Enqueue ==
  /\ engine.pc = "enqueue"
  /\ Len(sent) - Min({taken[w] : w \in Workers}) < MaxChunks
  /\ sent' = Append(sent, Len(calls))
  /\ engine' = [engine EXCEPT !.pc = "queues"]
  /\ UNCHANGED <<config, calls, workerVars, answers, futures, outcome, reply, alive, shutdown,
                 stage, timeouts, crashes>>

(* The answer queues of this call: self.response_mqs, or one of them, which *)
(* does not exist once shutdown() has emptied the list.  A call that does   *)
(* not block leaves a future; one that does waits.                          *)
PickQueues ==
  /\ engine.pc = "queues"
  /\ LET c == Len(calls)
         queues == IF shutdown.listGone THEN <<>>
                   ELSE IF calls[c].reply = "unique" THEN <<OutputRank>>
                   ELSE [i \in 1..NWorkers |-> i - 1]
     IN  IF shutdown.listGone /\ calls[c].reply = "unique"
         THEN /\ Return(c, "failed", <<>>)
              /\ engine' = [engine EXCEPT !.pc = "idle"]
              /\ UNCHANGED <<calls, futures>>
         ELSE /\ calls' = [calls EXCEPT ![c].queues = queues]
              /\ IF calls[c].block
                 THEN /\ engine' = [pc |-> "wait", want |-> c]
                      /\ UNCHANGED futures
                 ELSE /\ futures' = Append(futures, c)
                      /\ engine' = [engine EXCEPT !.pc = "idle"]
              /\ UNCHANGED outcome
  /\ UNCHANGED <<config, sent, workerVars, answers, reply, alive, shutdown, stage, timeouts,
                 crashes>>

(* FutureWrapper.result() of a future that has no result yet *)
AskResult(c) ==
  /\ engine.pc = "idle"
  /\ c \in ToSet(futures)
  /\ engine' = [pc |-> "wait", want |-> c]
  /\ UNCHANGED <<config, calls, sent, workerVars, answers, futures, outcome, reply, alive,
                 shutdown, stage, timeouts, crashes>>

-----------------------------------------------------------------------------
(* get_response()                                                          *)

(* Which call is answered next: the oldest future; the call itself when no *)
(* future is left                                                          *)
StartResponse ==
  /\ engine.pc = "wait" /\ reply.call = 0
  /\ IF futures # <<>>
     THEN /\ reply' = [call |-> Head(futures), got |-> <<>>]
          /\ futures' = Tail(futures)
     ELSE /\ reply' = [call |-> engine.want, got |-> <<>>]
          /\ UNCHANGED futures
  /\ UNCHANGED <<config, calls, sent, workerVars, answers, outcome, engine, alive, shutdown,
                 stage, timeouts, crashes>>

(* The call has its result or its exception; the thread goes on with the   *)
(* next future unless this was the one it waits for                        *)
Resolve(status, got) ==
  /\ Return(reply.call, status, got)
  /\ reply' = NoReply
  /\ engine' = IF reply.call = engine.want THEN [pc |-> "idle", want |-> 0] ELSE engine

NextQueue == calls[reply.call].queues[Len(reply.got) + 1]

EndResponse_Reversed ==
  /\ reply.call # 0
  /\ Len(reply.got) = Len(calls[reply.call].queues)
  /\ Resolve("ok", Reverse(reply.got))
  /\ UNCHANGED <<config, calls, sent, workerVars, answers, futures, alive, shutdown, stage,
                 timeouts, crashes>>

EndResponse ==
  /\ reply.call # 0
  /\ Len(reply.got) = Len(calls[reply.call].queues)
  /\ Resolve("ok", reply.got)
  /\ UNCHANGED <<config, calls, sent, workerVars, answers, futures, alive, shutdown, stage,
                 timeouts, crashes>>

(* An answer is in the next queue: it is taken, and a FAILURE ends the call *)
TakeAnswer ==
  /\ reply.call # 0
  /\ Len(reply.got) < Len(calls[reply.call].queues)
  /\ answers[NextQueue] # <<>>
  /\ LET a == Head(answers[NextQueue])
     IN  /\ answers' = [answers EXCEPT ![NextQueue] = Tail(@)]
         /\ IF a.ok
            THEN /\ reply' = [reply EXCEPT !.got = Append(@, a)]
                 /\ UNCHANGED <<outcome, engine>>
            ELSE Resolve("failed", <<>>)
  /\ UNCHANGED <<config, calls, sent, workerVars, futures, alive, shutdown, stage, timeouts,
                 crashes>>

NoAnswer_IgnoresShutdown ==
  /\ reply.call # 0
  /\ Len(reply.got) < Len(calls[reply.call].queues)
  /\ answers[NextQueue] = <<>>
  /\ timeouts < MaxTimeouts /\ timeouts' = timeouts + 1 /\ Resolve("timeout", <<>>)
  /\ UNCHANGED <<config, calls, sent, workerVars, answers, futures, alive, shutdown, stage, crashes>>

(* The queue is empty: it was shut down, or the deadline passes *)
NoAnswer ==
  /\ reply.call # 0
  /\ Len(reply.got) < Len(calls[reply.call].queues)
  /\ answers[NextQueue] = <<>>
  /\ \/ shutdown.closed /\ Resolve("cancelled", <<>>) /\ UNCHANGED timeouts
     \/ timeouts < MaxTimeouts /\ timeouts' = timeouts + 1 /\ Resolve("timeout", <<>>)
  /\ UNCHANGED <<config, calls, sent, workerVars, answers, futures, alive, shutdown, stage, crashes>>

-----------------------------------------------------------------------------
(* WorkerProc.worker_busy_loop() of worker w                               *)

TakeCall(w) ==
  /\ alive[w] /\ job[w] = 0
  /\ taken[w] < Len(sent)
  /\ job' = [job EXCEPT ![w] = sent[taken[w] + 1]]
  /\ taken' = [taken EXCEPT ![w] = @ + 1]
  /\ UNCHANGED <<config, calls, sent, outputs, answers, futures, outcome, engine, reply, alive,
                 shutdown, stage, timeouts, crashes>>

(* The method returns, or raises.  An exception is an answer too; without  *)
(* output_rank every worker answers, else only that one.                   *)
FinishCall(w) ==
  /\ alive[w] /\ job[w] # 0
  /\ \E ok \in {TRUE} \union (IF calls[job[w]].reply \in FailingCalls THEN {FALSE} ELSE {}) :
       LET a == [call |-> job[w], worker |-> w, ok |-> ok]
       IN  /\ outputs' = IF AsyncOutput /\ w \in Repliers(job[w])
                         THEN [outputs EXCEPT ![w] = Append(@, a)] ELSE outputs
           /\ answers' = IF ~AsyncOutput /\ w \in Repliers(job[w])
                         THEN [answers EXCEPT ![w] = Append(@, a)] ELSE answers
  /\ job' = [job EXCEPT ![w] = 0]
  /\ UNCHANGED <<config, calls, sent, taken, futures, outcome, engine, reply, alive, shutdown,
                 stage, timeouts, crashes>>

(* async_output_busy_loop() *)
SendOutput(w) ==
  /\ alive[w] /\ outputs[w] # <<>>
  /\ answers' = [answers EXCEPT ![w] = Append(@, Head(outputs[w]))]
  /\ outputs' = [outputs EXCEPT ![w] = Tail(@)]
  /\ UNCHANGED <<config, calls, sent, taken, job, futures, outcome, engine, reply, alive,
                 shutdown, stage, timeouts, crashes>>

(* A worker dies by itself *)
Crash(w) ==
  /\ alive[w] /\ crashes < MaxCrashes
  /\ alive' = [alive EXCEPT ![w] = FALSE]
  /\ crashes' = crashes + 1
  /\ UNCHANGED <<config, calls, sent, workerVars, answers, futures, outcome, engine, reply,
                 shutdown, stage, timeouts>>

(* The death pipe is closed: the worker's queues are shut down and it      *)
(* leaves its loop, or it is terminated or killed where it is              *)
WorkerExit(w) ==
  /\ alive[w] /\ ~shutdown.deathPipe
  /\ alive' = [alive EXCEPT ![w] = FALSE]
  /\ UNCHANGED <<config, calls, sent, workerVars, answers, futures, outcome, engine, reply,
                 shutdown, stage, timeouts, crashes>>

-----------------------------------------------------------------------------
(* shutdown(), run by the engine's thread or by the monitor's              *)

Enter(t, sd) ==
  /\ shutdown' = [sd EXCEPT !.shutting = TRUE, !.deathPipe = @ /\ sd.shutting]
  /\ stage' = [stage EXCEPT ![t] = IF sd.shutting THEN "broadcast" ELSE "terminate"]

ShutdownStep(t) ==
  /\ \/ /\ stage[t] = "terminate" /\ \A w \in Workers : ~alive[w]
        /\ stage' = [stage EXCEPT ![t] = "close"] /\ UNCHANGED shutdown
     \/ /\ stage[t] = "close"
        /\ stage' = [stage EXCEPT ![t] = "broadcast"]
        /\ shutdown' = [shutdown EXCEPT !.closed = TRUE]
     \/ /\ stage[t] = "broadcast"
        /\ stage' = [stage EXCEPT ![t] = "list"]
        /\ shutdown' = [shutdown EXCEPT !.broadcastGone = TRUE]
     \/ /\ stage[t] = "list"
        /\ stage' = [stage EXCEPT ![t] = "done"]
        /\ shutdown' = [shutdown EXCEPT !.closed = TRUE, !.listGone = TRUE]
  /\ UNCHANGED <<config, calls, sent, workerVars, answers, futures, outcome, engine, reply, alive,
                 timeouts, crashes>>

EngineShutdown ==
  /\ engine.pc = "idle" /\ stage["engine"] = "none"
  /\ engine' = [engine EXCEPT !.pc = "shutdown"]
  /\ Enter("engine", shutdown)
  /\ UNCHANGED <<config, calls, sent, workerVars, answers, futures, outcome, reply, alive,
                 timeouts, crashes>>

(* monitor_workers(): a sentinel fires; nothing to do when the executor is *)
(* shutting down anyway                                                    *)
MonitorWakes ==
  /\ stage["monitor"] = "none"
  /\ \E w \in Workers : ~alive[w]
  /\ IF shutdown.shutting
     THEN stage' = [stage EXCEPT !["monitor"] = "done"] /\ UNCHANGED shutdown
     ELSE Enter("monitor", [shutdown EXCEPT !.failed = TRUE])
  /\ UNCHANGED <<config, calls, sent, workerVars, answers, futures, outcome, engine, reply, alive,
                 timeouts, crashes>>

InformEngine_Cleared ==
  /\ stage["monitor"] = "done"
  /\ shutdown.failed /\ ~shutdown.informed /\ ~shutdown.listGone
  /\ shutdown' = [shutdown EXCEPT !.informed = TRUE]
  /\ UNCHANGED <<config, calls, sent, workerVars, answers, futures, outcome, engine, reply, alive,
                 stage, timeouts, crashes>>

(* The failure callback: EXECUTOR_FAILED goes to the engine's input queue *)
InformEngine ==
  /\ stage["monitor"] = "done"
  /\ shutdown.failed /\ ~shutdown.informed
  /\ shutdown' = [shutdown EXCEPT !.informed = TRUE]
  /\ UNCHANGED <<config, calls, sent, workerVars, answers, futures, outcome, engine, reply, alive,
                 stage, timeouts, crashes>>

-----------------------------------------------------------------------------
CallStep ==
  \/ BindBroadcast \/ Enqueue \/ PickQueues
  \/ StartResponse \/ TakeAnswer \/ EndResponse \/ NoAnswer

WorkerStep(w) == TakeCall(w) \/ FinishCall(w) \/ SendOutput(w)

Next ==
  \/ \E kind \in {"unique", "all"}, block \in BOOLEAN : BeginCall(kind, block)
  \/ \E c \in Calls : AskResult(c)
  \/ BindBroadcast \/ Enqueue \/ PickQueues
  \/ StartResponse \/ TakeAnswer \/ EndResponse \/ NoAnswer
  \/ \E w \in Workers : TakeCall(w) \/ FinishCall(w) \/ SendOutput(w) \/ Crash(w) \/ WorkerExit(w)
  \/ EngineShutdown
  \/ \E t \in Threads : ShutdownStep(t)
  \/ MonitorWakes \/ InformEngine

Spec == Init /\ [][Next]_vars

(* Threads and processes that can run do run.  A process that is told to   *)
(* exit exits: SIGKILL is the last resort of _ensure_worker_termination.   *)
Fairness ==
  /\ WF_vars(CallStep)
  /\ \A w \in Workers : WF_vars(WorkerStep(w)) /\ WF_vars(WorkerExit(w))
  /\ \A t \in Threads : WF_vars(ShutdownStep(t))
  /\ WF_vars(MonitorWakes) /\ WF_vars(InformEngine)

LiveSpec == Spec /\ Fairness

-----------------------------------------------------------------------------
(* No call has timed out, and none that all workers answer has raised or   *)
(* was cancelled, so that no answer was left in a queue                    *)
NothingLeftOver ==
  \A c \in 1..Len(calls) :
    /\ outcome[c].status # "timeout"
    /\ outcome[c].status \in {"failed", "cancelled"} => calls[c].reply = "unique"

(* A call that returns has answers to this very call, the i-th one from    *)
(* the i-th of its queues: no answer of an earlier call is mistaken for    *)
(* one of this call, though answers carry no number.                       *)
OwnAnswers ==
  NothingLeftOver =>
    \A c \in 1..Len(calls) :
      outcome[c].status = "ok" =>
        \A i \in 1..Len(outcome[c].got) :
          /\ outcome[c].got[i].call = c
          /\ outcome[c].got[i].worker = calls[c].queues[i]

(* The calls that worker w has still to answer, or has answered with the   *)
(* answer on its way                                                       *)
Unanswered(w) == {c \in 1..Len(calls) : w \in Repliers(c) /\
  \/ \E a \in ToSet(answers[w]) \union ToSet(outputs[w]) : a.call = c
  \/ c = job[w]
  \/ \E i \in taken[w] + 1..Len(sent) : sent[i] = c}

(* The queues that the call being answered has been answered from          *)
Heard == {calls[reply.call].queues[i] : i \in 1..Len(reply.got)}

(* The calls that an answer of worker w is still to be taken for           *)
Awaited(w) == {c \in 1..Len(calls) : w \in Repliers(c) /\
  \/ c = reply.call /\ w \notin Heard
  \/ c \in ToSet(futures)
  \/ c = engine.want /\ c # reply.call
  \/ engine.pc = "queues" /\ c = Len(calls)}

(* A worker answers the calls in their order                               *)
AnsweredInOrder(w) ==
  LET way == answers[w] \o outputs[w]
  IN  /\ \A i, j \in 1..Len(way) : i < j => way[i].call < way[j].call
      /\ \A i \in 1..Len(way) :
           /\ job[w] # 0 => way[i].call < job[w]
           /\ \A j \in taken[w] + 1..Len(sent) : way[i].call < sent[j]

(* The engine takes the answers in that order: the call being answered is  *)
(* the oldest, then the futures, then a call that blocks                   *)
AwaitedInOrder ==
  LET fs == ToSet(futures)
      blocks == engine.want # 0 /\ engine.want \notin fs \union {reply.call}
  IN  /\ \A i, j \in 1..Len(futures) : i < j => futures[i] < futures[j]
      /\ \A c \in fs : reply.call < c /\ (blocks => c < engine.want)
      /\ blocks => reply.call < engine.want

(* What makes OwnAnswers true: for every worker, the answers on their way  *)
(* and the calls it has not answered yet are the unresolved calls that it  *)
(* is to answer, both in the order of the calls.                           *)
AnswersAligned ==
  NothingLeftOver /\ crashes = 0 =>
    /\ AwaitedInOrder
    /\ \A w \in Workers : Unanswered(w) = Awaited(w) /\ AnsweredInOrder(w)

(* The list that a call to every worker returns has one answer for every   *)
(* worker, as long as no worker has died.                                  *)
CompleteResults ==
  \A c \in 1..Len(calls) :
    outcome[c].status = "ok" /\ calls[c].reply = "all" /\ crashes = 0 =>
      Len(outcome[c].got) = NWorkers

(* A call gets the answers to itself, from all the workers it asked, though *)
(* answers and calls are matched by position alone (collective_rpc).       *)
AnswersMatchCalls == TypeOK /\ OwnAnswers /\ AnswersAligned /\ CompleteResults

(* The engine hears of a dead executor only when a worker died before any  *)
(* shutdown was asked for: the workers that shutdown() itself ends raise    *)
(* no alarm.                                                               *)
AlarmMeansCrash == shutdown.failed => crashes > 0

(* When a worker dies, the engine is told, or is shutting the executor     *)
(* down itself.                                                            *)
CrashIsReported == [](crashes > 0 => <>(shutdown.informed \/ stage["engine"] = "done"))

(* The failure callback runs when a worker died, and only then.            *)
AlarmsAreTrue == []AlarmMeansCrash /\ CrashIsReported

(* A thread that waits for a call gets an answer or an exception, also     *)
(* when a worker dies under it.                                            *)
CallsReturn == []((engine.pc \notin {"idle", "shutdown"}) => <>(engine.pc = "idle"))
=============================================================================
