---------------------- MODULE MultiprocExecutorProofs -----------------------
(***************************************************************************)
(* Proofs about MultiprocExecutor: for every number of workers, calls and  *)
(* chunks, with calls that raise, deadlines that pass, workers that die    *)
(* and a shutdown at any time, a call gets the answers to itself.          *)
(***************************************************************************)
EXTENDS MultiprocExecutor, SequenceTheorems, TLAPS

-----------------------------------------------------------------------------
(* The inductive invariant                                                  *)

\* The engine's thread has begun a call and not picked its queues yet.
Picking == engine.pc \in {"bind", "enqueue", "queues"}

\* No call will be broadcast any more.
NoMoreCalls == shutdown.broadcastGone /\ ~Picking

AllDead == \A w \in Workers : ~alive[w]

\* How shutdown() has gone so far; with no crash only the engine's thread runs it,
\* and makes no call afterwards.
ShutdownInv ==
  /\ \A t \in Threads : stage[t] = "list" => shutdown.broadcastGone
  /\ shutdown.listGone => shutdown.broadcastGone /\ shutdown.closed
  /\ engine.pc # "shutdown" => stage["engine"] = "none"
  /\ stage["monitor"] \in {"close", "broadcast", "list"} => AllDead
  /\ shutdown.closed => AllDead \/ engine.pc = "shutdown"
  /\ ~shutdown.deathPipe => shutdown.shutting
  /\ crashes = 0 =>
       /\ stage["monitor"] \in {"none", "done"}
       /\ (\E w \in Workers : ~alive[w]) => shutdown.shutting
       /\ shutdown.shutting \/ shutdown.broadcastGone \/ shutdown.closed
            => engine.pc = "shutdown"
       /\ ~shutdown.failed

\* Call c has picked its queues and is not answered yet.
Open(c) ==
  \/ \E i \in 1..Len(futures) : futures[i] = c
  \/ c = reply.call /\ c # 0
  \/ c = engine.want /\ c # 0

FullQueues(c) ==
  IF calls[c].reply = "unique" THEN <<OutputRank>> ELSE [i \in 1..NWorkers |-> i - 1]

\* An open call has all its queues, or it has none and is the last call.
Picked(c) ==
  \/ calls[c].queues = FullQueues(c)
  \/ /\ calls[c].queues = <<>> /\ calls[c].reply = "all"
     /\ crashes # 0 /\ NoMoreCalls
     /\ \A d \in Calls : Open(d) => d <= c

\* AwaitedInOrder, said of positions.
FuturesInOrder ==
  LET blocks == engine.want # 0 /\ engine.want # reply.call
                  /\ \A i \in 1..Len(futures) : futures[i] # engine.want
  IN  /\ \A i, j \in 1..Len(futures) : i < j => futures[i] < futures[j]
      /\ \A i \in 1..Len(futures) :
           reply.call < futures[i] /\ (blocks => futures[i] < engine.want)
      /\ blocks => reply.call < engine.want

\* Which calls are open, and in which order they will be answered.
EngineInv ==
  /\ Len(calls) <= MaxCalls
  /\ engine.pc = "wait" <=> engine.want # 0
  /\ reply.call # 0 => engine.pc = "wait"
  /\ Picking => Len(calls) # 0 /\ outcome[Len(calls)].status = "pending"
  /\ \A c \in Calls : c > Len(calls) => outcome[c].status = "pending"
  /\ \A c \in Calls : Open(c) =>
       /\ c <= Len(calls) /\ outcome[c].status = "pending" /\ Picked(c)
       /\ Picking => c < Len(calls)
  /\ FuturesInOrder
  /\ reply.call # 0 => Len(reply.got) <= Len(calls[reply.call].queues)

\* Every call is broadcast at most once, in the order of the calls.
SentInv ==
  /\ \A i \in 1..Len(sent) : sent[i] <= Len(calls)
  /\ \A i, j \in 1..Len(sent) : i < j => sent[i] < sent[j]
  /\ Len(sent) <= Len(calls)
  /\ engine.pc \in {"bind", "enqueue"} =>
       Len(sent) < Len(calls) /\ \A i \in 1..Len(sent) : sent[i] < Len(calls)

\* A worker takes the calls in turn and answers those it is to answer, in their order.
Takes(w) ==
  /\ taken[w] <= Len(sent)
  /\ job[w] # 0 => taken[w] # 0 /\ job[w] = sent[taken[w]]

IsAnswer(w, a) ==
  /\ a.worker = w /\ w \in Repliers(a.call)
  /\ \E i \in 1..taken[w] : sent[i] = a.call /\ (job[w] # 0 => i < taken[w])

CallsRise(s) == \A i, j \in 1..Len(s) : i < j => s[i].call < s[j].call

Answers(w) ==
  /\ \A i \in 1..Len(answers[w]) : IsAnswer(w, answers[w][i])
  /\ \A i \in 1..Len(outputs[w]) : IsAnswer(w, outputs[w][i])
  /\ CallsRise(answers[w]) /\ CallsRise(outputs[w])
  /\ \A i \in 1..Len(answers[w]), j \in 1..Len(outputs[w]) :
       answers[w][i].call < outputs[w][j].call
  /\ ~AsyncOutput => outputs[w] = <<>>

WorkersInv == \A w \in Workers : Takes(w) /\ Answers(w)

HasCall(s, c) == \E i \in 1..Len(s) : s[i].call = c

\* Worker w has still to answer call c, or its answer is on its way.
InFlight(w, c) ==
  \/ HasCall(answers[w], c)
  \/ HasCall(outputs[w], c)
  \/ c = job[w]
  \/ \E i \in taken[w] + 1..Len(sent) : sent[i] = c

\* The answer of worker w to call c is still to be taken.
Waits(w, c) ==
  \/ c = reply.call /\ w \notin Heard
  \/ \E i \in 1..Len(futures) : futures[i] = c
  \/ c = engine.want /\ c # reply.call
  \/ engine.pc = "queues" /\ c = Len(calls)

\* The answer of w to call c will never be taken: w is dead and its queue empty, or
\* every call that is still to be answered is older than c.
Lost(w, c) ==
  /\ crashes # 0
  /\ \/ AllDead /\ answers[w] = <<>>
     \/ NoMoreCalls /\ \A d \in Calls : Open(d) => d < c

Accounted(w, c) ==
  /\ Waits(w, c) => InFlight(w, c)
  /\ InFlight(w, c) => Waits(w, c) \/ Lost(w, c)

AllAccounted ==
  \A w \in Workers, c \in 1..Len(calls) : w \in Repliers(c) => Accounted(w, c)

\* The answers to the call being answered.
HasOwn ==
  reply.call # 0 =>
    \A i \in 1..Len(reply.got) :
      /\ reply.got[i].call = reply.call
      /\ reply.got[i].worker = calls[reply.call].queues[i]

\* What calls and answers have to do with each other.
Matched == NothingLeftOver => AllAccounted /\ HasOwn

ExecInv ==
  /\ TypeOK /\ ShutdownInv /\ EngineInv /\ SentInv /\ WorkersInv
  /\ Matched /\ OwnAnswers /\ CompleteResults

-----------------------------------------------------------------------------
(* Types *)

CallRec == [reply : {"unique", "all"}, block : BOOLEAN, queues : Seq(Workers)]
Outcome == [status : {"pending", "ok", "failed", "timeout", "cancelled"}, got : Seq(Answer)]

LEMMA ToSetDef ==
    ASSUME NEW S, NEW s \in Seq(S), NEW c
    PROVE  c \in ToSet(s) <=> \E i \in 1..Len(s) : s[i] = c
  BY DEF ToSet

LEMMA ConfigSpec ==
    ASSUME TypeOK
    PROVE  /\ config.calls \in 0..MaxCalls /\ MaxTimeouts \in Nat /\ MaxCrashes \in Nat
           /\ NWorkers \in Nat \ {0} /\ MaxCalls \in Nat /\ OutputRank \in Workers
           /\ Workers = 0..NWorkers - 1 /\ Calls = 1..MaxCalls
           /\ StepReply \in {"unique", "all"}
  BY ExecutorAssumption DEF TypeOK, MaxTimeouts, MaxCrashes, StepReply, Workers, Calls

LEMMA EngineType ==
    ASSUME TypeOK
    PROVE  /\ engine.pc \in {"idle", "bind", "enqueue", "queues", "wait", "shutdown"}
           /\ engine.want \in Calls \union {0}
           /\ reply.call \in Calls \union {0} /\ reply.got \in Seq(Answer)
           /\ engine = [pc |-> engine.pc, want |-> engine.want]
           /\ reply = [call |-> reply.call, got |-> reply.got]
           /\ Len(calls) \in Nat /\ Len(sent) \in Nat /\ Len(futures) \in Nat
           /\ Len(reply.got) \in Nat
  BY DEF TypeOK

LEMMA CallType ==
    ASSUME TypeOK, NEW c \in 1..Len(calls)
    PROVE  /\ calls[c] \in CallRec /\ calls[c].reply \in {"unique", "all"}
           /\ calls[c].queues \in Seq(Workers) /\ Len(calls[c].queues) \in Nat
           /\ calls[c].block \in BOOLEAN
<1>1. calls \in Seq(CallRec)
  BY DEF TypeOK, CallRec
<1>2. calls[c] \in CallRec
  BY <1>1
<1> QED BY <1>2 DEF CallRec

LEMMA WorkerType ==
    ASSUME TypeOK, NEW w \in Workers
    PROVE  /\ taken[w] \in 0..MaxCalls /\ job[w] \in Calls \union {0}
           /\ outputs[w] \in Seq(Answer) /\ answers[w] \in Seq(Answer)
           /\ Len(outputs[w]) \in Nat /\ Len(answers[w]) \in Nat /\ alive[w] \in BOOLEAN
  BY DEF TypeOK

\* An open call and the queues it has picked.
LEMMA OpenCall ==
    ASSUME TypeOK, EngineInv, NEW c \in Calls, Open(c)
    PROVE  /\ c \in 1..Len(calls) /\ outcome[c].status = "pending" /\ Picked(c)
           /\ calls[c] \in CallRec /\ calls[c].queues \in Seq(Workers)
           /\ Len(calls[c].queues) \in Nat
<1>1. c \in 1..Len(calls)
  BY ConfigSpec, EngineType DEF EngineInv
<1> QED BY <1>1, CallType DEF EngineInv

LEMMA ReplyOpen ==
    ASSUME TypeOK, EngineInv, reply.call # 0
    PROVE  /\ reply.call \in Calls /\ Open(reply.call)
           /\ reply.call \in 1..Len(calls) /\ outcome[reply.call].status = "pending"
           /\ Picked(reply.call)
           /\ calls[reply.call].queues \in Seq(Workers)
           /\ Len(calls[reply.call].queues) \in Nat
           /\ Len(reply.got) <= Len(calls[reply.call].queues)
           /\ engine.pc = "wait"
<1>1. reply.call \in Calls /\ Open(reply.call)
  BY EngineType DEF Open
<1> QED BY <1>1, OpenCall DEF EngineInv

LEMMA InitExec == Init => ExecInv
<1> SUFFICES ASSUME Init PROVE ExecInv
  OBVIOUS
<1> USE DEF Init
<1>1. TypeOK
  <2>1. \A S : <<>> \in Seq(S)
    OBVIOUS
  <2>2. Pending \in Outcome /\ NoReply \in [call : Calls \union {0}, got : Seq(Answer)]
    BY <2>1 DEF Pending, Outcome, NoReply
  <2>3. MaxTimeouts \in Nat /\ MaxCrashes \in Nat /\ MaxCalls \in Nat
    BY ExecutorAssumption DEF MaxTimeouts, MaxCrashes
  <2>4. timeouts \in 0..MaxTimeouts /\ crashes \in 0..MaxCrashes /\ 0 \in 0..MaxCalls
    BY <2>3
  <2> QED BY <2>1, <2>2, <2>4 DEF TypeOK, Outcome
<1>2. ShutdownInv
  BY DEF ShutdownInv, Threads
<1>3. EngineInv
  BY ExecutorAssumption DEF EngineInv, Picking, Open, FuturesInOrder, NoReply, Pending, Calls
<1>4. SentInv
  BY DEF SentInv
<1>5. WorkersInv
  BY DEF WorkersInv, Takes, Answers, CallsRise, Workers
<1>6. Matched /\ OwnAnswers /\ CompleteResults
  BY DEF Matched, AllAccounted, HasOwn, NoReply, OwnAnswers, CompleteResults
<1> QED BY <1>1, <1>2, <1>3, <1>4, <1>5, <1>6 DEF ExecInv

\* How the thread goes on when the call being answered has its result.
LEMMA ResolveSpec ==
    ASSUME TypeOK, EngineInv, reply.call # 0,
           NEW status \in {"ok", "failed", "timeout", "cancelled"}, NEW got \in Seq(Answer),
           Resolve(status, got)
    PROVE  /\ outcome' \in [Calls -> Outcome]
           /\ outcome'[reply.call].status = status /\ outcome'[reply.call].got = got
           /\ \A c \in Calls : c # reply.call => outcome'[c] = outcome[c]
           /\ reply' \in [call : Calls \union {0}, got : Seq(Answer)]
           /\ reply'.call = 0 /\ reply'.got = <<>>
           /\ engine' \in [pc : {"idle", "wait"}, want : Calls \union {0}]
           /\ engine'.pc = "wait" <=> engine'.want # 0
           /\ engine'.want = IF reply.call = engine.want THEN 0 ELSE engine.want
<1>1. reply.call \in Calls /\ engine.pc = "wait" /\ engine.want # 0
  BY ReplyOpen DEF EngineInv
<1>2. outcome \in [Calls -> Outcome]
  BY DEF TypeOK, Outcome
<1>3. Result(status, got) \in Outcome
  BY DEF Result, Outcome
<1>4. outcome' = [outcome EXCEPT ![reply.call] = Result(status, got)]
  BY DEF Resolve, Return
<1>5. /\ outcome' \in [Calls -> Outcome]
      /\ outcome'[reply.call] = Result(status, got)
      /\ \A c \in Calls : c # reply.call => outcome'[c] = outcome[c]
  BY <1>1, <1>2, <1>3, <1>4
<1>6. outcome'[reply.call].status = status /\ outcome'[reply.call].got = got
  BY <1>5 DEF Result
<1>7. reply' = [call |-> 0, got |-> <<>>]
  BY DEF Resolve, NoReply
<1>8. <<>> \in Seq(Answer)
  OBVIOUS
<1>9. engine' \in [pc : {"idle", "wait"}, want : Calls \union {0}]
  BY <1>1, EngineType DEF Resolve
<1>10. /\ engine'.pc = "wait" <=> engine'.want # 0
       /\ engine'.want = IF reply.call = engine.want THEN 0 ELSE engine.want
  BY <1>1, EngineType DEF Resolve
<1> QED BY <1>5, <1>6, <1>7, <1>8, <1>9, <1>10

\* Each way in which the call being answered is resolved.
Resolved(status, got) ==
  /\ reply.call # 0
  /\ status \in {"ok", "failed", "timeout", "cancelled"}
  /\ got \in Seq(Answer)
  /\ Resolve(status, got)

LEMMA TakeSpec ==
    ASSUME TypeOK, EngineInv, TakeAnswer
    PROVE  /\ reply.call # 0 /\ NextQueue \in Workers
           /\ Len(reply.got) < Len(calls[reply.call].queues)
           /\ answers[NextQueue] # <<>> /\ answers[NextQueue] \in Seq(Answer)
           /\ Head(answers[NextQueue]) \in Answer
           /\ answers' = [answers EXCEPT ![NextQueue] = Tail(answers[NextQueue])]
           /\ \/ Resolved("failed", <<>>)
              \/ /\ reply' = [call |-> reply.call,
                              got |-> Append(reply.got, Head(answers[NextQueue]))]
                 /\ UNCHANGED <<outcome, engine>>
<1> USE DEF TakeAnswer
<1>1. NextQueue \in Workers
  <2>1. Len(reply.got) + 1 \in 1..Len(calls[reply.call].queues)
    BY ReplyOpen, EngineType
  <2> QED BY <2>1, ReplyOpen DEF NextQueue
<1>2. answers[NextQueue] \in Seq(Answer)
  BY <1>1 DEF TypeOK
<1>3. Head(answers[NextQueue]) \in Answer
  BY <1>2
<1>4. \/ Resolved("failed", <<>>)
      \/ /\ reply' = [call |-> reply.call,
                      got |-> Append(reply.got, Head(answers[NextQueue]))]
         /\ UNCHANGED <<outcome, engine>>
  <2>1. <<>> \in Seq(Answer)
    OBVIOUS
  <2>2. CASE Head(answers[NextQueue]).ok
    BY <2>2, EngineType
  <2>3. CASE ~Head(answers[NextQueue]).ok
    BY <2>1, <2>3 DEF Resolved
  <2> QED BY <2>2, <2>3
<1> QED BY <1>1, <1>2, <1>3, <1>4

\* The queues of a call that picks them, and what becomes of the call.
PickedQueues(c) ==
  IF shutdown.listGone THEN <<>> ELSE FullQueues(c)

LEMMA FullQueuesType ==
    ASSUME TypeOK, NEW c \in 1..Len(calls)
    PROVE  /\ FullQueues(c) \in Seq(Workers)
           /\ Len(FullQueues(c)) = IF calls[c].reply = "unique" THEN 1 ELSE NWorkers
           /\ \A w \in Workers :
                w \in Repliers(c) <=> \E i \in 1..Len(FullQueues(c)) : FullQueues(c)[i] = w
           /\ \A i, j \in 1..Len(FullQueues(c)) :
                FullQueues(c)[i] = FullQueues(c)[j] => i = j
<1>1. NWorkers \in Nat \ {0} /\ OutputRank \in Workers /\ Workers = 0..NWorkers - 1
  BY ConfigSpec
<1>2. CASE calls[c].reply = "unique"
  <2>1. FullQueues(c) = <<OutputRank>> /\ Repliers(c) = {OutputRank}
    BY <1>2 DEF FullQueues, Repliers
  <2> QED BY <1>1, <1>2, <2>1
<1>3. CASE calls[c].reply # "unique"
  <2>1. FullQueues(c) = [i \in 1..NWorkers |-> i - 1] /\ Repliers(c) = Workers
    BY <1>3, CallType DEF FullQueues, Repliers
  <2>2. \A i \in 1..NWorkers : i - 1 \in Workers
    BY <1>1
  <2>3. FullQueues(c) \in Seq(Workers) /\ Len(FullQueues(c)) = NWorkers
    BY <1>1, <2>1, <2>2
  <2>4. \A i \in 1..NWorkers : FullQueues(c)[i] = i - 1
    BY <2>1
  <2>5. \A w \in Workers : w + 1 \in 1..NWorkers /\ FullQueues(c)[w + 1] = w
    BY <1>1, <2>4
  <2>6. \A i, j \in 1..NWorkers : FullQueues(c)[i] = FullQueues(c)[j] => i = j
    BY <1>1, <2>4
  <2> QED BY <1>3, <2>1, <2>3, <2>5, <2>6
<1> QED BY <1>2, <1>3

LEMMA PickSpec ==
    ASSUME TypeOK, EngineInv, PickQueues
    PROVE  /\ Len(calls) \in 1..Len(calls) /\ Len(calls) \in Calls
           /\ calls[Len(calls)].reply \in {"unique", "all"}
           /\ \/ /\ shutdown.listGone /\ calls[Len(calls)].reply = "unique"
                 /\ outcome' = [outcome EXCEPT ![Len(calls)] = Result("failed", <<>>)]
                 /\ engine' = [pc |-> "idle", want |-> engine.want]
                 /\ UNCHANGED <<calls, futures>>
              \/ /\ ~shutdown.listGone \/ calls[Len(calls)].reply = "all"
                 /\ calls' \in Seq(CallRec) /\ Len(calls') = Len(calls)
                 /\ calls'[Len(calls)].queues = PickedQueues(Len(calls))
                 /\ \A d \in 1..Len(calls) :
                      /\ calls'[d].reply = calls[d].reply
                      /\ d # Len(calls) => calls'[d] = calls[d]
                 /\ \/ /\ engine' = [pc |-> "wait", want |-> Len(calls)]
                       /\ UNCHANGED futures
                    \/ /\ futures' = Append(futures, Len(calls))
                       /\ engine' = [pc |-> "idle", want |-> engine.want]
                 /\ UNCHANGED outcome
<1> DEFINE c == Len(calls)
<1>1. c \in 1..Len(calls)
  BY EngineType DEF PickQueues, EngineInv, Picking
<1>2. calls \in Seq(CallRec) /\ calls[c] \in CallRec /\ calls[c].reply \in {"unique", "all"}
  BY <1>1, CallType DEF TypeOK, CallRec
<1>3. c \in Calls
  BY <1>1, ConfigSpec, EngineType DEF EngineInv
<1>4. PickedQueues(c) = IF shutdown.listGone THEN <<>>
                        ELSE IF calls[c].reply = "unique" THEN <<OutputRank>>
                        ELSE [i \in 1..NWorkers |-> i - 1]
  BY DEF PickedQueues, FullQueues
<1>5. PickedQueues(c) \in Seq(Workers)
  BY <1>1, FullQueuesType DEF PickedQueues
<1>6. CASE shutdown.listGone /\ calls[c].reply = "unique"
  BY <1>1, <1>2, <1>3, <1>6, EngineType DEF PickQueues, Return
<1>7. CASE ~(shutdown.listGone /\ calls[c].reply = "unique")
  <2>1. calls' = [calls EXCEPT ![c].queues = PickedQueues(c)]
    BY <1>4, <1>7 DEF PickQueues
  <2>2. calls' = [calls EXCEPT ![c] = [calls[c] EXCEPT !.queues = PickedQueues(c)]]
    BY <2>1
  <2>3. [calls[c] EXCEPT !.queues = PickedQueues(c)] \in CallRec
    BY <1>2, <1>5 DEF CallRec
  <2>4. /\ [calls[c] EXCEPT !.queues = PickedQueues(c)].queues = PickedQueues(c)
        /\ [calls[c] EXCEPT !.queues = PickedQueues(c)].reply = calls[c].reply
    BY <1>2 DEF CallRec
  <2>5. /\ calls' \in Seq(CallRec) /\ Len(calls') = Len(calls)
        /\ calls'[c] = [calls[c] EXCEPT !.queues = PickedQueues(c)]
        /\ \A d \in 1..Len(calls) : d # c => calls'[d] = calls[d]
    BY <1>1, <1>2, <2>2, <2>3
  <2>6. /\ \/ /\ engine' = [pc |-> "wait", want |-> c]
              /\ UNCHANGED futures
           \/ /\ futures' = Append(futures, c)
              /\ engine' = [pc |-> "idle", want |-> engine.want]
        /\ UNCHANGED outcome
    BY <1>7, EngineType DEF PickQueues
  <2> QED BY <1>1, <1>2, <1>3, <1>7, <2>4, <2>5, <2>6
<1> QED BY <1>6, <1>7

\* The step that a call is made with.
LEMMA BeginSpec ==
    ASSUME TypeOK, EngineInv, NEW kind \in {"unique", "all"}, NEW block \in BOOLEAN,
           BeginCall(kind, block)
    PROVE  /\ engine.pc = "idle" /\ Len(calls) + 1 \in Calls
           /\ calls' \in Seq(CallRec) /\ Len(calls') = Len(calls) + 1
           /\ calls'[Len(calls) + 1].reply = kind
           /\ \A d \in 1..Len(calls) : calls'[d] = calls[d]
           /\ \/ /\ shutdown.broadcastGone \/ shutdown.failed
                 /\ outcome' = [outcome EXCEPT ![Len(calls) + 1] = Result("failed", <<>>)]
                 /\ UNCHANGED engine
              \/ /\ ~shutdown.broadcastGone
                 /\ engine' = [pc |-> "bind", want |-> engine.want]
                 /\ UNCHANGED outcome
<1> DEFINE c == Len(calls) + 1
<1>1. calls \in Seq(CallRec)
  BY DEF TypeOK, CallRec
<1>2. <<>> \in Seq(Workers)
  OBVIOUS
<1>3. [reply |-> kind, block |-> block, queues |-> <<>>] \in CallRec
  BY <1>2 DEF CallRec
<1>4. c \in Calls
  BY ConfigSpec, EngineType DEF BeginCall
<1>5. calls' = Append(calls, [reply |-> kind, block |-> block, queues |-> <<>>])
  BY DEF BeginCall
<1>6. calls' \in Seq(CallRec) /\ Len(calls') = c /\ \A d \in 1..Len(calls) : calls'[d] = calls[d]
  BY <1>1, <1>3, <1>5
<1>7. calls'[c] = [reply |-> kind, block |-> block, queues |-> <<>>]
  BY <1>1, <1>3, <1>5
<1>8. \/ /\ shutdown.broadcastGone \/ shutdown.failed
         /\ outcome' = [outcome EXCEPT ![c] = Result("failed", <<>>)]
         /\ UNCHANGED engine
      \/ /\ ~shutdown.broadcastGone
         /\ engine' = [pc |-> "bind", want |-> engine.want]
         /\ UNCHANGED outcome
  BY EngineType DEF BeginCall, Return
<1> QED BY <1>4, <1>6, <1>7, <1>8 DEF BeginCall

LEMMA BindSpec ==
    ASSUME TypeOK, EngineInv, BindBroadcast
    PROVE  /\ engine.pc = "bind" /\ Len(calls) \in Calls /\ Len(calls) # 0
           /\ \/ /\ shutdown.broadcastGone
                 /\ outcome' = [outcome EXCEPT ![Len(calls)] = Result("failed", <<>>)]
                 /\ engine' = [pc |-> "idle", want |-> engine.want]
              \/ /\ ~shutdown.broadcastGone
                 /\ engine' = [pc |-> "enqueue", want |-> engine.want]
                 /\ UNCHANGED outcome
  BY ConfigSpec, EngineType DEF BindBroadcast, EngineInv, Picking, Return

LEMMA StartSpec ==
    ASSUME TypeOK, EngineInv, StartResponse
    PROVE  /\ engine.pc = "wait" /\ engine.want \in Calls /\ reply.call = 0
           /\ \/ /\ futures # <<>>
                 /\ futures[1] \in Calls /\ Len(futures) \in Nat \ {0}
                 /\ reply' = [call |-> futures[1], got |-> <<>>]
                 /\ futures' = Tail(futures) /\ futures' \in Seq(Calls)
                 /\ Len(futures') = Len(futures) - 1
                 /\ \A i \in 1..Len(futures) - 1 : futures'[i] = futures[i + 1]
              \/ /\ futures = <<>>
                 /\ reply' = [call |-> engine.want, got |-> <<>>]
                 /\ UNCHANGED futures
<1>1. futures \in Seq(Calls)
  BY DEF TypeOK
<1>2. CASE futures # <<>>
  <2>1. futures' = Tail(futures) /\ reply' = [call |-> futures[1], got |-> <<>>]
    BY <1>1, <1>2 DEF StartResponse
  <2> QED BY <1>1, <1>2, <2>1, EngineType DEF StartResponse, EngineInv
<1>3. CASE futures = <<>>
  BY <1>3, EngineType DEF StartResponse, EngineInv
<1> QED BY <1>2, <1>3

LEMMA FailedOutcome ==
    ASSUME TypeOK, NEW c \in Calls, outcome' = [outcome EXCEPT ![c] = Result("failed", <<>>)]
    PROVE  /\ outcome' \in [Calls -> Outcome] /\ outcome'[c].status = "failed"
           /\ \A d \in Calls : d # c => outcome'[d] = outcome[d]
<1>1. <<>> \in Seq(Answer)
  OBVIOUS
<1>2. Result("failed", <<>>) \in Outcome /\ Result("failed", <<>>).status = "failed"
  BY <1>1 DEF Result, Outcome
<1>3. outcome \in [Calls -> Outcome]
  BY DEF TypeOK, Outcome
<1> QED BY <1>2, <1>3

\* The executor after a step of shutdown() by thread t, entering it aside.
LEMMA ShutdownSpec ==
    ASSUME TypeOK, NEW t \in Threads, ShutdownStep(t)
    PROVE  /\ shutdown' \in [shutting : BOOLEAN, deathPipe : BOOLEAN, closed : BOOLEAN,
                             broadcastGone : BOOLEAN, listGone : BOOLEAN,
                             failed : BOOLEAN, informed : BOOLEAN]
           /\ stage' \in [Threads -> {"none", "terminate", "close", "broadcast", "list", "done"}]
           /\ \A u \in Threads : u # t => stage'[u] = stage[u]
           /\ shutdown'.shutting = shutdown.shutting /\ shutdown'.failed = shutdown.failed
           /\ shutdown'.deathPipe = shutdown.deathPipe
           /\ \/ /\ stage[t] = "terminate" /\ stage'[t] = "close" /\ AllDead
                 /\ UNCHANGED shutdown
              \/ /\ stage[t] = "close" /\ stage'[t] = "broadcast" /\ shutdown'.closed
                 /\ shutdown'.broadcastGone = shutdown.broadcastGone
                 /\ shutdown'.listGone = shutdown.listGone
              \/ /\ stage[t] = "broadcast" /\ stage'[t] = "list" /\ shutdown'.broadcastGone
                 /\ shutdown'.closed = shutdown.closed
                 /\ shutdown'.listGone = shutdown.listGone
              \/ /\ stage[t] = "list" /\ stage'[t] = "done"
                 /\ shutdown'.closed /\ shutdown'.listGone
                 /\ shutdown'.broadcastGone = shutdown.broadcastGone
<1> DEFINE Flags == [shutting : BOOLEAN, deathPipe : BOOLEAN, closed : BOOLEAN,
                     broadcastGone : BOOLEAN, listGone : BOOLEAN,
                     failed : BOOLEAN, informed : BOOLEAN]
<1>1. /\ shutdown \in Flags
      /\ stage \in [Threads -> {"none", "terminate", "close", "broadcast", "list", "done"}]
  BY DEF TypeOK
<1>2. CASE stage[t] = "terminate"
  BY <1>1, <1>2 DEF ShutdownStep, AllDead
<1>3. CASE stage[t] = "close"
  BY <1>1, <1>3 DEF ShutdownStep
<1>4. CASE stage[t] = "broadcast"
  BY <1>1, <1>4 DEF ShutdownStep
<1>5. CASE stage[t] = "list"
  BY <1>1, <1>5 DEF ShutdownStep
<1> QED BY <1>2, <1>3, <1>4, <1>5 DEF ShutdownStep

LEMMA EnterSpec ==
    ASSUME TypeOK
    PROVE  /\ EngineShutdown =>
                /\ engine.pc = "idle" /\ stage["engine"] = "none"
                /\ engine' = [pc |-> "shutdown", want |-> engine.want]
                /\ shutdown' = [shutdown EXCEPT !.shutting = TRUE,
                                  !.deathPipe = shutdown.deathPipe /\ shutdown.shutting]
                /\ stage' = [stage EXCEPT !["engine"] =
                               IF shutdown.shutting THEN "broadcast" ELSE "terminate"]
           /\ MonitorWakes =>
                /\ stage["monitor"] = "none" /\ \E w \in Workers : ~alive[w]
                /\ \/ /\ shutdown.shutting /\ UNCHANGED shutdown
                      /\ stage' = [stage EXCEPT !["monitor"] = "done"]
                   \/ /\ ~shutdown.shutting
                      /\ shutdown' = [shutdown EXCEPT !.failed = TRUE, !.shutting = TRUE,
                                        !.deathPipe = FALSE]
                      /\ stage' = [stage EXCEPT !["monitor"] = "terminate"]
<1>1. shutdown \in [shutting : BOOLEAN, deathPipe : BOOLEAN, closed : BOOLEAN,
                    broadcastGone : BOOLEAN, listGone : BOOLEAN,
                    failed : BOOLEAN, informed : BOOLEAN]
  BY DEF TypeOK
<1>2. EngineShutdown =>
        /\ engine.pc = "idle" /\ stage["engine"] = "none"
        /\ engine' = [pc |-> "shutdown", want |-> engine.want]
        /\ shutdown' = [shutdown EXCEPT !.shutting = TRUE,
                          !.deathPipe = shutdown.deathPipe /\ shutdown.shutting]
        /\ stage' = [stage EXCEPT !["engine"] =
                       IF shutdown.shutting THEN "broadcast" ELSE "terminate"]
  BY <1>1, EngineType DEF EngineShutdown, Enter
<1>3. ASSUME MonitorWakes, ~shutdown.shutting
      PROVE  /\ shutdown' = [shutdown EXCEPT !.failed = TRUE, !.shutting = TRUE,
                               !.deathPipe = FALSE]
             /\ stage' = [stage EXCEPT !["monitor"] = "terminate"]
  <2> DEFINE sd == [shutdown EXCEPT !.failed = TRUE]
  <2>1. Enter("monitor", sd)
    BY <1>3 DEF MonitorWakes
  <2>2. ~sd.shutting
    BY <1>1, <1>3
  <2>3. shutdown' = [sd EXCEPT !.shutting = TRUE, !.deathPipe = FALSE]
    BY <2>1, <2>2 DEF Enter
  <2>4. stage' = [stage EXCEPT !["monitor"] = "terminate"]
    BY <2>1, <2>2 DEF Enter
  <2> QED BY <1>1, <2>3, <2>4
<1> QED BY <1>2, <1>3 DEF MonitorWakes

LEMMA QuietType ==
    ASSUME TypeOK
    PROVE  /\ EngineShutdown \/ MonitorWakes \/ InformEngine =>
                /\ shutdown' \in [shutting : BOOLEAN, deathPipe : BOOLEAN, closed : BOOLEAN,
                                  broadcastGone : BOOLEAN, listGone : BOOLEAN,
                                  failed : BOOLEAN, informed : BOOLEAN]
                /\ stage' \in [Threads ->
                     {"none", "terminate", "close", "broadcast", "list", "done"}]
           /\ \A w \in Workers : Crash(w) \/ WorkerExit(w) =>
                alive' \in [Workers -> BOOLEAN] /\ crashes' \in 0..MaxCrashes
<1>1. /\ shutdown \in [shutting : BOOLEAN, deathPipe : BOOLEAN, closed : BOOLEAN,
                       broadcastGone : BOOLEAN, listGone : BOOLEAN,
                       failed : BOOLEAN, informed : BOOLEAN]
      /\ stage \in [Threads -> {"none", "terminate", "close", "broadcast", "list", "done"}]
      /\ alive \in [Workers -> BOOLEAN] /\ crashes \in 0..MaxCrashes
  BY DEF TypeOK
<1>2. EngineShutdown \/ MonitorWakes =>
        /\ shutdown' \in [shutting : BOOLEAN, deathPipe : BOOLEAN, closed : BOOLEAN,
                          broadcastGone : BOOLEAN, listGone : BOOLEAN,
                          failed : BOOLEAN, informed : BOOLEAN]
        /\ stage' \in [Threads ->
             {"none", "terminate", "close", "broadcast", "list", "done"}]
  BY <1>1, EnterSpec
<1>3. InformEngine =>
        /\ shutdown' \in [shutting : BOOLEAN, deathPipe : BOOLEAN, closed : BOOLEAN,
                          broadcastGone : BOOLEAN, listGone : BOOLEAN,
                          failed : BOOLEAN, informed : BOOLEAN]
        /\ stage' = stage
  BY <1>1 DEF InformEngine
<1>4. ASSUME NEW w \in Workers, Crash(w) \/ WorkerExit(w)
      PROVE  alive' \in [Workers -> BOOLEAN] /\ crashes' \in 0..MaxCrashes
  <2>1. alive' = [alive EXCEPT ![w] = FALSE]
    BY <1>4 DEF Crash, WorkerExit
  <2>2. crashes' = crashes \/ (crashes < MaxCrashes /\ crashes' = crashes + 1)
    BY <1>4 DEF Crash, WorkerExit
  <2>3. crashes' \in 0..MaxCrashes
    BY <1>1, <2>2, ConfigSpec
  <2> QED BY <1>1, <2>1, <2>3
<1> QED BY <1>1, <1>2, <1>3, <1>4

\* What an invariant of the step has to hold for: one way per action.
LEMMA TypeNext ==
    ASSUME TypeOK, EngineInv, SentInv, [Next]_vars
    PROVE  TypeOK'
<1>0. /\ calls \in Seq(CallRec) /\ outcome \in [Calls -> Outcome]
      /\ sent \in Seq(Calls) /\ futures \in Seq(Calls)
      /\ timeouts \in 0..MaxTimeouts
  BY DEF TypeOK, CallRec, Outcome
<1> USE DEF CallRec, Outcome
<1>1. ASSUME NEW kind \in {"unique", "all"}, NEW block \in BOOLEAN, BeginCall(kind, block)
      PROVE  TypeOK'
  <2>1. calls' \in Seq(CallRec)
    BY <1>1, BeginSpec
  <2>2. outcome' \in [Calls -> Outcome]
    BY <1>0, <1>1, BeginSpec, FailedOutcome
  <2>3. engine' \in [pc : {"idle", "bind", "enqueue", "queues", "wait", "shutdown"},
                     want : Calls \union {0}]
    BY <1>1, BeginSpec, EngineType DEF TypeOK
  <2> QED BY <1>1, <2>1, <2>2, <2>3 DEF BeginCall, TypeOK, workerVars, MaxTimeouts, MaxCrashes
<1>2. ASSUME NEW c \in Calls, AskResult(c) PROVE TypeOK'
  BY <1>2 DEF AskResult, TypeOK, workerVars, MaxTimeouts, MaxCrashes
<1>3. CASE BindBroadcast
  <2>1. outcome' \in [Calls -> Outcome]
    BY <1>0, <1>3, BindSpec, FailedOutcome
  <2>2. engine' \in [pc : {"idle", "bind", "enqueue", "queues", "wait", "shutdown"},
                     want : Calls \union {0}]
    BY <1>3, BindSpec, EngineType
  <2> QED BY <1>3, <2>1, <2>2 DEF BindBroadcast, TypeOK, workerVars, MaxTimeouts, MaxCrashes
<1>4. CASE Enqueue
  <2>1. Len(calls) \in Calls
    BY <1>4, ConfigSpec, EngineType DEF Enqueue, EngineInv, Picking
  <2>2. sent' \in Seq(Calls)
    BY <1>0, <1>4, <2>1 DEF Enqueue
  <2> QED BY <1>4, <2>2 DEF Enqueue, TypeOK, workerVars, MaxTimeouts, MaxCrashes
<1>5. CASE PickQueues
  <2>1. calls' \in Seq(CallRec)
    BY <1>0, <1>5, PickSpec
  <2>2. outcome' \in [Calls -> Outcome]
    BY <1>0, <1>5, PickSpec, FailedOutcome
  <2>3. engine' \in [pc : {"idle", "bind", "enqueue", "queues", "wait", "shutdown"},
                     want : Calls \union {0}]
    BY <1>5, PickSpec, EngineType
  <2>4. futures' \in Seq(Calls)
    <3>1. /\ Len(calls) \in Calls
          /\ futures' = futures \/ futures' = Append(futures, Len(calls))
      BY <1>5, PickSpec
    <3>2. futures \in Seq(Calls)
      BY <1>0
    <3> QED BY <3>1, <3>2
  <2> QED BY <1>5, <2>1, <2>2, <2>3, <2>4
        DEF PickQueues, TypeOK, workerVars, MaxTimeouts, MaxCrashes
<1>6. CASE StartResponse
  <2>1. <<>> \in Seq(Answer)
    OBVIOUS
  <2>2. futures' \in Seq(Calls) /\ reply' \in [call : Calls \union {0}, got : Seq(Answer)]
    <3>1. CASE futures # <<>>
      <4>1. futures' \in Seq(Calls)
        BY <1>6, <3>1, StartSpec
      <4>2. reply' = [call |-> futures[1], got |-> <<>>] /\ futures[1] \in Calls
        BY <1>6, <3>1, StartSpec
      <4> QED BY <2>1, <4>1, <4>2
    <3>2. CASE futures = <<>>
      <4>1. futures' \in Seq(Calls)
        BY <1>0, <1>6, <3>2, StartSpec
      <4>2. reply' = [call |-> engine.want, got |-> <<>>] /\ engine.want \in Calls
        BY <1>6, <3>2, StartSpec
      <4> QED BY <2>1, <4>1, <4>2
    <3> QED BY <3>1, <3>2
  <2> QED BY <1>6, <2>2 DEF StartResponse, TypeOK, workerVars, MaxTimeouts, MaxCrashes
<1>7. ASSUME NEW status, NEW got, Resolved(status, got)
      PROVE  /\ outcome' \in [Calls -> Outcome]
             /\ reply' \in [call : Calls \union {0}, got : Seq(Answer)]
             /\ engine' \in [pc : {"idle", "bind", "enqueue", "queues", "wait", "shutdown"},
                             want : Calls \union {0}]
  BY <1>7, ResolveSpec DEF Resolved
<1>8. CASE TakeAnswer
  <2>1. answers' \in [Workers -> Seq(Answer)]
    <3>1. Tail(answers[NextQueue]) \in Seq(Answer)
      BY <1>8, TakeSpec
    <3> QED BY <1>8, <3>1, TakeSpec DEF TypeOK
  <2>2. CASE Resolved("failed", <<>>)
    BY <1>7, <1>8, <2>1, <2>2 DEF TakeAnswer, TypeOK, workerVars, MaxTimeouts, MaxCrashes
  <2>3. CASE ~Resolved("failed", <<>>)
    <3>1. /\ reply' = [call |-> reply.call, got |-> Append(reply.got, Head(answers[NextQueue]))]
          /\ UNCHANGED <<outcome, engine>> /\ Head(answers[NextQueue]) \in Answer
      BY <1>8, <2>3, TakeSpec
    <3>2. reply' \in [call : Calls \union {0}, got : Seq(Answer)]
      BY <3>1, EngineType
    <3> QED BY <1>8, <2>1, <3>1, <3>2 DEF TakeAnswer, TypeOK, workerVars, MaxTimeouts, MaxCrashes
  <2> QED BY <2>2, <2>3
<1>9. CASE EndResponse
  <2>1. Resolved("ok", reply.got)
    BY <1>9, EngineType DEF EndResponse, Resolved
  <2> QED BY <1>7, <1>9, <2>1 DEF EndResponse, TypeOK, workerVars, MaxTimeouts, MaxCrashes
<1>10. CASE NoAnswer
  <2>1. <<>> \in Seq(Answer)
    OBVIOUS
  <2>2. Resolved("cancelled", <<>>) \/ Resolved("timeout", <<>>)
    BY <1>10, <2>1 DEF NoAnswer, Resolved
  <2>3. timeouts' \in 0..MaxTimeouts
    <3>1. timeouts' = timeouts \/ (timeouts < MaxTimeouts /\ timeouts' = timeouts + 1)
      BY <1>10 DEF NoAnswer
    <3> QED BY <1>0, <3>1, ConfigSpec
  <2>4. /\ outcome' \in [Calls -> Outcome]
        /\ reply' \in [call : Calls \union {0}, got : Seq(Answer)]
        /\ engine' \in [pc : {"idle", "bind", "enqueue", "queues", "wait", "shutdown"},
                        want : Calls \union {0}]
    BY <1>7, <2>2
  <2> QED BY <1>10, <2>3, <2>4 DEF NoAnswer, TypeOK, workerVars, MaxTimeouts, MaxCrashes
<1>11. ASSUME NEW w \in Workers, TakeCall(w) PROVE TypeOK'
  <2>1. taken[w] + 1 \in 1..Len(sent) /\ taken[w] + 1 \in 0..MaxCalls
    <3>1. taken[w] < Len(sent) /\ Len(sent) <= Len(calls) /\ Len(calls) <= MaxCalls
      BY <1>11 DEF TakeCall, EngineInv, SentInv
    <3>2. taken[w] \in Nat /\ Len(sent) \in Nat /\ Len(calls) \in Nat /\ MaxCalls \in Nat
      BY ConfigSpec, EngineType, WorkerType
    <3> QED BY <3>1, <3>2
  <2>2. sent[taken[w] + 1] \in Calls
    BY <1>0, <2>1
  <2>3. /\ taken' \in [Workers -> 0..MaxCalls]
        /\ job' \in [Workers -> Calls \union {0}]
    BY <1>11, <2>1, <2>2 DEF TakeCall, TypeOK
  <2>4. UNCHANGED <<config, calls, sent, outputs, answers, futures, outcome, engine, reply,
                    alive, shutdown, stage, timeouts, crashes>>
    BY <1>11 DEF TakeCall
  <2> QED BY <2>3, <2>4 DEF TypeOK, MaxTimeouts, MaxCrashes
<1>12. ASSUME NEW w \in Workers, FinishCall(w) PROVE TypeOK'
  <2>1. PICK ok \in BOOLEAN :
          LET a == [call |-> job[w], worker |-> w, ok |-> ok]
          IN  /\ outputs' = IF AsyncOutput /\ w \in Repliers(job[w])
                            THEN [outputs EXCEPT ![w] = Append(@, a)] ELSE outputs
              /\ answers' = IF ~AsyncOutput /\ w \in Repliers(job[w])
                            THEN [answers EXCEPT ![w] = Append(@, a)] ELSE answers
    BY <1>12 DEF FinishCall
  <2>2. [call |-> job[w], worker |-> w, ok |-> ok] \in Answer
    BY <1>12, WorkerType DEF FinishCall, Answer
  <2>3. outputs' \in [Workers -> Seq(Answer)] /\ answers' \in [Workers -> Seq(Answer)]
    BY <2>1, <2>2, WorkerType DEF TypeOK
  <2>4. job' \in [Workers -> Calls \union {0}]
    BY <1>12 DEF FinishCall, TypeOK
  <2> QED BY <1>12, <2>3, <2>4 DEF FinishCall, TypeOK, MaxTimeouts, MaxCrashes
<1>13. ASSUME NEW w \in Workers, SendOutput(w) PROVE TypeOK'
  <2>1. Head(outputs[w]) \in Answer /\ Tail(outputs[w]) \in Seq(Answer)
    BY <1>13, WorkerType DEF SendOutput
  <2>2. outputs' \in [Workers -> Seq(Answer)] /\ answers' \in [Workers -> Seq(Answer)]
    BY <1>13, <2>1, WorkerType DEF SendOutput, TypeOK
  <2>3. UNCHANGED <<config, calls, sent, taken, job, futures, outcome, engine, reply,
                    alive, shutdown, stage, timeouts, crashes>>
    BY <1>13 DEF SendOutput
  <2> QED BY SMTT(60), <2>2, <2>3 DEF TypeOK, MaxTimeouts, MaxCrashes
<1>14. ASSUME NEW w \in Workers, Crash(w) \/ WorkerExit(w) PROVE TypeOK'
  BY <1>14, QuietType DEF Crash, WorkerExit, TypeOK, workerVars, MaxTimeouts, MaxCrashes
<1>15. CASE EngineShutdown
  BY <1>15, QuietType, EnterSpec, EngineType
     DEF EngineShutdown, TypeOK, workerVars, MaxTimeouts, MaxCrashes
<1>16. ASSUME NEW t \in Threads, ShutdownStep(t) PROVE TypeOK'
  <2>1. UNCHANGED <<config, calls, sent, workerVars, answers, futures, outcome, engine, reply,
                    alive, timeouts, crashes>>
    BY <1>16 DEF ShutdownStep
  <2> QED BY <1>16, <2>1, ShutdownSpec DEF TypeOK, workerVars, MaxTimeouts, MaxCrashes
<1>17. CASE MonitorWakes \/ InformEngine
  <2>1. UNCHANGED <<config, calls, sent, workerVars, answers, futures, outcome, engine, reply,
                    alive, timeouts, crashes>>
    BY <1>17 DEF MonitorWakes, InformEngine
  <2> QED BY <1>17, <2>1, QuietType DEF TypeOK, workerVars, MaxTimeouts, MaxCrashes
<1>18. CASE UNCHANGED vars
  BY <1>18 DEF vars, workerVars, TypeOK, MaxTimeouts, MaxCrashes
<1> QED
  BY <1>1, <1>2, <1>3, <1>4, <1>5, <1>6, <1>8, <1>9, <1>10, <1>11, <1>12, <1>13, <1>14, <1>15,
     <1>16, <1>17, <1>18 DEF Next

-----------------------------------------------------------------------------
(* Shutdown *)

\* The steps of a call.
EngineStep ==
  \/ \E kind \in {"unique", "all"}, block \in BOOLEAN : BeginCall(kind, block)
  \/ \E c \in Calls : AskResult(c)
  \/ CallStep

LEMMA EngineStepSpec ==
    ASSUME TypeOK, EngineInv, EngineStep
    PROVE  /\ engine.pc # "shutdown" /\ engine'.pc # "shutdown"
           /\ UNCHANGED <<alive, shutdown, stage, crashes>>
           /\ UNCHANGED taken /\ UNCHANGED job /\ UNCHANGED outputs
<1>1. ASSUME NEW kind \in {"unique", "all"}, NEW block \in BOOLEAN, BeginCall(kind, block)
      PROVE  /\ engine.pc # "shutdown" /\ engine'.pc # "shutdown"
             /\ UNCHANGED <<alive, shutdown, stage, crashes, workerVars>>
  <2>1. engine.pc # "shutdown" /\ engine'.pc # "shutdown"
    BY <1>1, BeginSpec
  <2> QED BY <1>1, <2>1 DEF BeginCall
<1>2. ASSUME NEW c \in Calls, AskResult(c)
      PROVE  /\ engine.pc # "shutdown" /\ engine'.pc # "shutdown"
             /\ UNCHANGED <<alive, shutdown, stage, crashes, workerVars>>
  BY <1>2 DEF AskResult
<1>3. ASSUME BindBroadcast \/ Enqueue \/ PickQueues
      PROVE  /\ engine.pc # "shutdown" /\ engine'.pc # "shutdown"
             /\ UNCHANGED <<alive, shutdown, stage, crashes, workerVars>>
  <2>1. BindBroadcast => engine.pc # "shutdown" /\ engine'.pc # "shutdown"
    BY BindSpec
  <2>2. Enqueue => engine.pc # "shutdown" /\ engine'.pc # "shutdown"
    BY EngineType DEF Enqueue
  <2>3. PickQueues => engine'.pc # "shutdown"
    BY PickSpec
  <2>4. PickQueues => engine.pc # "shutdown"
    BY DEF PickQueues
  <2> QED BY <1>3, <2>1, <2>2, <2>3, <2>4 DEF BindBroadcast, Enqueue, PickQueues
<1>4. ASSUME StartResponse
      PROVE  /\ engine.pc # "shutdown" /\ engine'.pc # "shutdown"
             /\ UNCHANGED <<alive, shutdown, stage, crashes, workerVars>>
  BY <1>4 DEF StartResponse
<1>5. ASSUME NEW status, NEW got, Resolved(status, got)
      PROVE  engine.pc # "shutdown" /\ engine'.pc # "shutdown"
  BY <1>5, ResolveSpec, ReplyOpen DEF Resolved
<1>6. <<>> \in Seq(Answer)
  OBVIOUS
<1>7. ASSUME TakeAnswer \/ EndResponse \/ NoAnswer
      PROVE  /\ engine.pc # "shutdown" /\ engine'.pc # "shutdown"
             /\ UNCHANGED <<alive, shutdown, stage, crashes, workerVars>>
  <2>1. TakeAnswer => engine.pc # "shutdown" /\ engine'.pc # "shutdown"
    BY <1>5, TakeSpec, ReplyOpen
  <2>2. EndResponse => engine.pc # "shutdown" /\ engine'.pc # "shutdown"
    BY <1>5, EngineType DEF EndResponse, Resolved
  <2>3. NoAnswer => engine.pc # "shutdown" /\ engine'.pc # "shutdown"
    BY <1>5, <1>6 DEF NoAnswer, Resolved
  <2> QED BY <1>7, <2>1, <2>2, <2>3 DEF TakeAnswer, EndResponse, NoAnswer
<1>8. /\ engine.pc # "shutdown" /\ engine'.pc # "shutdown"
      /\ UNCHANGED <<alive, shutdown, stage, crashes, workerVars>>
  BY <1>1, <1>2, <1>3, <1>4, <1>7 DEF EngineStep, CallStep
<1> QED BY <1>8 DEF workerVars

LEMMA ShutdownNext ==
    ASSUME TypeOK, EngineInv, ShutdownInv, [Next]_vars
    PROVE  ShutdownInv'
<1>0. Threads = {"monitor", "engine"} /\ crashes \in Nat
  BY ConfigSpec DEF Threads, TypeOK
<1>00. stage \in [Threads -> {"none", "terminate", "close", "broadcast", "list", "done"}]
  BY DEF TypeOK
<1>1. CASE EngineStep
  <2>1. /\ engine.pc # "shutdown" /\ engine'.pc # "shutdown"
        /\ UNCHANGED <<alive, shutdown, stage, crashes>>
    BY <1>1, EngineStepSpec
  <2> QED BY <2>1 DEF ShutdownInv, AllDead
<1>2. ASSUME NEW w \in Workers, TakeCall(w) \/ FinishCall(w) \/ SendOutput(w)
      PROVE  ShutdownInv'
  <2>1. UNCHANGED <<engine, alive, shutdown, stage, crashes>>
    BY <1>2 DEF TakeCall, FinishCall, SendOutput
  <2> QED BY <2>1 DEF ShutdownInv, AllDead
<1>3. ASSUME NEW w \in Workers, Crash(w) PROVE ShutdownInv'
  <2>1. UNCHANGED <<engine, shutdown, stage>> /\ crashes' # 0
    BY <1>0, <1>3 DEF Crash
  <2>2. AllDead => AllDead'
    BY <1>3 DEF Crash, AllDead
  <2> QED BY <2>1, <2>2 DEF ShutdownInv
<1>4. ASSUME NEW w \in Workers, WorkerExit(w) PROVE ShutdownInv'
  <2>1. UNCHANGED <<engine, shutdown, stage, crashes>> /\ shutdown.shutting
    BY <1>4 DEF WorkerExit, ShutdownInv
  <2>2. AllDead => AllDead'
    BY <1>4 DEF WorkerExit, AllDead
  <2> QED BY <2>1, <2>2 DEF ShutdownInv
<1>5. CASE EngineShutdown
  <2>1. /\ engine.pc = "idle" /\ engine'.pc = "shutdown"
        /\ UNCHANGED <<alive, crashes>>
    BY <1>5, EnterSpec DEF EngineShutdown
  <2>2. /\ shutdown'.shutting /\ shutdown'.closed = shutdown.closed
        /\ shutdown'.broadcastGone = shutdown.broadcastGone
        /\ shutdown'.listGone = shutdown.listGone /\ shutdown'.failed = shutdown.failed
    BY <1>5, EnterSpec DEF TypeOK
  <2>3. /\ stage'["monitor"] = stage["monitor"]
        /\ stage'["engine"] \in {"broadcast", "terminate"}
    BY <1>0, <1>00, <1>5, EnterSpec
  <2> QED BY <1>0, <2>1, <2>2, <2>3 DEF ShutdownInv, AllDead
<1>6. ASSUME NEW t \in Threads, ShutdownStep(t) PROVE ShutdownInv'
  <2>1. UNCHANGED <<alive, crashes, engine>>
    BY <1>6 DEF ShutdownStep
  <2>2. AllDead' = AllDead
    BY <2>1 DEF AllDead
  <2>3. /\ \A u \in Threads : u # t => stage'[u] = stage[u]
        /\ shutdown'.shutting = shutdown.shutting /\ shutdown'.failed = shutdown.failed
        /\ shutdown'.deathPipe = shutdown.deathPipe
    BY <1>6, ShutdownSpec
  <2>4. t = "engine" => engine.pc = "shutdown"
    BY <1>6, ShutdownSpec DEF ShutdownInv
  <2>5. t = "monitor" => crashes # 0
    BY <1>6, ShutdownSpec DEF ShutdownInv
  <2>6. CASE stage[t] = "terminate"
    <3>1. AllDead /\ stage'[t] = "close" /\ UNCHANGED shutdown
      BY <1>6, <2>6, ShutdownSpec
    <3> QED BY <1>0, <2>1, <2>2, <2>3, <2>4, <2>5, <3>1 DEF ShutdownInv
  <2>7. CASE stage[t] = "close"
    <3>1. /\ stage'[t] = "broadcast" /\ shutdown'.closed
          /\ shutdown'.broadcastGone = shutdown.broadcastGone
          /\ shutdown'.listGone = shutdown.listGone
      BY <1>6, <2>7, ShutdownSpec
    <3>2. t = "monitor" => AllDead
      BY <2>7 DEF ShutdownInv
    <3> QED BY <1>0, <2>1, <2>2, <2>3, <2>4, <2>5, <3>1, <3>2 DEF ShutdownInv
  <2>8. CASE stage[t] = "broadcast"
    <3>1. /\ stage'[t] = "list" /\ shutdown'.broadcastGone
          /\ shutdown'.closed = shutdown.closed
          /\ shutdown'.listGone = shutdown.listGone
      BY <1>6, <2>8, ShutdownSpec
    <3>2. t = "monitor" => AllDead
      BY <2>8 DEF ShutdownInv
    <3> QED BY <1>0, <2>1, <2>2, <2>3, <2>4, <2>5, <3>1, <3>2 DEF ShutdownInv
  <2>9. CASE stage[t] = "list"
    <3>1. /\ stage'[t] = "done" /\ shutdown'.closed /\ shutdown'.listGone
          /\ shutdown'.broadcastGone = shutdown.broadcastGone
      BY <1>6, <2>9, ShutdownSpec
    <3>2. t = "monitor" => AllDead
      BY <2>9 DEF ShutdownInv
    <3>3. shutdown.broadcastGone
      BY <2>9 DEF ShutdownInv
    <3> QED BY <1>0, <2>1, <2>2, <2>3, <2>4, <2>5, <3>1, <3>2, <3>3 DEF ShutdownInv
  <2> QED BY <1>6, <2>6, <2>7, <2>8, <2>9, ShutdownSpec
<1>7. CASE MonitorWakes
  <2>1. UNCHANGED <<alive, crashes, engine>>
    BY <1>7 DEF MonitorWakes
  <2>2. CASE shutdown.shutting
    <3>1. UNCHANGED shutdown /\ stage'["monitor"] = "done" /\ stage'["engine"] = stage["engine"]
      BY <1>0, <1>00, <1>7, <2>2, EnterSpec
    <3> QED BY <1>0, <2>1, <3>1 DEF ShutdownInv, AllDead
  <2>3. CASE ~shutdown.shutting
    <3>1. /\ stage'["monitor"] = "terminate" /\ stage'["engine"] = stage["engine"]
      BY <1>0, <1>00, <1>7, <2>3, EnterSpec
    <3>2. /\ shutdown'.shutting /\ shutdown'.closed = shutdown.closed
          /\ shutdown'.broadcastGone = shutdown.broadcastGone
          /\ shutdown'.listGone = shutdown.listGone
      BY <1>7, <2>3, EnterSpec DEF TypeOK
    <3>3. crashes # 0
      BY <1>7, <2>3, EnterSpec DEF ShutdownInv
    <3> QED BY <1>0, <2>1, <3>1, <3>2, <3>3 DEF ShutdownInv, AllDead
  <2> QED BY <2>2, <2>3
<1>8. CASE InformEngine
  <2>1. /\ UNCHANGED <<alive, crashes, engine, stage>>
        /\ shutdown' = [shutdown EXCEPT !.informed = TRUE]
    BY <1>8 DEF InformEngine
  <2>2. /\ shutdown'.shutting = shutdown.shutting /\ shutdown'.closed = shutdown.closed
        /\ shutdown'.broadcastGone = shutdown.broadcastGone
        /\ shutdown'.listGone = shutdown.listGone /\ shutdown'.failed = shutdown.failed
        /\ shutdown'.deathPipe = shutdown.deathPipe
    BY <2>1 DEF TypeOK
  <2> QED BY <2>1, <2>2 DEF ShutdownInv, AllDead
<1>9. CASE UNCHANGED vars
  BY <1>9 DEF vars, ShutdownInv, AllDead
<1> QED
  BY <1>1, <1>2, <1>3, <1>4, <1>5, <1>6, <1>7, <1>8, <1>9 DEF Next, EngineStep, CallStep

-----------------------------------------------------------------------------
(* Calls are broadcast in their order *)

LEMMA SentNext ==
    ASSUME TypeOK, EngineInv, SentInv, [Next]_vars
    PROVE  SentInv'
<1>0. /\ sent \in Seq(Calls) /\ Len(sent) \in Nat /\ Len(calls) \in Nat
      /\ \A i \in 1..Len(sent) : sent[i] \in Nat
  <2>1. sent \in Seq(Calls)
    BY DEF TypeOK
  <2>2. Calls \subseteq Nat
    BY ConfigSpec
  <2> QED BY <2>1, <2>2, EngineType
<1>1. ASSUME NEW kind \in {"unique", "all"}, NEW block \in BOOLEAN, BeginCall(kind, block)
      PROVE  SentInv'
  <2>1. UNCHANGED sent
    BY <1>1 DEF BeginCall
  <2>2. Len(calls') = Len(calls) + 1
    BY <1>1, BeginSpec
  <2> QED BY <1>0, <2>1, <2>2 DEF SentInv
<1>2. CASE Enqueue
  <2>1. /\ engine.pc = "enqueue" /\ engine'.pc = "queues" /\ UNCHANGED calls
        /\ sent' = Append(sent, Len(calls))
    BY <1>2, EngineType DEF Enqueue
  <2>2. /\ Len(sent') = Len(sent) + 1 /\ sent'[Len(sent) + 1] = Len(calls)
        /\ \A i \in 1..Len(sent) : sent'[i] = sent[i]
    BY <1>0, <2>1
  <2>3. Len(sent) < Len(calls) /\ \A i \in 1..Len(sent) : sent[i] < Len(calls)
    BY <2>1 DEF SentInv
  <2>4. \A i \in 1..Len(sent') : sent'[i] <= Len(calls)
    BY <1>0, <2>2, <2>3
  <2>5. \A i, j \in 1..Len(sent') : i < j => sent'[i] < sent'[j]
    BY <1>0, <2>2, <2>3 DEF SentInv
  <2> QED BY <1>0, <2>1, <2>2, <2>3, <2>4, <2>5 DEF SentInv
<1>3. CASE BindBroadcast
  <2>1. UNCHANGED <<sent, calls>> /\ engine.pc = "bind"
    BY <1>3 DEF BindBroadcast
  <2> QED BY <2>1 DEF SentInv
<1>4. CASE PickQueues
  <2>1. UNCHANGED sent
    BY <1>4 DEF PickQueues
  <2>2. Len(calls') = Len(calls) /\ engine'.pc \notin {"bind", "enqueue"}
    BY <1>4, PickSpec
  <2> QED BY <2>1, <2>2 DEF SentInv
<1>5. ASSUME NEW status, NEW got, Resolved(status, got)
      PROVE  engine'.pc \notin {"bind", "enqueue"}
  BY <1>5, ResolveSpec DEF Resolved
<1>6. CASE StartResponse \/ TakeAnswer \/ EndResponse \/ NoAnswer
  <2>1. UNCHANGED <<sent, calls>>
    BY <1>6 DEF StartResponse, TakeAnswer, EndResponse, NoAnswer
  <2>2. engine'.pc \notin {"bind", "enqueue"}
    <3>1. <<>> \in Seq(Answer)
      OBVIOUS
    <3>2. CASE StartResponse
      BY <3>2 DEF StartResponse
    <3>3. CASE TakeAnswer
      BY <1>5, <3>3, TakeSpec, ReplyOpen
    <3>4. CASE EndResponse
      BY <1>5, <3>4, EngineType DEF EndResponse, Resolved
    <3>5. CASE NoAnswer
      BY <1>5, <3>1, <3>5 DEF NoAnswer, Resolved
    <3> QED BY <1>6, <3>2, <3>3, <3>4, <3>5
  <2> QED BY <2>1, <2>2 DEF SentInv
<1>7. ASSUME NEW c \in Calls, AskResult(c) PROVE SentInv'
  BY <1>7 DEF AskResult, SentInv
<1>8. CASE EngineShutdown
  <2>1. UNCHANGED <<sent, calls>> /\ engine'.pc = "shutdown"
    BY <1>8, EnterSpec DEF EngineShutdown
  <2> QED BY <2>1 DEF SentInv
<1>9. ASSUME NEW w \in Workers,
             TakeCall(w) \/ FinishCall(w) \/ SendOutput(w) \/ Crash(w) \/ WorkerExit(w)
      PROVE  SentInv'
  <2>1. UNCHANGED <<sent, calls, engine>>
    BY <1>9 DEF TakeCall, FinishCall, SendOutput, Crash, WorkerExit
  <2> QED BY <2>1 DEF SentInv
<1>10. ASSUME MonitorWakes \/ InformEngine \/ \E t \in Threads : ShutdownStep(t)
       PROVE  SentInv'
  <2>1. UNCHANGED <<sent, calls, engine>>
    BY <1>10 DEF MonitorWakes, InformEngine, ShutdownStep
  <2> QED BY <2>1 DEF SentInv
<1>11. CASE UNCHANGED vars
  BY <1>11 DEF vars, SentInv
<1> QED
  BY <1>1, <1>2, <1>3, <1>4, <1>6, <1>7, <1>8, <1>9, <1>10, <1>11 DEF Next

-----------------------------------------------------------------------------
(* Open calls *)

LEMMA PickedStays ==
    ASSUME NEW c, Picked(c), calls'[c] = calls[c], crashes # 0 => crashes' # 0,
           NoMoreCalls => NoMoreCalls', \A d \in Calls : Open(d)' => Open(d)
    PROVE  Picked(c)'
<1>1. FullQueues(c)' = FullQueues(c)
  BY DEF FullQueues
<1> QED BY <1>1 DEF Picked

\* While a call is on its way to the workers the open calls have all their queues.
LEMMA PickedFull ==
    ASSUME NEW c, Picked(c), Picking, calls'[c] = calls[c]
    PROVE  Picked(c)'
<1>1. calls[c].queues = FullQueues(c)
  BY DEF Picked, NoMoreCalls
<1>2. FullQueues(c)' = FullQueues(c)
  BY DEF FullQueues
<1> QED BY <1>1, <1>2 DEF Picked

\* What no step takes back.
LEMMA Forever ==
    ASSUME TypeOK, EngineInv, [Next]_vars
    PROVE  /\ crashes # 0 => crashes' # 0
           /\ NoMoreCalls => NoMoreCalls'
           /\ AllDead => AllDead'
           /\ ~shutdown.broadcastGone' => ~shutdown.broadcastGone
<1>0. crashes \in Nat
  BY ConfigSpec DEF TypeOK
<1>1. CASE EngineStep
  <2>1. UNCHANGED <<alive, shutdown, crashes>>
    BY <1>1, EngineStepSpec
  <2>2. NoMoreCalls => ~Picking'
    <3>1. SUFFICES ASSUME NoMoreCalls PROVE ~Picking'
      OBVIOUS
    <3>2. engine.pc \notin {"bind", "enqueue", "queues"} /\ shutdown.broadcastGone
      BY <3>1 DEF NoMoreCalls, Picking
    <3>3. ASSUME NEW kind \in {"unique", "all"}, NEW block \in BOOLEAN, BeginCall(kind, block)
          PROVE  ~Picking'
      BY <3>2, <3>3, BeginSpec DEF Picking
    <3>4. ASSUME NEW c \in Calls, AskResult(c) PROVE ~Picking'
      BY <3>4 DEF AskResult, Picking
    <3>5. ASSUME NEW status, NEW got, Resolved(status, got) PROVE ~Picking'
      BY <3>5, ResolveSpec DEF Resolved, Picking
    <3>6. <<>> \in Seq(Answer)
      OBVIOUS
    <3>7. StartResponse => ~Picking'
      BY DEF StartResponse, Picking
    <3>8. TakeAnswer => ~Picking'
      BY <3>2, <3>5, TakeSpec DEF Picking
    <3>9. EndResponse => ~Picking'
      BY <3>5, EngineType DEF EndResponse, Resolved
    <3>10. NoAnswer => ~Picking'
      BY <3>5, <3>6 DEF NoAnswer, Resolved
    <3>11. ~(BindBroadcast \/ Enqueue \/ PickQueues)
      BY <3>2 DEF BindBroadcast, Enqueue, PickQueues
    <3> QED BY <1>1, <3>3, <3>4, <3>7, <3>8, <3>9, <3>10, <3>11 DEF EngineStep, CallStep
  <2> QED BY <2>1, <2>2 DEF NoMoreCalls, AllDead
<1>2. ASSUME NEW w \in Workers, TakeCall(w) \/ FinishCall(w) \/ SendOutput(w)
      PROVE  UNCHANGED <<engine, alive, shutdown, crashes>>
  BY <1>2 DEF TakeCall, FinishCall, SendOutput
<1>3. ASSUME NEW w \in Workers, Crash(w) \/ WorkerExit(w)
      PROVE  /\ UNCHANGED <<engine, shutdown>>
             /\ crashes' = crashes \/ crashes' = crashes + 1
             /\ AllDead => AllDead'
  <2>1. /\ UNCHANGED <<engine, shutdown>> /\ alive' = [alive EXCEPT ![w] = FALSE]
        /\ crashes' = crashes \/ crashes' = crashes + 1
    BY <1>3 DEF Crash, WorkerExit
  <2> QED BY <2>1 DEF AllDead
<1>4. CASE EngineShutdown
  <2>1. UNCHANGED <<alive, crashes>> /\ engine'.pc = "shutdown"
    BY <1>4, EnterSpec DEF EngineShutdown
  <2>2. shutdown'.broadcastGone = shutdown.broadcastGone
    BY <1>4, EnterSpec DEF TypeOK
  <2> QED BY <2>1, <2>2 DEF NoMoreCalls, Picking, AllDead
<1>5. CASE MonitorWakes \/ InformEngine
  <2>1. UNCHANGED <<alive, crashes, engine>>
    BY <1>5 DEF MonitorWakes, InformEngine
  <2>2. shutdown'.broadcastGone = shutdown.broadcastGone
    <3>1. MonitorWakes => shutdown'.broadcastGone = shutdown.broadcastGone
      BY EnterSpec DEF TypeOK
    <3>2. InformEngine => shutdown' = [shutdown EXCEPT !.informed = TRUE]
      BY DEF InformEngine
    <3>3. InformEngine => shutdown'.broadcastGone = shutdown.broadcastGone
      BY <3>2 DEF TypeOK
    <3> QED BY <1>5, <3>1, <3>3
  <2> QED BY <2>1, <2>2 DEF NoMoreCalls, Picking, AllDead
<1>6. ASSUME NEW t \in Threads, ShutdownStep(t)
      PROVE  /\ UNCHANGED <<alive, crashes, engine>>
             /\ shutdown.broadcastGone => shutdown'.broadcastGone
  <2>1. UNCHANGED <<alive, crashes, engine>>
    BY <1>6 DEF ShutdownStep
  <2>2. shutdown.broadcastGone => shutdown'.broadcastGone
    BY <1>6, ShutdownSpec
  <2> QED BY <2>1, <2>2
<1>7. CASE UNCHANGED vars
  BY <1>7 DEF vars, NoMoreCalls, Picking, AllDead
<1>8. CASE \E w \in Workers : TakeCall(w) \/ FinishCall(w) \/ SendOutput(w)
  BY <1>2, <1>8 DEF NoMoreCalls, Picking, AllDead
<1>9. CASE \E w \in Workers : Crash(w) \/ WorkerExit(w)
  BY <1>0, <1>3, <1>9 DEF NoMoreCalls, Picking
<1>10. CASE \E t \in Threads : ShutdownStep(t)
  BY <1>6, <1>10 DEF NoMoreCalls, Picking, AllDead
<1> QED
  BY <1>1, <1>4, <1>5, <1>7, <1>8, <1>9, <1>10 DEF Next, EngineStep, CallStep

\* A step that leaves the calls alone.
LEMMA EngineQuiet ==
    ASSUME EngineInv, UNCHANGED <<calls, outcome, futures, reply>>,
           engine'.want = engine.want,
           engine' = engine \/ (engine.pc = "idle" /\ engine'.pc = "shutdown"),
           crashes # 0 => crashes' # 0, NoMoreCalls => NoMoreCalls'
    PROVE  EngineInv'
<1>1. \A d : Open(d)' <=> Open(d)
  BY DEF Open
<1>2. \A d \in Calls : Open(d) /\ Picked(d) => Picked(d)'
  BY <1>1, PickedStays
<1>3. FuturesInOrder'
  BY DEF EngineInv, FuturesInOrder
<1>4. Picking' <=> Picking
  BY DEF Picking
<1> QED BY <1>1, <1>2, <1>3, <1>4 DEF EngineInv

\* The call being answered is not open any more.
LEMMA ResolvedOpen ==
    ASSUME TypeOK, EngineInv, [Next]_vars, UNCHANGED <<calls, futures>>,
           NEW status, NEW got, Resolved(status, got)
    PROVE  /\ EngineInv'
           /\ \A d \in Calls : Open(d)' => Open(d) /\ d # reply.call
<1>1. /\ outcome'[reply.call].status = status
      /\ \A c \in Calls : c # reply.call => outcome'[c] = outcome[c]
      /\ reply'.call = 0
      /\ engine'.pc \in {"idle", "wait"} /\ engine'.want \in Calls \union {0}
      /\ engine'.pc = "wait" <=> engine'.want # 0
      /\ engine'.want = IF reply.call = engine.want THEN 0 ELSE engine.want
  BY ResolveSpec DEF Resolved
<1>2. /\ reply.call \in Calls /\ Open(reply.call) /\ reply.call # 0
      /\ reply.call \in 1..Len(calls) /\ engine.pc = "wait"
  BY ReplyOpen DEF Resolved
<1>3. ASSUME NEW d \in Calls, Open(d)' PROVE Open(d) /\ d # reply.call
  <2>1. CASE \E i \in 1..Len(futures) : futures[i] = d
    <3>1. reply.call < d
      BY <2>1 DEF EngineInv, FuturesInOrder
    <3>2. d # reply.call
      BY <1>2, <3>1, ConfigSpec
    <3> QED BY <2>1, <3>2 DEF Open
  <2>2. CASE d = engine'.want /\ d # 0
    BY <1>1, <2>2 DEF Open
  <2> QED BY <1>1, <1>3, <2>1, <2>2 DEF Open
<1>4. \A d \in Calls : Open(d)' => Picked(d)'
  BY <1>3, PickedStays, Forever DEF EngineInv
<1>5. FuturesInOrder'
  <2>1. \A i \in 1..Len(futures) : 0 < futures[i]
    <3>1. futures \in Seq(Calls)
      BY DEF TypeOK
    <3>2. \A i \in 1..Len(futures) : futures[i] \in Calls
      BY <3>1
    <3> QED BY <3>2, ConfigSpec
  <2>2. engine'.want # 0 => engine'.want = engine.want /\ 0 < engine.want /\ engine.want # reply.call
    BY <1>1, ConfigSpec
  <2> QED BY <1>1, <1>2, <2>1, <2>2 DEF EngineInv, FuturesInOrder
<1>6. ~Picking'
  BY <1>1 DEF Picking
<1>7. \A c \in Calls : c > Len(calls) => outcome'[c].status = "pending"
  BY <1>1, <1>2, ConfigSpec, EngineType DEF EngineInv
<1> QED BY <1>1, <1>3, <1>4, <1>5, <1>6, <1>7 DEF EngineInv

LEMMA EngineNext ==
    ASSUME TypeOK, ShutdownInv, EngineInv, [Next]_vars
    PROVE  EngineInv'
<1>0. /\ Calls = 1..MaxCalls /\ MaxCalls \in Nat /\ Len(calls) \in Nat /\ Len(futures) \in Nat
      /\ reply.call \in Calls \union {0} /\ engine.want \in Calls \union {0}
      /\ futures \in Seq(Calls) /\ Len(calls) <= MaxCalls
  BY ConfigSpec, EngineType DEF TypeOK, EngineInv
<1>1. ASSUME NEW kind \in {"unique", "all"}, NEW block \in BOOLEAN, BeginCall(kind, block)
      PROVE  EngineInv'
  <2>1. UNCHANGED <<futures, reply>>
    BY <1>1 DEF BeginCall
  <2>2. /\ engine.pc = "idle" /\ engine.want = 0 /\ engine'.want = 0 /\ reply.call = 0
        /\ engine'.pc \in {"idle", "bind"}
        /\ Len(calls') = Len(calls) + 1 /\ Len(calls) + 1 \in Calls
        /\ \A d \in 1..Len(calls) : calls'[d] = calls[d]
        /\ engine'.pc = "bind" => ~shutdown.broadcastGone /\ UNCHANGED outcome
    BY <1>1, BeginSpec DEF EngineInv
  <2>3. \A d \in Calls : d # Len(calls) + 1 => outcome'[d] = outcome[d]
    BY <1>1, <2>2, BeginSpec, FailedOutcome
  <2>4. \A d \in Calls : Open(d)' <=> Open(d)
    BY <2>1, <2>2 DEF Open
  <2>5. \A d \in Calls : Open(d) => d \in 1..Len(calls) /\ Picked(d)
    BY OpenCall
  <2>6. \A d \in Calls : Open(d) => Picked(d)'
    BY <2>2, <2>4, <2>5, PickedStays, Forever
  <2>7. FuturesInOrder'
    BY <2>1, <2>2 DEF EngineInv, FuturesInOrder
  <2>8. \A c \in Calls : c > Len(calls') => outcome'[c].status = "pending"
    BY <1>0, <2>2, <2>3 DEF EngineInv
  <2>9. Picking' => Len(calls') # 0 /\ outcome'[Len(calls')].status = "pending"
    BY <1>0, <2>2 DEF EngineInv, Picking
  <2>10. \A c \in Calls : Open(c)' =>
           c <= Len(calls') /\ outcome'[c].status = "pending" /\ c < Len(calls')
    BY <1>0, <2>2, <2>3, <2>4, <2>5, OpenCall
  <2> QED BY <1>0, <2>1, <2>2, <2>4, <2>6, <2>7, <2>8, <2>9, <2>10 DEF EngineInv
<1>2. ASSUME NEW c \in Calls, AskResult(c) PROVE EngineInv'
  <2>1. /\ engine.pc = "idle" /\ engine.want = 0 /\ reply.call = 0
        /\ engine' = [pc |-> "wait", want |-> c]
        /\ UNCHANGED <<calls, futures, outcome, reply>>
    BY <1>2 DEF AskResult, EngineInv
  <2>2. \E i \in 1..Len(futures) : futures[i] = c
    BY <1>0, <1>2, ToSetDef DEF AskResult
  <2>3. \A d \in Calls : Open(d)' <=> Open(d)
    BY <2>1, <2>2 DEF Open
  <2>4. \A d \in Calls : Open(d) => Picked(d)'
    BY <2>1, <2>3, OpenCall, PickedStays, Forever
  <2>5. FuturesInOrder'
    BY <2>1, <2>2 DEF EngineInv, FuturesInOrder
  <2>6. ~Picking' /\ c # 0
    BY <1>0, <2>1 DEF Picking
  <2> QED BY <2>1, <2>3, <2>4, <2>5, <2>6 DEF EngineInv
<1>3. ASSUME Picking, UNCHANGED <<calls, futures, reply>>, engine'.want = engine.want,
             \A d \in Calls : d # Len(calls) => outcome'[d] = outcome[d],
             \/ engine'.pc = "idle"
             \/ engine'.pc \in {"enqueue", "queues"} /\ UNCHANGED outcome
      PROVE  EngineInv'
  <2>1. engine.want = 0 /\ reply.call = 0 /\ Len(calls) # 0
    BY <1>3 DEF EngineInv, Picking
  <2>2. \A d \in Calls : Open(d)' <=> Open(d)
    BY <1>3 DEF Open
  <2>3. \A d \in Calls : Open(d) => d < Len(calls) /\ Picked(d)
    BY <1>3 DEF EngineInv
  <2>4. \A d \in Calls : Open(d) => Picked(d)'
    BY <1>3, <2>3, PickedFull
  <2>5. FuturesInOrder'
    BY <1>3 DEF EngineInv, FuturesInOrder
  <2>6. \A d \in Calls : d > Len(calls) => outcome'[d].status = "pending"
    BY <1>0, <1>3 DEF EngineInv
  <2>7. Picking' => outcome'[Len(calls)].status = "pending"
    BY <1>3 DEF EngineInv, Picking
  <2>8. \A d \in Calls : Open(d) => outcome'[d].status = "pending" /\ d <= Len(calls)
    BY <1>0, <1>3, <2>3 DEF EngineInv
  <2>9. engine'.pc # "wait"
    BY <1>3
  <2> QED BY <1>3, <2>1, <2>2, <2>3, <2>4, <2>5, <2>6, <2>7, <2>8, <2>9 DEF EngineInv
<1>4. CASE BindBroadcast
  <2>1. UNCHANGED <<calls, futures, reply>> /\ Picking
    BY <1>4 DEF BindBroadcast, Picking
  <2>2. engine'.want = engine.want
    BY <1>4, BindSpec
  <2>3. \A d \in Calls : d # Len(calls) => outcome'[d] = outcome[d]
    BY <1>4, BindSpec, FailedOutcome
  <2>4. engine'.pc = "idle" \/ (engine'.pc \in {"enqueue", "queues"} /\ UNCHANGED outcome)
    BY <1>4, BindSpec
  <2> QED BY <1>3, <2>1, <2>2, <2>3, <2>4
<1>5. CASE Enqueue
  BY <1>3, <1>5, EngineType DEF Enqueue, Picking
<1>6. CASE PickQueues
  <2>1. /\ UNCHANGED reply /\ engine.pc = "queues" /\ Picking
        /\ engine.want = 0 /\ reply.call = 0
    BY <1>6 DEF PickQueues, Picking, EngineInv
  <2> PICK c \in Nat : c = Len(calls)
    BY <1>0
  <2>2. CASE shutdown.listGone /\ calls[c].reply = "unique"
    <3>1. /\ outcome' = [outcome EXCEPT ![c] = Result("failed", <<>>)]
          /\ engine' = [pc |-> "idle", want |-> engine.want]
          /\ UNCHANGED <<calls, futures>> /\ c \in Calls
      BY <1>6, <2>2, PickSpec
    <3>2. \A d \in Calls : d # c => outcome'[d] = outcome[d]
      BY <3>1, FailedOutcome
    <3> QED BY <1>3, <2>1, <3>1, <3>2
  <2>3. CASE ~(shutdown.listGone /\ calls[c].reply = "unique")
    <3>1. /\ ~shutdown.listGone \/ calls[c].reply = "all"
          /\ calls' \in Seq(CallRec) /\ Len(calls') = Len(calls)
          /\ calls'[c].queues = PickedQueues(c)
          /\ calls'[c].reply = calls[c].reply
          /\ \A d \in 1..Len(calls) : d # c => calls'[d] = calls[d]
          /\ UNCHANGED outcome
          /\ c \in Calls /\ c # 0
      BY <1>0, <1>6, <2>3, PickSpec
    <3>2. \/ engine' = [pc |-> "wait", want |-> c] /\ UNCHANGED futures
          \/ futures' = Append(futures, c) /\ engine' = [pc |-> "idle", want |-> engine.want]
      BY <1>6, <2>3, PickSpec
    <3>3. \A d \in Calls : Open(d)' => Open(d) \/ d = c
      <4>1. CASE engine' = [pc |-> "wait", want |-> c] /\ UNCHANGED futures
        BY <2>1, <4>1 DEF Open
      <4>2. CASE futures' = Append(futures, c)
                   /\ engine' = [pc |-> "idle", want |-> engine.want]
        BY <1>0, <2>1, <3>1, <4>2 DEF Open
      <4> QED BY <3>2, <4>1, <4>2
    <3>4. \A d \in Calls : Open(d) => d < c /\ d \in 1..Len(calls) /\ Picked(d)
      BY <2>1, OpenCall DEF EngineInv
    <3>5. \A d \in Calls : Open(d) => Picked(d)'
      BY <1>0, <2>1, <3>1, <3>4, PickedFull
    <3>6. Picked(c)'
      <4>1. CASE ~shutdown.listGone
        <5>1. FullQueues(c)' = FullQueues(c)
          BY <3>1 DEF FullQueues
        <5> QED BY <3>1, <4>1, <5>1 DEF Picked, PickedQueues
      <4>2. CASE shutdown.listGone
        <5>1. calls'[c].queues = <<>> /\ calls'[c].reply = "all"
          BY <3>1, <4>2 DEF PickedQueues
        <5>2. crashes # 0 /\ shutdown.broadcastGone
          BY <2>1, <4>2 DEF ShutdownInv
        <5>3. ~Picking' /\ UNCHANGED <<crashes, shutdown>>
          BY <1>6, <3>2 DEF Picking, PickQueues
        <5>4. \A d \in Calls : Open(d)' => d <= c
          BY <1>0, <3>3, <3>4
        <5> QED BY <5>1, <5>2, <5>3, <5>4 DEF Picked, NoMoreCalls
      <4> QED BY <4>1, <4>2
    <3>7. FuturesInOrder'
      <4>1. \A i \in 1..Len(futures) : 0 < futures[i] /\ futures[i] < c
        <5>1. \A i \in 1..Len(futures) : futures[i] \in Calls /\ Open(futures[i])
          BY <1>0 DEF Open
        <5> QED BY <1>0, <3>4, <5>1
      <4>2. CASE engine' = [pc |-> "wait", want |-> c] /\ UNCHANGED futures
        BY <1>0, <2>1, <3>1, <4>1, <4>2 DEF EngineInv, FuturesInOrder
      <4>3. CASE futures' = Append(futures, c)
                   /\ engine' = [pc |-> "idle", want |-> engine.want]
        <5>1. /\ Len(futures') = Len(futures) + 1 /\ futures'[Len(futures) + 1] = c
              /\ \A i \in 1..Len(futures) : futures'[i] = futures[i]
          BY <1>0, <3>1, <4>3
        <5>0. \A i \in 1..Len(futures) + 1 : i \in 1..Len(futures) \/ i = Len(futures) + 1
          BY <1>0
        <5>2. ASSUME NEW i \in 1..Len(futures) + 1, NEW j \in 1..Len(futures) + 1, i < j
              PROVE  futures'[i] < futures'[j]
          <6>1. i \in 1..Len(futures)
            BY <1>0, <5>2
          <6>2. CASE j = Len(futures) + 1
            BY <4>1, <5>1, <6>1, <6>2
          <6>3. CASE j \in 1..Len(futures)
            BY <5>1, <5>2, <6>1, <6>3 DEF EngineInv, FuturesInOrder
          <6> QED BY <5>0, <6>2, <6>3
        <5>3. ASSUME NEW i \in 1..Len(futures) + 1 PROVE 0 < futures'[i]
          <6>1. 0 < c
            BY <3>1
          <6> QED BY <4>1, <5>0, <5>1, <6>1
        <5>4. engine'.want = 0 /\ reply'.call = 0
          BY <2>1, <4>3
        <5> QED BY <5>1, <5>2, <5>3, <5>4 DEF FuturesInOrder
      <4> QED BY <3>2, <4>2, <4>3
    <3>8. engine'.pc = "wait" <=> engine'.want # 0
      BY <2>1, <3>1, <3>2
    <3>9. ~Picking' /\ reply'.call = 0
      BY <2>1, <3>2 DEF Picking
    <3>10. \A d \in Calls : Open(d)' =>
             d <= Len(calls) /\ outcome[d].status = "pending" /\ Picked(d)'
      BY <1>0, <2>1, <3>3, <3>4, <3>5, <3>6 DEF EngineInv
    <3>11. \A d \in Calls : d > Len(calls') => outcome'[d].status = "pending"
      BY <3>1 DEF EngineInv
    <3> QED BY <1>0, <3>1, <3>7, <3>8, <3>9, <3>10, <3>11 DEF EngineInv
  <2> QED BY <2>2, <2>3
<1>7. CASE StartResponse
  <2>1. /\ UNCHANGED <<calls, outcome, engine>>
        /\ engine.pc = "wait" /\ engine.want # 0 /\ reply.call = 0
    BY <1>7 DEF StartResponse, EngineInv
  <2>2. CASE futures # <<>>
    <3>1. /\ futures[1] \in Calls /\ 1 \in 1..Len(futures)
          /\ reply' = [call |-> futures[1], got |-> <<>>]
          /\ Len(futures') = Len(futures) - 1
          /\ \A i \in 1..Len(futures) - 1 : futures'[i] = futures[i + 1]
      BY <1>0, <1>7, <2>2, StartSpec
    <3>2. \A d \in Calls : Open(d)' => Open(d)
      <4>1. \A i \in 1..Len(futures') : i + 1 \in 1..Len(futures)
        BY <1>0, <3>1
      <4> QED BY <2>1, <3>1, <4>1 DEF Open
    <3>3. FuturesInOrder'
      <4>1. \A i \in 1..Len(futures) - 1 : i + 1 \in 1..Len(futures) /\ 1 < i + 1
        BY <1>0
      <4>2. /\ \A i, j \in 1..Len(futures') : i < j => futures'[i] < futures'[j]
            /\ \A i \in 1..Len(futures') : futures[1] < futures'[i]
        <5>1. \A i, j \in 1..Len(futures) : i < j => futures[i] < futures[j]
          BY DEF EngineInv, FuturesInOrder
        <5>2. ASSUME NEW i \in 1..Len(futures') PROVE futures[1] < futures'[i]
          BY <3>1, <4>1, <5>1
        <5>3. ASSUME NEW i \in 1..Len(futures'), NEW j \in 1..Len(futures'), i < j
              PROVE  futures'[i] < futures'[j]
          <6>1. i + 1 < j + 1
            BY <1>0, <3>1, <5>3
          <6> QED BY <3>1, <4>1, <5>1, <6>1
        <5> QED BY <5>2, <5>3
      <4>3. SUFFICES ASSUME engine.want # futures[1],
                            \A i \in 1..Len(futures') : futures'[i] # engine.want
                     PROVE  /\ futures[1] < engine.want
                            /\ \A i \in 1..Len(futures') : futures'[i] < engine.want
        BY <2>1, <3>1, <4>2 DEF FuturesInOrder
      <4>4. \A i \in 1..Len(futures) : futures[i] # engine.want
        <5>1. SUFFICES ASSUME NEW i \in 1..Len(futures), i # 1 PROVE futures[i] # engine.want
          BY <4>3
        <5>2. i - 1 \in 1..Len(futures') /\ futures'[i - 1] = futures[i]
          BY <1>0, <3>1, <5>1
        <5> QED BY <4>3, <5>2
      <4>5. \A i \in 1..Len(futures) : futures[i] < engine.want
        BY <2>1, <4>4 DEF EngineInv, FuturesInOrder
      <4> QED BY <1>0, <3>1, <4>1, <4>5
    <3>4. \A d \in Calls : Open(d)' => Picked(d)'
      BY <2>1, <3>2, OpenCall, PickedStays, Forever
    <3>5. ~Picking' /\ reply'.got = <<>> /\ reply'.call = futures[1]
      BY <2>1, <3>1 DEF Picking
    <3>6. Len(reply'.got) <= Len(calls[reply'.call].queues)
      BY <3>1, <3>5, OpenCall DEF Open
    <3> QED BY <2>1, <3>2, <3>3, <3>4, <3>5, <3>6 DEF EngineInv
  <2>3. CASE futures = <<>>
    <3>1. reply' = [call |-> engine.want, got |-> <<>>] /\ UNCHANGED futures
      BY <1>7, <2>3, StartSpec
    <3>2. \A d \in Calls : Open(d)' => Open(d)
      BY <2>1, <3>1 DEF Open
    <3>3. FuturesInOrder'
      BY <2>1, <2>3, <3>1 DEF FuturesInOrder
    <3>4. \A d \in Calls : Open(d)' => Picked(d)'
      BY <2>1, <3>2, OpenCall, PickedStays, Forever
    <3>5. ~Picking' /\ reply'.got = <<>> /\ reply'.call = engine.want
      BY <2>1, <3>1 DEF Picking
    <3>6. Len(reply'.got) <= Len(calls[reply'.call].queues)
      BY <1>0, <2>1, <3>5, OpenCall DEF Open
    <3> QED BY <2>1, <3>2, <3>3, <3>4, <3>5, <3>6 DEF EngineInv
  <2> QED BY <2>2, <2>3
<1>8. CASE TakeAnswer
  <2>1. UNCHANGED <<calls, futures>>
    BY <1>8 DEF TakeAnswer
  <2>2. CASE Resolved("failed", <<>>)
    BY <2>1, <2>2, ResolvedOpen
  <2>3. CASE ~Resolved("failed", <<>>)
    <3>1. /\ reply' = [call |-> reply.call, got |-> Append(reply.got, Head(answers[NextQueue]))]
          /\ UNCHANGED <<outcome, engine>> /\ reply.call # 0
          /\ Len(reply.got) < Len(calls[reply.call].queues)
          /\ Head(answers[NextQueue]) \in Answer
      BY <1>8, <2>3, TakeSpec
    <3>2. reply'.call = reply.call /\ Len(reply'.got) = Len(reply.got) + 1
      BY <3>1, EngineType
    <3>3. \A d \in Calls : Open(d)' <=> Open(d)
      BY <2>1, <3>1, <3>2 DEF Open
    <3>4. \A d \in Calls : Open(d)' => Picked(d)'
      BY <2>1, <3>3, OpenCall, PickedStays, Forever
    <3>5. FuturesInOrder'
      BY <2>1, <3>1, <3>2 DEF EngineInv, FuturesInOrder
    <3>6. Picking' <=> Picking
      BY <3>1 DEF Picking
    <3>7. Len(reply'.got) <= Len(calls[reply.call].queues)
      BY <3>1, <3>2, ReplyOpen, EngineType
    <3> QED BY <2>1, <3>1, <3>2, <3>3, <3>4, <3>5, <3>6, <3>7 DEF EngineInv
  <2> QED BY <2>2, <2>3
<1>9. CASE EndResponse
  <2>1. UNCHANGED <<calls, futures>> /\ Resolved("ok", reply.got)
    BY <1>9, EngineType DEF EndResponse, Resolved
  <2> QED BY <2>1, ResolvedOpen
<1>10. CASE NoAnswer
  <2>1. <<>> \in Seq(Answer)
    OBVIOUS
  <2>2. /\ UNCHANGED <<calls, futures>>
        /\ Resolved("cancelled", <<>>) \/ Resolved("timeout", <<>>)
    BY <1>10, <2>1 DEF NoAnswer, Resolved
  <2> QED BY <2>2, ResolvedOpen
<1>11. CASE EngineShutdown
  <2>1. UNCHANGED <<calls, outcome, futures, reply>>
    BY <1>11 DEF EngineShutdown
  <2>2. engine.pc = "idle" /\ engine'.pc = "shutdown" /\ engine'.want = engine.want
    BY <1>11, EnterSpec
  <2> QED BY <2>1, <2>2, EngineQuiet, Forever
<1>12. ASSUME NEW w \in Workers,
              TakeCall(w) \/ FinishCall(w) \/ SendOutput(w) \/ Crash(w) \/ WorkerExit(w)
       PROVE  EngineInv'
  <2>1. UNCHANGED <<calls, outcome, futures, reply, engine>>
    BY <1>12 DEF TakeCall, FinishCall, SendOutput, Crash, WorkerExit
  <2> QED BY <2>1, EngineQuiet, Forever
<1>13. ASSUME MonitorWakes \/ InformEngine \/ \E t \in Threads : ShutdownStep(t)
       PROVE  EngineInv'
  <2>1. UNCHANGED <<calls, outcome, futures, reply, engine>>
    BY <1>13 DEF MonitorWakes, InformEngine, ShutdownStep
  <2> QED BY <2>1, EngineQuiet, Forever
<1>14. CASE UNCHANGED vars
  <2>1. UNCHANGED <<calls, outcome, futures, reply, engine>>
    BY <1>14 DEF vars
  <2> QED BY <2>1, EngineQuiet, Forever
<1> QED
  BY <1>1, <1>2, <1>4, <1>5, <1>6, <1>7, <1>8, <1>9, <1>10, <1>11, <1>12, <1>13, <1>14 DEF Next

-----------------------------------------------------------------------------
(* Workers answer in the order of the calls *)

\* What becomes of the calls in any step.
LEMMA CallsKept ==
    ASSUME TypeOK, EngineInv, [Next]_vars
    PROVE  /\ Len(calls) <= Len(calls') /\ UNCHANGED config
           /\ \A c \in 1..Len(calls) :
                calls'[c].reply = calls[c].reply /\ Repliers(c)' = Repliers(c)
<1>1. /\ Len(calls) <= Len(calls') /\ UNCHANGED config
      /\ \A c \in 1..Len(calls) : calls'[c].reply = calls[c].reply
  <2>1. ASSUME NEW kind \in {"unique", "all"}, NEW block \in BOOLEAN, BeginCall(kind, block)
        PROVE  /\ Len(calls) <= Len(calls') /\ UNCHANGED config
               /\ \A c \in 1..Len(calls) : calls'[c].reply = calls[c].reply
    <3>1. Len(calls') = Len(calls) + 1 /\ \A c \in 1..Len(calls) : calls'[c] = calls[c]
      BY <2>1, BeginSpec
    <3> QED BY <2>1, <3>1, EngineType DEF BeginCall
  <2>2. CASE PickQueues
    <3>1. /\ Len(calls') = Len(calls)
          /\ \A c \in 1..Len(calls) : calls'[c].reply = calls[c].reply
      BY <2>2, PickSpec
    <3> QED BY <2>2, <3>1, EngineType DEF PickQueues
  <2>3. CASE UNCHANGED <<calls, config>>
    BY <2>3, EngineType
  <2>4. ASSUME NEW c \in Calls, AskResult(c) PROVE UNCHANGED <<calls, config>>
    BY <2>4 DEF AskResult
  <2>5. ASSUME NEW w \in Workers,
               TakeCall(w) \/ FinishCall(w) \/ SendOutput(w) \/ Crash(w) \/ WorkerExit(w)
        PROVE  UNCHANGED <<calls, config>>
    BY <2>5 DEF TakeCall, FinishCall, SendOutput, Crash, WorkerExit
  <2>6. ASSUME \/ BindBroadcast \/ Enqueue
               \/ StartResponse \/ TakeAnswer \/ EndResponse \/ NoAnswer \/ EngineShutdown
               \/ MonitorWakes \/ InformEngine \/ \E t \in Threads : ShutdownStep(t)
        PROVE  UNCHANGED <<calls, config>>
    BY <2>6 DEF BindBroadcast, Enqueue, StartResponse, TakeAnswer, EndResponse, NoAnswer,
                EngineShutdown, MonitorWakes, InformEngine, ShutdownStep
  <2>7. CASE UNCHANGED vars
    BY <2>3, <2>7 DEF vars
  <2> QED BY <2>1, <2>2, <2>3, <2>4, <2>5, <2>6, <2>7 DEF Next
<1> QED BY <1>1 DEF Repliers

LEMMA AnswerType ==
    ASSUME TypeOK, SentInv, NEW w \in Workers, NEW a \in Answer, Takes(w), IsAnswer(w, a)
    PROVE  a.call \in Calls /\ a.call \in 1..Len(calls)
<1>1. a.call \in Calls
  BY DEF Answer
<1>2. a.call <= Len(calls)
  <2>1. PICK i \in 1..taken[w] : sent[i] = a.call
    BY DEF IsAnswer
  <2>2. i \in 1..Len(sent)
    BY <2>1, WorkerType, ConfigSpec, EngineType DEF Takes
  <2> QED BY <2>1, <2>2 DEF SentInv
<1> QED BY <1>1, <1>2, ConfigSpec, EngineType

\* A step that leaves the worker and the calls it has taken alone.
LEMMA WorkerKept ==
    ASSUME TypeOK, EngineInv, SentInv, [Next]_vars, NEW w \in Workers, Takes(w), Answers(w),
           taken'[w] = taken[w], job'[w] = job[w],
           Len(sent') \in Nat, Len(sent) <= Len(sent'),
           \A i \in 1..Len(sent) : sent'[i] = sent[i]
    PROVE  /\ Takes(w)'
           /\ \A a \in Answer : IsAnswer(w, a) => IsAnswer(w, a)'
<1>1. taken[w] <= Len(sent) /\ taken[w] \in Nat
  BY WorkerType, ConfigSpec DEF Takes
<1>2. \A i \in 1..taken[w] : sent'[i] = sent[i]
  BY <1>1, EngineType
<1>3. Takes(w)'
  <2>1. job[w] # 0 => taken[w] \in 1..taken[w]
    BY <1>1 DEF Takes
  <2>2. taken[w] <= Len(sent')
    BY <1>1, EngineType
  <2> QED BY <1>2, <2>1, <2>2 DEF Takes
<1>4. ASSUME NEW a \in Answer, IsAnswer(w, a) PROVE IsAnswer(w, a)'
  <2>1. Repliers(a.call)' = Repliers(a.call)
    BY <1>4, AnswerType, CallsKept
  <2> QED BY <1>2, <1>4, <2>1 DEF IsAnswer
<1> QED BY <1>3, <1>4

LEMMA AnswersKept ==
    ASSUME NEW w \in Workers, TypeOK, Answers(w),
           \A a \in Answer : IsAnswer(w, a) => IsAnswer(w, a)',
           answers'[w] = answers[w], outputs'[w] = outputs[w], UNCHANGED config
    PROVE  Answers(w)'
<1>1. /\ \A i \in 1..Len(answers[w]) : answers[w][i] \in Answer
      /\ \A i \in 1..Len(outputs[w]) : outputs[w][i] \in Answer
  BY WorkerType
<1> QED BY <1>1 DEF Answers, AsyncOutput

LEMMA TailSpec ==
    ASSUME NEW S, NEW s \in Seq(S), s # <<>>
    PROVE  /\ Tail(s) \in Seq(S) /\ Len(Tail(s)) = Len(s) - 1 /\ Len(s) \in Nat \ {0}
           /\ Head(s) = s[1] /\ s[1] \in S /\ 1 \in 1..Len(s)
           /\ \A i \in 1..Len(Tail(s)) : i + 1 \in 1..Len(s) /\ Tail(s)[i] = s[i + 1]
  OBVIOUS

LEMMA AppendSpec ==
    ASSUME NEW S, NEW s \in Seq(S), NEW x \in S
    PROVE  /\ Append(s, x) \in Seq(S) /\ Len(Append(s, x)) = Len(s) + 1 /\ Len(s) \in Nat
           /\ Append(s, x)[Len(s) + 1] = x
           /\ \A i \in 1..Len(s) : Append(s, x)[i] = s[i]
           /\ \A i \in 1..Len(s) + 1 : i \in 1..Len(s) \/ i = Len(s) + 1
  OBVIOUS

\* Every answer in one queue is in the other, or is a new one.
Within(t, s) == \A i \in 1..Len(t) : \E j \in 1..Len(s) : t[i] = s[j]
WithinOr(t, s, x) == \A i \in 1..Len(t) : t[i] = x \/ \E j \in 1..Len(s) : t[i] = s[j]
Below(s, n) == \A i \in 1..Len(s) : s[i].call < n
Above(s, n) == \A i \in 1..Len(s) : n < s[i].call

\* The head of the queue is taken.
LEMMA TailOrdered ==
    ASSUME NEW s \in Seq(Answer), s # <<>>, CallsRise(s)
    PROVE  CallsRise(Tail(s)) /\ Above(Tail(s), s[1].call) /\ Within(Tail(s), s)
<1> DEFINE t == Tail(s)
<1>1. /\ Len(t) = Len(s) - 1 /\ Len(s) \in Nat \ {0} /\ 1 \in 1..Len(s)
      /\ \A i \in 1..Len(t) : i + 1 \in 1..Len(s) /\ t[i] = s[i + 1]
  BY TailSpec
<1> HIDE DEF t
<1>2. ASSUME NEW i \in 1..Len(t), NEW j \in 1..Len(t), i < j PROVE t[i].call < t[j].call
  <2>1. i + 1 < j + 1 /\ i + 1 \in 1..Len(s) /\ j + 1 \in 1..Len(s)
    BY <1>1, <1>2
  <2> QED BY <1>1, <2>1 DEF CallsRise
<1>3. ASSUME NEW i \in 1..Len(t) PROVE s[1].call < t[i].call
  <2>1. 1 < i + 1 /\ i + 1 \in 1..Len(s)
    BY <1>1
  <2> QED BY <1>1, <2>1 DEF CallsRise
<1>4. Within(t, s)
  BY <1>1 DEF Within
<1> QED BY <1>2, <1>3, <1>4 DEF t, CallsRise, Above

\* An answer to a later call comes to the end of the queue.
LEMMA AppendOrdered ==
    ASSUME NEW s \in Seq(Answer), NEW x \in Answer, CallsRise(s), Below(s, x.call)
    PROVE  CallsRise(Append(s, x)) /\ WithinOr(Append(s, x), s, x)
<1> DEFINE t == Append(s, x)
<1>1. /\ Len(t) = Len(s) + 1 /\ Len(s) \in Nat /\ t[Len(s) + 1] = x
      /\ \A i \in 1..Len(s) : t[i] = s[i]
      /\ \A i \in 1..Len(t) : i \in 1..Len(s) \/ i = Len(s) + 1
  BY AppendSpec
<1> HIDE DEF t
<1>2. ASSUME NEW i \in 1..Len(t), NEW j \in 1..Len(t), i < j PROVE t[i].call < t[j].call
  <2>1. i \in 1..Len(s)
    BY <1>1, <1>2
  <2>2. CASE j \in 1..Len(s)
    BY <1>1, <1>2, <2>1, <2>2 DEF CallsRise
  <2>3. CASE j = Len(s) + 1
    BY <1>1, <2>1, <2>3 DEF Below
  <2> QED BY <1>1, <2>2, <2>3
<1>3. WithinOr(t, s, x)
  BY <1>1 DEF WithinOr
<1> QED BY <1>2, <1>3 DEF t, CallsRise

LEMMA WorkersNext ==
    ASSUME TypeOK, EngineInv, SentInv, WorkersInv, [Next]_vars, TypeOK'
    PROVE  WorkersInv'
<1> SUFFICES ASSUME NEW w \in Workers PROVE Takes(w)' /\ Answers(w)'
  BY DEF WorkersInv
<1>0. /\ Takes(w) /\ Answers(w) /\ UNCHANGED config
      /\ sent \in Seq(Calls) /\ sent' \in Seq(Calls)
      /\ Len(sent) \in Nat /\ Len(sent') \in Nat /\ Len(sent) <= Len(sent)
      /\ taken[w] \in Nat /\ taken[w] <= Len(sent)
      /\ Calls \subseteq Nat \ {0}
  <2>1. Takes(w) /\ Answers(w) /\ UNCHANGED config
    BY CallsKept DEF WorkersInv
  <2>2. sent \in Seq(Calls) /\ sent' \in Seq(Calls)
    BY DEF TypeOK
  <2>3. taken[w] \in Nat /\ taken[w] <= Len(sent)
    BY <2>1, WorkerType, ConfigSpec DEF Takes
  <2> QED BY <2>1, <2>2, <2>3, ConfigSpec
<1>1. ASSUME UNCHANGED <<taken, job, outputs, answers>>,
             Len(sent) <= Len(sent'), \A i \in 1..Len(sent) : sent'[i] = sent[i]
      PROVE  Takes(w)' /\ Answers(w)'
  <2>1. Takes(w)' /\ \A a \in Answer : IsAnswer(w, a) => IsAnswer(w, a)'
    BY <1>0, <1>1, WorkerKept
  <2> QED BY <1>0, <1>1, <2>1, AnswersKept
<1>2. ASSUME UNCHANGED <<taken, job, outputs, answers, sent>> PROVE Takes(w)' /\ Answers(w)'
  BY <1>0, <1>1, <1>2
<1>3. CASE Enqueue
  <2>1. sent' = Append(sent, Len(calls)) /\ UNCHANGED <<taken, job, outputs, answers>>
    BY <1>3 DEF Enqueue, workerVars
  <2>2. Len(calls) \in Calls
    BY <1>3, ConfigSpec, EngineType DEF Enqueue, EngineInv, Picking
  <2>3. Len(sent) <= Len(sent') /\ \A i \in 1..Len(sent) : sent'[i] = sent[i]
    BY <1>0, <2>1, <2>2
  <2> QED BY <1>1, <2>1, <2>3
<1>4. CASE TakeAnswer
  <2>1. UNCHANGED <<taken, job, outputs, sent>>
    BY <1>4 DEF TakeAnswer, workerVars
  <2>2. Takes(w)' /\ \A a \in Answer : IsAnswer(w, a) => IsAnswer(w, a)'
    BY <1>0, <2>1, WorkerKept
  <2>3. answers' = [answers EXCEPT ![NextQueue] = Tail(answers[NextQueue])]
        /\ answers[NextQueue] # <<>> /\ NextQueue \in Workers
    BY <1>4, TakeSpec
  <2>4. CASE w # NextQueue
    <3>1. answers'[w] = answers[w]
      BY <2>3, <2>4 DEF TypeOK
    <3> QED BY <1>0, <2>1, <2>2, <3>1, AnswersKept
  <2>5. CASE w = NextQueue
    <3>1. answers'[w] = Tail(answers[w]) /\ answers[w] # <<>>
      BY <2>3, <2>5 DEF TypeOK
    <3>2. CallsRise(answers'[w]) /\ Within(answers'[w], answers[w])
      BY <1>0, <3>1, WorkerType, TailOrdered DEF Answers
    <3>3. /\ \A i \in 1..Len(answers[w]) : answers[w][i] \in Answer /\ IsAnswer(w, answers[w][i])
          /\ \A i \in 1..Len(outputs[w]) : outputs[w][i] \in Answer /\ IsAnswer(w, outputs[w][i])
      BY <1>0, WorkerType DEF Answers
    <3>5. (\A i \in 1..Len(answers[w]) : IsAnswer(w, answers[w][i]))'
      BY <2>2, <3>2, <3>3 DEF Within
    <3>6. (\A i \in 1..Len(outputs[w]) : IsAnswer(w, outputs[w][i]))'
      BY <2>1, <2>2, <3>3
    <3>7. \A i \in 1..Len(answers'[w]), j \in 1..Len(outputs[w]) :
            answers'[w][i].call < outputs[w][j].call
      BY <1>0, <3>2 DEF Answers, Within
    <3>8. CallsRise(outputs'[w]) /\ (~AsyncOutput => outputs[w] = <<>>)'
      BY <1>0, <2>1 DEF Answers, AsyncOutput
    <3>9. \A i \in 1..Len(answers'[w]), j \in 1..Len(outputs'[w]) :
            answers'[w][i].call < outputs'[w][j].call
      BY <2>1, <3>7
    <3>10. Answers(w)'
      BY <3>2, <3>5, <3>6, <3>8, <3>9 DEF Answers
    <3> QED BY <2>2, <3>10
  <2> QED BY <2>4, <2>5
<1>5. ASSUME NEW v \in Workers, TakeCall(v) PROVE Takes(w)' /\ Answers(w)'
  <2>1. /\ UNCHANGED <<sent, outputs, answers>> /\ job[v] = 0 /\ taken[v] < Len(sent)
        /\ job' = [job EXCEPT ![v] = sent[taken[v] + 1]]
        /\ taken' = [taken EXCEPT ![v] = taken[v] + 1]
    BY <1>5 DEF TakeCall
  <2>2. CASE w # v
    <3>1. taken'[w] = taken[w] /\ job'[w] = job[w]
      BY <2>1, <2>2 DEF TypeOK
    <3>2. Takes(w)' /\ \A a \in Answer : IsAnswer(w, a) => IsAnswer(w, a)'
      BY <1>0, <2>1, <3>1, WorkerKept
    <3> QED BY <1>0, <2>1, <3>2, AnswersKept
  <2>3. CASE w = v
    <3>1. taken'[w] = taken[w] + 1 /\ job'[w] = sent[taken[w] + 1]
      BY <2>1, <2>3 DEF TypeOK
    <3>2. Takes(w)'
      BY <1>0, <2>1, <2>3, <3>1 DEF Takes
    <3>3. ASSUME NEW a \in Answer, IsAnswer(w, a) PROVE IsAnswer(w, a)'
      <4>1. PICK i \in 1..taken[w] : sent[i] = a.call
        BY <3>3 DEF IsAnswer
      <4>2. i \in 1..taken'[w] /\ i < taken'[w]
        BY <1>0, <3>1
      <4>3. Repliers(a.call)' = Repliers(a.call)
        BY <1>0, <3>3, AnswerType, CallsKept
      <4> QED BY <2>1, <3>3, <4>1, <4>2, <4>3 DEF IsAnswer
    <3> QED BY <1>0, <2>1, <3>2, <3>3, AnswersKept
  <2> QED BY <2>2, <2>3
<1>6. ASSUME NEW v \in Workers, FinishCall(v) PROVE Takes(w)' /\ Answers(w)'
  <2>1. /\ UNCHANGED <<sent, taken>> /\ job[v] # 0
        /\ job' = [job EXCEPT ![v] = 0]
    BY <1>6 DEF FinishCall
  <2>2. PICK ok \in BOOLEAN :
          LET a == [call |-> job[v], worker |-> v, ok |-> ok]
          IN  /\ outputs' = IF AsyncOutput /\ v \in Repliers(job[v])
                            THEN [outputs EXCEPT ![v] = Append(@, a)] ELSE outputs
              /\ answers' = IF ~AsyncOutput /\ v \in Repliers(job[v])
                            THEN [answers EXCEPT ![v] = Append(@, a)] ELSE answers
    BY <1>6 DEF FinishCall
  <2>3. CASE w # v
    <3>1. /\ taken'[w] = taken[w] /\ job'[w] = job[w]
          /\ answers'[w] = answers[w] /\ outputs'[w] = outputs[w]
      BY <2>1, <2>2, <2>3 DEF TypeOK
    <3>2. Takes(w)' /\ \A a \in Answer : IsAnswer(w, a) => IsAnswer(w, a)'
      BY <1>0, <2>1, <3>1, WorkerKept
    <3> QED BY <1>0, <3>1, <3>2, AnswersKept
  <2>4. CASE w = v
    <3> PICK a \in Answer : a = [call |-> job[v], worker |-> v, ok |-> ok]
      BY <2>1, <2>4, WorkerType DEF Answer
    <3>0. a.call = job[w] /\ a.worker = w
      BY <2>4
    <3>1. /\ taken'[w] = taken[w] /\ job'[w] = 0 /\ job[w] # 0
          /\ outputs'[w] = IF AsyncOutput /\ w \in Repliers(job[w])
                           THEN Append(outputs[w], a) ELSE outputs[w]
          /\ answers'[w] = IF ~AsyncOutput /\ w \in Repliers(job[w])
                           THEN Append(answers[w], a) ELSE answers[w]
      BY <2>1, <2>2, <2>4 DEF TypeOK
    <3>2. Takes(w)' /\ taken[w] \in 1..Len(sent) /\ job[w] = sent[taken[w]]
      BY <1>0, <2>1, <3>1 DEF Takes
    <3>3. ASSUME NEW b \in Answer, IsAnswer(w, b) PROVE IsAnswer(w, b)' /\ b.call < a.call
      <4>1. PICK i \in 1..taken[w] : sent[i] = b.call /\ i < taken[w]
        BY <3>1, <3>3 DEF IsAnswer
      <4>2. i \in 1..Len(sent) /\ sent[i] < sent[taken[w]]
        BY <1>0, <3>2, <4>1 DEF SentInv
      <4>3. Repliers(b.call)' = Repliers(b.call)
        BY <1>0, <3>3, AnswerType, CallsKept
      <4> QED BY <2>1, <3>0, <3>1, <3>2, <3>3, <4>1, <4>2, <4>3 DEF IsAnswer
    <3>4. w \in Repliers(job[w]) => IsAnswer(w, a)'
      <4>0. sent[taken[w]] \in Calls /\ sent[taken[w]] <= Len(calls)
        BY <1>0, <3>2 DEF SentInv
      <4>1. a.call \in 1..Len(calls)
        BY <3>0, <3>2, <4>0, ConfigSpec, EngineType
      <4>2. Repliers(a.call)' = Repliers(a.call)
        BY <4>1, CallsKept
      <4>3. taken[w] \in 1..taken[w] /\ sent[taken[w]] = a.call
        BY <1>0, <3>0, <3>2
      <4> QED BY <2>1, <3>0, <3>1, <4>2, <4>3 DEF IsAnswer
    <3>5. /\ \A i \in 1..Len(answers[w]) : answers[w][i] \in Answer /\ IsAnswer(w, answers[w][i])
          /\ \A i \in 1..Len(outputs[w]) : outputs[w][i] \in Answer /\ IsAnswer(w, outputs[w][i])
      BY <1>0, WorkerType DEF Answers
    <3>6. Below(answers[w], a.call) /\ Below(outputs[w], a.call)
      BY <3>3, <3>5 DEF Below
    <3>7. CASE w \notin Repliers(job[w])
      <4>1. answers'[w] = answers[w] /\ outputs'[w] = outputs[w]
        BY <3>1, <3>7
      <4> QED BY <1>0, <3>2, <3>3, <4>1, AnswersKept
    <3>8. CASE w \in Repliers(job[w]) /\ AsyncOutput
      <4>1. answers'[w] = answers[w] /\ outputs'[w] = Append(outputs[w], a)
        BY <3>1, <3>8
      <4>2. CallsRise(outputs'[w]) /\ WithinOr(outputs'[w], outputs[w], a)
        BY <1>0, <3>6, <4>1, WorkerType, AppendOrdered DEF Answers
      <4>3. \A i \in 1..Len(answers[w]), j \in 1..Len(outputs'[w]) :
              answers[w][i].call < outputs'[w][j].call
        BY <1>0, <3>6, <4>2 DEF Answers, Below, WithinOr
      <4>4. (\A i \in 1..Len(outputs[w]) : IsAnswer(w, outputs[w][i]))'
        BY <3>3, <3>4, <3>5, <3>8, <4>2 DEF WithinOr
      <4>5. (\A i \in 1..Len(answers[w]) : IsAnswer(w, answers[w][i]))'
        BY <3>3, <3>5, <4>1
      <4>6. AsyncOutput'
        BY <1>0, <3>8 DEF AsyncOutput
      <4> QED BY <1>0, <3>2, <4>1, <4>2, <4>3, <4>4, <4>5, <4>6 DEF Answers
    <3>9. CASE w \in Repliers(job[w]) /\ ~AsyncOutput
      <4>1. /\ answers'[w] = Append(answers[w], a) /\ outputs'[w] = <<>>
        BY <1>0, <3>1, <3>9 DEF Answers
      <4>2. CallsRise(answers'[w]) /\ WithinOr(answers'[w], answers[w], a)
        BY <1>0, <3>6, <4>1, WorkerType, AppendOrdered DEF Answers
      <4>3. (\A i \in 1..Len(answers[w]) : IsAnswer(w, answers[w][i]))'
        BY <3>3, <3>4, <3>5, <3>9, <4>2 DEF WithinOr
      <4>4. /\ CallsRise(outputs'[w]) /\ (~AsyncOutput => outputs[w] = <<>>)'
            /\ (\A i \in 1..Len(outputs[w]) : IsAnswer(w, outputs[w][i]))'
            /\ \A i \in 1..Len(answers'[w]), j \in 1..Len(outputs'[w]) :
                 answers'[w][i].call < outputs'[w][j].call
        <5>1. Len(outputs'[w]) = 0
          BY <4>1
        <5>2. \A i \in 1..Len(outputs'[w]) : FALSE
          BY <5>1
        <5> QED BY <4>1, <5>2 DEF CallsRise
      <4>5. Answers(w)'
        BY <4>2, <4>3, <4>4 DEF Answers
      <4> QED BY <3>2, <4>5
    <3> QED BY <3>7, <3>8, <3>9
  <2> QED BY <2>3, <2>4
<1>7. ASSUME NEW v \in Workers, SendOutput(v) PROVE Takes(w)' /\ Answers(w)'
  <2>1. /\ UNCHANGED <<sent, taken, job>> /\ outputs[v] # <<>>
        /\ answers' = [answers EXCEPT ![v] = Append(answers[v], Head(outputs[v]))]
        /\ outputs' = [outputs EXCEPT ![v] = Tail(outputs[v])]
    BY <1>7 DEF SendOutput
  <2>2. Takes(w)' /\ \A a \in Answer : IsAnswer(w, a) => IsAnswer(w, a)'
    BY <1>0, <2>1, WorkerKept
  <2>3. CASE w # v
    <3>1. answers'[w] = answers[w] /\ outputs'[w] = outputs[w]
      BY <2>1, <2>3 DEF TypeOK
    <3> QED BY <1>0, <2>2, <3>1, AnswersKept
  <2>4. CASE w = v
    <3>1. /\ outputs[w] # <<>> /\ answers'[w] = Append(answers[w], Head(outputs[w]))
          /\ outputs'[w] = Tail(outputs[w]) /\ Head(outputs[w]) = outputs[w][1]
          /\ outputs[w][1] \in Answer /\ 1 \in 1..Len(outputs[w])
      <4>1. Head(outputs[w]) = outputs[w][1] /\ outputs[w][1] \in Answer /\ 1 \in 1..Len(outputs[w])
        BY <2>1, <2>4, WorkerType, TailSpec
      <4> QED BY <2>1, <2>4, <4>1 DEF TypeOK
    <3>2. /\ \A i \in 1..Len(answers[w]) : answers[w][i] \in Answer /\ IsAnswer(w, answers[w][i])
          /\ \A i \in 1..Len(outputs[w]) : outputs[w][i] \in Answer /\ IsAnswer(w, outputs[w][i])
          /\ Below(answers[w], outputs[w][1].call)
      BY <1>0, <3>1, WorkerType DEF Answers, Below
    <3>3. /\ CallsRise(answers'[w]) /\ WithinOr(answers'[w], answers[w], outputs[w][1])
      BY <1>0, <3>1, <3>2, WorkerType, AppendOrdered DEF Answers
    <3>4. /\ CallsRise(outputs'[w]) /\ Within(outputs'[w], outputs[w])
          /\ Above(outputs'[w], outputs[w][1].call)
      BY <1>0, <3>1, WorkerType, TailOrdered DEF Answers
    <3>5. ASSUME NEW i \in 1..Len(answers'[w]), NEW j \in 1..Len(outputs'[w])
          PROVE  answers'[w][i].call < outputs'[w][j].call
      <4>1. outputs[w][1].call < outputs'[w][j].call
        BY <3>4 DEF Above
      <4>2. PICK k \in 1..Len(outputs[w]) : outputs'[w][j] = outputs[w][k]
        BY <3>4 DEF Within
      <4>3. CASE answers'[w][i] = outputs[w][1]
        BY <4>1, <4>3
      <4>4. CASE \E h \in 1..Len(answers[w]) : answers'[w][i] = answers[w][h]
        BY <1>0, <4>2, <4>4 DEF Answers
      <4> QED BY <3>3, <4>3, <4>4 DEF WithinOr
    <3>6. (\A i \in 1..Len(outputs[w]) : IsAnswer(w, outputs[w][i]))'
      BY <2>2, <3>2, <3>4 DEF Within
    <3>7. (\A i \in 1..Len(answers[w]) : IsAnswer(w, answers[w][i]))'
      BY <2>2, <3>1, <3>2, <3>3 DEF WithinOr
    <3>8. AsyncOutput'
      BY <1>0, <3>1 DEF Answers, AsyncOutput
    <3> QED BY <2>2, <3>3, <3>4, <3>5, <3>6, <3>7, <3>8 DEF Answers
  <2> QED BY <2>3, <2>4
<1>8. ASSUME NEW v \in Workers, Crash(v) \/ WorkerExit(v) PROVE Takes(w)' /\ Answers(w)'
  BY <1>2, <1>8 DEF Crash, WorkerExit, workerVars
<1>9. ASSUME NEW kind \in {"unique", "all"}, NEW block \in BOOLEAN, BeginCall(kind, block)
      PROVE  Takes(w)' /\ Answers(w)'
  BY <1>2, <1>9 DEF BeginCall, workerVars
<1>10. ASSUME NEW c \in Calls, AskResult(c) PROVE Takes(w)' /\ Answers(w)'
  BY <1>2, <1>10 DEF AskResult, workerVars
<1>11. ASSUME \/ BindBroadcast \/ PickQueues
              \/ StartResponse \/ EndResponse \/ NoAnswer \/ EngineShutdown
              \/ MonitorWakes \/ InformEngine \/ \E t \in Threads : ShutdownStep(t)
       PROVE  Takes(w)' /\ Answers(w)'
  <2>1. UNCHANGED <<taken, job, outputs, answers, sent>>
    BY <1>11 DEF BindBroadcast, PickQueues, StartResponse, EndResponse, NoAnswer,
                EngineShutdown, MonitorWakes, InformEngine, ShutdownStep, workerVars
  <2> QED BY <1>2, <2>1
<1>12. CASE UNCHANGED vars
  BY <1>2, <1>12 DEF vars, workerVars
<1> QED
  BY <1>3, <1>4, <1>5, <1>6, <1>7, <1>8, <1>9, <1>10, <1>11, <1>12 DEF Next


-----------------------------------------------------------------------------
(* Results *)

\* A result is never changed, and a call gets one when it fails to be made or when it
\* is the one being answered.
LEMMA OutcomeNext ==
    ASSUME TypeOK, EngineInv, [Next]_vars
    PROVE  /\ \A c \in 1..Len(calls) :
                outcome[c].status # "pending" =>
                  outcome'[c] = outcome[c] /\ calls'[c] = calls[c]
           /\ \A c \in 1..Len(calls') :
                outcome'[c].status = "ok" =>
                  \/ c \in 1..Len(calls) /\ outcome[c].status = "ok"
                  \/ EndResponse /\ c = reply.call
<1> DEFINE Kept ==
      /\ \A c \in 1..Len(calls) :
           outcome[c].status # "pending" => outcome'[c] = outcome[c] /\ calls'[c] = calls[c]
      /\ \A c \in 1..Len(calls') :
           outcome'[c].status = "ok" =>
             \/ c \in 1..Len(calls) /\ outcome[c].status = "ok"
             \/ EndResponse /\ c = reply.call
<1>0. /\ Calls = 1..MaxCalls /\ MaxCalls \in Nat /\ Len(calls) \in Nat
      /\ Len(calls) <= MaxCalls /\ 1..Len(calls) \subseteq Calls
  BY ConfigSpec, EngineType DEF EngineInv
<1>1. ASSUME NEW kind \in {"unique", "all"}, NEW block \in BOOLEAN, BeginCall(kind, block)
      PROVE  Kept
  <2>1. /\ Len(calls') = Len(calls) + 1 /\ \A c \in 1..Len(calls) : calls'[c] = calls[c]
        /\ Len(calls) + 1 \in Calls
    BY <1>1, BeginSpec
  <2>2. /\ \A c \in 1..Len(calls) : outcome'[c] = outcome[c]
        /\ outcome'[Len(calls) + 1].status # "ok"
    <3>1. CASE UNCHANGED outcome
      <4>1. Len(calls) + 1 > Len(calls)
        BY <1>0
      <4>2. outcome[Len(calls) + 1].status = "pending"
        BY <2>1, <4>1 DEF EngineInv
      <4> QED BY <3>1, <4>2
    <3>2. CASE outcome' = [outcome EXCEPT ![Len(calls) + 1] = Result("failed", <<>>)]
      <4>1. /\ outcome'[Len(calls) + 1].status = "failed"
            /\ \A d \in Calls : d # Len(calls) + 1 => outcome'[d] = outcome[d]
        BY <2>1, <3>2, FailedOutcome
      <4>2. \A d \in 1..Len(calls) : d \in Calls /\ d # Len(calls) + 1
        BY <1>0
      <4> QED BY <4>1, <4>2
    <3> QED BY <1>1, <3>1, <3>2, BeginSpec
  <2>3. \A c \in 1..Len(calls') : c \in 1..Len(calls) \/ c = Len(calls) + 1
    BY <1>0, <2>1
  <2> QED BY <2>1, <2>2, <2>3
<1>2. CASE UNCHANGED <<calls, outcome>>
  BY <1>2
<1>3. ASSUME NEW status, NEW got, Resolved(status, got), UNCHANGED calls,
             status = "ok" => EndResponse
      PROVE  Kept
  <2>1. /\ reply.call \in 1..Len(calls) /\ outcome[reply.call].status = "pending"
        /\ outcome'[reply.call].status = status
        /\ \A c \in Calls : c # reply.call => outcome'[c] = outcome[c]
    BY <1>3, ReplyOpen, ResolveSpec DEF Resolved
  <2> QED BY <1>0, <1>3, <2>1
<1>4. ASSUME Picking, outcome' = [outcome EXCEPT ![Len(calls)] = Result("failed", <<>>)],
             UNCHANGED calls
      PROVE  Kept
  <2>1. Len(calls) \in Calls /\ outcome[Len(calls)].status = "pending"
    BY <1>0, <1>4 DEF EngineInv
  <2>2. /\ outcome'[Len(calls)].status = "failed"
        /\ \A c \in Calls : c # Len(calls) => outcome'[c] = outcome[c]
    BY <1>4, <2>1, FailedOutcome
  <2> QED BY <1>0, <1>4, <2>1, <2>2
<1>5. CASE BindBroadcast
  <2>1. UNCHANGED calls /\ Picking
    BY <1>5 DEF BindBroadcast, Picking
  <2> QED BY <1>2, <1>4, <1>5, <2>1, BindSpec
<1>6. CASE PickQueues
  <2>1. Picking
    BY <1>6 DEF PickQueues, Picking
  <2>2. CASE /\ outcome' = [outcome EXCEPT ![Len(calls)] = Result("failed", <<>>)]
             /\ UNCHANGED calls
    BY <1>4, <2>1, <2>2
  <2>3. CASE /\ Len(calls') = Len(calls) /\ UNCHANGED outcome
             /\ \A d \in 1..Len(calls) : d # Len(calls) => calls'[d] = calls[d]
    BY <2>1, <2>3 DEF EngineInv
  <2> QED BY <1>6, <2>2, <2>3, PickSpec
<1>7. <<>> \in Seq(Answer)
  OBVIOUS
<1>8. CASE TakeAnswer
  <2>1. UNCHANGED calls
    BY <1>8 DEF TakeAnswer
  <2> QED BY <1>2, <1>3, <1>8, <2>1, TakeSpec
<1>9. CASE EndResponse
  <2>1. UNCHANGED calls /\ Resolved("ok", reply.got)
    BY <1>9, EngineType DEF EndResponse, Resolved
  <2> QED BY <1>3, <1>9, <2>1
<1>10. CASE NoAnswer
  <2>1. UNCHANGED calls /\ (Resolved("cancelled", <<>>) \/ Resolved("timeout", <<>>))
    BY <1>7, <1>10 DEF NoAnswer, Resolved
  <2> QED BY <1>3, <2>1
<1>11. ASSUME NEW c \in Calls, AskResult(c) PROVE Kept
  BY <1>2, <1>11 DEF AskResult
<1>12. ASSUME NEW w \in Workers,
              TakeCall(w) \/ FinishCall(w) \/ SendOutput(w) \/ Crash(w) \/ WorkerExit(w)
       PROVE  Kept
  <2>1. UNCHANGED <<calls, outcome>>
    BY <1>12 DEF TakeCall, FinishCall, SendOutput, Crash, WorkerExit
  <2> QED BY <1>2, <2>1
<1>13. ASSUME \/ Enqueue \/ StartResponse \/ EngineShutdown
              \/ MonitorWakes \/ InformEngine \/ \E t \in Threads : ShutdownStep(t)
       PROVE  Kept
  <2>1. UNCHANGED <<calls, outcome>>
    BY <1>13 DEF Enqueue, StartResponse, EngineShutdown, MonitorWakes, InformEngine, ShutdownStep
  <2> QED BY <1>2, <2>1
<1>14. CASE UNCHANGED vars
  BY <1>2, <1>14 DEF vars
<1>15. Kept
  BY <1>1, <1>5, <1>6, <1>8, <1>9, <1>10, <1>11, <1>12, <1>13, <1>14 DEF Next
<1> QED BY <1>15

LEMMA LeftOverStays ==
    ASSUME TypeOK, EngineInv, [Next]_vars, TypeOK', NothingLeftOver'
    PROVE  NothingLeftOver
<1> SUFFICES ASSUME NEW c \in 1..Len(calls), outcome[c].status # "pending"
             PROVE  /\ outcome[c].status # "timeout"
                    /\ outcome[c].status \in {"failed", "cancelled"} =>
                         calls[c].reply = "unique"
  BY DEF NothingLeftOver
<1>1. outcome'[c] = outcome[c] /\ calls'[c] = calls[c]
  BY OutcomeNext
<1>2. c \in 1..Len(calls')
  <2>1. Len(calls) <= Len(calls')
    BY CallsKept
  <2>2. Len(calls') \in Nat
    BY DEF TypeOK
  <2> QED BY <2>1, <2>2, EngineType
<1> QED BY <1>1, <1>2 DEF NothingLeftOver

\* The answers that a call returns.
LEMMA OwnNext ==
    ASSUME TypeOK, EngineInv, [Next]_vars, TypeOK', Matched, OwnAnswers
    PROVE  OwnAnswers'
<1> SUFFICES ASSUME NothingLeftOver', NEW c \in 1..Len(calls'), outcome'[c].status = "ok"
             PROVE  \A i \in 1..Len(outcome'[c].got) :
                      /\ outcome'[c].got[i].call = c
                      /\ outcome'[c].got[i].worker = calls'[c].queues[i]
  BY DEF OwnAnswers
<1>1. NothingLeftOver
  BY LeftOverStays
<1>2. CASE c \in 1..Len(calls) /\ outcome[c].status = "ok"
  <2>1. outcome'[c] = outcome[c] /\ calls'[c] = calls[c]
    BY <1>2, OutcomeNext
  <2> QED BY <1>1, <1>2, <2>1 DEF OwnAnswers
<1>3. CASE EndResponse /\ c = reply.call
  <2>1. Resolved("ok", reply.got) /\ UNCHANGED calls /\ reply.call # 0
    BY <1>3, EngineType DEF EndResponse, Resolved
  <2>2. outcome'[c].got = reply.got
    BY <1>3, <2>1, ResolveSpec DEF Resolved
  <2>3. HasOwn
    BY <1>1 DEF Matched
  <2> QED BY <1>3, <2>1, <2>2, <2>3 DEF HasOwn
<1> QED BY <1>2, <1>3, OutcomeNext

LEMMA CompleteNext ==
    ASSUME TypeOK, EngineInv, [Next]_vars, CompleteResults
    PROVE  CompleteResults'
<1> SUFFICES ASSUME NEW c \in 1..Len(calls'), outcome'[c].status = "ok",
                    calls'[c].reply = "all", crashes' = 0
             PROVE  Len(outcome'[c].got) = NWorkers
  BY DEF CompleteResults
<1>1. crashes = 0
  BY Forever
<1>2. CASE c \in 1..Len(calls) /\ outcome[c].status = "ok"
  <2>1. outcome'[c] = outcome[c] /\ calls'[c] = calls[c]
    BY <1>2, OutcomeNext
  <2> QED BY <1>1, <1>2, <2>1 DEF CompleteResults
<1>3. CASE EndResponse /\ c = reply.call
  <2>1. /\ Resolved("ok", reply.got) /\ UNCHANGED calls /\ reply.call # 0
        /\ Len(reply.got) = Len(calls[reply.call].queues)
    BY <1>3, EngineType DEF EndResponse, Resolved
  <2>2. outcome'[c].got = reply.got
    BY <1>3, <2>1, ResolveSpec DEF Resolved
  <2>3. calls[c].queues = FullQueues(c) /\ c \in 1..Len(calls)
    BY <1>1, <1>3, <2>1, ReplyOpen DEF Picked
  <2>4. Len(FullQueues(c)) = NWorkers
    BY <2>1, <2>3, FullQueuesType
  <2> QED BY <1>3, <2>1, <2>2, <2>3, <2>4
<1> QED BY <1>2, <1>3, OutcomeNext

-----------------------------------------------------------------------------
(* Every answer that is on its way is awaited, or lost *)

\* Once no call can be broadcast, no call is opened.
LEMMA OpenShrinks ==
    ASSUME TypeOK, EngineInv, [Next]_vars, NoMoreCalls, NEW d \in Calls, Open(d)'
    PROVE  Open(d)
<1>1. engine.pc \notin {"bind", "enqueue", "queues"} /\ shutdown.broadcastGone
  BY DEF NoMoreCalls, Picking
<1>2. CASE UNCHANGED <<futures, reply>> /\ engine'.want = engine.want
  BY <1>2 DEF Open
<1>3. ASSUME NEW status, NEW got, Resolved(status, got), UNCHANGED <<calls, futures>>
      PROVE  Open(d)
  BY <1>3, ResolvedOpen
<1>4. ASSUME NEW kind \in {"unique", "all"}, NEW block \in BOOLEAN, BeginCall(kind, block)
      PROVE  Open(d)
  <2>1. UNCHANGED <<futures, reply>>
    BY <1>4 DEF BeginCall
  <2>2. engine'.want = engine.want
    BY <1>4, BeginSpec
  <2> QED BY <1>2, <2>1, <2>2
<1>5. ASSUME NEW c \in Calls, AskResult(c) PROVE Open(d)
  <2>1. futures \in Seq(Calls)
    BY DEF TypeOK
  <2>2. \E i \in 1..Len(futures) : futures[i] = c
    BY <1>5, <2>1, ToSetDef DEF AskResult
  <2>3. UNCHANGED <<futures, reply>> /\ engine'.want = c
    BY <1>5 DEF AskResult
  <2> QED BY <2>2, <2>3 DEF Open
<1>6. ~(BindBroadcast \/ Enqueue \/ PickQueues)
  BY <1>1 DEF BindBroadcast, Enqueue, PickQueues
<1>7. CASE StartResponse
  <2>1. UNCHANGED engine /\ engine.want # 0 /\ futures \in Seq(Calls)
    BY <1>7 DEF StartResponse, EngineInv, TypeOK
  <2>2. CASE futures # <<>>
    <3>1. /\ Len(futures) \in Nat \ {0}
          /\ reply'.call = futures[1] /\ Len(futures') = Len(futures) - 1
          /\ \A i \in 1..Len(futures) - 1 : futures'[i] = futures[i + 1]
      BY <1>7, <2>2, StartSpec
    <3>2. \A i \in 1..Len(futures') : i + 1 \in 1..Len(futures)
      BY <3>1
    <3> QED BY <2>1, <3>1, <3>2 DEF Open
  <2>3. CASE futures = <<>>
    <3>1. reply'.call = engine.want /\ UNCHANGED futures
      BY <1>7, <2>3, StartSpec
    <3> QED BY <2>1, <3>1 DEF Open
  <2> QED BY <2>2, <2>3
<1>8. <<>> \in Seq(Answer)
  OBVIOUS
<1>9. CASE TakeAnswer
  <2>1. UNCHANGED <<calls, futures>>
    BY <1>9 DEF TakeAnswer
  <2>2. CASE reply' = [call |-> reply.call, got |-> Append(reply.got, Head(answers[NextQueue]))]
             /\ UNCHANGED engine
    BY <2>1, <2>2 DEF Open
  <2> QED BY <1>3, <1>9, <2>1, <2>2, TakeSpec
<1>10. CASE EndResponse
  <2>1. UNCHANGED <<calls, futures>> /\ Resolved("ok", reply.got)
    BY <1>10, EngineType DEF EndResponse, Resolved
  <2> QED BY <1>3, <2>1
<1>11. CASE NoAnswer
  <2>1. /\ UNCHANGED <<calls, futures>>
        /\ Resolved("cancelled", <<>>) \/ Resolved("timeout", <<>>)
    BY <1>8, <1>11 DEF NoAnswer, Resolved
  <2> QED BY <1>3, <2>1
<1>12. CASE EngineShutdown
  <2>1. UNCHANGED <<futures, reply>>
    BY <1>12 DEF EngineShutdown
  <2> QED BY <1>2, <1>12, <2>1, EnterSpec
<1>13. ASSUME NEW w \in Workers,
              TakeCall(w) \/ FinishCall(w) \/ SendOutput(w) \/ Crash(w) \/ WorkerExit(w)
       PROVE  Open(d)
  <2>1. UNCHANGED <<futures, reply, engine>>
    BY <1>13 DEF TakeCall, FinishCall, SendOutput, Crash, WorkerExit
  <2> QED BY <1>2, <2>1
<1>14. ASSUME MonitorWakes \/ InformEngine \/ \E t \in Threads : ShutdownStep(t)
       PROVE  Open(d)
  <2>1. UNCHANGED <<futures, reply, engine>>
    BY <1>14 DEF MonitorWakes, InformEngine, ShutdownStep
  <2> QED BY <1>2, <2>1
<1>15. CASE UNCHANGED vars
  BY <1>2, <1>15 DEF vars
<1> QED
  BY <1>4, <1>5, <1>6, <1>7, <1>9, <1>10, <1>11, <1>12, <1>13, <1>14, <1>15 DEF Next

LEMMA LostStays ==
    ASSUME TypeOK, EngineInv, [Next]_vars, NEW w \in Workers, NEW c, Lost(w, c)
    PROVE  Lost(w, c)'
<1>1. crashes' # 0
  BY Forever DEF Lost
<1>2. CASE AllDead /\ answers[w] = <<>>
  <2>1. AllDead'
    BY <1>2, Forever
  <2>2. CASE UNCHANGED answers
    BY <1>1, <1>2, <2>1, <2>2 DEF Lost
  <2>3. CASE TakeAnswer
    <3>1. /\ answers' = [answers EXCEPT ![NextQueue] = Tail(answers[NextQueue])]
          /\ NextQueue # w
      BY <1>2, <2>3, TakeSpec
    <3>2. answers'[w] = <<>>
      BY <1>2, <3>1 DEF TypeOK
    <3> QED BY <1>1, <2>1, <3>2 DEF Lost
  <2>4. \A v \in Workers : ~(FinishCall(v) \/ SendOutput(v))
    BY <1>2 DEF AllDead, FinishCall, SendOutput
  <2>5. ASSUME NEW kind \in {"unique", "all"}, NEW block \in BOOLEAN, BeginCall(kind, block)
        PROVE  UNCHANGED answers
    BY <2>5 DEF BeginCall
  <2>6. ASSUME NEW d \in Calls, AskResult(d) PROVE UNCHANGED answers
    BY <2>6 DEF AskResult
  <2>7. ASSUME NEW v \in Workers, TakeCall(v) \/ Crash(v) \/ WorkerExit(v)
        PROVE  UNCHANGED answers
    BY <2>7 DEF TakeCall, Crash, WorkerExit
  <2>8. ASSUME \/ BindBroadcast \/ Enqueue \/ PickQueues
               \/ StartResponse \/ EndResponse \/ NoAnswer \/ EngineShutdown
               \/ MonitorWakes \/ InformEngine \/ \E t \in Threads : ShutdownStep(t)
        PROVE  UNCHANGED answers
    BY <2>8 DEF BindBroadcast, Enqueue, PickQueues, StartResponse, EndResponse, NoAnswer,
                EngineShutdown, MonitorWakes, InformEngine, ShutdownStep
  <2>9. CASE UNCHANGED vars
    BY <2>2, <2>9 DEF vars
  <2> QED BY <2>2, <2>3, <2>4, <2>5, <2>6, <2>7, <2>8, <2>9 DEF Next
<1>3. CASE NoMoreCalls /\ \A d \in Calls : Open(d) => d < c
  <2>1. NoMoreCalls'
    BY <1>3, Forever
  <2>2. \A d \in Calls : Open(d)' => d < c
    BY <1>3, OpenShrinks
  <2> QED BY <1>1, <2>1, <2>2 DEF Lost
<1> QED BY <1>2, <1>3 DEF Lost

LEMMA AccountedStays ==
    ASSUME NEW w, NEW c, Accounted(w, c), Waits(w, c)' <=> Waits(w, c),
           InFlight(w, c)' <=> InFlight(w, c), Lost(w, c) => Lost(w, c)'
    PROVE  Accounted(w, c)'
  BY DEF Accounted

LEMMA WaitsKept ==
    ASSUME UNCHANGED <<reply, calls, futures, engine>>, NEW w, NEW c
    PROVE  Waits(w, c)' <=> Waits(w, c)
<1>1. Heard' = Heard
  BY DEF Heard
<1> QED BY <1>1 DEF Waits

LEMMA FlightKept ==
    ASSUME UNCHANGED <<sent, taken, job, outputs, answers>>, NEW w, NEW c
    PROVE  InFlight(w, c)' <=> InFlight(w, c)
  BY DEF InFlight

\* The queues that a call has been answered from so far.
LEMMA HeardSpec ==
    ASSUME TypeOK, EngineInv, reply.call # 0,
           calls[reply.call].queues = FullQueues(reply.call)
    PROVE  /\ Len(reply.got) < Len(calls[reply.call].queues) =>
                NextQueue \in Repliers(reply.call) /\ NextQueue \notin Heard
           /\ Len(reply.got) = Len(calls[reply.call].queues) =>
                \A w \in Workers : w \in Repliers(reply.call) => w \in Heard
<1> DEFINE qs == FullQueues(reply.call)
           n == Len(reply.got)
<1>1. /\ reply.call \in 1..Len(calls) /\ n \in Nat /\ calls[reply.call].queues = qs
      /\ qs \in Seq(Workers) /\ Len(qs) \in Nat
      /\ \A w \in Workers : w \in Repliers(reply.call) <=> \E i \in 1..Len(qs) : qs[i] = w
      /\ \A i, j \in 1..Len(qs) : qs[i] = qs[j] => i = j
  BY ReplyOpen, FullQueuesType, EngineType
<1>2. Heard = {qs[i] : i \in 1..n} /\ NextQueue = qs[n + 1]
  BY <1>1 DEF Heard, NextQueue
<1> HIDE DEF qs, n
<1>3. ASSUME n < Len(qs) PROVE NextQueue \in Repliers(reply.call) /\ NextQueue \notin Heard
  <2>1. n + 1 \in 1..Len(qs) /\ \A i \in 1..n : i \in 1..Len(qs) /\ i # n + 1
    BY <1>1, <1>3
  <2>2. qs[n + 1] \in Workers
    BY <1>1, <2>1
  <2> QED BY <1>1, <1>2, <2>1, <2>2
<1>4. ASSUME n = Len(qs), NEW w \in Workers, w \in Repliers(reply.call) PROVE w \in Heard
  BY <1>1, <1>2, <1>4
<1> QED BY <1>1, <1>3, <1>4 DEF n

\* What is awaited before and after the call being answered gets its result.
LEMMA WaitsResolved ==
    ASSUME TypeOK, EngineInv, NEW status, NEW got, Resolved(status, got),
           UNCHANGED <<calls, futures>>, NEW w \in Workers, NEW c \in 1..Len(calls)
    PROVE  Waits(w, c)' <=> Waits(w, c) /\ c # reply.call
<1>1. /\ reply'.call = 0
      /\ engine'.pc # "queues" /\ engine.pc # "queues"
      /\ engine'.want = IF reply.call = engine.want THEN 0 ELSE engine.want
      /\ reply.call # 0 /\ reply.call \in Calls /\ engine.pc = "wait"
  BY ResolveSpec, ReplyOpen DEF Resolved
<1>2. c \in Nat /\ c # 0 /\ reply.call \in Nat
  BY <1>1, EngineType, ConfigSpec
<1>3. (\E i \in 1..Len(futures) : futures[i] = c) => c # reply.call
  <2>1. \A i \in 1..Len(futures) : reply.call < futures[i]
    BY DEF EngineInv, FuturesInOrder
  <2> QED BY <1>2, <2>1
<1>4. Waits(w, c)' <=> (\E i \in 1..Len(futures) : futures[i] = c) \/ c = engine'.want
  BY <1>1, <1>2 DEF Waits
<1> QED BY <1>1, <1>2, <1>3, <1>4 DEF Waits

LEMMA WaitsHeard ==
    ASSUME TypeOK, EngineInv, reply.call # 0, NEW w \in Workers
    PROVE  Waits(w, reply.call) <=> w \notin Heard
<1>1. reply.call \in Nat /\ engine.pc = "wait"
  BY ReplyOpen, ConfigSpec
<1>2. \A i \in 1..Len(futures) : futures[i] # reply.call
  <2>1. \A i \in 1..Len(futures) : reply.call < futures[i]
    BY DEF EngineInv, FuturesInOrder
  <2> QED BY <1>1, <2>1
<1> QED BY <1>1, <1>2 DEF Waits

LEMMA OneMore ==
    ASSUME NEW s \in Seq(Answer), NEW x \in Answer, NEW c
    PROVE  HasCall(Append(s, x), c) <=> c = x.call \/ HasCall(s, c)
<1> DEFINE t == Append(s, x)
<1>1. /\ Len(t) = Len(s) + 1 /\ Len(s) \in Nat /\ t[Len(s) + 1] = x
      /\ \A i \in 1..Len(s) : t[i] = s[i]
      /\ \A i \in 1..Len(t) : i \in 1..Len(s) \/ i = Len(s) + 1
  BY AppendSpec
<1> HIDE DEF t
<1>2. Len(s) + 1 \in 1..Len(t) /\ \A i \in 1..Len(s) : i \in 1..Len(t)
  BY <1>1
<1>3. (\E i \in 1..Len(t) : t[i].call = c) <=> c = x.call \/ \E i \in 1..Len(s) : s[i].call = c
  BY <1>1, <1>2
<1> QED BY <1>3 DEF t, HasCall

LEMMA OneLess ==
    ASSUME NEW s \in Seq(Answer), s # <<>>, NEW c
    PROVE  HasCall(s, c) <=> c = s[1].call \/ HasCall(Tail(s), c)
<1> DEFINE t == Tail(s)
<1>1. /\ Len(t) = Len(s) - 1 /\ Len(s) \in Nat \ {0} /\ 1 \in 1..Len(s)
      /\ \A i \in 1..Len(t) : i + 1 \in 1..Len(s) /\ t[i] = s[i + 1]
  BY TailSpec
<1> HIDE DEF t
<1>2. ASSUME NEW i \in 1..Len(s), i # 1 PROVE i - 1 \in 1..Len(t) /\ t[i - 1] = s[i]
  <2>1. i - 1 \in 1..Len(t) /\ i - 1 + 1 = i
    BY <1>1, <1>2
  <2> QED BY <1>1, <2>1
<1>3. (\E i \in 1..Len(s) : s[i].call = c) <=> c = s[1].call \/ \E i \in 1..Len(t) : t[i].call = c
  BY <1>1, <1>2
<1> QED BY <1>3 DEF t, HasCall

\* A worker goes on with a call: the answer is on its way all along.
LEMMA FlightWorker ==
    ASSUME TypeOK, SentInv, WorkersInv, NEW v \in Workers,
           TakeCall(v) \/ FinishCall(v) \/ SendOutput(v),
           NEW w \in Workers, NEW c \in 1..Len(calls), w \in Repliers(c)
    PROVE  InFlight(w, c)' <=> InFlight(w, c)
<1>0. /\ answers[w] \in Seq(Answer) /\ outputs[w] \in Seq(Answer) /\ c # 0
      /\ taken[w] \in Nat /\ Len(sent) \in Nat
  <2>1. taken[w] \in 0..MaxCalls /\ MaxCalls \in Nat
    BY WorkerType, ConfigSpec
  <2>2. taken[w] \in Nat /\ c # 0
    BY <2>1
  <2> QED BY <2>2, WorkerType, EngineType
<1>1. CASE TakeCall(v)
  <2>1. /\ UNCHANGED <<sent, outputs, answers>> /\ job[v] = 0 /\ taken[v] < Len(sent)
        /\ job' = [job EXCEPT ![v] = sent[taken[v] + 1]]
        /\ taken' = [taken EXCEPT ![v] = taken[v] + 1]
    BY <1>1 DEF TakeCall
  <2>2. CASE w # v
    BY <2>1, <2>2 DEF TypeOK, InFlight
  <2>3. CASE w = v
    <3>1. taken'[w] = taken[w] + 1 /\ job'[w] = sent[taken[w] + 1] /\ job[w] = 0
      BY <2>1, <2>3 DEF TypeOK
    <3>2. \A i \in taken[w] + 1..Len(sent) :
            i = taken[w] + 1 \/ i \in taken[w] + 1 + 1..Len(sent)
      BY <1>0
    <3>3. /\ taken[w] + 1 \in taken[w] + 1..Len(sent)
          /\ \A i \in taken[w] + 1 + 1..Len(sent) : i \in taken[w] + 1..Len(sent)
      BY <1>0, <2>1, <2>3
    <3>4. (\E i \in taken[w] + 1..Len(sent) : sent[i] = c)
            <=> c = sent[taken[w] + 1] \/ \E i \in taken[w] + 1 + 1..Len(sent) : sent[i] = c
      BY <3>2, <3>3
    <3> QED BY <1>0, <2>1, <3>1, <3>4 DEF InFlight
  <2> QED BY <2>2, <2>3
<1>2. CASE FinishCall(v)
  <2>1. UNCHANGED <<sent, taken>> /\ job[v] # 0 /\ job' = [job EXCEPT ![v] = 0]
    BY <1>2 DEF FinishCall
  <2>2. PICK ok \in BOOLEAN :
          LET a == [call |-> job[v], worker |-> v, ok |-> ok]
          IN  /\ outputs' = IF AsyncOutput /\ v \in Repliers(job[v])
                            THEN [outputs EXCEPT ![v] = Append(@, a)] ELSE outputs
              /\ answers' = IF ~AsyncOutput /\ v \in Repliers(job[v])
                            THEN [answers EXCEPT ![v] = Append(@, a)] ELSE answers
    BY <1>2 DEF FinishCall
  <2>3. CASE w # v
    BY <2>1, <2>2, <2>3 DEF TypeOK, InFlight
  <2>4. CASE w = v
    <3> PICK a \in Answer : a = [call |-> job[v], worker |-> v, ok |-> ok]
      BY <2>1, <2>4, WorkerType DEF Answer
    <3>0. a.call = job[w]
      BY <2>4
    <3>1. /\ taken'[w] = taken[w] /\ job'[w] = 0 /\ job[w] # 0
          /\ outputs'[w] = IF AsyncOutput /\ w \in Repliers(job[w])
                           THEN Append(outputs[w], a) ELSE outputs[w]
          /\ answers'[w] = IF ~AsyncOutput /\ w \in Repliers(job[w])
                           THEN Append(answers[w], a) ELSE answers[w]
      BY <2>1, <2>2, <2>4 DEF TypeOK
    <3>2. CASE w \notin Repliers(job[w])
      BY <1>0, <2>1, <3>1, <3>2 DEF InFlight
    <3>3. CASE w \in Repliers(job[w]) /\ AsyncOutput
      <4>1. answers'[w] = answers[w] /\ outputs'[w] = Append(outputs[w], a)
        BY <3>1, <3>3
      <4>2. HasCall(outputs'[w], c) <=> c = job[w] \/ HasCall(outputs[w], c)
        BY <1>0, <3>0, <4>1, OneMore
      <4> QED BY <1>0, <2>1, <3>1, <4>1, <4>2 DEF InFlight
    <3>4. CASE w \in Repliers(job[w]) /\ ~AsyncOutput
      <4>1. outputs'[w] = outputs[w] /\ answers'[w] = Append(answers[w], a)
        BY <3>1, <3>4
      <4>2. HasCall(answers'[w], c) <=> c = job[w] \/ HasCall(answers[w], c)
        BY <1>0, <3>0, <4>1, OneMore
      <4> QED BY <1>0, <2>1, <3>1, <4>1, <4>2 DEF InFlight
    <3> QED BY <3>2, <3>3, <3>4
  <2> QED BY <2>3, <2>4
<1>3. CASE SendOutput(v)
  <2>1. /\ UNCHANGED <<sent, taken, job>> /\ outputs[v] # <<>>
        /\ answers' = [answers EXCEPT ![v] = Append(answers[v], Head(outputs[v]))]
        /\ outputs' = [outputs EXCEPT ![v] = Tail(outputs[v])]
    BY <1>3 DEF SendOutput
  <2>2. CASE w # v
    BY <2>1, <2>2 DEF TypeOK, InFlight
  <2>3. CASE w = v
    <3>1. /\ answers'[w] = Append(answers[w], Head(outputs[w])) /\ outputs[w] # <<>>
          /\ outputs'[w] = Tail(outputs[w])
          /\ Head(outputs[w]) = outputs[w][1] /\ outputs[w][1] \in Answer
      BY <1>0, <2>1, <2>3, TailSpec DEF TypeOK
    <3>2. HasCall(answers'[w], c) <=> c = outputs[w][1].call \/ HasCall(answers[w], c)
      BY <1>0, <3>1, OneMore
    <3>3. HasCall(outputs[w], c) <=> c = outputs[w][1].call \/ HasCall(outputs'[w], c)
      BY <1>0, <3>1, OneLess
    <3> QED BY <2>1, <3>2, <3>3 DEF InFlight
  <2> QED BY <2>2, <2>3
<1> QED BY <1>1, <1>2, <1>3

\* The oldest answer of worker w, and the calls it has still to answer.
LEMMA HeadIsOldest ==
    ASSUME TypeOK, SentInv, NEW w \in Workers, Takes(w), Answers(w), answers[w] # <<>>,
           NEW c \in 1..Len(calls)
    PROVE  /\ InFlight(w, c) => answers[w][1].call <= c
           /\ InFlight(w, c) /\ c # answers[w][1].call =>
                \/ HasCall(Tail(answers[w]), c)
                \/ HasCall(outputs[w], c)
                \/ c = job[w]
                \/ \E i \in taken[w] + 1..Len(sent) : sent[i] = c
           /\ \A i \in 1..Len(Tail(answers[w])) : answers[w][1].call < Tail(answers[w])[i].call
           /\ \A i \in 1..Len(outputs[w]) : answers[w][1].call < outputs[w][i].call
           /\ job[w] # 0 => answers[w][1].call < job[w]
           /\ \A i \in taken[w] + 1..Len(sent) : answers[w][1].call < sent[i]
<1> DEFINE a == answers[w][1]
<1>0. /\ answers[w] \in Seq(Answer) /\ outputs[w] \in Seq(Answer)
      /\ taken[w] \in Nat /\ taken[w] <= Len(sent) /\ Len(sent) \in Nat /\ sent \in Seq(Calls)
      /\ Calls \subseteq Nat \ {0} /\ a \in Answer /\ a.call \in Calls
      /\ 1 \in 1..Len(answers[w])
  <2>1. answers[w] \in Seq(Answer) /\ outputs[w] \in Seq(Answer)
    BY WorkerType
  <2>2. a \in Answer /\ 1 \in 1..Len(answers[w])
    BY <2>1, TailSpec
  <2>3. a.call \in Calls
    BY <2>2 DEF Answer
  <2>4. sent \in Seq(Calls)
    BY DEF TypeOK
  <2>5. taken[w] \in Nat /\ taken[w] <= Len(sent)
    BY WorkerType, ConfigSpec DEF Takes
  <2>6. Calls \subseteq Nat \ {0} /\ Len(sent) \in Nat
    BY ConfigSpec, EngineType
  <2> QED BY <2>1, <2>2, <2>3, <2>4, <2>5, <2>6
<1>1. Above(Tail(answers[w]), a.call)
  BY <1>0, TailOrdered DEF Answers
<1>2. \A i \in 1..Len(outputs[w]) : a.call < outputs[w][i].call
  BY <1>0 DEF Answers
<1>3. PICK k \in 1..taken[w] : sent[k] = a.call /\ (job[w] # 0 => k < taken[w])
  BY <1>0 DEF Answers, IsAnswer
<1>4. ASSUME NEW i \in taken[w] + 1..Len(sent) PROVE a.call < sent[i]
  <2>1. k \in 1..Len(sent) /\ i \in 1..Len(sent) /\ k < i
    BY <1>0
  <2> QED BY <1>3, <2>1 DEF SentInv
<1>5. ASSUME job[w] # 0 PROVE a.call < job[w]
  <2>1. k \in 1..Len(sent) /\ taken[w] \in 1..Len(sent) /\ k < taken[w]
    BY <1>0, <1>3, <1>5
  <2>2. job[w] = sent[taken[w]]
    BY <1>5 DEF Takes
  <2> QED BY <1>3, <2>1, <2>2 DEF SentInv
<1>6. HasCall(answers[w], c) <=> c = a.call \/ HasCall(Tail(answers[w]), c)
  BY <1>0, OneLess
<1>7. c \in Nat /\ c # 0
  OBVIOUS
<1> HIDE DEF a
<1>8. InFlight(w, c) =>
        \/ c = a.call
        \/ HasCall(Tail(answers[w]), c)
        \/ HasCall(outputs[w], c)
        \/ c = job[w]
        \/ \E i \in taken[w] + 1..Len(sent) : sent[i] = c
  BY <1>6 DEF InFlight
<1>9. InFlight(w, c) => c = a.call \/ a.call < c
  <2>1. HasCall(Tail(answers[w]), c) => a.call < c
    BY <1>1 DEF Above, HasCall
  <2>2. HasCall(outputs[w], c) => a.call < c
    BY <1>2 DEF HasCall
  <2>3. c = job[w] => a.call < c
    BY <1>5, <1>7
  <2>4. (\E i \in taken[w] + 1..Len(sent) : sent[i] = c) => a.call < c
    BY <1>4
  <2> QED BY <1>8, <2>1, <2>2, <2>3, <2>4
<1>10. InFlight(w, c) => a.call <= c
  <2>1. a.call \in Nat
    BY <1>0
  <2> QED BY <1>7, <1>9, <2>1
<1>11. \A i \in 1..Len(Tail(answers[w])) : a.call < Tail(answers[w])[i].call
  BY <1>1 DEF Above
<1> QED BY <1>2, <1>4, <1>5, <1>8, <1>10, <1>11 DEF a

\* The answer that is taken is removed, and no other one.
LEMMA FlightTaken ==
    ASSUME TypeOK, EngineInv, SentInv, WorkersInv, TakeAnswer,
           NEW w \in Workers, NEW c \in 1..Len(calls)
    PROVE  InFlight(w, c)' <=>
             InFlight(w, c) /\ ~(w = NextQueue /\ c = answers[NextQueue][1].call)
<1>1. /\ NextQueue \in Workers /\ answers[NextQueue] # <<>>
      /\ answers' = [answers EXCEPT ![NextQueue] = Tail(answers[NextQueue])]
      /\ UNCHANGED <<sent, taken, job, outputs>>
  BY TakeSpec DEF TakeAnswer, workerVars
<1>2. CASE w # NextQueue
  BY <1>1, <1>2 DEF TypeOK, InFlight
<1>3. CASE w = NextQueue
  <2>1. answers'[w] = Tail(answers[w]) /\ answers[w] # <<>> /\ answers[w] \in Seq(Answer)
    BY <1>1, <1>3 DEF TypeOK
  <2>2. Takes(w) /\ Answers(w)
    BY DEF WorkersInv
  <2>3. InFlight(w, c) /\ c # answers[w][1].call => InFlight(w, c)'
    BY <1>1, <2>1, <2>2, HeadIsOldest DEF InFlight
  <2>4. InFlight(w, c)' => InFlight(w, c)
    BY <1>1, <2>1, OneLess DEF InFlight
  <2>5. ASSUME c = answers[w][1].call PROVE ~InFlight(w, c)'
    <3>1. /\ \A i \in 1..Len(answers'[w]) : c < answers'[w][i].call
          /\ \A i \in 1..Len(outputs[w]) : c < outputs[w][i].call
          /\ job[w] # 0 => c < job[w]
          /\ \A i \in taken[w] + 1..Len(sent) : c < sent[i]
      BY <2>1, <2>2, <2>5, HeadIsOldest
    <3>2. c # 0 /\ c \in Nat /\ ~(c < c)
      OBVIOUS
    <3>3. ~HasCall(answers'[w], c)
      BY <3>1, <3>2 DEF HasCall
    <3>4. ~HasCall(outputs[w], c)
      BY <3>1, <3>2 DEF HasCall
    <3>5. c # job[w] /\ \A i \in taken[w] + 1..Len(sent) : sent[i] # c
      BY <3>1, <3>2
    <3> QED BY <1>1, <3>3, <3>4, <3>5 DEF InFlight
  <2> QED BY <1>3, <2>3, <2>4, <2>5
<1> QED BY <1>2, <1>3

\* The answer that is taken is one to the call being answered.
LEMMA TakenIsOwn ==
    ASSUME TypeOK, EngineInv, SentInv, WorkersInv, AllAccounted, TakeAnswer
    PROVE  /\ answers[NextQueue][1].call = reply.call
           /\ answers[NextQueue][1].worker = NextQueue
           /\ calls[reply.call].queues = FullQueues(reply.call)
           /\ NextQueue \in Repliers(reply.call) /\ NextQueue \notin Heard
<1> DEFINE q == NextQueue
           a == answers[q][1]
<1>1. /\ reply.call # 0 /\ q \in Workers /\ answers[q] # <<>> /\ answers[q] \in Seq(Answer)
      /\ Len(reply.got) < Len(calls[reply.call].queues)
  BY TakeSpec
<1>2. /\ reply.call \in 1..Len(calls) /\ Open(reply.call) /\ reply.call \in Calls
      /\ engine.pc = "wait"
  BY <1>1, ReplyOpen
<1>3. calls[reply.call].queues = FullQueues(reply.call)
  <2>1. calls[reply.call].queues # <<>>
    BY <1>1, EngineType
  <2> QED BY <1>1, <2>1, ReplyOpen DEF Picked
<1>4. q \in Repliers(reply.call) /\ q \notin Heard
  BY <1>1, <1>3, HeardSpec
<1>5. InFlight(q, reply.call)
  <2>1. Waits(q, reply.call)
    BY <1>1, <1>4, WaitsHeard
  <2> QED BY <1>1, <1>2, <1>4, <2>1 DEF AllAccounted, Accounted
<1>6. Takes(q) /\ Answers(q)
  BY <1>1 DEF WorkersInv
<1>7. a \in Answer /\ 1 \in 1..Len(answers[q])
  BY <1>1, TailSpec
<1>8. IsAnswer(q, a)
  BY <1>6, <1>7 DEF Answers
<1>9. a.call \in 1..Len(calls) /\ q \in Repliers(a.call) /\ a.worker = q
  BY <1>1, <1>6, <1>7, <1>8, AnswerType DEF IsAnswer
<1>10. a.call <= reply.call
  BY <1>1, <1>2, <1>5, <1>6, HeadIsOldest
<1>11. InFlight(q, a.call)
  BY <1>7 DEF InFlight, HasCall
<1>12. Waits(q, a.call)
  <2>1. ~Lost(q, a.call)
    <3>1. ~(reply.call < a.call)
      BY <1>2, <1>9, <1>10
    <3> QED BY <1>1, <1>2, <3>1 DEF Lost
  <2> QED BY <1>1, <1>9, <1>11, <2>1 DEF AllAccounted, Accounted
<1>13. a.call = reply.call \/ reply.call < a.call
  <2>1. CASE \E i \in 1..Len(futures) : futures[i] = a.call
    BY <2>1 DEF EngineInv, FuturesInOrder
  <2>2. CASE /\ a.call = engine.want /\ a.call # reply.call
             /\ \A i \in 1..Len(futures) : futures[i] # a.call
    BY <1>1, <1>9, <2>2 DEF EngineInv, FuturesInOrder
  <2> QED BY <1>2, <1>12, <2>1, <2>2 DEF Waits
<1>14. a.call = reply.call
  BY <1>2, <1>9, <1>10, <1>13
<1> QED BY <1>3, <1>4, <1>9, <1>14

\* The call being answered fails, or is answered: nothing else is awaited any less.
LEMMA AccountedResolved ==
    ASSUME TypeOK, EngineInv, [Next]_vars, NEW status, NEW got, Resolved(status, got),
           UNCHANGED <<calls, futures>>,
           NEW w \in Workers, NEW c \in 1..Len(calls), Accounted(w, c),
           InFlight(w, c)' <=> InFlight(w, c),
           c = reply.call => Lost(w, c)' \/ w \in Heard
    PROVE  Accounted(w, c)'
<1>1. Waits(w, c)' <=> Waits(w, c) /\ c # reply.call
  BY WaitsResolved
<1>2. CASE c # reply.call
  BY <1>1, <1>2, LostStays DEF Accounted
<1>3. CASE c = reply.call
  <2>1. reply.call # 0
    BY DEF Resolved
  <2>2. Waits(w, c) <=> w \notin Heard
    BY <1>3, <2>1, WaitsHeard
  <2>3. InFlight(w, c)' => Lost(w, c)'
    <3>1. CASE w \in Heard
      <4>1. ~Waits(w, c)
        BY <2>2, <3>1
      <4>2. InFlight(w, c) => Lost(w, c)
        BY <4>1 DEF Accounted
      <4> QED BY <4>2, LostStays
    <3> QED BY <1>3, <3>1
  <2> QED BY <1>1, <1>3, <2>3 DEF Accounted
<1> QED BY <1>2, <1>3

LEMMA MatchedCall ==
    ASSUME TypeOK, ShutdownInv, EngineInv, SentInv, WorkersInv, [Next]_vars, TypeOK',
           AllAccounted, HasOwn,
           NEW kind \in {"unique", "all"}, NEW block \in BOOLEAN, BeginCall(kind, block)
    PROVE  AllAccounted' /\ HasOwn'
<1>1. UNCHANGED <<sent, taken, job, outputs, answers, futures, reply>>
  BY DEF BeginCall, workerVars
<1>2. /\ engine.pc = "idle" /\ engine.want = 0 /\ engine'.want = 0 /\ reply.call = 0
      /\ engine'.pc # "queues" /\ Len(calls') = Len(calls) + 1 /\ Len(calls) + 1 \in Calls
      /\ Len(calls) \in Nat
  BY BeginSpec, EngineType DEF EngineInv
<1>3. HasOwn'
  BY <1>1, <1>2 DEF HasOwn
<1>4. ASSUME NEW w \in Workers, NEW c \in 1..Len(calls), w \in Repliers(c)
      PROVE  Accounted(w, c)'
  <2>1. InFlight(w, c)' <=> InFlight(w, c)
    BY <1>1, FlightKept
  <2>2. Waits(w, c)' <=> Waits(w, c)
    <3>1. c # 0
      OBVIOUS
    <3> QED BY <1>1, <1>2, <3>1 DEF Waits
  <2> QED BY <1>4, <2>1, <2>2, LostStays, AccountedStays DEF AllAccounted
<1>5. ASSUME NEW w \in Workers, NEW c, c = Len(calls) + 1 PROVE Accounted(w, c)'
  <2>0. /\ \A i \in 1..Len(answers[w]) : answers[w][i] \in Answer
        /\ \A i \in 1..Len(outputs[w]) : outputs[w][i] \in Answer
    BY WorkerType
  <2>1. ~HasCall(answers[w], c)
    <3>1. ASSUME NEW i \in 1..Len(answers[w]) PROVE answers[w][i].call # c
      <4>1. answers[w][i].call \in 1..Len(calls)
        BY <2>0, AnswerType DEF WorkersInv, Answers
      <4> QED BY <1>2, <1>5, <4>1
    <3> QED BY <3>1 DEF HasCall
  <2>2. ~HasCall(outputs[w], c)
    <3>1. ASSUME NEW i \in 1..Len(outputs[w]) PROVE outputs[w][i].call # c
      <4>1. outputs[w][i].call \in 1..Len(calls)
        BY <2>0, AnswerType DEF WorkersInv, Answers
      <4> QED BY <1>2, <1>5, <4>1
    <3> QED BY <3>1 DEF HasCall
  <2>3. \A i \in 1..Len(sent) : sent[i] # c
    <3>1. sent \in Seq(Calls)
      BY DEF TypeOK
    <3>2. \A i \in 1..Len(sent) : sent[i] \in Calls /\ sent[i] <= Len(calls)
      BY <3>1 DEF SentInv
    <3> QED BY <1>2, <1>5, <3>2, ConfigSpec
  <2>4. taken[w] \in Nat /\ taken[w] <= Len(sent) /\ Len(sent) \in Nat
    BY WorkerType, EngineType, ConfigSpec DEF WorkersInv, Takes
  <2>5. c # job[w]
    <3>1. CASE job[w] # 0
      <4>1. taken[w] \in 1..Len(sent) /\ job[w] = sent[taken[w]]
        BY <2>4, <3>1 DEF WorkersInv, Takes
      <4> QED BY <2>3, <4>1
    <3> QED BY <1>2, <1>5, <3>1
  <2>6. \A i \in taken[w] + 1..Len(sent) : sent[i] # c
    <3>1. \A i \in taken[w] + 1..Len(sent) : i \in 1..Len(sent)
      BY <2>4
    <3> QED BY <2>3, <3>1
  <2>7. ~InFlight(w, c)'
    BY <1>1, <2>1, <2>2, <2>5, <2>6 DEF InFlight
  <2>8. ~Waits(w, c)'
    <3>1. \A i \in 1..Len(futures) : futures[i] # c
      <4>1. futures \in Seq(Calls)
        BY DEF TypeOK
      <4>2. \A i \in 1..Len(futures) : futures[i] \in Calls /\ Open(futures[i])
        BY <4>1 DEF Open
      <4>3. \A i \in 1..Len(futures) : futures[i] \in 1..Len(calls)
        BY <4>2, OpenCall
      <4> QED BY <1>2, <1>5, <4>3
    <3>2. c # 0
      BY <1>2, <1>5
    <3> QED BY <1>1, <1>2, <3>1, <3>2 DEF Waits
  <2> QED BY <2>7, <2>8 DEF Accounted
<1>6. \A c \in 1..Len(calls') : c \in 1..Len(calls) \/ c = Len(calls) + 1
  BY <1>2
<1>7. \A c \in 1..Len(calls) : Repliers(c)' = Repliers(c)
  BY CallsKept
<1>8. AllAccounted'
  BY <1>4, <1>5, <1>6, <1>7 DEF AllAccounted
<1> QED BY <1>3, <1>8

LEMMA MatchedNext ==
    ASSUME TypeOK, ShutdownInv, EngineInv, SentInv, WorkersInv, Matched, [Next]_vars, TypeOK'
    PROVE  Matched'
<1> SUFFICES ASSUME NothingLeftOver' PROVE AllAccounted' /\ HasOwn'
  BY DEF Matched
<1>0. /\ AllAccounted /\ HasOwn
      /\ Len(calls) \in Nat /\ futures \in Seq(Calls) /\ Len(futures) \in Nat
      /\ \A c \in 1..Len(calls) : Repliers(c)' = Repliers(c)
  BY LeftOverStays, CallsKept, EngineType DEF Matched, TypeOK
<1>1. ASSUME Len(calls') = Len(calls),
             \A w \in Workers, c \in 1..Len(calls) : w \in Repliers(c) => Accounted(w, c)'
      PROVE  AllAccounted'
  BY <1>0, <1>1 DEF AllAccounted
<1>2. ASSUME UNCHANGED reply, reply.call # 0 => UNCHANGED calls PROVE HasOwn'
  BY <1>0, <1>2 DEF HasOwn
<1>3. ASSUME reply'.got = <<>> PROVE HasOwn'
  BY <1>3 DEF HasOwn
<1>4. ASSUME UNCHANGED <<sent, taken, job, outputs, answers>>, Len(calls') = Len(calls),
             \A w \in Workers, c \in 1..Len(calls) : Waits(w, c)' <=> Waits(w, c)
      PROVE  AllAccounted'
  <2>1. ASSUME NEW w \in Workers, NEW c \in 1..Len(calls), w \in Repliers(c)
        PROVE  Accounted(w, c)'
    <3>1. Accounted(w, c)
      BY <1>0, <2>1 DEF AllAccounted
    <3>2. InFlight(w, c)' <=> InFlight(w, c)
      BY <1>4, FlightKept
    <3>3. Lost(w, c) => Lost(w, c)'
      BY LostStays
    <3> QED BY <1>4, <3>1, <3>2, <3>3, AccountedStays
  <2> QED BY <1>1, <1>4, <2>1
<1>5. ASSUME UNCHANGED <<calls, futures, reply, engine, sent, taken, job, outputs, answers>>
      PROVE  AllAccounted' /\ HasOwn'
  <2>1. \A w \in Workers, c \in 1..Len(calls) : Waits(w, c)' <=> Waits(w, c)
    BY <1>5, WaitsKept
  <2> QED BY <1>2, <1>4, <1>5, <2>1
<1>6. ASSUME NEW kind \in {"unique", "all"}, NEW block \in BOOLEAN, BeginCall(kind, block)
      PROVE  AllAccounted' /\ HasOwn'
  BY <1>0, <1>6, MatchedCall
<1>7. ASSUME NEW d \in Calls, AskResult(d) PROVE AllAccounted' /\ HasOwn'
  <2>1. /\ UNCHANGED <<calls, futures, reply, sent, taken, job, outputs, answers>>
        /\ engine.pc = "idle" /\ engine' = [pc |-> "wait", want |-> d]
        /\ engine.want = 0 /\ reply.call = 0
    BY <1>7 DEF AskResult, workerVars, EngineInv
  <2>2. \E i \in 1..Len(futures) : futures[i] = d
    BY <1>0, <1>7, ToSetDef DEF AskResult
  <2>3. ASSUME NEW w \in Workers, NEW c \in 1..Len(calls)
        PROVE  Waits(w, c)' <=> Waits(w, c)
    <3>1. c # 0
      OBVIOUS
    <3> QED BY <2>1, <2>2, <3>1 DEF Waits
  <2> QED BY <1>2, <1>4, <2>1, <2>3
<1>8. CASE BindBroadcast
  <2>1. /\ UNCHANGED <<calls, futures, reply, sent, taken, job, outputs, answers>>
        /\ engine.pc = "bind"
    BY <1>8 DEF BindBroadcast, workerVars
  <2>2. engine'.want = engine.want /\ engine'.pc # "queues" /\ reply.call = 0
    BY <1>8, <2>1, BindSpec DEF EngineInv
  <2>3. ASSUME NEW w \in Workers, NEW c \in 1..Len(calls)
        PROVE  Waits(w, c)' <=> Waits(w, c)
    <3>1. c # 0
      OBVIOUS
    <3> QED BY <2>1, <2>2, <3>1 DEF Waits
  <2> QED BY <1>2, <1>4, <2>1, <2>3
<1>9. CASE Enqueue
  <2>1. /\ UNCHANGED <<calls, futures, reply, taken, job, outputs, answers>>
        /\ sent' = Append(sent, Len(calls)) /\ engine.pc = "enqueue"
        /\ engine'.pc = "queues" /\ engine'.want = engine.want
        /\ engine.want = 0 /\ reply.call = 0
    BY <1>9, EngineType DEF Enqueue, workerVars, EngineInv
  <2> PICK n \in Nat : n = Len(calls)
    BY <1>0
  <2>2. n \in Calls /\ sent \in Seq(Calls) /\ Len(sent) \in Nat
    BY <1>9, ConfigSpec, EngineType DEF Enqueue, EngineInv, Picking, TypeOK
  <2>3. /\ Len(sent') = Len(sent) + 1 /\ sent'[Len(sent) + 1] = n
        /\ \A i \in 1..Len(sent) : sent'[i] = sent[i]
        /\ \A i \in 1..Len(sent') : i \in 1..Len(sent) \/ i = Len(sent) + 1
    BY <2>1, <2>2
  <2>4. ASSUME NEW w \in Workers, NEW c \in 1..Len(calls), w \in Repliers(c)
        PROVE  Accounted(w, c)'
    <3>0. taken[w] \in Nat /\ taken[w] <= Len(sent) /\ c # 0
      BY WorkerType, ConfigSpec DEF WorkersInv, Takes
    <3>1. CASE c = n
      <4>1. Waits(w, c)'
        BY <2>1, <3>1 DEF Waits
      <4>2. Len(sent) + 1 \in taken[w] + 1..Len(sent')
        BY <2>2, <2>3, <3>0
      <4>3. InFlight(w, c)'
        BY <2>1, <2>3, <3>1, <4>2 DEF InFlight
      <4> QED BY <4>1, <4>3 DEF Accounted
    <3>2. CASE c # n
      <4>1. Waits(w, c)' <=> Waits(w, c)
        BY <2>1, <3>0, <3>2 DEF Waits
      <4>2. (\E i \in taken[w] + 1..Len(sent') : sent'[i] = c)
              <=> \E i \in taken[w] + 1..Len(sent) : sent[i] = c
        <5>1. \A i \in taken[w] + 1..Len(sent') :
                i = Len(sent) + 1 \/ (i \in taken[w] + 1..Len(sent) /\ i \in 1..Len(sent))
          BY <2>2, <2>3, <3>0
        <5>2. \A i \in taken[w] + 1..Len(sent) :
                i \in taken[w] + 1..Len(sent') /\ i \in 1..Len(sent)
          BY <2>2, <2>3, <3>0
        <5> QED BY <2>3, <3>2, <5>1, <5>2
      <4>3. InFlight(w, c)' <=> InFlight(w, c)
        BY <2>1, <4>2 DEF InFlight
      <4> QED BY <1>0, <2>4, <4>1, <4>3, LostStays, AccountedStays DEF AllAccounted
    <3> QED BY <3>1, <3>2
  <2> QED BY <1>1, <1>2, <2>1, <2>4
<1>10. CASE PickQueues
  <2>1. /\ UNCHANGED <<reply, sent, taken, job, outputs, answers, shutdown, crashes>>
        /\ engine.pc = "queues" /\ engine.want = 0 /\ reply.call = 0
    BY <1>10 DEF PickQueues, workerVars, EngineInv
  <2> PICK n \in Nat : n = Len(calls)
    BY <1>0
  <2>2. n \in Calls /\ n # 0 /\ \A d \in Calls : Open(d) => d < n
    BY <1>10, <2>1, ConfigSpec, PickSpec DEF EngineInv, Picking
  <2>3. CASE shutdown.listGone /\ calls[n].reply = "unique"
    <3>1. engine' = [pc |-> "idle", want |-> engine.want] /\ UNCHANGED <<calls, futures>>
      BY <1>10, <2>3, PickSpec
    <3>2. \A d \in Calls : Open(d)' <=> Open(d)
      BY <2>1, <3>1 DEF Open
    <3>3. crashes # 0 /\ shutdown.broadcastGone
      BY <2>1, <2>3 DEF ShutdownInv
    <3>4. NoMoreCalls'
      BY <2>1, <3>1, <3>3 DEF NoMoreCalls, Picking
    <3>5. \A w \in Workers : Lost(w, n)'
      BY <2>1, <2>2, <3>2, <3>3, <3>4 DEF Lost
    <3>6. ASSUME NEW w \in Workers, NEW c \in 1..Len(calls), w \in Repliers(c)
          PROVE  Accounted(w, c)'
      <4>1. c # 0
        OBVIOUS
      <4>2. CASE c = n
        <5>1. ~Waits(w, c)'
          <6>1. \A i \in 1..Len(futures) : futures[i] # c
            <7>1. \A i \in 1..Len(futures) : futures[i] \in Calls /\ Open(futures[i])
              BY <1>0 DEF Open
            <7>2. \A i \in 1..Len(futures) : futures[i] < n /\ futures[i] \in Nat
              BY <2>2, <7>1, ConfigSpec
            <7> QED BY <4>2, <7>2
          <6> QED BY <2>1, <3>1, <4>1, <6>1 DEF Waits
        <5> QED BY <3>5, <4>2, <5>1 DEF Accounted
      <4>3. CASE c # n
        <5>1. Waits(w, c)' <=> Waits(w, c)
          BY <2>1, <3>1, <4>1, <4>3 DEF Waits
        <5>2. InFlight(w, c)' <=> InFlight(w, c)
          BY <2>1, FlightKept
        <5> QED BY <1>0, <3>6, <5>1, <5>2, LostStays, AccountedStays DEF AllAccounted
      <4> QED BY <4>2, <4>3
    <3> QED BY <1>1, <1>2, <2>1, <3>1, <3>6
  <2>4. CASE ~(shutdown.listGone /\ calls[n].reply = "unique")
    <3>1. /\ Len(calls') = Len(calls)
          /\ \/ engine' = [pc |-> "wait", want |-> n] /\ UNCHANGED futures
             \/ futures' = Append(futures, n) /\ engine' = [pc |-> "idle", want |-> engine.want]
      BY <1>10, <2>4, PickSpec
    <3>2. ASSUME NEW w \in Workers, NEW c \in 1..Len(calls)
          PROVE  Waits(w, c)' <=> Waits(w, c)
      <4>1. c # 0 /\ c \in Nat
        OBVIOUS
      <4>2. CASE engine' = [pc |-> "wait", want |-> n] /\ UNCHANGED futures
        BY <2>1, <2>2, <4>1, <4>2 DEF Waits
      <4>3. CASE /\ futures' = Append(futures, n)
                 /\ engine' = [pc |-> "idle", want |-> engine.want]
        <5>1. (\E i \in 1..Len(futures') : futures'[i] = c)
                <=> c = n \/ \E i \in 1..Len(futures) : futures[i] = c
          <6>1. /\ Len(futures') = Len(futures) + 1 /\ futures'[Len(futures) + 1] = n
                /\ \A i \in 1..Len(futures) : futures'[i] = futures[i]
                /\ \A i \in 1..Len(futures') : i \in 1..Len(futures) \/ i = Len(futures) + 1
            BY <1>0, <2>2, <4>3
          <6> QED BY <1>0, <6>1
        <5> QED BY <2>1, <4>1, <4>3, <5>1 DEF Waits
      <4> QED BY <3>1, <4>2, <4>3
    <3> QED BY <1>2, <1>4, <2>1, <3>1, <3>2
  <2> QED BY <2>3, <2>4
<1>11. CASE StartResponse
  <2>1. /\ UNCHANGED <<calls, engine, sent, taken, job, outputs, answers>>
        /\ engine.pc = "wait" /\ engine.want # 0 /\ reply.call = 0
    BY <1>11 DEF StartResponse, workerVars, EngineInv
  <2>2. reply'.got = <<>>
    BY <1>11, StartSpec
  <2>3. Heard' = {}
    <3>1. Len(reply'.got) = 0
      BY <2>2
    <3> QED BY <3>1 DEF Heard
  <2>4. ASSUME NEW w \in Workers, NEW c \in 1..Len(calls)
        PROVE  Waits(w, c)' <=> Waits(w, c)
    <3>1. c # 0
      OBVIOUS
    <3>2. CASE futures # <<>>
      <4>1. /\ reply'.call = futures[1] /\ Len(futures') = Len(futures) - 1
            /\ Len(futures) \in Nat \ {0}
            /\ \A i \in 1..Len(futures) - 1 : futures'[i] = futures[i + 1]
        BY <1>11, <3>2, StartSpec
      <4>2. /\ 1 \in 1..Len(futures)
            /\ \A i \in 1..Len(futures') :
                 i + 1 \in 1..Len(futures) /\ futures'[i] = futures[i + 1]
        BY <4>1
      <4>3. ASSUME NEW i \in 1..Len(futures), i # 1
            PROVE  i - 1 \in 1..Len(futures') /\ futures'[i - 1] = futures[i]
        <5>1. i - 1 \in 1..Len(futures) - 1 /\ i - 1 + 1 = i
          BY <4>1, <4>3
        <5> QED BY <4>1, <5>1
      <4>4. (\E i \in 1..Len(futures) : futures[i] = c)
              <=> c = futures[1] \/ \E i \in 1..Len(futures') : futures'[i] = c
        BY <4>2, <4>3
      <4> QED BY <2>1, <2>3, <3>1, <4>1, <4>4 DEF Waits
    <3>3. CASE futures = <<>>
      <4>1. reply'.call = engine.want /\ UNCHANGED futures
        BY <1>11, <3>3, StartSpec
      <4> QED BY <2>1, <2>3, <3>1, <4>1 DEF Waits
    <3> QED BY <3>2, <3>3
  <2> QED BY <1>3, <1>4, <2>1, <2>2, <2>4
<1>12. CASE TakeAnswer
  <2>1. UNCHANGED <<calls, futures>>
    BY <1>12 DEF TakeAnswer
  <2>2. /\ answers[NextQueue][1].call = reply.call
        /\ answers[NextQueue][1].worker = NextQueue
        /\ calls[reply.call].queues = FullQueues(reply.call)
        /\ NextQueue \in Repliers(reply.call) /\ NextQueue \notin Heard
    BY <1>0, <1>12, TakenIsOwn
  <2>3. /\ reply.call # 0 /\ NextQueue \in Workers
        /\ Len(reply.got) < Len(calls[reply.call].queues)
        /\ answers[NextQueue] # <<>> /\ answers[NextQueue] \in Seq(Answer)
        /\ Head(answers[NextQueue]) = answers[NextQueue][1]
    BY <1>12, TakeSpec, TailSpec
  <2>4. reply.call \in 1..Len(calls) /\ engine.pc = "wait"
    BY <2>3, ReplyOpen
  <2>5. ASSUME NEW w \in Workers, NEW c \in 1..Len(calls)
        PROVE  InFlight(w, c)' <=> InFlight(w, c) /\ ~(w = NextQueue /\ c = reply.call)
    BY <1>12, <2>2, FlightTaken
  <2>6. CASE Resolved("failed", <<>>)
    <3>1. outcome'[reply.call].status = "failed" /\ reply'.got = <<>>
      BY <2>6, ResolveSpec DEF Resolved
    <3>2. calls[reply.call].reply = "unique"
      BY <2>1, <2>4, <3>1 DEF NothingLeftOver
    <3>3. \A w \in Repliers(reply.call) : w = NextQueue
      BY <2>2, <3>2 DEF Repliers
    <3>4. ASSUME NEW w \in Workers, NEW c \in 1..Len(calls), w \in Repliers(c)
          PROVE  Accounted(w, c)'
      <4>0. Accounted(w, c)
        BY <1>0, <3>4 DEF AllAccounted
      <4>1. CASE c = reply.call
        <5>1. ~Waits(w, c)'
          BY <2>1, <2>6, <4>1, WaitsResolved
        <5>2. ~InFlight(w, c)'
          BY <2>5, <3>3, <3>4, <4>1
        <5> QED BY <5>1, <5>2 DEF Accounted
      <4>2. CASE c # reply.call
        <5>1. Waits(w, c)' <=> Waits(w, c)
          BY <2>1, <2>6, <4>2, WaitsResolved
        <5>2. InFlight(w, c)' <=> InFlight(w, c)
          BY <2>5, <4>2
        <5> QED BY <4>0, <5>1, <5>2, LostStays, AccountedStays
      <4> QED BY <4>1, <4>2
    <3> QED BY <1>1, <1>3, <2>1, <3>1, <3>4
  <2>7. CASE ~Resolved("failed", <<>>)
    <3>1. /\ reply' = [call |-> reply.call,
                       got |-> Append(reply.got, answers[NextQueue][1])]
          /\ UNCHANGED <<outcome, engine>> /\ answers[NextQueue][1] \in Answer
      BY <1>12, <2>3, <2>7, TakeSpec
    <3>2. /\ reply'.call = reply.call /\ reply'.got = Append(reply.got, answers[NextQueue][1])
          /\ reply.got \in Seq(Answer) /\ Len(reply.got) \in Nat
      BY <3>1, EngineType
    <3>3. /\ Len(reply'.got) = Len(reply.got) + 1
          /\ reply'.got[Len(reply.got) + 1] = answers[NextQueue][1]
          /\ \A i \in 1..Len(reply.got) : reply'.got[i] = reply.got[i]
          /\ \A i \in 1..Len(reply'.got) : i \in 1..Len(reply.got) \/ i = Len(reply.got) + 1
      BY <3>1, <3>2
    <3>4. calls[reply.call].queues[Len(reply.got) + 1] = NextQueue
      BY DEF NextQueue
    <3>5. HasOwn'
      BY <1>0, <2>1, <2>2, <2>3, <3>2, <3>3, <3>4 DEF HasOwn
    <3>6. Heard' = Heard \union {NextQueue}
      BY <2>1, <3>2, <3>3, <3>4 DEF Heard
    <3>7. ASSUME NEW w \in Workers, NEW c \in 1..Len(calls), w \in Repliers(c)
          PROVE  Accounted(w, c)'
      <4>0. Accounted(w, c)
        BY <1>0, <3>7 DEF AllAccounted
      <4>1. \A i \in 1..Len(futures) : futures[i] # reply.call
        <5>1. \A i \in 1..Len(futures) : reply.call < futures[i]
          BY DEF EngineInv, FuturesInOrder
        <5> QED BY <2>4, <5>1
      <4>2. Waits(w, c)' <=> Waits(w, c) /\ ~(w = NextQueue /\ c = reply.call)
        BY <2>1, <2>4, <3>1, <3>2, <3>6, <4>1 DEF Waits
      <4>3. InFlight(w, c)' <=> InFlight(w, c) /\ ~(w = NextQueue /\ c = reply.call)
        BY <2>5
      <4>4. Lost(w, c) => Lost(w, c)'
        BY LostStays
      <4> QED BY <4>0, <4>2, <4>3, <4>4 DEF Accounted
    <3> QED BY <1>1, <2>1, <3>5, <3>7
  <2> QED BY <2>6, <2>7
<1>13. CASE EndResponse
  <2>1. /\ UNCHANGED <<calls, futures, sent, taken, job, outputs, answers>>
        /\ Resolved("ok", reply.got) /\ reply.call # 0
        /\ Len(reply.got) = Len(calls[reply.call].queues)
        /\ UNCHANGED <<shutdown, crashes>>
    BY <1>13, EngineType DEF EndResponse, Resolved, workerVars
  <2>2. reply'.got = <<>>
    BY <2>1, ResolveSpec DEF Resolved
  <2>3. ASSUME NEW w \in Workers, NEW c \in 1..Len(calls), w \in Repliers(c), c = reply.call
        PROVE  Lost(w, c)' \/ w \in Heard
    <3>1. CASE calls[reply.call].queues = FullQueues(reply.call)
      BY <2>1, <2>3, <3>1, HeardSpec
    <3>2. CASE calls[reply.call].queues # FullQueues(reply.call)
      <4>1. /\ crashes # 0 /\ NoMoreCalls /\ c \in Calls
            /\ \A d \in Calls : Open(d) => d <= c
        BY <2>1, <2>3, <3>2, ReplyOpen DEF Picked
      <4>2. crashes' # 0 /\ NoMoreCalls'
        BY <4>1, Forever
      <4>3. \A d \in Calls : Open(d)' => d <= c /\ d # c
        BY <2>1, <2>3, <4>1, ResolvedOpen
      <4>4. \A d \in Calls : Open(d)' => d < c
        BY <4>1, <4>3, ConfigSpec
      <4> QED BY <4>2, <4>4 DEF Lost
    <3> QED BY <3>1, <3>2
  <2>4. ASSUME NEW w \in Workers, NEW c \in 1..Len(calls), w \in Repliers(c)
        PROVE  Accounted(w, c)'
    <3>1. Accounted(w, c)
      BY <1>0, <2>4 DEF AllAccounted
    <3>2. InFlight(w, c)' <=> InFlight(w, c)
      BY <2>1, FlightKept
    <3> QED BY <2>1, <2>3, <2>4, <3>1, <3>2, AccountedResolved
  <2> QED BY <1>1, <1>3, <2>1, <2>2, <2>4
<1>14. CASE NoAnswer
  <2>0. <<>> \in Seq(Answer)
    OBVIOUS
  <2>1. /\ UNCHANGED <<calls, futures, sent, taken, job, outputs, answers>>
        /\ (shutdown.closed /\ Resolved("cancelled", <<>>)) \/ Resolved("timeout", <<>>)
        /\ reply.call # 0 /\ Len(reply.got) < Len(calls[reply.call].queues)
        /\ answers[NextQueue] = <<>>
    BY <1>14, <2>0 DEF NoAnswer, Resolved, workerVars
  <2>2. reply.call \in 1..Len(calls) /\ engine.pc = "wait"
    BY <2>1, ReplyOpen
  <2>3. ~Resolved("timeout", <<>>)
    <3>1. Resolved("timeout", <<>>) => outcome'[reply.call].status = "timeout"
      BY ResolveSpec DEF Resolved
    <3> QED BY <2>1, <2>2, <3>1 DEF NothingLeftOver
  <2>4. Resolved("cancelled", <<>>) /\ shutdown.closed
    BY <2>1, <2>3
  <2>5. outcome'[reply.call].status = "cancelled" /\ reply'.got = <<>>
    BY <2>4, ResolveSpec DEF Resolved
  <2>6. calls[reply.call].reply = "unique"
    BY <2>1, <2>2, <2>5 DEF NothingLeftOver
  <2>7. calls[reply.call].queues = FullQueues(reply.call)
    <3>1. calls[reply.call].queues # <<>>
      BY <2>1, EngineType
    <3> QED BY <2>1, <3>1, ReplyOpen DEF Picked
  <2>8. \A w \in Repliers(reply.call) : w = NextQueue
    BY <2>1, <2>6, <2>7, HeardSpec DEF Repliers
  <2>9. AllDead /\ crashes # 0
    BY <2>2, <2>4 DEF ShutdownInv
  <2>10. AllDead' /\ crashes' # 0
    BY <2>9, Forever
  <2>11. ASSUME NEW w \in Workers, NEW c \in 1..Len(calls), w \in Repliers(c)
         PROVE  Accounted(w, c)'
    <3>1. Accounted(w, c)
      BY <1>0, <2>11 DEF AllAccounted
    <3>2. InFlight(w, c)' <=> InFlight(w, c)
      BY <2>1, FlightKept
    <3>3. c = reply.call => Lost(w, c)'
      BY <2>1, <2>8, <2>10, <2>11 DEF Lost
    <3> QED BY <2>1, <2>4, <3>1, <3>2, <3>3, AccountedResolved
  <2> QED BY <1>1, <1>3, <2>1, <2>5, <2>11
<1>15. ASSUME NEW v \in Workers, TakeCall(v) \/ FinishCall(v) \/ SendOutput(v)
       PROVE  AllAccounted' /\ HasOwn'
  <2>1. UNCHANGED <<calls, futures, reply, engine>>
    BY <1>15 DEF TakeCall, FinishCall, SendOutput
  <2>2. ASSUME NEW w \in Workers, NEW c \in 1..Len(calls), w \in Repliers(c)
        PROVE  Accounted(w, c)'
    <3>1. Accounted(w, c)
      BY <1>0, <2>2 DEF AllAccounted
    <3>2. InFlight(w, c)' <=> InFlight(w, c)
      BY <1>15, <2>2, FlightWorker
    <3>3. Waits(w, c)' <=> Waits(w, c)
      BY <2>1, WaitsKept
    <3> QED BY <3>1, <3>2, <3>3, LostStays, AccountedStays
  <2> QED BY <1>1, <1>2, <2>1, <2>2
<1>16. ASSUME NEW v \in Workers, Crash(v) \/ WorkerExit(v) PROVE AllAccounted' /\ HasOwn'
  BY <1>5, <1>16 DEF Crash, WorkerExit, workerVars
<1>17. CASE EngineShutdown
  <2>1. /\ UNCHANGED <<calls, futures, reply, sent, taken, job, outputs, answers>>
        /\ engine.pc = "idle" /\ engine'.pc = "shutdown" /\ engine'.want = engine.want
    BY <1>17, EnterSpec DEF EngineShutdown, workerVars
  <2>2. reply.call = 0
    BY <2>1 DEF EngineInv
  <2>3. ASSUME NEW w \in Workers, NEW c \in 1..Len(calls)
        PROVE  Waits(w, c)' <=> Waits(w, c)
    <3>1. c # 0
      OBVIOUS
    <3> QED BY <2>1, <2>2, <3>1 DEF Waits
  <2> QED BY <1>2, <1>4, <2>1, <2>3
<1>18. ASSUME MonitorWakes \/ InformEngine \/ \E t \in Threads : ShutdownStep(t)
       PROVE  AllAccounted' /\ HasOwn'
  <2>1. UNCHANGED <<calls, futures, reply, engine, sent, taken, job, outputs, answers>>
    BY <1>18 DEF MonitorWakes, InformEngine, ShutdownStep, workerVars
  <2> QED BY <1>5, <2>1
<1>19. CASE UNCHANGED vars
  BY <1>5, <1>19 DEF vars, workerVars
<1> QED
  BY <1>6, <1>7, <1>8, <1>9, <1>10, <1>11, <1>12, <1>13, <1>14, <1>15, <1>16, <1>17, <1>18,
     <1>19 DEF Next


-----------------------------------------------------------------------------
(* AnswersMatchCalls *)

\* A worker has answered every call before the one it executes and those it has not taken.
LEMMA AnsweredBefore ==
    ASSUME TypeOK, SentInv, NEW w \in Workers, Takes(w), NEW a, IsAnswer(w, a)
    PROVE  /\ job[w] # 0 => a.call < job[w]
           /\ \A j \in taken[w] + 1..Len(sent) : a.call < sent[j]
<1>1. taken[w] \in Nat /\ taken[w] <= Len(sent) /\ Len(sent) \in Nat
  BY WorkerType, EngineType, ConfigSpec DEF Takes
<1>2. PICK k \in 1..taken[w] : sent[k] = a.call /\ (job[w] # 0 => k < taken[w])
  BY DEF IsAnswer
<1>3. ASSUME job[w] # 0 PROVE a.call < job[w]
  <2>1. k \in 1..Len(sent) /\ taken[w] \in 1..Len(sent) /\ k < taken[w]
    BY <1>1, <1>2, <1>3
  <2>2. job[w] = sent[taken[w]]
    BY <1>3 DEF Takes
  <2> QED BY <1>2, <2>1, <2>2 DEF SentInv
<1>4. ASSUME NEW j \in taken[w] + 1..Len(sent) PROVE a.call < sent[j]
  <2>1. k \in 1..Len(sent) /\ j \in 1..Len(sent) /\ k < j
    BY <1>1
  <2> QED BY <1>2, <2>1 DEF SentInv
<1> QED BY <1>3, <1>4

LEMMA ConcatSpec ==
    ASSUME NEW S, NEW s \in Seq(S), NEW t \in Seq(S)
    PROVE  /\ Len(s \o t) = Len(s) + Len(t) /\ Len(s) \in Nat /\ Len(t) \in Nat
           /\ \A i \in 1..Len(s) + Len(t) :
                \/ i \in 1..Len(s) /\ (s \o t)[i] = s[i]
                \/ i - Len(s) \in 1..Len(t) /\ (s \o t)[i] = t[i - Len(s)]
<1>1. /\ Len(s) \in Nat /\ Len(t) \in Nat
  OBVIOUS
<1>2. ASSUME NEW m \in Nat, NEW n \in Nat, NEW i \in 1..m + n
      PROVE  (i <= m /\ i \in 1..m) \/ (~(i <= m) /\ i - m \in 1..n)
  BY <1>2
<1>3. \A i \in 1..Len(s) + Len(t) :
        (s \o t)[i] = IF i <= Len(s) THEN s[i] ELSE t[i - Len(s)]
  BY ConcatProperties
<1>4. Len(s \o t) = Len(s) + Len(t)
  BY ConcatProperties
<1> QED BY <1>1, <1>2, <1>3, <1>4

LEMMA ConcatRises ==
    ASSUME NEW s \in Seq(Answer), NEW t \in Seq(Answer), CallsRise(s), CallsRise(t),
           \A i \in 1..Len(s), j \in 1..Len(t) : s[i].call < t[j].call
    PROVE  CallsRise(s \o t)
<1> DEFINE r == s \o t
<1>1. /\ Len(r) = Len(s) + Len(t) /\ Len(s) \in Nat /\ Len(t) \in Nat
      /\ \A i \in 1..Len(s) + Len(t) :
           \/ i \in 1..Len(s) /\ r[i] = s[i]
           \/ i - Len(s) \in 1..Len(t) /\ r[i] = t[i - Len(s)]
  BY ConcatSpec
<1> HIDE DEF r
<1>2. ASSUME NEW i \in 1..Len(s) + Len(t), NEW j \in 1..Len(s) + Len(t), i < j
      PROVE  r[i].call < r[j].call
  <2>1. CASE i \in 1..Len(s) /\ r[i] = s[i]
    <3>1. CASE j \in 1..Len(s) /\ r[j] = s[j]
      BY <1>2, <2>1, <3>1 DEF CallsRise
    <3>2. CASE j - Len(s) \in 1..Len(t) /\ r[j] = t[j - Len(s)]
      BY <2>1, <3>2
    <3> QED BY <1>1, <3>1, <3>2
  <2>2. CASE i - Len(s) \in 1..Len(t) /\ r[i] = t[i - Len(s)]
    <3>1. j \notin 1..Len(s)
      BY <1>1, <1>2, <2>2
    <3>2. j - Len(s) \in 1..Len(t) /\ r[j] = t[j - Len(s)]
      BY <1>1, <3>1
    <3>3. i - Len(s) < j - Len(s)
      BY <1>1, <1>2
    <3> QED BY <2>2, <3>2, <3>3 DEF CallsRise
  <2> QED BY <1>1, <2>1, <2>2
<1>3. CallsRise(r)
  BY <1>1, <1>2 DEF CallsRise
<1> QED BY <1>3 DEF r

LEMMA WayInOrder ==
    ASSUME TypeOK, SentInv, WorkersInv, NEW w \in Workers
    PROVE  AnsweredInOrder(w)
<1> DEFINE way == answers[w] \o outputs[w]
<1>1. answers[w] \in Seq(Answer) /\ outputs[w] \in Seq(Answer)
  BY WorkerType
<1>2. /\ Takes(w) /\ CallsRise(answers[w]) /\ CallsRise(outputs[w])
      /\ \A i \in 1..Len(answers[w]), j \in 1..Len(outputs[w]) :
           answers[w][i].call < outputs[w][j].call
      /\ \A i \in 1..Len(answers[w]) : IsAnswer(w, answers[w][i])
      /\ \A i \in 1..Len(outputs[w]) : IsAnswer(w, outputs[w][i])
  BY DEF WorkersInv, Answers
<1>3. CallsRise(way)
  BY <1>1, <1>2, ConcatRises
<1>4. \A i \in 1..Len(way) : IsAnswer(w, way[i])
  <2>1. /\ Len(way) = Len(answers[w]) + Len(outputs[w])
        /\ \A i \in 1..Len(answers[w]) + Len(outputs[w]) :
             \/ i \in 1..Len(answers[w]) /\ way[i] = answers[w][i]
             \/ /\ i - Len(answers[w]) \in 1..Len(outputs[w])
                /\ way[i] = outputs[w][i - Len(answers[w])]
    BY <1>1, ConcatSpec
  <2> HIDE DEF way
  <2> QED BY <1>2, <2>1
<1>5. ASSUME NEW i \in 1..Len(way)
      PROVE  /\ job[w] # 0 => way[i].call < job[w]
             /\ \A j \in taken[w] + 1..Len(sent) : way[i].call < sent[j]
  BY <1>2, <1>4, AnsweredBefore
<1> QED BY <1>3, <1>5 DEF AnsweredInOrder, CallsRise

LEMMA AlignedAnswers ==
    ASSUME ExecInv PROVE AnswersAligned
<1> SUFFICES ASSUME NothingLeftOver, crashes = 0
             PROVE  /\ AwaitedInOrder
                    /\ \A w \in Workers : Unanswered(w) = Awaited(w) /\ AnsweredInOrder(w)
  BY DEF AnswersAligned
<1>1. TypeOK /\ EngineInv /\ SentInv /\ WorkersInv /\ AllAccounted /\ futures \in Seq(Calls)
  BY DEF ExecInv, Matched, TypeOK
<1>2. \A c : c \in ToSet(futures) <=> \E i \in 1..Len(futures) : futures[i] = c
  BY <1>1, ToSetDef
<1>3. AwaitedInOrder
  <2>1. FuturesInOrder
    BY <1>1 DEF EngineInv
  <2> QED BY <1>2, <2>1 DEF AwaitedInOrder, FuturesInOrder
<1>4. ASSUME NEW w \in Workers PROVE Unanswered(w) = Awaited(w)
  <2>1. answers[w] \in Seq(Answer) /\ outputs[w] \in Seq(Answer)
    BY <1>1, WorkerType
  <2>2. /\ \A a : a \in ToSet(answers[w]) <=> \E i \in 1..Len(answers[w]) : answers[w][i] = a
        /\ \A a : a \in ToSet(outputs[w]) <=> \E i \in 1..Len(outputs[w]) : outputs[w][i] = a
    BY <2>1, ToSetDef
  <2>3. ASSUME NEW c \in 1..Len(calls)
        PROVE  /\ c \in Unanswered(w) <=> w \in Repliers(c) /\ InFlight(w, c)
               /\ c \in Awaited(w) <=> w \in Repliers(c) /\ Waits(w, c)
    <3>1. (\E a \in ToSet(answers[w]) \union ToSet(outputs[w]) : a.call = c)
            <=> HasCall(answers[w], c) \/ HasCall(outputs[w], c)
      BY <2>2 DEF HasCall
    <3>2. c \in Unanswered(w) <=> w \in Repliers(c) /\ InFlight(w, c)
      BY <3>1 DEF Unanswered, InFlight
    <3>3. c \in Awaited(w) <=> w \in Repliers(c) /\ Waits(w, c)
      BY <1>2 DEF Awaited, Waits
    <3> QED BY <3>2, <3>3
  <2>4. \A c \in 1..Len(calls) : w \in Repliers(c) => (Waits(w, c) <=> InFlight(w, c))
    BY <1>1 DEF AllAccounted, Accounted, Lost
  <2>5. Unanswered(w) \subseteq 1..Len(calls) /\ Awaited(w) \subseteq 1..Len(calls)
    BY DEF Unanswered, Awaited
  <2> QED BY <2>3, <2>4, <2>5
<1> QED BY <1>1, <1>3, <1>4, WayInOrder

LEMMA ExecNext ==
    ASSUME ExecInv, [Next]_vars
    PROVE  ExecInv'
<1>1. /\ TypeOK /\ ShutdownInv /\ EngineInv /\ SentInv /\ WorkersInv
      /\ Matched /\ OwnAnswers /\ CompleteResults
  BY DEF ExecInv
<1>2. TypeOK'
  BY <1>1, TypeNext
<1>3. ShutdownInv' /\ EngineInv' /\ SentInv'
  BY <1>1, ShutdownNext, EngineNext, SentNext
<1>4. WorkersInv' /\ Matched'
  BY <1>1, <1>2, WorkersNext, MatchedNext
<1>5. OwnAnswers' /\ CompleteResults'
  BY <1>1, <1>2, OwnNext, CompleteNext
<1> QED BY <1>2, <1>3, <1>4, <1>5 DEF ExecInv

(* A call gets the answers to itself, one of each worker it asked, with any *)
(* number of workers, of calls, of timeouts and of crashes, at whatever     *)
(* moment the executor is shut down (collective_rpc, FutureWrapper): the    *)
(* unresolved calls and the answers on their way match, worker by worker.   *)
THEOREM AnswersMatch == Spec => []AnswersMatchCalls
<1>1. ExecInv => AnswersMatchCalls
  BY AlignedAnswers DEF ExecInv, AnswersMatchCalls
<1> QED BY <1>1, InitExec, ExecNext, PTL DEF Spec

(* The executor is declared dead only when a worker died by itself: the     *)
(* workers that shutdown() ends, from the engine's thread, raise no alarm   *)
(* in the monitor's (monitor_workers).                                      *)
THEOREM AlarmsMeanCrashes == Spec => []AlarmMeansCrash
<1>1. ExecInv => AlarmMeansCrash
  <2>1. ASSUME ExecInv, crashes = 0 PROVE ~shutdown.failed
    BY <2>1 DEF ExecInv, ShutdownInv
  <2>2. ExecInv => crashes \in Nat
    BY ConfigSpec DEF ExecInv, TypeOK
  <2> QED BY <2>1, <2>2 DEF AlarmMeansCrash
<1> QED BY <1>1, InitExec, ExecNext, PTL DEF Spec
=============================================================================
