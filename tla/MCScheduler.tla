---------------------------- MODULE MCScheduler -----------------------------
(***************************************************************************)
(* Small instances of Scheduler: two or three requests whose prompts share *)
(* a prefix, blocks of two tokens and a pool too small for all of them.    *)
(***************************************************************************)
EXTENDS Scheduler

CONSTANTS r1, r2, r3

\* Two requests with the same first block; r2 needs a second block at once.
TwoPrompts == (r1 :> <<"a", "b", "a">>) @@ (r2 :> <<"a", "b", "b">>)
TwoMaxTokens == (r1 :> 3) @@ (r2 :> 3)
TwoPriorities == (r1 :> 1) @@ (r2 :> 0)

\* A third request that shares two blocks with the first, or nothing.
ThreePrompts == TwoPrompts @@ (r3 :> <<"a", "b", "a", "a", "b">>)
MixedPrompts == TwoPrompts @@ (r3 :> <<"b", "a", "b", "a", "b">>)
ThreeMaxTokens == (r1 :> 2) @@ (r2 :> 2) @@ (r3 :> 1)
ThreePriorities == (r1 :> 1) @@ (r2 :> 0) @@ (r3 :> 1)

\* The default settings: one batch at a time; a client that pauses the
\* engine and resets the caches.
EngineConfig ==
  [prompt |-> (r1 :> <<"a", "b", "a">>) @@ (r3 :> <<"a", "b", "a", "a", "b">>),
   maxTokens |-> (r1 :> 3) @@ (r3 :> 2), priority |-> (r1 :> 1) @@ (r3 :> 1),
   policy |-> "fcfs", async |-> FALSE, batchQueueSize |-> 1,
   maxNumRunningReqs |-> 2, longPrefillTokenThreshold |-> 0,
   reserveFullISL |-> TRUE, maxAdmin |-> 2]

\* Pipeline parallelism: two batches in flight, scheduled by priority.
PipelineConfig ==
  [EngineConfig EXCEPT
     !.prompt = MixedPrompts, !.maxTokens = ThreeMaxTokens,
     !.priority = ThreePriorities, !.policy = "priority",
     !.batchQueueSize = 2, !.maxAdmin = 0]

\* Async scheduling: the next batch is made before the tokens are known.
AsyncConfig ==
  [PipelineConfig EXCEPT
     !.prompt = ThreePrompts, !.policy = "fcfs", !.async = TRUE,
     !.maxNumRunningReqs = 3, !.longPrefillTokenThreshold = 2,
     !.reserveFullISL = FALSE]

AllConfigs == {EngineConfig, PipelineConfig, AsyncConfig}

\* Unchunked prefills; requests that outgrow the pool preempt each other.
PreemptingConfig ==
  [EngineConfig EXCEPT
     !.prompt = TwoPrompts, !.maxTokens = TwoMaxTokens,
     !.priority = TwoPriorities, !.reserveFullISL = FALSE, !.maxAdmin = 1]

LivenessConfigs ==
  {PreemptingConfig,
   [PreemptingConfig EXCEPT !.policy = "priority", !.batchQueueSize = 2,
                            !.maxAdmin = 0],
   [PreemptingConfig EXCEPT !.async = TRUE, !.batchQueueSize = 2,
                            !.maxAdmin = 0]}

\* A long prompt at low priority that is prefilled in chunks, and a short
\* one at high priority whose decoding needs blocks.
ChunkConfigs ==
  {[EngineConfig EXCEPT
      !.prompt = (r1 :> <<"a", "b", "a", "b", "a", "b">>) @@ (r2 :> <<"b">>),
      !.maxTokens = TwoMaxTokens, !.priority = TwoPriorities,
      !.policy = "priority", !.longPrefillTokenThreshold = 2, !.maxAdmin = 0]}
=============================================================================
