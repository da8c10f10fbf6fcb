----------------------------- MODULE MCEncoder ------------------------------
(***************************************************************************)
(* Small instances of EncoderScheduling: requests that share an input and  *)
(* a cache that holds one or two inputs.                                   *)
(***************************************************************************)
EXTENDS EncoderScheduling

Input(h, s, l) == [hash |-> h, start |-> s, len |-> l]

MCSize == [h \in {"a", "b", "c"} |-> 2]

(* Request 1: a b, with a token between them; request 2: a, then c; request *)
(* 3: a twice                                                               *)
MCFeatures ==
  <<<<Input("a", 1, 2), Input("b", 4, 2)>>,
    <<Input("a", 0, 2), Input("c", 2, 2)>>,
    <<Input("a", 0, 2), Input("a", 3, 2)>>>>
MCPromptLen == <<6, 5, 6>>

(* Inputs in chunks, one encoded in a step; fewer requests and a reset of  *)
(* the cache; inputs that are not split; by priority; a cache for a single *)
(* input; with EAGLE                                                       *)
ChunkedConfig ==
  [requests |-> {1, 2, 3}, cacheSize |-> 4, encoderBudget |-> 3, shift |-> 0,
   noChunking |-> FALSE, priority |-> FALSE, maxFailures |-> 1, maxResets |-> 0]

MCConfigs ==
  {ChunkedConfig,
   [ChunkedConfig EXCEPT !.requests = {1, 2}, !.maxFailures = 2, !.maxResets = 1],
   [ChunkedConfig EXCEPT !.requests = {1, 3}, !.encoderBudget = 4, !.noChunking = TRUE],
   [ChunkedConfig EXCEPT !.requests = {1, 2}, !.priority = TRUE],
   [ChunkedConfig EXCEPT !.requests = {1, 2}, !.cacheSize = 3],
   [ChunkedConfig EXCEPT !.requests = {1, 2}, !.shift = 1]}
=============================================================================
