----------------------------- MODULE MCExecutor -----------------------------
(***************************************************************************)
(* Small instances of MultiprocExecutor: two workers and a broadcast queue *)
(* of two chunks.                                                          *)
(***************************************************************************)
EXTENDS MultiprocExecutor

(* Async scheduling, with steps that may raise *)
StepsConfig ==
  [asyncOutput |-> TRUE, stepReply |-> "unique", failing |-> {"unique"},
   calls |-> 3, timeouts |-> 0, crashes |-> 0]

(* All workers answer a step, as with a KV connector; calls to all of them *)
(* may raise; one call may time out; one worker may die, while one or all  *)
(* of them are to answer                                                   *)
MCConfigs ==
  {StepsConfig,
   [StepsConfig EXCEPT !.asyncOutput = FALSE, !.stepReply = "all", !.failing = {}],
   [StepsConfig EXCEPT !.calls = 2, !.failing = {"all"}, !.timeouts = 1],
   [StepsConfig EXCEPT !.calls = 2, !.crashes = 1],
   [StepsConfig EXCEPT !.asyncOutput = FALSE, !.stepReply = "all", !.failing = {},
                       !.calls = 2, !.crashes = 1]}
=============================================================================
