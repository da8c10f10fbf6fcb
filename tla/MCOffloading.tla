---------------------------- MODULE MCOffloading ----------------------------
(***************************************************************************)
(* Small instances of OffloadingConnector.                                 *)
(***************************************************************************)
EXTENDS OffloadingConnector

(* Two requests with a common first block, and one of its own *)
MCPrompt == <<<<"a", "b">>, <<"a">>, <<"c">>>>

(* Too few GPU blocks; enough of them, and an abort; two batches in        *)
(* flight; two batches in flight and a reset                               *)
Tight     == [reqs |-> {1, 2, 3}, numGpu |-> 4, maxInflight |-> 1, maxAborts |-> 0, maxResets |-> 0]
Aborting  == [Tight EXCEPT !.numGpu = 10, !.maxAborts = 1]
Async     == [Tight EXCEPT !.maxInflight = 2]
Resetting == [Async EXCEPT !.reqs = {1, 2}, !.numGpu = 3, !.maxResets = 1]

MCConfigs == {Tight, Aborting, Async, Resetting}
=============================================================================
