------------------------------- MODULE MCNixl -------------------------------
(***************************************************************************)
(* Small instances of NixlConnector.                                       *)
(***************************************************************************)
EXTENDS NixlConnector

(* One prefill worker and two decode workers, with and without the timeout *)
Plain ==
  [np |-> 1, nd |-> 2, mla |-> FALSE, hma |-> FALSE, known |-> TRUE, recompute |-> TRUE,
   expires |-> FALSE, reqs |-> {1}, hits |-> {1}, aborts |-> {1}, maxBatches |-> 1,
   faults |-> {"transfer", "setup", "notify"}, maxFaults |-> 2]
Expiring == [Plain EXCEPT !.expires = TRUE, !.maxBatches = 2, !.faults = {"setup", "notify"},
                          !.maxFaults = 1]
(* A decode worker that reads from two prefill workers, policy "fail"; the *)
(* same with nothing that fails, and with a replicated cache               *)
Producers == [Plain EXCEPT !.np = 2, !.nd = 1, !.recompute = FALSE, !.faults = {"transfer"},
                           !.maxFaults = 1]
Quiet     == [Producers EXCEPT !.aborts = {}, !.faults = {}]
Replicated == [Producers EXCEPT !.mla = TRUE, !.expires = TRUE]
(* Two requests that share handshakes, which fail and are retried *)
Handshaking ==
  [Plain EXCEPT !.nd = 1, !.known = FALSE, !.reqs = {1, 2}, !.hits = {}, !.aborts = {2},
                !.maxBatches = 1, !.faults = {"handshake", "transfer"}, !.maxFaults = 1]
(* Several KV cache groups *)
Groups == [Plain EXCEPT !.hma = TRUE, !.nd = 1, !.faults = {"transfer", "setup"}]

MCConfigs == {Plain, Expiring, Producers, Quiet, Replicated, Handshaking, Groups}
=============================================================================
