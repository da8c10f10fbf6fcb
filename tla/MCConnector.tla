----------------------------- MODULE MCConnector ----------------------------
(***************************************************************************)
(* Small instances of the two ways a connector loads KV: KVTransfer        *)
(* (between the batches) and KVLoadFailure (in the forward pass).  A       *)
(* behaviour is one of the first or, if config.sync, one of the second;    *)
(* the two use the same names for the queues, the batches and the memory.  *)
(***************************************************************************)
EXTENDS KVTransfer

VARIABLES ended, table, free, hash, computed, cached, outputs, delivered

transferVars == <<s, skipped, remaining, load, send, wrong>>
loadVars     == <<ended, table, free, hash, computed, cached, outputs, delivered>>
allVars      == <<vars, loadVars>>

LoadRequests == 1..3

(* Request 1 loads its whole prompt and sends its blocks when it stops,    *)
(* request 2 loads a part.  Two workers, one of which may fail; and one    *)
(* worker, two batches in flight and a client that aborts.                 *)
TwoWorkers ==
  [sync |-> FALSE, workers |-> {1, 2}, promptLen |-> <<3, 3>>, external |-> <<3, 2>>,
   sends |-> {1}, numBlocks |-> 4, maxOutputs |-> 1, reserveFull |-> TRUE,
   recompute |-> TRUE, maxInflight |-> 1, maxFailures |-> 1, maxAborts |-> 0]
Aborting ==
  [TwoWorkers EXCEPT !.workers = {1}, !.promptLen = <<3, 4>>, !.maxInflight = 2,
                     !.recompute = FALSE, !.maxAborts = 1]
MCConfigs == {TwoWorkers, Aborting}

(* Blocks of two tokens, the first of which the connector has: prompts     *)
(* that share it, with the policy "recompute"; one prompt for all, with    *)
(* the policy "fail" and two batches in flight; prompts that share nothing *)
Shared ==
  [sync |-> TRUE, requests |-> 1..3, prompt |-> <<<<1, 2, 3>>, <<1, 2, 4>>, <<1, 2, 3>>>>,
   hit |-> 2, numBlocks |-> 4, maxOutputs |-> 3, recompute |-> TRUE, maxInflight |-> 1,
   maxFailures |-> 2, maxAborts |-> 0]
Same ==
  [Shared EXCEPT !.prompt = [r \in 1..3 |-> <<1, 2, 3, 4, 5>>], !.numBlocks = 6,
                 !.maxOutputs = 1, !.recompute = FALSE, !.maxInflight = 2]
Apart ==
  [Shared EXCEPT !.requests = 1..2, !.prompt = <<<<1, 2, 3>>, <<5, 6, 7>>, <<8, 9, 8>>>>,
                 !.maxOutputs = 1, !.recompute = FALSE, !.maxInflight = 2, !.maxAborts = 1]
LoadConfigs == {Shared, Same, Apart}

Loads == INSTANCE KVLoadFailure WITH Requests <- LoadRequests, Configs <- LoadConfigs

ASSUME LoadsAssumption == Loads!LoadFailureAssumption

InTransfer == ~ config.sync
InLoads    == config.sync

None == {}
Start ==
  \/ /\ Init
     /\ ended = None /\ table = None /\ free = None /\ hash = None
     /\ computed = None /\ cached = None /\ outputs = None /\ delivered = None
  \/ /\ Loads!Init
     /\ s = None /\ skipped = None /\ remaining = None /\ load = None
     /\ send = None /\ wrong = None

TransferStep(A) == InTransfer /\ A /\ UNCHANGED loadVars
LoadStep(A)     == InLoads /\ A /\ UNCHANGED transferVars

Step == TransferStep(Next) \/ LoadStep(Loads!Next)

(* The engine loop and the workers keep stepping, every transfer ends and  *)
(* every client sends its request.  A step that schedules nothing goes on  *)
(* to wait for the oldest batch, and every step takes in new requests,     *)
(* hence the two strong fairness conditions.                               *)
Fairness ==
  /\ WF_allVars(TransferStep(Schedule)) /\ WF_allVars(TransferStep(UpdateFromOutput))
  /\ WF_allVars(TransferStep(\E w \in Workers : Batches(w)))
  /\ WF_allVars(TransferStep(\E r \in Requests : Arrive(r)))
  /\ WF_allVars(TransferStep(\E w \in Workers, r \in Requests : LoadEnds(w, r) \/ SendEnds(w, r)))
  /\ WF_allVars(LoadStep(Loads!Schedule)) /\ WF_allVars(LoadStep(Loads!Execute))
  /\ SF_allVars(LoadStep(Loads!UpdateFromOutput))
  /\ SF_allVars(LoadStep(\E r \in LoadRequests : Loads!Arrive(r)))

MCSpec == Start /\ [][Step]_allVars /\ Fairness

-----------------------------------------------------------------------------
(* Asynchronous loads and sends only touch blocks their request holds      *)
(* (delay_free_blocks); delayed releases neither leak a block nor free it  *)
(* twice (_free_blocks), whatever the workers report and in which order    *)
(* (_update_from_kv_xfer_finished).                                        *)
BlocksKept ==
  IF InTransfer
  THEN TypeOK /\ TransfersOwnTheirBlocks /\ BlocksAccounted /\ NoTransferAssertFails
  ELSE Loads!TypeOK

(* Nothing is computed from a block whose asynchronous load has not ended  *)
(* or failed (_update_waiting_for_remote_kv), and no client is given a     *)
(* token computed from a failed synchronous load                           *)
(* (_update_requests_with_invalid_blocks).                                 *)
NoBadToken == IF InTransfer THEN NoReadBeforeLoad ELSE Loads!NoTokenFromBadLoad

(* The prefix cache offers no block that a failed load left behind         *)
(* (evict_blocks).                                                         *)
CacheStaysValid == InLoads => Loads!CacheHoldsItsPrefix

(* Every request ends, whatever loads fail and however often requests are  *)
(* cut back, preempted and scheduled again (_handle_invalid_blocks).       *)
AllRequestsEnd ==
  <>(IF InTransfer THEN \A r \in Requests : Ended(r) ELSE ended = config.requests)
=============================================================================
