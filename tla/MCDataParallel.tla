--------------------------- MODULE MCDataParallel ---------------------------
(***************************************************************************)
(* Small instances of DataParallel: two requests; one request that may be  *)
(* aborted or refused; one request that races with a pause.                *)
(***************************************************************************)
EXTENDS DataParallel

MCLoads ==
  {[requests |-> 2, aborts |-> 0, pauses |-> 0],
   [requests |-> 1, aborts |-> 1, pauses |-> 0],
   [requests |-> 1, aborts |-> 0, pauses |-> 1]}
=============================================================================
