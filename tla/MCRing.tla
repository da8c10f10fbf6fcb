------------------------------- MODULE MCRing -------------------------------
(***************************************************************************)
(* Small instances of ShmRingBuffer: three messages through two chunks, so *)
(* that the ring wraps.                                                    *)
(***************************************************************************)
EXTENDS ShmRingBuffer

(* Callers that wait for ever, with a large message in the middle; callers *)
(* with timeouts, with a large message at the end                          *)
MCConfigs ==
  {[large |-> {2}, timeouts |-> FALSE], [large |-> {3}, timeouts |-> TRUE]}
=============================================================================
