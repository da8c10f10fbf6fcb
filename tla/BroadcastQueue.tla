--------------------------- MODULE BroadcastQueue ---------------------------
(***************************************************************************)
(* What the shared-memory message queue of                                 *)
(* distributed/device_communicators/shm_broadcast.py promises: one writer, *)
(* every reader gets every message once and in the order they were sent,   *)
(* and the writer is never more than Capacity messages ahead of a reader.  *)
(* Messages are numbered in the order in which they are enqueued.          *)
(***************************************************************************)
EXTENDS Naturals, Sequences

CONSTANTS Readers, Capacity

VARIABLES sent, got

Init ==
  /\ sent = 0
  /\ got = [r \in Readers |-> <<>>]

Enqueue ==
  /\ \A r \in Readers : sent - Len(got[r]) < Capacity
  /\ sent' = sent + 1
  /\ UNCHANGED got

Dequeue(r) ==
  /\ Len(got[r]) < sent
  /\ got' = [got EXCEPT ![r] = Append(@, Len(@) + 1)]
  /\ UNCHANGED sent

Next == Enqueue \/ \E r \in Readers : Dequeue(r)

Spec == Init /\ [][Next]_<<sent, got>>
=============================================================================
