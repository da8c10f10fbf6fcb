----------------------------- MODULE BlockQueue -----------------------------
(***************************************************************************)
(* What FreeKVCacheBlockQueue promises (kv_cache_utils.py): a queue of     *)
(* distinct blocks with removal from the middle.  popleft_n(n) is n times  *)
(* popleft, and append_n is append for each block of the list.             *)
(***************************************************************************)
EXTENDS Integers, Sequences, SequencesExt

CONSTANT Block

VARIABLES
    queue,   \* the blocks in the queue, head first
    taken    \* the blocks returned by the call in progress or the last one

Init ==
    /\ queue \in Seq(Block)
    /\ IsInjective(queue)
    /\ taken = <<>>

\* A call of popleft_n starts a new list of returned blocks.
NewCall == taken' = <<>> /\ UNCHANGED queue

\* The head is returned, alone or behind the earlier ones of the same call.
PopLeft ==
    /\ queue # <<>>
    /\ \E sofar \in {<<>>, taken} : taken' = Append(sofar, Head(queue))
    /\ queue' = Tail(queue)

\* A block is taken out wherever it is.
Remove1(b) ==
    /\ b \in ToSet(queue)
    /\ \E i \in DOMAIN queue : queue[i] = b /\ queue' = RemoveAt(queue, i)
    /\ UNCHANGED taken

Append1(b) ==
    /\ b \notin ToSet(queue)
    /\ queue' = Append(queue, b)
    /\ UNCHANGED taken

Next ==
    \/ NewCall
    \/ PopLeft
    \/ \E b \in Block : Remove1(b)
    \/ \E b \in Block : Append1(b)

Spec == Init /\ [][Next]_<<queue, taken>>
=============================================================================
