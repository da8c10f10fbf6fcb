--------------------------- MODULE FreeBlockQueue ---------------------------
(***************************************************************************)
(* FreeKVCacheBlockQueue (kv_cache_utils.py): a doubly linked list whose   *)
(* links are fields of the blocks, between a fake head and a fake tail.    *)
(* The loops of popleft_n and append_n leave the list disconnected until   *)
(* they end; every iteration is a step here.                               *)
(*                                                                         *)
(* order is a history variable: the list as a sequence.  Nothing reads it  *)
(* but the properties and the refinement mapping to BlockQueue.            *)
(*                                                                         *)
(* An operator X_Fault is X with a plausible bug; only the mutation checks *)
(* use it.                                                                 *)
(***************************************************************************)
EXTENDS Integers, Sequences, FiniteSets, SequencesExt

CONSTANT NumBlocks   \* number of blocks

ASSUME FreeBlockQueueAssumption == NumBlocks \in Nat

Block == 1 .. NumBlocks
FakeHead == 0
FakeTail == NumBlocks + 1
None == -1
Node == 0 .. NumBlocks + 1

VARIABLES
    next,     \* next_free_block of every block
    prev,     \* prev_free_block of every block
    numFree,  \* num_free_blocks
    call,     \* the loop in progress
    result,   \* the blocks returned by the last popleft or popleft_n
    order     \* history: the blocks of the list, head first

vars == <<next, prev, numFree, call, result, order>>

Idle == [loop |-> "idle"]
PopCall(left, curr) == [loop |-> "pop", left |-> left, curr |-> curr]
AppendCall(blocks, pos, last) ==
    [loop |-> "append", blocks |-> blocks, pos |-> pos, last |-> last]

\* __init__: all blocks are linked in the order of their ids.
Init ==
    /\ next = [n \in Node |-> IF n = FakeTail THEN None ELSE n + 1]
    /\ prev = [n \in Node |-> IF n = FakeHead THEN None ELSE n - 1]
    /\ numFree = NumBlocks
    /\ call = Idle
    /\ result = <<>>
    /\ order = [i \in 1 .. NumBlocks |-> i]

-----------------------------------------------------------------------------
(* A call that would raise or fail an assert has a false guard; NoRaise     *)
(* says which of these cannot happen whatever the caller does.              *)

\* popleft
PopLeft ==
    LET first  == next[FakeHead]
        second == next[first]
    IN  /\ call = Idle
        /\ first # FakeTail
        /\ second # None
        /\ next' = [next EXCEPT ![FakeHead] = second, ![first] = None]
        /\ prev' = [prev EXCEPT ![second] = FakeHead, ![first] = None]
        /\ numFree' = numFree - 1
        /\ result' = <<first>>
        /\ order' = Tail(order)
        /\ UNCHANGED call

\* Fault: nobody checks that there are n blocks.
BeginPopLeftN_Unchecked(n) ==
    /\ call = Idle
    /\ call' = PopCall(n, next[FakeHead])
    /\ numFree' = numFree - n
    /\ result' = <<>>
    /\ UNCHANGED <<next, prev, order>>

\* popleft_n: the count is lowered before the loop.
BeginPopLeftN(n) ==
    /\ call = Idle
    /\ n <= numFree
    /\ call' = PopCall(n, next[FakeHead])
    /\ numFree' = numFree - n
    /\ result' = <<>>
    /\ UNCHANGED <<next, prev, order>>

\* An iteration of popleft_n: the links of the popped block are cleared, and
\* the fake head still points to it.
PopIteration ==
    /\ call.loop = "pop"
    /\ call.left > 0
    /\ LET b == call.curr
       IN  /\ b # None
           /\ result' = Append(result, b)
           /\ call' = PopCall(call.left - 1, next[b])
           /\ next' = [next EXCEPT ![b] = None]
           /\ prev' = [prev EXCEPT ![b] = None]
    /\ order' = Tail(order)
    /\ UNCHANGED numFree

\* Fault: the fake head is left pointing at a popped block.
EndPop_HeadNotMoved ==
    /\ call.loop = "pop"
    /\ call.left = 0
    /\ call.curr # None
    /\ prev' = [prev EXCEPT ![call.curr] = FakeHead]
    /\ call' = Idle
    /\ UNCHANGED <<next, numFree, result, order>>

\* The fake head is connected to the new first block.
EndPop ==
    /\ call.loop = "pop"
    /\ call.left = 0
    /\ call.curr # None
    /\ next' = [next EXCEPT ![FakeHead] = call.curr]
    /\ prev' = [prev EXCEPT ![call.curr] = FakeHead]
    /\ call' = Idle
    /\ UNCHANGED <<numFree, result, order>>

-----------------------------------------------------------------------------
RemoveBlock(queue, b) == RemoveAt(queue, CHOOSE i \in DOMAIN queue : queue[i] = b)

\* Fault: the block forgets its successor only.
RemoveNode_KeepsPrev(b) ==
    /\ call = Idle
    /\ prev[b] # None
    /\ next[b] # None
    /\ next' = [next EXCEPT ![prev[b]] = next[b], ![b] = None]
    /\ prev' = [prev EXCEPT ![next[b]] = prev[b]]
    /\ numFree' = numFree - 1
    /\ order' = RemoveBlock(order, b)
    /\ UNCHANGED <<call, result>>

\* remove: links the neighbours of a block to each other.
RemoveNode(b) ==
    /\ call = Idle
    /\ prev[b] # None
    /\ next[b] # None
    /\ next' = [next EXCEPT ![prev[b]] = next[b], ![b] = None]
    /\ prev' = [prev EXCEPT ![next[b]] = prev[b], ![b] = None]
    /\ numFree' = numFree - 1
    /\ order' = RemoveBlock(order, b)
    /\ UNCHANGED <<call, result>>

-----------------------------------------------------------------------------
\* What the callers of append and append_n pass: a block that was popped or
\* removed before.
Detached(b) == next[b] = None /\ prev[b] = None

\* append
AppendNode(b) ==
    LET last == prev[FakeTail]
    IN  /\ call = Idle
        /\ Detached(b)
        /\ last # None
        /\ next' = [next EXCEPT ![last] = b, ![b] = FakeTail]
        /\ prev' = [prev EXCEPT ![b] = last, ![FakeTail] = b]
        /\ numFree' = numFree + 1
        /\ order' = Append(order, b)
        /\ UNCHANGED <<call, result>>

\* append_n
BeginAppendN(blocks) ==
    /\ call = Idle
    /\ \A i \in DOMAIN blocks : Detached(blocks[i])
    /\ prev[FakeTail] # None
    /\ call' = AppendCall(blocks, 0, prev[FakeTail])
    /\ UNCHANGED <<next, prev, numFree, result, order>>

\* An iteration of append_n: the block is linked to the last one, and not yet
\* to the fake tail.
AppendIteration ==
    /\ call.loop = "append"
    /\ call.pos < Len(call.blocks)
    /\ LET b == call.blocks[call.pos + 1]
       IN  /\ prev' = [prev EXCEPT ![b] = call.last]
           /\ next' = [next EXCEPT ![call.last] = b]
           /\ call' = AppendCall(call.blocks, call.pos + 1, b)
           /\ order' = Append(order, b)
    /\ UNCHANGED <<numFree, result>>

EndAppend ==
    /\ call.loop = "append"
    /\ call.pos = Len(call.blocks)
    /\ next' = [next EXCEPT ![call.last] = FakeTail]
    /\ prev' = [prev EXCEPT ![FakeTail] = call.last]
    /\ numFree' = numFree + Len(call.blocks)
    /\ call' = Idle
    /\ UNCHANGED <<result, order>>

-----------------------------------------------------------------------------
Distinct(s) == \A i, j \in 1 .. Len(s) : s[i] = s[j] => i = j

\* The lists of blocks that append_n is called with.
BlockLists == {s \in UNION {[1 .. n -> Block] : n \in 1 .. NumBlocks} : Distinct(s)}

Next ==
    \/ PopLeft
    \/ \E n \in 1 .. NumBlocks : BeginPopLeftN(n)
    \/ PopIteration
    \/ EndPop
    \/ \E b \in Block : RemoveNode(b)
    \/ \E b \in Block : AppendNode(b)
    \/ \E blocks \in BlockLists : BeginAppendN(blocks)
    \/ AppendIteration
    \/ EndAppend

Spec == Init /\ [][Next]_vars

-----------------------------------------------------------------------------
(* Properties                                                               *)

\* The variables hold values of their types.
TypeOK ==
    /\ next \in [Node -> Node \cup {None}]
    /\ prev \in [Node -> Node \cup {None}]
    /\ numFree \in Nat
    /\ result \in Seq(Block)
    /\ order \in Seq(Block)
    /\ \/ call = Idle
       \/ call \in [loop : {"pop"}, left : Nat, curr : Node]
       \/ /\ call \in [loop : {"append"}, blocks : Seq(Block), pos : Nat, last : Node]
          /\ call.pos <= Len(call.blocks)

\* The i-th node of a list of blocks, the fake ones included.
Nth(list, i) ==
    IF i = 0 THEN FakeHead ELSE IF i = Len(list) + 1 THEN FakeTail ELSE list[i]

\* The links nx and pv spell out the list in both directions, from its lo-th
\* node to the one behind the hi-th.
Spells(list, nx, pv, lo, hi) ==
    \A i \in lo .. hi : nx[Nth(list, i)] = Nth(list, i + 1) /\ pv[Nth(list, i + 1)] = Nth(list, i)

\* The links, followed in either direction, spell out the list.  While
\* popleft_n runs the fake head is not connected, while append_n runs the
\* fake tail is not; everything else is.
LinksSpellOrder ==
    Spells(order, next, prev, IF call.loop = "pop" THEN 1 ELSE 0,
                              IF call.loop = "append" THEN Len(order) - 1 ELSE Len(order))

\* No block is in the list twice, and a block outside it has no links left,
\* so that a second remove of the same block raises.
OutsideIsUnlinked ==
    /\ Distinct(order)
    /\ \A b \in Block : b \notin ToSet(order) => next[b] = None /\ prev[b] = None

\* num_free_blocks is the length of the list, up to the loop in progress.
CountInSync ==
    /\ call.loop = "idle" => numFree = Len(order)
    /\ call.loop = "pop" => numFree + call.left = Len(order)
    /\ call.loop = "append" => numFree + call.pos = Len(order)

\* Where the loops are: popleft_n at the first block of the list, append_n
\* behind the last, with blocks to come that are not in the list.
LoopPosition ==
    /\ call.loop = "pop" => call.curr = Nth(order, 1)
    /\ call.loop = "append" =>
          /\ call.last = Nth(order, Len(order))
          /\ Distinct(call.blocks)
          /\ \A i \in call.pos + 1 .. Len(call.blocks) : call.blocks[i] \notin ToSet(order)

\* The checks inside the class never fire: the count is not out of sync with
\* an empty list, the first and the last block exist and have their links,
\* and popleft_n does not run off the list.
NoRaise ==
    /\ call.loop = "idle" =>
          /\ next[FakeHead] = FakeTail => numFree = 0
          /\ next[FakeHead] # FakeTail => next[FakeHead] # None /\ next[next[FakeHead]] # None
          /\ prev[FakeTail] # None
    /\ call.loop = "pop" => call.curr # None /\ (call.left > 0 => call.curr # FakeTail)

\* The conjunction that every step preserves.
Inv == TypeOK /\ LinksSpellOrder /\ OutsideIsUnlinked /\ CountInSync /\ LoopPosition

\* The linked list implements the queue: the blocks it returns, found by
\* following links, are those at the head of the abstract queue.
Queue == INSTANCE BlockQueue WITH queue <- order, taken <- result
ImplementsQueue == Queue!Spec

=============================================================================
