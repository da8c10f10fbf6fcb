------------------------ MODULE FreeBlockQueueProofs ------------------------
(***************************************************************************)
(* Proofs about FreeBlockQueue: the links of the blocks spell out the list *)
(* at every iteration of every call, so that no check of the class fires   *)
(* and the linked list implements the queue of BlockQueue.                 *)
(*                                                                         *)
(* The first part is about lists and links alone: what clearing the first  *)
(* block, connecting an end, linking in a block at the end and linking out *)
(* a block do to them.  The actions put these together.                    *)
(***************************************************************************)
EXTENDS FreeBlockQueue, SequenceTheorems, TLAPS

Links == [Node -> Node \cup {None}]

-----------------------------------------------------------------------------
(* Lists and links                                                          *)

\* The nodes of a list are distinct, and all but the fake ones are blocks.
LEMMA NthSpec ==
    ASSUME NEW s \in Seq(Block), Distinct(s)
    PROVE  /\ \A i \in 0 .. Len(s) + 1 : Nth(s, i) \in Node
           /\ \A i \in 1 .. Len(s) : Nth(s, i) \in Block /\ Nth(s, i) = s[i]
           /\ Nth(s, 0) = FakeHead /\ Nth(s, Len(s) + 1) = FakeTail
           /\ \A i, j \in 0 .. Len(s) + 1 : Nth(s, i) = Nth(s, j) => i = j
<1>1. /\ FakeHead = 0 /\ FakeTail = NumBlocks + 1 /\ Block = 1 .. NumBlocks
      /\ Node = 0 .. NumBlocks + 1 /\ NumBlocks \in Nat /\ Len(s) \in Nat
  BY FreeBlockQueueAssumption DEF FakeHead, FakeTail, Block, Node
<1>2. \A i \in 1 .. Len(s) : Nth(s, i) = s[i] /\ s[i] \in 1 .. NumBlocks
  BY <1>1 DEF Nth
<1>3. Nth(s, 0) = 0 /\ Nth(s, Len(s) + 1) = NumBlocks + 1
  BY <1>1 DEF Nth
<1>4. \A i \in 0 .. Len(s) + 1 : i = 0 \/ i = Len(s) + 1 \/ i \in 1 .. Len(s)
  BY <1>1
<1>5. \A i, j \in 1 .. Len(s) : s[i] = s[j] => i = j
  BY DEF Distinct
<1>6. ASSUME NEW i \in 0 .. Len(s) + 1, NEW j \in 0 .. Len(s) + 1, Nth(s, i) = Nth(s, j)
      PROVE  i = j
  BY <1>1, <1>2, <1>3, <1>4, <1>5, <1>6
<1> QED BY <1>1, <1>2, <1>3, <1>4, <1>6

\* The nodes of the rest of a list.
LEMMA TailSpec ==
    ASSUME NEW s \in Seq(Block), s # <<>>, Distinct(s)
    PROVE  /\ Tail(s) \in Seq(Block) /\ Len(Tail(s)) = Len(s) - 1 /\ Len(s) \in Nat \ {0}
           /\ Head(s) = s[1] /\ s[1] \in Block
           /\ Distinct(Tail(s))
           /\ \A i \in 1 .. Len(s) : Nth(Tail(s), i) = Nth(s, i + 1)
           /\ ToSet(Tail(s)) = ToSet(s) \ {s[1]}
<1>1. PICK t : t = Tail(s)
  OBVIOUS
<1>2. /\ t \in Seq(Block) /\ Len(t) = Len(s) - 1 /\ Len(s) \in Nat \ {0}
      /\ Head(s) = s[1] /\ s[1] \in Block
      /\ \A i \in 1 .. Len(t) : t[i] = s[i + 1]
  BY <1>1, HeadTailProperties
<1>3. Distinct(t)
  BY <1>2 DEF Distinct
<1>4. \A i \in 1 .. Len(s) : Nth(t, i) = Nth(s, i + 1)
  BY <1>2 DEF Nth
<1>5. DOMAIN t = 1 .. Len(t) /\ DOMAIN s = 1 .. Len(s)
  BY <1>2
<1>6. ToSet(t) \subseteq ToSet(s) \ {s[1]}
  BY <1>2, <1>5 DEF ToSet, Distinct
<1>7. ASSUME NEW x \in ToSet(s) \ {s[1]} PROVE x \in ToSet(t)
  <2>1. PICK i \in 1 .. Len(s) : s[i] = x /\ i # 1
    BY <1>5 DEF ToSet
  <2>2. i - 1 \in 1 .. Len(t) /\ t[i - 1] = x
    BY <1>2, <2>1
  <2> QED BY <1>5, <2>2 DEF ToSet
<1> QED BY <1>1, <1>2, <1>3, <1>4, <1>6, <1>7

\* The nodes of a list with one block more.
LEMMA AppendNodes ==
    ASSUME NEW s \in Seq(Block), NEW b \in Block, b \notin ToSet(s), Distinct(s)
    PROVE  /\ Append(s, b) \in Seq(Block) /\ Len(Append(s, b)) = Len(s) + 1
           /\ Distinct(Append(s, b))
           /\ \A i \in 0 .. Len(s) : Nth(Append(s, b), i) = Nth(s, i)
           /\ Nth(Append(s, b), Len(s) + 1) = b
           /\ ToSet(Append(s, b)) = ToSet(s) \cup {b}
<1>1. PICK t : t = Append(s, b)
  OBVIOUS
<1>2. /\ t \in Seq(Block) /\ Len(t) = Len(s) + 1 /\ t[Len(s) + 1] = b
      /\ \A i \in 1 .. Len(s) : t[i] = s[i]
  BY <1>1
<1>3. DOMAIN t = 1 .. Len(s) + 1 /\ DOMAIN s = 1 .. Len(s) /\ Len(s) \in Nat
  BY <1>2
<1>4. \A i \in 1 .. Len(s) : s[i] # b
  BY <1>3 DEF ToSet
<1>5. Distinct(t)
  BY <1>2, <1>3, <1>4 DEF Distinct
<1>6. /\ \A i \in 0 .. Len(s) : Nth(t, i) = Nth(s, i)
      /\ Nth(t, Len(s) + 1) = b
  BY <1>2, <1>3 DEF Nth
<1>7. ToSet(t) \subseteq ToSet(s) \cup {b} /\ ToSet(s) \cup {b} \subseteq ToSet(t)
  BY <1>2, <1>3 DEF ToSet
<1> QED BY <1>1, <1>2, <1>5, <1>6, <1>7

\* The nodes of a list without its k-th block.
LEMMA RemoveSpec ==
    ASSUME NEW s \in Seq(Block), NEW k \in 1 .. Len(s), Distinct(s)
    PROVE  /\ RemoveBlock(s, s[k]) = RemoveAt(s, k)
           /\ RemoveBlock(s, s[k]) \in Seq(Block)
           /\ Len(RemoveBlock(s, s[k])) = Len(s) - 1
           /\ Distinct(RemoveBlock(s, s[k]))
           /\ \A i \in 0 .. Len(s) : Nth(RemoveBlock(s, s[k]), i) =
                                        IF i < k THEN Nth(s, i) ELSE Nth(s, i + 1)
           /\ ToSet(RemoveBlock(s, s[k])) = ToSet(s) \ {s[k]}
<1> DEFINE before == SubSeq(s, 1, k - 1)
           after  == SubSeq(s, k + 1, Len(s))
<1>0. DOMAIN s = 1 .. Len(s) /\ Len(s) \in Nat
  OBVIOUS
<1>1. PICK t : t = RemoveBlock(s, s[k])
  OBVIOUS
<1>2. (CHOOSE i \in DOMAIN s : s[i] = s[k]) = k
  BY <1>0 DEF Distinct
<1>3. t = RemoveAt(s, k) /\ t = before \o after
  BY <1>1, <1>2 DEF RemoveBlock, RemoveAt
<1>a. /\ before \in Seq(Block) /\ Len(before) = k - 1
      /\ \A i \in 1 .. k - 1 : before[i] = s[i]
  <2>1. \A i \in 1 .. k - 1 : s[i] \in Block
    BY <1>0
  <2> QED BY <1>0, <2>1, SubSeqProperties
<1>b. /\ after \in Seq(Block) /\ Len(after) = Len(s) - k
      /\ \A i \in 1 .. Len(s) - k : after[i] = s[k + i]
  <2>1. \A i \in k + 1 .. Len(s) : s[i] \in Block
    BY <1>0
  <2>2. k + 1 \in Int /\ Len(s) \in Int
    BY <1>0
  <2>3. /\ after \in Seq(Block)
        /\ Len(after) = IF k + 1 <= Len(s) THEN Len(s) - (k + 1) + 1 ELSE 0
        /\ \A i \in 1 .. Len(s) - (k + 1) + 1 : after[i] = s[k + 1 + i - 1]
    BY <2>1, <2>2, SubSeqProperties
  <2> HIDE DEF after
  <2>4. Len(after) = Len(s) - k
    BY <1>0, <2>3
  <2>5. ASSUME NEW i \in 1 .. Len(s) - k PROVE after[i] = s[k + i]
    <3>1. i \in 1 .. Len(s) - (k + 1) + 1 /\ k + 1 + i - 1 = k + i
      BY <1>0
    <3> QED BY <2>3, <3>1
  <2> QED BY <2>3, <2>4, <2>5
<1> HIDE DEF before, after
<1>c. /\ t \in Seq(Block) /\ Len(t) = Len(before) + Len(after)
      /\ \A i \in 1 .. Len(before) + Len(after) :
            t[i] = IF i <= Len(before) THEN before[i] ELSE after[i - Len(before)]
  <2>1. before \in Seq(Block) /\ after \in Seq(Block)
    BY <1>a, <1>b
  <2>2. /\ before \o after \in Seq(Block)
        /\ Len(before \o after) = Len(before) + Len(after)
        /\ \A i \in 1 .. Len(before) + Len(after) :
              (before \o after)[i] = IF i <= Len(before) THEN before[i]
                                     ELSE after[i - Len(before)]
    BY <2>1, ConcatProperties, Zenon
  <2> QED BY <1>3, <2>2
<1>4. t \in Seq(Block) /\ Len(t) = Len(s) - 1
  BY <1>0, <1>a, <1>b, <1>c
<1>5. ASSUME NEW i \in 1 .. Len(s) - 1
      PROVE  t[i] = IF i < k THEN s[i] ELSE s[i + 1]
  <2>1. i \in 1 .. Len(before) + Len(after)
    BY <1>0, <1>a, <1>b
  <2>2. CASE i < k
    BY <2>1, <2>2, <1>0, <1>a, <1>c
  <2>3. CASE ~(i < k)
    <3>1. t[i] = after[i - (k - 1)] /\ i - (k - 1) \in 1 .. Len(s) - k
      BY <2>1, <2>3, <1>0, <1>a, <1>c
    <3>2. after[i - (k - 1)] = s[k + (i - (k - 1))] /\ k + (i - (k - 1)) = i + 1
      BY <3>1, <1>b
    <3> QED BY <2>3, <3>1, <3>2
  <2> QED BY <2>2, <2>3
<1>g. Len(s) \in Nat /\ k \in Nat
  BY <1>0
<1>6. \A i \in 0 .. Len(s) : Nth(t, i) = IF i < k THEN Nth(s, i) ELSE Nth(s, i + 1)
  <2> TAKE i \in 0 .. Len(s)
  <2>1. CASE i = 0
    BY <2>1, <1>0 DEF Nth
  <2>2. CASE i = Len(s)
    BY <2>2, <1>0, <1>4 DEF Nth
  <2>3. CASE i \in 1 .. Len(s) - 1
    <3>1. i # 0 /\ i # Len(s) + 1 /\ i + 1 # 0 /\ i + 1 # Len(s) + 1 /\ i # Len(t) + 1
      BY <2>3, <1>g, <1>4
    <3>2. Nth(t, i) = t[i] /\ Nth(s, i) = s[i] /\ Nth(s, i + 1) = s[i + 1]
      BY <3>1 DEF Nth
    <3> QED BY <2>3, <3>2, <1>5
  <2>4. i = 0 \/ i = Len(s) \/ i \in 1 .. Len(s) - 1
    BY <1>g
  <2> QED BY <2>1, <2>2, <2>3, <2>4
<1> DEFINE at(i) == IF i < k THEN i ELSE i + 1
<1>d. \A i \in 1 .. Len(t) : at(i) \in 1 .. Len(s) /\ at(i) # k /\ t[i] = s[at(i)]
  BY <1>0, <1>4, <1>5
<1>e. \A i, j \in 1 .. Len(t) : at(i) = at(j) => i = j
  BY <1>0, <1>4
<1> HIDE DEF at
<1>7. Distinct(t)
  BY <1>d, <1>e DEF Distinct
<1>f. DOMAIN t = 1 .. Len(t)
  BY <1>4
<1>8. ToSet(t) \subseteq ToSet(s) \ {s[k]}
  BY <1>0, <1>d, <1>f DEF ToSet, Distinct
<1>9. ASSUME NEW x \in ToSet(s) \ {s[k]} PROVE x \in ToSet(t)
  <2>1. PICK i \in 1 .. Len(s) : s[i] = x /\ i # k
    BY <1>0 DEF ToSet
  <2>2. CASE i < k
    BY <2>1, <2>2, <1>0, <1>4, <1>5, <1>f DEF ToSet
  <2>3. CASE i > k
    <3>1. i - 1 \in 1 .. Len(t) /\ t[i - 1] = x
      BY <2>1, <2>3, <1>0, <1>4, <1>5
    <3> QED BY <3>1, <1>f DEF ToSet
  <2> QED BY <2>1, <2>2, <2>3, <1>0
<1> QED BY <1>1, <1>3, <1>4, <1>6, <1>7, <1>8, <1>9

\* Clearing the links of the first block leaves those behind it in place.
LEMMA ClearFirst ==
    ASSUME NEW s \in Seq(Block), s # <<>>, Distinct(s), NEW nx \in Links, NEW pv \in Links,
           Spells(s, nx, pv, 1, Len(s))
    PROVE  Spells(Tail(s), [nx EXCEPT ![s[1]] = None], [pv EXCEPT ![s[1]] = None],
                  1, Len(Tail(s)))
<1>1. PICK t, nx1, pv1 : /\ t = Tail(s) /\ nx1 = [nx EXCEPT ![s[1]] = None]
                         /\ pv1 = [pv EXCEPT ![s[1]] = None]
  OBVIOUS
<1>2. /\ Len(t) = Len(s) - 1 /\ Len(s) \in Nat \ {0}
      /\ \A i \in 1 .. Len(s) : Nth(t, i) = Nth(s, i + 1)
  BY <1>1, TailSpec
<1>3. SUFFICES ASSUME NEW i \in 1 .. Len(t)
               PROVE  nx1[Nth(t, i)] = Nth(t, i + 1) /\ pv1[Nth(t, i + 1)] = Nth(t, i)
  BY <1>1 DEF Spells
<1>4. /\ i \in 1 .. Len(s) /\ i + 1 \in 1 .. Len(s) /\ (i + 1) + 1 \in 0 .. Len(s) + 1
      /\ 1 \in 0 .. Len(s) + 1 /\ i + 1 \in 0 .. Len(s) + 1
      /\ i + 1 # 1 /\ (i + 1) + 1 # 1 /\ 1 \in 1 .. Len(s)
  BY <1>2
<1>5. Nth(t, i) = Nth(s, i + 1) /\ Nth(t, i + 1) = Nth(s, (i + 1) + 1)
  BY <1>2, <1>4
<1>6. /\ nx[Nth(s, i + 1)] = Nth(s, (i + 1) + 1) /\ pv[Nth(s, (i + 1) + 1)] = Nth(s, i + 1)
  BY <1>4 DEF Spells
<1>7. /\ Nth(s, 1) = s[1] /\ Nth(s, i + 1) # s[1] /\ Nth(s, (i + 1) + 1) # s[1]
      /\ Nth(s, i + 1) \in Node /\ Nth(s, (i + 1) + 1) \in Node
  BY <1>4, NthSpec
<1> QED BY <1>1, <1>5, <1>6, <1>7 DEF Links

\* Connecting the fake head to the first node completes the list.
LEMMA ConnectHead ==
    ASSUME NEW s \in Seq(Block), Distinct(s), NEW nx \in Links, NEW pv \in Links,
           Spells(s, nx, pv, 1, Len(s))
    PROVE  Spells(s, [nx EXCEPT ![FakeHead] = Nth(s, 1)], [pv EXCEPT ![Nth(s, 1)] = FakeHead],
                  0, Len(s))
<1>1. PICK nx1, pv1 : /\ nx1 = [nx EXCEPT ![FakeHead] = Nth(s, 1)]
                      /\ pv1 = [pv EXCEPT ![Nth(s, 1)] = FakeHead]
  OBVIOUS
<1>2. SUFFICES ASSUME NEW i \in 0 .. Len(s)
               PROVE  nx1[Nth(s, i)] = Nth(s, i + 1) /\ pv1[Nth(s, i + 1)] = Nth(s, i)
  BY <1>1 DEF Spells
<1>3. /\ Len(s) \in Nat /\ i \in 0 .. Len(s) + 1 /\ i + 1 \in 0 .. Len(s) + 1
      /\ 0 \in 0 .. Len(s) + 1 /\ 1 \in 0 .. Len(s) + 1
  OBVIOUS
<1>4. /\ Nth(s, i) \in Node /\ Nth(s, i + 1) \in Node /\ Nth(s, 1) \in Node
      /\ Nth(s, 0) = FakeHead /\ Nth(s, 0) \in Node
  BY <1>3, NthSpec
<1>5. CASE i = 0
  BY <1>1, <1>4, <1>5 DEF Links
<1>6. CASE i # 0
  <2>1. Nth(s, i) # FakeHead /\ Nth(s, i + 1) # Nth(s, 1)
    <3>1. i # 0 /\ i + 1 # 1
      BY <1>3, <1>6
    <3> QED BY <1>3, <1>4, <3>1, NthSpec
  <2>2. nx[Nth(s, i)] = Nth(s, i + 1) /\ pv[Nth(s, i + 1)] = Nth(s, i)
    <3>1. i \in 1 .. Len(s)
      BY <1>3, <1>6
    <3> QED BY <3>1 DEF Spells
  <2> QED BY <1>1, <1>4, <2>1, <2>2 DEF Links
<1> QED BY <1>5, <1>6

\* Linking a block to the last node makes it the last node.
LEMMA LinkLast ==
    ASSUME NEW s \in Seq(Block), NEW b \in Block, b \notin ToSet(s), Distinct(s),
           NEW nx \in Links, NEW pv \in Links, Spells(s, nx, pv, 0, Len(s) - 1)
    PROVE  Spells(Append(s, b), [nx EXCEPT ![Nth(s, Len(s))] = b],
                  [pv EXCEPT ![b] = Nth(s, Len(s))], 0, Len(Append(s, b)) - 1)
<1>1. PICK t, nx1, pv1 : /\ t = Append(s, b) /\ nx1 = [nx EXCEPT ![Nth(s, Len(s))] = b]
                         /\ pv1 = [pv EXCEPT ![b] = Nth(s, Len(s))]
  OBVIOUS
<1>2. /\ Len(t) = Len(s) + 1 /\ Nth(t, Len(s) + 1) = b /\ t \in Seq(Block) /\ Distinct(t)
      /\ \A i \in 0 .. Len(s) : Nth(t, i) = Nth(s, i)
  BY <1>1, AppendNodes
<1>3. SUFFICES ASSUME NEW i \in 0 .. Len(s)
               PROVE  nx1[Nth(t, i)] = Nth(t, i + 1) /\ pv1[Nth(t, i + 1)] = Nth(t, i)
  <2>1. Len(s) \in Nat /\ Len(t) - 1 = Len(s)
    BY <1>2
  <2> QED BY <1>1, <2>1 DEF Spells
<1>4. /\ Len(s) \in Nat /\ Len(s) \in 0 .. Len(s) /\ Len(s) \in 0 .. Len(t) + 1
      /\ i \in 0 .. Len(t) + 1 /\ i + 1 \in 0 .. Len(t) + 1 /\ Len(s) + 1 \in 0 .. Len(t) + 1
  BY <1>2
<1>5. Nth(t, i) = Nth(s, i) /\ Nth(t, Len(s)) = Nth(s, Len(s))
  BY <1>2, <1>4
<1>6. /\ Nth(t, i) \in Node /\ Nth(t, i + 1) \in Node /\ b \in Node /\ Nth(t, Len(s)) \in Node
  BY <1>2, <1>4, NthSpec
<1>7. CASE i = Len(s)
  BY <1>1, <1>2, <1>5, <1>6, <1>7 DEF Links
<1>8. CASE i # Len(s)
  <2>1. i \in 0 .. Len(s) - 1 /\ i + 1 \in 0 .. Len(s) /\ i + 1 # Len(s) + 1
    BY <1>4, <1>8
  <2>2. Nth(t, i) # Nth(t, Len(s)) /\ Nth(t, i + 1) # Nth(t, Len(s) + 1)
    BY <1>2, <1>4, <1>8, <2>1, NthSpec
  <2>3. nx[Nth(s, i)] = Nth(s, i + 1) /\ pv[Nth(s, i + 1)] = Nth(s, i)
    BY <2>1 DEF Spells
  <2>4. Nth(t, i + 1) = Nth(s, i + 1)
    BY <1>2, <2>1
  <2> QED BY <1>1, <1>2, <1>5, <1>6, <2>2, <2>3, <2>4 DEF Links
<1> QED BY <1>7, <1>8

\* Connecting the last node to the fake tail completes the list.
LEMMA ConnectTail ==
    ASSUME NEW s \in Seq(Block), Distinct(s), NEW nx \in Links, NEW pv \in Links,
           Spells(s, nx, pv, 0, Len(s) - 1)
    PROVE  Spells(s, [nx EXCEPT ![Nth(s, Len(s))] = FakeTail],
                  [pv EXCEPT ![FakeTail] = Nth(s, Len(s))], 0, Len(s))
<1>1. PICK nx1, pv1 : /\ nx1 = [nx EXCEPT ![Nth(s, Len(s))] = FakeTail]
                      /\ pv1 = [pv EXCEPT ![FakeTail] = Nth(s, Len(s))]
  OBVIOUS
<1>2. SUFFICES ASSUME NEW i \in 0 .. Len(s)
               PROVE  nx1[Nth(s, i)] = Nth(s, i + 1) /\ pv1[Nth(s, i + 1)] = Nth(s, i)
  BY <1>1 DEF Spells
<1>3. /\ Len(s) \in Nat /\ i \in 0 .. Len(s) + 1 /\ i + 1 \in 0 .. Len(s) + 1
      /\ Len(s) \in 0 .. Len(s) + 1 /\ Len(s) + 1 \in 0 .. Len(s) + 1
  OBVIOUS
<1>4. /\ Nth(s, i) \in Node /\ Nth(s, i + 1) \in Node /\ Nth(s, Len(s)) \in Node
      /\ Nth(s, Len(s) + 1) = FakeTail /\ FakeTail \in Node
  BY <1>3, NthSpec
<1>5. CASE i = Len(s)
  BY <1>1, <1>4, <1>5 DEF Links
<1>6. CASE i # Len(s)
  <2>1. i \in 0 .. Len(s) - 1 /\ i + 1 # Len(s) + 1
    BY <1>3, <1>6
  <2>2. Nth(s, i) # Nth(s, Len(s)) /\ Nth(s, i + 1) # FakeTail
    BY <1>3, <1>4, <1>6, <2>1, NthSpec
  <2>3. nx[Nth(s, i)] = Nth(s, i + 1) /\ pv[Nth(s, i + 1)] = Nth(s, i)
    BY <2>1 DEF Spells
  <2> QED BY <1>1, <1>4, <2>2, <2>3 DEF Links
<1> QED BY <1>5, <1>6

\* Linking the neighbours of a block to each other takes it out of the list.
LEMMA LinkOut ==
    ASSUME NEW s \in Seq(Block), NEW k \in 1 .. Len(s), Distinct(s),
           NEW nx \in Links, NEW pv \in Links, Spells(s, nx, pv, 0, Len(s))
    PROVE  Spells(RemoveBlock(s, s[k]),
                  [nx EXCEPT ![Nth(s, k - 1)] = Nth(s, k + 1), ![s[k]] = None],
                  [pv EXCEPT ![Nth(s, k + 1)] = Nth(s, k - 1), ![s[k]] = None],
                  0, Len(s) - 1)
<1>1. PICK t, nx1, pv1 :
         /\ t = RemoveBlock(s, s[k])
         /\ nx1 = [nx EXCEPT ![Nth(s, k - 1)] = Nth(s, k + 1), ![s[k]] = None]
         /\ pv1 = [pv EXCEPT ![Nth(s, k + 1)] = Nth(s, k - 1), ![s[k]] = None]
  OBVIOUS
<1>2. \A i \in 0 .. Len(s) : Nth(t, i) = IF i < k THEN Nth(s, i) ELSE Nth(s, i + 1)
  BY <1>1, RemoveSpec
<1>3. SUFFICES ASSUME NEW i \in 0 .. Len(s) - 1
               PROVE  nx1[Nth(t, i)] = Nth(t, i + 1) /\ pv1[Nth(t, i + 1)] = Nth(t, i)
  BY <1>1 DEF Spells
<1>4. /\ Len(s) \in Nat /\ k - 1 \in 0 .. Len(s) + 1 /\ k + 1 \in 0 .. Len(s) + 1
      /\ k \in 0 .. Len(s) + 1 /\ i \in 0 .. Len(s) /\ i + 1 \in 0 .. Len(s)
      /\ i \in 0 .. Len(s) + 1 /\ i + 1 \in 0 .. Len(s) + 1 /\ (i + 1) + 1 \in 0 .. Len(s) + 1
  OBVIOUS
<1>5. /\ Nth(s, k) = s[k] /\ Nth(s, k) \in Node /\ Nth(s, k - 1) \in Node /\ Nth(s, k + 1) \in Node
      /\ Nth(s, i) \in Node /\ Nth(s, i + 1) \in Node /\ Nth(s, (i + 1) + 1) \in Node
  BY <1>4, NthSpec
<1>6. /\ \A a \in Node : nx1[a] = IF a = Nth(s, k) THEN None
                                  ELSE IF a = Nth(s, k - 1) THEN Nth(s, k + 1) ELSE nx[a]
      /\ \A a \in Node : pv1[a] = IF a = Nth(s, k) THEN None
                                  ELSE IF a = Nth(s, k + 1) THEN Nth(s, k - 1) ELSE pv[a]
  BY <1>1, <1>5 DEF Links
<1>7. CASE i + 1 < k
  <2>1. Nth(t, i) = Nth(s, i) /\ Nth(t, i + 1) = Nth(s, i + 1)
    BY <1>2, <1>4, <1>7
  <2>2. i # k /\ i # k - 1 /\ i + 1 # k /\ i + 1 # k + 1
    BY <1>4, <1>7
  <2>3. /\ Nth(s, i) # Nth(s, k) /\ Nth(s, i) # Nth(s, k - 1)
        /\ Nth(s, i + 1) # Nth(s, k) /\ Nth(s, i + 1) # Nth(s, k + 1)
    BY <1>4, <2>2, NthSpec
  <2>4. nx[Nth(s, i)] = Nth(s, i + 1) /\ pv[Nth(s, i + 1)] = Nth(s, i)
    BY <1>4 DEF Spells
  <2> QED BY <1>5, <1>6, <2>1, <2>3, <2>4
<1>8. CASE i + 1 = k
  <2>1. i = k - 1 /\ i < k /\ ~(i + 1 < k) /\ (i + 1) + 1 = k + 1 /\ k - 1 # k /\ k + 1 # k
    BY <1>4, <1>8
  <2>2. Nth(t, i) = Nth(s, k - 1) /\ Nth(t, i + 1) = Nth(s, k + 1)
    BY <1>2, <1>4, <1>8, <2>1
  <2>3. Nth(s, k - 1) # Nth(s, k) /\ Nth(s, k + 1) # Nth(s, k)
    BY <1>4, <2>1, NthSpec
  <2> QED BY <1>5, <1>6, <2>2, <2>3
<1>9. CASE i + 1 > k
  <2>1. ~(i < k) /\ ~(i + 1 < k) /\ i + 1 \in 0 .. Len(s)
    BY <1>4, <1>9
  <2>2. Nth(t, i) = Nth(s, i + 1) /\ Nth(t, i + 1) = Nth(s, (i + 1) + 1)
    BY <1>2, <1>4, <2>1
  <2>3. /\ i + 1 # k /\ i + 1 # k - 1 /\ (i + 1) + 1 # k /\ (i + 1) + 1 # k + 1
    BY <1>4, <1>9
  <2>4. /\ Nth(s, i + 1) # Nth(s, k) /\ Nth(s, i + 1) # Nth(s, k - 1)
        /\ Nth(s, (i + 1) + 1) # Nth(s, k) /\ Nth(s, (i + 1) + 1) # Nth(s, k + 1)
    BY <1>4, <2>3, NthSpec
  <2>5. nx[Nth(s, i + 1)] = Nth(s, (i + 1) + 1) /\ pv[Nth(s, (i + 1) + 1)] = Nth(s, i + 1)
    BY <1>4 DEF Spells
  <2> QED BY <1>5, <1>6, <2>2, <2>4, <2>5
<1> QED BY <1>4, <1>7, <1>8, <1>9

-----------------------------------------------------------------------------
(* The actions                                                              *)

\* The fields of the call in progress follow from its loop.
LEMMA CallType ==
    ASSUME TypeOK
    PROVE  /\ call.loop \in {"idle", "pop", "append"}
           /\ call.loop = "idle" <=> call = Idle
           /\ call.loop = "pop" => call.left \in Nat /\ call.curr \in Node
           /\ call.loop = "append" => /\ call.blocks \in Seq(Block) /\ call.last \in Node
                                      /\ call.pos \in Nat /\ call.pos <= Len(call.blocks)
  BY DEF TypeOK, Idle

\* Node numbers.
LEMMA NodeFacts ==
    /\ Block \subseteq Node /\ FakeHead \in Node /\ FakeTail \in Node /\ None \notin Node
    /\ FakeHead \notin Block /\ FakeTail \notin Block /\ FakeHead # FakeTail
  BY FreeBlockQueueAssumption DEF Block, Node, FakeHead, FakeTail, None

\* What the invariant says between two calls.
LEMMA IdleFacts ==
    ASSUME Inv, call = Idle
    PROVE  /\ call.loop = "idle" /\ next \in Links /\ prev \in Links /\ order \in Seq(Block)
           /\ Distinct(order) /\ Spells(order, next, prev, 0, Len(order))
           /\ numFree = Len(order) /\ Len(order) \in Nat
           /\ next[FakeHead] = Nth(order, 1) /\ prev[FakeTail] = Nth(order, Len(order))
           /\ \A b \in Block : b \notin ToSet(order) <=> next[b] = None
           /\ \A b \in Block : b \notin ToSet(order) <=> prev[b] = None
           /\ \A b \in Block : b \notin ToSet(order) => Detached(b)
<1>1. /\ call.loop = "idle" /\ next \in Links /\ prev \in Links /\ order \in Seq(Block)
      /\ numFree = Len(order) /\ Len(order) \in Nat /\ Distinct(order)
  BY DEF Inv, TypeOK, Links, OutsideIsUnlinked, CountInSync, Idle
<1>2. Spells(order, next, prev, 0, Len(order))
  BY <1>1 DEF Inv, LinksSpellOrder
<1>3. /\ Nth(order, 0) = FakeHead /\ Nth(order, Len(order) + 1) = FakeTail
      /\ 0 \in 0 .. Len(order) /\ Len(order) \in 0 .. Len(order)
  BY <1>1, NthSpec
<1>4. next[FakeHead] = Nth(order, 1) /\ prev[FakeTail] = Nth(order, Len(order))
  <2>1. next[Nth(order, 0)] = Nth(order, 0 + 1) /\ 0 + 1 = 1
    BY <1>2, <1>3 DEF Spells
  <2>2. prev[Nth(order, Len(order) + 1)] = Nth(order, Len(order))
    BY <1>2, <1>3 DEF Spells
  <2> QED BY <1>3, <2>1, <2>2
<1>5. ASSUME NEW b \in Block, b \in ToSet(order) PROVE next[b] \in Node /\ prev[b] \in Node
  <2>1. PICK k \in 1 .. Len(order) : order[k] = b
    BY <1>1, <1>5 DEF ToSet
  <2>2. /\ k \in 0 .. Len(order) /\ k - 1 \in 0 .. Len(order) /\ (k - 1) + 1 = k
        /\ k + 1 \in 0 .. Len(order) + 1 /\ k - 1 \in 0 .. Len(order) + 1
    BY <1>1, <2>1
  <2>3. Nth(order, k) = b /\ Nth(order, k + 1) \in Node /\ Nth(order, k - 1) \in Node
    BY <1>1, <2>1, <2>2, NthSpec
  <2>4. next[b] = Nth(order, k + 1)
    BY <1>2, <2>2, <2>3 DEF Spells
  <2>5. prev[b] = Nth(order, k - 1)
    BY <1>2, <2>2, <2>3 DEF Spells
  <2> QED BY <2>3, <2>4, <2>5
<1>6. \A b \in Block : b \notin ToSet(order) => next[b] = None /\ prev[b] = None
  BY DEF Inv, OutsideIsUnlinked
<1> QED BY <1>1, <1>2, <1>4, <1>5, <1>6, NodeFacts DEF Detached

\* The lists of blocks are linked in order at the start.
LEMMA InitInv == Init => Inv
<1> SUFFICES ASSUME Init PROVE Inv
  OBVIOUS
<1>1. /\ FakeHead = 0 /\ FakeTail = NumBlocks + 1 /\ Block = 1 .. NumBlocks
      /\ Node = 0 .. NumBlocks + 1 /\ NumBlocks \in Nat /\ None = -1
  BY FreeBlockQueueAssumption DEF FakeHead, FakeTail, Block, Node, None
<1>2. order \in Seq(Block) /\ Len(order) = NumBlocks /\ \A i \in 1 .. NumBlocks : order[i] = i
  BY <1>1 DEF Init
<1>3. TypeOK
  <2>1. next \in [Node -> Node \cup {None}] /\ prev \in [Node -> Node \cup {None}]
    BY <1>1 DEF Init
  <2> QED BY <1>1, <1>2, <2>1 DEF Init, TypeOK
<1>4. call.loop = "idle"
  BY DEF Init, Idle
<1>5. \A i \in 0 .. NumBlocks + 1 : Nth(order, i) = i
  BY <1>1, <1>2 DEF Nth
<1>6. LinksSpellOrder
  <2>1. \A i \in 0 .. NumBlocks : next[i] = i + 1 /\ prev[i + 1] = i
    BY <1>1 DEF Init
  <2>2. Spells(order, next, prev, 0, NumBlocks)
    BY <1>1, <1>5, <2>1 DEF Spells
  <2> QED BY <1>2, <1>4, <2>2 DEF LinksSpellOrder
<1>7. OutsideIsUnlinked
  <2>1. Distinct(order)
    BY <1>2 DEF Distinct
  <2>2. \A b \in Block : b \in ToSet(order)
    <3>1. DOMAIN order = 1 .. NumBlocks
      BY <1>1, <1>2
    <3> QED BY <1>1, <1>2, <3>1 DEF ToSet
  <2> QED BY <2>1, <2>2 DEF OutsideIsUnlinked
<1>8. CountInSync /\ LoopPosition
  BY <1>2, <1>4 DEF CountInSync, LoopPosition, Init
<1> QED BY <1>3, <1>6, <1>7, <1>8 DEF Inv

\* popleft clears the first block and connects the fake head to the second.
LEMMA PopLeftInv ==
    ASSUME Inv, PopLeft
    PROVE  /\ Inv'
           /\ order # <<>> /\ next[FakeHead] = Head(order)
<1>1. call = Idle /\ next[FakeHead] # FakeTail /\ call' = Idle /\ call'.loop = "idle"
  BY DEF PopLeft, Idle
<1>2. /\ next \in Links /\ prev \in Links /\ order \in Seq(Block)
      /\ Distinct(order) /\ Spells(order, next, prev, 0, Len(order))
      /\ numFree = Len(order) /\ Len(order) \in Nat /\ next[FakeHead] = Nth(order, 1)
  BY <1>1, IdleFacts
<1>3. order # <<>>
  <2>1. Nth(order, Len(order) + 1) = FakeTail
    BY <1>2, NthSpec
  <2>2. Len(order) # 0
    BY <1>1, <1>2, <2>1
  <2> QED BY <1>2, <2>2
<1>4. PICK b \in Block, t \in Seq(Block) : b = order[1] /\ t = Tail(order)
  BY <1>2, <1>3, TailSpec
<1>5. /\ Len(t) = Len(order) - 1 /\ Len(order) \in Nat \ {0} /\ Head(order) = b
      /\ Distinct(t) /\ Nth(t, 1) = Nth(order, 1 + 1) /\ ToSet(t) = ToSet(order) \ {b}
  BY <1>2, <1>3, <1>4, TailSpec
<1>6. /\ Nth(order, 1) = b /\ next[FakeHead] = b
  BY <1>2, <1>4, <1>5, NthSpec
<1>7. next[b] = Nth(t, 1)
  BY <1>2, <1>5, <1>6 DEF Spells
<1>8. Nth(t, 1) \in Node /\ Nth(t, 1) # b
  <2>1. 1 \in 0 .. Len(t) + 1 /\ 1 \in 0 .. Len(order) + 1 /\ 1 + 1 \in 0 .. Len(order) + 1
    BY <1>5
  <2>2. Nth(t, 1) \in Node
    BY <2>1, <1>5, NthSpec
  <2>3. Nth(order, 1 + 1) # Nth(order, 1)
    BY <2>1, <1>2, NthSpec
  <2> QED BY <2>2, <2>3, <1>5, <1>6
<1>9. /\ next' = [next EXCEPT ![FakeHead] = Nth(t, 1), ![b] = None]
      /\ prev' = [prev EXCEPT ![Nth(t, 1)] = FakeHead, ![b] = None]
      /\ numFree' = numFree - 1 /\ order' = t /\ result' = <<b>>
  BY <1>4, <1>6, <1>7 DEF PopLeft
<1>10. PICK nx, pv : nx = [next EXCEPT ![b] = None] /\ pv = [prev EXCEPT ![b] = None]
  OBVIOUS
<1>11. nx \in Links /\ pv \in Links
  BY <1>2, <1>10, NodeFacts DEF Links
<1>12. Spells(t, nx, pv, 1, Len(t))
  <2>1. Spells(order, next, prev, 1, Len(order))
    BY <1>2 DEF Spells
  <2> QED BY <2>1, <1>2, <1>3, <1>4, <1>10, ClearFirst
<1>13. /\ next' = [nx EXCEPT ![FakeHead] = Nth(t, 1)]
       /\ prev' = [pv EXCEPT ![Nth(t, 1)] = FakeHead]
  <2>1. b # FakeHead
    BY NodeFacts
  <2> QED BY <1>2, <1>8, <1>9, <1>10, <2>1, NodeFacts DEF Links
<1>14. Spells(t, next', prev', 0, Len(t))
  BY <1>5, <1>11, <1>12, <1>13, ConnectHead
<1>15. TypeOK'
  <2>1. next' \in Links /\ prev' \in Links
    BY <1>8, <1>11, <1>13, NodeFacts DEF Links
  <2>2. numFree' \in Nat /\ result' \in Seq(Block) /\ order' \in Seq(Block)
    BY <1>2, <1>5, <1>9
  <2> QED BY <1>1, <2>1, <2>2 DEF TypeOK, Links
<1>16. LinksSpellOrder'
  BY <1>1, <1>9, <1>14 DEF LinksSpellOrder
<1>17. OutsideIsUnlinked'
  <2> SUFFICES ASSUME NEW c \in Block, c \notin ToSet(t) PROVE next'[c] = None /\ prev'[c] = None
    BY <1>5, <1>9 DEF OutsideIsUnlinked
  <2>1. CASE c = b
    BY <2>1, <1>2, <1>8, <1>9, NodeFacts DEF Links
  <2>2. CASE c # b
    <3>1. c \notin ToSet(order) /\ next[c] = None /\ prev[c] = None
      BY <2>2, <1>5 DEF Inv, OutsideIsUnlinked
    <3>2. c # Nth(t, 1)
      <4>1. CASE Len(t) = 0
        <5>1. Nth(t, 1) = FakeTail
          BY <4>1 DEF Nth
        <5> QED BY <5>1, NodeFacts
      <4>2. CASE Len(t) # 0
        <5>1. 1 \in 1 .. Len(t) /\ DOMAIN t = 1 .. Len(t)
          BY <4>2, <1>5
        <5>2. Nth(t, 1) \in ToSet(t)
          BY <5>1, <1>5, NthSpec DEF ToSet
        <5> QED BY <5>2
      <4> QED BY <4>1, <4>2
    <3> QED BY <2>2, <3>1, <3>2, <1>2, <1>8, <1>9, NodeFacts DEF Links
  <2> QED BY <2>1, <2>2
<1>18. CountInSync' /\ LoopPosition'
  BY <1>1, <1>2, <1>5, <1>9 DEF CountInSync, LoopPosition
<1> QED BY <1>3, <1>5, <1>6, <1>15, <1>16, <1>17, <1>18 DEF Inv

\* popleft_n starts at the first block.
LEMMA BeginPopLeftNInv ==
    ASSUME Inv, NEW n \in 1 .. NumBlocks, BeginPopLeftN(n)
    PROVE  Inv'
<1>1. /\ call = Idle /\ n <= numFree /\ call' = PopCall(n, next[FakeHead]) /\ n \in Nat
      /\ numFree' = numFree - n /\ result' = <<>> /\ next' = next /\ prev' = prev /\ order' = order
  BY FreeBlockQueueAssumption DEF BeginPopLeftN
<1>2. /\ next \in Links /\ prev \in Links /\ order \in Seq(Block)
      /\ Distinct(order) /\ Spells(order, next, prev, 0, Len(order))
      /\ numFree = Len(order) /\ Len(order) \in Nat /\ next[FakeHead] = Nth(order, 1)
  BY <1>1, IdleFacts
<1>3. Nth(order, 1) \in Node
  BY <1>2, NthSpec
<1>4. /\ call' \in [loop : {"pop"}, left : Nat, curr : Node]
      /\ call'.loop = "pop" /\ call'.left = n /\ call'.curr = Nth(order, 1)
  BY <1>1, <1>2, <1>3 DEF PopCall
<1>5. TypeOK'
  BY <1>1, <1>2, <1>4 DEF TypeOK, Links
<1>6. LinksSpellOrder'
  <2>1. Spells(order, next, prev, 1, Len(order))
    BY <1>2 DEF Spells
  <2> QED BY <1>1, <1>4, <2>1 DEF LinksSpellOrder
<1>7. OutsideIsUnlinked'
  BY <1>1 DEF Inv, OutsideIsUnlinked
<1>8. CountInSync' /\ LoopPosition'
  BY <1>1, <1>2, <1>4 DEF CountInSync, LoopPosition
<1> QED BY <1>5, <1>6, <1>7, <1>8 DEF Inv

\* What the invariant says inside popleft_n.
LEMMA PopFacts ==
    ASSUME Inv, call.loop = "pop"
    PROVE  /\ next \in Links /\ prev \in Links /\ order \in Seq(Block)
           /\ Distinct(order) /\ Spells(order, next, prev, 1, Len(order))
           /\ numFree \in Nat /\ call.left \in Nat /\ numFree + call.left = Len(order)
           /\ call.curr = Nth(order, 1) /\ Nth(order, 1) \in Node
<1>1. /\ next \in Links /\ prev \in Links /\ order \in Seq(Block) /\ numFree \in Nat
      /\ numFree + call.left = Len(order) /\ Distinct(order) /\ call.curr = Nth(order, 1)
  BY DEF Inv, TypeOK, Links, OutsideIsUnlinked, CountInSync, LoopPosition
<1>2. Spells(order, next, prev, 1, Len(order))
  BY DEF Inv, LinksSpellOrder
<1>3. call.left \in Nat
  BY CallType DEF Inv
<1> QED BY <1>1, <1>2, <1>3, NthSpec

\* An iteration of popleft_n clears the first block and goes on to the next.
LEMMA PopIterationInv ==
    ASSUME Inv, PopIteration
    PROVE  /\ Inv'
           /\ order # <<>> /\ call.curr = Head(order)
<1>1. call.loop = "pop" /\ call.left > 0
  BY DEF PopIteration
<1>2. /\ next \in Links /\ prev \in Links /\ order \in Seq(Block)
      /\ Distinct(order) /\ Spells(order, next, prev, 1, Len(order))
      /\ numFree \in Nat /\ call.left \in Nat /\ numFree + call.left = Len(order)
      /\ call.curr = Nth(order, 1) /\ Nth(order, 1) \in Node
  BY <1>1, PopFacts
<1>3. order # <<>>
  BY <1>1, <1>2
<1>4. PICK b \in Block, t \in Seq(Block) : b = order[1] /\ t = Tail(order)
  BY <1>2, <1>3, TailSpec
<1>5. /\ Len(t) = Len(order) - 1 /\ Len(order) \in Nat \ {0} /\ Head(order) = b
      /\ Distinct(t) /\ Nth(t, 1) = Nth(order, 1 + 1) /\ ToSet(t) = ToSet(order) \ {b}
  BY <1>2, <1>3, <1>4, TailSpec
<1>6. call.curr = b
  BY <1>2, <1>4, <1>5, NthSpec
<1>7. next[b] = Nth(t, 1)
  <2>1. 1 \in 1 .. Len(order) /\ Nth(order, 1) = b
    BY <1>2, <1>5, <1>6
  <2>2. next[Nth(order, 1)] = Nth(order, 1 + 1)
    BY <1>2, <2>1 DEF Spells
  <2> QED BY <1>5, <2>1, <2>2
<1>8. Nth(t, 1) \in Node
  BY <1>5, NthSpec
<1>9. /\ next' = [next EXCEPT ![b] = None] /\ prev' = [prev EXCEPT ![b] = None]
      /\ numFree' = numFree /\ order' = t /\ result' = Append(result, b)
      /\ call' = PopCall(call.left - 1, Nth(t, 1))
  BY <1>4, <1>6, <1>7 DEF PopIteration
<1>10. PICK l \in Nat : l = call.left - 1
  BY <1>1, <1>2
<1>11. /\ call' \in [loop : {"pop"}, left : Nat, curr : Node]
       /\ call'.loop = "pop" /\ call'.left = l /\ call'.curr = Nth(t, 1)
  BY <1>8, <1>9, <1>10 DEF PopCall
<1>12. TypeOK'
  <2>1. next' \in Links /\ prev' \in Links
    BY <1>2, <1>9, NodeFacts DEF Links
  <2>2. result \in Seq(Block)
    BY DEF Inv, TypeOK
  <2>3. result' \in Seq(Block)
    BY <1>9, <2>2
  <2> QED BY <1>2, <1>9, <1>11, <2>1, <2>3 DEF TypeOK, Links
<1>13. LinksSpellOrder'
  <2>1. Spells(t, next', prev', 1, Len(t))
    BY <1>2, <1>3, <1>4, <1>9, ClearFirst
  <2> QED BY <1>9, <1>11, <2>1 DEF LinksSpellOrder
<1>14. OutsideIsUnlinked'
  <2> SUFFICES ASSUME NEW c \in Block, c \notin ToSet(t) PROVE next'[c] = None /\ prev'[c] = None
    BY <1>5, <1>9 DEF OutsideIsUnlinked
  <2>1. c # b => next[c] = None /\ prev[c] = None
    BY <1>5 DEF Inv, OutsideIsUnlinked
  <2> QED BY <2>1, <1>2, <1>9, NodeFacts DEF Links
<1>15. CountInSync' /\ LoopPosition'
  <2>1. numFree + l = Len(t)
    BY <1>2, <1>5, <1>10, SMTT(40)
  <2> QED BY <2>1, <1>9, <1>11 DEF CountInSync, LoopPosition
<1> QED BY <1>3, <1>5, <1>6, <1>12, <1>13, <1>14, <1>15 DEF Inv

\* The end of popleft_n connects the fake head.
LEMMA EndPopInv ==
    ASSUME Inv, EndPop
    PROVE  Inv'
<1>1. call.loop = "pop" /\ call.left = 0 /\ call' = Idle /\ call'.loop = "idle"
  BY DEF EndPop, Idle
<1>2. /\ next \in Links /\ prev \in Links /\ order \in Seq(Block)
      /\ Distinct(order) /\ Spells(order, next, prev, 1, Len(order))
      /\ numFree \in Nat /\ numFree + call.left = Len(order)
      /\ call.curr = Nth(order, 1) /\ Nth(order, 1) \in Node
  BY <1>1, PopFacts
<1>3. /\ next' = [next EXCEPT ![FakeHead] = Nth(order, 1)]
      /\ prev' = [prev EXCEPT ![Nth(order, 1)] = FakeHead]
      /\ numFree' = numFree /\ result' = result /\ order' = order
  BY <1>2 DEF EndPop
<1>4. TypeOK'
  <2>1. next' \in Links /\ prev' \in Links
    BY <1>2, <1>3, NodeFacts DEF Links
  <2>2. result' \in Seq(Block)
    BY <1>3 DEF Inv, TypeOK
  <2> QED BY <1>1, <1>2, <1>3, <2>1, <2>2 DEF TypeOK, Links
<1>5. LinksSpellOrder'
  <2>1. Spells(order, next', prev', 0, Len(order))
    BY <1>2, <1>3, ConnectHead
  <2> QED BY <1>1, <1>3, <2>1 DEF LinksSpellOrder
<1>6. OutsideIsUnlinked'
  <2> SUFFICES ASSUME NEW c \in Block, c \notin ToSet(order)
               PROVE  next'[c] = None /\ prev'[c] = None
    BY <1>2, <1>3 DEF OutsideIsUnlinked
  <2>1. next[c] = None /\ prev[c] = None
    BY DEF Inv, OutsideIsUnlinked
  <2>2. c # Nth(order, 1)
    <3>1. CASE Len(order) = 0
      <4>1. Nth(order, 1) = FakeTail
        BY <3>1 DEF Nth
      <4> QED BY <4>1, NodeFacts
    <3>2. CASE Len(order) # 0
      <4>1. 1 \in 1 .. Len(order) /\ DOMAIN order = 1 .. Len(order)
        BY <3>2, <1>2
      <4>2. Nth(order, 1) \in ToSet(order)
        BY <4>1, <1>2, NthSpec DEF ToSet
      <4> QED BY <4>2
    <3> QED BY <3>1, <3>2
  <2> QED BY <2>1, <2>2, <1>2, <1>3, NodeFacts DEF Links
<1>7. CountInSync' /\ LoopPosition'
  <2>1. numFree = Len(order)
    BY <1>1, <1>2
  <2> QED BY <1>1, <1>3, <2>1 DEF CountInSync, LoopPosition
<1> QED BY <1>4, <1>5, <1>6, <1>7 DEF Inv

\* remove takes a linked block out.
LEMMA RemoveNodeInv ==
    ASSUME Inv, NEW b \in Block, RemoveNode(b)
    PROVE  /\ Inv'
           /\ \E i \in DOMAIN order : order[i] = b /\ order' = RemoveAt(order, i)
<1>1. /\ call = Idle /\ prev[b] # None /\ next[b] # None /\ call' = Idle /\ call'.loop = "idle"
  BY DEF RemoveNode, Idle
<1>2. /\ next \in Links /\ prev \in Links /\ order \in Seq(Block)
      /\ Distinct(order) /\ Spells(order, next, prev, 0, Len(order))
      /\ numFree = Len(order) /\ Len(order) \in Nat /\ b \in ToSet(order)
  BY <1>1, IdleFacts
<1>3. PICK k \in 1 .. Len(order) : order[k] = b
  BY <1>2 DEF ToSet
<1>4. /\ k \in 0 .. Len(order) /\ k - 1 \in 0 .. Len(order) /\ (k - 1) + 1 = k
      /\ k + 1 \in 0 .. Len(order) + 1 /\ k - 1 \in 0 .. Len(order) + 1
      /\ k \in 0 .. Len(order) + 1 /\ k - 1 # k /\ k + 1 # k
  BY <1>2
<1>5. /\ Nth(order, k) = b /\ Nth(order, k + 1) \in Node /\ Nth(order, k - 1) \in Node
      /\ Nth(order, k - 1) # b /\ Nth(order, k + 1) # b
  BY <1>2, <1>3, <1>4, NthSpec
<1>6. next[b] = Nth(order, k + 1)
  BY <1>2, <1>4, <1>5 DEF Spells
<1>7. prev[b] = Nth(order, k - 1)
  BY <1>2, <1>4, <1>5 DEF Spells
<1>8. PICK t : t = RemoveBlock(order, b)
  OBVIOUS
<1>9. /\ t \in Seq(Block) /\ Len(t) = Len(order) - 1 /\ Distinct(t) /\ t = RemoveAt(order, k)
      /\ ToSet(t) = ToSet(order) \ {b}
  BY <1>2, <1>3, <1>8, RemoveSpec
<1>10. /\ next' = [next EXCEPT ![Nth(order, k - 1)] = Nth(order, k + 1), ![b] = None]
       /\ prev' = [prev EXCEPT ![Nth(order, k + 1)] = Nth(order, k - 1), ![b] = None]
       /\ numFree' = numFree - 1 /\ order' = t /\ result' = result
  BY <1>6, <1>7, <1>8 DEF RemoveNode
<1>11. TypeOK'
  <2>1. next' \in Links /\ prev' \in Links
    BY <1>2, <1>5, <1>10, NodeFacts DEF Links
  <2>2. result' \in Seq(Block)
    BY <1>10 DEF Inv, TypeOK
  <2>3. numFree' \in Nat
    BY <1>2, <1>3, <1>10
  <2> QED BY <1>1, <1>9, <1>10, <2>1, <2>2, <2>3 DEF TypeOK, Links
<1>12. LinksSpellOrder'
  <2>1. Spells(t, next', prev', 0, Len(order) - 1)
    BY <1>2, <1>3, <1>8, <1>10, LinkOut
  <2> QED BY <1>1, <1>9, <1>10, <2>1 DEF LinksSpellOrder
<1>13. OutsideIsUnlinked'
  <2> SUFFICES ASSUME NEW c \in Block, c \notin ToSet(t) PROVE next'[c] = None /\ prev'[c] = None
    BY <1>9, <1>10 DEF OutsideIsUnlinked
  <2>1. CASE c = b
    BY <2>1, <1>2, <1>5, <1>10, NodeFacts DEF Links
  <2>2. CASE c # b
    <3>1. c \notin ToSet(order) /\ next[c] = None /\ prev[c] = None
      BY <2>2, <1>9 DEF Inv, OutsideIsUnlinked
    <3>2. \A i \in 0 .. Len(order) + 1 : c # Nth(order, i)
      <4>1. \A i \in 1 .. Len(order) : c # order[i]
        BY <3>1, <1>2 DEF ToSet
      <4> QED BY <4>1, <1>2, NodeFacts DEF Nth
    <3> QED BY <3>1, <3>2, <2>2, <1>2, <1>4, <1>10, NodeFacts DEF Links
  <2> QED BY <2>1, <2>2
<1>14. CountInSync' /\ LoopPosition'
  BY <1>1, <1>2, <1>9, <1>10 DEF CountInSync, LoopPosition
<1>15. k \in DOMAIN order
  BY <1>2
<1> QED BY <1>3, <1>9, <1>10, <1>11, <1>12, <1>13, <1>14, <1>15 DEF Inv

\* append links a detached block between the last one and the fake tail.
LEMMA AppendNodeInv ==
    ASSUME Inv, NEW b \in Block, AppendNode(b)
    PROVE  Inv' /\ b \notin ToSet(order)
<1>1. call = Idle /\ Detached(b) /\ call' = Idle /\ call'.loop = "idle"
  BY DEF AppendNode, Idle
<1>2. /\ next \in Links /\ prev \in Links /\ order \in Seq(Block)
      /\ Distinct(order) /\ Spells(order, next, prev, 0, Len(order))
      /\ numFree = Len(order) /\ Len(order) \in Nat /\ prev[FakeTail] = Nth(order, Len(order))
  BY <1>1, IdleFacts
<1>3. b \notin ToSet(order)
  BY <1>1, IdleFacts DEF Detached
<1>4. PICK l \in Node, t \in Seq(Block) : l = Nth(order, Len(order)) /\ t = Append(order, b)
  <2>1. Nth(order, Len(order)) \in Node
    BY <1>2, NthSpec
  <2>2. Append(order, b) \in Seq(Block)
    BY <1>2
  <2> QED BY <2>1, <2>2, Zenon
<1>5. /\ Len(t) = Len(order) + 1 /\ Distinct(t) /\ ToSet(t) = ToSet(order) \cup {b}
      /\ Nth(t, Len(t)) = b
  BY <1>2, <1>3, <1>4, AppendNodes
<1>6. l # b /\ l # FakeTail /\ b # FakeTail
  <2>1. \A i \in 1 .. Len(order) : order[i] # b /\ order[i] \in Block
    BY <1>2, <1>3 DEF ToSet
  <2>2. l = FakeHead \/ \E i \in 1 .. Len(order) : l = order[i]
    BY <1>2, <1>4 DEF Nth
  <2> QED BY <2>1, <2>2, NodeFacts
<1>7. /\ next' = [next EXCEPT ![l] = b, ![b] = FakeTail]
      /\ prev' = [prev EXCEPT ![b] = l, ![FakeTail] = b]
      /\ numFree' = numFree + 1 /\ order' = t /\ result' = result
  BY <1>2, <1>4 DEF AppendNode
<1>8. PICK nx, pv : nx = [next EXCEPT ![l] = b] /\ pv = [prev EXCEPT ![b] = l]
  OBVIOUS
<1>9. nx \in Links /\ pv \in Links
  BY <1>2, <1>8, NodeFacts DEF Links
<1>10. Spells(t, nx, pv, 0, Len(t) - 1)
  <2>1. Spells(order, next, prev, 0, Len(order) - 1)
    BY <1>2 DEF Spells
  <2> QED BY <2>1, <1>2, <1>3, <1>4, <1>8, LinkLast
<1>11. /\ next' = [nx EXCEPT ![Nth(t, Len(t))] = FakeTail]
       /\ prev' = [pv EXCEPT ![FakeTail] = Nth(t, Len(t))]
  BY <1>2, <1>5, <1>6, <1>7, <1>8, NodeFacts DEF Links
<1>12. Spells(t, next', prev', 0, Len(t))
  BY <1>5, <1>9, <1>10, <1>11, ConnectTail
<1>13. TypeOK'
  <2>1. next' \in Links /\ prev' \in Links
    BY <1>2, <1>7, NodeFacts DEF Links
  <2>2. result' \in Seq(Block)
    BY <1>7 DEF Inv, TypeOK
  <2> QED BY <1>1, <1>2, <1>7, <2>1, <2>2, SMTT(40) DEF TypeOK, Links
<1>14. LinksSpellOrder'
  BY <1>1, <1>7, <1>12 DEF LinksSpellOrder
<1>15. OutsideIsUnlinked'
  <2> SUFFICES ASSUME NEW c \in Block, c \notin ToSet(t) PROVE next'[c] = None /\ prev'[c] = None
    BY <1>5, <1>7 DEF OutsideIsUnlinked
  <2>1. c \notin ToSet(order) /\ c # b /\ next[c] = None /\ prev[c] = None
    BY <1>5 DEF Inv, OutsideIsUnlinked
  <2>2. c # l
    <3>1. \A i \in 1 .. Len(order) : c # order[i]
      BY <2>1, <1>2 DEF ToSet
    <3> QED BY <3>1, <1>2, <1>4, NodeFacts DEF Nth
  <2> QED BY <2>1, <2>2, <1>2, <1>7, NodeFacts DEF Links
<1>16. CountInSync' /\ LoopPosition'
  BY <1>1, <1>2, <1>5, <1>7 DEF CountInSync, LoopPosition
<1> QED BY <1>3, <1>13, <1>14, <1>15, <1>16 DEF Inv

\* append_n starts behind the last block.
LEMMA BeginAppendNInv ==
    ASSUME Inv, NEW blocks \in BlockLists, BeginAppendN(blocks)
    PROVE  Inv'
<1>1. /\ call = Idle /\ call' = AppendCall(blocks, 0, prev[FakeTail])
      /\ next' = next /\ prev' = prev /\ numFree' = numFree /\ result' = result /\ order' = order
      /\ \A i \in DOMAIN blocks : Detached(blocks[i])
  BY DEF BeginAppendN
<1>2. /\ next \in Links /\ prev \in Links /\ order \in Seq(Block)
      /\ Distinct(order) /\ Spells(order, next, prev, 0, Len(order))
      /\ numFree = Len(order) /\ Len(order) \in Nat /\ prev[FakeTail] = Nth(order, Len(order))
  BY <1>1, IdleFacts
<1>3. blocks \in Seq(Block) /\ Distinct(blocks)
  BY FreeBlockQueueAssumption DEF BlockLists
<1>4. Nth(order, Len(order)) \in Node
  BY <1>2, NthSpec
<1>5. /\ call' \in [loop : {"append"}, blocks : Seq(Block), pos : Nat, last : Node]
      /\ call'.loop = "append" /\ call'.blocks = blocks /\ call'.pos = 0
      /\ call'.last = Nth(order, Len(order))
  BY <1>1, <1>2, <1>3, <1>4 DEF AppendCall
<1>6. TypeOK'
  <2>1. result' \in Seq(Block) /\ 0 <= Len(blocks)
    BY <1>1, <1>3 DEF Inv, TypeOK
  <2> QED BY <1>1, <1>2, <1>5, <2>1 DEF TypeOK, Links
<1>7. LinksSpellOrder'
  <2>1. Spells(order, next, prev, 0, Len(order) - 1)
    BY <1>2 DEF Spells
  <2> QED BY <1>1, <1>5, <2>1 DEF LinksSpellOrder
<1>8. OutsideIsUnlinked'
  BY <1>1 DEF Inv, OutsideIsUnlinked
<1>9. CountInSync'
  BY <1>1, <1>2, <1>5 DEF CountInSync
<1>10. LoopPosition'
  <2>1. \A i \in 1 .. Len(blocks) : blocks[i] \in Block /\ Detached(blocks[i])
    BY <1>1, <1>3
  <2>2. \A i \in 0 + 1 .. Len(blocks) : blocks[i] \notin ToSet(order)
    BY <1>1, <2>1, IdleFacts DEF Detached
  <2> QED BY <1>1, <1>3, <1>5, <2>2 DEF LoopPosition
<1> QED BY <1>6, <1>7, <1>8, <1>9, <1>10 DEF Inv

\* What the invariant says inside append_n.
LEMMA AppendFacts ==
    ASSUME Inv, call.loop = "append"
    PROVE  /\ next \in Links /\ prev \in Links /\ order \in Seq(Block) /\ Len(order) \in Nat
           /\ Distinct(order) /\ Spells(order, next, prev, 0, Len(order) - 1)
           /\ numFree \in Nat /\ call.pos \in Nat /\ numFree + call.pos = Len(order)
           /\ call.blocks \in Seq(Block) /\ call.pos <= Len(call.blocks) /\ Distinct(call.blocks)
           /\ call.last = Nth(order, Len(order)) /\ Nth(order, Len(order)) \in Node
           /\ \A i \in call.pos + 1 .. Len(call.blocks) : call.blocks[i] \notin ToSet(order)
<1>1. /\ next \in Links /\ prev \in Links /\ order \in Seq(Block) /\ numFree \in Nat
      /\ numFree + call.pos = Len(order) /\ Distinct(order)
      /\ Distinct(call.blocks) /\ call.last = Nth(order, Len(order))
      /\ \A i \in call.pos + 1 .. Len(call.blocks) : call.blocks[i] \notin ToSet(order)
  BY DEF Inv, TypeOK, Links, OutsideIsUnlinked, CountInSync, LoopPosition
<1>2. Spells(order, next, prev, 0, Len(order) - 1)
  BY DEF Inv, LinksSpellOrder
<1>3. call.pos \in Nat /\ call.blocks \in Seq(Block) /\ call.pos <= Len(call.blocks)
  BY CallType DEF Inv
<1>4. Nth(order, Len(order)) \in Node /\ Len(order) \in Nat
  BY <1>1, NthSpec
<1> QED BY <1>1, <1>2, <1>3, <1>4

\* An iteration of append_n makes its block the last one.
LEMMA AppendIterationInv ==
    ASSUME Inv, AppendIteration
    PROVE  /\ Inv'
           /\ \E b \in Block : b \notin ToSet(order) /\ order' = Append(order, b)
<1>1. call.loop = "append" /\ call.pos < Len(call.blocks)
  BY DEF AppendIteration
<1>2. /\ next \in Links /\ prev \in Links /\ order \in Seq(Block) /\ Len(order) \in Nat
      /\ Distinct(order) /\ Spells(order, next, prev, 0, Len(order) - 1)
      /\ numFree \in Nat /\ call.pos \in Nat /\ numFree + call.pos = Len(order)
      /\ call.blocks \in Seq(Block) /\ Distinct(call.blocks)
      /\ call.last = Nth(order, Len(order)) /\ Nth(order, Len(order)) \in Node
      /\ \A i \in call.pos + 1 .. Len(call.blocks) : call.blocks[i] \notin ToSet(order)
  BY <1>1, AppendFacts
<1>3. PICK list \in Seq(Block), p \in Nat : list = call.blocks /\ p = call.pos + 1
  BY <1>2
<1>4. p \in 1 .. Len(list) /\ call.pos = p - 1 /\ Len(list) \in Nat
  BY <1>1, <1>2, <1>3, SMTT(40)
<1>5. PICK b \in Block, l \in Node, t \in Seq(Block) :
         b = list[p] /\ l = Nth(order, Len(order)) /\ t = Append(order, b)
  <2>1. list[p] \in Block
    BY <1>3, <1>4
  <2>2. Append(order, list[p]) \in Seq(Block)
    BY <1>2, <2>1
  <2> QED BY <1>2, <2>1, <2>2, Zenon
<1>6. b \notin ToSet(order)
  <2>1. p \in call.pos + 1 .. Len(call.blocks)
    BY <1>3, <1>4
  <2> QED BY <1>2, <1>3, <1>5, <2>1
<1>7. /\ Len(t) = Len(order) + 1 /\ Distinct(t) /\ ToSet(t) = ToSet(order) \cup {b}
      /\ Nth(t, Len(t)) = b
  BY <1>2, <1>5, <1>6, AppendNodes
<1>8. /\ next' = [next EXCEPT ![l] = b] /\ prev' = [prev EXCEPT ![b] = l]
      /\ call' = AppendCall(list, p, b) /\ order' = t /\ numFree' = numFree /\ result' = result
  BY <1>2, <1>3, <1>5 DEF AppendIteration
<1>9. /\ call' \in [loop : {"append"}, blocks : Seq(Block), pos : Nat, last : Node]
      /\ call'.loop = "append" /\ call'.blocks = list /\ call'.pos = p /\ call'.last = b
  BY <1>8, NodeFacts DEF AppendCall
<1>10. TypeOK'
  <2>1. next' \in Links /\ prev' \in Links
    BY <1>2, <1>8, NodeFacts DEF Links
  <2>2. result' \in Seq(Block)
    BY <1>8 DEF Inv, TypeOK
  <2>3. call'.pos <= Len(call'.blocks)
    BY <1>4, <1>9
  <2> QED BY <1>2, <1>8, <1>9, <2>1, <2>2, <2>3 DEF TypeOK, Links
<1>11. LinksSpellOrder'
  <2>1. Spells(t, next', prev', 0, Len(t) - 1)
    BY <1>2, <1>5, <1>6, <1>8, LinkLast
  <2> QED BY <1>8, <1>9, <2>1 DEF LinksSpellOrder
<1>12. OutsideIsUnlinked'
  <2> SUFFICES ASSUME NEW c \in Block, c \notin ToSet(t) PROVE next'[c] = None /\ prev'[c] = None
    BY <1>7, <1>8 DEF OutsideIsUnlinked
  <2>1. c \notin ToSet(order) /\ c # b /\ next[c] = None /\ prev[c] = None
    BY <1>7 DEF Inv, OutsideIsUnlinked
  <2>2. c # l
    <3>1. \A i \in 1 .. Len(order) : c # order[i]
      BY <2>1, <1>2 DEF ToSet
    <3> QED BY <3>1, <1>2, <1>5, NodeFacts DEF Nth
  <2> QED BY <2>1, <2>2, <1>2, <1>8, NodeFacts DEF Links
<1>13. CountInSync'
  <2>1. numFree + p = Len(t)
    BY <1>2, <1>3, <1>7
  <2> QED BY <2>1, <1>8, <1>9 DEF CountInSync
<1>14. LoopPosition'
  <2>1. ASSUME NEW i \in p + 1 .. Len(list) PROVE list[i] \notin ToSet(t)
    <3>1. i \in call.pos + 1 .. Len(call.blocks) /\ i \in 1 .. Len(list) /\ i # p
      BY <1>3, <1>4
    <3>2. list[i] \notin ToSet(order)
      BY <1>2, <1>3, <3>1
    <3>3. list[i] # b
      BY <1>2, <1>3, <1>4, <1>5, <3>1 DEF Distinct
    <3> QED BY <3>2, <3>3, <1>7
  <2>2. Distinct(list)
    BY <1>2, <1>3
  <2> QED BY <2>1, <2>2, <1>7, <1>8, <1>9 DEF LoopPosition
<1> QED BY <1>5, <1>6, <1>8, <1>10, <1>11, <1>12, <1>13, <1>14 DEF Inv

\* The end of append_n connects the fake tail.
LEMMA EndAppendInv ==
    ASSUME Inv, EndAppend
    PROVE  Inv'
<1>1. /\ call.loop = "append" /\ call.pos = Len(call.blocks)
      /\ call' = Idle /\ call'.loop = "idle"
  BY DEF EndAppend, Idle
<1>2. /\ next \in Links /\ prev \in Links /\ order \in Seq(Block) /\ Len(order) \in Nat
      /\ Distinct(order) /\ Spells(order, next, prev, 0, Len(order) - 1)
      /\ numFree \in Nat /\ call.pos \in Nat /\ numFree + call.pos = Len(order)
      /\ call.last = Nth(order, Len(order)) /\ Nth(order, Len(order)) \in Node
  BY <1>1, AppendFacts
<1>3. /\ next' = [next EXCEPT ![Nth(order, Len(order))] = FakeTail]
      /\ prev' = [prev EXCEPT ![FakeTail] = Nth(order, Len(order))]
      /\ numFree' = numFree + call.pos /\ result' = result /\ order' = order
  BY <1>1, <1>2 DEF EndAppend
<1>a. numFree' = Len(order)
  BY <1>2, <1>3
<1>4. TypeOK'
  <2>1. next' \in Links /\ prev' \in Links
    BY <1>2, <1>3, NodeFacts DEF Links
  <2>2. result' \in Seq(Block)
    BY <1>3 DEF Inv, TypeOK
  <2> QED BY <1>1, <1>2, <1>3, <1>a, <2>1, <2>2 DEF TypeOK, Links
<1>5. LinksSpellOrder'
  <2>1. Spells(order, next', prev', 0, Len(order))
    BY <1>2, <1>3, ConnectTail
  <2> QED BY <1>1, <1>3, <2>1 DEF LinksSpellOrder
<1>6. OutsideIsUnlinked'
  <2> SUFFICES ASSUME NEW c \in Block, c \notin ToSet(order)
               PROVE  next'[c] = None /\ prev'[c] = None
    BY <1>2, <1>3 DEF OutsideIsUnlinked
  <2>1. next[c] = None /\ prev[c] = None
    BY DEF Inv, OutsideIsUnlinked
  <2>2. c # Nth(order, Len(order))
    <3>1. \A i \in 1 .. Len(order) : c # order[i]
      BY <1>2 DEF ToSet
    <3> QED BY <3>1, <1>2, NodeFacts DEF Nth
  <2> QED BY <2>1, <2>2, <1>2, <1>3, NodeFacts DEF Links
<1>7. CountInSync' /\ LoopPosition'
  BY <1>1, <1>3, <1>a DEF CountInSync, LoopPosition
<1> QED BY <1>4, <1>5, <1>6, <1>7 DEF Inv

\* Every step preserves the invariant.
LEMMA NextInv == Inv /\ [Next]_vars => Inv'
<1> SUFFICES ASSUME Inv, [Next]_vars PROVE Inv'
  OBVIOUS
<1>1. CASE PopLeft
  BY <1>1, PopLeftInv
<1>2. ASSUME NEW n \in 1 .. NumBlocks, BeginPopLeftN(n) PROVE Inv'
  BY <1>2, BeginPopLeftNInv
<1>3. CASE PopIteration
  BY <1>3, PopIterationInv
<1>4. CASE EndPop
  BY <1>4, EndPopInv
<1>5. ASSUME NEW b \in Block, RemoveNode(b) PROVE Inv'
  BY <1>5, RemoveNodeInv
<1>6. ASSUME NEW b \in Block, AppendNode(b) PROVE Inv'
  BY <1>6, AppendNodeInv
<1>7. ASSUME NEW blocks \in BlockLists, BeginAppendN(blocks) PROVE Inv'
  BY <1>7, BeginAppendNInv
<1>8. CASE AppendIteration
  BY <1>8, AppendIterationInv
<1>9. CASE EndAppend
  BY <1>9, EndAppendInv
<1>10. CASE UNCHANGED vars
  BY <1>10 DEF vars, Inv, TypeOK, LinksSpellOrder, OutsideIsUnlinked, CountInSync, LoopPosition
<1> QED BY <1>1, <1>2, <1>3, <1>4, <1>5, <1>6, <1>7, <1>8, <1>9, <1>10 DEF Next

-----------------------------------------------------------------------------
(* The theorems                                                             *)

\* The links of FreeKVCacheBlockQueue spell out the list, and the count and
\* the loops agree with it, at every iteration of every call and for every
\* number of blocks.
THEOREM ListInvariance == Spec => []Inv
  BY InitInv, NextInv, PTL DEF Spec

\* No check of popleft, popleft_n, append or append_n ever fires.
THEOREM ListNeverRaises == Spec => []NoRaise
<1>1. Inv => NoRaise
  <2> SUFFICES ASSUME Inv PROVE NoRaise
    OBVIOUS
  <2>1. ASSUME call.loop = "idle"
        PROVE  /\ next[FakeHead] = FakeTail => numFree = 0
               /\ next[FakeHead] # FakeTail =>
                     next[FakeHead] # None /\ next[next[FakeHead]] # None
               /\ prev[FakeTail] # None
    <3>1. call = Idle
      BY <2>1, CallType DEF Inv
    <3>2. /\ order \in Seq(Block) /\ Distinct(order) /\ Len(order) \in Nat
          /\ Spells(order, next, prev, 0, Len(order)) /\ numFree = Len(order)
          /\ next[FakeHead] = Nth(order, 1) /\ prev[FakeTail] = Nth(order, Len(order))
      BY <3>1, IdleFacts
    <3>3. prev[FakeTail] # None
      BY <3>2, NthSpec, NodeFacts
    <3>4. CASE Len(order) = 0
      <4>1. Nth(order, 1) = FakeTail
        BY <3>4 DEF Nth
      <4> QED BY <3>2, <3>3, <3>4, <4>1
    <3>5. CASE Len(order) # 0
      <4>1. 1 \in 1 .. Len(order) /\ 1 \in 0 .. Len(order) /\ 1 + 1 \in 0 .. Len(order) + 1
        BY <3>2, <3>5
      <4>2. Nth(order, 1) \in Block /\ Nth(order, 1 + 1) \in Node
        BY <3>2, <4>1, NthSpec
      <4>3. next[Nth(order, 1)] = Nth(order, 1 + 1)
        BY <3>2, <4>1 DEF Spells
      <4> QED BY <3>2, <3>3, <4>2, <4>3, NodeFacts
    <3> QED BY <3>4, <3>5
  <2>2. ASSUME call.loop = "pop"
        PROVE  call.curr # None /\ (call.left > 0 => call.curr # FakeTail)
    <3>1. /\ order \in Seq(Block) /\ Distinct(order)
          /\ numFree \in Nat /\ call.left \in Nat /\ numFree + call.left = Len(order)
          /\ call.curr = Nth(order, 1) /\ Nth(order, 1) \in Node
      BY <2>2, PopFacts
    <3>2. CASE call.left > 0
      <4>1. 1 \in 1 .. Len(order)
        BY <3>1, <3>2
      <4>2. Nth(order, 1) \in Block
        BY <3>1, <4>1, NthSpec
      <4> QED BY <3>1, <4>2, NodeFacts
    <3>3. CASE ~(call.left > 0)
      BY <3>1, <3>3, NodeFacts
    <3> QED BY <3>2, <3>3
  <2> QED BY <2>1, <2>2 DEF NoRaise
<1> QED BY <1>1, ListInvariance, PTL

\* FreeKVCacheBlockQueue implements the queue of BlockQueue: popleft and
\* popleft_n, which follow links, return the blocks at the head of the queue
\* in order, and append, append_n and remove change it as a queue does.
THEOREM ListImplementsQueue == Spec => ImplementsQueue
<1>1. Init => Queue!Init
  <2> SUFFICES ASSUME Init PROVE Queue!Init
    OBVIOUS
  <2>1. order \in Seq(Block) /\ Distinct(order)
    BY InitInv DEF Inv, TypeOK, OutsideIsUnlinked
  <2>2. Queue!IsInjective(order)
    BY <2>1 DEF Distinct, Queue!IsInjective
  <2> QED BY <2>1, <2>2 DEF Queue!Init, Init
<1>2. Inv /\ [Next]_vars => [Queue!Next]_<<order, result>>
  <2> SUFFICES ASSUME Inv, [Next]_vars PROVE [Queue!Next]_<<order, result>>
    OBVIOUS
  <2>1. CASE PopLeft
    <3>1. order # <<>> /\ next[FakeHead] = Head(order)
      BY <2>1, PopLeftInv
    <3>2. result' = <<next[FakeHead]>> /\ order' = Tail(order)
      BY <2>1 DEF PopLeft
    <3>3. result' = Append(<<>>, Head(order))
      BY <3>1, <3>2
    <3> QED BY <3>1, <3>2, <3>3 DEF Queue!Next, Queue!PopLeft
  <2>2. ASSUME NEW n \in 1 .. NumBlocks, BeginPopLeftN(n)
        PROVE  [Queue!Next]_<<order, result>>
    BY <2>2 DEF BeginPopLeftN, Queue!Next, Queue!NewCall
  <2>3. CASE PopIteration
    <3>1. order # <<>> /\ call.curr = Head(order)
      BY <2>3, PopIterationInv
    <3>2. result' = Append(result, call.curr) /\ order' = Tail(order)
      BY <2>3 DEF PopIteration
    <3> QED BY <3>1, <3>2 DEF Queue!Next, Queue!PopLeft
  <2>4. CASE EndPop
    BY <2>4 DEF EndPop
  <2>5. ASSUME NEW b \in Block, RemoveNode(b)
        PROVE  [Queue!Next]_<<order, result>>
    <3>1. PICK i \in DOMAIN order : order[i] = b /\ order' = RemoveAt(order, i)
      BY <2>5, RemoveNodeInv
    <3>2. b \in Queue!ToSet(order) /\ order' = Queue!RemoveAt(order, i)
      BY <3>1 DEF Queue!ToSet, RemoveAt, Queue!RemoveAt
    <3> QED BY <2>5, <3>1, <3>2 DEF RemoveNode, Queue!Next, Queue!Remove1
  <2>6. ASSUME NEW b \in Block, AppendNode(b)
        PROVE  [Queue!Next]_<<order, result>>
    <3>1. b \notin ToSet(order)
      BY <2>6, AppendNodeInv
    <3> QED BY <2>6, <3>1 DEF AppendNode, ToSet, Queue!ToSet, Queue!Next, Queue!Append1
  <2>7. ASSUME NEW blocks \in BlockLists, BeginAppendN(blocks)
        PROVE  [Queue!Next]_<<order, result>>
    BY <2>7 DEF BeginAppendN
  <2>8. CASE AppendIteration
    <3>1. PICK b \in Block : b \notin ToSet(order) /\ order' = Append(order, b)
      BY <2>8, AppendIterationInv
    <3> QED BY <2>8, <3>1 DEF AppendIteration, ToSet, Queue!ToSet, Queue!Next, Queue!Append1
  <2>9. CASE EndAppend
    BY <2>9 DEF EndAppend
  <2>10. CASE UNCHANGED vars
    BY <2>10 DEF vars
  <2> QED BY <2>1, <2>2, <2>3, <2>4, <2>5, <2>6, <2>7, <2>8, <2>9, <2>10 DEF Next
<1> QED BY <1>1, <1>2, ListInvariance, PTL DEF Spec, ImplementsQueue, Queue!Spec
=============================================================================
