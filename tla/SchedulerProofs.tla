-------------------------- MODULE SchedulerProofs --------------------------
(***************************************************************************)
(* Proofs about the scheduler, for any number of requests, blocks and      *)
(* batches in flight, for either policy and either scheduler class.  In    *)
(* every reachable state                                                   *)
(*   - the queues and the request statuses agree and only a running        *)
(*     request holds blocks (QueuesMatchStatus);                           *)
(*   - the KV cache is consistent (CacheConsistent), and no assert and no  *)
(*     raise has fired (NoStepRaises);                                     *)
(*   - every output was computed on the output before it and lands behind  *)
(*     it (OutputsInOrder);                                                *)
(*   - under the fcfs policy every KV slot that is read holds the KV of    *)
(*     the request's own tokens (FcfsReadsComputedKV);                     *)
(* and a request that finished stays finished with the output it has       *)
(* (FinishedIsFinal).  The first and the last rest on SchedulerInv, the    *)
(* second on EngineInv, which adds KVInv of the cache manager, the slots   *)
(* and tokens of the scheduled requests, the budget, and for the async     *)
(* scheduler the placeholders of the outputs in flight; the third on       *)
(* OrderInv, which adds the chain of the outputs in flight; the fourth on  *)
(* MemInv, which adds the contents of the slots and of the published       *)
(* blocks.                                                                 *)
(***************************************************************************)
EXTENDS Scheduler, KVCacheManagerProofs

-----------------------------------------------------------------------------
(* Folds over a sequence of requests: run[i] is what the loop has computed  *)
(* after its first i requests.                                              *)

\* The loop of free over several requests.
Frees(run, base, order) ==
    /\ DOMAIN run = 0 .. Len(order)
    /\ run[0] = base
    /\ \A i \in 1 .. Len(order) : run[i] = FreeRequest(run[i - 1], order[i])

LEMMA FreesExists ==
    ASSUME NEW A, NEW order \in Seq(A), NEW base
    PROVE  \E run : Frees(run, base, order) /\ FreeRequests(base, order) = run[Len(order)]
<1> DEFINE n == Len(order)
           Step(k, i) == FreeRequest(k, order[i])
           Runs(f, m) == f = [s \in SUBSET (1 .. m) |->
                                IF s = {} THEN base
                                ELSE Step(f[s \ {Max(s)}], Max(s))]
           G == {m \in Nat : \E f : Runs(f, m)}
<1>1. \E f : Runs(f, n)
  <2>1. 0 \in G
    <3>1. Runs([s \in SUBSET (1 .. 0) |-> base], 0)
      BY DEF Runs
    <3> QED BY <3>1
  <2>2. ASSUME NEW m \in Nat, m \in G PROVE m + 1 \in G
    <3>1. PICK f : Runs(f, m)
      BY <2>2
    <3> DEFINE g == [s \in SUBSET (1 .. m + 1) |->
                       IF m + 1 \in s THEN Step(f[s \ {m + 1}], m + 1) ELSE f[s]]
    <3>2. ASSUME NEW s \in SUBSET (1 .. m + 1)
          PROVE  g[s] = IF s = {} THEN base ELSE Step(g[s \ {Max(s)}], Max(s))
      <4>1. CASE m + 1 \in s
        <5>1. Max(s) = m + 1
          BY <4>1, MaxTop
        <5>2. s \ {m + 1} \in SUBSET (1 .. m + 1) /\ m + 1 \notin s \ {m + 1}
          OBVIOUS
        <5> HIDE DEF Step
        <5> QED BY <4>1, <5>1, <5>2
      <4>2. CASE m + 1 \notin s
        <5>1. s \in SUBSET (1 .. m)
          BY <4>2
        <5>2. f[s] = IF s = {} THEN base ELSE Step(f[s \ {Max(s)}], Max(s))
          BY <3>1, <5>1
        <5>3. s \ {Max(s)} \in SUBSET (1 .. m + 1) /\ m + 1 \notin s \ {Max(s)}
          BY <4>2
        <5> HIDE DEF Step
        <5> QED BY <4>2, <5>2, <5>3
      <4> QED BY <4>1, <4>2
    <3>3. g = [s \in SUBSET (1 .. m + 1) |-> g[s]]
      OBVIOUS
    <3> HIDE DEF g, Step
    <3>4. Runs(g, m + 1)
      BY <3>2, <3>3
    <3> HIDE DEF Runs
    <3> QED BY <3>4
  <2> HIDE DEF G
  <2>3. Nat \subseteq G
    BY <2>1, <2>2, SetInduction
  <2>4. n \in G
    BY <2>3
  <2> QED BY <2>4 DEF G
<1> DEFINE it == CHOOSE f : Runs(f, n)
<1>2. Runs(it, n)
  BY <1>1
<1>3. FreeRequests(base, order) = it[1 .. n]
  <2>1. DOMAIN order = 1 .. n
    OBVIOUS
  <2> QED BY <2>1 DEF FreeRequests, FoldLeft, MapThenFoldSet
<1> DEFINE run == [i \in 0 .. n |-> it[1 .. i]]
<1>4. run[0] = base
  <2>1. (1 .. 0) = {} /\ {} \in SUBSET (1 .. n)
    OBVIOUS
  <2>2. it[{}] = base
    BY <1>2, <2>1
  <2> QED BY <2>1, <2>2
<1>5. ASSUME NEW i \in 1 .. n PROVE run[i] = Step(run[i - 1], i)
  <2>1. (1 .. i) \in SUBSET (1 .. n) /\ i \in 1 .. i /\ (1 .. i) \ {i} = 1 .. (i - 1)
    OBVIOUS
  <2>2. Max(1 .. i) = i
    BY <2>1, MaxTop
  <2>3. it[1 .. i] = Step(it[(1 .. i) \ {Max(1 .. i)}], Max(1 .. i))
    BY <1>2, <2>1
  <2>4. run[i] = it[1 .. i] /\ run[i - 1] = it[1 .. (i - 1)]
    OBVIOUS
  <2> HIDE DEF Step, run, it
  <2> QED BY <2>1, <2>2, <2>3, <2>4
<1>6. DOMAIN run = 0 .. n /\ run[n] = it[1 .. n]
  OBVIOUS
<1> HIDE DEF it, run
<1> QED BY <1>3, <1>4, <1>5, <1>6 DEF Frees

\* The loop that puts preempted requests back.
Prepends(run, base, order) ==
    /\ DOMAIN run = 0 .. Len(order)
    /\ run[0] = base
    /\ \A i \in 1 .. Len(order) : run[i] = PrependRequest(run[i - 1], order[i])

LEMMA PrependsExists ==
    ASSUME NEW A, NEW order \in Seq(A), NEW base
    PROVE  \E run : Prepends(run, base, order) /\ PrependRequests(base, order) = run[Len(order)]
<1> DEFINE n == Len(order)
           Step(k, i) == PrependRequest(k, order[i])
           Runs(f, m) == f = [s \in SUBSET (1 .. m) |->
                                IF s = {} THEN base
                                ELSE Step(f[s \ {Max(s)}], Max(s))]
           G == {m \in Nat : \E f : Runs(f, m)}
<1>1. \E f : Runs(f, n)
  <2>1. 0 \in G
    <3>1. Runs([s \in SUBSET (1 .. 0) |-> base], 0)
      BY DEF Runs
    <3> QED BY <3>1
  <2>2. ASSUME NEW m \in Nat, m \in G PROVE m + 1 \in G
    <3>1. PICK f : Runs(f, m)
      BY <2>2
    <3> DEFINE g == [s \in SUBSET (1 .. m + 1) |->
                       IF m + 1 \in s THEN Step(f[s \ {m + 1}], m + 1) ELSE f[s]]
    <3>2. ASSUME NEW s \in SUBSET (1 .. m + 1)
          PROVE  g[s] = IF s = {} THEN base ELSE Step(g[s \ {Max(s)}], Max(s))
      <4>1. CASE m + 1 \in s
        <5>1. Max(s) = m + 1
          BY <4>1, MaxTop
        <5>2. s \ {m + 1} \in SUBSET (1 .. m + 1) /\ m + 1 \notin s \ {m + 1}
          OBVIOUS
        <5> HIDE DEF Step
        <5> QED BY <4>1, <5>1, <5>2
      <4>2. CASE m + 1 \notin s
        <5>1. s \in SUBSET (1 .. m)
          BY <4>2
        <5>2. f[s] = IF s = {} THEN base ELSE Step(f[s \ {Max(s)}], Max(s))
          BY <3>1, <5>1
        <5>3. s \ {Max(s)} \in SUBSET (1 .. m + 1) /\ m + 1 \notin s \ {Max(s)}
          BY <4>2
        <5> HIDE DEF Step
        <5> QED BY <4>2, <5>2, <5>3
      <4> QED BY <4>1, <4>2
    <3>3. g = [s \in SUBSET (1 .. m + 1) |-> g[s]]
      OBVIOUS
    <3> HIDE DEF g, Step
    <3>4. Runs(g, m + 1)
      BY <3>2, <3>3
    <3> HIDE DEF Runs
    <3> QED BY <3>4
  <2> HIDE DEF G
  <2>3. Nat \subseteq G
    BY <2>1, <2>2, SetInduction
  <2>4. n \in G
    BY <2>3
  <2> QED BY <2>4 DEF G
<1> DEFINE it == CHOOSE f : Runs(f, n)
<1>2. Runs(it, n)
  BY <1>1
<1>3. PrependRequests(base, order) = it[1 .. n]
  <2>1. DOMAIN order = 1 .. n
    OBVIOUS
  <2> QED BY <2>1 DEF PrependRequests, FoldLeft, MapThenFoldSet
<1> DEFINE run == [i \in 0 .. n |-> it[1 .. i]]
<1>4. run[0] = base
  <2>1. (1 .. 0) = {} /\ {} \in SUBSET (1 .. n)
    OBVIOUS
  <2>2. it[{}] = base
    BY <1>2, <2>1
  <2> QED BY <2>1, <2>2
<1>5. ASSUME NEW i \in 1 .. n PROVE run[i] = Step(run[i - 1], i)
  <2>1. (1 .. i) \in SUBSET (1 .. n) /\ i \in 1 .. i /\ (1 .. i) \ {i} = 1 .. (i - 1)
    OBVIOUS
  <2>2. Max(1 .. i) = i
    BY <2>1, MaxTop
  <2>3. it[1 .. i] = Step(it[(1 .. i) \ {Max(1 .. i)}], Max(1 .. i))
    BY <1>2, <2>1
  <2>4. run[i] = it[1 .. i] /\ run[i - 1] = it[1 .. (i - 1)]
    OBVIOUS
  <2> HIDE DEF Step, run, it
  <2> QED BY <2>1, <2>2, <2>3, <2>4
<1>6. DOMAIN run = 0 .. n /\ run[n] = it[1 .. n]
  OBVIOUS
<1> HIDE DEF it, run
<1> QED BY <1>3, <1>4, <1>5, <1>6 DEF Prepends

\* The loop of update_from_output.
Updates(run, base, order, out) ==
    /\ DOMAIN run = 0 .. Len(order)
    /\ run[0] = base
    /\ \A i \in 1 .. Len(order) : run[i] = UpdateRequest(run[i - 1], order[i], out)

LEMMA UpdatesExists ==
    ASSUME NEW A, NEW order \in Seq(A), NEW base, NEW out
    PROVE  \E run : Updates(run, base, order, out) /\ UpdateRequests(base, order, out) = run[Len(order)]
<1> DEFINE n == Len(order)
           Step(k, i) == UpdateRequest(k, order[i], out)
           Runs(f, m) == f = [s \in SUBSET (1 .. m) |->
                                IF s = {} THEN base
                                ELSE Step(f[s \ {Max(s)}], Max(s))]
           G == {m \in Nat : \E f : Runs(f, m)}
<1>1. \E f : Runs(f, n)
  <2>1. 0 \in G
    <3>1. Runs([s \in SUBSET (1 .. 0) |-> base], 0)
      BY DEF Runs
    <3> QED BY <3>1
  <2>2. ASSUME NEW m \in Nat, m \in G PROVE m + 1 \in G
    <3>1. PICK f : Runs(f, m)
      BY <2>2
    <3> DEFINE g == [s \in SUBSET (1 .. m + 1) |->
                       IF m + 1 \in s THEN Step(f[s \ {m + 1}], m + 1) ELSE f[s]]
    <3>2. ASSUME NEW s \in SUBSET (1 .. m + 1)
          PROVE  g[s] = IF s = {} THEN base ELSE Step(g[s \ {Max(s)}], Max(s))
      <4>1. CASE m + 1 \in s
        <5>1. Max(s) = m + 1
          BY <4>1, MaxTop
        <5>2. s \ {m + 1} \in SUBSET (1 .. m + 1) /\ m + 1 \notin s \ {m + 1}
          OBVIOUS
        <5> HIDE DEF Step
        <5> QED BY <4>1, <5>1, <5>2
      <4>2. CASE m + 1 \notin s
        <5>1. s \in SUBSET (1 .. m)
          BY <4>2
        <5>2. f[s] = IF s = {} THEN base ELSE Step(f[s \ {Max(s)}], Max(s))
          BY <3>1, <5>1
        <5>3. s \ {Max(s)} \in SUBSET (1 .. m + 1) /\ m + 1 \notin s \ {Max(s)}
          BY <4>2
        <5> HIDE DEF Step
        <5> QED BY <4>2, <5>2, <5>3
      <4> QED BY <4>1, <4>2
    <3>3. g = [s \in SUBSET (1 .. m + 1) |-> g[s]]
      OBVIOUS
    <3> HIDE DEF g, Step
    <3>4. Runs(g, m + 1)
      BY <3>2, <3>3
    <3> HIDE DEF Runs
    <3> QED BY <3>4
  <2> HIDE DEF G
  <2>3. Nat \subseteq G
    BY <2>1, <2>2, SetInduction
  <2>4. n \in G
    BY <2>3
  <2> QED BY <2>4 DEF G
<1> DEFINE it == CHOOSE f : Runs(f, n)
<1>2. Runs(it, n)
  BY <1>1
<1>3. UpdateRequests(base, order, out) = it[1 .. n]
  <2>1. DOMAIN order = 1 .. n
    OBVIOUS
  <2> QED BY <2>1 DEF UpdateRequests, FoldLeft, MapThenFoldSet
<1> DEFINE run == [i \in 0 .. n |-> it[1 .. i]]
<1>4. run[0] = base
  <2>1. (1 .. 0) = {} /\ {} \in SUBSET (1 .. n)
    OBVIOUS
  <2>2. it[{}] = base
    BY <1>2, <2>1
  <2> QED BY <2>1, <2>2
<1>5. ASSUME NEW i \in 1 .. n PROVE run[i] = Step(run[i - 1], i)
  <2>1. (1 .. i) \in SUBSET (1 .. n) /\ i \in 1 .. i /\ (1 .. i) \ {i} = 1 .. (i - 1)
    OBVIOUS
  <2>2. Max(1 .. i) = i
    BY <2>1, MaxTop
  <2>3. it[1 .. i] = Step(it[(1 .. i) \ {Max(1 .. i)}], Max(1 .. i))
    BY <1>2, <2>1
  <2>4. run[i] = it[1 .. i] /\ run[i - 1] = it[1 .. (i - 1)]
    OBVIOUS
  <2> HIDE DEF Step, run, it
  <2> QED BY <2>1, <2>2, <2>3, <2>4
<1>6. DOMAIN run = 0 .. n /\ run[n] = it[1 .. n]
  OBVIOUS
<1> HIDE DEF it, run
<1> QED BY <1>3, <1>4, <1>5, <1>6 DEF Updates

-----------------------------------------------------------------------------
(* What the operations on the queues and the loops compute                  *)

LEMMA RemoveRequestsSpec ==
    ASSUME NEW queue \in Seq(Request), NEW S
    PROVE  /\ RemoveRequests(queue, S) \in Seq(Request)
           /\ ToSet(RemoveRequests(queue, S)) = ToSet(queue) \ S
           /\ Len(RemoveRequests(queue, S)) <= Len(queue)
           /\ ToSet(queue) \cap S # {} => Len(RemoveRequests(queue, S)) < Len(queue)
           /\ IsInjective(queue) => IsInjective(RemoveRequests(queue, S))
<1> DEFINE T == ToSet(queue) \ S
<1>1. /\ Among(queue, T) \in Seq(Request)
      /\ ToSet(Among(queue, T)) = ToSet(queue) \cap T
      /\ Len(Among(queue, T)) <= Len(queue)
      /\ (\E x \in ToSet(queue) : x \notin T) => Len(Among(queue, T)) < Len(queue)
      /\ IsInjective(queue) => IsInjective(Among(queue, T))
  BY AmongSpec
<1>2. ToSet(queue) \cap S # {} => \E x \in ToSet(queue) : x \notin T
  OBVIOUS
<1>3. ToSet(queue) \cap T = ToSet(queue) \ S
  OBVIOUS
<1> HIDE DEF T
<1>4. RemoveRequests(queue, S) = Among(queue, T)
  BY DEF RemoveRequests, T
<1> QED BY <1>1, <1>2, <1>3, <1>4

\* The queue with r between the elements outside S and those of S.
Insert(queue, r, S) == Among(queue, ToSet(queue) \ S) \o <<r>> \o Among(queue, S)

LEMMA InsertSpec ==
    ASSUME NEW queue \in Seq(Request), NEW r \in Request, NEW S, S \subseteq ToSet(queue)
    PROVE  /\ Insert(queue, r, S) \in Seq(Request)
           /\ ToSet(Insert(queue, r, S)) = ToSet(queue) \cup {r}
           /\ IsInjective(queue) /\ r \notin ToSet(queue) => IsInjective(Insert(queue, r, S))
<1> DEFINE T == ToSet(queue) \ S
           a == Among(queue, T)
           b == Among(queue, S)
<1>1. /\ a \in Seq(Request) /\ ToSet(a) = ToSet(queue) \cap T
      /\ IsInjective(queue) => IsInjective(a)
  BY AmongSpec
<1>2. /\ b \in Seq(Request) /\ ToSet(b) = ToSet(queue) \cap S
      /\ IsInjective(queue) => IsInjective(b)
  BY AmongSpec
<1>3. /\ <<r>> \in Seq(Request) /\ ToSet(<<r>>) = {r} /\ IsInjective(<<r>>)
  BY SingletonSpec
<1> DEFINE c == a \o <<r>>
           d == c \o b
<1> HIDE DEF a, b
<1>4. /\ c \in Seq(Request) /\ ToSet(c) = ToSet(a) \cup {r}
      /\ IsInjective(queue) /\ r \notin ToSet(queue) => IsInjective(c)
  <2> DEFINE e == <<r>>
  <2> HIDE DEF e
  <2>1. e \in Seq(Request) /\ ToSet(e) = {r} /\ IsInjective(e)
    BY <1>3 DEF e
  <2>2. /\ a \o e \in Seq(Request) /\ ToSet(a \o e) = ToSet(a) \cup ToSet(e)
        /\ IsInjective(a) /\ ToSet(a) \cap ToSet(e) = {} => IsInjective(a \o e)
    BY <1>1, <2>1, ConcatSpec
  <2>3. c = a \o e
    BY DEF e
  <2> QED BY <1>1, <2>1, <2>2, <2>3
<1> HIDE DEF c
<1>5. /\ d \in Seq(Request) /\ ToSet(d) = ToSet(c) \cup ToSet(b)
      /\ IsInjective(queue) /\ r \notin ToSet(queue) => IsInjective(d)
  <2>1. /\ c \o b \in Seq(Request) /\ ToSet(c \o b) = ToSet(c) \cup ToSet(b)
        /\ IsInjective(c) /\ IsInjective(b) /\ ToSet(c) \cap ToSet(b) = {}
             => IsInjective(c \o b)
    BY <1>2, <1>4, ConcatSpec
  <2>2. r \notin ToSet(queue) => ToSet(c) \cap ToSet(b) = {}
    BY <1>1, <1>2, <1>4
  <2> QED BY <1>2, <1>4, <2>1, <2>2
<1> HIDE DEF d
<1>6. d = Insert(queue, r, S)
  BY DEF a, b, c, d, Insert
<1>7. ToSet(d) = ToSet(queue) \cup {r}
  BY <1>1, <1>2, <1>4, <1>5
<1> QED BY <1>5, <1>6, <1>7

LEMMA AddToQueueSpec ==
    ASSUME NEW queue \in Seq(Request), NEW r \in Request
    PROVE  /\ AddToQueue(queue, r) \in Seq(Request)
           /\ ToSet(AddToQueue(queue, r)) = ToSet(queue) \cup {r}
           /\ IsInjective(queue) /\ r \notin ToSet(queue) => IsInjective(AddToQueue(queue, r))
<1>1. CASE Policy = "fcfs"
  BY <1>1, AppendSpec DEF AddToQueue
<1>2. CASE Policy # "fcfs"
  <2> DEFINE S == {s \in ToSet(queue) : Priority[s] > Priority[r]}
  <2>1. S \subseteq ToSet(queue)
    OBVIOUS
  <2>2. AddToQueue(queue, r) = Insert(queue, r, S)
    BY <1>2 DEF AddToQueue, Insert
  <2> HIDE DEF S
  <2> QED BY <2>1, <2>2, InsertSpec
<1> QED BY <1>1, <1>2

LEMMA PrependRequestSpec ==
    ASSUME NEW queue \in Seq(Request), NEW r \in Request
    PROVE  /\ PrependRequest(queue, r) \in Seq(Request)
           /\ ToSet(PrependRequest(queue, r)) = ToSet(queue) \cup {r}
           /\ IsInjective(queue) /\ r \notin ToSet(queue)
                => IsInjective(PrependRequest(queue, r))
<1>1. CASE Policy = "fcfs"
  <2>1. /\ <<r>> \in Seq(Request) /\ ToSet(<<r>>) = {r} /\ IsInjective(<<r>>)
    BY SingletonSpec
  <2> DEFINE e == <<r>>
  <2>2. PrependRequest(queue, r) = e \o queue
    BY <1>1 DEF PrependRequest
  <2> HIDE DEF e
  <2>3. /\ e \o queue \in Seq(Request) /\ ToSet(e \o queue) = ToSet(e) \cup ToSet(queue)
        /\ IsInjective(e) /\ IsInjective(queue) /\ ToSet(e) \cap ToSet(queue) = {}
             => IsInjective(e \o queue)
    <3>1. e \in Seq(Request)
      BY <2>1 DEF e
    <3> QED BY <3>1, ConcatSpec
  <2>4. ToSet(e) = {r} /\ IsInjective(e)
    BY <2>1 DEF e
  <2> QED BY <2>2, <2>3, <2>4
<1>2. CASE Policy # "fcfs"
  <2> DEFINE S == {s \in ToSet(queue) : Before(r, s)}
  <2>1. S \subseteq ToSet(queue)
    OBVIOUS
  <2>2. PrependRequest(queue, r) = Insert(queue, r, S)
    BY <1>2 DEF PrependRequest, InsertSorted, Insert
  <2> HIDE DEF S
  <2> QED BY <2>1, <2>2, InsertSpec
<1> QED BY <1>1, <1>2

LEMMA PrependRequestsSpec ==
    ASSUME NEW queue \in Seq(Request), NEW order \in Seq(Request), IsInjective(queue),
           IsInjective(order), ToSet(queue) \cap ToSet(order) = {}
    PROVE  /\ PrependRequests(queue, order) \in Seq(Request)
           /\ ToSet(PrependRequests(queue, order)) = ToSet(queue) \cup ToSet(order)
           /\ IsInjective(PrependRequests(queue, order))
<1> DEFINE n == Len(order)
<1>1. PICK run : Prepends(run, queue, order) /\ PrependRequests(queue, order) = run[n]
  BY PrependsExists
<1>2. /\ n \in Nat /\ \A i \in 1 .. n : order[i] \in Request
      /\ \A x : x \in ToSet(order) <=> \E i \in 1 .. n : order[i] = x
      /\ \A i, j \in 1 .. n : order[i] = order[j] => i = j
  BY ToSetSpec
<1> DEFINE P(i) ==
      /\ run[i] \in Seq(Request) /\ IsInjective(run[i])
      /\ \A x : x \in ToSet(run[i]) <=> x \in ToSet(queue) \/ \E j \in 1 .. i : order[j] = x
<1> DEFINE G == {i \in Nat : i <= n => P(i)}
<1>3. 0 \in G
  <2>1. run[0] = queue
    BY <1>1 DEF Prepends
  <2>2. ~ \E j \in 1 .. 0 : TRUE
    OBVIOUS
  <2>3. P(0)
    BY <2>1, <2>2
  <2> QED BY <2>3
<1>4. ASSUME NEW m \in Nat, m \in G PROVE m + 1 \in G
  <2> SUFFICES ASSUME m + 1 <= n PROVE P(m + 1)
    OBVIOUS
  <2>1. P(m) /\ m + 1 \in 1 .. n /\ order[m + 1] \in Request
    BY <1>2, <1>4
  <2>2. run[m + 1] = PrependRequest(run[m], order[m + 1])
    BY <1>1, <2>1 DEF Prepends
  <2>3. \A j : j \in 1 .. m + 1 <=> j \in 1 .. m \/ j = m + 1
    OBVIOUS
  <2>4. order[m + 1] \notin ToSet(run[m])
    <3>1. \A j \in 1 .. m : order[j] # order[m + 1]
      BY <1>2, <2>1
    <3>2. order[m + 1] \notin ToSet(queue)
      BY <1>2, <2>1
    <3> QED BY <2>1, <3>1, <3>2
  <2>5. /\ run[m + 1] \in Seq(Request) /\ IsInjective(run[m + 1])
        /\ ToSet(run[m + 1]) = ToSet(run[m]) \cup {order[m + 1]}
    <3> DEFINE q == run[m]
               x == order[m + 1]
    <3>1. /\ q \in Seq(Request) /\ IsInjective(q) /\ x \in Request /\ x \notin ToSet(q)
          /\ run[m + 1] = PrependRequest(q, x)
      BY <2>1, <2>2, <2>4
    <3> HIDE DEF P, q, x
    <3>2. /\ run[m + 1] \in Seq(Request) /\ IsInjective(run[m + 1])
          /\ ToSet(run[m + 1]) = ToSet(q) \cup {x}
      BY <3>1, PrependRequestSpec
    <3> QED BY <3>2 DEF q, x
  <2> QED BY <2>1, <2>3, <2>5
<1> HIDE DEF G
<1>5. Nat \subseteq G
  BY <1>3, <1>4, SetInduction
<1>6. P(n)
  <2>1. n \in Nat /\ n <= n
    BY <1>2
  <2> QED BY <1>5, <2>1 DEF G
<1>7. ToSet(run[n]) = ToSet(queue) \cup ToSet(order)
  BY <1>2, <1>6
<1> QED BY <1>1, <1>6, <1>7

LEMMA FreeRequestsTables ==
    ASSUME NEW m, KVShape(m), NEW order \in Seq(Request)
    PROVE  /\ KVShape(FreeRequests(m, order))
           /\ \A r \in Request : FreeRequests(m, order).table[r] =
                                   IF r \in ToSet(order) THEN <<>> ELSE m.table[r]
<1> DEFINE n == Len(order)
<1>1. PICK run : Frees(run, m, order) /\ FreeRequests(m, order) = run[n]
  BY FreesExists
<1>2. /\ n \in Nat /\ \A i \in 1 .. n : order[i] \in Request
      /\ \A x : x \in ToSet(order) <=> \E i \in 1 .. n : order[i] = x
  BY ToSetSpec
<1> DEFINE P(i) ==
      /\ KVShape(run[i])
      /\ \A r \in Request : run[i].table[r] =
            IF \E j \in 1 .. i : order[j] = r THEN <<>> ELSE m.table[r]
<1> DEFINE G == {i \in Nat : i <= n => P(i)}
<1>3. 0 \in G
  <2>1. run[0] = m
    BY <1>1 DEF Frees
  <2>2. ~ \E j \in 1 .. 0 : TRUE
    OBVIOUS
  <2>3. P(0)
    BY <2>1, <2>2
  <2> QED BY <2>3
<1>4. ASSUME NEW i \in Nat, i \in G PROVE i + 1 \in G
  <2> SUFFICES ASSUME i + 1 <= n PROVE P(i + 1)
    OBVIOUS
  <2>1. P(i) /\ i + 1 \in 1 .. n /\ order[i + 1] \in Request
    BY <1>2, <1>4
  <2>2. run[i + 1] = FreeRequest(run[i], order[i + 1])
    BY <1>1, <2>1 DEF Frees
  <2>3. \A j : j \in 1 .. i + 1 <=> j \in 1 .. i \/ j = i + 1
    OBVIOUS
  <2>4. KVShape(run[i + 1]) /\ run[i + 1].table = [run[i].table EXCEPT ![order[i + 1]] = <<>>]
    <3> DEFINE a == run[i]
               x == order[i + 1]
    <3>1. KVShape(a) /\ x \in Request /\ run[i + 1] = FreeRequest(a, x)
      BY <2>1, <2>2
    <3> HIDE DEF P, a, x
    <3>2. KVShape(FreeRequest(a, x)) /\ FreeRequest(a, x).table = [a.table EXCEPT ![x] = <<>>]
      BY <3>1, FreeRequestTables
    <3>3. KVShape(run[i + 1]) /\ run[i + 1].table = [a.table EXCEPT ![x] = <<>>]
      BY <3>1, <3>2
    <3> QED BY <3>3 DEF a, x
  <2>5. ASSUME NEW r \in Request
        PROVE  run[i + 1].table[r] =
                 IF \E j \in 1 .. i + 1 : order[j] = r THEN <<>> ELSE m.table[r]
    <3>1. run[i + 1].table[r] = IF r = order[i + 1] THEN <<>> ELSE run[i].table[r]
      BY <2>1, <2>4 DEF KVShape
    <3> QED BY <2>1, <2>3, <3>1
  <2> QED BY <2>4, <2>5
<1> HIDE DEF G
<1>5. Nat \subseteq G
  BY <1>3, <1>4, SetInduction
<1>6. P(n)
  <2>1. n \in Nat /\ n <= n
    BY <1>2
  <2> QED BY <1>5, <2>1 DEF G
<1> QED BY <1>1, <1>2, <1>6

-----------------------------------------------------------------------------
(* update_from_output                                                       *)

ReqFields == {"status", "arrival", "computed", "output", "placeholders", "discard"}

\* The records of the requests.
ReqShape(rq) ==
    /\ DOMAIN rq = Request
    /\ \A r \in Request : DOMAIN rq[r] = ReqFields /\ rq[r].status \in Status

Live == Queued \cup {"RUNNING"}

\* What the loop over a batch carries along.
UpdateShape(s) ==
    /\ DOMAIN s = {"req", "kv", "faults", "stopped"}
    /\ ReqShape(s.req) /\ KVShape(s.kv)

\* x goes on, or its update is skipped.
GoesOn(s, t, x) ==
    /\ t.stopped = s.stopped
    /\ t.req[x].status = s.req[x].status
    /\ t.kv.table[x] = s.kv.table[x]
    /\ s.req[x].status \in Finished => t.req[x].output = s.req[x].output

\* x stops.
Stops(s, t, x) ==
    /\ t.stopped = s.stopped \cup {x}
    /\ s.req[x].status \in Live /\ t.req[x].status \in Finished
    /\ t.kv.table[x] = <<>>

LEMMA UpdateRequestSpec ==
    ASSUME NEW s, UpdateShape(s), NEW x \in Request, NEW out
    PROVE  LET t == UpdateRequest(s, x, out)
           IN  /\ UpdateShape(t)
               /\ \A r \in Request \ {x} : /\ t.req[r] = s.req[r]
                                           /\ t.kv.table[r] = s.kv.table[r]
               /\ \A r \in Request : t.req[r].arrival = s.req[r].arrival
               /\ GoesOn(s, t, x) \/ Stops(s, t, x)
<1> DEFINE q0   == s.req[x]
           q1   == [q0 EXCEPT !.output = Append(@, out[x].token)]
           done == StatusAfter(x, q1)
           q2   == [q1 EXCEPT !.status = done]
           b    == AsyncBookkeeping(x, q0, q2, s.kv)
           bad  == {f \in {"misplaced token"} : out[x].after # Prompt[x] \o q0.output}
                     \cup {f \in {"placeholder underflow"} : b.q.placeholders < 0}
           stop == done \in Finished
           m    == IF stop THEN FreeRequest(b.m, x) ELSE b.m
           st   == IF stop THEN s.stopped \cup {x} ELSE s.stopped
           t1   == [s EXCEPT !.req[x].discard = FALSE]
           t2   == [s EXCEPT !.req[x] = b.q, !.kv = m, !.faults = @ \cup bad, !.stopped = st]
           t    == UpdateRequest(s, x, out)
<1>1. t = IF ~TakesOutput(q0, x, out) THEN s ELSE IF DiscardsOutput(q0) THEN t1 ELSE t2
  BY DEF UpdateRequest
<1>2. DOMAIN q0 = ReqFields /\ q0.status \in Status /\ KVShape(s.kv)
  BY DEF UpdateShape, ReqShape
<1>3. /\ DOMAIN q1 = ReqFields /\ q1.status = q0.status /\ q1.arrival = q0.arrival
  BY <1>2 DEF ReqFields
<1>4. done \in Finished \cup {q0.status}
  BY <1>3 DEF StatusAfter, Finished
<1> HIDE DEF q1, done
<1>5. DOMAIN q2 = ReqFields /\ q2.status = done /\ q2.arrival = q0.arrival
  BY <1>3 DEF ReqFields
<1> HIDE DEF q2
<1>6. /\ DOMAIN b.q = ReqFields /\ b.q.status = done /\ b.q.arrival = q0.arrival
      /\ KVShape(b.m) /\ b.m.table = s.kv.table
  <2> DEFINE q3 == [q2 EXCEPT !.placeholders = @ - 1]
             tokens == Prompt[x] \o q2.output
             m1 == CacheBlocks(s.kv, x, tokens, q3.computed - q3.placeholders)
             m2 == IF EnableCaching /\ q0.status = "RUNNING" THEN m1 ELSE s.kv
  <2>1. DOMAIN q3 = ReqFields /\ q3.status = done /\ q3.arrival = q0.arrival
    BY <1>5 DEF ReqFields
  <2>2. KVShape(m1) /\ m1.table = s.kv.table
    BY <1>2, CacheBlocksTables
  <2>3. b = IF ~Async THEN [q |-> q2, m |-> s.kv] ELSE [q |-> q3, m |-> m2]
    BY DEF AsyncBookkeeping
  <2> HIDE DEF b, q3, m1
  <2> QED BY <1>2, <1>5, <2>1, <2>2, <2>3
<1> HIDE DEF b
<1>7. /\ KVShape(m)
      /\ \A r \in Request : r # x => m.table[r] = s.kv.table[r]
      /\ m.table[x] = IF stop THEN <<>> ELSE s.kv.table[x]
  <2>1. KVShape(FreeRequest(b.m, x)) /\ FreeRequest(b.m, x).table = [b.m.table EXCEPT ![x] = <<>>]
    BY <1>6, FreeRequestTables
  <2> QED BY <1>2, <1>6, <2>1 DEF KVShape
<1> HIDE DEF q0, bad, stop, m, st
<1>8. CASE ~TakesOutput(q0, x, out)
  BY <1>1, <1>8 DEF GoesOn
<1>9. CASE TakesOutput(q0, x, out) /\ DiscardsOutput(q0)
  <2>1. t = t1
    BY <1>1, <1>9
  <2>2. UpdateShape(t1)
    BY DEF UpdateShape, ReqShape, ReqFields
  <2>3. /\ \A r \in Request \ {x} : t1.req[r] = s.req[r] /\ t1.kv.table[r] = s.kv.table[r]
        /\ \A r \in Request : t1.req[r].arrival = s.req[r].arrival
    BY DEF UpdateShape, ReqShape, ReqFields
  <2>4. GoesOn(s, t1, x)
    BY DEF UpdateShape, ReqShape, ReqFields, GoesOn
  <2> HIDE DEF t, t1
  <2> QED BY <2>1, <2>2, <2>3, <2>4 DEF t
<1>10. CASE TakesOutput(q0, x, out) /\ ~DiscardsOutput(q0)
  <2>1. t = t2 /\ q0.status \in Live
    BY <1>1, <1>10 DEF TakesOutput, Live
  <2>2. /\ DOMAIN t2 = {"req", "kv", "faults", "stopped"}
        /\ t2.req = [s.req EXCEPT ![x] = b.q] /\ t2.kv = m /\ t2.stopped = st
    BY DEF UpdateShape
  <2> HIDE DEF t2
  <2>3. /\ DOMAIN t2.req = Request /\ t2.req[x] = b.q
        /\ \A r \in Request \ {x} : t2.req[r] = s.req[r]
    BY <2>2 DEF UpdateShape, ReqShape
  <2>4. done \in Status
    BY <1>2, <1>4 DEF Status
  <2>5. UpdateShape(t2)
    BY <1>6, <1>7, <2>2, <2>3, <2>4 DEF UpdateShape, ReqShape
  <2>6. \A r \in Request : t2.req[r].arrival = s.req[r].arrival
    BY <1>6, <2>3 DEF q0
  <2>7a. t2.req[x].status = done
    BY <1>6, <2>3
  <2>7. ASSUME stop PROVE Stops(s, t2, x)
    <3>1. done \in Finished
      BY <2>7 DEF stop
    <3>2. t2.stopped = s.stopped \cup {x}
      BY <2>2, <2>7 DEF st
    <3>3. t2.kv.table[x] = <<>>
      BY <1>7, <2>2, <2>7
    <3>4. s.req[x].status \in Live
      BY <2>1 DEF q0
    <3> QED BY <2>7a, <3>1, <3>2, <3>3, <3>4 DEF Stops
  <2>8. ASSUME ~stop PROVE GoesOn(s, t2, x)
    <3>1. done = q0.status /\ q0.status \notin Finished
      BY <1>4, <2>1, <2>8 DEF stop, Finished, Live, Queued
    <3>2. t2.stopped = s.stopped
      BY <2>2, <2>8 DEF st
    <3>3. t2.kv.table[x] = s.kv.table[x]
      BY <1>7, <2>2, <2>8
    <3>4. t2.req[x].status = s.req[x].status /\ s.req[x].status \notin Finished
      BY <2>7a, <3>1 DEF q0
    <3> QED BY <3>2, <3>3, <3>4 DEF GoesOn
  <2>9. \A r \in Request \ {x} : t2.kv.table[r] = s.kv.table[r]
    BY <1>7, <2>2
  <2> HIDE DEF t
  <2> QED BY <2>1, <2>3, <2>5, <2>6, <2>7, <2>8, <2>9 DEF t
<1> QED BY <1>8, <1>9, <1>10

\* What the loop has made of the requests it went through.
Applied(s, t) ==
    /\ UpdateShape(t)
    /\ t.stopped \subseteq Request
    /\ \A r \in Request : t.req[r].arrival = s.req[r].arrival
    /\ \A r \in t.stopped :
          /\ s.req[r].status \in Live /\ t.req[r].status \in Finished
          /\ t.kv.table[r] = <<>>
    /\ \A r \in Request \ t.stopped :
          /\ t.req[r].status = s.req[r].status
          /\ t.kv.table[r] = s.kv.table[r]
          /\ s.req[r].status \in Finished => t.req[r].output = s.req[r].output

LEMMA AppliedStep ==
    ASSUME NEW s, NEW t, NEW u, NEW x \in Request, Applied(s, t), UpdateShape(u),
           \A r \in Request \ {x} : u.req[r] = t.req[r] /\ u.kv.table[r] = t.kv.table[r],
           \A r \in Request : u.req[r].arrival = t.req[r].arrival,
           GoesOn(t, u, x) \/ Stops(t, u, x)
    PROVE  Applied(s, u)
<1>1. \A r : r \in Live => r \notin Finished
  BY DEF Live, Queued, Finished
<1>2. CASE GoesOn(t, u, x)
  <2>1. ASSUME NEW r \in u.stopped
        PROVE  /\ s.req[r].status \in Live /\ u.req[r].status \in Finished
               /\ u.kv.table[r] = <<>>
    BY <1>2, <2>1 DEF Applied, GoesOn
  <2>2. ASSUME NEW r \in Request \ u.stopped
        PROVE  /\ u.req[r].status = s.req[r].status
               /\ u.kv.table[r] = s.kv.table[r]
               /\ s.req[r].status \in Finished => u.req[r].output = s.req[r].output
    BY <1>2, <2>2 DEF Applied, GoesOn
  <2>3. u.stopped \subseteq Request
    BY <1>2 DEF Applied, GoesOn
  <2> QED BY <2>1, <2>2, <2>3 DEF Applied
<1>3. CASE Stops(t, u, x)
  <2>1. x \notin t.stopped
    BY <1>1, <1>3 DEF Applied, Stops
  <2>2. ASSUME NEW r \in u.stopped
        PROVE  /\ s.req[r].status \in Live /\ u.req[r].status \in Finished
               /\ u.kv.table[r] = <<>>
    BY <1>3, <2>1, <2>2 DEF Applied, Stops
  <2>3. ASSUME NEW r \in Request \ u.stopped
        PROVE  /\ u.req[r].status = s.req[r].status
               /\ u.kv.table[r] = s.kv.table[r]
               /\ s.req[r].status \in Finished => u.req[r].output = s.req[r].output
    BY <1>3, <2>3 DEF Applied, Stops
  <2>4. u.stopped \subseteq Request
    BY <1>3 DEF Applied, Stops
  <2> QED BY <2>2, <2>3, <2>4 DEF Applied
<1> QED BY <1>2, <1>3

LEMMA UpdateRequestsSpec ==
    ASSUME NEW s, UpdateShape(s), s.stopped = {}, NEW order \in Seq(Request), NEW out
    PROVE  Applied(s, UpdateRequests(s, order, out))
<1> DEFINE n == Len(order)
<1>1. PICK run : Updates(run, s, order, out) /\ UpdateRequests(s, order, out) = run[n]
  BY UpdatesExists
<1>2. n \in Nat /\ \A i \in 1 .. n : order[i] \in Request
  OBVIOUS
<1> DEFINE G == {i \in Nat : i <= n => Applied(s, run[i])}
<1>3. 0 \in G
  <2>1. run[0] = s
    BY <1>1 DEF Updates
  <2>2. Applied(s, s)
    BY DEF Applied
  <2> QED BY <2>1, <2>2
<1>4. ASSUME NEW i \in Nat, i \in G PROVE i + 1 \in G
  <2> SUFFICES ASSUME i + 1 <= n PROVE Applied(s, run[i + 1])
    OBVIOUS
  <2> DEFINE t == run[i]
             x == order[i + 1]
  <2>1. Applied(s, t) /\ i + 1 \in 1 .. n /\ x \in Request
    BY <1>2, <1>4
  <2>2. run[i + 1] = UpdateRequest(t, x, out)
    BY <1>1, <2>1 DEF Updates
  <2> HIDE DEF t, x
  <2> DEFINE u == UpdateRequest(t, x, out)
  <2>3. /\ UpdateShape(u)
        /\ \A r \in Request \ {x} : u.req[r] = t.req[r] /\ u.kv.table[r] = t.kv.table[r]
        /\ \A r \in Request : u.req[r].arrival = t.req[r].arrival
        /\ GoesOn(t, u, x) \/ Stops(t, u, x)
    <3>1. UpdateShape(t)
      BY <2>1 DEF Applied
    <3> QED BY <2>1, <3>1, UpdateRequestSpec
  <2> HIDE DEF u
  <2>4. Applied(s, u)
    BY <2>1, <2>3, AppliedStep
  <2> QED BY <2>2, <2>4 DEF u
<1> HIDE DEF G
<1>5. Nat \subseteq G
  BY <1>3, <1>4, SetInduction
<1>6. Applied(s, run[n])
  <2>1. n \in Nat /\ n <= n
    BY <1>2
  <2> QED BY <1>5, <2>1 DEF G
<1> QED BY <1>1, <1>6

-----------------------------------------------------------------------------
(* The preemption victim                                                    *)

LEMMA ConfigSpec ==
    ASSUME config \in Configs
    PROVE  /\ SchedulerConfig(config)
           /\ DOMAIN Prompt \subseteq Request
           /\ \A r \in DOMAIN Prompt : Priority[r] \in Nat
  BY SchedulerAssumption DEF SchedulerConfig, Prompt, Priority

LEMMA BeforeAll ==
    ASSUME NEW a, NEW b, NEW c,
           \A x \in {a, b, c} : Priority[x] \in Nat /\ req[x].arrival \in Nat,
           Before(a, b), ~Before(a, c)
    PROVE  ~Before(b, c)
  BY DEF Before

\* The order of the priority policy has a last element among the first n.
LEMMA LastOneExists ==
    ASSUME NEW s \in Seq(Request), s # <<>>,
           \A r \in ToSet(s) : Priority[r] \in Nat /\ req[r].arrival \in Nat
    PROVE  \E v \in ToSet(s) : \A t \in ToSet(s) : ~Before(v, t)
<1> DEFINE n == Len(s)
           P(i) == \E k \in 1 .. i : \A j \in 1 .. i : ~Before(s[k], s[j])
           G == {i \in Nat : i # 0 /\ i <= n => P(i)}
<1>1. /\ n \in Nat \ {0}
      /\ \A x : x \in ToSet(s) <=> \E i \in 1 .. n : s[i] = x
      /\ \A i \in 1 .. n : Priority[s[i]] \in Nat /\ req[s[i]].arrival \in Nat
  <2>1. \A x : x \in ToSet(s) <=> \E i \in 1 .. n : s[i] = x
    BY ToSetSpec
  <2>2. n \in Nat \ {0}
    OBVIOUS
  <2> QED BY <2>1, <2>2
<1>2. 0 \in G
  OBVIOUS
<1>3. ASSUME NEW i \in Nat, i \in G PROVE i + 1 \in G
  <2> SUFFICES ASSUME i + 1 <= n PROVE P(i + 1)
    OBVIOUS
  <2>1. /\ \A j : j \in 1 .. i + 1 <=> j \in 1 .. i \/ j = i + 1
        /\ \A j \in 1 .. i + 1 : j \in 1 .. n
        /\ i + 1 \in 1 .. i + 1
    BY <1>1
  <2>2. \A j \in 1 .. i + 1 : Priority[s[j]] \in Nat /\ req[s[j]].arrival \in Nat
    BY <1>1, <2>1
  <2>3. ~Before(s[i + 1], s[i + 1])
    BY <2>1, <2>2 DEF Before
  <2>4. CASE i = 0
    <3>1. \A j \in 1 .. i + 1 : j = i + 1
      BY <2>4
    <3> QED BY <2>1, <2>3, <3>1
  <2>5. CASE i # 0
    <3>1. PICK k \in 1 .. i : \A j \in 1 .. i : ~Before(s[k], s[j])
      BY <1>1, <1>3, <2>5
    <3>2. CASE ~Before(s[k], s[i + 1])
      BY <2>1, <3>1, <3>2
    <3>3. CASE Before(s[k], s[i + 1])
      <4>1. ASSUME NEW j \in 1 .. i PROVE ~Before(s[i + 1], s[j])
        <5>1. ~Before(s[k], s[j])
          BY <3>1
        <5>2. j \in 1 .. i + 1 /\ k \in 1 .. i + 1 /\ i + 1 \in 1 .. i + 1
          BY <2>1
        <5>3. \A x \in {s[k], s[i + 1], s[j]} : Priority[x] \in Nat /\ req[x].arrival \in Nat
          BY <2>2, <5>2
        <5> QED BY <3>3, <5>1, <5>3, BeforeAll
      <4> QED BY <2>1, <2>3, <4>1
    <3> QED BY <3>2, <3>3
  <2> QED BY <2>4, <2>5
<1> HIDE DEF G
<1>4. Nat \subseteq G
  BY <1>2, <1>3, SetInduction
<1>5. P(n)
  <2>1. n \in Nat /\ n # 0 /\ n <= n
    BY <1>1
  <2>2. n \in G
    BY <1>4, <2>1
  <2> HIDE DEF P
  <2> QED BY <2>1, <2>2 DEF G
<1>6. PICK k \in 1 .. n : \A j \in 1 .. n : ~Before(s[k], s[j])
  BY <1>5
<1>7. s[k] \in ToSet(s)
  BY <1>1
<1>8. ASSUME NEW t \in ToSet(s) PROVE ~Before(s[k], t)
  <2>1. PICK j \in 1 .. n : s[j] = t
    BY <1>1
  <2> QED BY <1>6, <2>1
<1> QED BY <1>7, <1>8

LEMMA VictimSpec ==
    ASSUME config \in Configs, running \in Seq(Request), running # <<>>,
           ToSet(running) \subseteq DOMAIN Prompt,
           \A r \in Request : req[r].arrival \in Nat
    PROVE  PreemptionVictim \in ToSet(running)
<1>1. CASE Policy = "fcfs"
  <2>1. Len(running) \in 1 .. Len(running)
    OBVIOUS
  <2>2. running[Len(running)] \in ToSet(running)
    BY <2>1, ToSetSpec
  <2> QED BY <1>1, <2>2 DEF PreemptionVictim, Last
<1>2. CASE Policy # "fcfs"
  <2>1. \A r \in ToSet(running) : Priority[r] \in Nat /\ req[r].arrival \in Nat
    BY ConfigSpec, ToSetSpec
  <2>2. \E v \in ToSet(running) : \A t \in ToSet(running) : ~Before(v, t)
    BY <2>1, LastOneExists
  <2> QED BY <1>2, <2>2 DEF PreemptionVictim
<1> QED BY <1>1, <1>2

-----------------------------------------------------------------------------
(* The inductive invariant                                                  *)

Sent(rq) == {r \in Request : rq[r].status # "NEW"}

\* The records of the requests; finitely many have been sent.
ReqInv(rq, c) ==
    /\ ReqShape(rq)
    /\ Sent(rq) \subseteq DOMAIN c.prompt
    /\ IsFiniteSet(Sent(rq))
    /\ \A r \in Request : rq[r].arrival \in Nat

\* QueuesMatchStatus, of given queues and requests.
Placed(rq, w, run, m) ==
    /\ w \in Seq(Request) /\ run \in Seq(Request)
    /\ IsInjective(w) /\ IsInjective(run)
    /\ ToSet(run) = {r \in Request : rq[r].status = "RUNNING"}
    /\ ToSet(w) = {r \in Request : rq[r].status \in Queued}
    /\ \A r \in Request : m.table[r] # <<>> => rq[r].status = "RUNNING"

StepFields == {"phase", "idx", "cur", "want", "budget", "num", "order", "fresh",
               "preempted", "stop"}

\* The loop over the running requests is past those it has scheduled, so a
\* victim that gives its place back leaves the index in the queue, and the
\* request it preempts others for is still running.
StepInv(st, run) ==
    /\ DOMAIN st = StepFields /\ DOMAIN st.num = Request
    /\ st.order \in Seq(Request)
    /\ st.phase = "running" =>
          /\ st.idx \in Nat /\ Len(st.order) < st.idx
          /\ st.cur # NoRequest => st.cur \in ToSet(run)
          /\ \A r \in Request : st.num[r] > 0 => r \in ToSet(st.order)

\* Every batch in flight lists requests.
BatchInv(batches) ==
    /\ batches \in Seq(ToSet(batches))
    /\ \A b \in ToSet(batches) : b.order \in Seq(Request)

SchedulerInv ==
    /\ config \in Configs
    /\ ReqInv(req, config)
    /\ KVShape(kv)
    /\ Placed(req, waiting, running, kv)
    /\ StepInv(step, running)
    /\ BatchInv(inflight)

\* FinishedIsFinal, of one step.
Final(rq, rq2) ==
    \A r \in Request : rq[r].status \in Finished =>
        rq2[r].status = rq[r].status /\ rq2[r].output = rq[r].output

\* The part of a step that moves requests between the queues.
Moved ==
    /\ ReqInv(req', config)
    /\ KVShape(kv')
    /\ Placed(req', waiting', running', kv')
    /\ Final(req, req')

\* No status is two things at once.
LEMMA StatusesDiffer ==
    /\ \A s : s \in Queued => s # "RUNNING" /\ s # "NEW" /\ s \notin Finished
    /\ \A s : s \in Finished => s # "RUNNING" /\ s # "NEW" /\ s \notin Queued
    /\ "RUNNING" \notin Queued /\ "RUNNING" \notin Finished
    /\ "NEW" \notin Queued /\ "NEW" \notin Finished
    /\ "PREEMPTED" \in Queued /\ "WAITING" \in Queued /\ "FINISHED_ABORTED" \in Finished
    /\ {"NEW", "RUNNING"} \cup Queued \cup Finished = Status
  BY DEF Queued, Finished, Status

LEMMA ReqKept ==
    ASSUME NEW rq, NEW rq2, NEW c, ReqInv(rq, c), ReqShape(rq2),
           \A r \in Request : /\ rq2[r].status = "NEW" <=> rq[r].status = "NEW"
                              /\ rq2[r].arrival = rq[r].arrival
    PROVE  ReqInv(rq2, c)
<1>1. Sent(rq2) = Sent(rq)
  BY DEF Sent
<1> QED BY <1>1 DEF ReqInv

LEMMA PlacedApart ==
    ASSUME NEW rq, NEW w, NEW run, NEW m, Placed(rq, w, run, m)
    PROVE  ToSet(w) \cap ToSet(run) = {}
  BY StatusesDiffer DEF Placed

LEMMA PlacedMatches ==
    ASSUME SchedulerInv
    PROVE  QueuesMatchStatus
<1>1. /\ waiting \in Seq(Request) /\ running \in Seq(Request)
      /\ IsInjective(waiting) /\ IsInjective(running)
  BY DEF SchedulerInv, Placed
<1>2. ToSet(waiting) \cap ToSet(running) = {}
  BY PlacedApart DEF SchedulerInv
<1>3. IsInjective(waiting \o running)
  BY <1>1, <1>2, ConcatSpec
<1> QED BY <1>3 DEF SchedulerInv, Placed, QueuesMatchStatus

LEMMA Unmoved ==
    ASSUME SchedulerInv, UNCHANGED <<req, waiting, running, kv>>
    PROVE  Moved
  BY DEF SchedulerInv, Moved, Final

\* Between two steps the requests move and nothing else does.
LEMMA MovedIdle ==
    ASSUME SchedulerInv, Moved, step.phase # "running", UNCHANGED <<config, step, inflight>>
    PROVE  SchedulerInv' /\ Final(req, req')
<1>1. StepInv(step', running')
  BY DEF SchedulerInv, StepInv
<1> QED BY <1>1 DEF SchedulerInv, Moved

\* A call of schedule() begins or ends.
LEMMA NoStepInv ==
    ASSUME NEW phase, NEW run
    PROVE  StepInv(NoStep(phase), run) /\ NoStep(phase).phase = phase
<1> DEFINE s == NoStep(phase)
<1>1. /\ DOMAIN s = StepFields /\ DOMAIN s.num = Request /\ s.order = <<>> /\ s.idx = 1
      /\ s.cur = NoRequest /\ s.phase = phase /\ \A r \in Request : s.num[r] = 0
  BY DEF NoStep, StepFields
<1> HIDE DEF s
<1>2. <<>> \in Seq(Request) /\ Len(<<>>) = 0
  OBVIOUS
<1> QED BY <1>1, <1>2 DEF StepInv, s

-----------------------------------------------------------------------------
(* The initial state                                                        *)

LEMMA InitInv == Init => SchedulerInv
<1> SUFFICES ASSUME Init PROVE SchedulerInv
  OBVIOUS
<1>1. config \in Configs /\ DOMAIN config.prompt \subseteq Request
  BY ConfigSpec DEF Init, Prompt
<1>2. /\ DOMAIN NewRequest = ReqFields /\ NewRequest.status = "NEW" /\ NewRequest.arrival = 0
      /\ "NEW" \in Status
  BY DEF NewRequest, ReqFields, Status
<1>3. ReqInv(req, config)
  <2>1. DOMAIN req = Request /\ \A r \in Request : req[r] = NewRequest
    BY DEF Init
  <2>2. Sent(req) = {}
    BY <1>2, <2>1 DEF Sent
  <2> QED BY <1>2, <2>1, <2>2, FS_EmptySet DEF ReqInv, ReqShape
<1>4. KVShape(kv) /\ \A r \in Request : kv.table[r] = <<>>
  BY DEF Init, EmptyKV, KVShape, KVFields
<1>5. Placed(req, waiting, running, kv)
  <2>1. waiting = <<>> /\ running = <<>> /\ \A r \in Request : req[r].status = "NEW"
    BY <1>2 DEF Init
  <2>2. <<>> \in Seq(Request) /\ ToSet(<<>>) = {} /\ IsInjective(<<>>)
    BY DEF ToSet, IsInjective
  <2> QED BY <1>4, <2>1, <2>2, StatusesDiffer DEF Placed
<1>6. StepInv(step, running)
  BY NoStepInv DEF Init
<1>7. BatchInv(inflight)
  <2>1. inflight = <<>> /\ ToSet(<<>>) = {} /\ <<>> \in Seq({})
    BY DEF Init, ToSet
  <2> QED BY <2>1 DEF BatchInv
<1> QED BY <1>1, <1>3, <1>4, <1>5, <1>6, <1>7 DEF SchedulerInv

-----------------------------------------------------------------------------
(* Client calls                                                             *)

LEMMA AddRequestInv ==
    ASSUME SchedulerInv, NEW r \in Request, AddRequest(r)
    PROVE  SchedulerInv' /\ Final(req, req')
<1> DEFINE n == 1 + Cardinality(Sent(req))
<1>1. /\ step.phase = "idle" /\ r \in DOMAIN config.prompt /\ req[r].status = "NEW"
      /\ req' = [req EXCEPT ![r].status = "WAITING", ![r].arrival = n]
      /\ waiting' = AddToQueue(waiting, r)
      /\ UNCHANGED <<config, running, kv, step, inflight>>
  BY DEF AddRequest, Sent, Prompt
<1>2. n \in Nat
  BY FS_CardinalityType DEF SchedulerInv, ReqInv
<1> HIDE DEF n
<1>3. /\ DOMAIN req' = Request /\ DOMAIN req'[r] = ReqFields
      /\ req'[r].status = "WAITING" /\ req'[r].arrival = n
      /\ \A q \in Request \ {r} : req'[q] = req[q]
  BY <1>1 DEF SchedulerInv, ReqInv, ReqShape, ReqFields
<1>4. ReqInv(req', config)
  <2>1. ReqShape(req')
    BY <1>3, StatusesDiffer DEF SchedulerInv, ReqInv, ReqShape
  <2>2. Sent(req') = Sent(req) \cup {r}
    BY <1>3 DEF Sent
  <2>3. IsFiniteSet(Sent(req) \cup {r})
    BY FS_AddElement DEF SchedulerInv, ReqInv
  <2> QED BY <1>1, <1>2, <1>3, <2>1, <2>2, <2>3 DEF SchedulerInv, ReqInv
<1>5. Placed(req', waiting', running', kv')
  <2>1. r \notin ToSet(waiting) /\ r \notin ToSet(running)
    BY <1>1, StatusesDiffer DEF SchedulerInv, Placed
  <2>2. /\ waiting' \in Seq(Request) /\ ToSet(waiting') = ToSet(waiting) \cup {r}
        /\ IsInjective(waiting')
    BY <1>1, <2>1, AddToQueueSpec DEF SchedulerInv, Placed
  <2>3. ToSet(waiting') = {q \in Request : req'[q].status \in Queued}
    BY <1>3, <2>2, StatusesDiffer DEF SchedulerInv, Placed
  <2>4. ToSet(running) = {q \in Request : req'[q].status = "RUNNING"}
    BY <1>3, <2>1, StatusesDiffer DEF SchedulerInv, Placed
  <2>5. \A q \in Request : kv.table[q] # <<>> => req'[q].status = "RUNNING"
    BY <1>1, <1>3, StatusesDiffer DEF SchedulerInv, Placed
  <2> QED BY <1>1, <2>2, <2>3, <2>4, <2>5 DEF SchedulerInv, Placed
<1>6. Final(req, req')
  BY <1>1, <1>3, StatusesDiffer DEF Final
<1>7. Moved
  BY <1>1, <1>4, <1>5, <1>6 DEF Moved, SchedulerInv
<1> QED BY <1>1, <1>7, MovedIdle

\* Requests leave both queues and their blocks are freed.
LEMMA FinishRequestsMoved ==
    ASSUME SchedulerInv, NEW S \in SUBSET Request, \A r \in S : req[r].status \in Live,
           NEW order \in Seq(Request), ToSet(order) = S, FinishRequests(S, order)
    PROVE  Moved
<1>1. /\ req' = [r \in Request |-> IF r \in S THEN [req[r] EXCEPT !.status = "FINISHED_ABORTED"]
                                  ELSE req[r]]
      /\ running' = RemoveRequests(running, S)
      /\ waiting' = RemoveRequests(waiting, S)
      /\ kv' = FreeRequests(kv, order)
  BY DEF FinishRequests
<1>2. /\ DOMAIN req' = Request
      /\ \A r \in S : /\ DOMAIN req'[r] = ReqFields /\ req'[r].status = "FINISHED_ABORTED"
                      /\ req'[r].arrival = req[r].arrival
      /\ \A r \in Request \ S : req'[r] = req[r]
  BY <1>1 DEF SchedulerInv, ReqInv, ReqShape, ReqFields
<1>3. \A r \in S : req[r].status \notin Finished /\ req[r].status # "NEW"
  BY StatusesDiffer DEF Live
<1>4. ReqInv(req', config)
  <2>1. ReqShape(req')
    BY <1>2, StatusesDiffer DEF SchedulerInv, ReqInv, ReqShape
  <2>2. \A r \in Request : /\ req'[r].status = "NEW" <=> req[r].status = "NEW"
                           /\ req'[r].arrival = req[r].arrival
    BY <1>2, <1>3
  <2> QED BY <2>1, <2>2, ReqKept DEF SchedulerInv
<1>5. /\ KVShape(kv')
      /\ \A r \in Request : kv'.table[r] = IF r \in S THEN <<>> ELSE kv.table[r]
  BY <1>1, FreeRequestsTables DEF SchedulerInv
<1>6. Placed(req', waiting', running', kv')
  <2>1. /\ running' \in Seq(Request) /\ ToSet(running') = ToSet(running) \ S
        /\ IsInjective(running')
    BY <1>1, RemoveRequestsSpec DEF SchedulerInv, Placed
  <2>2. /\ waiting' \in Seq(Request) /\ ToSet(waiting') = ToSet(waiting) \ S
        /\ IsInjective(waiting')
    BY <1>1, RemoveRequestsSpec DEF SchedulerInv, Placed
  <2>3. ToSet(waiting') = {q \in Request : req'[q].status \in Queued}
    BY <1>2, <2>2, StatusesDiffer DEF SchedulerInv, Placed
  <2>4. ToSet(running') = {q \in Request : req'[q].status = "RUNNING"}
    BY <1>2, <2>1, StatusesDiffer DEF SchedulerInv, Placed
  <2>5. \A q \in Request : kv'.table[q] # <<>> => req'[q].status = "RUNNING"
    BY <1>2, <1>5 DEF SchedulerInv, Placed
  <2> QED BY <2>1, <2>2, <2>3, <2>4, <2>5 DEF Placed
<1>7. Final(req, req')
  BY <1>2, <1>3 DEF Final
<1> QED BY <1>4, <1>5, <1>6, <1>7 DEF Moved

LEMMA AbortRequestInv ==
    ASSUME SchedulerInv, NEW r \in Request, AbortRequest(r)
    PROVE  SchedulerInv' /\ Final(req, req')
<1>1. /\ step.phase # "running" /\ req[r].status \in Live /\ FinishRequests({r}, <<r>>)
      /\ UNCHANGED <<config, step, inflight>>
  BY DEF AbortRequest, Live
<1>2. Moved
  <2>1. <<r>> \in Seq(Request) /\ ToSet(<<r>>) = {r}
    BY SingletonSpec
  <2> DEFINE S == {r}
             order == <<r>>
  <2>2. /\ S \in SUBSET Request /\ order \in Seq(Request) /\ ToSet(order) = S
        /\ FinishRequests(S, order) /\ \A q \in S : req[q].status \in Live
    BY <1>1, <2>1
  <2> HIDE DEF S, order
  <2> QED BY <2>2, FinishRequestsMoved
<1> QED BY <1>1, <1>2, MovedIdle

LEMMA PauseAbortInv ==
    ASSUME SchedulerInv, NEW clear \in BOOLEAN, PauseAbort(clear)
    PROVE  SchedulerInv' /\ Final(req, req')
<1> DEFINE S == {r \in Request : req[r].status \in Queued \cup {"RUNNING"}}
<1>1. /\ step.phase # "running" /\ UNCHANGED <<config, step, inflight>>
      /\ \E order \in [1 .. Cardinality(S) -> S] :
            ToSet(order) = S /\ FinishRequests(S, order)
  BY DEF PauseAbort
<1>2. Cardinality(S) \in Nat
  <2>1. S \subseteq Sent(req)
    BY StatusesDiffer DEF Sent
  <2> HIDE DEF S
  <2>2. IsFiniteSet(S)
    BY <2>1, FS_Subset DEF SchedulerInv, ReqInv
  <2> QED BY <2>2, FS_CardinalityType
<1>3. S \in SUBSET Request /\ \A r \in S : req[r].status \in Live
  BY DEF Live
<1> HIDE DEF S
<1>4. PICK order \in [1 .. Cardinality(S) -> S] : ToSet(order) = S /\ FinishRequests(S, order)
  BY <1>1
<1>5. order \in Seq(Request)
  BY <1>2, <1>3
<1>6. Moved
  BY <1>3, <1>4, <1>5, FinishRequestsMoved
<1> QED BY <1>1, <1>6, MovedIdle

\* All running requests go back to the waiting queue.
LEMMA ResetRunningMoved ==
    ASSUME SchedulerInv, ResetRunning(req, running, waiting, kv)
    PROVE  Moved
<1> DEFINE back == Reverse(running)
           kv1  == FreeRequests(kv, back)
<1>1. /\ req' = [r \in Request |->
                   IF r \in ToSet(running)
                   THEN [Preempted(req[r]) EXCEPT !.placeholders = 0, !.discard = TRUE]
                   ELSE req[r]]
      /\ waiting' = PrependRequests(waiting, back)
      /\ running' = <<>>
      /\ kv' = ResetPrefixCache(kv1)
  BY DEF ResetRunning
<1>2. /\ DOMAIN req' = Request
      /\ \A r \in ToSet(running) : /\ DOMAIN req'[r] = ReqFields
                                   /\ req'[r].status = "PREEMPTED"
                                   /\ req'[r].arrival = req[r].arrival
      /\ \A r \in Request \ ToSet(running) : req'[r] = req[r]
  BY <1>1 DEF SchedulerInv, ReqInv, ReqShape, ReqFields, Preempted, Placed
<1>3. \A r \in ToSet(running) : r \in Request /\ req[r].status = "RUNNING"
  BY DEF SchedulerInv, Placed
<1>4. ReqInv(req', config)
  <2>1. ReqShape(req')
    BY <1>2, StatusesDiffer DEF SchedulerInv, ReqInv, ReqShape
  <2>2. \A r \in Request : /\ req'[r].status = "NEW" <=> req[r].status = "NEW"
                           /\ req'[r].arrival = req[r].arrival
    BY <1>2, <1>3
  <2> QED BY <2>1, <2>2, ReqKept DEF SchedulerInv
<1>5. back \in Seq(Request) /\ ToSet(back) = ToSet(running) /\ IsInjective(back)
  BY ReverseSpec DEF SchedulerInv, Placed
<1> HIDE DEF back
<1>6. /\ KVShape(kv')
      /\ \A r \in Request : kv'.table[r] = IF r \in ToSet(running) THEN <<>> ELSE kv.table[r]
  <2>1. /\ KVShape(kv1)
        /\ \A r \in Request : kv1.table[r] = IF r \in ToSet(back) THEN <<>> ELSE kv.table[r]
    BY <1>5, FreeRequestsTables DEF SchedulerInv
  <2> HIDE DEF kv1
  <2>2. KVShape(ResetPrefixCache(kv1)) /\ ResetPrefixCache(kv1).table = kv1.table
    BY <2>1, TablesKept
  <2> QED BY <1>1, <1>5, <2>1, <2>2
<1>7. Placed(req', waiting', running', kv')
  <2>1. ToSet(waiting) \cap ToSet(back) = {}
    BY <1>5, PlacedApart DEF SchedulerInv
  <2>2. /\ waiting' \in Seq(Request) /\ ToSet(waiting') = ToSet(waiting) \cup ToSet(running)
        /\ IsInjective(waiting')
    <3>1. waiting \in Seq(Request) /\ IsInjective(waiting)
      BY DEF SchedulerInv, Placed
    <3>2. /\ PrependRequests(waiting, back) \in Seq(Request)
          /\ ToSet(PrependRequests(waiting, back)) = ToSet(waiting) \cup ToSet(back)
          /\ IsInjective(PrependRequests(waiting, back))
      BY <1>5, <2>1, <3>1, PrependRequestsSpec
    <3> QED BY <1>1, <1>5, <3>2
  <2>3. running' \in Seq(Request) /\ ToSet(running') = {} /\ IsInjective(running')
    <3>1. <<>> \in Seq(Request) /\ ToSet(<<>>) = {} /\ IsInjective(<<>>)
      BY DEF ToSet, IsInjective
    <3> QED BY <1>1, <3>1
  <2>4. ToSet(waiting') = {q \in Request : req'[q].status \in Queued}
    BY <1>2, <1>3, <2>2, StatusesDiffer DEF SchedulerInv, Placed
  <2>5. ToSet(running') = {q \in Request : req'[q].status = "RUNNING"}
    BY <1>2, <2>3, StatusesDiffer DEF SchedulerInv, Placed
  <2>6. \A q \in Request : kv'.table[q] # <<>> => req'[q].status = "RUNNING"
    BY <1>2, <1>6 DEF SchedulerInv, Placed
  <2> QED BY <2>2, <2>3, <2>4, <2>5, <2>6 DEF Placed
<1>8. Final(req, req')
  BY <1>2, <1>3, StatusesDiffer DEF Final
<1> QED BY <1>4, <1>6, <1>7, <1>8 DEF Moved

LEMMA ResetCacheMoved ==
    ASSUME SchedulerInv, kv' = ResetPrefixCache(kv), UNCHANGED <<req, waiting, running>>
    PROVE  Moved
<1>1. KVShape(ResetPrefixCache(kv)) /\ ResetPrefixCache(kv).table = kv.table
  BY TablesKept DEF SchedulerInv
<1> QED BY <1>1 DEF SchedulerInv, Moved, Placed, Final

LEMMA ResetCacheInv ==
    ASSUME SchedulerInv, NEW all \in BOOLEAN, ResetCache(all)
    PROVE  SchedulerInv' /\ Final(req, req')
<1>1. step.phase # "running" /\ UNCHANGED <<config, step, inflight>>
  BY DEF ResetCache
<1>2. CASE all
  BY <1>1, <1>2, ResetRunningMoved, MovedIdle DEF ResetCache
<1>3. CASE ~all
  BY <1>1, <1>3, ResetCacheMoved, MovedIdle DEF ResetCache
<1> QED BY <1>2, <1>3

LEMMA PauseSchedulerInv ==
    ASSUME SchedulerInv, NEW mode, NEW clear \in BOOLEAN, PauseScheduler(mode, clear)
    PROVE  SchedulerInv' /\ Final(req, req')
<1>1. step.phase # "running" /\ UNCHANGED <<config, step, inflight>>
  BY DEF PauseScheduler
<1>2. \/ ResetRunning(req, running, waiting, kv)
      \/ UNCHANGED <<req, waiting, running, kv>>
  BY DEF PauseScheduler
<1> QED BY <1>1, <1>2, ResetRunningMoved, Unmoved, MovedIdle

LEMMA IdleInv ==
    ASSUME SchedulerInv, IdleCallback \/ ResumeScheduler
    PROVE  SchedulerInv' /\ Final(req, req')
<1>1. step.phase # "running" /\ UNCHANGED <<config, step, inflight>>
  BY DEF IdleCallback, ResumeScheduler
<1>2. CASE IdleCallback
  BY <1>1, <1>2, ResetRunningMoved, MovedIdle DEF IdleCallback
<1>3. CASE ResumeScheduler
  BY <1>1, <1>3, Unmoved, MovedIdle DEF ResumeScheduler
<1> QED BY <1>2, <1>3

-----------------------------------------------------------------------------
(* schedule()                                                               *)

LEMMA BeginScheduleInv ==
    ASSUME SchedulerInv, BeginSchedule
    PROVE  SchedulerInv' /\ Final(req, req')
<1>1. UNCHANGED <<config, req, waiting, running, kv, inflight>>
  BY DEF BeginSchedule
<1>2. StepInv(step', running')
  <2> DEFINE s == NoStep("running")
  <2>1. StepInv(s, running)
    BY NoStepInv
  <2>2. PICK n : step' = [s EXCEPT !.budget = n]
    BY DEF BeginSchedule
  <2> HIDE DEF s
  <2> QED BY <1>1, <2>1, <2>2 DEF StepInv, StepFields
<1>3. Final(req, req')
  BY <1>1 DEF Final
<1> QED BY <1>1, <1>2, <1>3 DEF SchedulerInv

\* The request of an iteration is running.
LEMMA CurrentRunning ==
    ASSUME SchedulerInv, InRunningLoop
    PROVE  CurrentRequest \in ToSet(running) /\ CurrentRequest \in Request
<1>1. running \in Seq(Request)
  BY DEF SchedulerInv, Placed
<1>2. CurrentRequest \in ToSet(running)
  <2>1. CASE step.cur # NoRequest
    BY <2>1 DEF SchedulerInv, StepInv, InRunningLoop, CurrentRequest
  <2>2. CASE step.cur = NoRequest
    <3>1. step.order \in Seq(Request)
      BY DEF SchedulerInv, StepInv
    <3>2. Len(step.order) \in Nat /\ Len(running) \in Nat
      BY <1>1, <3>1
    <3>3. /\ step.idx \in Nat /\ Len(step.order) < step.idx
          /\ step.idx <= Len(running)
      BY <2>2 DEF SchedulerInv, StepInv, InRunningLoop
    <3>4. step.idx \in 1 .. Len(running)
      BY <3>2, <3>3
    <3>5. running[step.idx] \in ToSet(running)
      BY <1>1, <3>4, ToSetSpec
    <3> QED BY <2>2, <3>5 DEF CurrentRequest
  <2> QED BY <2>1, <2>2
<1> QED BY <1>1, <1>2, ToSetSpec

LEMMA SkipRunningInv ==
    ASSUME SchedulerInv, SkipRunning
    PROVE  SchedulerInv' /\ Final(req, req')
<1>1. /\ UNCHANGED <<config, req, waiting, running, kv, inflight>>
      /\ step' = [step EXCEPT !.idx = @ + 1] /\ step.phase = "running"
  BY DEF SkipRunning, InRunningLoop
<1>2. Len(step.order) \in Nat
  BY DEF SchedulerInv, StepInv
<1>3. /\ DOMAIN step' = StepFields /\ step'.idx = step.idx + 1 /\ step'.num = step.num
      /\ step'.order = step.order /\ step'.cur = step.cur /\ step'.phase = step.phase
  BY <1>1 DEF SchedulerInv, StepInv, StepFields
<1>4. StepInv(step', running')
  <2>1. step'.idx \in Nat /\ Len(step.order) < step'.idx
    BY <1>1, <1>2, <1>3 DEF SchedulerInv, StepInv
  <2> QED BY <1>1, <1>3, <2>1 DEF SchedulerInv, StepInv
<1>5. Final(req, req')
  BY <1>1 DEF Final
<1> QED BY <1>1, <1>4, <1>5 DEF SchedulerInv

LEMMA ScheduleRunningInv ==
    ASSUME SchedulerInv, ScheduleRunning
    PROVE  SchedulerInv' /\ Final(req, req')
<1> DEFINE r == CurrentRequest
           n == Wanted(r)
<1>1. /\ UNCHANGED <<config, req, waiting, running, inflight>> /\ InRunningLoop
      /\ kv' = RunningAlloc(r).kv
      /\ step' = [step EXCEPT !.num[r] = n, !.order = Append(@, r), !.budget = @ - n,
                              !.idx = @ + 1, !.cur = NoRequest, !.want = 0]
  BY DEF ScheduleRunning
<1>2. r \in ToSet(running) /\ r \in Request
  BY <1>1, CurrentRunning
<1>3. KVShape(kv') /\ \A q \in Request : q # r => kv'.table[q] = kv.table[q]
  BY <1>1, AllocateSlotsTables DEF SchedulerInv, RunningAlloc
<1> HIDE DEF r, n
<1>4. /\ DOMAIN step' = StepFields /\ step'.idx = step.idx + 1
      /\ step'.num = [step.num EXCEPT ![r] = n]
      /\ step'.order = Append(step.order, r) /\ step'.cur = NoRequest
      /\ step'.phase = step.phase
  BY <1>1 DEF SchedulerInv, StepInv, StepFields
<1>5. StepInv(step', running')
  <2>1. step.phase = "running"
    BY <1>1 DEF InRunningLoop
  <2>2. /\ step'.order \in Seq(Request) /\ Len(step'.order) = Len(step.order) + 1
        /\ ToSet(step'.order) = ToSet(step.order) \cup {r}
    BY <1>2, <1>4, AppendSpec DEF SchedulerInv, StepInv
  <2>3. Len(step.order) \in Nat
    BY DEF SchedulerInv, StepInv
  <2>4. step'.idx \in Nat /\ Len(step'.order) < step'.idx
    BY <1>4, <2>1, <2>2, <2>3 DEF SchedulerInv, StepInv
  <2>5. \A q \in Request : step'.num[q] > 0 => q \in ToSet(step'.order)
    BY <1>2, <1>4, <2>1, <2>2 DEF SchedulerInv, StepInv
  <2>6. DOMAIN step'.num = Request
    BY <1>4 DEF SchedulerInv, StepInv
  <2> QED BY <1>4, <2>2, <2>4, <2>5, <2>6 DEF StepInv
<1>6. Placed(req', waiting', running', kv')
  <2>1. req[r].status = "RUNNING"
    BY <1>2 DEF SchedulerInv, Placed
  <2> QED BY <1>1, <1>3, <2>1 DEF SchedulerInv, Placed
<1>7. Final(req, req')
  BY <1>1 DEF Final
<1> QED BY <1>1, <1>3, <1>5, <1>6, <1>7 DEF SchedulerInv

LEMMA PreemptRunningInv ==
    ASSUME SchedulerInv, PreemptRunning
    PROVE  SchedulerInv' /\ Final(req, req')
<1> DEFINE r    == CurrentRequest
           v    == PreemptionVictim
           back == Policy = "priority" /\ step.num[v] > 0
           num2   == IF back THEN 0 ELSE step.num[v]
           order2 == IF back THEN RemoveRequests(step.order, {v}) ELSE step.order
           idx2   == IF back THEN step.idx - 1 ELSE step.idx
           cur2   == IF v = r THEN NoRequest ELSE r
<1>1. /\ UNCHANGED <<config, inflight>> /\ InRunningLoop
      /\ running' = RemoveRequests(running, {v})
      /\ waiting' = PrependRequest(waiting, v)
      /\ req' = [req EXCEPT ![v] = Preempted(@)]
      /\ kv' = FreeRequest(kv, v)
  BY DEF PreemptRunning
<1>2. step.phase = "running"
  BY <1>1 DEF InRunningLoop
<1>3. /\ DOMAIN step' = StepFields /\ step'.num = [step.num EXCEPT ![v] = num2]
      /\ step'.order = order2 /\ step'.idx = idx2 /\ step'.cur = cur2
      /\ step'.phase = "running"
  <2>1. PICK p, bu, w, st :
           step' = [step EXCEPT !.preempted = p, !.budget = bu, !.num[v] = num2,
                                !.order = order2, !.idx = idx2, !.cur = cur2,
                                !.want = w, !.stop = st]
    BY DEF PreemptRunning
  <2> HIDE DEF num2, order2, idx2, cur2, v
  <2> QED BY <1>2, <2>1 DEF SchedulerInv, StepInv, StepFields
<1>4. r \in ToSet(running) /\ r \in Request
  BY <1>1, CurrentRunning
<1>5. v \in ToSet(running) /\ v \in Request /\ req[v].status = "RUNNING"
  <2>1. running # <<>>
    BY <1>4 DEF ToSet
  <2>2. ToSet(running) \subseteq DOMAIN Prompt
    BY StatusesDiffer DEF SchedulerInv, ReqInv, Placed, Sent, Prompt
  <2>3. v \in ToSet(running)
    BY <2>1, <2>2, VictimSpec DEF SchedulerInv, ReqInv, Placed
  <2> QED BY <2>3 DEF SchedulerInv, Placed
<1> HIDE DEF r, v
<1>6. /\ DOMAIN req' = Request /\ DOMAIN req'[v] = ReqFields
      /\ req'[v].status = "PREEMPTED" /\ req'[v].arrival = req[v].arrival
      /\ \A q \in Request \ {v} : req'[q] = req[q]
  BY <1>1, <1>5 DEF SchedulerInv, ReqInv, ReqShape, ReqFields, Preempted
<1>7. ReqInv(req', config)
  <2>1. ReqShape(req')
    BY <1>6, StatusesDiffer DEF SchedulerInv, ReqInv, ReqShape
  <2>2. \A q \in Request : /\ req'[q].status = "NEW" <=> req[q].status = "NEW"
                           /\ req'[q].arrival = req[q].arrival
    BY <1>5, <1>6
  <2> QED BY <2>1, <2>2, ReqKept DEF SchedulerInv
<1>8. KVShape(kv') /\ kv'.table = [kv.table EXCEPT ![v] = <<>>]
  BY <1>1, <1>5, FreeRequestTables DEF SchedulerInv
<1>9. /\ running' \in Seq(Request) /\ ToSet(running') = ToSet(running) \ {v}
      /\ IsInjective(running')
  BY <1>1, RemoveRequestsSpec DEF SchedulerInv, Placed
<1>10. Placed(req', waiting', running', kv')
  <2>1. v \notin ToSet(waiting)
    BY <1>5, PlacedApart DEF SchedulerInv
  <2>2. /\ waiting' \in Seq(Request) /\ ToSet(waiting') = ToSet(waiting) \cup {v}
        /\ IsInjective(waiting')
    BY <1>1, <1>5, <2>1, PrependRequestSpec DEF SchedulerInv, Placed
  <2>3. ToSet(waiting') = {q \in Request : req'[q].status \in Queued}
    BY <1>5, <1>6, <2>2, StatusesDiffer DEF SchedulerInv, Placed
  <2>4. ToSet(running') = {q \in Request : req'[q].status = "RUNNING"}
    BY <1>5, <1>6, <1>9, StatusesDiffer DEF SchedulerInv, Placed
  <2>5. \A q \in Request : kv'.table[q] # <<>> => req'[q].status = "RUNNING"
    BY <1>5, <1>6, <1>8 DEF SchedulerInv, Placed, KVShape
  <2> QED BY <1>9, <2>2, <2>3, <2>4, <2>5 DEF Placed
<1>11. StepInv(step', running')
  <2>1. /\ step.order \in Seq(Request) /\ step.idx \in Nat /\ Len(step.order) < step.idx
        /\ \A q \in Request : step.num[q] > 0 => q \in ToSet(step.order)
        /\ DOMAIN step.num = Request
    BY <1>2 DEF SchedulerInv, StepInv
  <2>2. cur2 # NoRequest => cur2 \in ToSet(running')
    BY <1>4, <1>9
  <2>3. DOMAIN step'.num = Request
    BY <1>3, <2>1
  <2>4. CASE back
    <3>1. v \in ToSet(step.order)
      BY <1>5, <2>1, <2>4
    <3>2. /\ order2 \in Seq(Request) /\ ToSet(order2) = ToSet(step.order) \ {v}
          /\ Len(order2) < Len(step.order)
      BY <2>1, <2>4, <3>1, RemoveRequestsSpec
    <3>3. idx2 = step.idx - 1 /\ num2 = 0
      BY <2>4
    <3> HIDE DEF order2, idx2, num2, back
    <3>4. Len(order2) \in Nat /\ Len(step.order) \in Nat
      BY <2>1, <3>2
    <3>5. idx2 \in Nat /\ Len(order2) < idx2
      BY <2>1, <3>2, <3>3, <3>4
    <3>6. \A q \in Request : step'.num[q] > 0 => q \in ToSet(order2)
      BY <1>3, <2>1, <3>2, <3>3
    <3> QED BY <1>3, <2>2, <2>3, <3>2, <3>5, <3>6 DEF StepInv
  <2>5. CASE ~back
    <3>1. order2 = step.order /\ idx2 = step.idx /\ num2 = step.num[v]
      BY <2>5
    <3> HIDE DEF order2, idx2, num2, back
    <3>2. \A q \in Request : step'.num[q] = step.num[q]
      BY <1>3, <2>1, <3>1
    <3> QED BY <1>3, <2>1, <2>2, <2>3, <3>1, <3>2 DEF StepInv
  <2> QED BY <2>4, <2>5
<1>12. Final(req, req')
  BY <1>5, <1>6, StatusesDiffer DEF Final
<1> QED BY <1>1, <1>7, <1>8, <1>10, <1>11, <1>12 DEF SchedulerInv

LEMMA EndRunningInv ==
    ASSUME SchedulerInv, EndRunning
    PROVE  SchedulerInv' /\ Final(req, req')
<1>1. /\ UNCHANGED <<config, req, waiting, running, kv, inflight>>
      /\ step' = [step EXCEPT !.phase = "waiting", !.idx = 1, !.stop = FALSE]
  BY DEF EndRunning
<1>2. StepInv(step', running')
  BY <1>1 DEF SchedulerInv, StepInv, StepFields
<1>3. Final(req, req')
  BY <1>1 DEF Final
<1> QED BY <1>1, <1>2, <1>3 DEF SchedulerInv

LEMMA ScheduleWaitingInv ==
    ASSUME SchedulerInv, ScheduleWaiting
    PROVE  SchedulerInv' /\ Final(req, req')
<1> DEFINE r == Head(waiting)
<1>1. PICK hits : AdmitWaiting(r, hits)
  BY DEF ScheduleWaiting
<1> DEFINE n == NumAdmitted(r, hits)
           c == Len(hits) * BlockSize
<1>2. /\ UNCHANGED <<config, inflight>> /\ waiting # <<>> /\ step.phase = "waiting"
  BY DEF ScheduleWaiting, InWaitingLoop
<1>3. /\ kv' = WaitingAlloc(r, hits).kv
      /\ waiting' = Tail(waiting) /\ running' = Append(running, r)
      /\ req' = [req EXCEPT ![r].status = "RUNNING", ![r].computed = c]
      /\ step' = [step EXCEPT !.num[r] = n, !.order = Append(@, r), !.budget = @ - n,
                              !.fresh = @ \cup {r}]
  BY <1>1 DEF AdmitWaiting
<1>4. /\ r \in Request /\ r \in ToSet(waiting)
      /\ waiting' \in Seq(Request) /\ ToSet(waiting) = ToSet(waiting') \cup {r}
      /\ IsInjective(waiting') /\ r \notin ToSet(waiting')
  BY <1>2, <1>3, TailSpec DEF SchedulerInv, Placed
<1>5. req[r].status \in Queued /\ r \notin ToSet(running)
  BY <1>4, PlacedApart DEF SchedulerInv, Placed
<1>6. KVShape(kv') /\ \A q \in Request : q # r => kv'.table[q] = kv.table[q]
  BY <1>3, AllocateSlotsTables DEF SchedulerInv, WaitingAlloc
<1> HIDE DEF r, n, c
<1>7. /\ DOMAIN req' = Request /\ DOMAIN req'[r] = ReqFields
      /\ req'[r].status = "RUNNING" /\ req'[r].arrival = req[r].arrival
      /\ \A q \in Request \ {r} : req'[q] = req[q]
  BY <1>3, <1>4 DEF SchedulerInv, ReqInv, ReqShape, ReqFields
<1>8. ReqInv(req', config)
  <2>1. ReqShape(req')
    BY <1>7, StatusesDiffer DEF SchedulerInv, ReqInv, ReqShape
  <2>2. \A q \in Request : /\ req'[q].status = "NEW" <=> req[q].status = "NEW"
                           /\ req'[q].arrival = req[q].arrival
    BY <1>5, <1>7, StatusesDiffer
  <2> QED BY <2>1, <2>2, ReqKept DEF SchedulerInv
<1>9. Placed(req', waiting', running', kv')
  <2>1. /\ running' \in Seq(Request) /\ ToSet(running') = ToSet(running) \cup {r}
        /\ IsInjective(running')
    BY <1>3, <1>4, <1>5, AppendSpec DEF SchedulerInv, Placed
  <2>2. ToSet(waiting') = {q \in Request : req'[q].status \in Queued}
    BY <1>4, <1>7, StatusesDiffer DEF SchedulerInv, Placed
  <2>3. ToSet(running') = {q \in Request : req'[q].status = "RUNNING"}
    BY <1>4, <1>7, <2>1, StatusesDiffer DEF SchedulerInv, Placed
  <2>4. \A q \in Request : kv'.table[q] # <<>> => req'[q].status = "RUNNING"
    BY <1>6, <1>7 DEF SchedulerInv, Placed
  <2> QED BY <1>4, <2>1, <2>2, <2>3, <2>4 DEF Placed
<1>10. StepInv(step', running')
  <2>1. /\ DOMAIN step' = StepFields /\ step'.num = [step.num EXCEPT ![r] = n]
        /\ step'.order = Append(step.order, r) /\ step'.phase = "waiting"
    BY <1>2, <1>3 DEF SchedulerInv, StepInv, StepFields
  <2>2. step'.order \in Seq(Request)
    BY <1>4, <2>1 DEF SchedulerInv, StepInv
  <2>3. DOMAIN step'.num = Request
    BY <2>1 DEF SchedulerInv, StepInv
  <2> QED BY <2>1, <2>2, <2>3 DEF StepInv
<1>11. Final(req, req')
  BY <1>5, <1>7, StatusesDiffer DEF Final
<1> QED BY <1>2, <1>6, <1>8, <1>9, <1>10, <1>11 DEF SchedulerInv

LEMMA AppendBatch ==
    ASSUME NEW s, BatchInv(s), NEW b, b.order \in Seq(Request)
    PROVE  BatchInv(Append(s, b))
<1> DEFINE A == ToSet(s) \cup {b}
           t == Append(s, b)
<1>1. s \in Seq(A) /\ b \in A
  <2>1. ToSet(s) \subseteq A
    OBVIOUS
  <2> QED BY <2>1, SeqMonotonic DEF BatchInv
<1>2. t \in Seq(A) /\ ToSet(t) = A
  <2> HIDE DEF A
  <2>1. t \in Seq(A) /\ ToSet(t) = ToSet(s) \cup {b}
    BY <1>1, AppendSpec
  <2> QED BY <2>1 DEF A
<1> HIDE DEF t
<1>3. BatchInv(t)
  BY <1>2 DEF BatchInv
<1> QED BY <1>3 DEF t

LEMMA RemoveFirstBatch ==
    ASSUME NEW s, BatchInv(s), s # <<>>
    PROVE  BatchInv(RemoveAt(s, 1)) /\ s[1].order \in Seq(Request)
<1> DEFINE A == ToSet(s)
           t == Tail(s)
<1>1. s \in Seq(A) /\ Len(s) \in Nat \ {0}
  BY DEF BatchInv
<1>2. RemoveAt(s, 1) = t
  <2> HIDE DEF A
  <2>1. SubSeq(s, 1, 0) = <<>> /\ SubSeq(s, 2, Len(s)) = t
    BY <1>1, TailIsSubSeq
  <2>2. t \in Seq(A)
    BY <1>1
  <2>3. RemoveAt(s, 1) = <<>> \o t
    BY <2>1 DEF RemoveAt
  <2> HIDE DEF t
  <2> QED BY <2>2, <2>3, ConcatEmptySeq
<1>3. Head(s) \in A /\ t \in Seq(A) /\ ToSet(t) \subseteq A /\ Head(s) = s[1]
  <2> HIDE DEF A
  <2>1. Head(s) \in ToSet(s) /\ t \in Seq(A) /\ ToSet(s) = ToSet(t) \cup {Head(s)}
    BY <1>1, TailSpec
  <2> QED BY <1>1, <2>1 DEF A
<1>4. t \in Seq(ToSet(t))
  <2>1. Len(t) \in Nat /\ t = [i \in 1 .. Len(t) |-> t[i]] /\ \A i \in 1 .. Len(t) : t[i] \in ToSet(t)
    <3> HIDE DEF t, A
    <3> QED BY <1>3, ToSetSpec
  <2> HIDE DEF t
  <2> QED BY <2>1
<1> HIDE DEF t
<1> QED BY <1>2, <1>3, <1>4 DEF BatchInv

LEMMA FinishScheduleInv ==
    ASSUME SchedulerInv, FinishSchedule
    PROVE  SchedulerInv' /\ Final(req, req')
<1>1. /\ UNCHANGED <<config, waiting, running, kv>>
      /\ step' = NoStep("idle") \/ step' = NoStep("update")
  BY DEF FinishSchedule
<1>2. \E out : inflight' = Append(inflight, [order |-> step.order, out |-> out])
  BY DEF FinishSchedule
<1>3. /\ DOMAIN req' = Request
      /\ \A r \in Request : /\ DOMAIN req'[r] = ReqFields
                            /\ req'[r].status = req[r].status
                            /\ req'[r].arrival = req[r].arrival
                            /\ req'[r].output = req[r].output
  <2>1. UpdateAfterSchedule
    BY DEF FinishSchedule
  <2> QED BY <2>1 DEF UpdateAfterSchedule, SchedulerInv, ReqInv, ReqShape, ReqFields
<1>4. ReqInv(req', config)
  <2>1. ReqShape(req')
    BY <1>3 DEF SchedulerInv, ReqInv, ReqShape
  <2> QED BY <1>3, <2>1, ReqKept DEF SchedulerInv
<1>5. Placed(req', waiting', running', kv')
  BY <1>1, <1>3 DEF SchedulerInv, Placed
<1>6. StepInv(step', running')
  BY <1>1, NoStepInv
<1>7. BatchInv(inflight')
  <2>1. PICK out : inflight' = Append(inflight, [order |-> step.order, out |-> out])
    BY <1>2
  <2> DEFINE b == [order |-> step.order, out |-> out]
  <2>2. b.order \in Seq(Request)
    BY DEF SchedulerInv, StepInv
  <2> HIDE DEF b
  <2>3. BatchInv(Append(inflight, b))
    BY <2>2, AppendBatch DEF SchedulerInv
  <2> QED BY <2>1, <2>3 DEF b
<1>8. Final(req, req')
  BY <1>3 DEF Final
<1> QED BY <1>1, <1>4, <1>5, <1>6, <1>7, <1>8 DEF SchedulerInv

-----------------------------------------------------------------------------
(* update_from_output                                                       *)

LEMMA UpdateFromOutputInv ==
    ASSUME SchedulerInv, UpdateFromOutput
    PROVE  SchedulerInv' /\ Final(req, req')
<1> DEFINE s0 == [req |-> req, kv |-> kv, faults |-> faults, stopped |-> {}]
           batch == inflight[1]
           s == UpdateRequests(s0, batch.order, batch.out)
<1>1. /\ UNCHANGED config /\ inflight # <<>>
      /\ req' = s.req /\ kv' = s.kv /\ RemoveStopped(s.stopped)
      /\ inflight' = RemoveAt(inflight, 1)
      /\ step' = NoStep("idle")
  BY DEF UpdateFromOutput, AwaitedBatch
<1>2. BatchInv(inflight') /\ batch.order \in Seq(Request)
  BY <1>1, RemoveFirstBatch DEF SchedulerInv
<1>3. UpdateShape(s0) /\ s0.stopped = {} /\ s0.req = req /\ s0.kv = kv
  BY DEF UpdateShape, SchedulerInv, ReqInv
<1> HIDE DEF s0, batch
<1>4. Applied(s0, s)
  BY <1>2, <1>3, UpdateRequestsSpec
<1> HIDE DEF s
<1> DEFINE S == s.stopped
<1>5. /\ ReqShape(req') /\ KVShape(kv') /\ S \subseteq Request
      /\ \A r \in Request : req'[r].arrival = req[r].arrival
      /\ \A r \in S : req[r].status \in Live /\ req'[r].status \in Finished
                      /\ kv'.table[r] = <<>>
      /\ \A r \in Request \ S : /\ req'[r].status = req[r].status
                                /\ kv'.table[r] = kv.table[r]
                                /\ req[r].status \in Finished => req'[r].output = req[r].output
  BY <1>1, <1>3, <1>4 DEF Applied, UpdateShape
<1>6. running' = RemoveRequests(running, S) /\ waiting' = RemoveRequests(waiting, S)
  BY <1>1 DEF RemoveStopped
<1> HIDE DEF S
<1>7. ReqInv(req', config)
  <2>1. \A r \in Request : req'[r].status = "NEW" <=> req[r].status = "NEW"
    BY <1>5, StatusesDiffer DEF Live
  <2> QED BY <1>5, <2>1, ReqKept DEF SchedulerInv
<1>8. Placed(req', waiting', running', kv')
  <2>1. /\ running' \in Seq(Request) /\ ToSet(running') = ToSet(running) \ S
        /\ IsInjective(running')
    BY <1>6, RemoveRequestsSpec DEF SchedulerInv, Placed
  <2>2. /\ waiting' \in Seq(Request) /\ ToSet(waiting') = ToSet(waiting) \ S
        /\ IsInjective(waiting')
    BY <1>6, RemoveRequestsSpec DEF SchedulerInv, Placed
  <2>3. ToSet(waiting') = {q \in Request : req'[q].status \in Queued}
    BY <1>5, <2>2, StatusesDiffer DEF SchedulerInv, Placed
  <2>4. ToSet(running') = {q \in Request : req'[q].status = "RUNNING"}
    BY <1>5, <2>1, StatusesDiffer DEF SchedulerInv, Placed
  <2>5. \A q \in Request : kv'.table[q] # <<>> => req'[q].status = "RUNNING"
    BY <1>5 DEF SchedulerInv, Placed
  <2> QED BY <2>1, <2>2, <2>3, <2>4, <2>5 DEF Placed
<1>9. Final(req, req')
  BY <1>5, StatusesDiffer DEF Final, Live
<1>10. StepInv(step', running')
  BY <1>1, NoStepInv
<1> QED BY <1>1, <1>2, <1>5, <1>7, <1>8, <1>9, <1>10 DEF SchedulerInv

-----------------------------------------------------------------------------
(* The theorems                                                             *)

LEMMA SchedulerStep ==
    ASSUME SchedulerInv, Next
    PROVE  SchedulerInv' /\ Final(req, req')
<1>1. CASE EngineStep
  BY <1>1, BeginScheduleInv, SkipRunningInv, ScheduleRunningInv, PreemptRunningInv,
     EndRunningInv, ScheduleWaitingInv, FinishScheduleInv, UpdateFromOutputInv
     DEF EngineStep
<1>2. CASE ClientCall
  BY <1>2, AddRequestInv, AbortRequestInv, ResetCacheInv, PauseSchedulerInv, PauseAbortInv
     DEF ClientCall
<1> QED BY <1>1, <1>2, IdleInv DEF Next

LEMMA SchedulerStutter ==
    ASSUME SchedulerInv, UNCHANGED vars
    PROVE  SchedulerInv' /\ Final(req, req')
  BY DEF vars, SchedulerInv, Final

\* The waiting and running queues and the statuses of the requests agree at
\* every point of the engine loop, also in the middle of schedule(), and a
\* request that is not running holds no block (scheduler.py: schedule,
\* _preempt_request, finish_requests, update_from_output; request_queue.py).
THEOREM QueuesAgree == Spec => []QueuesMatchStatus
<1>1. SchedulerInv /\ [Next]_vars => SchedulerInv'
  BY SchedulerStep, SchedulerStutter
<1>2. SchedulerInv => QueuesMatchStatus
  BY PlacedMatches
<1> QED BY <1>1, <1>2, InitInv, PTL DEF Spec

\* A request that finished or was aborted keeps its status and its output,
\* whatever batches are in flight for it (update_from_output skips it).
THEOREM FinishedStaysFinished == Spec => FinishedIsFinal
<1>1. SchedulerInv /\ [Next]_vars => SchedulerInv'
  BY SchedulerStep, SchedulerStutter
<1>2. SchedulerInv /\ [Next]_vars =>
        [\A r \in Request : req[r].status \in Finished =>
            req'[r].status = req[r].status /\ req'[r].output = req[r].output]_vars
  BY SchedulerStep, SchedulerStutter DEF Final
<1> QED BY <1>1, <1>2, InitInv, PTL DEF Spec, FinishedIsFinal

-----------------------------------------------------------------------------
(* The cache: counting and positions                                        *)

\* The number of batches in flight with an output for r.
CountIn(batches, r) == Cardinality({i \in 1 .. Len(batches) : r \in DOMAIN batches[i].out})

\* A request has at most one output in each batch.
LEMMA CountInBounds ==
    ASSUME NEW S, NEW batches \in Seq(S), NEW r
    PROVE  /\ CountIn(batches, r) \in Nat /\ CountIn(batches, r) <= Len(batches)
           /\ CountIn(batches, r) = 0 <=> \A i \in 1 .. Len(batches) : r \notin DOMAIN batches[i].out
<1> DEFINE n == Len(batches)
           I == {i \in 1 .. n : r \in DOMAIN batches[i].out}
<1>1. n \in Nat /\ 1 \in Int /\ n \in Int
  OBVIOUS
<1>2. IsFiniteSet(1 .. n) /\ Cardinality(1 .. n) = n
  <2>1. (IF 1 > n THEN 0 ELSE n - 1 + 1) = n
    BY <1>1
  <2> HIDE DEF n
  <2> QED BY <1>1, <2>1, FS_Interval
<1>3. I \in SUBSET (1 .. n)
  OBVIOUS
<1> HIDE DEF I, n
<1>4. IsFiniteSet(I) /\ Cardinality(I) <= n
  BY <1>2, <1>3, FS_Subset
<1>5. Cardinality(I) \in Nat
  BY <1>4, FS_CardinalityType
<1>6. Cardinality(I) = 0 <=> I = {}
  BY <1>4, FS_EmptySet
<1>7. I = {} <=> \A i \in 1 .. n : r \notin DOMAIN batches[i].out
  BY DEF I
<1> QED BY <1>4, <1>5, <1>6, <1>7 DEF CountIn, I, n

\* A batch is dispatched.
LEMMA CountInAppend ==
    ASSUME NEW S, NEW batches \in Seq(S), NEW b \in S, NEW r
    PROVE  CountIn(Append(batches, b), r) =
              CountIn(batches, r) + (IF r \in DOMAIN b.out THEN 1 ELSE 0)
<1> DEFINE n == Len(batches)
           t == Append(batches, b)
           I == {i \in 1 .. n : r \in DOMAIN batches[i].out}
           J == {i \in 1 .. n + 1 : r \in DOMAIN t[i].out}
<1>1. /\ n \in Nat /\ Len(t) = n + 1 /\ t[n + 1] = b
      /\ \A i \in 1 .. n : t[i] = batches[i]
  BY AppendProperties
<1>2. IsFiniteSet(I)
  <2>1. IsFiniteSet(1 .. n)
    <3>1. 1 \in Int /\ n \in Int
      BY <1>1
    <3> QED BY <3>1, FS_Interval
  <2>2. I \in SUBSET (1 .. n)
    OBVIOUS
  <2> QED BY <2>1, <2>2, FS_Subset
<1>3. J = IF r \in DOMAIN b.out THEN I \cup {n + 1} ELSE I
  <2>1. \A i : i \in 1 .. n + 1 <=> i \in 1 .. n \/ i = n + 1
    BY <1>1
  <2> HIDE DEF t
  <2> QED BY <1>1, <2>1
<1>4. n + 1 \notin I
  BY <1>1
<1>5. Cardinality(I) \in Nat
  BY <1>2, FS_CardinalityType
<1> HIDE DEF I
<1>6. Cardinality(I \cup {n + 1}) = Cardinality(I) + 1
  BY <1>2, <1>4, FS_AddElement
<1> HIDE DEF J, n
<1>7. Cardinality(J) = Cardinality(I) + (IF r \in DOMAIN b.out THEN 1 ELSE 0)
  BY <1>3, <1>5, <1>6
<1> HIDE DEF t
<1> QED BY <1>1, <1>7 DEF CountIn, I, J, n, t

\* The oldest batch is taken off.
LEMMA CountInRemove ==
    ASSUME NEW S, NEW batches \in Seq(S), batches # <<>>, NEW r
    PROVE  LET t == RemoveAt(batches, 1)
           IN  /\ t \in Seq(S) /\ Len(t) = Len(batches) - 1
               /\ \A i \in 1 .. Len(t) : t[i] = batches[i + 1] /\ i + 1 \in 1 .. Len(batches)
               /\ CountIn(t, r) = CountIn(batches, r)
                                    - (IF r \in DOMAIN batches[1].out THEN 1 ELSE 0)
<1> DEFINE n == Len(batches)
           t == Tail(batches)
           I == {i \in 1 .. n : r \in DOMAIN batches[i].out}
           J == {i \in 1 .. n - 1 : r \in DOMAIN t[i].out}
           f == [i \in J |-> i + 1]
<1>1. n \in Nat \ {0}
  OBVIOUS
<1>2. RemoveAt(batches, 1) = t
  <2>1. SubSeq(batches, 1, 0) = <<>> /\ SubSeq(batches, 2, n) = t
    BY <1>1, TailIsSubSeq
  <2>2. t \in Seq(S)
    BY <1>1
  <2>3. RemoveAt(batches, 1) = <<>> \o t
    BY <2>1 DEF RemoveAt
  <2> HIDE DEF t
  <2> QED BY <2>2, <2>3, ConcatEmptySeq
<1>3. /\ t \in Seq(S) /\ Len(t) = n - 1
      /\ \A i \in 1 .. n - 1 : t[i] = batches[i + 1] /\ i + 1 \in 1 .. n
  BY <1>1
<1>4. IsFiniteSet(I) /\ IsFiniteSet(J)
  <2>1. IsFiniteSet(1 .. n) /\ IsFiniteSet(1 .. n - 1)
    <3>1. 1 \in Int /\ n \in Int /\ n - 1 \in Int
      BY <1>1
    <3> QED BY <3>1, FS_Interval
  <2>2. I \in SUBSET (1 .. n) /\ J \in SUBSET (1 .. n - 1)
    OBVIOUS
  <2> QED BY <2>1, <2>2, FS_Subset
<1>5. \A i : i \in I \ {1} <=> i \in Int /\ i - 1 \in J
  <2>1. \A i : i \in (1 .. n) \ {1} <=> i \in Int /\ i - 1 \in 1 .. n - 1
    BY <1>1
  <2>2. \A i \in (1 .. n) \ {1} : t[i - 1] = batches[i]
    <3> SUFFICES ASSUME NEW i \in (1 .. n) \ {1} PROVE t[i - 1] = batches[i]
      OBVIOUS
    <3>1. i - 1 \in 1 .. n - 1 /\ (i - 1) + 1 = i
      BY <1>1
    <3> HIDE DEF t
    <3> QED BY <1>3, <3>1
  <2> HIDE DEF t
  <2> QED BY <2>1, <2>2
<1>6. ExistsBijection(J, I \ {1})
  <2>1. f \in [J -> I \ {1}]
    BY <1>5
  <2>2. \A i, j \in J : f[i] = f[j] => i = j
    OBVIOUS
  <2>3. \A x \in I \ {1} : \E i \in J : f[i] = x
    <3> SUFFICES ASSUME NEW x \in I \ {1} PROVE \E i \in J : f[i] = x
      OBVIOUS
    <3>1. x \in Int /\ x - 1 \in J /\ (x - 1) + 1 = x
      BY <1>5
    <3> QED BY <3>1
  <2>4. DOMAIN f = J
    OBVIOUS
  <2> HIDE DEF f
  <2>5. IsInjective(f)
    BY <2>2, <2>4 DEF IsInjective
  <2> QED BY <2>1, <2>3, <2>5 DEF ExistsBijection, Bijection, Injection, Surjection
<1>7. 1 \in I <=> r \in DOMAIN batches[1].out
  BY <1>1
<1> HIDE DEF I, J
<1>8. Cardinality(I \ {1}) = Cardinality(J)
  BY <1>4, <1>6, FS_Bijection
<1>9. Cardinality(I \ {1}) = IF 1 \in I THEN Cardinality(I) - 1 ELSE Cardinality(I)
  BY <1>4, FS_RemoveElement
<1>10. Cardinality(I) \in Nat
  BY <1>4, FS_CardinalityType
<1>11. Cardinality(J) = Cardinality(I) - (IF r \in DOMAIN batches[1].out THEN 1 ELSE 0)
  BY <1>7, <1>8, <1>9, <1>10
<1> HIDE DEF t
<1> QED BY <1>2, <1>3, <1>11 DEF CountIn, I, J

\* A finite set has subsets of every smaller size.
LEMMA SubsetOfSize ==
    ASSUME NEW S, IsFiniteSet(S), NEW n \in 0 .. Cardinality(S)
    PROVE  \E T \in SUBSET S : IsFiniteSet(T) /\ Cardinality(T) = n
<1> DEFINE c == Cardinality(S)
<1>1. c \in Nat /\ ExistsBijection(1 .. c, S)
  BY FS_CardinalityType
<1>2. PICK f \in Bijection(1 .. c, S) : TRUE
  BY <1>1 DEF ExistsBijection
<1>3. /\ f \in [1 .. c -> S]
      /\ \A i, j \in 1 .. c : f[i] = f[j] => i = j
  BY <1>2 DEF Bijection, Injection, IsInjective
<1>4. n \in Nat /\ n <= c
  BY <1>1
<1> DEFINE T == {f[i] : i \in 1 .. n}
           g == [i \in 1 .. n |-> f[i]]
<1>5. \A i \in 1 .. n : i \in 1 .. c
  BY <1>1, <1>4
<1>6. ExistsBijection(1 .. n, T)
  <2>1. g \in [1 .. n -> T] /\ DOMAIN g = 1 .. n
    OBVIOUS
  <2>2. \A i, j \in 1 .. n : g[i] = g[j] => i = j
    BY <1>3, <1>5
  <2>3. \A x \in T : \E i \in 1 .. n : g[i] = x
    OBVIOUS
  <2> HIDE DEF g, T
  <2>4. IsInjective(g)
    BY <2>1, <2>2 DEF IsInjective
  <2> QED BY <2>1, <2>3, <2>4 DEF ExistsBijection, Bijection, Injection, Surjection
<1>7. IsFiniteSet(1 .. n) /\ Cardinality(1 .. n) = n
  <2>1. (IF 1 > n THEN 0 ELSE n - 1 + 1) = n /\ 1 \in Int /\ n \in Int
    BY <1>4
  <2> QED BY <2>1, FS_Interval
<1>8. T \in SUBSET S
  BY <1>3, <1>5
<1> HIDE DEF T
<1>9. IsFiniteSet(T) /\ Cardinality(T) = n
  BY <1>6, <1>7, FS_Bijection
<1> QED BY <1>8, <1>9

\* A queue without one of its elements.
LEMMA RemoveOne ==
    ASSUME NEW A, NEW queue \in Seq(A), IsInjective(queue), NEW p \in 1 .. Len(queue)
    PROVE  LET t == RemoveRequests(queue, {queue[p]})
           IN  /\ Len(t) = Len(queue) - 1
               /\ \A j \in 1 .. Len(t) : t[j] = IF j < p THEN queue[j] ELSE queue[j + 1]
<1> DEFINE n == Len(queue)
           S == ToSet(queue) \ {queue[p]}
<1>1. PICK kept : Keeps(kept, queue, S) /\ Among(queue, S) = kept[n]
  BY AmongKeeps
<1>2. n \in Nat /\ p \in Nat /\ 1 <= p /\ p <= n /\ \A i \in 1 .. n : queue[i] \in A
  OBVIOUS
<1>3. \A i \in 1 .. n : queue[i] \in S <=> i # p
  BY ToSetSpec
<1> HIDE DEF S
<1> DEFINE at(j) == IF j < p THEN queue[j] ELSE queue[j + 1]
           P(i) == /\ kept[i] \in Seq(A)
                   /\ Len(kept[i]) = IF i < p THEN i ELSE i - 1
                   /\ \A j \in 1 .. Len(kept[i]) : kept[i][j] = at(j)
           G == {i \in Nat : i <= n => P(i)}
<1>4. 0 \in G
  <2>1. kept[0] = <<>> /\ <<>> \in Seq(A) /\ Len(<<>>) = 0
    BY <1>1 DEF Keeps
  <2>2. 0 < p /\ ~ \E j \in 1 .. 0 : TRUE
    BY <1>2
  <2>3. P(0)
    <3> HIDE DEF at
    <3> QED BY <2>1, <2>2
  <2> HIDE DEF P
  <2> QED BY <2>3
<1>5. ASSUME NEW m \in Nat, m \in G PROVE m + 1 \in G
  <2> SUFFICES ASSUME m + 1 <= n PROVE P(m + 1)
    OBVIOUS
  <2>1. P(m)
    BY <1>2, <1>5
  <2> DEFINE e == queue[m + 1]
             s == kept[m]
             t == kept[m + 1]
  <2>2. m + 1 \in 1 .. n /\ e \in A
    BY <1>2
  <2>3. t = IF m + 1 # p THEN Append(s, e) ELSE s
    BY <1>1, <1>3, <2>2 DEF Keeps
  <2>4. s \in Seq(A) /\ Len(s) \in Nat /\ Len(s) = (IF m < p THEN m ELSE m - 1)
        /\ \A j \in 1 .. Len(s) : s[j] = at(j)
    BY <2>1
  <2> HIDE DEF s, t, at
  <2>5. CASE m + 1 = p
    <3>1. t = s /\ Len(t) = m /\ ~ (m + 1 < p)
      BY <2>3, <2>4, <2>5
    <3> QED BY <2>4, <3>1 DEF t
  <2>6. CASE m + 1 # p
    <3>1. t = Append(s, e)
      BY <2>3, <2>6
    <3>2. /\ t \in Seq(A) /\ Len(t) = Len(s) + 1 /\ t[Len(s) + 1] = e
          /\ \A j \in 1 .. Len(s) : t[j] = s[j]
      BY <2>2, <2>4, <3>1, AppendProperties
    <3>3. Len(t) = IF m + 1 < p THEN m + 1 ELSE m + 1 - 1
      BY <1>2, <2>4, <2>6, <3>2
    <3>4. e = at(Len(s) + 1)
      <4>1. CASE m < p
        <5>1. Len(s) + 1 = m + 1 /\ m + 1 < p
          BY <1>2, <2>4, <2>6, <4>1
        <5> QED BY <5>1 DEF at
      <4>2. CASE ~ (m < p)
        <5>1. Len(s) + 1 = m /\ (Len(s) + 1) + 1 = m + 1
          BY <1>2, <2>4, <4>2
        <5> QED BY <4>2, <5>1 DEF at
      <4> QED BY <4>1, <4>2
    <3>5. \A j \in 1 .. Len(t) : j \in 1 .. Len(s) \/ j = Len(s) + 1
      BY <2>4, <3>2
    <3> QED BY <2>4, <3>2, <3>3, <3>4, <3>5, SMTT(20) DEF t
  <2> QED BY <2>5, <2>6
<1> HIDE DEF G
<1>6. Nat \subseteq G
  BY <1>4, <1>5, SetInduction
<1>7. P(n)
  <2>1. n \in Nat /\ n <= n
    BY <1>2
  <2> QED BY <1>6, <2>1 DEF G
<1>8. RemoveRequests(queue, {queue[p]}) = kept[n]
  BY <1>1 DEF RemoveRequests, S
<1>9. ~ (n < p)
  BY <1>2
<1> QED BY <1>7, <1>8, <1>9

-----------------------------------------------------------------------------
(* The cache: the invariant                                                 *)

\* The tokens of the requests a client may send, and the alphabet they and
\* the outputs are from.
Known(c, rq) == [r \in DOMAIN c.prompt |-> c.prompt[r] \o rq[r].output]
Alphabet(c) == Vocabulary \cup UNION {ToSet(c.prompt[r]) : r \in DOMAIN c.prompt}
Length(c, r, q) == Len(c.prompt[r]) + Len(q.output)

\* No request outgrows the model length, and one that waits starts over.
ReqOK(c, r, q) ==
    /\ q.output \in Seq(Vocabulary)
    /\ q.computed \in 0 .. MaxModelLen - 1
    /\ q.placeholders \in Int /\ q.discard \in BOOLEAN
    /\ q.status \in Live => q.placeholders >= 0 /\ Length(c, r, q) <= MaxModelLen - 1
    /\ ~ c.async => q.placeholders = 0
    /\ q.status \in Queued \cup {"NEW"} => q.computed = 0
    /\ q.status = "NEW" => q.placeholders = 0 /\ q.output = <<>>

\* n more tokens of a running request have slots, and are tokens it has or
\* will have.
Fits(c, r, q, n, blocks) ==
    q.status = "RUNNING" =>
        /\ q.computed + n <= Len(blocks) * BlockSize
        /\ q.computed + n <= Length(c, r, q) + q.placeholders
        /\ q.computed + n <= MaxModelLen - 1

\* The token budget is what the scheduled requests leave of it: each owns as
\* many of the tokens 1 .. MaxNumScheduledTokens as it is scheduled for.
Owned(num, budget) ==
    \E own, spare :
        /\ own \in [Request -> SUBSET (1 .. MaxNumScheduledTokens)]
        /\ spare \in SUBSET (1 .. MaxNumScheduledTokens)
        /\ \A q, r \in Request : q # r => own[q] \cap own[r] = {}
        /\ \A r \in Request : own[r] \cap spare = {} /\ Cardinality(own[r]) = num[r]
        /\ Cardinality(spare) = budget

\* The loop over the running requests: those at or behind idx are not
\* scheduled yet, and the one it preempts others for is not behind idx.
LoopOK(c, rq, st, run) ==
    /\ st.fresh = {}
    /\ \A j \in 1 .. Len(run) : j >= st.idx => run[j] \notin ToSet(st.order)
    /\ st.cur # NoRequest =>
          /\ st.cur \in Request /\ st.cur \notin ToSet(st.order)
          /\ \E i \in 1 .. Len(run) : /\ i <= st.idx /\ run[i] = st.cur
                                      /\ c.policy = "fcfs" => i = st.idx
          /\ st.want \in Nat \ {0} /\ st.want <= st.budget
          /\ rq[st.cur].computed + st.want <= MaxModelLen - 1
          /\ rq[st.cur].computed + st.want
                <= Length(c, st.cur, rq[st.cur]) + rq[st.cur].placeholders

StepOK(c, rq, st, run) ==
    /\ st.phase \in {"idle", "running", "waiting", "update"}
    /\ st.phase \in {"idle", "update"} => st = NoStep(st.phase)
    /\ IsInjective(st.order) /\ ToSet(st.order) \subseteq ToSet(run)
    /\ \A r \in Request : st.num[r] \in Nat /\ (st.num[r] > 0 <=> r \in ToSet(st.order))
    /\ st.fresh \subseteq ToSet(st.order)
    /\ Owned(st.num, st.budget)
    /\ Len(run) <= c.maxNumRunningReqs
    /\ st.phase = "running" => LoopOK(c, rq, st, run)

BatchOK(b, rq) ==
    /\ IsInjective(b.order) /\ DOMAIN b.out \subseteq ToSet(b.order)
    /\ \A r \in ToSet(b.order) : rq[r].status # "NEW"
    /\ \A r \in DOMAIN b.out : b.out[r].token \in Vocabulary

InflightOK(c, rq, st, batches) ==
    /\ Len(batches) <= c.batchQueueSize
    /\ st.phase # "update" => Len(batches) < c.batchQueueSize
    /\ \A i \in 1 .. Len(batches) : BatchOK(batches[i], rq)

\* The outputs in flight that will be appended to the request.
Due(batches, r, q) == CountIn(batches, r) - (IF q.discard THEN 1 ELSE 0)

\* Async scheduling: a live request has a placeholder for each output it is
\* due.  One that waits is due none, but for what the call that preempted it
\* leaves in flight; the worker already has the tokens of one that runs.
AsyncOK(c, r, q, st, batches, w) ==
    /\ q.status \in Live => Due(batches, r, q) <= q.placeholders
    /\ q.status \in Queued =>
          IF st.phase = "update"
          THEN batches # <<>> /\ r \notin DOMAIN batches[Len(batches)].out
          ELSE r \in st.preempted \/ Due(batches, r, q) <= 0
    /\ q.status = "RUNNING" =>
          IF r \in st.fresh THEN Due(batches, r, q) <= 0
          ELSE Length(c, r, q) + Due(batches, r, q) <= Len(w[r])

SchedulerFaults == {"bad batch", "placeholder underflow", "reset failed"}

\* What all the parts of the engine's state satisfy.
PartsOK(c, rq, run, m, st, batches, w, fs) ==
    /\ c.async => c.batchQueueSize <= 2
    /\ KVInv(m, Known(c, rq), Alphabet(c))
    /\ \A r \in Request : ReqOK(c, r, rq[r])
    /\ \A r \in Request : Fits(c, r, rq[r], st.num[r], m.table[r])
    /\ StepOK(c, rq, st, run)
    /\ InflightOK(c, rq, st, batches)
    /\ w \in [Request -> Seq(Alphabet(c))]
    /\ c.async => \A r \in Request : AsyncOK(c, r, rq[r], st, batches, w)
    /\ fs \cap SchedulerFaults = {}

EngineInv ==
    /\ SchedulerInv
    /\ PartsOK(config, req, running, kv, step, inflight, worker, faults)

\* The tokens of a request: its prompt and its output.
LEMMA KnownSpec ==
    ASSUME NEW c, SchedulerConfig(c), NEW r \in DOMAIN c.prompt, NEW rq,
           rq[r].output \in Seq(Vocabulary)
    PROVE  /\ Known(c, rq)[r] = c.prompt[r] \o rq[r].output
           /\ Known(c, rq)[r] \in Seq(Alphabet(c)) /\ Known(c, rq)[r] # <<>>
           /\ Len(Known(c, rq)[r]) = Length(c, r, rq[r])
           /\ Len(c.prompt[r]) \in Nat \ {0} /\ Len(rq[r].output) \in Nat
           /\ Length(c, r, rq[r]) \in Nat
           /\ c.prompt[r] \in Seq(Alphabet(c)) /\ rq[r].output \in Seq(Alphabet(c))
<1> DEFINE V == Alphabet(c)
           p == c.prompt[r]
           o == rq[r].output
<1>1. Known(c, rq)[r] = p \o o
  BY DEF Known
<1>2. p \in Seq(ToSet(p)) /\ Len(p) \in 1 .. MaxModelLen - 1 /\ MaxModelLen \in Nat
  BY KVCacheAssumption DEF SchedulerConfig
<1>3. ToSet(p) \subseteq V /\ Vocabulary \subseteq V
  BY DEF Alphabet
<1> HIDE DEF V, p, o
<1>4. p \in Seq(V) /\ o \in Seq(V)
  <2>1. \A i \in 1 .. Len(p) : p[i] \in V
    BY <1>2, <1>3
  <2>2. o \in Seq(Vocabulary)
    BY DEF o
  <2>3. \A i \in 1 .. Len(o) : o[i] \in V
    BY <1>3, <2>2
  <2> QED BY <1>2, <2>1, <2>2, <2>3
<1>5. p \o o \in Seq(V) /\ Len(p \o o) = Len(p) + Len(o)
  BY <1>4
<1>6. Len(p) \in Nat \ {0} /\ Len(o) \in Nat
  BY <1>2, <1>4
<1>7. p \o o # <<>>
  BY <1>5, <1>6
<1>8. Length(c, r, rq[r]) = Len(p) + Len(o)
  BY DEF Length, p, o
<1>9. Len(p) + Len(o) \in Nat
  BY <1>6
<1> QED BY <1>1, <1>4, <1>5, <1>6, <1>7, <1>8, <1>9 DEF V, p, o

\* Requests with the outputs they had have the tokens they had.
LEMMA KnownKept ==
    ASSUME NEW c, NEW rq, NEW rq2,
           \A r \in DOMAIN c.prompt : rq2[r].output = rq[r].output
    PROVE  Known(c, rq2) = Known(c, rq)
  BY DEF Known

\* What EngineInv says of the tokens of a request that has been sent.
LEMMA SentSpec ==
    ASSUME EngineInv, NEW r \in Request, req[r].status # "NEW"
    PROVE  /\ r \in DOMAIN config.prompt
           /\ SchedulerConfig(config)
           /\ Tokens(r) = Known(config, req)[r]
           /\ Tokens(r) \in Seq(Alphabet(config)) /\ Tokens(r) # <<>>
           /\ NumTokens(r) = Length(config, r, req[r])
           /\ NumTokens(r) \in Nat \ {0}
<1>1. r \in DOMAIN config.prompt /\ SchedulerConfig(config)
  BY ConfigSpec DEF EngineInv, SchedulerInv, ReqInv, Sent
<1>2. req[r].output \in Seq(Vocabulary)
  BY DEF EngineInv, PartsOK, ReqOK
<1>3. Tokens(r) = Known(config, req)[r]
  BY <1>1, <1>2, KnownSpec DEF Tokens, Prompt
<1>4. NumTokens(r) = Length(config, r, req[r])
  BY <1>1, <1>2, <1>3, KnownSpec DEF NumTokens
<1>5. Length(config, r, req[r]) \in Nat \ {0}
  <2> DEFINE a == Len(config.prompt[r])
             b == Len(req[r].output)
  <2>1. a \in Nat \ {0} /\ b \in Nat
    BY <1>1, <1>2, KnownSpec
  <2>2. Length(config, r, req[r]) = a + b
    BY DEF Length
  <2> HIDE DEF a, b
  <2>3. a + b \in Nat \ {0}
    BY <2>1
  <2> QED BY <2>2, <2>3
<1> QED BY <1>1, <1>2, <1>3, <1>4, <1>5, KnownSpec

\* No budget, nothing scheduled.
LEMMA OwnedEmpty ==
    Owned([r \in Request |-> 0], 0)
<1> DEFINE own == [r \in Request |-> {}]
<1>1. Cardinality({}) = 0
  BY FS_EmptySet
<1>2. /\ own \in [Request -> SUBSET (1 .. MaxNumScheduledTokens)]
      /\ \A r \in Request : own[r] = {}
  OBVIOUS
<1> HIDE DEF own
<1> QED BY <1>1, <1>2 DEF Owned

\* schedule() begins with the whole budget.
LEMMA OwnedAll ==
    Owned([r \in Request |-> 0], MaxNumScheduledTokens)
<1> DEFINE own == [r \in Request |-> {}]
           M == MaxNumScheduledTokens
<1>1. Cardinality({}) = 0
  BY FS_EmptySet
<1>2. /\ own \in [Request -> SUBSET (1 .. M)]
      /\ \A r \in Request : own[r] = {}
  OBVIOUS
<1>3. Cardinality(1 .. M) = M
  <2>1. M \in Nat \ {0}
    BY SchedulerAssumption
  <2>2. Cardinality(1 .. M) = IF 1 > M THEN 0 ELSE M - 1 + 1
    <3>1. 1 \in Int /\ M \in Int
      BY <2>1
    <3> HIDE DEF M
    <3> QED BY <3>1, FS_Interval
  <2>3. (IF 1 > M THEN 0 ELSE M - 1 + 1) = M
    BY <2>1
  <2> QED BY <2>2, <2>3
<1> HIDE DEF own
<1> QED BY <1>1, <1>2, <1>3 DEF Owned

\* A request is scheduled for n tokens of the budget.
LEMMA OwnedTake ==
    ASSUME NEW num, NEW budget, Owned(num, budget), DOMAIN num = Request,
           NEW r \in Request, num[r] = 0, NEW n \in Nat, n <= budget
    PROVE  Owned([num EXCEPT ![r] = n], budget - n) /\ budget \in Nat
<1> DEFINE M == 1 .. MaxNumScheduledTokens
<1>1. PICK own, spare :
        /\ own \in [Request -> SUBSET M]
        /\ spare \in SUBSET M
        /\ \A q, p \in Request : q # p => own[q] \cap own[p] = {}
        /\ \A q \in Request : own[q] \cap spare = {} /\ Cardinality(own[q]) = num[q]
        /\ Cardinality(spare) = budget
  BY DEF Owned
<1>2. IsFiniteSet(M)
  <2>1. 1 \in Int /\ MaxNumScheduledTokens \in Int
    BY SchedulerAssumption
  <2> QED BY <2>1, FS_Interval
<1> HIDE DEF M
<1>3. IsFiniteSet(spare) /\ budget \in Nat
  BY <1>1, <1>2, FS_Subset, FS_CardinalityType
<1>4. PICK T \in SUBSET spare : IsFiniteSet(T) /\ Cardinality(T) = n
  <2>1. n \in 0 .. Cardinality(spare)
    BY <1>1, <1>3
  <2> QED BY <1>3, <2>1, SubsetOfSize
<1>5. Cardinality(spare \ T) = budget - n
  <2>1. (spare \ T) \cap T = {} /\ (spare \ T) \cup T = spare
    BY <1>4
  <2>2. IsFiniteSet(spare \ T)
    <3>1. (spare \ T) \in SUBSET spare
      OBVIOUS
    <3> QED BY <1>3, <3>1, FS_Subset
  <2>3. Cardinality(spare) = Cardinality(spare \ T) + Cardinality(T) - Cardinality({})
    BY <1>4, <2>1, <2>2, FS_Union
  <2>4. Cardinality({}) = 0 /\ Cardinality(spare \ T) \in Nat
    BY <2>2, FS_EmptySet, FS_CardinalityType
  <2> QED BY <1>1, <1>3, <1>4, <2>3, <2>4
<1> DEFINE own2 == [own EXCEPT ![r] = T]
           num2 == [num EXCEPT ![r] = n]
<1>6. /\ own2[r] = T /\ num2[r] = n
      /\ \A q \in Request \ {r} : own2[q] = own[q] /\ num2[q] = num[q]
      /\ own2 \in [Request -> SUBSET M]
  BY <1>1, <1>4
<1> HIDE DEF own2, num2
<1>7. \A q, p \in Request : q # p => own2[q] \cap own2[p] = {}
  BY <1>1, <1>4, <1>6
<1>8. \A q \in Request : own2[q] \cap (spare \ T) = {} /\ Cardinality(own2[q]) = num2[q]
  BY <1>1, <1>4, <1>6
<1>9. spare \ T \in SUBSET M
  BY <1>1
<1>10. Owned(num2, budget - n)
  BY <1>5, <1>6, <1>7, <1>8, <1>9 DEF Owned, M
<1> QED BY <1>3, <1>10 DEF num2

\* A request gives its tokens back.
LEMMA OwnedGive ==
    ASSUME NEW num, NEW budget, Owned(num, budget), DOMAIN num = Request,
           NEW r \in Request
    PROVE  Owned([num EXCEPT ![r] = 0], budget + num[r])
<1> DEFINE M == 1 .. MaxNumScheduledTokens
<1>1. PICK own, spare :
        /\ own \in [Request -> SUBSET M]
        /\ spare \in SUBSET M
        /\ \A q, p \in Request : q # p => own[q] \cap own[p] = {}
        /\ \A q \in Request : own[q] \cap spare = {} /\ Cardinality(own[q]) = num[q]
        /\ Cardinality(spare) = budget
  BY DEF Owned
<1>2. IsFiniteSet(M)
  <2>1. 1 \in Int /\ MaxNumScheduledTokens \in Int
    BY SchedulerAssumption
  <2> QED BY <2>1, FS_Interval
<1> HIDE DEF M
<1>3. IsFiniteSet(spare) /\ IsFiniteSet(own[r]) /\ budget \in Nat /\ num[r] \in Nat
  BY <1>1, <1>2, FS_Subset, FS_CardinalityType
<1>4. Cardinality(spare \cup own[r]) = budget + num[r]
  <2>1. spare \cap own[r] = {}
    BY <1>1
  <2>2. Cardinality(spare \cup own[r])
           = Cardinality(spare) + Cardinality(own[r]) - Cardinality({})
    BY <1>3, <2>1, FS_Union
  <2>3. Cardinality({}) = 0
    BY FS_EmptySet
  <2> QED BY <1>1, <1>3, <2>2, <2>3
<1> DEFINE own2 == [own EXCEPT ![r] = {}]
           num2 == [num EXCEPT ![r] = 0]
           spare2 == spare \cup own[r]
<1>5. /\ own2[r] = {} /\ num2[r] = 0
      /\ \A q \in Request \ {r} : own2[q] = own[q] /\ num2[q] = num[q]
      /\ own2 \in [Request -> SUBSET M] /\ spare2 \in SUBSET M
  BY <1>1
<1>6. \A q \in Request \ {r} : own[q] \cap spare2 = {}
  BY <1>1
<1> HIDE DEF own2, num2, spare2
<1>7. \A q, p \in Request : q # p => own2[q] \cap own2[p] = {}
  BY <1>1, <1>5
<1>8. \A q \in Request : own2[q] \cap spare2 = {} /\ Cardinality(own2[q]) = num2[q]
  BY <1>1, <1>5, <1>6, FS_EmptySet
<1>9. Cardinality(spare2) = budget + num[r]
  BY <1>4 DEF spare2
<1>10. Owned(num2, budget + num[r])
  <2>1. \A q \in Request : own2[q] \cap spare2 = {}
    BY <1>8
  <2>2. \A q \in Request : Cardinality(own2[q]) = num2[q]
    BY <1>8
  <2> USE DEF M
  <2> SUFFICES \E o, s : /\ o \in [Request -> SUBSET M] /\ s \in SUBSET M
                         /\ \A q, p \in Request : q # p => o[q] \cap o[p] = {}
                         /\ \A q \in Request : o[q] \cap s = {} /\ Cardinality(o[q]) = num2[q]
                         /\ Cardinality(s) = budget + num[r]
    BY DEF Owned
  <2> HIDE DEF M
  <2> WITNESS own2, spare2
  <2> QED BY <1>5, <1>7, <1>9, <2>1, <2>2
<1> QED BY <1>10 DEF num2

\* The budget is never negative nor more than it was.
LEMMA OwnedBounds ==
    ASSUME NEW num, NEW budget, Owned(num, budget)
    PROVE  budget \in 0 .. MaxNumScheduledTokens
<1> DEFINE M == 1 .. MaxNumScheduledTokens
<1>1. PICK spare \in SUBSET M : Cardinality(spare) = budget
  BY DEF Owned
<1>2. MaxNumScheduledTokens \in Nat \ {0}
  BY SchedulerAssumption
<1>3. IsFiniteSet(M) /\ Cardinality(M) = MaxNumScheduledTokens
  <2>1. 1 \in Int /\ MaxNumScheduledTokens \in Int
    BY <1>2
  <2>2. IsFiniteSet(M) /\ Cardinality(M) =
          IF 1 > MaxNumScheduledTokens THEN 0 ELSE MaxNumScheduledTokens - 1 + 1
    BY <2>1, FS_Interval
  <2>3. (IF 1 > MaxNumScheduledTokens THEN 0 ELSE MaxNumScheduledTokens - 1 + 1)
           = MaxNumScheduledTokens
    BY <1>2
  <2> QED BY <2>2, <2>3
<1>4. IsFiniteSet(spare) /\ budget <= MaxNumScheduledTokens
  BY <1>1, <1>3, FS_Subset
<1>5. budget \in Nat
  BY <1>1, <1>4, FS_CardinalityType
<1> QED BY <1>2, <1>4, <1>5

\* Between two calls of schedule() nothing is scheduled.
LEMMA NoStepOK ==
    ASSUME NEW c, NEW rq, NEW run, Len(run) <= c.maxNumRunningReqs,
           NEW phase \in {"idle", "update"}
    PROVE  StepOK(c, rq, NoStep(phase), run)
<1> DEFINE st == NoStep(phase)
<1>1. /\ st.phase = phase /\ st.order = <<>> /\ st.num = [r \in Request |-> 0]
      /\ st.fresh = {} /\ st.budget = 0
  BY DEF NoStep
<1>2. IsInjective(<<>>) /\ ToSet(<<>>) = {}
  BY DEF IsInjective, ToSet
<1>3. phase # "running" /\ phase \in {"idle", "running", "waiting", "update"}
  OBVIOUS
<1>4. Owned(st.num, st.budget)
  BY <1>1, OwnedEmpty
<1>5. st = NoStep(st.phase)
  BY <1>1
<1>6. \A r \in Request : st.num[r] = 0
  BY <1>1
<1> HIDE DEF st
<1> QED BY <1>1, <1>2, <1>3, <1>4, <1>5, <1>6 DEF StepOK, st

\* The initial state.
LEMMA InitParts ==
    ASSUME Init, config.async => config.batchQueueSize <= 2
    PROVE  PartsOK(config, req, running, kv, step, inflight, worker, faults)
<1>1. SchedulerConfig(config)
  BY ConfigSpec DEF Init
<1>2. \A r \in Request : req[r] = NewRequest
  BY DEF Init
<1>3. /\ NewRequest.status = "NEW" /\ NewRequest.computed = 0 /\ NewRequest.output = <<>>
      /\ NewRequest.placeholders = 0 /\ NewRequest.discard = FALSE
  BY DEF NewRequest
<1>4. MaxModelLen \in Nat \ {0}
  BY KVCacheAssumption
<1>5. ASSUME NEW r \in Request PROVE ReqOK(config, r, req[r])
  <2> DEFINE q == req[r]
  <2>1. 0 \in 0 .. MaxModelLen - 1 /\ <<>> \in Seq(Vocabulary) /\ 0 \in Int
        /\ FALSE \in BOOLEAN
    BY <1>4
  <2>2. /\ q.status = "NEW" /\ q.computed = 0 /\ q.output = <<>> /\ q.placeholders = 0
        /\ q.discard = FALSE
    BY <1>2, <1>3
  <2>3. q.status \notin Live
    BY <2>2, StatusesDiffer DEF Live
  <2> HIDE DEF q
  <2>4. ReqOK(config, r, q)
    BY <2>1, <2>2, <2>3 DEF ReqOK
  <2> QED BY <2>4 DEF q
<1>6. \A r \in Request : req[r].status # "RUNNING" /\ req[r].status \notin Queued
  BY <1>2, <1>3, StatusesDiffer
<1>7. Len(running) <= config.maxNumRunningReqs /\ Len(inflight) = 0
      /\ config.batchQueueSize \in Nat \ {0}
  BY <1>1 DEF Init, SchedulerConfig
<1>8. StepOK(config, req, step, running)
  BY <1>7, NoStepOK DEF Init
<1>9. InflightOK(config, req, step, inflight)
  BY <1>7 DEF InflightOK
<1>10. worker \in [Request -> Seq(Alphabet(config))]
  BY DEF Init
<1>11. KVInv(kv, Known(config, req), Alphabet(config))
  BY EmptyKVInv DEF Init
<1>12. faults \cap SchedulerFaults = {}
  BY DEF Init
<1>13. \A r \in Request : Fits(config, r, req[r], step.num[r], kv.table[r])
  BY <1>6 DEF Fits
<1>14. \A r \in Request : AsyncOK(config, r, req[r], step, inflight, worker)
  BY <1>6 DEF AsyncOK, Live
<1> QED BY <1>5, <1>8, <1>9, <1>10, <1>11, <1>12, <1>13, <1>14 DEF PartsOK

-----------------------------------------------------------------------------
(* The cache: client calls                                                  *)

\* The loop that frees several requests.
LEMMA FreeRequestsInv ==
    ASSUME NEW m, NEW tok, NEW V, KVInv(m, tok, V), NEW order \in Seq(Request)
    PROVE  KVInv(FreeRequests(m, order), tok, V)
<1> DEFINE n == Len(order)
<1>1. PICK run : Frees(run, m, order) /\ FreeRequests(m, order) = run[n]
  BY FreesExists
<1>2. n \in Nat /\ \A i \in 1 .. n : order[i] \in Request
  OBVIOUS
<1> DEFINE G == {i \in Nat : i <= n => KVInv(run[i], tok, V)}
<1>3. 0 \in G
  BY <1>1 DEF Frees
<1>4. ASSUME NEW i \in Nat, i \in G PROVE i + 1 \in G
  <2> SUFFICES ASSUME i + 1 <= n PROVE KVInv(run[i + 1], tok, V)
    OBVIOUS
  <2>1. KVInv(run[i], tok, V) /\ i + 1 \in 1 .. n
    BY <1>2, <1>4
  <2>2. run[i + 1] = FreeRequest(run[i], order[i + 1]) /\ order[i + 1] \in Request
    BY <1>1, <1>2, <2>1 DEF Frees
  <2> QED BY <2>1, <2>2, FreeRequestInv
<1> HIDE DEF G
<1>5. Nat \subseteq G
  BY <1>3, <1>4, SetInduction
<1> QED BY <1>1, <1>2, <1>5 DEF G

\* Between two calls of schedule() a request is not scheduled for anything.
LEMMA IdleParts ==
    ASSUME EngineInv, step.phase \in {"idle", "update"}, UNCHANGED <<step, inflight, worker>>,
           KVInv(kv', Known(config, req'), Alphabet(config)),
           Len(running') <= config.maxNumRunningReqs,
           \A r \in Request : req'[r].status = "NEW" => req[r].status = "NEW",
           \A r \in Request : ReqOK(config, r, req'[r]) /\ Fits(config, r, req'[r], 0, kv'.table[r]),
           config.async => \A r \in Request : AsyncOK(config, r, req'[r], step, inflight, worker),
           faults' \cap SchedulerFaults = {}
    PROVE  PartsOK(config, req', running', kv', step', inflight', worker', faults')
<1>1. step = NoStep(step.phase)
  BY DEF EngineInv, PartsOK, StepOK
<1>2. StepOK(config, req', step, running')
  BY <1>1, NoStepOK
<1>3. \A r \in Request : step.num[r] = 0
  BY <1>1 DEF NoStep
<1>4. InflightOK(config, req', step, inflight)
  <2>1. InflightOK(config, req, step, inflight)
    BY DEF EngineInv, PartsOK
  <2>2. \A i \in 1 .. Len(inflight) : ToSet(inflight[i].order) \subseteq Request
    <3>1. \A i \in 1 .. Len(inflight) : inflight[i] \in ToSet(inflight)
      BY ToSetSpec DEF EngineInv, SchedulerInv, BatchInv
    <3>2. \A i \in 1 .. Len(inflight) : inflight[i].order \in Seq(Request)
      BY <3>1 DEF EngineInv, SchedulerInv, BatchInv
    <3> QED BY <3>2, ToSetSpec
  <2>3. ASSUME NEW i \in 1 .. Len(inflight) PROVE BatchOK(inflight[i], req')
    <3>1. BatchOK(inflight[i], req)
      BY <2>1 DEF InflightOK
    <3> QED BY <2>2, <3>1 DEF BatchOK
  <2> QED BY <2>1, <2>3 DEF InflightOK
<1>5. /\ config.async => config.batchQueueSize <= 2
      /\ worker \in [Request -> Seq(Alphabet(config))]
  BY DEF EngineInv, PartsOK
<1> QED BY <1>2, <1>3, <1>4, <1>5 DEF PartsOK

\* Nothing but the place of requests in the waiting queue changes, or less.
LEMMA IdleParts_Same ==
    ASSUME EngineInv, UNCHANGED <<req, running, kv, step, inflight, worker, faults>>
    PROVE  PartsOK(config, req', running', kv', step', inflight', worker', faults')
  BY DEF EngineInv

\* No request is added to the running queue by removing some.
LEMMA LenRemoved ==
    ASSUME EngineInv, NEW S
    PROVE  Len(RemoveRequests(running, S)) <= config.maxNumRunningReqs
<1>1. running \in Seq(Request) /\ Len(running) \in Nat /\ Len(running) <= config.maxNumRunningReqs
  BY DEF EngineInv, SchedulerInv, Placed, PartsOK, StepOK
<1>2. /\ RemoveRequests(running, S) \in Seq(Request)
      /\ Len(RemoveRequests(running, S)) <= Len(running)
  BY <1>1, RemoveRequestsSpec
<1>3. config.maxNumRunningReqs \in Nat \ {0}
  BY ConfigSpec DEF EngineInv, SchedulerInv, SchedulerConfig
<1>4. Len(RemoveRequests(running, S)) \in Nat
  BY <1>2
<1> QED BY <1>1, <1>2, <1>3, <1>4

\* add_request: the request has no token but its prompt, and no block.
LEMMA AddRequestParts ==
    ASSUME EngineInv, NEW r \in Request, AddRequest(r)
    PROVE  PartsOK(config, req', running', kv', step', inflight', worker', faults')
<1>1. /\ step.phase = "idle" /\ r \in DOMAIN config.prompt /\ req[r].status = "NEW"
      /\ UNCHANGED <<running, kv, step, inflight, worker, faults>>
  BY DEF AddRequest, Prompt
<1>2. /\ DOMAIN req' = Request
      /\ req'[r].status = "WAITING" /\ req'[r].computed = req[r].computed
      /\ req'[r].output = req[r].output /\ req'[r].placeholders = req[r].placeholders
      /\ req'[r].discard = req[r].discard
      /\ \A q \in Request \ {r} : req'[q] = req[q]
  BY DEF AddRequest, EngineInv, SchedulerInv, ReqInv, ReqShape, ReqFields
<1>3. \A q \in Request : ReqOK(config, q, req[q])
  BY DEF EngineInv, PartsOK
<1>4. SchedulerConfig(config) /\ DOMAIN config.prompt \subseteq Request
  BY ConfigSpec DEF EngineInv, SchedulerInv, Prompt
<1>5. req[r].output = <<>> /\ req[r].placeholders = 0 /\ req[r].computed = 0
  BY <1>1, <1>3 DEF ReqOK
<1>6. ReqOK(config, r, req'[r])
  <2>1. Len(config.prompt[r]) \in 1 .. MaxModelLen - 1 /\ Len(<<>>) = 0
    BY <1>1, <1>4 DEF SchedulerConfig
  <2>2. Length(config, r, req'[r]) <= MaxModelLen - 1
    BY <1>2, <1>5, <2>1, KVCacheAssumption DEF Length
  <2> QED BY <1>2, <1>3, <1>5, <2>2, StatusesDiffer DEF ReqOK
<1>7. Known(config, req') = Known(config, req)
  <2>1. \A q \in DOMAIN config.prompt : req'[q].output = req[q].output
    BY <1>2, <1>4
  <2> QED BY <2>1, KnownKept
<1>8. config.async => AsyncOK(config, r, req'[r], step, inflight, worker)
  <2>1. inflight \in Seq(ToSet(inflight))
    BY DEF EngineInv, SchedulerInv, BatchInv
  <2>2. \A i \in 1 .. Len(inflight) : r \notin DOMAIN inflight[i].out
    BY <1>1 DEF EngineInv, PartsOK, InflightOK, BatchOK
  <2>3. CountIn(inflight, r) = 0
    BY <2>1, <2>2, CountInBounds
  <2>4. Due(inflight, r, req'[r]) <= 0
    BY <2>3 DEF Due
  <2> QED BY <1>1, <1>2, <1>5, <2>4, StatusesDiffer DEF AsyncOK, Live
<1>9. \A q \in Request : Fits(config, q, req'[q], 0, kv.table[q])
  <2>1. step = NoStep(step.phase)
    BY <1>1 DEF EngineInv, PartsOK, StepOK
  <2>2. \A q \in Request : step.num[q] = 0
    BY <2>1 DEF NoStep
  <2>3. \A q \in Request : Fits(config, q, req[q], step.num[q], kv.table[q])
    BY DEF EngineInv, PartsOK
  <2>4. Fits(config, r, req'[r], 0, kv.table[r])
    BY <1>2, StatusesDiffer DEF Fits
  <2> QED BY <1>2, <2>2, <2>3, <2>4
<1>10. \A q \in Request : ReqOK(config, q, req'[q])
  BY <1>2, <1>3, <1>6
<1>11. config.async => \A q \in Request : AsyncOK(config, q, req'[q], step, inflight, worker)
  BY <1>2, <1>8 DEF EngineInv, PartsOK
<1>12. /\ \A q \in Request : req'[q].status = "NEW" => req[q].status = "NEW"
       /\ KVInv(kv', Known(config, req'), Alphabet(config))
       /\ Len(running') <= config.maxNumRunningReqs
       /\ faults' \cap SchedulerFaults = {}
  BY <1>1, <1>2, <1>7 DEF EngineInv, PartsOK, StepOK
<1> QED BY <1>1, <1>9, <1>10, <1>11, <1>12, IdleParts

\* finish_requests: the blocks are freed, and no output is due any more.
LEMMA FinishRequestsParts ==
    ASSUME EngineInv, step.phase \in {"idle", "update"},
           UNCHANGED <<step, inflight, worker, faults>>,
           NEW S \in SUBSET Request, \A r \in S : req[r].status \in Live,
           NEW order \in Seq(Request), ToSet(order) = S, FinishRequests(S, order)
    PROVE  PartsOK(config, req', running', kv', step', inflight', worker', faults')
<1>1. /\ req' = [r \in Request |-> IF r \in S THEN [req[r] EXCEPT !.status = "FINISHED_ABORTED"]
                                  ELSE req[r]]
      /\ running' = RemoveRequests(running, S)
      /\ kv' = FreeRequests(kv, order)
  BY DEF FinishRequests
<1>2. /\ \A r \in S : /\ req'[r].status = "FINISHED_ABORTED" /\ req'[r].output = req[r].output
                      /\ req'[r].computed = req[r].computed
                      /\ req'[r].placeholders = req[r].placeholders
                      /\ req'[r].discard = req[r].discard
      /\ \A r \in Request \ S : req'[r] = req[r]
  BY <1>1 DEF EngineInv, SchedulerInv, ReqInv, ReqShape, ReqFields
<1>3. "FINISHED_ABORTED" \notin Live /\ "FINISHED_ABORTED" \notin Queued \cup {"NEW"}
  BY StatusesDiffer DEF Live
<1>4. ASSUME NEW r \in Request PROVE ReqOK(config, r, req'[r])
  <2>1. ReqOK(config, r, req[r])
    BY DEF EngineInv, PartsOK
  <2> QED BY <1>2, <1>3, <2>1 DEF ReqOK
<1>5. Known(config, req') = Known(config, req)
  <2>1. \A r \in DOMAIN config.prompt : req'[r].output = req[r].output
    <3>1. DOMAIN config.prompt \subseteq Request
      BY ConfigSpec DEF EngineInv, SchedulerInv, Prompt
    <3> QED BY <1>2, <3>1
  <2> QED BY <2>1, KnownKept
<1>6. KVInv(kv', Known(config, req'), Alphabet(config))
  BY <1>1, <1>5, FreeRequestsInv DEF EngineInv, PartsOK
<1>7. \A r \in Request \ S : kv'.table[r] = kv.table[r]
  BY <1>1, FreeRequestsTables DEF EngineInv, SchedulerInv
<1>8. ASSUME NEW r \in Request PROVE Fits(config, r, req'[r], 0, kv'.table[r])
  <2>1. step = NoStep(step.phase) /\ Fits(config, r, req[r], step.num[r], kv.table[r])
    BY DEF EngineInv, PartsOK, StepOK
  <2>2. step.num[r] = 0
    BY <2>1 DEF NoStep
  <2>3. CASE r \in S
    BY <1>2, <1>3, <2>3 DEF Fits, Live
  <2>4. CASE r \notin S
    BY <1>2, <1>7, <2>1, <2>2, <2>4
  <2> QED BY <2>3, <2>4
<1>9. ASSUME config.async, NEW r \in Request
      PROVE  AsyncOK(config, r, req'[r], step, inflight, worker)
  <2>1. AsyncOK(config, r, req[r], step, inflight, worker)
    BY <1>9 DEF EngineInv, PartsOK
  <2>2. CASE r \in S
    BY <1>2, <1>3, <2>2 DEF AsyncOK, Live
  <2>3. CASE r \notin S
    BY <1>2, <2>1, <2>3
  <2> QED BY <2>2, <2>3
<1>10. \A r \in Request : req'[r].status = "NEW" => req[r].status = "NEW"
  BY <1>2, <1>3
<1>11. Len(running') <= config.maxNumRunningReqs /\ faults' \cap SchedulerFaults = {}
  BY <1>1, LenRemoved DEF EngineInv, PartsOK
<1> QED BY <1>4, <1>6, <1>8, <1>9, <1>10, <1>11, IdleParts

\* One request is aborted.
LEMMA AbortRequestParts ==
    ASSUME EngineInv, NEW r \in Request, AbortRequest(r)
    PROVE  PartsOK(config, req', running', kv', step', inflight', worker', faults')
<1>1. /\ step.phase \in {"idle", "update"} /\ req[r].status \in Live
      /\ FinishRequests({r}, <<r>>) /\ UNCHANGED <<step, inflight, worker, faults>>
  BY DEF AbortRequest, Live
<1>2. <<r>> \in Seq(Request) /\ ToSet(<<r>>) = {r}
  BY SingletonSpec
<1> QED BY <1>1, <1>2, FinishRequestsParts

\* pause_generation in abort mode: every request is.
LEMMA PauseAbortParts ==
    ASSUME EngineInv, NEW clear \in BOOLEAN, PauseAbort(clear)
    PROVE  PartsOK(config, req', running', kv', step', inflight', worker', faults')
<1> DEFINE S == {r \in Request : req[r].status \in Queued \cup {"RUNNING"}}
<1>1. /\ step.phase \in {"idle", "update"} /\ UNCHANGED <<step, inflight, worker, faults>>
      /\ \E order \in [1 .. Cardinality(S) -> S] :
            ToSet(order) = S /\ FinishRequests(S, order)
  BY DEF PauseAbort
<1>2. Cardinality(S) \in Nat
  <2>1. S \subseteq Sent(req)
    BY StatusesDiffer DEF Sent
  <2> HIDE DEF S
  <2>2. IsFiniteSet(S)
    BY <2>1, FS_Subset DEF EngineInv, SchedulerInv, ReqInv
  <2> QED BY <2>2, FS_CardinalityType
<1>3. S \in SUBSET Request /\ \A r \in S : req[r].status \in Live
  BY DEF Live
<1> HIDE DEF S
<1>4. PICK order \in [1 .. Cardinality(S) -> S] : ToSet(order) = S /\ FinishRequests(S, order)
  BY <1>1
<1>5. order \in Seq(Request)
  BY <1>2, <1>3
<1> QED BY <1>1, <1>3, <1>4, <1>5, FinishRequestsParts

\* Preempting every request between two steps frees every block.
LEMMA ResetRunningParts ==
    ASSUME EngineInv, step.phase = "idle", UNCHANGED <<step, inflight, worker>>,
           ResetRunning(req, running, waiting, kv)
    PROVE  PartsOK(config, req', running', kv', step', inflight', worker', faults')
<1> DEFINE back == Reverse(running)
           kv1  == FreeRequests(kv, back)
           R    == ToSet(running)
           V    == Alphabet(config)
<1>1. /\ req' = [r \in Request |->
                   IF r \in R THEN [Preempted(req[r]) EXCEPT !.placeholders = 0, !.discard = TRUE]
                   ELSE req[r]]
      /\ running' = <<>>
      /\ kv' = ResetPrefixCache(kv1)
      /\ faults' = IF CanResetPrefixCache(kv1) THEN faults ELSE faults \cup {"reset failed"}
  BY DEF ResetRunning
<1>2. R = {r \in Request : req[r].status = "RUNNING"}
  BY DEF EngineInv, SchedulerInv, Placed
<1> HIDE DEF R
<1>3. /\ \A r \in R : /\ req'[r].status = "PREEMPTED" /\ req'[r].output = req[r].output
                      /\ req'[r].computed = 0
                      /\ req'[r].placeholders = 0 /\ req'[r].discard = TRUE
      /\ \A r \in Request \ R : req'[r] = req[r]
  BY <1>1, <1>2 DEF EngineInv, SchedulerInv, ReqInv, ReqShape, ReqFields, Preempted
<1>4. "PREEMPTED" \in Live /\ "PREEMPTED" \in Queued /\ "PREEMPTED" # "NEW"
      /\ "PREEMPTED" # "RUNNING" /\ "RUNNING" \in Live
  BY StatusesDiffer DEF Live
<1>5. MaxModelLen \in Nat \ {0}
  BY KVCacheAssumption
<1>6. ASSUME NEW r \in Request PROVE ReqOK(config, r, req'[r])
  <2>1. ReqOK(config, r, req[r])
    BY DEF EngineInv, PartsOK
  <2>2. CASE r \in R
    <3>1. Length(config, r, req'[r]) = Length(config, r, req[r])
      BY <1>3, <2>2 DEF Length
    <3>2. 0 \in 0 .. MaxModelLen - 1 /\ 0 \in Int /\ 0 >= 0 /\ TRUE \in BOOLEAN
      BY <1>5
    <3> DEFINE q == req[r]
               p == req'[r]
    <3>3. /\ q.status = "RUNNING" /\ p.status = "PREEMPTED" /\ p.output = q.output
          /\ p.computed = 0 /\ p.placeholders = 0 /\ p.discard = TRUE
      BY <1>2, <1>3, <2>2
    <3>4. ReqOK(config, r, q) /\ Length(config, r, p) = Length(config, r, q)
      BY <2>1, <3>1
    <3> HIDE DEF p, q
    <3>5. q.output \in Seq(Vocabulary) /\ Length(config, r, q) <= MaxModelLen - 1
      BY <1>4, <3>3, <3>4 DEF ReqOK
    <3>6. Length(config, r, p) <= MaxModelLen - 1
      BY <3>4, <3>5
    <3>7. p.status \notin {"NEW"} /\ p.placeholders >= 0
      BY <1>4, <3>2, <3>3
    <3>8. ReqOK(config, r, p)
      BY <1>4, <3>2, <3>3, <3>5, <3>6, <3>7 DEF ReqOK
    <3> QED BY <3>8 DEF p
  <2>3. CASE r \notin R
    BY <1>3, <2>1, <2>3
  <2> QED BY <2>2, <2>3
<1>7. Known(config, req') = Known(config, req)
  <2>1. \A r \in DOMAIN config.prompt : req'[r].output = req[r].output
    <3>1. DOMAIN config.prompt \subseteq Request
      BY ConfigSpec DEF EngineInv, SchedulerInv, Prompt
    <3> QED BY <1>3, <3>1
  <2> QED BY <2>1, KnownKept
<1>8. back \in Seq(Request) /\ ToSet(back) = R
  BY ReverseSpec DEF EngineInv, SchedulerInv, Placed, R
<1> HIDE DEF back
<1>9. KVInv(kv1, Known(config, req), V)
  BY <1>8, FreeRequestsInv DEF EngineInv, PartsOK
<1>10. \A r \in Request : kv1.table[r] = <<>>
  <2>1. \A r \in Request : kv1.table[r] = IF r \in ToSet(back) THEN <<>> ELSE kv.table[r]
    BY <1>8, FreeRequestsTables DEF EngineInv, SchedulerInv
  <2>2. \A r \in Request \ R : kv.table[r] = <<>>
    BY <1>2 DEF EngineInv, SchedulerInv, Placed
  <2> HIDE DEF kv1
  <2> QED BY <1>8, <2>1, <2>2
<1> HIDE DEF kv1
<1>11. CanResetPrefixCache(kv1)
  BY <1>9, <1>10, ResetSpec DEF KVInv
<1>12. KVInv(kv', Known(config, req'), V)
  BY <1>1, <1>7, <1>9, ResetInv
<1>13. faults' \cap SchedulerFaults = {}
  BY <1>1, <1>11 DEF EngineInv, PartsOK
<1>14. \A r \in Request : req'[r].status # "RUNNING"
  BY <1>2, <1>3, <1>4
<1>15. \A r \in Request : Fits(config, r, req'[r], 0, kv'.table[r])
  BY <1>14 DEF Fits
<1>16. ASSUME config.async, NEW r \in Request
       PROVE  AsyncOK(config, r, req'[r], step, inflight, worker)
  <2>1. AsyncOK(config, r, req[r], step, inflight, worker)
    BY <1>16 DEF EngineInv, PartsOK
  <2>2. CASE r \in R
    <3>1. inflight \in Seq(ToSet(inflight)) /\ Len(inflight) \in Nat
      BY DEF EngineInv, SchedulerInv, BatchInv
    <3>2. CountIn(inflight, r) \in Nat /\ CountIn(inflight, r) <= Len(inflight)
      BY <3>1, CountInBounds
    <3>3. Len(inflight) < config.batchQueueSize /\ config.batchQueueSize <= 2
      BY <1>16 DEF EngineInv, PartsOK, InflightOK
    <3>4. config.batchQueueSize \in Nat
      BY ConfigSpec DEF EngineInv, SchedulerInv, SchedulerConfig
    <3>5. CountIn(inflight, r) - 1 <= 0
      BY <3>1, <3>2, <3>3, <3>4
    <3>6. Due(inflight, r, req'[r]) <= 0
      BY <1>3, <2>2, <3>5 DEF Due
    <3> QED BY <1>3, <1>4, <2>2, <3>6 DEF AsyncOK
  <2>3. CASE r \notin R
    BY <1>3, <2>1, <2>3
  <2> QED BY <2>2, <2>3
<1>17. \A r \in Request : req'[r].status = "NEW" => req[r].status = "NEW"
  BY <1>3, <1>4
<1>18. Len(running') <= config.maxNumRunningReqs
  <2>1. config.maxNumRunningReqs \in Nat \ {0}
    BY ConfigSpec DEF EngineInv, SchedulerInv, SchedulerConfig
  <2>2. Len(<<>>) = 0
    OBVIOUS
  <2> HIDE DEF kv1
  <2>3. Len(running') = 0
    BY <1>1, <2>2
  <2> QED BY <2>1, <2>3
<1> QED BY <1>6, <1>12, <1>13, <1>15, <1>16, <1>17, <1>18, IdleParts

\* reset_prefix_cache, with and without preempting what runs.
LEMMA ResetCacheParts ==
    ASSUME EngineInv, NEW all \in BOOLEAN, ResetCache(all)
    PROVE  PartsOK(config, req', running', kv', step', inflight', worker', faults')
<1>1. step.phase = "idle" /\ UNCHANGED <<step, inflight, worker>>
  BY DEF ResetCache
<1>2. CASE all
  BY <1>1, <1>2, ResetRunningParts DEF ResetCache
<1>3. CASE ~ all
  <2>1. kv' = ResetPrefixCache(kv) /\ UNCHANGED <<req, running, faults>>
    BY <1>3 DEF ResetCache
  <2>2. KVInv(kv', Known(config, req), Alphabet(config)) /\ kv'.table = kv.table
    BY <2>1, ResetInv DEF EngineInv, PartsOK
  <2> QED BY <1>1, <2>1, <2>2 DEF EngineInv, PartsOK
<1> QED BY <1>2, <1>3

\* pause_scheduler, which may reset the cache.
LEMMA PauseSchedulerParts ==
    ASSUME EngineInv, NEW mode, NEW clear \in BOOLEAN, PauseScheduler(mode, clear)
    PROVE  PartsOK(config, req', running', kv', step', inflight', worker', faults')
<1>1. /\ step.phase = "idle" /\ UNCHANGED <<step, inflight, worker>>
      /\ \/ ResetRunning(req, running, waiting, kv)
         \/ UNCHANGED <<req, running, kv, faults>>
  BY DEF PauseScheduler
<1> QED BY <1>1, ResetRunningParts, IdleParts_Same

\* The callback of a pause, and resume_scheduler.
LEMMA IdleCallbackParts ==
    ASSUME EngineInv, IdleCallback \/ ResumeScheduler
    PROVE  PartsOK(config, req', running', kv', step', inflight', worker', faults')
<1>1. CASE IdleCallback
  BY <1>1, ResetRunningParts DEF IdleCallback
<1>2. CASE ResumeScheduler
  BY <1>2, IdleParts_Same DEF ResumeScheduler
<1> QED BY <1>1, <1>2

-----------------------------------------------------------------------------
(* The cache: schedule(), the running requests                              *)

\* A step of schedule() that leaves the requests and the batches alone.
LEMMA ScheduleParts ==
    ASSUME EngineInv, UNCHANGED <<req, running, inflight, worker, faults>>,
           step.phase # "update", step'.phase # "update",
           step'.fresh = step.fresh, step'.preempted = step.preempted,
           KVInv(kv', Known(config, req), Alphabet(config)),
           \A r \in Request : Fits(config, r, req[r], step'.num[r], kv'.table[r]),
           StepOK(config, req, step', running)
    PROVE  PartsOK(config, req', running', kv', step', inflight', worker', faults')
<1>1. InflightOK(config, req, step', inflight)
  BY DEF EngineInv, PartsOK, InflightOK
<1>2. config.async => \A r \in Request : AsyncOK(config, r, req[r], step', inflight, worker)
  BY DEF EngineInv, PartsOK, AsyncOK
<1> QED BY <1>1, <1>2 DEF EngineInv, PartsOK

\* schedule() begins.
LEMMA BeginScheduleParts ==
    ASSUME EngineInv, BeginSchedule
    PROVE  PartsOK(config, req', running', kv', step', inflight', worker', faults')
<1> DEFINE n == IF pause = "PAUSED_ALL" THEN 0 ELSE MaxNumScheduledTokens
           s == NoStep("running")
<1>1. /\ step.phase = "idle" /\ step' = [s EXCEPT !.budget = n]
      /\ UNCHANGED <<req, running, kv, inflight, worker, faults>>
  BY DEF BeginSchedule
<1>2. step = NoStep("idle")
  BY <1>1 DEF EngineInv, PartsOK, StepOK
<1>3. /\ step.fresh = {} /\ step.preempted = {} /\ step.num = [r \in Request |-> 0]
  BY <1>2 DEF NoStep
<1> HIDE DEF n
<1>4. /\ step'.phase = "running" /\ step'.fresh = {} /\ step'.preempted = {}
      /\ step'.num = [r \in Request |-> 0] /\ step'.order = <<>> /\ step'.cur = NoRequest
      /\ step'.budget = n
  BY <1>1 DEF NoStep
<1> HIDE DEF s
<1>5. Owned(step'.num, step'.budget)
  BY <1>4, OwnedEmpty, OwnedAll DEF n
<1>6. IsInjective(<<>>) /\ ToSet(<<>>) = {}
  BY DEF IsInjective, ToSet
<1>7. LoopOK(config, req, step', running)
  BY <1>4, <1>6 DEF LoopOK
<1>8. Len(running) <= config.maxNumRunningReqs
  BY DEF EngineInv, PartsOK, StepOK
<1>9. \A r \in Request : step'.num[r] = 0 /\ step.num[r] = 0
  BY <1>3, <1>4
<1>10. StepOK(config, req, step', running)
  BY <1>4, <1>5, <1>6, <1>7, <1>8, <1>9 DEF StepOK
<1>11. \A r \in Request : Fits(config, r, req[r], step'.num[r], kv'.table[r])
  BY <1>1, <1>9 DEF EngineInv, PartsOK
<1>12. /\ step.phase # "update" /\ step'.phase # "update"
       /\ step'.fresh = step.fresh /\ step'.preempted = step.preempted
       /\ KVInv(kv', Known(config, req), Alphabet(config))
  BY <1>1, <1>3, <1>4 DEF EngineInv, PartsOK
<1> QED BY <1>1, <1>10, <1>11, <1>12, ScheduleParts

\* The loop over the running requests ends.
LEMMA EndRunningParts ==
    ASSUME EngineInv, EndRunning
    PROVE  PartsOK(config, req', running', kv', step', inflight', worker', faults')
<1>1. /\ step.phase = "running" /\ step' = [step EXCEPT !.phase = "waiting", !.idx = 1, !.stop = FALSE]
      /\ UNCHANGED <<req, running, kv, inflight, worker, faults>>
  BY DEF EndRunning
<1>2. /\ step'.phase = "waiting" /\ step'.fresh = step.fresh /\ step'.preempted = step.preempted
      /\ step'.num = step.num /\ step'.order = step.order /\ step'.budget = step.budget
  BY <1>1 DEF EngineInv, SchedulerInv, StepInv, StepFields
<1>3. StepOK(config, req, step', running)
  <2>1. StepOK(config, req, step, running)
    BY DEF EngineInv, PartsOK
  <2> QED BY <1>2, <2>1 DEF StepOK
<1>4. \A r \in Request : Fits(config, r, req[r], step'.num[r], kv'.table[r])
  BY <1>1, <1>2 DEF EngineInv, PartsOK
<1>5. /\ step.phase # "update" /\ step'.phase # "update"
      /\ KVInv(kv', Known(config, req), Alphabet(config))
  BY <1>1, <1>2 DEF EngineInv, PartsOK
<1> QED BY <1>1, <1>2, <1>3, <1>4, <1>5, ScheduleParts

\* A running request with nothing to schedule.
LEMMA SkipRunningParts ==
    ASSUME EngineInv, SkipRunning
    PROVE  PartsOK(config, req', running', kv', step', inflight', worker', faults')
<1>1. /\ step.phase = "running" /\ step' = [step EXCEPT !.idx = @ + 1]
      /\ step.cur = NoRequest
      /\ UNCHANGED <<req, running, kv, inflight, worker, faults>>
  BY DEF SkipRunning, InRunningLoop, NothingToSchedule
<1>2. /\ step'.phase = "running" /\ step'.fresh = step.fresh /\ step'.preempted = step.preempted
      /\ step'.num = step.num /\ step'.order = step.order /\ step'.budget = step.budget
      /\ step'.cur = NoRequest /\ step'.idx = step.idx + 1
  BY <1>1 DEF EngineInv, SchedulerInv, StepInv, StepFields
<1>3. StepOK(config, req, step, running) /\ step.idx \in Nat
  BY <1>1 DEF EngineInv, PartsOK, SchedulerInv, StepInv
<1>4. LoopOK(config, req, step', running)
  <2>1. LoopOK(config, req, step, running)
    BY <1>1, <1>3 DEF StepOK
  <2>2. \A j \in 1 .. Len(running) : j >= step'.idx => j >= step.idx
    BY <1>2, <1>3
  <2> QED BY <1>2, <2>1, <2>2 DEF LoopOK
<1>5. StepOK(config, req, step', running)
  BY <1>2, <1>3, <1>4 DEF StepOK
<1>6. \A r \in Request : Fits(config, r, req[r], step'.num[r], kv'.table[r])
  BY <1>1, <1>2 DEF EngineInv, PartsOK
<1>7. /\ step.phase # "update" /\ step'.phase # "update"
      /\ KVInv(kv', Known(config, req), Alphabet(config))
  BY <1>1, <1>2 DEF EngineInv, PartsOK
<1> QED BY <1>1, <1>2, <1>5, <1>6, <1>7, ScheduleParts

\* The request of an iteration is not scheduled yet, and num_new_tokens is
\* what it lacks, within the budget and the model length.
LEMMA WantedSpec ==
    ASSUME EngineInv, InRunningLoop, NEW r, r = CurrentRequest, ~NothingToSchedule(r)
    PROVE  /\ r \in Request /\ req[r].status = "RUNNING" /\ r \notin ToSet(step.order)
           /\ step.num[r] = 0
           /\ Wanted(r) \in Nat \ {0} /\ Wanted(r) <= step.budget
           /\ req[r].computed \in 0 .. MaxModelLen - 1
           /\ req[r].computed + Wanted(r) <= MaxModelLen - 1
           /\ req[r].computed + Wanted(r) <= Length(config, r, req[r]) + req[r].placeholders
           /\ \E i \in 1 .. Len(running) : /\ i <= step.idx /\ running[i] = r
                                           /\ config.policy = "fcfs" => i = step.idx
<1>1. r \in ToSet(running) /\ r \in Request
  BY CurrentRunning DEF EngineInv
<1>2. req[r].status = "RUNNING"
  BY <1>1 DEF EngineInv, SchedulerInv, Placed
<1>3. /\ step.phase = "running" /\ StepOK(config, req, step, running)
      /\ LoopOK(config, req, step, running)
  BY DEF InRunningLoop, EngineInv, PartsOK, StepOK
<1>4. step.idx \in Nat /\ Len(step.order) < step.idx /\ Len(step.order) \in Nat
  BY <1>3 DEF EngineInv, SchedulerInv, StepInv
<1>5. /\ r \notin ToSet(step.order)
      /\ \E i \in 1 .. Len(running) : /\ i <= step.idx /\ running[i] = r
                                      /\ config.policy = "fcfs" => i = step.idx
  <2>1. CASE step.cur # NoRequest
    BY <1>3, <2>1 DEF LoopOK, CurrentRequest
  <2>2. CASE step.cur = NoRequest
    <3>1. r = running[step.idx] /\ step.idx <= Len(running)
      BY <2>2 DEF CurrentRequest, InRunningLoop
    <3>2. Len(running) \in Nat
      BY DEF EngineInv, SchedulerInv, Placed
    <3>3. step.idx \in 1 .. Len(running) /\ step.idx <= step.idx /\ step.idx >= step.idx
      BY <1>4, <3>1, <3>2
    <3> QED BY <1>3, <3>1, <3>3 DEF LoopOK
  <2> QED BY <2>1, <2>2
<1>6. step.num[r] = 0
  BY <1>1, <1>3, <1>5 DEF StepOK
<1>7. ReqOK(config, r, req[r]) /\ Fits(config, r, req[r], 0, kv.table[r])
  BY <1>1, <1>6 DEF EngineInv, PartsOK
<1> DEFINE N == NumTokens(r)
           L == Length(config, r, req[r])
           c == req[r].computed
           p == req[r].placeholders
<1>8. N = L /\ L \in Nat \ {0}
  BY <1>1, <1>2, SentSpec, StatusesDiffer
<1>9. c \in 0 .. MaxModelLen - 1 /\ p \in Int /\ p >= 0
  BY <1>2, <1>7 DEF ReqOK, Live
<1>10. c + 0 <= L + p
  BY <1>2, <1>7 DEF Fits
<1>11. step.budget \in Nat
  BY <1>3, OwnedBounds DEF StepOK
<1>12. MaxModelLen \in Nat
  BY KVCacheAssumption
<1>13. CASE step.cur # NoRequest
  <2>1. r = step.cur /\ Wanted(r) = step.want
    BY <1>13 DEF CurrentRequest, Wanted
  <2> QED BY <1>1, <1>2, <1>3, <1>5, <1>6, <1>9, <1>13, <2>1 DEF LoopOK
<1>14. CASE step.cur = NoRequest
  <2> DEFINE m == N + p - c
             t == Threshold(m)
             w == Wanted(r)
  <2>1. w = MinOf(MinOf(t, step.budget), MaxModelLen - 1 - c) /\ w # 0
    BY <1>14 DEF Wanted, NumNewTokens, NothingToSchedule
  <2> HIDE DEF N, L, c, p
  <2>2. m \in Nat /\ m <= L + p - c
    BY <1>8, <1>9, <1>10
  <2>3. LongPrefillTokenThreshold \in Nat
    BY ConfigSpec DEF EngineInv, SchedulerInv, SchedulerConfig, LongPrefillTokenThreshold
  <2> HIDE DEF m
  <2>4. t \in Nat /\ t <= m
    BY <2>2, <2>3 DEF Threshold
  <2> HIDE DEF t, w
  <2>5. MaxModelLen - 1 - c \in Nat
    BY <1>9, <1>12
  <2> DEFINE k == MaxModelLen - 1 - c
  <2>6. w \in Nat /\ w <= t /\ w <= step.budget /\ w <= k
    <3> HIDE DEF k
    <3>1. k \in Nat
      BY <2>5 DEF k
    <3>2. w = MinOf(MinOf(t, step.budget), k)
      BY <2>1 DEF k
    <3> QED BY <1>11, <2>4, <3>1, <3>2 DEF MinOf
  <2>7. w \in Nat \ {0} /\ w <= step.budget /\ c + w <= MaxModelLen - 1 /\ c + w <= L + p
    BY <1>8, <1>9, <1>11, <1>12, <2>1, <2>2, <2>4, <2>6
  <2> QED BY <1>1, <1>2, <1>5, <1>6, <1>9, <2>7 DEF c, p, L, w
<1> QED BY <1>13, <1>14

\* A running request is scheduled: it gets slots for the tokens it wants.
LEMMA ScheduleRunningParts ==
    ASSUME EngineInv, ScheduleRunning
    PROVE  PartsOK(config, req', running', kv', step', inflight', worker', faults')
<1> DEFINE r == CurrentRequest
           n == Wanted(r)
           a == RunningAlloc(r)
           c == req[r].computed
           V == Alphabet(config)
<1>1. /\ UNCHANGED <<req, running, inflight, worker, faults>> /\ InRunningLoop
      /\ ~NothingToSchedule(r) /\ a.ok /\ kv' = a.kv
      /\ step' = [step EXCEPT !.num[r] = n, !.order = Append(@, r), !.budget = @ - n,
                              !.idx = @ + 1, !.cur = NoRequest, !.want = 0]
  BY DEF ScheduleRunning
<1>2. /\ r \in Request /\ req[r].status = "RUNNING" /\ r \notin ToSet(step.order)
      /\ step.num[r] = 0 /\ n \in Nat \ {0} /\ n <= step.budget
      /\ c \in 0 .. MaxModelLen - 1 /\ c + n <= MaxModelLen - 1
      /\ c + n <= Length(config, r, req[r]) + req[r].placeholders
      /\ \E i \in 1 .. Len(running) : i <= step.idx /\ running[i] = r
  BY <1>1, WantedSpec
<1>3. a = AllocateSlots(kv, r, Known(config, req)[r], c, <<>>, n)
      /\ Known(config, req)[r] \in Seq(V)
  BY <1>2, SentSpec, StatusesDiffer DEF RunningAlloc
<1> HIDE DEF r, n, a, c
<1>4. /\ KVInv(kv', Known(config, req), V)
      /\ c + n <= Len(kv'.table[r]) * BlockSize
      /\ \A q \in Request \ {r} : kv'.table[q] = kv.table[q]
  <2>1. c \in Nat /\ n \in Nat /\ c + n <= MaxModelLen
    BY <1>2, KVCacheAssumption
  <2>2. KVInv(kv, Known(config, req), V)
    BY DEF EngineInv, PartsOK
  <2> HIDE DEF V
  <2> QED BY <1>1, <1>2, <1>3, <2>1, <2>2, RunningSlots
<1>5. /\ step'.phase = step.phase /\ step'.idx = step.idx + 1 /\ step'.fresh = step.fresh
      /\ step'.preempted = step.preempted /\ step'.budget = step.budget - n
      /\ step'.num = [step.num EXCEPT ![r] = n] /\ DOMAIN step.num = Request
      /\ step'.order = Append(step.order, r) /\ step'.cur = NoRequest
  BY <1>1 DEF EngineInv, SchedulerInv, StepInv, StepFields
<1>6. /\ step'.num[r] = n /\ \A q \in Request \ {r} : step'.num[q] = step.num[q]
  BY <1>2, <1>5
<1>7. /\ step.phase = "running" /\ StepOK(config, req, step, running)
      /\ LoopOK(config, req, step, running) /\ step.idx \in Nat
  BY <1>1 DEF InRunningLoop, EngineInv, PartsOK, StepOK, SchedulerInv, StepInv
<1>8. /\ running \in Seq(Request) /\ IsInjective(running) /\ step.order \in Seq(Request)
  BY DEF EngineInv, SchedulerInv, Placed, StepInv
<1>9. /\ IsInjective(step'.order) /\ ToSet(step'.order) = ToSet(step.order) \cup {r}
  BY <1>2, <1>5, <1>7, <1>8, AppendSpec DEF StepOK
<1>10. r \in ToSet(running)
  BY <1>2, <1>8, ToSetSpec
<1>11. Owned(step'.num, step'.budget)
  BY <1>2, <1>5, <1>7, OwnedTake DEF StepOK
<1>12. \A q \in Request : step'.num[q] \in Nat /\ (step'.num[q] > 0 <=> q \in ToSet(step'.order))
  <2>1. n > 0 /\ n \in Nat
    BY <1>2
  <2>2. \A q \in Request : step.num[q] \in Nat /\ (step.num[q] > 0 <=> q \in ToSet(step.order))
    BY <1>7 DEF StepOK
  <2> QED BY <1>6, <1>9, <2>1, <2>2
<1>13. LoopOK(config, req, step', running)
  <2>1. PICK i \in 1 .. Len(running) : i <= step.idx /\ running[i] = r
    BY <1>2
  <2>2. Len(running) \in Nat
    BY <1>8
  <2>3. ASSUME NEW j \in 1 .. Len(running), j >= step'.idx
        PROVE  running[j] \notin ToSet(step'.order)
    <3>1. j >= step.idx /\ i # j
      BY <1>5, <1>7, <2>1, <2>2, <2>3
    <3>2. running[j] # running[i]
      BY <1>8, <3>1, ToSetSpec
    <3>3. running[j] \notin ToSet(step.order)
      BY <1>7, <3>1 DEF LoopOK
    <3> QED BY <1>9, <2>1, <3>2, <3>3
  <2> QED BY <1>5, <1>7, <2>3 DEF LoopOK
<1>14. StepOK(config, req, step', running)
  <2>1. ToSet(step'.order) \subseteq ToSet(running)
    BY <1>7, <1>9, <1>10 DEF StepOK
  <2>2. step.fresh = {}
    BY <1>7 DEF LoopOK
  <2> QED BY <1>5, <1>7, <1>9, <1>11, <1>12, <1>13, <2>1, <2>2 DEF StepOK
<1>15. ASSUME NEW q \in Request PROVE Fits(config, q, req[q], step'.num[q], kv'.table[q])
  <2>1. CASE q = r
    <3>1. req[r].computed + n <= Len(kv'.table[r]) * BlockSize
      BY <1>4 DEF c
    <3>2. /\ req[r].computed + n <= Length(config, r, req[r]) + req[r].placeholders
          /\ req[r].computed + n <= MaxModelLen - 1
      BY <1>2 DEF c
    <3> QED BY <1>6, <2>1, <3>1, <3>2 DEF Fits
  <2>2. CASE q # r
    BY <1>4, <1>6, <2>2 DEF EngineInv, PartsOK
  <2> QED BY <2>1, <2>2
<1>16. step.phase # "update" /\ step'.phase # "update"
  BY <1>5, <1>7
<1> QED BY <1>1, <1>4, <1>5, <1>14, <1>15, <1>16, ScheduleParts

\* Where a victim leaves the running queue: it is one the loop has not
\* scheduled, or the loop steps back over it.
LEMMA VictimPosition ==
    ASSUME EngineInv, InRunningLoop, ~NothingToSchedule(CurrentRequest),
           NEW v, v = PreemptionVictim
    PROVE  /\ v \in Request /\ req[v].status = "RUNNING"
           /\ \E p \in 1 .. Len(running) :
                 /\ running[p] = v
                 /\ v \in ToSet(step.order) => p < step.idx
                 /\ config.policy = "fcfs" => p = Len(running)
           /\ config.policy = "fcfs" => v \notin ToSet(step.order)
<1> DEFINE r == CurrentRequest
<1>1. PICK i \in 1 .. Len(running) : /\ i <= step.idx /\ running[i] = r
                                     /\ config.policy = "fcfs" => i = step.idx
  BY WantedSpec
<1>2. running \in Seq(Request) /\ Len(running) \in Nat /\ running # <<>>
  BY <1>1 DEF EngineInv, SchedulerInv, Placed
<1>3. v \in ToSet(running)
  <2>1. ToSet(running) \subseteq DOMAIN Prompt
    BY StatusesDiffer DEF EngineInv, SchedulerInv, ReqInv, Placed, Sent, Prompt
  <2> QED BY <1>2, <2>1, VictimSpec DEF EngineInv, SchedulerInv, ReqInv
<1>4. v \in Request /\ req[v].status = "RUNNING"
  BY <1>3 DEF EngineInv, SchedulerInv, Placed
<1>5. PICK p \in 1 .. Len(running) : /\ running[p] = v
                                     /\ config.policy = "fcfs" => p = Len(running)
  <2>1. CASE config.policy = "fcfs"
    <3>1. v = running[Len(running)] /\ Len(running) \in 1 .. Len(running)
      BY <1>2, <2>1 DEF PreemptionVictim, Policy, Last
    <3> QED BY <3>1
  <2>2. CASE config.policy # "fcfs"
    BY <1>2, <1>3, <2>2, ToSetSpec
  <2> QED BY <2>1, <2>2
<1>6. LoopOK(config, req, step, running) /\ step.idx \in Nat
  BY DEF InRunningLoop, EngineInv, PartsOK, StepOK, SchedulerInv, StepInv
<1>7. v \in ToSet(step.order) => p < step.idx
  <2>1. p >= step.idx => v \notin ToSet(step.order)
    BY <1>5, <1>6 DEF LoopOK
  <2> QED BY <1>2, <1>6, <2>1
<1>8. config.policy = "fcfs" => v \notin ToSet(step.order)
  <2>1. config.policy = "fcfs" => p >= step.idx
    BY <1>1, <1>2, <1>5, <1>6
  <2> QED BY <1>5, <1>6, <2>1 DEF LoopOK
<1> QED BY <1>4, <1>5, <1>7, <1>8

\* The step after a preemption: the victim is scheduled for nothing, its
\* budget is given back, and the loop goes on with the request it was for.
Preempts(v, r, n, idx2) ==
    /\ step'.phase = "running" /\ step'.fresh = step.fresh
    /\ step'.preempted = step.preempted \cup {v}
    /\ step'.num = [step.num EXCEPT ![v] = 0]
    /\ step'.budget = step.budget + step.num[v]
    /\ IsInjective(step'.order) /\ ToSet(step'.order) = ToSet(step.order) \ {v}
    /\ step'.idx = idx2
    /\ step'.cur = IF v = r THEN NoRequest ELSE r
    /\ step'.want = IF v = r THEN 0 ELSE n

\* What _preempt_request changes.
LEMMA PreemptsSpec ==
    ASSUME EngineInv, PreemptRunning, NEW v, v = PreemptionVictim
    PROVE  LET r == CurrentRequest
           IN  Preempts(v, r, Wanted(r), IF v \in ToSet(step.order) THEN step.idx - 1 ELSE step.idx)
<1> DEFINE r == CurrentRequest
           n == Wanted(r)
           back == Policy = "priority" /\ step.num[v] > 0
           budget2 == IF back THEN step.budget + step.num[v] ELSE step.budget
           num2   == IF back THEN 0 ELSE step.num[v]
           order2 == IF back THEN RemoveRequests(step.order, {v}) ELSE step.order
           idx2   == IF back THEN step.idx - 1 ELSE step.idx
           cur2   == IF v = r THEN NoRequest ELSE r
           want2  == IF v = r THEN 0 ELSE n
<1>1. /\ InRunningLoop /\ ~NothingToSchedule(r)
      /\ step' = [step EXCEPT !.preempted = @ \cup {v}, !.budget = budget2, !.num[v] = num2,
                              !.order = order2, !.idx = idx2, !.cur = cur2,
                              !.want = want2, !.stop = (v = r)]
  BY DEF PreemptRunning
<1>2. /\ v \in Request
      /\ config.policy = "fcfs" => v \notin ToSet(step.order)
  BY <1>1, VictimPosition
<1>3. /\ step.phase = "running" /\ StepOK(config, req, step, running)
      /\ step.order \in Seq(Request)
  BY <1>1 DEF InRunningLoop, EngineInv, PartsOK, SchedulerInv, StepInv
<1>4. config.policy \in {"fcfs", "priority"}
  BY ConfigSpec DEF EngineInv, SchedulerInv, SchedulerConfig
<1>5. step.num[v] \in Nat /\ (step.num[v] > 0 <=> v \in ToSet(step.order))
  BY <1>2, <1>3 DEF StepOK
<1>6. back <=> v \in ToSet(step.order)
  BY <1>2, <1>4, <1>5 DEF Policy
<1>7. step.budget \in Nat
  <2>1. Owned(step.num, step.budget)
    BY <1>3 DEF StepOK
  <2>2. step.budget \in 0 .. MaxNumScheduledTokens
    BY <2>1, OwnedBounds
  <2> QED BY <2>2
<1>8. num2 = 0 /\ budget2 = step.budget + step.num[v]
  <2>1. CASE back
    BY <2>1
  <2>2. CASE ~back
    <3>1. num2 = step.num[v] /\ budget2 = step.budget
      BY <2>2
    <3>2. ~ (step.num[v] > 0)
      BY <1>5, <1>6, <2>2
    <3>3. step.num[v] = 0
      BY <1>5, <3>2
    <3> HIDE DEF num2, budget2
    <3> QED BY <1>7, <3>1, <3>3
  <2> QED BY <2>1, <2>2
<1>9. IsInjective(order2) /\ ToSet(order2) = ToSet(step.order) \ {v}
  <2>1. CASE back
    <3>1. IsInjective(step.order)
      BY <1>3 DEF StepOK
    <3> QED BY <1>3, <2>1, <3>1, RemoveRequestsSpec
  <2>2. CASE ~back
    BY <1>3, <1>6, <2>2 DEF StepOK
  <2> QED BY <2>1, <2>2
<1>10. idx2 = IF v \in ToSet(step.order) THEN step.idx - 1 ELSE step.idx
  BY <1>6
<1> HIDE DEF back, budget2, num2, order2, idx2
<1>11. /\ step'.phase = step.phase /\ step'.fresh = step.fresh
       /\ step'.preempted = step.preempted \cup {v}
       /\ step'.num = [step.num EXCEPT ![v] = num2]
       /\ step'.budget = budget2 /\ step'.order = order2 /\ step'.idx = idx2
       /\ step'.cur = cur2 /\ step'.want = want2
  <2> HIDE DEF cur2, want2, r
  <2> QED BY <1>1 DEF EngineInv, SchedulerInv, StepInv, StepFields
<1> HIDE DEF r, n
<1>12. Preempts(v, r, n, idx2)
  BY <1>3, <1>8, <1>9, <1>11 DEF Preempts
<1> QED BY <1>10, <1>12 DEF r, n

\* The loop goes on as before, without the victim.
LEMMA PreemptLoop ==
    ASSUME EngineInv, PreemptRunning
    PROVE  StepOK(config, req', step', running')
<1> DEFINE r == CurrentRequest
           v == PreemptionVictim
           n == Wanted(r)
           i2 == IF v \in ToSet(step.order) THEN step.idx - 1 ELSE step.idx
           c == req[r].computed
<1>1. /\ InRunningLoop /\ ~NothingToSchedule(r)
      /\ running' = RemoveRequests(running, {v})
      /\ req' = [req EXCEPT ![v] = Preempted(@)]
  BY DEF PreemptRunning
<1>2. Preempts(v, r, n, i2)
  BY PreemptsSpec
<1>3. /\ v \in Request
      /\ \E p \in 1 .. Len(running) :
            /\ running[p] = v
            /\ v \in ToSet(step.order) => p < step.idx
            /\ config.policy = "fcfs" => p = Len(running)
      /\ config.policy = "fcfs" => v \notin ToSet(step.order)
  BY <1>1, VictimPosition
<1>4. /\ r \in Request /\ r \notin ToSet(step.order)
      /\ n \in Nat \ {0} /\ n <= step.budget
      /\ c + n <= MaxModelLen - 1
      /\ c + n <= Length(config, r, req[r]) + req[r].placeholders
      /\ \E i \in 1 .. Len(running) : /\ i <= step.idx /\ running[i] = r
                                      /\ config.policy = "fcfs" => i = step.idx
  BY <1>1, WantedSpec
<1>5. /\ step.phase = "running" /\ StepOK(config, req, step, running)
      /\ LoopOK(config, req, step, running) /\ step.idx \in Nat /\ DOMAIN step.num = Request
  BY <1>1 DEF InRunningLoop, EngineInv, PartsOK, StepOK, SchedulerInv, StepInv
<1>6. running \in Seq(Request) /\ IsInjective(running) /\ Len(running) \in Nat
  BY DEF EngineInv, SchedulerInv, Placed
<1>7. /\ r # v => req'[r] = req[r]
      /\ DOMAIN req = Request
  BY <1>1, <1>4 DEF EngineInv, SchedulerInv, ReqInv, ReqShape
<1> HIDE DEF r, v, n, i2
<1>8. PICK p \in 1 .. Len(running) : /\ running[p] = v
                                     /\ v \in ToSet(step.order) => p < step.idx
                                     /\ config.policy = "fcfs" => p = Len(running)
  BY <1>3
<1>9. PICK i \in 1 .. Len(running) : /\ i <= step.idx /\ running[i] = r
                                     /\ config.policy = "fcfs" => i = step.idx
  BY <1>4
<1>10. /\ Len(running') = Len(running) - 1
       /\ \A j \in 1 .. Len(running') :
             running'[j] = IF j < p THEN running[j] ELSE running[j + 1]
  BY <1>1, <1>6, <1>8, RemoveOne
<1>11. ToSet(running') = ToSet(running) \ {v}
  BY <1>1, <1>6, RemoveRequestsSpec
<1>12. i2 \in Int /\ (v \in ToSet(step.order) => i2 = step.idx - 1)
       /\ (v \notin ToSet(step.order) => i2 = step.idx)
  BY <1>5 DEF i2
<1>13. ASSUME NEW j \in 1 .. Len(running'), j >= i2
       PROVE  running'[j] \notin ToSet(step.order)
  <2>1. CASE j < p
    <3>1. v \notin ToSet(step.order)
      <4>1. v \in ToSet(step.order) => FALSE
        BY <1>5, <1>6, <1>8, <1>10, <1>12, <1>13, <2>1
      <4> QED BY <4>1
    <3>2. j \in 1 .. Len(running) /\ j >= step.idx
      BY <1>6, <1>10, <1>12, <1>13, <3>1
    <3>3. running[j] \notin ToSet(step.order)
      BY <1>5, <3>2 DEF LoopOK
    <3> QED BY <1>10, <2>1, <3>3
  <2>2. CASE ~ (j < p)
    <3>1. j + 1 \in 1 .. Len(running) /\ j + 1 >= step.idx
      BY <1>5, <1>6, <1>10, <1>12, <1>13
    <3>2. running[j + 1] \notin ToSet(step.order)
      BY <1>5, <3>1 DEF LoopOK
    <3> QED BY <1>10, <2>2, <3>2
  <2> QED BY <2>1, <2>2
<1>14. ASSUME r # v
       PROVE  \E k \in 1 .. Len(running') : /\ k <= i2 /\ running'[k] = r
                                            /\ config.policy = "fcfs" => k = i2
  <2>1. i # p
    BY <1>8, <1>9, <1>14
  <2>2. CASE i < p
    <3>1. i \in 1 .. Len(running') /\ running'[i] = r
      BY <1>6, <1>9, <1>10, <2>2
    <3>2. i <= i2
      BY <1>5, <1>6, <1>8, <1>9, <1>12, <2>2
    <3>3. config.policy = "fcfs" => i = i2
      BY <1>3, <1>9, <1>12
    <3> QED BY <3>1, <3>2, <3>3
  <2>3. CASE p < i
    <3>0. i - 1 \in 1 .. Len(running') /\ i - 1 + 1 = i /\ ~ (i - 1 < p)
      BY <1>6, <1>9, <1>10, <2>3
    <3>1. running'[i - 1] = r
      BY <1>9, <1>10, <3>0
    <3>2. i - 1 <= i2
      BY <1>5, <1>6, <1>9, <1>12
    <3>3. config.policy # "fcfs"
      BY <1>6, <1>8, <2>3
    <3> QED BY <3>0, <3>1, <3>2, <3>3
  <2>4. i < p \/ p < i
    BY <1>6, <2>1
  <2> QED BY <2>2, <2>3, <2>4
<1>15. step.num[v] \in Nat /\ step.budget \in Nat
  BY <1>3, <1>5, OwnedBounds DEF StepOK
<1>16. LoopOK(config, req', step', running')
  <2>1. step'.fresh = {}
    BY <1>2, <1>5 DEF LoopOK, Preempts
  <2>2. \A j \in 1 .. Len(running') : j >= step'.idx => running'[j] \notin ToSet(step'.order)
    BY <1>2, <1>13 DEF Preempts
  <2>3. ASSUME step'.cur # NoRequest
        PROVE  /\ step'.cur = r /\ r # v /\ step'.want = n
    BY <1>2, <2>3 DEF Preempts
  <2>4. r \notin ToSet(step'.order)
    BY <1>2, <1>4 DEF Preempts
  <2>5. n <= step'.budget
    <3>1. step'.budget = step.budget + step.num[v]
      BY <1>2 DEF Preempts
    <3> QED BY <1>4, <1>15, <3>1
  <2>6. ASSUME r # v
        PROVE  /\ req'[r].computed + n <= MaxModelLen - 1
               /\ req'[r].computed + n <= Length(config, r, req'[r]) + req'[r].placeholders
    BY <1>4, <1>7, <2>6 DEF c
  <2>7. step'.idx = i2
    BY <1>2 DEF Preempts
  <2> QED BY <1>4, <1>14, <2>1, <2>2, <2>3, <2>4, <2>5, <2>6, <2>7 DEF LoopOK
<1>17. StepOK(config, req', step', running')
  <2>1. /\ IsInjective(step'.order) /\ ToSet(step'.order) \subseteq ToSet(running')
        /\ step'.fresh \subseteq ToSet(step'.order)
    BY <1>2, <1>5, <1>11 DEF StepOK, LoopOK, Preempts
  <2>2. \A q \in Request : step'.num[q] \in Nat /\ (step'.num[q] > 0 <=> q \in ToSet(step'.order))
    <3>1. step'.num = [step.num EXCEPT ![v] = 0] /\ ToSet(step'.order) = ToSet(step.order) \ {v}
      BY <1>2 DEF Preempts
    <3>2. \A q \in Request : step.num[q] \in Nat /\ (step.num[q] > 0 <=> q \in ToSet(step.order))
      BY <1>5 DEF StepOK
    <3>3. step'.num[v] = 0 /\ \A q \in Request \ {v} : step'.num[q] = step.num[q]
      BY <1>3, <1>5, <3>1
    <3> QED BY <3>1, <3>2, <3>3
  <2>3. Owned(step'.num, step'.budget)
    BY <1>2, <1>3, <1>5, OwnedGive DEF StepOK, Preempts
  <2>4. Len(running') <= config.maxNumRunningReqs
    BY <1>1, LenRemoved
  <2>5. step'.phase = "running"
    BY <1>2 DEF Preempts
  <2> QED BY <1>16, <2>1, <2>2, <2>3, <2>4, <2>5 DEF StepOK
<1> QED BY <1>17

\* allocate_slots returned None, and the victim is preempted.
LEMMA PreemptRunningParts ==
    ASSUME EngineInv, PreemptRunning
    PROVE  PartsOK(config, req', running', kv', step', inflight', worker', faults')
<1> DEFINE v == PreemptionVictim
<1>1. /\ UNCHANGED <<inflight, worker, faults>> /\ InRunningLoop
      /\ ~NothingToSchedule(CurrentRequest)
      /\ req' = [req EXCEPT ![v] = Preempted(@)]
      /\ kv' = FreeRequest(kv, v)
  BY DEF PreemptRunning
<1>2. v \in Request /\ req[v].status = "RUNNING"
  BY <1>1, VictimPosition
<1>3. /\ step'.phase = "running" /\ step'.fresh = step.fresh
      /\ step'.preempted = step.preempted \cup {v}
      /\ step'.num = [step.num EXCEPT ![v] = 0] /\ DOMAIN step.num = Request
      /\ step.phase = "running"
  BY <1>1, PreemptsSpec DEF Preempts, EngineInv, SchedulerInv, StepInv, InRunningLoop
<1> HIDE DEF v
<1>4. /\ req'[v].status = "PREEMPTED" /\ req'[v].output = req[v].output
      /\ req'[v].computed = 0 /\ req'[v].placeholders = req[v].placeholders
      /\ req'[v].discard = req[v].discard
      /\ \A r \in Request \ {v} : req'[r] = req[r]
  BY <1>1, <1>2 DEF EngineInv, SchedulerInv, ReqInv, ReqShape, ReqFields, Preempted
<1>5. "PREEMPTED" \in Live /\ "PREEMPTED" \in Queued /\ "PREEMPTED" # "NEW"
      /\ "PREEMPTED" # "RUNNING" /\ "RUNNING" \in Live
  BY StatusesDiffer DEF Live
<1>6. ASSUME NEW r \in Request PROVE ReqOK(config, r, req'[r])
  <2>1. ReqOK(config, r, req[r])
    BY DEF EngineInv, PartsOK
  <2>2. CASE r = v
    <3> DEFINE q == req[r]
               p == req'[r]
    <3>1. /\ q.status = "RUNNING" /\ p.status = "PREEMPTED" /\ p.output = q.output
          /\ p.computed = 0 /\ p.placeholders = q.placeholders /\ p.discard = q.discard
      BY <1>2, <1>4, <2>2
    <3>2. 0 \in 0 .. MaxModelLen - 1
      BY KVCacheAssumption
    <3>3. ReqOK(config, r, q)
      BY <2>1
    <3> HIDE DEF p, q
    <3>4. Length(config, r, p) = Length(config, r, q)
      BY <3>1 DEF Length
    <3>5. ReqOK(config, r, p)
      BY <1>5, <3>1, <3>2, <3>3, <3>4 DEF ReqOK
    <3> QED BY <3>5 DEF p
  <2>3. CASE r # v
    BY <1>4, <2>1, <2>3
  <2> QED BY <2>2, <2>3
<1>7. Known(config, req') = Known(config, req)
  <2>1. \A r \in DOMAIN config.prompt : req'[r].output = req[r].output
    <3>1. DOMAIN config.prompt \subseteq Request
      BY ConfigSpec DEF EngineInv, SchedulerInv, Prompt
    <3> QED BY <1>4, <3>1
  <2> QED BY <2>1, KnownKept
<1>8. /\ KVInv(kv', Known(config, req'), Alphabet(config))
      /\ \A r \in Request \ {v} : kv'.table[r] = kv.table[r]
  <2>1. KVInv(kv, Known(config, req), Alphabet(config))
    BY DEF EngineInv, PartsOK
  <2> QED BY <1>1, <1>2, <1>7, <2>1, FreeRequestInv
<1>9. ASSUME NEW r \in Request PROVE Fits(config, r, req'[r], step'.num[r], kv'.table[r])
  <2>1. CASE r = v
    BY <1>4, <1>5, <2>1 DEF Fits
  <2>2. CASE r # v
    <3>1. step'.num[r] = step.num[r] /\ req'[r] = req[r] /\ kv'.table[r] = kv.table[r]
      BY <1>3, <1>4, <1>8, <2>2
    <3> QED BY <3>1 DEF EngineInv, PartsOK
  <2> QED BY <2>1, <2>2
<1>10. InflightOK(config, req', step', inflight)
  <2>1. InflightOK(config, req, step, inflight)
    BY DEF EngineInv, PartsOK
  <2>2. ASSUME NEW i \in 1 .. Len(inflight) PROVE BatchOK(inflight[i], req')
    <3>1. BatchOK(inflight[i], req)
      BY <2>1 DEF InflightOK
    <3>2. \A r \in ToSet(inflight[i].order) : req'[r].status # "NEW"
      <4>1. ToSet(inflight[i].order) \subseteq Request
        <5>1. inflight[i] \in ToSet(inflight)
          BY ToSetSpec DEF EngineInv, SchedulerInv, BatchInv
        <5>2. inflight[i].order \in Seq(Request)
          BY <5>1 DEF EngineInv, SchedulerInv, BatchInv
        <5> QED BY <5>2, ToSetSpec
      <4> QED BY <1>4, <1>5, <3>1, <4>1 DEF BatchOK
    <3> QED BY <3>1, <3>2 DEF BatchOK
  <2> QED BY <1>3, <2>1, <2>2 DEF InflightOK
<1>11. ASSUME config.async, NEW r \in Request
       PROVE  AsyncOK(config, r, req'[r], step', inflight, worker)
  <2>1. AsyncOK(config, r, req[r], step, inflight, worker)
    BY <1>11 DEF EngineInv, PartsOK
  <2>2. CASE r = v
    <3>1. Due(inflight, r, req'[r]) = Due(inflight, r, req[r])
      BY <1>4, <2>2 DEF Due
    <3>2. Due(inflight, r, req[r]) <= req[r].placeholders
      BY <1>2, <1>5, <2>1, <2>2 DEF AsyncOK
    <3> QED BY <1>3, <1>4, <1>5, <2>2, <3>1, <3>2 DEF AsyncOK
  <2>3. CASE r # v
    <3>1. req'[r] = req[r]
      BY <1>4, <2>3
    <3>2. r \in step.preempted => r \in step'.preempted
      BY <1>3
    <3>3. step'.phase # "update" /\ step.phase # "update" /\ step'.fresh = step.fresh
      BY <1>3
    <3> HIDE DEF v
    <3> QED BY <2>1, <3>1, <3>2, <3>3 DEF AsyncOK
  <2> QED BY <2>2, <2>3
<1>12. StepOK(config, req', step', running')
  BY PreemptLoop
<1> QED BY <1>1, <1>6, <1>8, <1>9, <1>10, <1>11, <1>12 DEF EngineInv, PartsOK

-----------------------------------------------------------------------------
(* The cache: schedule(), the waiting requests                              *)

\* What a request that is admitted starts with: its hits are a prefix of its
\* tokens, at least one is left to schedule, and all of them fit the model.
LEMMA AdmittedSpec ==
    ASSUME EngineInv, InWaitingLoop, NEW r, r = Head(waiting), NEW hits, hits = Hits(r)
    PROVE  /\ r \in Request /\ req[r].status \in Queued
           /\ r \notin ToSet(running) /\ r \notin ToSet(step.order) /\ step.num[r] = 0
           /\ kv.table[r] = <<>> /\ kv.cached[r] = NotCached
           /\ Known(config, req)[r] = Tokens(r)
           /\ Known(config, req)[r] \in Seq(Alphabet(config))
           /\ hits = <<>> \/ AreHits(kv, Known(config, req), Alphabet(config), r, hits)
           /\ Len(hits) * BlockSize \in 0 .. MaxModelLen - 1
           /\ NumAdmitted(r, hits) \in Nat \ {0} /\ NumAdmitted(r, hits) <= step.budget
           /\ Len(hits) * BlockSize + NumAdmitted(r, hits) <= Length(config, r, req[r])
           /\ Length(config, r, req[r]) <= MaxModelLen - 1
           /\ Length(config, r, req[r]) \in Nat
<1> DEFINE V == Alphabet(config)
           L == Length(config, r, req[r])
           h == Len(hits) * BlockSize
           n == NumAdmitted(r, hits)
<1>1. r \in Request /\ r \in ToSet(waiting)
  BY TailSpec DEF InWaitingLoop, EngineInv, SchedulerInv, Placed
<1>2. req[r].status \in Queued /\ r \notin ToSet(running)
  BY <1>1, PlacedApart DEF EngineInv, SchedulerInv, Placed
<1>3. kv.table[r] = <<>>
  BY <1>1, <1>2, StatusesDiffer DEF EngineInv, SchedulerInv, Placed
<1>4. KVInv(kv, Known(config, req), V)
  BY DEF EngineInv, PartsOK
<1>5. kv.cached[r] = NotCached
  <2>1. PublishedOf(kv, Known(config, req), V, r) /\ kv.cached[r] \in Nat \cup {NotCached}
    BY <1>1, <1>4 DEF KVInv, KVTypes, Published
  <2>2. Done(kv, r) <= 0 /\ (kv.cached[r] # NotCached => kv.cached[r] # 0)
    BY <1>3, <2>1 DEF PublishedOf
  <2> QED BY <2>1, <2>2 DEF Done, NotCached
<1>6. StepOK(config, req, step, running) /\ step.budget > 0
  BY DEF EngineInv, PartsOK, InWaitingLoop
<1>7. r \notin ToSet(step.order) /\ step.num[r] = 0
  BY <1>1, <1>2, <1>6 DEF StepOK
<1>8. /\ Tokens(r) = Known(config, req)[r] /\ Tokens(r) \in Seq(V) /\ Tokens(r) # <<>>
      /\ NumTokens(r) = L /\ L \in Nat \ {0}
  BY <1>1, <1>2, SentSpec, StatusesDiffer
<1>9. L <= MaxModelLen - 1
  <2>1. ReqOK(config, r, req[r]) /\ req[r].status \in Live
    BY <1>1, <1>2 DEF EngineInv, PartsOK, Live
  <2> QED BY <2>1 DEF ReqOK
<1>10. /\ hits = <<>> \/ AreHits(kv, Known(config, req), V, r, hits)
       /\ Len(hits) \in Nat /\ h < L
  <2>1. hits = GetComputedBlocks(kv, Known(config, req)[r])
    BY <1>8 DEF Hits
  <2>2. Len(Known(config, req)[r]) = L
    BY <1>8 DEF NumTokens
  <2> HIDE DEF V
  <2> QED BY <1>1, <1>4, <1>8, <2>1, <2>2, HitsSpec
<1>11. h \in Nat
  BY <1>10, BlockTimes
<1>12. step.budget \in Nat \ {0}
  <2>1. Owned(step.num, step.budget)
    BY <1>6 DEF StepOK
  <2>2. step.budget \in 0 .. MaxNumScheduledTokens
    BY <2>1, OwnedBounds
  <2> QED BY <1>6, <2>2
<1>13. MaxModelLen \in Nat
  BY KVCacheAssumption
<1>14. n \in Nat \ {0} /\ n <= step.budget /\ n <= L - h
  <2> DEFINE m == NumTokens(r) - h
             t == Threshold(m)
  <2>1. n = MinOf(t, step.budget)
    BY DEF NumAdmitted, NumPrefillTokens
  <2>2. LongPrefillTokenThreshold \in Nat
    BY ConfigSpec DEF EngineInv, SchedulerInv, SchedulerConfig, LongPrefillTokenThreshold
  <2> HIDE DEF L, h, n
  <2>3. m \in Nat \ {0} /\ m = L - h
    BY <1>8, <1>10, <1>11
  <2> HIDE DEF m
  <2>4. t \in Nat \ {0} /\ t <= m
    BY <2>2, <2>3 DEF Threshold
  <2> HIDE DEF t
  <2> QED BY <1>12, <2>1, <2>3, <2>4 DEF MinOf
<1> HIDE DEF L, h, n, V
<1>15. h \in 0 .. MaxModelLen - 1 /\ h + n <= L
  BY <1>8, <1>9, <1>10, <1>11, <1>13, <1>14
<1> QED BY <1>1, <1>2, <1>3, <1>5, <1>7, <1>8, <1>9, <1>10, <1>14, <1>15 DEF L, h, n, V

\* A waiting request is admitted, or the loop stops.
LEMMA ScheduleWaitingParts ==
    ASSUME EngineInv, ScheduleWaiting
    PROVE  PartsOK(config, req', running', kv', step', inflight', worker', faults')
<1> DEFINE r == Head(waiting)
<1>1. /\ InWaitingLoop /\ UNCHANGED <<inflight, worker, faults>>
      /\ AdmitWaiting(r, Hits(r))
  BY DEF ScheduleWaiting
<1> DEFINE hits == Hits(r)
           n == NumAdmitted(r, hits)
           h == Len(hits) * BlockSize
           a == WaitingAlloc(r, hits)
           V == Alphabet(config)
           L == Length(config, r, req[r])
<1>2. /\ a.ok /\ kv' = a.kv /\ running' = Append(running, r)
      /\ req' = [req EXCEPT ![r].status = "RUNNING", ![r].computed = h]
      /\ step' = [step EXCEPT !.num[r] = n, !.order = Append(@, r), !.budget = @ - n,
                              !.fresh = @ \cup {r}]
  BY <1>1 DEF AdmitWaiting, Admissible
<1>3. /\ r \in Request /\ req[r].status \in Queued
      /\ r \notin ToSet(running) /\ r \notin ToSet(step.order) /\ step.num[r] = 0
      /\ kv.table[r] = <<>> /\ kv.cached[r] = NotCached
      /\ Known(config, req)[r] = Tokens(r)
      /\ Known(config, req)[r] \in Seq(V)
      /\ hits = <<>> \/ AreHits(kv, Known(config, req), V, r, hits)
      /\ h \in 0 .. MaxModelLen - 1
      /\ n \in Nat \ {0} /\ n <= step.budget
      /\ h + n <= L /\ L <= MaxModelLen - 1 /\ L \in Nat
  BY <1>1, AdmittedSpec
<1>4. a = AllocateSlots(kv, r, Known(config, req)[r], 0, hits, n)
  BY <1>3 DEF WaitingAlloc
<1> HIDE DEF r, hits, n, h, a, V, L
<1>5. MaxModelLen \in Nat
  BY KVCacheAssumption
<1>6. /\ KVInv(kv', Known(config, req), V)
      /\ h + n <= Len(kv'.table[r]) * BlockSize
      /\ \A q \in Request \ {r} : kv'.table[q] = kv.table[q]
  <2>1. KVInv(kv, Known(config, req), V)
    BY DEF EngineInv, PartsOK, V
  <2>2. h + n <= MaxModelLen
    BY <1>3, <1>5
  <2>3. Len(hits) * BlockSize + n <= MaxModelLen
    BY <2>2 DEF h
  <2>4. /\ KVInv(a.kv, Known(config, req), V)
        /\ Len(hits) * BlockSize + n <= Len(a.kv.table[r]) * BlockSize
        /\ \A q \in Request \ {r} : a.kv.table[q] = kv.table[q]
    <3>1. n \in Nat
      BY <1>3
    <3> QED BY <1>2, <1>3, <1>4, <2>1, <2>3, <3>1, WaitingSlots
  <2> QED BY <1>2, <2>4 DEF h
<1>7. /\ req'[r].status = "RUNNING" /\ req'[r].computed = h
      /\ req'[r].output = req[r].output /\ req'[r].placeholders = req[r].placeholders
      /\ req'[r].discard = req[r].discard
      /\ \A q \in Request \ {r} : req'[q] = req[q]
  BY <1>2, <1>3 DEF EngineInv, SchedulerInv, ReqInv, ReqShape, ReqFields
<1>8. /\ step'.phase = "waiting" /\ step.phase = "waiting"
      /\ step'.preempted = step.preempted /\ step.preempted = {}
      /\ step'.num = [step.num EXCEPT ![r] = n] /\ DOMAIN step.num = Request
      /\ step'.order = Append(step.order, r) /\ step'.budget = step.budget - n
      /\ step'.fresh = step.fresh \cup {r}
  BY <1>1, <1>2 DEF InWaitingLoop, EngineInv, SchedulerInv, StepInv, StepFields
<1>9. Known(config, req') = Known(config, req)
  <2>1. \A q \in DOMAIN config.prompt : req'[q].output = req[q].output
    <3>1. DOMAIN config.prompt \subseteq Request
      BY ConfigSpec DEF EngineInv, SchedulerInv, Prompt
    <3> QED BY <1>7, <3>1
  <2> QED BY <2>1, KnownKept
<1>10. "RUNNING" \in Live /\ "RUNNING" \notin Queued \cup {"NEW"}
       /\ \A s \in Queued : s \in Live /\ s # "NEW"
  BY StatusesDiffer DEF Live
<1>11. ASSUME NEW q \in Request PROVE ReqOK(config, q, req'[q])
  <2>1. ReqOK(config, q, req[q])
    BY DEF EngineInv, PartsOK
  <2>2. CASE q = r
    <3> DEFINE o == req[r]
               p == req'[r]
    <3>1. /\ o.status \in Queued /\ p.status = "RUNNING" /\ p.output = o.output
          /\ p.computed = h /\ p.placeholders = o.placeholders /\ p.discard = o.discard
      BY <1>3, <1>7
    <3>2. ReqOK(config, r, o)
      BY <2>1, <2>2
    <3> HIDE DEF p, o
    <3>3. Length(config, r, p) = Length(config, r, o)
      BY <3>1 DEF Length
    <3>4. ReqOK(config, r, p)
      BY <1>3, <1>10, <3>1, <3>2, <3>3 DEF ReqOK
    <3> QED BY <2>2, <3>4 DEF p
  <2>3. CASE q # r
    BY <1>7, <2>1, <2>3
  <2> QED BY <2>2, <2>3
<1>12. ASSUME NEW q \in Request PROVE Fits(config, q, req'[q], step'.num[q], kv'.table[q])
  <2>1. CASE q = r
    <3>1. ReqOK(config, r, req[r]) /\ req[r].status \in Live
      BY <1>3, <1>10 DEF EngineInv, PartsOK
    <3>2. req[r].placeholders >= 0 /\ req[r].placeholders \in Int
      BY <3>1 DEF ReqOK
    <3>3. Length(config, r, req'[r]) = L /\ step'.num[r] = n
      BY <1>3, <1>7, <1>8 DEF Length, L
    <3> DEFINE p == req[r].placeholders
    <3>4. h + n <= L + p /\ h + n <= MaxModelLen - 1
      <4>1. p >= 0 /\ p \in Int
        BY <3>2
      <4> HIDE DEF p
      <4> QED BY <1>3, <1>5, <4>1
    <3> QED BY <1>6, <1>7, <2>1, <3>3, <3>4 DEF Fits
  <2>2. CASE q # r
    <3>1. step'.num[q] = step.num[q] /\ req'[q] = req[q] /\ kv'.table[q] = kv.table[q]
      BY <1>6, <1>7, <1>8, <2>2
    <3> QED BY <3>1 DEF EngineInv, PartsOK
  <2> QED BY <2>1, <2>2
<1>13. running \in Seq(Request) /\ step.order \in Seq(Request) /\ StepOK(config, req, step, running)
  BY DEF EngineInv, SchedulerInv, Placed, StepInv, PartsOK
<1>14. StepOK(config, req', step', running')
  <2>1. IsInjective(step'.order) /\ ToSet(step'.order) = ToSet(step.order) \cup {r}
    BY <1>3, <1>8, <1>13, AppendSpec DEF StepOK
  <2>2. ToSet(running') = ToSet(running) \cup {r} /\ Len(running') = Len(running) + 1
    BY <1>2, <1>3, <1>13, AppendSpec
  <2>3. Len(running') <= config.maxNumRunningReqs
    <3>1. config.maxNumRunningReqs \in Nat \ {0}
      BY ConfigSpec DEF EngineInv, SchedulerInv, SchedulerConfig
    <3>2. Len(running) # config.maxNumRunningReqs /\ Len(running) <= config.maxNumRunningReqs
      BY <1>1, <1>13 DEF InWaitingLoop, MaxNumRunningReqs, StepOK
    <3>3. Len(running) \in Nat
      BY <1>13
    <3> QED BY <2>2, <3>1, <3>2, <3>3
  <2>4. Owned(step'.num, step'.budget)
    BY <1>3, <1>8, <1>13, OwnedTake DEF StepOK
  <2>5. \A q \in Request : step'.num[q] \in Nat /\ (step'.num[q] > 0 <=> q \in ToSet(step'.order))
    <3>1. n > 0 /\ n \in Nat
      BY <1>3
    <3>2. \A q \in Request : step.num[q] \in Nat /\ (step.num[q] > 0 <=> q \in ToSet(step.order))
      BY <1>13 DEF StepOK
    <3>3. step'.num[r] = n /\ \A q \in Request \ {r} : step'.num[q] = step.num[q]
      BY <1>3, <1>8
    <3> QED BY <2>1, <3>1, <3>2, <3>3
  <2>6. ToSet(step'.order) \subseteq ToSet(running') /\ step'.fresh \subseteq ToSet(step'.order)
    BY <1>8, <1>13, <2>1, <2>2 DEF StepOK
  <2> QED BY <1>8, <2>1, <2>3, <2>4, <2>5, <2>6 DEF StepOK
<1>15. InflightOK(config, req', step', inflight)
  <2>1. InflightOK(config, req, step, inflight)
    BY DEF EngineInv, PartsOK
  <2>2. ASSUME NEW i \in 1 .. Len(inflight) PROVE BatchOK(inflight[i], req')
    <3>1. BatchOK(inflight[i], req)
      BY <2>1 DEF InflightOK
    <3>2. \A q \in ToSet(inflight[i].order) : req'[q].status # "NEW"
      <4>1. inflight[i] \in ToSet(inflight)
        BY ToSetSpec DEF EngineInv, SchedulerInv, BatchInv
      <4>2. inflight[i].order \in Seq(Request)
        BY <4>1 DEF EngineInv, SchedulerInv, BatchInv
      <4>3. ToSet(inflight[i].order) \subseteq Request
        BY <4>2, ToSetSpec
      <4> QED BY <1>7, <1>10, <3>1, <4>3 DEF BatchOK
    <3> QED BY <3>1, <3>2 DEF BatchOK
  <2> QED BY <1>8, <2>1, <2>2 DEF InflightOK
<1>16. ASSUME config.async, NEW q \in Request
       PROVE  AsyncOK(config, q, req'[q], step', inflight, worker)
  <2>1. AsyncOK(config, q, req[q], step, inflight, worker)
    BY <1>16 DEF EngineInv, PartsOK
  <2>2. CASE q = r
    <3>1. Due(inflight, r, req'[r]) = Due(inflight, r, req[r])
      BY <1>7 DEF Due
    <3>2. Due(inflight, r, req[r]) <= req[r].placeholders /\ Due(inflight, r, req[r]) <= 0
      BY <1>3, <1>8, <1>10, <2>1, <2>2 DEF AsyncOK
    <3> QED BY <1>7, <1>8, <1>10, <2>2, <3>1, <3>2 DEF AsyncOK
  <2>3. CASE q # r
    <3>1. req'[q] = req[q] /\ (q \in step'.fresh <=> q \in step.fresh)
      BY <1>7, <1>8, <2>3
    <3> QED BY <1>8, <2>1, <3>1 DEF AsyncOK
  <2> QED BY <2>2, <2>3
<1> QED BY <1>1, <1>6, <1>9, <1>11, <1>12, <1>14, <1>15, <1>16 DEF EngineInv, PartsOK, V

-----------------------------------------------------------------------------
(* The cache: the end of schedule()                                         *)

\* What _update_after_schedule does to the fields of a request.
Counts(r, num) ==
    LET chunk == req[r].computed + num < NumTokens(r) + req[r].placeholders
    IN  /\ req'[r].status = req[r].status /\ req'[r].output = req[r].output
        /\ req'[r].discard = req[r].discard
        /\ req'[r].computed = req[r].computed + num
        /\ req'[r].placeholders = IF Async /\ num # 0 /\ ~chunk
                                  THEN req[r].placeholders + 1 ELSE req[r].placeholders

\* _update_after_schedule, of one request.
LEMMA CountsSpec ==
    ASSUME EngineInv, UpdateAfterSchedule, NEW r \in Request
    PROVE  Counts(r, step.num[r]) /\ (step.num[r] = 0 => req'[r] = req[r])
<1> DEFINE n == step.num[r]
           q == req[r]
           chunk == BatchEnd(r) < NumTokens(r) + q.placeholders
           p == IF Async /\ ~chunk THEN q.placeholders + 1 ELSE q.placeholders
           q2 == [q EXCEPT !.computed = @ + n, !.placeholders = p]
<1>1. req'[r] = IF n = 0 THEN q ELSE q2
  BY DEF UpdateAfterSchedule
<1>2. DOMAIN q = ReqFields
  BY DEF EngineInv, SchedulerInv, ReqInv, ReqShape
<1>3. q.computed \in Nat
  <2>1. q.computed \in 0 .. MaxModelLen - 1
    BY DEF EngineInv, PartsOK, ReqOK
  <2> QED BY <2>1, KVCacheAssumption
<1>4. CASE n = 0
  <2>1. req'[r] = q
    BY <1>1, <1>4
  <2>2. q.computed + n = q.computed
    BY <1>3, <1>4
  <2> HIDE DEF n, q
  <2> QED BY <1>4, <2>1, <2>2 DEF Counts, n, q
<1>5. CASE n # 0
  <2>1. req'[r] = q2
    BY <1>1, <1>5
  <2>2. chunk <=> q.computed + n < NumTokens(r) + q.placeholders
    BY DEF BatchEnd
  <2> HIDE DEF n, p
  <2>3. /\ q2.status = q.status /\ q2.output = q.output /\ q2.discard = q.discard
        /\ q2.computed = q.computed + n /\ q2.placeholders = p
    BY <1>2 DEF ReqFields
  <2>4. p = IF Async /\ ~(q.computed + n < NumTokens(r) + q.placeholders)
            THEN q.placeholders + 1 ELSE q.placeholders
    BY <2>2 DEF p
  <2> HIDE DEF q2
  <2>5. Counts(r, n)
    BY <1>5, <2>1, <2>3, <2>4 DEF Counts
  <2> QED BY <1>5, <2>5 DEF n
<1> QED BY <1>4, <1>5

\* Of a scheduled request: the counters it runs with.
LEMMA ScheduledSpec ==
    ASSUME EngineInv, NEW r \in ToSet(step.order)
    PROVE  /\ r \in Request /\ req[r].status = "RUNNING"
           /\ step.num[r] \in Nat /\ step.num[r] # 0
           /\ req[r].computed \in Nat /\ req[r].placeholders \in Nat
           /\ NumTokens(r) \in Nat \ {0} /\ NumTokens(r) = Length(config, r, req[r])
           /\ Tokens(r) \in Seq(Alphabet(config)) /\ NumTokens(r) = Len(Tokens(r))
           /\ BatchEnd(r) \in Nat /\ BatchEnd(r) <= NumTokens(r) + req[r].placeholders
           /\ BatchEnd(r) <= MaxModelLen - 1
           /\ BatchEnd(r) <= Len(kv.table[r]) * BlockSize
<1>1. StepOK(config, req, step, running)
  BY DEF EngineInv, PartsOK
<1>2. r \in ToSet(running)
  BY <1>1 DEF StepOK
<1>3. r \in Request /\ req[r].status = "RUNNING"
  BY <1>2 DEF EngineInv, SchedulerInv, Placed
<1>4. step.num[r] \in Nat /\ step.num[r] # 0
  <2>1. step.num[r] \in Nat /\ step.num[r] > 0
    BY <1>1, <1>3 DEF StepOK
  <2> QED BY <2>1
<1>5. ReqOK(config, r, req[r]) /\ Fits(config, r, req[r], step.num[r], kv.table[r])
  BY <1>3 DEF EngineInv, PartsOK
<1>6. req[r].computed \in 0 .. MaxModelLen - 1 /\ req[r].placeholders \in Int
      /\ req[r].placeholders >= 0
  BY <1>3, <1>5 DEF ReqOK, Live
<1>7. req[r].computed \in Nat /\ req[r].placeholders \in Nat
  BY <1>6, KVCacheAssumption
<1>8. /\ NumTokens(r) \in Nat \ {0} /\ NumTokens(r) = Length(config, r, req[r])
      /\ Tokens(r) \in Seq(Alphabet(config)) /\ NumTokens(r) = Len(Tokens(r))
  BY <1>3, SentSpec, StatusesDiffer DEF NumTokens
<1>9. /\ BatchEnd(r) = req[r].computed + step.num[r]
      /\ BatchEnd(r) <= NumTokens(r) + req[r].placeholders
      /\ BatchEnd(r) <= MaxModelLen - 1
      /\ BatchEnd(r) <= Len(kv.table[r]) * BlockSize
  BY <1>3, <1>5, <1>8 DEF Fits, BatchEnd
<1>10. BatchEnd(r) \in Nat
  BY <1>4, <1>7, <1>9
<1> QED BY <1>3, <1>4, <1>7, <1>8, <1>9, <1>10

\* What the worker runs a request with.
LEMMA WorkerTokensSpec ==
    ASSUME EngineInv, NEW r \in ToSet(step.order)
    PROVE  /\ WorkerTokens(r) \in Seq(Alphabet(config))
           /\ Len(worker[r]) \in Nat
           /\ Len(WorkerTokens(r)) = IF r \in step.fresh THEN NumTokens(r)
                 ELSE MinOf(Len(worker[r]), NumTokens(r) + req[r].placeholders)
<1> DEFINE A == Alphabet(config)
           w == worker[r]
           n == NumTokens(r) + req[r].placeholders
           k == MinOf(Len(w), n)
<1>1. /\ r \in Request /\ NumTokens(r) \in Nat \ {0} /\ req[r].placeholders \in Nat
      /\ Tokens(r) \in Seq(A) /\ NumTokens(r) = Len(Tokens(r))
  BY ScheduledSpec
<1>2. w \in Seq(A)
  BY <1>1 DEF EngineInv, PartsOK
<1>3. WorkerTokens(r) = IF r \in step.fresh THEN Tokens(r) ELSE SubSeq(w, 1, k)
  BY DEF WorkerTokens
<1>4. n \in Nat
  BY <1>1
<1> HIDE DEF A, w, n
<1>5. Len(w) \in Nat /\ k \in 0 .. Len(w)
  BY <1>2, <1>4 DEF MinOf
<1> HIDE DEF k
<1>6. SubSeq(w, 1, k) \in Seq(A) /\ Len(SubSeq(w, 1, k)) = k
  <2>1. CASE k = 0
    <3>1. SubSeq(w, 1, 0) = <<>>
      BY <1>2
    <3> QED BY <2>1, <3>1
  <2>2. CASE k # 0
    <3>1. 1 \in 1 .. Len(w) + 1 /\ k \in 0 .. Len(w) /\ \A i \in 1 .. k : w[i] \in A
      BY <1>2, <1>5
    <3>2. SubSeq(w, 1, k) = [i \in 1 .. k |-> w[i]]
      BY <1>2, <1>5, <2>2
    <3> QED BY <1>5, <3>1, <3>2
  <2> QED BY <2>1, <2>2
<1> QED BY <1>1, <1>3, <1>5, <1>6 DEF A, w, n, k

\* The arithmetic of one request of the batch: p placeholders, d outputs due,
\* N tokens, e of them and of the placeholders computed, l in the worker.
LEMMA DueArithmetic ==
    ASSUME NEW N \in Nat, NEW p \in Nat, NEW d \in Int, NEW e \in Nat, NEW k \in Nat,
           d <= p, e <= N + p, NEW s \in BOOLEAN, s <=> e >= k, N + d <= k,
           NEW p2, p2 = IF e < N + p THEN p ELSE p + 1,
           NEW d2, d2 = IF s THEN d + 1 ELSE d,
           NEW k2, k2 = IF s THEN k + 1 ELSE k
    PROVE  d2 <= p2 /\ N + d2 <= k2
<1>1. CASE s
  <2>1. d2 = d + 1 /\ k2 = k + 1 /\ e >= k
    BY <1>1
  <2>2. CASE e < N + p
    BY <2>1, <2>2
  <2>3. CASE ~(e < N + p)
    BY <2>1, <2>3
  <2> QED BY <2>2, <2>3
<1>2. CASE ~s
  BY <1>2
<1> QED BY <1>1, <1>2

\* What dispatching a batch does to the batches and to the worker's tokens.
Dispatches(batch, sampled) ==
    /\ sampled \in [Samples -> Vocabulary]
    /\ batch.order = step.order /\ DOMAIN batch.out = Samples
    /\ \A r \in Samples : batch.out[r].token = sampled[r] /\ batch.out[r].after = WorkerTokens(r)
    /\ inflight' = Append(inflight, batch)
    /\ worker' = [r \in Request |->
          CASE r \in Samples -> Append(WorkerTokens(r), sampled[r])
            [] r \in ToSet(step.order) \ Samples -> WorkerTokens(r)
            [] OTHER -> worker[r]]

\* The batch that is dispatched, and the tokens it samples.
LEMMA DispatchExists ==
    ASSUME FinishSchedule
    PROVE  \E batch, sampled : Dispatches(batch, sampled)
<1>1. PICK sampled \in [Samples -> Vocabulary] :
        /\ worker' = [r \in Request |->
              CASE r \in Samples -> Append(WorkerTokens(r), sampled[r])
                [] r \in ToSet(step.order) \ Samples -> WorkerTokens(r)
                [] OTHER -> worker[r]]
        /\ inflight' = Append(inflight,
              [order |-> step.order,
               out   |-> [r \in Samples |-> [token |-> sampled[r], after |-> WorkerTokens(r)]]])
  BY DEF FinishSchedule
<1> DEFINE out == [r \in Samples |-> [token |-> sampled[r], after |-> WorkerTokens(r)]]
           b == [order |-> step.order, out |-> out]
<1>2. b.order = step.order /\ b.out = out /\ DOMAIN out = Samples
      /\ \A r \in Samples : out[r].token = sampled[r] /\ out[r].after = WorkerTokens(r)
  OBVIOUS
<1>3. inflight' = Append(inflight, b)
  BY <1>1
<1> HIDE DEF out, b
<1>4. Dispatches(b, sampled)
  BY <1>1, <1>2, <1>3 DEF Dispatches
<1> QED BY <1>4

\* What the worker knows of the tokens after the batch.
LEMMA DispatchWorker ==
    ASSUME EngineInv, NEW batch, NEW sampled, Dispatches(batch, sampled)
    PROVE  /\ worker' \in [Request -> Seq(Alphabet(config))]
           /\ \A r \in ToSet(step.order) :
                 Len(worker'[r]) = IF r \in Samples THEN Len(WorkerTokens(r)) + 1
                                   ELSE Len(WorkerTokens(r))
           /\ \A r \in Request : r \notin ToSet(step.order) => worker'[r] = worker[r]
<1> DEFINE A == Alphabet(config)
           O == ToSet(step.order)
           t(r) == CASE r \in Samples -> Append(WorkerTokens(r), sampled[r])
                     [] r \in O \ Samples -> WorkerTokens(r)
                     [] OTHER -> worker[r]
<1>1. worker' = [r \in Request |-> t(r)] /\ sampled \in [Samples -> Vocabulary]
  BY DEF Dispatches
<1>2. Samples \subseteq O /\ Vocabulary \subseteq A /\ O \subseteq Request
  BY ScheduledSpec DEF Samples, Alphabet
<1>3. worker \in [Request -> Seq(A)]
  BY DEF EngineInv, PartsOK
<1>4. ASSUME NEW r \in Samples
      PROVE  t(r) \in Seq(A) /\ Len(t(r)) = Len(WorkerTokens(r)) + 1
  <2>1. WorkerTokens(r) \in Seq(A) /\ sampled[r] \in A
    BY <1>1, <1>2, WorkerTokensSpec
  <2>2. t(r) = Append(WorkerTokens(r), sampled[r])
    OBVIOUS
  <2> HIDE DEF t, A
  <2> QED BY <2>1, <2>2, AppendSpec
<1>5. ASSUME NEW r \in O \ Samples
      PROVE  t(r) \in Seq(A) /\ t(r) = WorkerTokens(r)
  BY WorkerTokensSpec
<1>6. ASSUME NEW r \in Request, r \notin O
      PROVE  t(r) \in Seq(A) /\ t(r) = worker[r]
  <2>1. r \notin Samples
    BY <1>2, <1>6
  <2> HIDE DEF A
  <2> QED BY <1>3, <1>6, <2>1
<1> HIDE DEF t, A, O
<1>7. \A r \in Request : t(r) \in Seq(A)
  BY <1>4, <1>5, <1>6
<1>8. worker' \in [Request -> Seq(A)]
  BY <1>1, <1>7
<1>9. ASSUME NEW r \in O
      PROVE  Len(worker'[r]) = IF r \in Samples THEN Len(WorkerTokens(r)) + 1
                               ELSE Len(WorkerTokens(r))
  <2>1. worker'[r] = t(r)
    BY <1>1, <1>2
  <2> QED BY <1>4, <1>5, <2>1
<1>10. \A r \in Request : r \notin O => worker'[r] = worker[r]
  BY <1>1, <1>6
<1> QED BY <1>8, <1>9, <1>10 DEF A, O

\* The batch joins those in flight.
LEMMA DispatchInflight ==
    ASSUME EngineInv, NEW batch, NEW sampled, Dispatches(batch, sampled),
           \A r \in Request : req'[r].status = req[r].status,
           step.phase # "update", step'.phase # "update" => Len(inflight') < config.batchQueueSize
    PROVE  /\ InflightOK(config, req', step', inflight')
           /\ Len(inflight') = Len(inflight) + 1 /\ inflight'[Len(inflight')] = batch
           /\ \A r : CountIn(inflight', r) =
                        CountIn(inflight, r) + (IF r \in Samples THEN 1 ELSE 0)
<1> DEFINE S == ToSet(inflight) \cup {batch}
<1>1. inflight \in Seq(S) /\ batch \in S
  <2>1. ToSet(inflight) \subseteq S
    OBVIOUS
  <2> QED BY <2>1, SeqMonotonic DEF EngineInv, SchedulerInv, BatchInv
<1> HIDE DEF S
<1>2. inflight' = Append(inflight, batch) /\ batch.order = step.order /\ DOMAIN batch.out = Samples
      /\ \A r \in Samples : batch.out[r].token \in Vocabulary
  BY DEF Dispatches
<1>3. /\ Len(inflight') = Len(inflight) + 1 /\ Len(inflight) \in Nat
      /\ \A i \in 1 .. Len(inflight) : inflight'[i] = inflight[i]
      /\ inflight'[Len(inflight) + 1] = batch
  BY <1>1, <1>2
<1>4. \A r : CountIn(inflight', r) = CountIn(inflight, r) + (IF r \in Samples THEN 1 ELSE 0)
  BY <1>1, <1>2, CountInAppend
<1>5. InflightOK(config, req, step, inflight)
  BY DEF EngineInv, PartsOK
<1>6. config.batchQueueSize \in Nat
  BY ConfigSpec DEF EngineInv, SchedulerInv, SchedulerConfig
<1>7. Len(inflight') <= config.batchQueueSize
  <2>1. Len(inflight) < config.batchQueueSize
    BY <1>5 DEF InflightOK
  <2> QED BY <1>3, <1>6, <2>1
<1>8. BatchOK(batch, req')
  <2>1. IsInjective(step.order)
    BY DEF EngineInv, PartsOK, StepOK
  <2>2. \A r \in ToSet(step.order) : req'[r].status # "NEW"
    BY ScheduledSpec
  <2>3. Samples \subseteq ToSet(step.order)
    BY DEF Samples
  <2> QED BY <1>2, <2>1, <2>2, <2>3 DEF BatchOK
<1>9. ASSUME NEW i \in 1 .. Len(inflight) PROVE BatchOK(inflight[i], req')
  <2>1. BatchOK(inflight[i], req)
    BY <1>5 DEF InflightOK
  <2>2. inflight[i] \in ToSet(inflight)
    BY ToSetSpec DEF EngineInv, SchedulerInv, BatchInv
  <2>3. inflight[i].order \in Seq(Request)
    BY <2>2 DEF EngineInv, SchedulerInv, BatchInv
  <2>4. ToSet(inflight[i].order) \subseteq Request
    BY <2>3, ToSetSpec
  <2> QED BY <2>1, <2>4 DEF BatchOK
<1>10. \A i \in 1 .. Len(inflight') : BatchOK(inflight'[i], req')
  <2>1. \A i \in 1 .. Len(inflight') : i \in 1 .. Len(inflight) \/ i = Len(inflight) + 1
    BY <1>3
  <2> QED BY <1>3, <1>8, <1>9, <2>1
<1>11. InflightOK(config, req', step', inflight')
  BY <1>7, <1>10 DEF InflightOK
<1> QED BY <1>3, <1>4, <1>11

\* Placeholders and outputs that are due still agree after it.
LEMMA DispatchAsync ==
    ASSUME EngineInv, NEW batch, NEW sampled, Dispatches(batch, sampled), config.async,
           step.phase = "waiting", UpdateAfterSchedule,
           \/ step' = NoStep("idle") /\ Len(inflight') < config.batchQueueSize
           \/ step' = NoStep("update"),
           NEW r \in Request
    PROVE  AsyncOK(config, r, req'[r], step', inflight', worker')
<1> DEFINE n == step.num[r]
           d == Due(inflight, r, req[r])
           N == Length(config, r, req[r])
           p == req[r].placeholders
           d2 == Due(inflight', r, req'[r])
<1>1. AsyncOK(config, r, req[r], step, inflight, worker)
  BY DEF EngineInv, PartsOK
<1>2. \A q \in Request : Counts(q, step.num[q]) /\ (step.num[q] = 0 => req'[q] = req[q])
  BY CountsSpec
<1>3. /\ step'.phase \in {"idle", "update"} /\ step'.fresh = {} /\ step'.preempted = {}
      /\ step'.phase # "update" => Len(inflight') < config.batchQueueSize
  BY DEF NoStep
<1>4. /\ Len(inflight') = Len(inflight) + 1 /\ inflight'[Len(inflight')] = batch
      /\ CountIn(inflight', r) = CountIn(inflight, r) + (IF r \in Samples THEN 1 ELSE 0)
  BY <1>2, <1>3, DispatchInflight DEF Counts
<1>5. inflight \in Seq(ToSet(inflight)) /\ CountIn(inflight, r) \in Nat /\ Len(inflight) \in Nat
      /\ CountIn(inflight, r) <= Len(inflight)
  BY CountInBounds DEF EngineInv, SchedulerInv, BatchInv
<1>6. /\ req'[r].status = req[r].status /\ req'[r].discard = req[r].discard
      /\ Length(config, r, req'[r]) = N
  BY <1>2 DEF Counts, Length
<1>7. d \in Int /\ d2 = (IF r \in Samples THEN d + 1 ELSE d)
  BY <1>4, <1>5, <1>6 DEF Due
<1>8. StepOK(config, req, step, running) /\ Samples \subseteq ToSet(step.order)
  BY DEF EngineInv, PartsOK, Samples
<1> HIDE DEF d, d2
<1>9. CASE r \in ToSet(step.order)
  <2> DEFINE k == Len(WorkerTokens(r))
             e == BatchEnd(r)
             p2 == req'[r].placeholders
             k2 == Len(worker'[r])
  <2>1. /\ req[r].status = "RUNNING" /\ n # 0 /\ NumTokens(r) = N /\ N \in Nat /\ p \in Nat
        /\ e \in Nat /\ e <= N + p /\ n \in Nat
    BY <1>9, ScheduledSpec
  <2>2. /\ k = IF r \in step.fresh THEN N ELSE MinOf(Len(worker[r]), N + p)
        /\ Len(worker[r]) \in Nat
    BY <1>9, <2>1, WorkerTokensSpec
  <2>3. k2 = IF r \in Samples THEN k + 1 ELSE k
    BY <1>9, DispatchWorker
  <2>4. r \in Samples <=> e >= k
    BY <1>9 DEF Samples
  <2>5. p2 = IF e < N + p THEN p ELSE p + 1
    BY <1>2, <2>1 DEF Counts, BatchEnd, Async
  <2>6. d <= p /\ (IF r \in step.fresh THEN d <= 0 ELSE N + d <= Len(worker[r]))
    BY <1>1, <2>1 DEF AsyncOK, Live, d
  <2> HIDE DEF N, p, k, e, n, p2, k2
  <2>7. k \in Nat /\ N + d <= k
    <3>1. CASE r \in step.fresh
      BY <1>7, <2>1, <2>2, <2>6, <3>1
    <3>2. CASE r \notin step.fresh
      BY <1>7, <2>1, <2>2, <2>6, <3>2 DEF MinOf
    <3> QED BY <3>1, <3>2
  <2> DEFINE s == r \in Samples
  <2>8. d2 <= p2 /\ N + d2 <= k2
    <3>1. s \in BOOLEAN /\ (s <=> e >= k)
      BY <2>4
    <3>2. d2 = (IF s THEN d + 1 ELSE d) /\ k2 = IF s THEN k + 1 ELSE k
      BY <1>7, <2>3
    <3> HIDE DEF s
    <3> QED BY <1>7, <2>1, <2>5, <2>6, <2>7, <3>1, <3>2, DueArithmetic
  <2>9. req'[r].status \notin Queued
    BY <1>6, <2>1, StatusesDiffer
  <2> QED BY <1>3, <1>6, <2>8, <2>9 DEF AsyncOK, d2, p2, k2, N
<1>10. CASE r \notin ToSet(step.order)
  <2>1. n = 0
    <3>1. n \in Nat /\ ~(n > 0)
      BY <1>8, <1>10 DEF StepOK
    <3> QED BY <3>1
  <2>2. req'[r] = req[r] /\ d2 = d /\ r \notin step.fresh
    BY <1>2, <1>7, <1>8, <1>10, <2>1 DEF StepOK
  <2>3. worker'[r] = worker[r]
    BY <1>10, DispatchWorker
  <2>4. req'[r].status \in Live => d2 <= req'[r].placeholders
    BY <1>1, <2>2 DEF AsyncOK, d
  <2>5. req'[r].status = "RUNNING" => N + d2 <= Len(worker'[r])
    BY <1>1, <2>2, <2>3 DEF AsyncOK, d
  <2>6. ASSUME step'.phase = "update"
        PROVE  inflight' # <<>> /\ r \notin DOMAIN inflight'[Len(inflight')].out
    <3>1. r \notin DOMAIN batch.out
      BY <1>8, <1>10 DEF Dispatches
    <3>2. Len(inflight') # 0
      BY <1>4, <1>5
    <3>3. inflight' # <<>>
      BY <3>2
    <3> QED BY <1>4, <3>1, <3>3
  <2>7. ASSUME step'.phase # "update" PROVE d2 <= 0
    <3>1. Len(inflight') < config.batchQueueSize /\ config.batchQueueSize <= 2
      BY <1>3, <2>7 DEF EngineInv, PartsOK
    <3>2. config.batchQueueSize \in Nat
      BY ConfigSpec DEF EngineInv, SchedulerInv, SchedulerConfig
    <3>3. CountIn(inflight, r) = 0
      BY <1>4, <1>5, <3>1, <3>2
    <3>4. d <= 0
      BY <3>3 DEF d, Due
    <3> QED BY <2>2, <3>4
  <2> QED BY <1>3, <1>6, <2>4, <2>5, <2>6, <2>7 DEF AsyncOK, d2
<1> QED BY <1>9, <1>10

\* The asserts at the end of schedule().
LEMMA GoodBatch ==
    ASSUME EngineInv
    PROVE  ~ \/ step.budget < 0
             \/ Len(running) > MaxNumRunningReqs
             \/ Len(step.order) > Len(running)
<1>1. StepOK(config, req, step, running)
  BY DEF EngineInv, PartsOK
<1>2. step.budget \in 0 .. MaxNumScheduledTokens
  BY <1>1, OwnedBounds DEF StepOK
<1>3. ~ (step.budget < 0)
  BY <1>2
<1>4. running \in Seq(Request) /\ IsInjective(running) /\ step.order \in Seq(Request)
      /\ IsInjective(step.order) /\ ToSet(step.order) \subseteq ToSet(running)
  BY <1>1 DEF EngineInv, SchedulerInv, Placed, StepInv, StepOK
<1>5. /\ IsFiniteSet(ToSet(running)) /\ Cardinality(ToSet(running)) = Len(running)
      /\ Cardinality(ToSet(step.order)) = Len(step.order)
  BY <1>4, LenIsCardinality
<1>6. Cardinality(ToSet(step.order)) <= Cardinality(ToSet(running))
  BY <1>4, <1>5, FS_Subset
<1>7. Len(running) \in Nat /\ Len(step.order) \in Nat
  BY <1>4
<1>8. ~ (Len(step.order) > Len(running))
  BY <1>5, <1>6, <1>7
<1>9. config.maxNumRunningReqs \in Nat \ {0} /\ Len(running) <= config.maxNumRunningReqs
  BY <1>1, ConfigSpec DEF EngineInv, SchedulerInv, SchedulerConfig, StepOK
<1>10. ~ (Len(running) > MaxNumRunningReqs)
  BY <1>7, <1>9 DEF MaxNumRunningReqs
<1> QED BY <1>3, <1>8, <1>10

\* schedule() ends and the batch is dispatched.
LEMMA FinishScheduleParts ==
    ASSUME EngineInv, FinishSchedule
    PROVE  PartsOK(config, req', running', kv', step', inflight', worker', faults')
<1>1. /\ step.phase = "waiting" /\ UpdateAfterSchedule /\ UNCHANGED <<running, kv>>
      /\ \/ step' = NoStep("idle") /\ Len(inflight') < config.batchQueueSize
         \/ step' = NoStep("update")
  BY DEF FinishSchedule, BatchQueueSize
<1>2. PICK batch, sampled : Dispatches(batch, sampled)
  BY DispatchExists
<1>3. \A r \in Request : Counts(r, step.num[r]) /\ (step.num[r] = 0 => req'[r] = req[r])
  BY <1>1, CountsSpec
<1>4. /\ step'.phase \in {"idle", "update"} /\ step' = NoStep(step'.phase)
      /\ step'.phase # "update" => Len(inflight') < config.batchQueueSize
      /\ \A r \in Request : step'.num[r] = 0
  BY <1>1 DEF NoStep
<1>5. faults' \cap SchedulerFaults = {}
  <2>1. faults' \subseteq faults \cup {"wrong KV"}
    <3>1. faults' = faults \cup
            {f \in {"wrong KV"} : \E r \in ToSet(step.order) : ~ReadsOwnKV(r, mem')} \cup
            {f \in {"bad batch"} : \/ step.budget < 0
                                  \/ Len(running) > MaxNumRunningReqs
                                  \/ Len(step.order) > Len(running)}
      BY DEF FinishSchedule
    <3>2. {f \in {"bad batch"} : \/ step.budget < 0
                                \/ Len(running) > MaxNumRunningReqs
                                \/ Len(step.order) > Len(running)} = {}
      BY GoodBatch
    <3> QED BY <3>1, <3>2
  <2>2. "wrong KV" \notin SchedulerFaults
    BY DEF SchedulerFaults
  <2> QED BY <2>1, <2>2 DEF EngineInv, PartsOK
<1>6. Known(config, req') = Known(config, req)
  <2>1. \A r \in DOMAIN config.prompt : req'[r].output = req[r].output
    <3>1. DOMAIN config.prompt \subseteq Request
      BY ConfigSpec DEF EngineInv, SchedulerInv, Prompt
    <3> QED BY <1>3, <3>1 DEF Counts
  <2> QED BY <2>1, KnownKept
<1>7. KVInv(kv', Known(config, req'), Alphabet(config))
  BY <1>1, <1>6 DEF EngineInv, PartsOK
<1>8. StepOK(config, req, step, running)
  BY DEF EngineInv, PartsOK
<1>9. ASSUME NEW r \in Request
      PROVE  ReqOK(config, r, req'[r]) /\ Fits(config, r, req'[r], 0, kv'.table[r])
  <2>1. ReqOK(config, r, req[r]) /\ Fits(config, r, req[r], step.num[r], kv.table[r])
    BY DEF EngineInv, PartsOK
  <2>2. CASE r \notin ToSet(step.order)
    <3>1. step.num[r] \in Nat /\ ~ (step.num[r] > 0)
      BY <1>8, <2>2 DEF StepOK
    <3>2. step.num[r] = 0
      BY <3>1
    <3> QED BY <1>1, <1>3, <2>1, <3>2
  <2>3. CASE r \in ToSet(step.order)
    <3> DEFINE q == req[r]
               q2 == req'[r]
               e == BatchEnd(r)
               n == step.num[r]
               N == NumTokens(r)
    <3>1. /\ q.status = "RUNNING" /\ n \in Nat /\ n # 0 /\ q.computed \in Nat
          /\ q.placeholders \in Nat /\ N \in Nat \ {0} /\ N = Length(config, r, q)
          /\ e \in Nat /\ e <= N + q.placeholders /\ e <= MaxModelLen - 1
          /\ e <= Len(kv.table[r]) * BlockSize
      BY <2>3, ScheduledSpec
    <3>2. /\ q2.status = q.status /\ q2.output = q.output /\ q2.discard = q.discard
          /\ q2.computed = e
          /\ q2.placeholders = IF Async /\ ~(e < N + q.placeholders)
                               THEN q.placeholders + 1 ELSE q.placeholders
      BY <1>3, <3>1 DEF Counts, BatchEnd
    <3>3. ReqOK(config, r, q) /\ Length(config, r, q2) = N
      BY <2>1, <3>1, <3>2 DEF Length
    <3> HIDE DEF q, q2, e, n, N
    <3>4. MaxModelLen \in Nat
      BY KVCacheAssumption
    <3>5. e \in 0 .. MaxModelLen - 1
      BY <3>1, <3>4
    <3>6. q2.placeholders \in Nat /\ q.placeholders <= q2.placeholders
      BY <3>1, <3>2
    <3>7. /\ "RUNNING" \in Live /\ "RUNNING" \notin Queued \cup {"NEW"}
      BY StatusesDiffer DEF Live
    <3>8. ReqOK(config, r, q2)
      <4>1. q2.output \in Seq(Vocabulary) /\ q2.computed \in 0 .. MaxModelLen - 1
            /\ q2.discard \in BOOLEAN
        BY <3>2, <3>3, <3>5 DEF ReqOK
      <4>2. q2.placeholders \in Int /\ q2.placeholders >= 0 /\ Length(config, r, q2) <= MaxModelLen - 1
        <5>1. Length(config, r, q) <= MaxModelLen - 1
          BY <3>1, <3>3, <3>7 DEF ReqOK
        <5>2. q2.placeholders \in Int /\ q2.placeholders >= 0
          BY <3>6
        <5> QED BY <3>1, <3>3, <5>1, <5>2
      <4>3. ~config.async => q2.placeholders = 0
        BY <3>2, <3>3 DEF ReqOK, Async
      <4> QED BY <3>1, <3>2, <3>7, <4>1, <4>2, <4>3 DEF ReqOK
    <3>9. Fits(config, r, q2, 0, kv'.table[r])
      <4>1. e + 0 = e /\ e <= N + q2.placeholders
        BY <3>1, <3>6
      <4>2. kv'.table[r] = kv.table[r]
        BY <1>1
      <4> QED BY <3>1, <3>2, <3>3, <4>1, <4>2 DEF Fits
    <3> QED BY <3>8, <3>9 DEF q2
  <2> QED BY <2>2, <2>3
<1>10. StepOK(config, req', step', running')
  BY <1>1, <1>4, <1>8, NoStepOK DEF StepOK
<1>11. InflightOK(config, req', step', inflight')
  BY <1>1, <1>2, <1>3, <1>4, DispatchInflight DEF Counts
<1>12. worker' \in [Request -> Seq(Alphabet(config))]
  BY <1>2, DispatchWorker
<1>13. config.async => \A r \in Request : AsyncOK(config, r, req'[r], step', inflight', worker')
  BY <1>1, <1>2, DispatchAsync
<1>14. \A r \in Request : Fits(config, r, req'[r], step'.num[r], kv'.table[r])
  BY <1>4, <1>9
<1> QED BY <1>5, <1>7, <1>9, <1>10, <1>11, <1>12, <1>13, <1>14 DEF EngineInv, PartsOK

-----------------------------------------------------------------------------
(* The cache: update_from_output                                            *)

\* The fields of a request that takes a token, and the status it goes on with.
Taken(q, q2, c, x, token) ==
    /\ q2.output = Append(q.output, token)
    /\ q2.computed = q.computed /\ q2.discard = q.discard
    /\ q2.placeholders = IF Async THEN q.placeholders - 1 ELSE q.placeholders
    /\ q2.status \in Finished \cup {q.status}
    /\ q2.status \notin Finished => ~ (Length(c, x, q2) >= MaxModelLen)

\* The cache of the other requests' blocks, and of its own that are now full.
TakenCache(m, x, q, q2) ==
    IF Async /\ EnableCaching /\ q.status = "RUNNING"
    THEN CacheBlocks(m, x, config.prompt[x] \o q2.output, q2.computed - q2.placeholders) ELSE m

TakenKV(m, x, q, q2) ==
    IF q2.status \in Finished THEN FreeRequest(TakenCache(m, x, q, q2), x)
    ELSE TakenCache(m, x, q, q2)

\* What the step of the loop about x does to it, as q and then q2.
OutputEffect(s, t, x, out, q, q2) ==
    /\ ~TakesOutput(q, x, out) => t = s
    /\ TakesOutput(q, x, out) /\ DiscardsOutput(q) =>
          /\ t.kv = s.kv /\ t.faults = s.faults
          /\ q2.output = q.output /\ q2.computed = q.computed /\ q2.discard = FALSE
          /\ q2.placeholders = q.placeholders /\ q2.status = q.status
    /\ TakesOutput(q, x, out) /\ ~DiscardsOutput(q) =>
          /\ Taken(q, q2, config, x, out[x].token)
          /\ t.kv = TakenKV(s.kv, x, q, q2)
          /\ ~ (q2.placeholders < 0) => t.faults \subseteq s.faults \cup {"misplaced token"}
          /\ out[x].after = config.prompt[x] \o q.output =>
                t.faults \subseteq s.faults \cup {"placeholder underflow"}

\* The three ways an output is dealt with: skipped, discarded, taken.
LEMMA UpdateEffect ==
    ASSUME NEW s, UpdateShape(s), NEW x \in Request, NEW out,
           NEW t, t = UpdateRequest(s, x, out), NEW q, q = s.req[x], NEW q2, q2 = t.req[x]
    PROVE  OutputEffect(s, t, x, out, q, q2)
<1> USE DEF OutputEffect
<1> DEFINE q0   == s.req[x]
           q1   == [q0 EXCEPT !.output = Append(@, out[x].token)]
           done == StatusAfter(x, q1)
           q3   == [q1 EXCEPT !.status = done]
           b    == AsyncBookkeeping(x, q0, q3, s.kv)
           bad  == {f \in {"misplaced token"} : out[x].after # Prompt[x] \o q0.output}
                     \cup {f \in {"placeholder underflow"} : b.q.placeholders < 0}
           stop == done \in Finished
           m    == IF stop THEN FreeRequest(b.m, x) ELSE b.m
           st   == IF stop THEN s.stopped \cup {x} ELSE s.stopped
           t1   == [s EXCEPT !.req[x].discard = FALSE]
           t2   == [s EXCEPT !.req[x] = b.q, !.kv = m, !.faults = @ \cup bad, !.stopped = st]
<1>1. t = IF ~TakesOutput(q0, x, out) THEN s ELSE IF DiscardsOutput(q0) THEN t1 ELSE t2
  BY DEF UpdateRequest
<1>2. DOMAIN q0 = ReqFields /\ q0 = q
  BY DEF UpdateShape, ReqShape
<1>3. /\ DOMAIN q1 = ReqFields /\ q1.status = q0.status /\ q1.computed = q0.computed
      /\ q1.output = Append(q0.output, out[x].token)
      /\ q1.placeholders = q0.placeholders /\ q1.discard = q0.discard
  BY <1>2 DEF ReqFields
<1>4. /\ done \in Finished \cup {q0.status}
      /\ done \notin Finished => ~ (Len(config.prompt[x]) + Len(q1.output) >= MaxModelLen)
  BY <1>3 DEF StatusAfter, Finished, Prompt
<1> HIDE DEF q1, done
<1>5. /\ DOMAIN q3 = ReqFields /\ q3.status = done /\ q3.computed = q0.computed
      /\ q3.output = q1.output /\ q3.placeholders = q0.placeholders /\ q3.discard = q0.discard
  BY <1>3 DEF ReqFields
<1> HIDE DEF q3
<1>6. /\ b.q.status = done /\ b.q.computed = q0.computed /\ b.q.output = q1.output
      /\ b.q.discard = q0.discard
      /\ b.q.placeholders = IF Async THEN q0.placeholders - 1 ELSE q0.placeholders
      /\ b.m = TakenCache(s.kv, x, q0, b.q)
  <2> DEFINE q4 == [q3 EXCEPT !.placeholders = @ - 1]
             tokens == Prompt[x] \o q3.output
             m1 == CacheBlocks(s.kv, x, tokens, q4.computed - q4.placeholders)
             m2 == IF EnableCaching /\ q0.status = "RUNNING" THEN m1 ELSE s.kv
  <2>1. /\ q4.status = done /\ q4.computed = q0.computed /\ q4.output = q1.output
        /\ q4.discard = q0.discard /\ q4.placeholders = q0.placeholders - 1
    BY <1>5 DEF ReqFields
  <2>2. b = IF ~Async THEN [q |-> q3, m |-> s.kv] ELSE [q |-> q4, m |-> m2]
    BY DEF AsyncBookkeeping
  <2>3. tokens = config.prompt[x] \o q1.output
    BY <1>5 DEF Prompt
  <2> HIDE DEF b, q4, tokens
  <2>4. CASE ~Async
    <3>1. b.q = q3 /\ b.m = s.kv
      BY <2>2, <2>4
    <3> QED BY <1>5, <2>4, <3>1 DEF TakenCache
  <2>5. CASE Async
    <3>1. b.q = q4 /\ b.m = m2
      BY <2>2, <2>5
    <3>2. m2 = TakenCache(s.kv, x, q0, q4)
      BY <2>1, <2>3, <2>5 DEF TakenCache
    <3> HIDE DEF m2
    <3> QED BY <2>1, <2>5, <3>1, <3>2
  <2> QED BY <2>4, <2>5
<1> HIDE DEF b
<1>7. m = TakenKV(s.kv, x, q0, b.q)
  BY <1>6 DEF TakenKV
<1>8. /\ ~ (b.q.placeholders < 0) => bad \subseteq {"misplaced token"}
      /\ out[x].after = config.prompt[x] \o q.output => bad \subseteq {"placeholder underflow"}
  BY <1>2 DEF Prompt
<1> HIDE DEF q0, bad, stop, m, st
<1>9. CASE ~TakesOutput(q0, x, out)
  BY <1>1, <1>2, <1>9
<1>10. CASE TakesOutput(q0, x, out) /\ DiscardsOutput(q0)
  <2>1. t = t1
    BY <1>1, <1>10
  <2>2. /\ t1.kv = s.kv /\ t1.faults = s.faults
        /\ t1.req[x] = [q0 EXCEPT !.discard = FALSE]
    BY DEF UpdateShape, ReqShape, q0
  <2> DEFINE q5 == [q0 EXCEPT !.discard = FALSE]
  <2>3. /\ q5.output = q0.output /\ q5.computed = q0.computed /\ q5.discard = FALSE
        /\ q5.placeholders = q0.placeholders /\ q5.status = q0.status
    BY <1>2 DEF ReqFields
  <2> HIDE DEF t1, q5
  <2>4. q2 = q5
    BY <2>1, <2>2 DEF q5
  <2> QED BY <1>2, <1>10, <2>1, <2>2, <2>3, <2>4
<1>11. CASE TakesOutput(q0, x, out) /\ ~DiscardsOutput(q0)
  <2>1. t = t2
    BY <1>1, <1>11
  <2>2. /\ t2.req = [s.req EXCEPT ![x] = b.q] /\ t2.kv = m /\ t2.faults = s.faults \cup bad
    BY DEF UpdateShape
  <2> HIDE DEF t2
  <2>3. t2.req[x] = b.q
    BY <2>2 DEF UpdateShape, ReqShape
  <2>4. q2 = b.q /\ t.kv = m /\ t.faults = s.faults \cup bad
    BY <2>1, <2>2, <2>3
  <2>5. Taken(q0, b.q, config, x, out[x].token)
    BY <1>3, <1>4, <1>6 DEF Taken, Length
  <2> QED BY <1>2, <1>7, <1>8, <1>11, <2>4, <2>5
<1> QED BY <1>9, <1>10, <1>11

\* A token is appended to the output.
LEMMA ExtendsAppend ==
    ASSUME NEW V, NEW p \in Seq(V), NEW o \in Seq(V), NEW e \in V
    PROVE  /\ p \o Append(o, e) \in Seq(V) /\ Extends(p \o o, p \o Append(o, e))
           /\ Len(p \o Append(o, e)) = Len(p) + Len(o) + 1
<1> DEFINE a == Append(o, e)
<1>1. a \in Seq(V) /\ Len(a) = Len(o) + 1 /\ \A k \in 1 .. Len(o) : a[k] = o[k]
  OBVIOUS
<1> HIDE DEF a
<1>2. /\ p \o o \in Seq(V) /\ Len(p \o o) = Len(p) + Len(o)
      /\ p \o a \in Seq(V) /\ Len(p \o a) = Len(p) + Len(a)
      /\ Len(p) \in Nat /\ Len(o) \in Nat /\ Len(a) \in Nat
  BY <1>1
<1>3. ASSUME NEW k \in 1 .. Len(p \o o) PROVE (p \o a)[k] = (p \o o)[k]
  <2>1. CASE k <= Len(p)
    BY <1>1, <1>2, <1>3, <2>1
  <2>2. CASE k > Len(p)
    <3>1. k - Len(p) \in 1 .. Len(o) /\ k - Len(p) \in 1 .. Len(a)
      BY <1>1, <1>2, <1>3, <2>2
    <3>2. k \in 1 .. Len(p) + Len(a) /\ k \in 1 .. Len(p) + Len(o)
      BY <1>1, <1>2, <1>3
    <3>3. (p \o a)[k] = a[k - Len(p)]
      BY <1>1, <1>2, <2>2, <3>2, ConcatProperties
    <3>4. (p \o o)[k] = o[k - Len(p)]
      <4>1. \A i \in 1 .. Len(p) + Len(o) :
               (p \o o)[i] = IF i <= Len(p) THEN p[i] ELSE o[i - Len(p)]
        BY ConcatProperties
      <4>2. ~ (k <= Len(p))
        BY <1>2, <2>2, <3>2
      <4> QED BY <3>2, <4>1, <4>2
    <3> QED BY <1>1, <3>1, <3>3, <3>4
  <2>3. k <= Len(p) \/ k > Len(p)
    BY <1>2, <1>3
  <2> QED BY <2>1, <2>2, <2>3
<1>4. Len(p \o o) <= Len(p \o a) /\ Len(p \o a) = Len(p) + Len(o) + 1
  BY <1>1, <1>2
<1> QED BY <1>2, <1>3, <1>4 DEF Extends, a

\* A request with a placeholder for the token takes it: it is one token
\* longer, and blocks are published only for tokens it now has.
LEMMA TakenReq ==
    ASSUME EngineInv, NEW x \in DOMAIN config.prompt, NEW q, NEW q2, NEW token \in Vocabulary,
           Taken(q, q2, config, x, token), ReqOK(config, x, q), q.status \in Live,
           Async => q.placeholders >= 1
    PROVE  /\ ReqOK(config, x, q2) /\ q2.output \in Seq(Vocabulary)
           /\ Length(config, x, q2) = Length(config, x, q) + 1
           /\ \A b : Fits(config, x, q, 0, b) => Fits(config, x, q2, 0, b)
<1> DEFINE N == Length(config, x, q)
           N2 == Length(config, x, q2)
<1>1. SchedulerConfig(config)
  BY ConfigSpec DEF EngineInv, SchedulerInv
<1>2. q.output \in Seq(Vocabulary) /\ q2.output = Append(q.output, token)
  BY DEF ReqOK, Taken
<1>3. /\ q2.output \in Seq(Vocabulary) /\ Len(q2.output) = Len(q.output) + 1
      /\ Len(q.output) \in Nat
  BY <1>2
<1>4. Len(config.prompt[x]) \in Nat
  BY <1>1, <1>2, KnownSpec
<1>5. N2 = N + 1 /\ N \in Nat
  <2> DEFINE a == Len(config.prompt[x])
             b == Len(q.output)
             b2 == Len(q2.output)
  <2>1. N = a + b /\ N2 = a + b2
    BY DEF Length
  <2>2. a \in Nat /\ b \in Nat /\ b2 = b + 1
    BY <1>3, <1>4
  <2> HIDE DEF a, b, b2, N, N2
  <2> QED BY <2>1, <2>2
<1>6. MaxModelLen \in Nat
  BY KVCacheAssumption
<1>7. /\ q2.computed = q.computed /\ q2.discard = q.discard
      /\ q2.placeholders = IF Async THEN q.placeholders - 1 ELSE q.placeholders
      /\ q2.status \in Finished \cup {q.status}
      /\ q2.status \notin Finished => ~ (N2 >= MaxModelLen)
  BY DEF Taken
<1>8. /\ q.computed \in 0 .. MaxModelLen - 1 /\ q.discard \in BOOLEAN
      /\ q.placeholders \in Int /\ q.placeholders >= 0
      /\ ~config.async => q.placeholders = 0
      /\ q.status \in Queued \cup {"NEW"} => q.computed = 0
  BY DEF ReqOK
<1> HIDE DEF N, N2
<1>9. /\ q2.placeholders \in Int /\ q2.placeholders >= 0
      /\ ~config.async => q2.placeholders = 0
      /\ q2.placeholders >= q.placeholders - 1
  <2>1. CASE Async
    BY <1>7, <1>8, <2>1 DEF Async
  <2>2. CASE ~Async
    <3>1. q2.placeholders = q.placeholders
      BY <1>7, <2>2
    <3> QED BY <1>8, <3>1
  <2> QED BY <2>1, <2>2
<1>10. q2.status \in Live => q2.status = q.status /\ N2 <= MaxModelLen - 1
  <2>1. q2.status \in Live => q2.status \notin Finished
    BY StatusesDiffer DEF Live
  <2>2. ~ (N2 >= MaxModelLen) => N2 <= MaxModelLen - 1
    BY <1>5, <1>6
  <2> QED BY <1>7, <2>1, <2>2
<1>11. /\ q2.status # "NEW" /\ (q2.status \in Queued => q.status \in Queued)
       /\ (q2.status = "RUNNING" => q.status = "RUNNING")
  BY <1>7, StatusesDiffer DEF Live
<1>12. ReqOK(config, x, q2)
  <2>1. q2.status \in Live => q2.placeholders >= 0 /\ Length(config, x, q2) <= MaxModelLen - 1
    BY <1>9, <1>10 DEF N2
  <2>2. q2.status \in Queued \cup {"NEW"} => q2.computed = 0
    BY <1>7, <1>8, <1>11
  <2>3. q2.computed \in 0 .. MaxModelLen - 1 /\ q2.discard \in BOOLEAN
    BY <1>7, <1>8
  <2> QED BY <1>3, <1>9, <1>11, <2>1, <2>2, <2>3 DEF ReqOK
<1>13. ASSUME NEW b, Fits(config, x, q, 0, b) PROVE Fits(config, x, q2, 0, b)
  <2> SUFFICES ASSUME q2.status = "RUNNING" PROVE Fits(config, x, q2, 0, b)
    BY DEF Fits
  <2>1. /\ q.computed + 0 <= Len(b) * BlockSize
        /\ q.computed + 0 <= N + q.placeholders
        /\ q.computed + 0 <= MaxModelLen - 1
    BY <1>11, <1>13 DEF Fits, N
  <2>2. q.computed + 0 <= N2 + q2.placeholders
    BY <1>5, <1>6, <1>8, <1>9, <2>1
  <2> QED BY <1>7, <2>1, <2>2 DEF Fits, N2
<1> QED BY <1>3, <1>5, <1>12, <1>13 DEF N, N2

\* A token appended to a sequence's end is appended to the whole.
LEMMA AppendConcat ==
    ASSUME NEW V, NEW p \in Seq(V), NEW o \in Seq(V), NEW e \in V
    PROVE  p \o Append(o, e) = Append(p \o o, e)
  OBVIOUS

\* The cache m2 that the cache m becomes when request x, as q, takes a token:
\* tok has it, and what is published holds tokens that x has computed.
Refilled(m, m2, tok, x, q, token) ==
    /\ KVInv(m2, tok, Alphabet(config))
    /\ tok[x] \in Seq(Alphabet(config))
    /\ tok[x] = Append(config.prompt[x] \o q.output, token)
    /\ m2.table = m.table
    /\ \/ m2 = m
       \/ /\ q.status = "RUNNING" /\ q.computed \in Nat
          /\ q.computed <= Len(m2.table[x]) * BlockSize
          /\ Rehashes(m, m2, x, tok[x], Done(m, x), q.computed)

\* Taking a token leaves the cache consistent, with the token known.
LEMMA TakenCacheInv ==
    ASSUME EngineInv, NEW x \in DOMAIN config.prompt, NEW m, NEW rq, NEW rq2,
           KVInv(m, Known(config, rq), Alphabet(config)),
           \A r \in Request : m.table[r] # <<>> => r \in DOMAIN config.prompt,
           \A r \in Request \ {x} : rq2[r] = rq[r],
           NEW token \in Vocabulary, Taken(rq[x], rq2[x], config, x, token),
           ReqOK(config, x, rq[x]), Fits(config, x, rq[x], 0, m.table[x]),
           rq[x].status \in Live, Async => rq[x].placeholders >= 1,
           NEW m2, m2 = TakenCache(m, x, rq[x], rq2[x])
    PROVE  Refilled(m, m2, Known(config, rq2), x, rq[x], token)
<1> DEFINE V == Alphabet(config)
           tok == Known(config, rq)
           tok2 == Known(config, rq2)
           q == rq[x]
           q2 == rq2[x]
<1>1. SchedulerConfig(config) /\ DOMAIN config.prompt \subseteq Request
  BY ConfigSpec DEF EngineInv, SchedulerInv, Prompt
<1>2. q.output \in Seq(Vocabulary) /\ q2.output = Append(q.output, token) /\ x \in Request
  BY <1>1 DEF ReqOK, Taken
<1>3. /\ ReqOK(config, x, q2) /\ q2.output \in Seq(Vocabulary)
      /\ Length(config, x, q2) = Length(config, x, q) + 1
  BY TakenReq
<1>4. /\ tok[x] = config.prompt[x] \o q.output /\ tok2[x] = config.prompt[x] \o q2.output
      /\ config.prompt[x] \in Seq(V) /\ q.output \in Seq(V) /\ tok2[x] \in Seq(V)
      /\ Len(tok2[x]) = Length(config, x, q) + 1 /\ Length(config, x, q) \in Nat
  BY <1>1, <1>2, <1>3, KnownSpec
<1>5. Extends(tok[x], tok2[x]) /\ tok2[x] = Append(config.prompt[x] \o q.output, token)
  <2>1. token \in V
    BY DEF Alphabet
  <2> HIDE DEF V
  <2>2. Extends(tok[x], tok2[x])
    BY <1>2, <1>4, <2>1, ExtendsAppend
  <2>3. /\ config.prompt[x] \in Seq(V) /\ q.output \in Seq(V)
        /\ tok2[x] = config.prompt[x] \o Append(q.output, token)
    BY <1>2, <1>4
  <2> HIDE DEF tok2, q
  <2>4. tok2[x] = Append(config.prompt[x] \o q.output, token)
    <3> DEFINE a == config.prompt[x]
               o == q.output
    <3>1. a \in Seq(V) /\ o \in Seq(V) /\ tok2[x] = a \o Append(o, token)
      BY <2>3
    <3> HIDE DEF a, o
    <3>2. a \o Append(o, token) = Append(a \o o, token)
      BY <2>1, <3>1, AppendConcat
    <3> QED BY <3>1, <3>2 DEF a, o
  <2> QED BY <2>2, <2>4
<1>6. ASSUME NEW r \in Request, m.table[r] # <<>>
      PROVE  tok2[r] \in Seq(V) /\ Extends(tok[r], tok2[r])
  <2>1. CASE r = x
    BY <1>4, <1>5, <2>1
  <2>2. CASE r # x
    <3>1. tok2[r] = tok[r]
      BY <1>6, <2>2 DEF Known
    <3>2. tok[r] \in Seq(V)
      BY <1>6 DEF KVInv, Published, PublishedOf
    <3>3. Extends(tok[r], tok[r])
      <4>1. Len(tok[r]) \in Nat
        BY <3>2
      <4> HIDE DEF tok
      <4> QED BY <4>1 DEF Extends
    <3> QED BY <3>1, <3>2, <3>3
  <2> QED BY <2>1, <2>2
<1> HIDE DEF V, tok, tok2
<1>7. KVInv(m, tok2, V)
  <2>1. KVInv(m, tok, V)
    BY DEF tok, V
  <2> QED BY <1>6, <2>1, KVInvExtends
<1>8. CASE Async /\ EnableCaching /\ q.status = "RUNNING"
  <2> DEFINE n == q2.computed - q2.placeholders
             k == Len(m.table[x]) * BlockSize
             l == Length(config, x, q)
             a == q.computed
             p == q.placeholders
  <2>1. m2 = CacheBlocks(m, x, tok2[x], n)
    BY <1>4, <1>8 DEF TakenCache
  <2>2. n = a - (p - 1) /\ a \in Nat /\ p \in Nat /\ p >= 1
    <3>1. /\ q2.computed = q.computed /\ q2.placeholders = q.placeholders - 1
          /\ q.computed \in 0 .. MaxModelLen - 1 /\ q.placeholders \in Int
          /\ q.placeholders >= 1
      BY <1>8 DEF Taken, ReqOK
    <3> QED BY <3>1, KVCacheAssumption
  <2>3. a + 0 <= k /\ a + 0 <= l + p
    BY <1>8 DEF Fits
  <2>4. k \in Nat
    <3>1. m.table[x] \in Seq(Block \ {NullBlock})
      BY <1>2 DEF KVInv, KVTypes
    <3>2. Len(m.table[x]) \in Nat
      BY <3>1
    <3> QED BY <3>2, BlockTimes
  <2>5. l \in Nat /\ Len(tok2[x]) = l + 1
    BY <1>4
  <2>6. n \in Int /\ n <= k /\ n <= Len(tok2[x]) /\ n <= a /\ a <= k
    <3> HIDE DEF k, l, a, p, n
    <3>1. n \in Int /\ n <= k /\ n <= l + 1 /\ n <= a /\ a <= k
      BY <2>2, <2>3, <2>4, <2>5
    <3> QED BY <2>5, <3>1
  <2>7. n <= Len(m.table[x]) * BlockSize
    BY <2>6
  <2> HIDE DEF n, k, l, a, p, q, q2
  <2>8. /\ KVInv(m2, tok2, V) /\ m2.table = m.table
        /\ Rehashes(m, m2, x, tok2[x], Done(m, x), n)
    <3>1. x \in Request /\ tok2[x] \in Seq(V) /\ EnableCaching
      BY <1>2, <1>4, <1>8
    <3>2. LET c == CacheBlocks(m, x, tok2[x], n)
          IN  KVInv(c, tok2, V) /\ c.table = m.table /\ Rehashes(m, c, x, tok2[x], Done(m, x), n)
      BY <1>7, <2>6, <2>7, <3>1, CacheBlocksInv
    <3> QED BY <2>1, <3>2
  <2>9. Rehashes(m, m2, x, tok2[x], Done(m, x), a)
    <3>1. \A i \in Nat : i * BlockSize <= n => i * BlockSize <= a
      <4> SUFFICES ASSUME NEW i \in Nat, i * BlockSize <= n PROVE i * BlockSize <= a
        OBVIOUS
      <4>1. i * BlockSize \in Nat
        BY BlockTimes
      <4> DEFINE y == i * BlockSize
      <4>2. y \in Nat /\ y <= n
        BY <4>1
      <4> HIDE DEF y
      <4>3. y <= a
        BY <2>2, <2>6, <4>2
      <4> QED BY <4>3 DEF y
    <3> QED BY <2>8, <3>1 DEF Rehashes
  <2>10. /\ q.status = "RUNNING" /\ q.computed \in Nat
         /\ q.computed <= Len(m2.table[x]) * BlockSize
         /\ Rehashes(m, m2, x, tok2[x], Done(m, x), q.computed)
    BY <1>8, <2>2, <2>6, <2>8, <2>9 DEF a, k
  <2>11. Refilled(m, m2, tok2, x, q, token)
    BY <1>4, <1>5, <2>8, <2>10 DEF V, Refilled
  <2> QED BY <2>11 DEF q, tok2
<1>9. CASE ~ (Async /\ EnableCaching /\ q.status = "RUNNING")
  <2>1. m2 = m
    BY <1>9 DEF TakenCache
  <2> HIDE DEF q, q2
  <2>2. Refilled(m, m2, tok2, x, q, token)
    BY <1>4, <1>5, <1>7, <2>1 DEF V, Refilled
  <2> QED BY <2>2 DEF q, tok2
<1> QED BY <1>8, <1>9

\* The blocks it fills are published, and freed if the request stops.
LEMMA TakenKVInv ==
    ASSUME EngineInv, NEW x \in DOMAIN config.prompt, NEW m, NEW rq, NEW rq2,
           KVInv(m, Known(config, rq), Alphabet(config)),
           \A r \in Request : m.table[r] # <<>> => r \in DOMAIN config.prompt,
           \A r \in Request \ {x} : rq2[r] = rq[r],
           NEW token \in Vocabulary, Taken(rq[x], rq2[x], config, x, token),
           ReqOK(config, x, rq[x]), Fits(config, x, rq[x], 0, m.table[x]),
           rq[x].status \in Live, Async => rq[x].placeholders >= 1
    PROVE  KVInv(TakenKV(m, x, rq[x], rq2[x]), Known(config, rq2), Alphabet(config))
<1> DEFINE V == Alphabet(config)
           tok2 == Known(config, rq2)
           q == rq[x]
           q2 == rq2[x]
           m2 == TakenCache(m, x, q, q2)
<1>1. x \in Request
  BY ConfigSpec DEF EngineInv, SchedulerInv, SchedulerConfig, Prompt
<1>2. Refilled(m, m2, tok2, x, q, token)
  BY TakenCacheInv
<1> HIDE DEF V, tok2, m2
<1>3. KVInv(m2, tok2, V)
  BY <1>2 DEF Refilled, V
<1>4. TakenKV(m, x, q, q2) = IF q2.status \in Finished THEN FreeRequest(m2, x) ELSE m2
  BY DEF TakenKV, m2
<1>5. KVInv(FreeRequest(m2, x), tok2, V)
  BY <1>1, <1>3, FreeRequestInv
<1> HIDE DEF q, q2
<1>6. KVInv(TakenKV(m, x, q, q2), tok2, V)
  BY <1>3, <1>4, <1>5
<1> QED BY <1>6 DEF tok2, V, q, q2

\* The batches in flight once the oldest is taken off.
Rest == RemoveAt(inflight, 1)

\* An output that is applied or skipped is no longer due.
LEMMA RestSpec ==
    ASSUME EngineInv, inflight # <<>>, step.phase \in {"idle", "update"},
           NEW r \in Request
    PROVE  LET d == Due(inflight, r, req[r])
               q == req[r]
           IN  /\ d \in Int /\ CountIn(inflight, r) \in Nat /\ CountIn(Rest, r) \in Nat
               /\ CountIn(Rest, r) = CountIn(inflight, r)
                     - (IF r \in DOMAIN inflight[1].out THEN 1 ELSE 0)
               /\ config.async =>
                     /\ q.status \in Live => d <= q.placeholders
                     /\ q.status \in Queued => CountIn(Rest, r) = 0 \/ d <= 0
                     /\ q.status = "RUNNING" => Length(config, r, q) + d <= Len(worker[r])
<1> DEFINE d == Due(inflight, r, req[r])
           q == req[r]
           S == ToSet(inflight)
<1>1. inflight \in Seq(S) /\ Len(inflight) \in Nat
  BY DEF EngineInv, SchedulerInv, BatchInv
<1> HIDE DEF S
<1>2. /\ Rest \in Seq(S) /\ Len(Rest) = Len(inflight) - 1
      /\ \A i \in 1 .. Len(Rest) : Rest[i] = inflight[i + 1] /\ i + 1 \in 1 .. Len(inflight)
      /\ CountIn(Rest, r) = CountIn(inflight, r)
            - (IF r \in DOMAIN inflight[1].out THEN 1 ELSE 0)
  BY <1>1, CountInRemove DEF Rest
<1>3. CountIn(inflight, r) \in Nat /\ CountIn(Rest, r) \in Nat
  BY <1>1, <1>2, CountInBounds
<1>4. d \in Int
  BY <1>3 DEF Due
<1>5. ASSUME config.async
      PROVE  /\ q.status \in Live => d <= q.placeholders
             /\ q.status \in Queued => CountIn(Rest, r) = 0 \/ d <= 0
             /\ q.status = "RUNNING" => Length(config, r, q) + d <= Len(worker[r])
  <2>1. AsyncOK(config, r, q, step, inflight, worker)
    BY <1>5 DEF EngineInv, PartsOK
  <2>2. step = NoStep(step.phase)
    BY DEF EngineInv, PartsOK, StepOK
  <2>3. step.fresh = {} /\ step.preempted = {}
    BY <2>2 DEF NoStep
  <2>4. ASSUME q.status \in Queued PROVE CountIn(Rest, r) = 0 \/ d <= 0
    <3>1. CASE step.phase = "idle"
      BY <2>1, <2>3, <2>4, <3>1 DEF AsyncOK
    <3>2. CASE step.phase = "update"
      <4>1. r \notin DOMAIN inflight[Len(inflight)].out
        BY <2>1, <2>4, <3>2 DEF AsyncOK
      <4>2. Len(inflight) <= 2
        <5>1. Len(inflight) <= config.batchQueueSize /\ config.batchQueueSize <= 2
          BY <1>5 DEF EngineInv, PartsOK, InflightOK
        <5>2. config.batchQueueSize \in Nat
          BY ConfigSpec DEF EngineInv, SchedulerInv, SchedulerConfig
        <5> QED BY <1>1, <5>1, <5>2
      <4>3. ASSUME NEW i \in 1 .. Len(Rest) PROVE r \notin DOMAIN Rest[i].out
        <5>1. Rest[i] = inflight[i + 1] /\ i + 1 = Len(inflight)
          BY <1>1, <1>2, <4>2, <4>3
        <5> QED BY <4>1, <5>1
      <4>4. CountIn(Rest, r) = 0
        BY <1>2, <4>3, CountInBounds
      <4> QED BY <4>4
    <3> QED BY <3>1, <3>2
  <2>5. q.status = "RUNNING" => Length(config, r, q) + d <= Len(worker[r])
    BY <2>1, <2>3 DEF AsyncOK
  <2>6. q.status \in Live => d <= q.placeholders
    BY <2>1 DEF AsyncOK
  <2> QED BY <2>4, <2>5, <2>6
<1> HIDE DEF d, q
<1>6. /\ d \in Int /\ CountIn(inflight, r) \in Nat /\ CountIn(Rest, r) \in Nat
      /\ CountIn(Rest, r) = CountIn(inflight, r)
            - (IF r \in DOMAIN inflight[1].out THEN 1 ELSE 0)
  BY <1>2, <1>3, <1>4
<1> QED BY <1>5, <1>6 DEF d, q

\* What AsyncOK says of a request after the batch.
LEMMA AsyncRest ==
    ASSUME NEW r, NEW q,
           q.status \in Live => Due(Rest, r, q) <= q.placeholders,
           q.status \in Queued => Due(Rest, r, q) <= 0,
           q.status = "RUNNING" => Length(config, r, q) + Due(Rest, r, q) <= Len(worker[r])
    PROVE  AsyncOK(config, r, q, NoStep("idle"), Rest, worker)
<1>1. /\ NoStep("idle").phase = "idle" /\ NoStep("idle").fresh = {}
      /\ NoStep("idle").preempted = {}
  BY DEF NoStep
<1> QED BY <1>1 DEF AsyncOK

\* A request with no output in the batch, or that no longer takes one.
LEMMA SkippedAsync ==
    ASSUME EngineInv, inflight # <<>>, step.phase \in {"idle", "update"}, config.async,
           NEW r \in Request, req[r].status \in Live => r \notin DOMAIN inflight[1].out
    PROVE  AsyncOK(config, r, req[r], NoStep("idle"), Rest, worker)
<1> DEFINE d == Due(inflight, r, req[r])
           d2 == Due(Rest, r, req[r])
<1>1. /\ d \in Int /\ CountIn(inflight, r) \in Nat /\ CountIn(Rest, r) \in Nat
      /\ CountIn(Rest, r) = CountIn(inflight, r)
            - (IF r \in DOMAIN inflight[1].out THEN 1 ELSE 0)
      /\ req[r].status \in Live => d <= req[r].placeholders
      /\ req[r].status \in Queued => CountIn(Rest, r) = 0 \/ d <= 0
      /\ req[r].status = "RUNNING" => Length(config, r, req[r]) + d <= Len(worker[r])
  BY RestSpec
<1>2. req[r].status \in Live => d2 = d
  BY <1>1 DEF Due
<1>3. req[r].status \in Queued => d2 <= 0
  <2>1. CountIn(Rest, r) = 0 => d2 <= 0
    BY DEF Due
  <2>2. req[r].status \in Queued => req[r].status \in Live
    BY DEF Live
  <2> QED BY <1>1, <1>2, <2>1, <2>2
<1>4. req[r].status = "RUNNING" => req[r].status \in Live
  BY DEF Live
<1> QED BY <1>1, <1>2, <1>3, <1>4, AsyncRest

\* A request that was preempted by a reset drops its output.
LEMMA DiscardedAsync ==
    ASSUME EngineInv, inflight # <<>>, step.phase \in {"idle", "update"}, config.async,
           NEW r \in Request, r \in DOMAIN inflight[1].out,
           req[r].discard = TRUE, req[r].status \in Live, NEW q2,
           q2.output = req[r].output, q2.discard = FALSE,
           q2.placeholders = req[r].placeholders, q2.status = req[r].status
    PROVE  AsyncOK(config, r, q2, NoStep("idle"), Rest, worker)
<1> DEFINE d == Due(inflight, r, req[r])
           d2 == Due(Rest, r, q2)
<1>1. /\ d \in Int /\ CountIn(inflight, r) \in Nat /\ CountIn(Rest, r) \in Nat
      /\ CountIn(Rest, r) = CountIn(inflight, r) - 1
      /\ d <= req[r].placeholders
      /\ req[r].status \in Queued => CountIn(Rest, r) = 0 \/ d <= 0
      /\ req[r].status = "RUNNING" => Length(config, r, req[r]) + d <= Len(worker[r])
  BY RestSpec
<1>2. d2 = d
  BY <1>1 DEF Due
<1>3. req[r].status \in Queued => d2 <= 0
  <2>1. CountIn(Rest, r) = 0 => d2 <= 0
    BY DEF Due
  <2> QED BY <1>1, <1>2, <2>1
<1>4. Length(config, r, q2) = Length(config, r, req[r])
  BY DEF Length
<1> QED BY <1>1, <1>2, <1>3, <1>4, AsyncRest

\* A request takes its output: one less is due, and one token more is known.
LEMMA TakenAsync ==
    ASSUME EngineInv, inflight # <<>>, step.phase \in {"idle", "update"}, config.async,
           NEW r \in Request, r \in DOMAIN inflight[1].out,
           req[r].discard # TRUE, req[r].status \in Live, NEW q2, NEW token \in Vocabulary,
           Taken(req[r], q2, config, r, token)
    PROVE  /\ req[r].placeholders >= 1
           /\ AsyncOK(config, r, q2, NoStep("idle"), Rest, worker)
<1> DEFINE d == Due(inflight, r, req[r])
           d2 == Due(Rest, r, q2)
           N == Length(config, r, req[r])
           p == req[r].placeholders
           l == Len(worker[r])
<1>1. /\ d \in Int /\ CountIn(inflight, r) \in Nat /\ CountIn(Rest, r) \in Nat
      /\ CountIn(Rest, r) = CountIn(inflight, r) - 1
      /\ d <= p
      /\ req[r].status \in Queued => CountIn(Rest, r) = 0 \/ d <= 0
      /\ req[r].status = "RUNNING" => N + d <= l
  BY RestSpec
<1>2. ReqOK(config, r, req[r])
  BY DEF EngineInv, PartsOK
<1>3. p \in Int /\ req[r].discard = FALSE
  BY <1>2 DEF ReqOK
<1>4. r \in DOMAIN config.prompt /\ N \in Nat
  <2>1. req[r].status # "NEW"
    BY StatusesDiffer DEF Live
  <2> QED BY <2>1, SentSpec
<1>5. q2.discard = FALSE /\ q2.placeholders = p - 1 /\ q2.status \in Finished \cup {req[r].status}
  BY <1>3 DEF Taken, Async
<1>6. d = CountIn(inflight, r) /\ d2 = CountIn(Rest, r)
  BY <1>1, <1>3, <1>5 DEF Due
<1>7. p >= 1
  BY <1>1, <1>3, <1>6
<1>8. Length(config, r, q2) = N + 1
  BY <1>2, <1>4, <1>7, TakenReq
<1> HIDE DEF d, d2, N, p
<1>9. d2 = d - 1
  BY <1>1, <1>6
<1>10. d2 <= q2.placeholders
  BY <1>1, <1>3, <1>5, <1>9
<1>11. q2.status \in Queued => d2 <= 0
  <2>1. q2.status \in Queued => req[r].status \in Queued
    BY <1>5, StatusesDiffer
  <2>2. CountIn(Rest, r) = 0 => d2 <= 0
    BY <1>6
  <2>3. d <= 0 => d2 <= 0
    BY <1>1, <1>9
  <2> QED BY <1>1, <2>1, <2>2, <2>3
<1>12. q2.status = "RUNNING" => Length(config, r, q2) + d2 <= l
  <2>1. q2.status = "RUNNING" => req[r].status = "RUNNING"
    BY <1>5, StatusesDiffer
  <2>2. N + 1 + d2 = N + d
    BY <1>1, <1>4, <1>9
  <2> HIDE DEF l
  <2> QED BY <1>1, <1>8, <2>1, <2>2
<1> HIDE DEF l
<1>13. AsyncOK(config, r, q2, NoStep("idle"), Rest, worker)
  BY <1>10, <1>11, <1>12, AsyncRest DEF d2, l
<1> QED BY <1>7, <1>13 DEF p

\* The loop of update_from_output is through with the requests in S.
Settled(t, S) ==
    /\ UpdateShape(t)
    /\ KVInv(t.kv, Known(config, t.req), Alphabet(config))
    /\ t.faults \cap SchedulerFaults = {}
    /\ \A r \in Request :
          /\ ReqOK(config, r, t.req[r]) /\ Fits(config, r, t.req[r], 0, t.kv.table[r])
          /\ t.kv.table[r] # <<>> => r \in DOMAIN config.prompt
          /\ r \notin S => t.req[r] = req[r]
          /\ config.async /\ r \in S =>
                AsyncOK(config, r, t.req[r], NoStep("idle"), Rest, worker)

\* What one step of the loop leaves to check: the request it is about.
LEMMA SettledBy ==
    ASSUME NEW s, NEW S, Settled(s, S), NEW x \in Request, x \in DOMAIN config.prompt,
           NEW t, UpdateShape(t),
           \A r \in Request \ {x} : t.req[r] = s.req[r] /\ t.kv.table[r] = s.kv.table[r],
           KVInv(t.kv, Known(config, t.req), Alphabet(config)),
           t.faults \cap SchedulerFaults = {},
           ReqOK(config, x, t.req[x]), Fits(config, x, t.req[x], 0, t.kv.table[x]),
           config.async => AsyncOK(config, x, t.req[x], NoStep("idle"), Rest, worker)
    PROVE  Settled(t, S \cup {x})
<1>1. ASSUME NEW r \in Request
      PROVE  /\ ReqOK(config, r, t.req[r]) /\ Fits(config, r, t.req[r], 0, t.kv.table[r])
             /\ t.kv.table[r] # <<>> => r \in DOMAIN config.prompt
             /\ r \notin S \cup {x} => t.req[r] = req[r]
             /\ config.async /\ r \in S \cup {x} =>
                   AsyncOK(config, r, t.req[r], NoStep("idle"), Rest, worker)
  <2>1. CASE r = x
    BY <2>1
  <2>2. CASE r # x
    <3>1. t.req[r] = s.req[r] /\ t.kv.table[r] = s.kv.table[r]
      BY <2>2
    <3>2. /\ ReqOK(config, r, s.req[r]) /\ Fits(config, r, s.req[r], 0, s.kv.table[r])
          /\ s.kv.table[r] # <<>> => r \in DOMAIN config.prompt
          /\ r \notin S => s.req[r] = req[r]
          /\ config.async /\ r \in S =>
                AsyncOK(config, r, s.req[r], NoStep("idle"), Rest, worker)
      BY DEF Settled
    <3> QED BY <2>2, <3>1, <3>2
  <2> QED BY <2>1, <2>2
<1> QED BY <1>1 DEF Settled

\* One step of the loop.
LEMMA SettledStep ==
    ASSUME EngineInv, inflight # <<>>, step.phase \in {"idle", "update"},
           NEW s, NEW S, Settled(s, S), NEW x \in Request \ S, req[x].status # "NEW",
           NEW out, out = inflight[1].out, \A r \in DOMAIN out : out[r].token \in Vocabulary,
           NEW t, t = UpdateRequest(s, x, out)
    PROVE  Settled(t, S \cup {x})
<1> DEFINE q == s.req[x]
           q2 == t.req[x]
<1>1. x \in DOMAIN config.prompt /\ DOMAIN config.prompt \subseteq Request
  BY SentSpec, ConfigSpec DEF EngineInv, SchedulerInv, Prompt
<1>2. /\ UpdateShape(t)
      /\ \A r \in Request \ {x} : t.req[r] = s.req[r] /\ t.kv.table[r] = s.kv.table[r]
      /\ GoesOn(s, t, x) \/ Stops(s, t, x)
  BY UpdateRequestSpec DEF Settled
<1>3. /\ UpdateShape(s) /\ KVInv(s.kv, Known(config, s.req), Alphabet(config))
      /\ s.faults \cap SchedulerFaults = {}
      /\ \A r \in Request : s.kv.table[r] # <<>> => r \in DOMAIN config.prompt
      /\ q = req[x] /\ ReqOK(config, x, q) /\ Fits(config, x, q, 0, s.kv.table[x])
  BY DEF Settled
<1>4. OutputEffect(s, t, x, out, q, q2)
  BY <1>3, UpdateEffect
<1>5. TakesOutput(q, x, out) <=> q.status \in Live /\ x \in DOMAIN out
  BY DEF TakesOutput, Live
<1>6. DiscardsOutput(q) <=> config.async /\ q.discard
  BY DEF DiscardsOutput, Async
<1>7. CASE ~TakesOutput(q, x, out)
  <2>1. t = s /\ q2 = req[x]
    BY <1>3, <1>4, <1>7 DEF OutputEffect
  <2>2. config.async => AsyncOK(config, x, req[x], NoStep("idle"), Rest, worker)
    <3>1. req[x].status \in Live => x \notin DOMAIN inflight[1].out
      BY <1>3, <1>5, <1>7
    <3> QED BY <3>1, SkippedAsync
  <2> HIDE DEF q, q2
  <2>3. t.req[x] = req[x] /\ q = req[x]
    BY <1>3, <2>1 DEF q2
  <2> QED BY <1>1, <1>2, <1>3, <2>1, <2>2, <2>3, SettledBy
<1>8. CASE TakesOutput(q, x, out) /\ DiscardsOutput(q)
  <2>1. /\ t.kv = s.kv /\ t.faults = s.faults
        /\ q2.output = q.output /\ q2.computed = q.computed /\ q2.discard = FALSE
        /\ q2.placeholders = q.placeholders /\ q2.status = q.status
    BY <1>4, <1>8 DEF OutputEffect
  <2>2. q.status \in Live /\ x \in DOMAIN inflight[1].out /\ config.async /\ q.discard
    BY <1>5, <1>6, <1>8
  <2>3. Known(config, t.req) = Known(config, s.req)
    <3>1. \A r \in DOMAIN config.prompt : t.req[r].output = s.req[r].output
      BY <1>1, <1>2, <2>1
    <3> QED BY <3>1, KnownKept
  <2> HIDE DEF q, q2
  <2>4. Length(config, x, q2) = Length(config, x, q)
    BY <2>1 DEF Length
  <2>5. ReqOK(config, x, q2)
    BY <1>3, <2>1, <2>4 DEF ReqOK
  <2>6. Fits(config, x, q2, 0, t.kv.table[x])
    BY <1>3, <2>1, <2>4 DEF Fits
  <2>7. q.discard = TRUE
    BY <1>3, <2>2 DEF ReqOK
  <2>8. AsyncOK(config, x, q2, NoStep("idle"), Rest, worker)
    BY <1>3, <2>1, <2>2, <2>7, DiscardedAsync
  <2>9. /\ ReqOK(config, x, t.req[x]) /\ Fits(config, x, t.req[x], 0, t.kv.table[x])
        /\ config.async => AsyncOK(config, x, t.req[x], NoStep("idle"), Rest, worker)
    BY <2>5, <2>6, <2>8 DEF q2
  <2>10. KVInv(t.kv, Known(config, t.req), Alphabet(config)) /\ t.faults \cap SchedulerFaults = {}
    BY <1>3, <2>1, <2>3
  <2>11. x \in Request
    OBVIOUS
  <2> QED BY <1>1, <1>2, <2>9, <2>10, <2>11, SettledBy, ZenonT(60)
<1>9. CASE TakesOutput(q, x, out) /\ ~DiscardsOutput(q)
  <2> DEFINE token == out[x].token
  <2>1. /\ Taken(q, q2, config, x, token) /\ t.kv = TakenKV(s.kv, x, q, q2)
        /\ ~ (q2.placeholders < 0) => t.faults \subseteq s.faults \cup {"misplaced token"}
    BY <1>4, <1>9 DEF OutputEffect
  <2>2. /\ q.status \in Live /\ x \in DOMAIN inflight[1].out /\ token \in Vocabulary
        /\ config.async => q.discard # TRUE
    BY <1>5, <1>6, <1>9
  <2> HIDE DEF token
  <2>3. config.async => /\ req[x].placeholders >= 1
                        /\ AsyncOK(config, x, q2, NoStep("idle"), Rest, worker)
    BY <1>3, <2>1, <2>2, TakenAsync
  <2>4. Async => q.placeholders >= 1
    BY <1>3, <2>3 DEF Async
  <2>5. /\ ReqOK(config, x, q2)
        /\ \A b : Fits(config, x, q, 0, b) => Fits(config, x, q2, 0, b)
    <3> HIDE DEF q, q2
    <3> QED BY <1>1, <1>3, <2>1, <2>2, <2>4, TakenReq
  <2>6. KVInv(t.kv, Known(config, t.req), Alphabet(config))
    <3>1. KVInv(TakenKV(s.kv, x, q, q2), Known(config, t.req), Alphabet(config))
      BY <1>1, <1>2, <1>3, <2>1, <2>2, <2>4, TakenKVInv
    <3> QED BY <2>1, <3>1
  <2>7. Fits(config, x, q2, 0, t.kv.table[x])
    <3>1. CASE GoesOn(s, t, x)
      BY <1>3, <2>5, <3>1 DEF GoesOn
    <3>2. CASE Stops(s, t, x)
      <4>1. q2.status # "RUNNING"
        BY <3>2, StatusesDiffer DEF Stops
      <4> QED BY <4>1 DEF Fits
    <3> QED BY <1>2, <3>1, <3>2
  <2>8. t.faults \cap SchedulerFaults = {}
    <3>1. ~ (q2.placeholders < 0)
      <4>1. q2.placeholders = IF Async THEN q.placeholders - 1 ELSE q.placeholders
        BY <2>1 DEF Taken
      <4>2. q.placeholders \in Int /\ (~Async => q.placeholders = 0)
        BY <1>3 DEF ReqOK, Async
      <4> HIDE DEF q, q2
      <4>3. CASE Async
        <5>1. q2.placeholders = q.placeholders - 1 /\ q.placeholders >= 1
          BY <2>4, <4>1, <4>3
        <5> QED BY <4>2, <5>1
      <4>4. CASE ~Async
        <5>1. q2.placeholders = 0
          BY <4>1, <4>2, <4>4
        <5> QED BY <5>1
      <4> QED BY <4>3, <4>4
    <3>2. "misplaced token" \notin SchedulerFaults
      BY DEF SchedulerFaults
    <3> QED BY <1>3, <2>1, <3>1, <3>2
  <2> HIDE DEF q, q2
  <2>9. /\ ReqOK(config, x, t.req[x]) /\ Fits(config, x, t.req[x], 0, t.kv.table[x])
        /\ config.async => AsyncOK(config, x, t.req[x], NoStep("idle"), Rest, worker)
    BY <2>3, <2>5, <2>7 DEF q2
  <2>10. x \in Request
    OBVIOUS
  <2> QED BY <1>1, <1>2, <2>6, <2>8, <2>9, <2>10, SettledBy, ZenonT(60)
<1> QED BY <1>7, <1>8, <1>9

\* The loop begins.
LEMMA SettledStart ==
    ASSUME EngineInv, step.phase \in {"idle", "update"},
           NEW s, s = [req |-> req, kv |-> kv, faults |-> faults, stopped |-> {}]
    PROVE  UpdateShape(s) /\ Settled(s, {})
<1>1. UpdateShape(s)
  BY DEF UpdateShape, EngineInv, SchedulerInv, ReqInv
<1>2. step = NoStep(step.phase)
  BY DEF EngineInv, PartsOK, StepOK
<1>3. \A r \in Request : step.num[r] = 0
  BY <1>2 DEF NoStep
<1>4. \A r \in Request : ReqOK(config, r, req[r]) /\ Fits(config, r, req[r], 0, kv.table[r])
  BY <1>3 DEF EngineInv, PartsOK
<1>5. \A r \in Request : kv.table[r] # <<>> => r \in DOMAIN config.prompt
  <2>1. \A r \in Request : kv.table[r] # <<>> => req[r].status = "RUNNING"
    BY DEF EngineInv, SchedulerInv, Placed
  <2> QED BY <2>1, SentSpec
<1>6. s.req = req /\ s.kv = kv /\ s.faults = faults
  OBVIOUS
<1>7. /\ KVInv(kv, Known(config, req), Alphabet(config)) /\ faults \cap SchedulerFaults = {}
  BY DEF EngineInv, PartsOK
<1> QED BY <1>1, <1>4, <1>5, <1>6, <1>7 DEF Settled

\* The whole loop, by induction over the batch.
LEMMA SettledAll ==
    ASSUME EngineInv, inflight # <<>>, step.phase \in {"idle", "update"},
           NEW s, s = [req |-> req, kv |-> kv, faults |-> faults, stopped |-> {}],
           NEW batch, batch = inflight[1]
    PROVE  /\ UpdateShape(s) /\ batch.order \in Seq(Request)
           /\ Settled(UpdateRequests(s, batch.order, batch.out), ToSet(batch.order))
<1> DEFINE order == batch.order
           out == batch.out
           n == Len(order)
           done(i) == {order[k] : k \in 1 .. i}
<1>1. /\ order \in Seq(Request) /\ BatchOK(batch, req)
  <2>1. inflight \in Seq(ToSet(inflight)) /\ Len(inflight) \in Nat
        /\ \A b \in ToSet(inflight) : b.order \in Seq(Request)
    BY DEF EngineInv, SchedulerInv, BatchInv
  <2> DEFINE B == ToSet(inflight)
  <2> HIDE DEF B
  <2>2. 1 \in 1 .. Len(inflight) /\ inflight[1] \in B
    BY <2>1 DEF B
  <2> QED BY <2>1, <2>2 DEF EngineInv, PartsOK, InflightOK, B
<1>2. PICK run : Updates(run, s, order, out) /\ UpdateRequests(s, order, out) = run[n]
  BY <1>1, UpdatesExists
<1>3. n \in Nat /\ \A i \in 1 .. n : order[i] \in Request
  BY <1>1
<1>4. /\ \A i, j \in 1 .. n : order[i] = order[j] => i = j
      /\ \A i \in 1 .. n : req[order[i]].status # "NEW"
      /\ \A r \in DOMAIN out : out[r].token \in Vocabulary
  <2>1. DOMAIN order = 1 .. n
    BY <1>1
  <2>2. \A i \in 1 .. n : order[i] \in ToSet(order)
    BY <1>1, ToSetSpec
  <2> QED BY <1>1, <2>1, <2>2 DEF BatchOK, IsInjective
<1>5. UpdateShape(s)
  BY SettledStart
<1>6. Settled(s, {})
  BY SettledStart
<1> HIDE DEF order, out, n
<1> DEFINE G == {i \in Nat : i <= n => Settled(run[i], done(i))}
<1>7. 0 \in G
  <2>1. run[0] = s /\ done(0) = {}
    BY <1>2 DEF Updates
  <2> HIDE DEF done
  <2>2. Settled(run[0], done(0))
    BY <1>6, <2>1
  <2> QED BY <2>2
<1>8. ASSUME NEW i \in Nat, i \in G PROVE i + 1 \in G
  <2> SUFFICES ASSUME i + 1 <= n PROVE Settled(run[i + 1], done(i + 1))
    OBVIOUS
  <2> DEFINE x == order[i + 1]
             d == done(i)
  <2>1. Settled(run[i], d) /\ i + 1 \in 1 .. n /\ \A k \in 1 .. i : k \in 1 .. n /\ k # i + 1
    BY <1>3, <1>8
  <2>2. x \in Request /\ x \notin d /\ req[x].status # "NEW"
    BY <1>3, <1>4, <2>1
  <2>3. done(i + 1) = d \cup {x}
    <3>1. \A k : k \in 1 .. i + 1 <=> k \in 1 .. i \/ k = i + 1
      OBVIOUS
    <3> QED BY <3>1
  <2>4. run[i + 1] = UpdateRequest(run[i], x, out)
    <3>1. Len(order) = n
      BY DEF n
    <3>2. (i + 1) - 1 = i
      OBVIOUS
    <3> QED BY <1>2, <2>1, <3>1, <3>2 DEF Updates
  <2> HIDE DEF done, d, x
  <2>5. Settled(run[i + 1], d \cup {x})
    BY <1>4, <2>1, <2>2, <2>4, SettledStep DEF out
  <2> QED BY <2>3, <2>5
<1> HIDE DEF G
<1>9. Nat \subseteq G
  BY <1>7, <1>8, SetInduction
<1>10. Settled(run[n], done(n))
  <2>1. n \in Nat /\ n <= n
    BY <1>3
  <2> QED BY <1>9, <2>1 DEF G
<1>11. done(n) = ToSet(order)
  BY <1>1, ToSetSpec DEF order, n
<1> QED BY <1>1, <1>2, <1>5, <1>10, <1>11 DEF order, out

\* The batches that stay in flight.
LEMMA RestInflight ==
    ASSUME EngineInv, inflight # <<>>, NEW rq,
           \A r \in Request : rq[r].status = "NEW" => req[r].status = "NEW"
    PROVE  InflightOK(config, rq, NoStep("idle"), Rest)
<1> DEFINE B == ToSet(inflight)
<1>1. /\ inflight \in Seq(B) /\ \A b \in B : b.order \in Seq(Request)
      /\ InflightOK(config, req, step, inflight)
  BY DEF EngineInv, PartsOK, SchedulerInv, BatchInv
<1> HIDE DEF B
<1>2. /\ Rest \in Seq(B) /\ Len(Rest) = Len(inflight) - 1
      /\ \A i \in 1 .. Len(Rest) : Rest[i] = inflight[i + 1] /\ i + 1 \in 1 .. Len(inflight)
  BY <1>1, CountInRemove DEF Rest
<1>3. Len(Rest) < config.batchQueueSize
  <2>1. Len(inflight) \in Nat /\ Len(inflight) <= config.batchQueueSize
    BY <1>1 DEF InflightOK
  <2>2. config.batchQueueSize \in Nat
    BY ConfigSpec DEF EngineInv, SchedulerInv, SchedulerConfig
  <2> QED BY <1>2, <2>1, <2>2
<1>4. ASSUME NEW i \in 1 .. Len(Rest) PROVE BatchOK(Rest[i], rq)
  <2> DEFINE b == inflight[i + 1]
  <2>1. Rest[i] = b /\ BatchOK(b, req) /\ b \in B
    BY <1>1, <1>2 DEF InflightOK
  <2> HIDE DEF b
  <2>2. ToSet(b.order) \subseteq Request
    BY <1>1, <2>1, ToSetSpec
  <2> QED BY <2>1, <2>2 DEF BatchOK
<1>5. Len(Rest) <= config.batchQueueSize
  <2>1. Len(Rest) \in Nat /\ config.batchQueueSize \in Nat
    BY <1>2, ConfigSpec DEF EngineInv, SchedulerInv, SchedulerConfig
  <2> QED BY <1>3, <2>1
<1> QED BY <1>3, <1>4, <1>5 DEF InflightOK

\* The oldest batch is applied.
LEMMA UpdateFromOutputParts ==
    ASSUME EngineInv, UpdateFromOutput
    PROVE  PartsOK(config, req', running', kv', step', inflight', worker', faults')
<1> DEFINE s     == [req |-> req, kv |-> kv, faults |-> faults, stopped |-> {}]
           batch == inflight[1]
           t     == UpdateRequests(s, batch.order, batch.out)
           S     == ToSet(batch.order)
<1>1. /\ inflight # <<>> /\ step.phase \in {"idle", "update"} /\ UNCHANGED worker
      /\ req' = t.req /\ kv' = t.kv /\ faults' = t.faults
      /\ running' = RemoveRequests(running, t.stopped)
      /\ inflight' = Rest /\ step' = NoStep("idle")
  BY DEF UpdateFromOutput, AwaitedBatch, RemoveStopped, Rest
<1>2. s = [req |-> req, kv |-> kv, faults |-> faults, stopped |-> {}]
      /\ s.stopped = {} /\ s.req = req
  OBVIOUS
<1>3. batch = inflight[1]
  OBVIOUS
<1> HIDE DEF s, batch
<1>4. UpdateShape(s) /\ batch.order \in Seq(Request) /\ Settled(t, S)
  BY <1>1, <1>2, <1>3, SettledAll
<1>5. Applied(s, t)
  BY <1>2, <1>4, UpdateRequestsSpec
<1> HIDE DEF t, S
<1>6. \A r \in Request : req'[r].status = "NEW" => req[r].status = "NEW"
  BY <1>1, <1>2, <1>5, StatusesDiffer DEF Applied
<1>7. InflightOK(config, req', step', inflight')
  BY <1>1, <1>6, RestInflight
<1>8. /\ KVInv(kv', Known(config, req'), Alphabet(config))
      /\ faults' \cap SchedulerFaults = {}
      /\ \A r \in Request : ReqOK(config, r, req'[r])
      /\ \A r \in Request : Fits(config, r, req'[r], 0, kv'.table[r])
  BY <1>1, <1>4 DEF Settled
<1>9. \A r \in Request : step'.num[r] = 0
  BY <1>1 DEF NoStep
<1>10. StepOK(config, req', step', running')
  BY <1>1, LenRemoved, NoStepOK
<1>11. ASSUME config.async, NEW r \in Request
       PROVE  AsyncOK(config, r, req'[r], NoStep("idle"), Rest, worker)
  <2>1. CASE r \in S
    BY <1>1, <1>4, <1>11, <2>1 DEF Settled
  <2>2. CASE r \notin S
    <3>1. r \notin DOMAIN inflight[1].out
      <4> DEFINE B == ToSet(inflight)
      <4>1. inflight \in Seq(B)
        BY DEF EngineInv, SchedulerInv, BatchInv
      <4> HIDE DEF B
      <4>2. 1 \in 1 .. Len(inflight)
        BY <1>1, <4>1
      <4>3. BatchOK(batch, req)
        BY <1>3, <4>2 DEF EngineInv, PartsOK, InflightOK
      <4> QED BY <1>3, <2>2, <4>3 DEF BatchOK, S
    <3>2. req'[r] = req[r]
      BY <1>1, <1>4, <2>2 DEF Settled
    <3> QED BY <1>1, <1>11, <3>1, <3>2, SkippedAsync
  <2> QED BY <2>1, <2>2
<1>12. /\ config.async => config.batchQueueSize <= 2
       /\ worker' \in [Request -> Seq(Alphabet(config))]
  BY <1>1 DEF EngineInv, PartsOK
<1>13. /\ \A r \in Request : Fits(config, r, req'[r], step'.num[r], kv'.table[r])
       /\ config.async => \A r \in Request : AsyncOK(config, r, req'[r], step', inflight', worker')
  BY <1>1, <1>8, <1>9, <1>11
<1> QED BY <1>7, <1>8, <1>10, <1>12, <1>13 DEF PartsOK

-----------------------------------------------------------------------------
(* The cache: the theorems                                                  *)

\* max_concurrent_batches is at most 2 under async scheduling, the value of
\* both executors without pipeline parallelism.
AsyncQueue == Async => BatchQueueSize <= 2

\* The prefix of a cached block is cached: the block is in a table, whose
\* earlier blocks are published too, or it is free and its prefix outlives it.
LEMMA PrefixCached ==
    ASSUME NEW m, NEW tok, NEW V, KVInv(m, tok, V),
           NEW h \in DOMAIN m.cache, Len(h) > BlockSize
    PROVE  Prefix(h) \in DOMAIN m.cache
<1>1. /\ KVTypes(m) /\ Counted(m) /\ Indexed(m.hash, m.cache)
      /\ Published(m, tok, V) /\ Outlived(m)
  BY DEF KVInv
<1>2. PICK b \in Block : m.hash[b] = h /\ h # NoHash
  BY <1>1, IndexedKey DEF KVTypes
<1>3. b # NullBlock
  BY <1>1, <1>2 DEF KVTypes
<1>4. CASE m.ref[b] = 0
  <2>1. PICK c \in Block : OutlivedBy(m, b, c)
    BY <1>1, <1>2, <1>3, <1>4 DEF Outlived
  <2>2. m.hash[c] = Prefix(h) /\ m.hash[c] # NoHash
    BY <1>2, <2>1 DEF OutlivedBy
  <2> QED BY <1>1, <2>2 DEF Indexed
<1>5. CASE m.ref[b] # 0
  <2>1. PICK r \in Request : b \in ToSet(m.table[r])
    <3>1. IsFiniteSet(Holders(m, b)) /\ m.ref[b] = Cardinality(Holders(m, b))
      BY <1>1, <1>3 DEF Counted
    <3>2. Holders(m, b) # {}
      BY <1>5, <3>1, FS_EmptySet
    <3> QED BY <3>2 DEF Holders
  <2>2. m.table[r] \in Seq(Block \ {NullBlock}) /\ m.cached[r] \in Nat \cup {NotCached}
    BY <1>1 DEF KVTypes
  <2>3. PICK i \in 1 .. Len(m.table[r]) : m.table[r][i] = b
    BY <2>1, <2>2, ToSetSpec
  <2>4. /\ i \in Nat \ {0} /\ i - 1 \in Nat /\ m.table[r] # <<>> /\ Done(m, r) \in Nat
    BY <2>2, <2>3 DEF Done
  <2>5. PublishedOf(m, tok, V, r) /\ tok[r] \in Seq(V)
    BY <1>1, <2>4 DEF Published, PublishedOf
  <2>6. i <= Done(m, r)
    <3>1. ~ (i > Done(m, r))
      BY <1>2, <2>3, <2>5 DEF PublishedOf
    <3> QED BY <2>4, <3>1
  <2>7. i * BlockSize <= Len(tok[r]) /\ h = BlockHash(tok[r], i)
    BY <1>2, <2>3, <2>5, <2>6 DEF PublishedOf
  <2>8. i # 1 /\ Prefix(h) = BlockHash(tok[r], i - 1)
    BY <2>4, <2>5, <2>7, BlockHashSpec
  <2>9. i - 1 \in 1 .. Len(m.table[r]) /\ i - 1 <= Done(m, r) /\ i - 1 # 0
    BY <2>2, <2>3, <2>4, <2>6, <2>8
  <2> DEFINE c == m.table[r][i - 1]
  <2>10. m.hash[c] = Prefix(h) /\ c \in Block
    BY <2>2, <2>5, <2>8, <2>9 DEF PublishedOf
  <2>11. Prefix(h) # NoHash
    <3>1. (i - 1) * BlockSize <= Len(tok[r])
      <4> DEFINE l == Len(tok[r])
      <4>1. l \in Nat
        BY <2>5
      <4> HIDE DEF l
      <4>2. (i - 1) * BlockSize = i * BlockSize - BlockSize
            /\ i * BlockSize \in Nat /\ BlockSize \in Nat
        BY <2>4, BlockTimes
      <4> QED BY <2>7, <4>1, <4>2 DEF l
    <3> QED BY <2>4, <2>5, <2>8, <2>9, <3>1, BlockHashSpec
  <2> HIDE DEF c
  <2> QED BY <1>1, <2>10, <2>11 DEF Indexed
<1> QED BY <1>4, <1>5

\* The inductive invariant holds at the start ...
LEMMA EngineInit ==
    ASSUME Init, AsyncQueue
    PROVE  EngineInv
  BY InitInv, InitParts DEF EngineInv, AsyncQueue, Async, BatchQueueSize

\* ... every step keeps it ...
LEMMA EngineNext ==
    ASSUME EngineInv, [Next]_vars
    PROVE  EngineInv'
<1>1. SchedulerInv'
  BY SchedulerStep, SchedulerStutter DEF EngineInv
<1>2. PartsOK(config, req', running', kv', step', inflight', worker', faults')
  <2>1. CASE EngineStep
    BY <2>1, BeginScheduleParts, SkipRunningParts, ScheduleRunningParts, PreemptRunningParts,
       EndRunningParts, ScheduleWaitingParts, FinishScheduleParts, UpdateFromOutputParts
       DEF EngineStep
  <2>2. CASE ClientCall
    BY <2>2, AddRequestParts, AbortRequestParts, ResetCacheParts, PauseSchedulerParts,
       PauseAbortParts DEF ClientCall
  <2>3. CASE IdleCallback \/ ResumeScheduler
    BY <2>3, IdleCallbackParts
  <2>4. CASE UNCHANGED vars
    BY <2>4, IdleParts_Same DEF vars
  <2> QED BY <2>1, <2>2, <2>3, <2>4 DEF Next
<1>3. config' = config
  BY DEF Next, vars, EngineStep, ClientCall, BeginSchedule, SkipRunning, ScheduleRunning,
         PreemptRunning, EndRunning, ScheduleWaiting, FinishSchedule, UpdateFromOutput,
         AddRequest, AbortRequest, ResetCache, PauseScheduler, PauseAbort, IdleCallback,
         ResumeScheduler
<1> QED BY <1>1, <1>2, <1>3 DEF EngineInv

\* ... and it implies both properties.
LEMMA EngineConsistent ==
    ASSUME EngineInv
    PROVE  CacheConsistent /\ NoStepRaises
<1>1. /\ SchedulerInv /\ KVTypes(kv) /\ Counted(kv) /\ Indexed(kv.hash, kv.cache)
      /\ KVInv(kv, Known(config, req), Alphabet(config))
  BY DEF EngineInv, PartsOK, KVInv
<1>2. TypeOK
  <2>1. ASSUME NEW r \in Request
        PROVE  /\ req[r].status \in Status /\ req[r].computed \in 0 .. MaxModelLen
               /\ req[r].output \in Seq(Vocabulary) /\ kv.table[r] \in Seq(Block)
    <3>1. ReqOK(config, r, req[r])
      BY DEF EngineInv, PartsOK
    <3>2. req[r].computed \in 0 .. MaxModelLen
      BY <3>1, KVCacheAssumption DEF ReqOK
    <3>3. kv.table[r] \in Seq(Block)
      <4>1. kv.table[r] \in Seq(Block \ {NullBlock})
        BY <1>1 DEF KVTypes
      <4> QED BY <4>1
    <3> QED BY <1>1, <3>1, <3>2, <3>3 DEF ReqOK, SchedulerInv, ReqInv, ReqShape
  <2>2. step.budget \in 0 .. MaxNumScheduledTokens
    BY OwnedBounds DEF EngineInv, PartsOK, StepOK
  <2>3. Len(inflight) <= BatchQueueSize
    BY DEF EngineInv, PartsOK, InflightOK, BatchQueueSize
  <2>4. waiting \in Seq(Request) /\ running \in Seq(Request) /\ kv.ref \in [Block -> Nat]
    BY <1>1 DEF SchedulerInv, Placed, KVTypes
  <2> QED BY <2>1, <2>2, <2>3, <2>4 DEF TypeOK
<1>3. BlockAccounting
  BY <1>1 DEF Counted, Holders, BlockAccounting
<1>4. CacheIndexExact
  BY <1>1 DEF Indexed, CacheIndexExact
<1>5. CachePrefixClosed
  BY <1>1, PrefixCached DEF Prefix, CachePrefixClosed
<1>6. NoStepRaises
  BY <1>1 DEF NoStepRaises, NoAssertFails, NoSchedulerAssertFails, KVTypes, EngineInv, PartsOK,
              SchedulerFaults
<1> QED BY <1>2, <1>3, <1>4, <1>5, <1>6 DEF CacheConsistent

\* Types, reference counts, block tables, free queue, hash index and eviction
\* order are consistent at every point of the engine loop, also in the middle
\* of schedule() and whatever is preempted, aborted or reset
\* (kv_cache_manager.py, block_pool.py; scheduler.py: schedule,
\* _preempt_request, update_from_output, reset_prefix_cache).
THEOREM CacheStaysConsistent == Spec /\ AsyncQueue => []CacheConsistent
<1>1. Init /\ AsyncQueue => EngineInv
  BY EngineInit
<1>2. EngineInv /\ [Next]_vars => EngineInv'
  BY EngineNext
<1>3. EngineInv => CacheConsistent
  BY EngineConsistent
<1> QED BY <1>1, <1>2, <1>3, PTL DEF Spec

\* No assert and no raise fires: get_new_blocks is never asked for more than
\* is free, no block is hashed twice, the budget and the number of running
\* requests are kept (the asserts at the end of schedule()), a reset that
\* preempts finds every block free, and num_output_placeholders of the async
\* scheduler never goes below zero (AsyncScheduler._update_request_with_output).
THEOREM NoStepFails == Spec /\ AsyncQueue => []NoStepRaises
<1>1. Init /\ AsyncQueue => EngineInv
  BY EngineInit
<1>2. EngineInv /\ [Next]_vars => EngineInv'
  BY EngineNext
<1>3. EngineInv => NoStepRaises
  BY EngineConsistent
<1> QED BY <1>1, <1>2, <1>3, PTL DEF Spec

-----------------------------------------------------------------------------
(* The order of the outputs                                                 *)

\* No reset finds a token in flight, and a request that is preempted with a
\* token in flight gets it before it is resumed.
OrderedQueue ==
    /\ BatchQueueSize <= 2
    /\ MaxAdmin = 0 \/ (~Async /\ BatchQueueSize = 1)

\* The outputs of r in these batches, appended one after the other, lead from
\* the tokens K to the tokens last.
Chain(K, batches, r, last) ==
    \E f : /\ f[0] = K /\ f[Len(batches)] = last
           /\ \A i \in 1 .. Len(batches) :
                 LET out == batches[i].out
                 IN  IF r \in DOMAIN out
                     THEN out[r].after = f[i - 1] /\ f[i] = Append(f[i - 1], out[r].token)
                     ELSE f[i] = f[i - 1]

LEMMA ChainNone ==
    ASSUME NEW S, NEW batches \in Seq(S), NEW r, CountIn(batches, r) = 0, NEW K
    PROVE  Chain(K, batches, r, K)
<1> DEFINE n == Len(batches)
           f == [i \in 0 .. n |-> K]
<1>1. n \in Nat /\ \A i \in 1 .. n : r \notin DOMAIN batches[i].out
  BY CountInBounds
<1>2. f[0] = K /\ f[n] = K /\ \A i \in 1 .. n : f[i] = K /\ f[i - 1] = K
  BY <1>1
<1> HIDE DEF f
<1> QED BY <1>1, <1>2 DEF Chain

LEMMA ChainAppend ==
    ASSUME NEW S, NEW batches \in Seq(S), NEW b \in S, NEW r, NEW K, NEW last,
           Chain(K, batches, r, last), r \in DOMAIN b.out => b.out[r].after = last
    PROVE  Chain(K, Append(batches, b), r,
                 IF r \in DOMAIN b.out THEN Append(last, b.out[r].token) ELSE last)
<1> DEFINE n == Len(batches)
           t == Append(batches, b)
           new == IF r \in DOMAIN b.out THEN Append(last, b.out[r].token) ELSE last
           Link(f, s, i) == IF r \in DOMAIN s[i].out
                            THEN /\ s[i].out[r].after = f[i - 1]
                                 /\ f[i] = Append(f[i - 1], s[i].out[r].token)
                            ELSE f[i] = f[i - 1]
<1>1. PICK f : f[0] = K /\ f[n] = last /\ \A i \in 1 .. n : Link(f, batches, i)
  BY DEF Chain
<1>2. /\ n \in Nat /\ Len(t) = n + 1 /\ t[n + 1] = b
      /\ \A i \in 1 .. n : t[i] = batches[i]
  BY AppendProperties
<1> HIDE DEF t, n
<1> DEFINE g == [i \in 0 .. n + 1 |-> IF i = n + 1 THEN new ELSE f[i]]
<1>3. /\ g[0] = K /\ g[n] = last /\ g[n + 1] = new
      /\ \A i \in 1 .. n : g[i] = f[i] /\ g[i - 1] = f[i - 1]
  <2>1. 0 \in 0 .. n + 1 /\ n \in 0 .. n + 1 /\ n + 1 \in 0 .. n + 1 /\ 0 # n + 1 /\ n # n + 1
    BY <1>2
  <2>2. \A i \in 1 .. n : /\ i \in 0 .. n + 1 /\ i - 1 \in 0 .. n + 1
                          /\ i # n + 1 /\ i - 1 # n + 1
    BY <1>2
  <2> HIDE DEF new
  <2> QED BY <1>1, <2>1, <2>2
<1> HIDE DEF g
<1>4. ASSUME NEW i \in 1 .. n + 1 PROVE Link(g, t, i)
  <2>1. CASE i \in 1 .. n
    BY <1>1, <1>2, <1>3, <2>1
  <2>2. CASE i = n + 1
    <3>1. i - 1 = n /\ t[i] = b /\ g[i] = new /\ g[i - 1] = last
      BY <1>2, <1>3, <2>2
    <3> QED BY <3>1
  <2>3. i \in 1 .. n \/ i = n + 1
    BY <1>2
  <2> QED BY <2>1, <2>2, <2>3
<1> HIDE DEF new
<1>5. Chain(K, t, r, new)
  <2>1. g[Len(t)] = new /\ \A i \in 1 .. Len(t) : Link(g, t, i)
    BY <1>2, <1>3, <1>4
  <2>2. \E h : /\ h[0] = K /\ h[Len(t)] = new
               /\ \A i \in 1 .. Len(t) : Link(h, t, i)
    <3> HIDE DEF Link
    <3> QED BY <1>3, <2>1, Zenon
  <2> QED BY <2>2, Zenon DEF Chain
<1> QED BY <1>5 DEF t, new

LEMMA ChainRemove ==
    ASSUME NEW S, NEW batches \in Seq(S), batches # <<>>, NEW r, NEW K, NEW last,
           Chain(K, batches, r, last), NEW out, out = batches[1].out
    PROVE  /\ r \in DOMAIN out =>
                 /\ out[r].after = K
                 /\ Chain(Append(K, out[r].token), RemoveAt(batches, 1), r, last)
           /\ r \notin DOMAIN out => Chain(K, RemoveAt(batches, 1), r, last)
<1> DEFINE n == Len(batches)
           t == RemoveAt(batches, 1)
           Link(f, s, i) == IF r \in DOMAIN s[i].out
                            THEN /\ s[i].out[r].after = f[i - 1]
                                 /\ f[i] = Append(f[i - 1], s[i].out[r].token)
                            ELSE f[i] = f[i - 1]
<1>1. PICK f : f[0] = K /\ f[n] = last /\ \A i \in 1 .. n : Link(f, batches, i)
  BY DEF Chain
<1>2. /\ t \in Seq(S) /\ Len(t) = n - 1
      /\ \A i \in 1 .. Len(t) : t[i] = batches[i + 1] /\ i + 1 \in 1 .. n
  BY CountInRemove
<1>3. n \in Nat \ {0}
  OBVIOUS
<1> HIDE DEF t, n
<1> DEFINE g == [i \in 0 .. n - 1 |-> f[i + 1]]
<1>4. /\ g[0] = f[1] /\ g[n - 1] = last
      /\ \A i \in 1 .. n - 1 : g[i] = f[i + 1] /\ g[i - 1] = f[i]
  <2>1. /\ 0 \in 0 .. n - 1 /\ n - 1 \in 0 .. n - 1 /\ (n - 1) + 1 = n /\ 0 + 1 = 1
        /\ \A i \in 1 .. n - 1 : i \in 0 .. n - 1 /\ i - 1 \in 0 .. n - 1 /\ (i - 1) + 1 = i
    BY <1>3
  <2> QED BY <1>1, <2>1
<1> HIDE DEF g
<1>5. ASSUME NEW i \in 1 .. n - 1 PROVE Link(g, t, i)
  <2>1. t[i] = batches[i + 1] /\ i + 1 \in 1 .. n /\ (i + 1) - 1 = i
    BY <1>2, <1>3
  <2>2. Link(f, batches, i + 1)
    BY <1>1, <2>1
  <2> QED BY <1>4, <2>1, <2>2
<1>6. Chain(f[1], t, r, last)
  BY <1>2, <1>4, <1>5 DEF Chain
<1>7. Link(f, batches, 1) /\ 1 - 1 = 0
  BY <1>1, <1>3
<1> QED BY <1>1, <1>6, <1>7 DEF t

-----------------------------------------------------------------------------
(* The invariant                                                            *)

\* What the batches in flight hold for a request that is to run on: outputs
\* that follow its tokens in this order.  The worker has the tokens of a
\* running request with these outputs; the async scheduler has a placeholder
\* for each.  Without async scheduling a request has one output in flight and
\* is not scheduled meanwhile.
OrderOK(c, r, q, st, batches, w) ==
    LET K == c.prompt[r] \o q.output
        n == CountIn(batches, r)
    IN  /\ c.maxAdmin = 0 => q.discard = FALSE
        /\ q.status \in Live =>
              /\ c.async => q.placeholders = n
              /\ ~c.async => n <= 1
              /\ ~c.async /\ n # 0 /\ q.status = "RUNNING" => Length(c, r, q) <= q.computed
        /\ q.status \in Queued =>
              /\ \E last : Chain(K, batches, r, last)
              /\ IF st.phase = "update" THEN r \notin DOMAIN batches[Len(batches)].out
                 ELSE r \in st.preempted \/ n = 0
        /\ q.status = "RUNNING" =>
              IF r \in st.fresh THEN n = 0
              ELSE Chain(K, batches, r, w[r]) /\ Len(w[r]) = Length(c, r, q) + n

\* The parts of the state OrderOK is about, and those that make a reset.
OrderParts(c, rq, st, batches, w, fs, ad, cb) ==
    /\ c.batchQueueSize <= 2
    /\ c.maxAdmin = 0 \/ (~c.async /\ c.batchQueueSize = 1)
    /\ ad \in Nat /\ (c.maxAdmin = 0 => cb = FALSE)
    /\ "misplaced token" \notin fs
    /\ \A r \in Request : OrderOK(c, r, rq[r], st, batches, w)

OrderInv == EngineInv /\ OrderParts(config, req, step, inflight, worker, faults, admin, callback)

LEMMA OrderInit ==
    ASSUME Init, OrderedQueue
    PROVE  OrderParts(config, req, step, inflight, worker, faults, admin, callback)
<1>1. /\ config.batchQueueSize <= 2
      /\ config.maxAdmin = 0 \/ (~config.async /\ config.batchQueueSize = 1)
  BY DEF OrderedQueue, BatchQueueSize, MaxAdmin, Async
<1>2. admin \in Nat /\ callback = FALSE /\ "misplaced token" \notin faults
  BY DEF Init
<1>3. ASSUME NEW r \in Request PROVE OrderOK(config, r, req[r], step, inflight, worker)
  <2>1. req[r].status = "NEW" /\ req[r].discard = FALSE
    BY DEF Init, NewRequest
  <2> QED BY <2>1, StatusesDiffer DEF OrderOK, Live
<1> QED BY <1>1, <1>2, <1>3 DEF OrderParts

\* A request that has not been sent or is finished.
LEMMA OrderOver ==
    ASSUME NEW c, NEW r, NEW q, NEW st, NEW batches, NEW w, q.status \notin Live,
           c.maxAdmin = 0 => q.discard = FALSE
    PROVE  OrderOK(c, r, q, st, batches, w)
  BY DEF OrderOK, Live

\* A request that waits with no output in flight.
LEMMA OrderQueued ==
    ASSUME NEW c, NEW r, NEW q, NEW st, NEW S, NEW batches \in Seq(S), NEW w,
           q.status \in Queued, CountIn(batches, r) = 0, st.phase # "update",
           c.async => q.placeholders = 0, c.maxAdmin = 0 => q.discard = FALSE
    PROVE  OrderOK(c, r, q, st, batches, w)
<1>1. q.status # "RUNNING" /\ q.status \in Live
  BY StatusesDiffer DEF Live
<1>2. \E last : Chain(c.prompt[r] \o q.output, batches, r, last)
  BY ChainNone
<1>3. CountIn(batches, r) <= 1
  OBVIOUS
<1> QED BY <1>1, <1>2, <1>3 DEF OrderOK

-----------------------------------------------------------------------------
(* The order: the client's calls and schedule()                             *)

\* The parts of OrderInv, of one request.
LEMMA OrderSpec ==
    ASSUME OrderInv
    PROVE  /\ EngineInv
           /\ config.batchQueueSize <= 2
           /\ config.maxAdmin = 0 \/ (~config.async /\ config.batchQueueSize = 1)
           /\ admin \in Nat /\ (config.maxAdmin = 0 => callback = FALSE)
           /\ "misplaced token" \notin faults
           /\ \A r \in Request : OrderOK(config, r, req[r], step, inflight, worker)
           /\ inflight \in Seq(ToSet(inflight))
           /\ \A r \in Request : ReqOK(config, r, req[r])
  BY DEF OrderInv, OrderParts, EngineInv, SchedulerInv, BatchInv, PartsOK

\* A step of schedule() that leaves a request and the batches alone.
LEMMA OrderSame ==
    ASSUME NEW c, NEW r, NEW q, NEW st, NEW st2, NEW batches, NEW w,
           OrderOK(c, r, q, st, batches, w), st.phase # "update", st2.phase # "update",
           r \in st2.fresh <=> r \in st.fresh, r \in st.preempted => r \in st2.preempted
    PROVE  OrderOK(c, r, q, st2, batches, w)
  BY DEF OrderOK

\* A request is sent.
LEMMA AddRequestOrder ==
    ASSUME OrderInv, NEW r \in Request, AddRequest(r)
    PROVE  OrderParts(config, req', step', inflight', worker', faults', admin', callback')
<1>1. /\ step.phase = "idle" /\ r \in DOMAIN config.prompt /\ req[r].status = "NEW"
      /\ UNCHANGED <<step, inflight, worker, faults, admin, callback>>
  BY DEF AddRequest, Prompt
<1>2. /\ req'[r].status = "WAITING" /\ req'[r].placeholders = req[r].placeholders
      /\ req'[r].discard = req[r].discard
      /\ \A q \in Request \ {r} : req'[q] = req[q]
  BY DEF AddRequest, OrderInv, EngineInv, SchedulerInv, ReqInv, ReqShape, ReqFields
<1>3. req[r].placeholders = 0
  BY <1>1, OrderSpec DEF ReqOK
<1>4. CountIn(inflight, r) = 0
  <2>1. \A i \in 1 .. Len(inflight) : r \notin DOMAIN inflight[i].out
    BY <1>1 DEF OrderInv, EngineInv, PartsOK, InflightOK, BatchOK
  <2> QED BY <2>1, OrderSpec, CountInBounds
<1>5. config.maxAdmin = 0 => req[r].discard = FALSE
  BY OrderSpec DEF OrderOK
<1>6. OrderOK(config, r, req'[r], step, inflight, worker)
  <2>1. req'[r].status \in Queued /\ step.phase # "update"
    BY <1>1, <1>2, StatusesDiffer
  <2> QED BY <1>2, <1>3, <1>4, <1>5, <2>1, OrderQueued, OrderSpec
<1>7. \A q \in Request : OrderOK(config, q, req'[q], step, inflight, worker)
  BY <1>2, <1>6, OrderSpec
<1> QED BY <1>1, <1>7, OrderSpec DEF OrderParts

\* Requests are aborted.
LEMMA FinishRequestsOrder ==
    ASSUME OrderInv, UNCHANGED <<step, inflight, worker, faults>>,
           admin' \in Nat, config.maxAdmin = 0 => callback' = FALSE,
           NEW S, NEW order, FinishRequests(S, order)
    PROVE  OrderParts(config, req', step', inflight', worker', faults', admin', callback')
<1>1. ASSUME NEW r \in Request PROVE OrderOK(config, r, req'[r], step, inflight, worker)
  <2>1. OrderOK(config, r, req[r], step, inflight, worker)
    BY OrderSpec
  <2>2. CASE r \in S
    <3>1. req'[r].status = "FINISHED_ABORTED" /\ req'[r].discard = req[r].discard
      BY <2>2 DEF FinishRequests, OrderInv, EngineInv, SchedulerInv, ReqInv, ReqShape, ReqFields
    <3>2. config.maxAdmin = 0 => req[r].discard = FALSE
      BY <2>1 DEF OrderOK
    <3>3. req'[r].status \notin Live
      BY <3>1, StatusesDiffer DEF Live
    <3> QED BY <3>1, <3>2, <3>3, OrderOver
  <2>3. CASE r \notin S
    <3>1. req'[r] = req[r]
      BY <2>3 DEF FinishRequests
    <3> QED BY <2>1, <3>1
  <2> QED BY <2>2, <2>3
<1> QED BY <1>1, OrderSpec DEF OrderParts

LEMMA AbortRequestOrder ==
    ASSUME OrderInv, NEW r \in Request, AbortRequest(r)
    PROVE  OrderParts(config, req', step', inflight', worker', faults', admin', callback')
<1>1. /\ FinishRequests({r}, <<r>>)
      /\ UNCHANGED <<step, inflight, worker, faults, admin, callback>>
  BY DEF AbortRequest
<1>2. admin' \in Nat /\ (config.maxAdmin = 0 => callback' = FALSE)
  BY <1>1, OrderSpec
<1> QED BY <1>1, <1>2, FinishRequestsOrder

\* A call that counts against the bound on pauses and resets.
LEMMA AdminCall ==
    ASSUME OrderInv, admin < MaxAdmin
    PROVE  config.maxAdmin # 0 /\ ~config.async /\ config.batchQueueSize = 1 /\ admin + 1 \in Nat
<1>1. admin \in Nat /\ (config.maxAdmin = 0 \/ (~config.async /\ config.batchQueueSize = 1))
  BY OrderSpec
<1>2. config.maxAdmin \in Nat
  BY ConfigSpec DEF OrderInv, EngineInv, SchedulerInv, SchedulerConfig
<1>3. config.maxAdmin # 0
  BY <1>1, <1>2 DEF MaxAdmin
<1> QED BY <1>1, <1>3

LEMMA PauseAbortOrder ==
    ASSUME OrderInv, NEW clear \in BOOLEAN, PauseAbort(clear)
    PROVE  OrderParts(config, req', step', inflight', worker', faults', admin', callback')
<1>1. /\ \E S, order : FinishRequests(S, order)
      /\ admin < MaxAdmin /\ admin' = admin + 1
      /\ UNCHANGED <<step, inflight, worker, faults>>
  BY DEF PauseAbort
<1>2. config.maxAdmin # 0 /\ admin' \in Nat
  BY <1>1, AdminCall
<1> QED BY <1>1, <1>2, FinishRequestsOrder

\* Between two steps nothing is in flight when requests may be reset.
LEMMA ResetRunningOrder ==
    ASSUME OrderInv, step.phase = "idle", config.maxAdmin # 0, admin' \in Nat,
           UNCHANGED <<step, inflight, worker>>,
           ResetRunning(req, running, waiting, kv)
    PROVE  OrderParts(config, req', step', inflight', worker', faults', admin', callback')
<1>1. ~config.async /\ config.batchQueueSize = 1
  BY OrderSpec
<1>2. \A r \in Request : CountIn(inflight, r) = 0
  <2>1. Len(inflight) < 1
    BY <1>1 DEF OrderInv, EngineInv, PartsOK, InflightOK
  <2>2. Len(inflight) = 0
    <3>1. inflight \in Seq(ToSet(inflight))
      BY OrderSpec
    <3>2. Len(inflight) \in Nat
      BY <3>1
    <3> QED BY <2>1, <3>2
  <2>3. \A i \in 1 .. Len(inflight) : FALSE
    BY <2>2
  <2> QED BY <2>3, CountInBounds, OrderSpec
<1>3. ASSUME NEW r \in Request PROVE OrderOK(config, r, req'[r], step, inflight, worker)
  <2>1. CASE r \in ToSet(running)
    <3>1. req'[r].status = "PREEMPTED"
      BY <2>1 DEF ResetRunning, Preempted, OrderInv, EngineInv, SchedulerInv, ReqInv, ReqShape, ReqFields
    <3>2. req'[r].status \in Queued /\ step.phase # "update"
      BY <3>1, StatusesDiffer
    <3>3. inflight \in Seq(ToSet(inflight)) /\ CountIn(inflight, r) = 0
      BY <1>2, OrderSpec
    <3>4. (config.async => req'[r].placeholders = 0) /\ (config.maxAdmin = 0 => req'[r].discard = FALSE)
      BY <1>1
    <3> QED BY <3>2, <3>3, <3>4, OrderQueued
  <2>2. CASE r \notin ToSet(running)
    <3>1. req'[r] = req[r]
      BY <2>2 DEF ResetRunning
    <3> QED BY <3>1, OrderSpec
  <2> QED BY <2>1, <2>2
<1>4. "misplaced token" \notin faults'
  BY OrderSpec DEF ResetRunning
<1> QED BY <1>3, <1>4, OrderSpec DEF OrderParts

\* A call between two steps that changes no request.
LEMMA OrderUnmoved ==
    ASSUME OrderInv, UNCHANGED <<req, step, inflight, worker, faults>>,
           admin' \in Nat, config.maxAdmin = 0 => callback' = FALSE
    PROVE  OrderParts(config, req', step', inflight', worker', faults', admin', callback')
  BY OrderSpec DEF OrderParts

LEMMA ResetCacheOrder ==
    ASSUME OrderInv, NEW all \in BOOLEAN, ResetCache(all)
    PROVE  OrderParts(config, req', step', inflight', worker', faults', admin', callback')
<1>1. /\ step.phase = "idle" /\ UNCHANGED <<step, inflight, worker>>
      /\ admin < MaxAdmin /\ admin' = admin + 1
      /\ ResetRunning(req, running, waiting, kv) \/ UNCHANGED <<req, faults>>
  BY DEF ResetCache
<1>2. config.maxAdmin # 0 /\ admin' \in Nat
  BY <1>1, AdminCall
<1> QED BY <1>1, <1>2, ResetRunningOrder, OrderUnmoved

LEMMA PauseSchedulerOrder ==
    ASSUME OrderInv, NEW mode, NEW clear \in BOOLEAN, PauseScheduler(mode, clear)
    PROVE  OrderParts(config, req', step', inflight', worker', faults', admin', callback')
<1>1. /\ step.phase = "idle" /\ UNCHANGED <<step, inflight, worker>>
      /\ admin < MaxAdmin /\ admin' = admin + 1
      /\ ResetRunning(req, running, waiting, kv) \/ UNCHANGED <<req, faults>>
  BY DEF PauseScheduler
<1>2. config.maxAdmin # 0 /\ admin' \in Nat
  BY <1>1, AdminCall
<1> QED BY <1>1, <1>2, ResetRunningOrder, OrderUnmoved

LEMMA IdleCallbackOrder ==
    ASSUME OrderInv, IdleCallback \/ ResumeScheduler
    PROVE  OrderParts(config, req', step', inflight', worker', faults', admin', callback')
<1>1. CASE IdleCallback
  <2>1. /\ step.phase = "idle" /\ UNCHANGED <<step, inflight, worker>> /\ callback
        /\ admin' = admin /\ ResetRunning(req, running, waiting, kv)
    BY <1>1 DEF IdleCallback
  <2>2. config.maxAdmin # 0 /\ admin' \in Nat
    BY <2>1, OrderSpec
  <2> QED BY <2>1, <2>2, ResetRunningOrder
<1>2. CASE ResumeScheduler
  <2>1. UNCHANGED <<req, step, inflight, worker, faults, admin, callback>>
    BY <1>2 DEF ResumeScheduler
  <2> QED BY <2>1, OrderUnmoved, OrderSpec
<1> QED BY <1>1, <1>2

\* A step of schedule() that neither admits nor preempts a request.
LEMMA ScheduleOrder ==
    ASSUME OrderInv, BeginSchedule \/ EndRunning \/ SkipRunning \/ ScheduleRunning
    PROVE  OrderParts(config, req', step', inflight', worker', faults', admin', callback')
<1>1. UNCHANGED <<req, inflight, worker, faults, admin, callback>>
  BY DEF BeginSchedule, EndRunning, SkipRunning, ScheduleRunning
<1>2. /\ step.phase # "update" /\ step'.phase # "update"
      /\ step'.fresh = step.fresh /\ step'.preempted = step.preempted
  <2>1. CASE BeginSchedule
    <3> DEFINE s == NoStep("running")
    <3>1. step = NoStep("idle") /\ step' = [s EXCEPT !.budget = step'.budget]
      BY <2>1 DEF BeginSchedule, OrderInv, EngineInv, PartsOK, StepOK, NoStep
    <3>2. step.phase = "idle" /\ step.fresh = {} /\ step.preempted = {}
      BY <3>1 DEF NoStep
    <3>3. step'.phase = "running" /\ step'.fresh = {} /\ step'.preempted = {}
      BY <3>1 DEF NoStep
    <3> QED BY <3>2, <3>3
  <2>2. CASE EndRunning
    BY <2>2 DEF EndRunning, OrderInv, EngineInv, SchedulerInv, StepInv, StepFields
  <2>3. CASE SkipRunning
    BY <2>3 DEF SkipRunning, InRunningLoop, OrderInv, EngineInv, SchedulerInv, StepInv, StepFields
  <2>4. CASE ScheduleRunning
    <3>1. step.phase = "running"
      BY <2>4 DEF ScheduleRunning, InRunningLoop
    <3>2. \E r, n : step' = [step EXCEPT !.num[r] = n, !.order = Append(@, r), !.budget = @ - n,
                                  !.idx = @ + 1, !.cur = NoRequest, !.want = 0]
      BY <2>4 DEF ScheduleRunning
    <3> QED BY <3>1, <3>2 DEF OrderInv, EngineInv, SchedulerInv, StepInv, StepFields
  <2> QED BY <2>1, <2>2, <2>3, <2>4
<1>3. \A r \in Request : OrderOK(config, r, req[r], step', inflight, worker)
  BY <1>2, OrderSame, OrderSpec
<1> QED BY <1>1, <1>3, OrderSpec DEF OrderParts

\* The victim of a preemption waits for its token in flight.
LEMMA PreemptRunningOrder ==
    ASSUME OrderInv, PreemptRunning
    PROVE  OrderParts(config, req', step', inflight', worker', faults', admin', callback')
<1> DEFINE v == PreemptionVictim
<1>1. /\ UNCHANGED <<inflight, worker, faults, admin, callback>> /\ InRunningLoop
      /\ ~NothingToSchedule(CurrentRequest)
      /\ req' = [req EXCEPT ![v] = Preempted(@)]
      /\ EngineInv
  BY DEF PreemptRunning, OrderInv
<1>2. v \in Request /\ req[v].status = "RUNNING"
  BY <1>1, VictimPosition
<1>3. /\ step'.phase = "running" /\ step'.fresh = step.fresh
      /\ step'.preempted = step.preempted \cup {v}
      /\ step.phase = "running"
  BY <1>1, PreemptsSpec DEF Preempts, EngineInv, SchedulerInv, StepInv, InRunningLoop
<1> HIDE DEF v
<1>4. /\ req'[v].status = "PREEMPTED" /\ req'[v].output = req[v].output
      /\ req'[v].placeholders = req[v].placeholders
      /\ req'[v].discard = req[v].discard
      /\ \A r \in Request \ {v} : req'[r] = req[r]
  BY <1>1, <1>2 DEF EngineInv, SchedulerInv, ReqInv, ReqShape, ReqFields, Preempted
<1>5. OrderOK(config, v, req'[v], step', inflight, worker)
  <2>1. OrderOK(config, v, req[v], step, inflight, worker)
    BY <1>2, OrderSpec
  <2>2. v \notin step.fresh
    BY <1>1, <1>3 DEF EngineInv, PartsOK, StepOK, LoopOK
  <2>3. Chain(config.prompt[v] \o req[v].output, inflight, v, worker[v])
    BY <1>2, <2>1, <2>2 DEF OrderOK
  <2>4. /\ "PREEMPTED" \in Live /\ "RUNNING" \in Live /\ "PREEMPTED" # "RUNNING"
        /\ step'.phase # "update" /\ v \in step'.preempted
    BY <1>3, StatusesDiffer DEF Live
  <2> QED BY <1>2, <1>4, <2>1, <2>3, <2>4 DEF OrderOK
<1>6. ASSUME NEW r \in Request, r # v PROVE OrderOK(config, r, req'[r], step', inflight, worker)
  <2>1. req'[r] = req[r]
    BY <1>4, <1>6
  <2> QED BY <1>3, <2>1, OrderSame, OrderSpec
<1> QED BY <1>1, <1>5, <1>6, OrderSpec DEF OrderParts

\* A request is admitted when it waits for no token in flight.
LEMMA ScheduleWaitingOrder ==
    ASSUME OrderInv, ScheduleWaiting
    PROVE  OrderParts(config, req', step', inflight', worker', faults', admin', callback')
<1> DEFINE r == Head(waiting)
<1>1. /\ InWaitingLoop /\ UNCHANGED <<inflight, worker, faults, admin, callback>>
      /\ AdmitWaiting(r, Hits(r)) /\ EngineInv
  BY DEF ScheduleWaiting, OrderInv
<1>2. r \in Request /\ req[r].status \in Queued
  BY <1>1, AdmittedSpec
<1>3. \E h, n : /\ req' = [req EXCEPT ![r].status = "RUNNING", ![r].computed = h]
                /\ step' = [step EXCEPT !.num[r] = n, !.order = Append(@, r), !.budget = @ - n,
                                        !.fresh = @ \cup {r}]
  BY <1>1 DEF AdmitWaiting
<1> HIDE DEF r
<1>4. /\ req'[r].status = "RUNNING" /\ req'[r].placeholders = req[r].placeholders
      /\ req'[r].discard = req[r].discard
      /\ \A q \in Request \ {r} : req'[q] = req[q]
  BY <1>2, <1>3 DEF EngineInv, SchedulerInv, ReqInv, ReqShape, ReqFields, OrderInv
<1>5. /\ step'.phase = "waiting" /\ step.phase = "waiting"
      /\ step'.preempted = step.preempted /\ step.preempted = {}
      /\ step'.fresh = step.fresh \cup {r}
  BY <1>1, <1>3 DEF InWaitingLoop, EngineInv, SchedulerInv, StepInv, StepFields
<1>6. OrderOK(config, r, req'[r], step', inflight, worker)
  <2>1. OrderOK(config, r, req[r], step, inflight, worker)
    BY <1>2, OrderSpec
  <2>2. CountIn(inflight, r) = 0
    BY <1>2, <1>5, <2>1 DEF OrderOK
  <2>3. /\ r \in step'.fresh /\ "RUNNING" \notin Queued /\ req[r].status \in Live
    BY <1>2, <1>5, StatusesDiffer DEF Live
  <2> QED BY <1>4, <2>1, <2>2, <2>3 DEF OrderOK
<1>7. ASSUME NEW q \in Request, q # r PROVE OrderOK(config, q, req'[q], step', inflight, worker)
  <2>1. req'[q] = req[q]
    BY <1>4, <1>7
  <2>2. q \in step'.fresh <=> q \in step.fresh
    BY <1>5, <1>7
  <2>3. step.phase # "update" /\ step'.phase # "update" /\ step'.preempted = step.preempted
    BY <1>5
  <2> QED BY <2>1, <2>2, <2>3, OrderSame, OrderSpec
<1> QED BY <1>1, <1>6, <1>7, OrderSpec DEF OrderParts

-----------------------------------------------------------------------------
(* The order: a batch is dispatched                                         *)

\* A scheduled request runs with the tokens it will have when the outputs in
\* flight have been applied; without async scheduling none is in flight.
LEMMA WorkerTokensOrder ==
    ASSUME OrderInv, NEW r \in ToSet(step.order)
    PROVE  /\ Chain(Tokens(r), inflight, r, WorkerTokens(r))
           /\ Len(WorkerTokens(r)) = NumTokens(r) + CountIn(inflight, r)
           /\ ~config.async => CountIn(inflight, r) = 0
<1> DEFINE n == CountIn(inflight, r)
           N == NumTokens(r)
           p == req[r].placeholders
           w == worker[r]
           c == req[r].computed
<1>1. /\ r \in Request /\ req[r].status = "RUNNING" /\ req[r].status \in Live
      /\ step.num[r] \in Nat /\ step.num[r] # 0 /\ c \in Nat /\ p \in Nat
      /\ N \in Nat \ {0} /\ N = Length(config, r, req[r]) /\ N = Len(Tokens(r))
      /\ c + step.num[r] <= N + p
  BY ScheduledSpec DEF OrderInv, BatchEnd, Live
<1>2. OrderOK(config, r, req[r], step, inflight, worker)
  BY <1>1, OrderSpec
<1>3. n \in Nat /\ inflight \in Seq(ToSet(inflight))
  BY OrderSpec, CountInBounds
<1>4. Tokens(r) = config.prompt[r] \o req[r].output
  BY DEF Tokens, Prompt
<1>5. CASE r \in step.fresh
  <2>1. n = 0
    BY <1>1, <1>2, <1>5 DEF OrderOK
  <2>2. WorkerTokens(r) = Tokens(r)
    BY <1>5 DEF WorkerTokens
  <2>3. Chain(Tokens(r), inflight, r, Tokens(r))
    BY <1>3, <2>1, ChainNone
  <2>4. N + n = N
    BY <1>1, <2>1
  <2> QED BY <1>1, <2>1, <2>2, <2>3, <2>4
<1>6. CASE r \notin step.fresh
  <2>1. Chain(Tokens(r), inflight, r, w) /\ Len(w) = N + n
    BY <1>1, <1>2, <1>4, <1>6 DEF OrderOK
  <2>2. p = n /\ (~config.async => n = 0)
    <3>1. CASE config.async
      BY <1>1, <1>2, <3>1 DEF OrderOK
    <3>2. CASE ~config.async
      <4>1. p = 0
        BY <1>1, <3>2, OrderSpec DEF ReqOK
      <4>2. n # 0 => N <= c
        BY <1>1, <1>2, <3>2 DEF OrderOK
      <4> HIDE DEF n, N, p, c
      <4> QED BY <1>1, <1>3, <4>1, <4>2
    <3> QED BY <3>1, <3>2
  <2>3. w \in Seq(Alphabet(config))
    BY <1>1 DEF OrderInv, EngineInv, PartsOK
  <2>4. WorkerTokens(r) = SubSeq(w, 1, MinOf(Len(w), N + p))
    BY <1>6 DEF WorkerTokens
  <2> HIDE DEF n, N, p, w
  <2>5. MinOf(Len(w), N + p) = Len(w)
    BY <1>1, <1>3, <2>1, <2>2 DEF MinOf
  <2>6. SubSeq(w, 1, Len(w)) = w
    BY <2>3
  <2>7. WorkerTokens(r) = w
    BY <2>4, <2>5, <2>6
  <2> QED BY <2>1, <2>2, <2>7 DEF n, N
<1> QED BY <1>5, <1>6

\* The order of the outputs of one request after the batch.
LEMMA DispatchOrder ==
    ASSUME OrderInv, NEW batch, NEW sampled, Dispatches(batch, sampled),
           step.phase = "waiting", UpdateAfterSchedule,
           \/ step' = NoStep("idle") /\ Len(inflight') < config.batchQueueSize
           \/ step' = NoStep("update"),
           NEW r \in Request
    PROVE  OrderOK(config, r, req'[r], step', inflight', worker')
<1> DEFINE n == CountIn(inflight, r)
           n2 == CountIn(inflight', r)
           K == config.prompt[r] \o req[r].output
           N == Length(config, r, req[r])
           S == ToSet(inflight) \cup {batch}
<1>1. EngineInv /\ OrderOK(config, r, req[r], step, inflight, worker)
  BY OrderSpec
<1>2. \A q \in Request : Counts(q, step.num[q]) /\ (step.num[q] = 0 => req'[q] = req[q])
  BY <1>1, CountsSpec
<1>3. /\ step'.phase \in {"idle", "update"} /\ step'.fresh = {} /\ step'.preempted = {}
      /\ step'.phase # "update" => Len(inflight') < config.batchQueueSize
  BY DEF NoStep
<1>4. /\ Len(inflight') = Len(inflight) + 1 /\ inflight'[Len(inflight')] = batch
      /\ n2 = n + (IF r \in Samples THEN 1 ELSE 0)
  BY <1>1, <1>2, <1>3, DispatchInflight DEF Counts
<1>5. n \in Nat /\ Len(inflight) \in Nat /\ n <= Len(inflight)
  <2>1. inflight \in Seq(ToSet(inflight))
    BY OrderSpec
  <2> QED BY <2>1, CountInBounds
<1>6. /\ req'[r].status = req[r].status /\ req'[r].discard = req[r].discard
      /\ req'[r].output = req[r].output
      /\ config.prompt[r] \o req'[r].output = K /\ Length(config, r, req'[r]) = N
  BY <1>2 DEF Counts, Length
<1>7. /\ inflight \in Seq(S) /\ batch \in S /\ inflight' = Append(inflight, batch)
      /\ DOMAIN batch.out = Samples
      /\ \A q \in Samples : batch.out[q].token = sampled[q] /\ batch.out[q].after = WorkerTokens(q)
  <2>1. ToSet(inflight) \subseteq S
    OBVIOUS
  <2>2. inflight \in Seq(S)
    BY <2>1, SeqMonotonic, OrderSpec
  <2> QED BY <2>2 DEF Dispatches
<1>8. ASSUME NEW last, Chain(K, inflight, r, last), r \in Samples => WorkerTokens(r) = last
      PROVE  Chain(K, inflight', r, IF r \in Samples THEN Append(last, sampled[r]) ELSE last)
  <2>1. r \in DOMAIN batch.out => batch.out[r].after = last
    BY <1>7, <1>8
  <2>2. Chain(K, Append(inflight, batch), r,
              IF r \in DOMAIN batch.out THEN Append(last, batch.out[r].token) ELSE last)
    <3>1. inflight \in Seq(S) /\ batch \in S
      BY <1>7
    <3> HIDE DEF S, K
    <3> QED BY <1>8, <2>1, <3>1, ChainAppend
  <2> QED BY <1>7, <2>2
<1>9. StepOK(config, req, step, running) /\ Samples \subseteq ToSet(step.order)
  BY <1>1 DEF EngineInv, PartsOK, Samples
<1>10. config.maxAdmin = 0 => req'[r].discard = FALSE
  BY <1>1, <1>6 DEF OrderOK
<1>11. CASE r \in ToSet(step.order)
  <2> DEFINE W == WorkerTokens(r)
             e == BatchEnd(r)
             p == req[r].placeholders
             p2 == req'[r].placeholders
             k2 == Len(worker'[r])
  <2>1. /\ req[r].status = "RUNNING" /\ req[r].status \in Live /\ step.num[r] # 0
        /\ NumTokens(r) = N /\ N \in Nat /\ p \in Nat /\ e \in Nat /\ e <= N + p
    BY <1>1, <1>11, ScheduledSpec DEF Live
  <2>2. Chain(K, inflight, r, W) /\ Len(W) = N + n /\ (~config.async => n = 0)
    BY <1>11, <2>1, WorkerTokensOrder DEF Tokens, Prompt
  <2>3. worker'[r] = IF r \in Samples THEN Append(W, sampled[r]) ELSE W
    BY <1>9, <1>11 DEF Dispatches
  <2>4. k2 = IF r \in Samples THEN Len(W) + 1 ELSE Len(W)
    BY <1>1, <1>11, DispatchWorker
  <2>5. r \in Samples <=> e >= Len(W)
    BY <1>11 DEF Samples
  <2>6. /\ req'[r].computed = e
        /\ p2 = IF Async /\ ~(e < N + p) THEN p + 1 ELSE p
    BY <1>2, <2>1 DEF Counts, BatchEnd
  <2>7. Chain(K, inflight', r, worker'[r])
    BY <1>8, <2>2, <2>3
  <2>8. k2 = N + n2
    <3> HIDE DEF k2, N, n2, n
    <3> QED BY <1>4, <1>5, <2>1, <2>2, <2>4
  <2>9. config.async => p2 = n2
    <3>1. config.async => p = n
      BY <1>1, <2>1 DEF OrderOK
    <3> DEFINE s == r \in Samples
               l == Len(W)
    <3>2. (s <=> e >= l) /\ n2 = n + (IF s THEN 1 ELSE 0) /\ l = N + n
      BY <1>4, <2>2, <2>5
    <3> HIDE DEF s, l, n2, p2, n, p, e, N
    <3>3. ASSUME config.async PROVE p2 = n2
      <4>1. p = n /\ p2 = IF ~(e < N + p) THEN p + 1 ELSE p
        BY <2>6, <3>1, <3>3 DEF Async
      <4>2. CASE s
        BY <1>5, <2>1, <3>2, <4>1, <4>2
      <4>3. CASE ~s
        BY <1>5, <2>1, <3>2, <4>1, <4>3
      <4> QED BY <4>2, <4>3
    <3> QED BY <3>3
  <2>10. ~config.async => n2 <= 1 /\ (n2 # 0 => N <= req'[r].computed)
    <3> DEFINE s == r \in Samples
               l == Len(W)
    <3>2. (s <=> e >= l) /\ n2 = n + (IF s THEN 1 ELSE 0) /\ l = N + n
      BY <1>4, <2>2, <2>5
    <3> HIDE DEF s, l, n2, n, e, N
    <3>3. ASSUME ~config.async PROVE n2 <= 1 /\ (n2 # 0 => N <= e)
      <4>1. n = 0
        BY <2>2, <3>3
      <4>2. CASE s
        BY <2>1, <3>2, <4>1, <4>2
      <4>3. CASE ~s
        BY <2>1, <3>2, <4>1, <4>3
      <4> QED BY <4>2, <4>3
    <3> QED BY <2>6, <3>3
  <2>11. req'[r].status \notin Queued /\ r \notin step'.fresh
    BY <1>3, <1>6, <2>1, StatusesDiffer
  <2> HIDE DEF n2, p2, k2, N, K
  <2> QED BY <1>6, <1>10, <2>7, <2>8, <2>9, <2>10, <2>11 DEF OrderOK, n2, p2, k2, N, K
<1>12. CASE r \notin ToSet(step.order)
  <2>1. step.num[r] = 0
    <3>1. step.num[r] \in Nat /\ ~(step.num[r] > 0)
      BY <1>9, <1>12 DEF StepOK
    <3> QED BY <3>1
  <2>2. req'[r] = req[r] /\ r \notin step.fresh /\ r \notin Samples
    BY <1>2, <1>9, <1>12, <2>1 DEF StepOK
  <2>3. worker'[r] = worker[r] /\ n2 = n
    BY <1>1, <1>4, <1>5, <1>12, <2>2, DispatchWorker
  <2>4. \A last : Chain(K, inflight, r, last) => Chain(K, inflight', r, last)
    BY <1>8, <2>2
  <2>5. step'.phase = "update" => r \notin DOMAIN inflight'[Len(inflight')].out
    BY <1>4, <1>7, <2>2
  <2>6. step'.phase # "update" => n2 = 0
    <3>1. config.batchQueueSize <= 2 /\ config.batchQueueSize \in Nat
      BY <1>1, ConfigSpec, OrderSpec DEF EngineInv, SchedulerInv, SchedulerConfig
    <3>2. ASSUME step'.phase # "update" PROVE n2 = 0
      <4>1. Len(inflight) + 1 < config.batchQueueSize
        BY <1>3, <1>4, <3>2
      <4> HIDE DEF n, n2
      <4> QED BY <1>5, <2>3, <3>1, <4>1
    <3> QED BY <3>2
  <2> HIDE DEF n2, n, N, K
  <2>7. req[r].status \in Queued => \E last : Chain(K, inflight', r, last)
    BY <1>1, <2>4 DEF OrderOK, K
  <2>8. req[r].status = "RUNNING" => Chain(K, inflight', r, worker'[r]) /\ Len(worker'[r]) = N + n2
    BY <1>1, <2>2, <2>3, <2>4 DEF OrderOK, K, N, n, n2
  <2>9. /\ req[r].status \in Live =>
              /\ config.async => req[r].placeholders = n2
              /\ ~config.async => n2 <= 1
              /\ ~config.async /\ n2 # 0 /\ req[r].status = "RUNNING" => N <= req[r].computed
    BY <1>1, <2>3 DEF OrderOK, N, n
  <2>10. r \notin step'.fresh
    BY <1>3
  <2> QED BY <1>10, <2>2, <2>5, <2>6, <2>7, <2>8, <2>9, <2>10 DEF OrderOK, n2, N, K
<1> QED BY <1>11, <1>12

LEMMA FinishScheduleOrder ==
    ASSUME OrderInv, FinishSchedule
    PROVE  OrderParts(config, req', step', inflight', worker', faults', admin', callback')
<1>1. /\ step.phase = "waiting" /\ UpdateAfterSchedule /\ UNCHANGED <<admin, callback>>
      /\ \/ step' = NoStep("idle") /\ Len(inflight') < config.batchQueueSize
         \/ step' = NoStep("update")
  BY DEF FinishSchedule, BatchQueueSize
<1>2. PICK batch, sampled : Dispatches(batch, sampled)
  BY DispatchExists
<1>3. \A r \in Request : OrderOK(config, r, req'[r], step', inflight', worker')
  BY <1>1, <1>2, DispatchOrder
<1>4. "misplaced token" \notin faults'
  <2>1. faults' \subseteq faults \cup {"wrong KV", "bad batch"}
    BY DEF FinishSchedule
  <2> QED BY <2>1, OrderSpec
<1> QED BY <1>1, <1>3, <1>4, OrderSpec DEF OrderParts

-----------------------------------------------------------------------------
(* The order: update_from_output                                            *)

\* What the batches in flight hold for a request once the oldest is taken off.
LEMMA OrderRest ==
    ASSUME OrderInv, inflight # <<>>, step.phase \in {"idle", "update"}, NEW r \in Request
    PROVE  /\ CountIn(inflight, r) \in Nat /\ CountIn(Rest, r) \in Nat
           /\ CountIn(Rest, r) = CountIn(inflight, r)
                 - (IF r \in DOMAIN inflight[1].out THEN 1 ELSE 0)
           /\ req[r].status \in Queued => CountIn(Rest, r) = 0
           /\ req[r].status = "RUNNING" =>
                 /\ Chain(config.prompt[r] \o req[r].output, inflight, r, worker[r])
                 /\ Len(worker[r]) = Length(config, r, req[r]) + CountIn(inflight, r)
           /\ Rest \in Seq(ToSet(inflight))
<1> DEFINE n == CountIn(inflight, r)
           n2 == CountIn(Rest, r)
<1>1. /\ EngineInv /\ OrderOK(config, r, req[r], step, inflight, worker)
      /\ inflight \in Seq(ToSet(inflight)) /\ config.batchQueueSize <= 2
  BY OrderSpec
<1>2. n \in Nat /\ n2 \in Nat /\ n2 = n - (IF r \in DOMAIN inflight[1].out THEN 1 ELSE 0)
  BY <1>1, RestSpec
<1>3. /\ Rest \in Seq(ToSet(inflight)) /\ Len(Rest) = Len(inflight) - 1
      /\ \A i \in 1 .. Len(Rest) : Rest[i] = inflight[i + 1] /\ i + 1 \in 1 .. Len(inflight)
  BY <1>1, CountInRemove DEF Rest
<1>4. step = NoStep(step.phase)
  BY <1>1 DEF EngineInv, PartsOK, StepOK
<1>5. step.fresh = {} /\ step.preempted = {}
  BY <1>4 DEF NoStep
<1>6. ASSUME req[r].status \in Queued PROVE n2 = 0
  <2>1. CASE step.phase = "idle"
    <3>1. n = 0
      BY <1>1, <1>5, <1>6, <2>1 DEF OrderOK
    <3>2. n2 = n \/ n2 = n - 1
      BY <1>2
    <3> HIDE DEF n, n2
    <3> QED BY <1>2, <3>1, <3>2
  <2>2. CASE step.phase = "update"
    <3>1. r \notin DOMAIN inflight[Len(inflight)].out
      BY <1>1, <1>6, <2>2 DEF OrderOK
    <3>2. Len(inflight) <= 2 /\ Len(inflight) \in Nat
      <4>1. Len(inflight) <= config.batchQueueSize
        BY <1>1 DEF EngineInv, PartsOK, InflightOK
      <4>2. config.batchQueueSize \in Nat
        BY <1>1, ConfigSpec DEF EngineInv, SchedulerInv, SchedulerConfig
      <4>3. Len(inflight) \in Nat
        BY <1>1
      <4> QED BY <1>1, <4>1, <4>2, <4>3
    <3>3. ASSUME NEW i \in 1 .. Len(Rest) PROVE r \notin DOMAIN Rest[i].out
      <4>1. Rest[i] = inflight[i + 1] /\ i + 1 = Len(inflight)
        BY <1>3, <3>2, <3>3
      <4> QED BY <3>1, <4>1
    <3>4. n2 = 0
      BY <1>3, <3>3, CountInBounds
    <3> QED BY <3>4
  <2> QED BY <2>1, <2>2
<1>7. req[r].status = "RUNNING" =>
         /\ Chain(config.prompt[r] \o req[r].output, inflight, r, worker[r])
         /\ Len(worker[r]) = Length(config, r, req[r]) + n
  BY <1>1, <1>5 DEF OrderOK
<1> QED BY <1>2, <1>3, <1>6, <1>7

\* What OrderOK says of a request after the batch.
LEMMA OrderAfter ==
    ASSUME NEW r, NEW q, NEW S, Rest \in Seq(S), config.maxAdmin = 0 => q.discard = FALSE,
           q.status \in Live =>
              /\ config.async => q.placeholders = CountIn(Rest, r)
              /\ ~config.async => CountIn(Rest, r) <= 1
              /\ ~config.async /\ CountIn(Rest, r) # 0 /\ q.status = "RUNNING" =>
                    Length(config, r, q) <= q.computed,
           q.status \in Queued => CountIn(Rest, r) = 0,
           q.status = "RUNNING" =>
              /\ Chain(config.prompt[r] \o q.output, Rest, r, worker[r])
              /\ Len(worker[r]) = Length(config, r, q) + CountIn(Rest, r)
    PROVE  OrderOK(config, r, q, NoStep("idle"), Rest, worker)
<1>1. /\ NoStep("idle").phase = "idle" /\ NoStep("idle").fresh = {}
      /\ NoStep("idle").preempted = {}
  BY DEF NoStep
<1>2. q.status \in Queued => \E last : Chain(config.prompt[r] \o q.output, Rest, r, last)
  BY ChainNone
<1> QED BY <1>1, <1>2 DEF OrderOK

\* A request with no output in the batch, or that no longer takes one.
LEMMA SkippedOrder ==
    ASSUME OrderInv, inflight # <<>>, step.phase \in {"idle", "update"},
           NEW r \in Request, req[r].status \in Live => r \notin DOMAIN inflight[1].out
    PROVE  OrderOK(config, r, req[r], NoStep("idle"), Rest, worker)
<1> DEFINE n == CountIn(inflight, r)
           n2 == CountIn(Rest, r)
           q == req[r]
           K == config.prompt[r] \o q.output
<1>1. OrderOK(config, r, q, step, inflight, worker) /\ inflight \in Seq(ToSet(inflight))
  BY OrderSpec
<1>2. /\ n \in Nat /\ n2 \in Nat
      /\ n2 = n - (IF r \in DOMAIN inflight[1].out THEN 1 ELSE 0)
      /\ q.status \in Queued => n2 = 0
      /\ q.status = "RUNNING" => Chain(K, inflight, r, worker[r])
      /\ q.status = "RUNNING" => Len(worker[r]) = Length(config, r, q) + n
      /\ Rest \in Seq(ToSet(inflight))
  BY OrderRest
<1>3. q.status \in Live => n2 = n
  BY <1>2
<1>4. q.status = "RUNNING" => q.status \in Live
  BY DEF Live
<1>5. q.status = "RUNNING" => Chain(K, Rest, r, worker[r])
  <2>1. ASSUME q.status = "RUNNING" PROVE Chain(K, Rest, r, worker[r])
    <3>1. r \notin DOMAIN inflight[1].out /\ Chain(K, inflight, r, worker[r])
      BY <1>2, <1>4, <2>1
    <3> HIDE DEF K
    <3> QED BY <1>1, <3>1, ChainRemove DEF Rest
  <2> QED BY <2>1
<1>6. q.status \in Live =>
         /\ config.async => q.placeholders = n
         /\ ~config.async => n <= 1
         /\ ~config.async /\ n # 0 /\ q.status = "RUNNING" => Length(config, r, q) <= q.computed
  BY <1>1 DEF OrderOK
<1>7. config.maxAdmin = 0 => q.discard = FALSE
  BY <1>1 DEF OrderOK
<1> HIDE DEF n
<1>8. /\ q.status \in Live =>
            /\ config.async => q.placeholders = n2
            /\ ~config.async => n2 <= 1
            /\ ~config.async /\ n2 # 0 /\ q.status = "RUNNING" => Length(config, r, q) <= q.computed
      /\ q.status = "RUNNING" => Len(worker[r]) = Length(config, r, q) + n2
  BY <1>2, <1>3, <1>4, <1>6
<1> HIDE DEF q
<1> QED BY <1>2, <1>5, <1>7, <1>8, OrderAfter DEF q

\* A request takes its output, which was sampled after the tokens it has.
LEMMA TakenOrder ==
    ASSUME OrderInv, inflight # <<>>, step.phase \in {"idle", "update"},
           NEW r \in Request, NEW out, out = inflight[1].out, r \in DOMAIN out,
           req[r].status \in Live, out[r].token \in Vocabulary,
           NEW q2, Taken(req[r], q2, config, r, out[r].token)
    PROVE  /\ out[r].after = config.prompt[r] \o req[r].output
           /\ OrderOK(config, r, q2, NoStep("idle"), Rest, worker)
<1> DEFINE n == CountIn(inflight, r)
           n2 == CountIn(Rest, r)
           q == req[r]
           K == config.prompt[r] \o q.output
           N == Length(config, r, q)
           token == out[r].token
           V == Alphabet(config)
<1>1. /\ EngineInv /\ OrderOK(config, r, q, step, inflight, worker)
      /\ inflight \in Seq(ToSet(inflight)) /\ ReqOK(config, r, q)
  BY OrderSpec
<1>2. /\ n \in Nat /\ n2 \in Nat /\ n2 = n - 1
      /\ q.status \in Queued => n2 = 0
      /\ q.status = "RUNNING" => Chain(K, inflight, r, worker[r])
      /\ q.status = "RUNNING" => Len(worker[r]) = N + n
      /\ Rest \in Seq(ToSet(inflight))
  BY OrderRest
<1>3. q.status \in Queued => \E last : Chain(K, inflight, r, last)
  BY <1>1 DEF OrderOK
<1>4. \E last : Chain(K, inflight, r, last)
  BY <1>2, <1>3 DEF Live
<1>5. \A last : Chain(K, inflight, r, last) =>
         out[r].after = K /\ Chain(Append(K, token), Rest, r, last)
  <2> HIDE DEF K
  <2> QED BY <1>1, ChainRemove DEF Rest
<1>6. out[r].after = K
  BY <1>4, <1>5
<1>7. /\ q2.output = Append(q.output, token) /\ q2.computed = q.computed
      /\ q2.discard = q.discard
      /\ q2.placeholders = IF config.async THEN q.placeholders - 1 ELSE q.placeholders
      /\ q2.status \in Finished \cup {q.status}
  BY DEF Taken, Async
<1>8. /\ config.async => q.placeholders = n
      /\ ~config.async => n <= 1
      /\ config.maxAdmin = 0 => q.discard = FALSE
  BY <1>1 DEF OrderOK
<1>9. r \in DOMAIN config.prompt /\ N \in Nat
  <2>1. q.status # "NEW"
    BY StatusesDiffer DEF Live
  <2> QED BY <1>1, <2>1, SentSpec
<1>10. Length(config, r, q2) = N + 1
  <2>1. Async => q.placeholders >= 1
    <3> HIDE DEF n, n2
    <3>1. n >= 1
      BY <1>2
    <3> QED BY <1>8, <3>1 DEF Async
  <2> QED BY <1>1, <1>9, <2>1, TakenReq
<1>11. config.prompt[r] \o q2.output = Append(K, token)
  <2>1. config.prompt[r] \in Seq(V) /\ q.output \in Seq(V) /\ token \in V
    <3>1. SchedulerConfig(config)
      BY <1>1, ConfigSpec DEF EngineInv, SchedulerInv
    <3>2. q.output \in Seq(Vocabulary) /\ Vocabulary \subseteq V
      BY <1>1 DEF ReqOK, Alphabet
    <3>3. config.prompt[r] \in Seq(ToSet(config.prompt[r])) /\ ToSet(config.prompt[r]) \subseteq V
      BY <1>9, <3>1 DEF SchedulerConfig, Alphabet
    <3> HIDE DEF V, q
    <3>4. config.prompt[r] \in Seq(V) /\ q.output \in Seq(V)
      BY <3>2, <3>3, SeqMonotonic
    <3> QED BY <3>2, <3>4 DEF q
  <2> DEFINE P == config.prompt[r]
             o == q.output
  <2>2. P \in Seq(V) /\ o \in Seq(V) /\ token \in V /\ q2.output = Append(o, token) /\ K = P \o o
    BY <1>7, <2>1
  <2> HIDE DEF V, P, o, token, K
  <2>3. P \o Append(o, token) = Append(P \o o, token)
    BY <2>2, AppendConcat
  <2>4. P \o q2.output = Append(K, token)
    BY <2>2, <2>3
  <2> QED BY <2>4 DEF P
<1>12. /\ config.async => q2.placeholders = n2
       /\ ~config.async => n2 <= 1 /\ n2 = 0
  <2> HIDE DEF n, n2, q
  <2>1. config.async => q2.placeholders = n2
    BY <1>2, <1>7, <1>8
  <2>2. ~config.async => n2 <= 1 /\ n2 = 0
    BY <1>2, <1>8
  <2> QED BY <2>1, <2>2
<1>13. /\ q2.status \in Queued => q.status \in Queued
       /\ q2.status = "RUNNING" => q.status = "RUNNING"
  BY <1>7, StatusesDiffer
<1>14. q2.status = "RUNNING" =>
          /\ Chain(config.prompt[r] \o q2.output, Rest, r, worker[r])
          /\ Len(worker[r]) = Length(config, r, q2) + n2
  <2>1. ASSUME q2.status = "RUNNING"
        PROVE  /\ Chain(config.prompt[r] \o q2.output, Rest, r, worker[r])
               /\ Len(worker[r]) = Length(config, r, q2) + n2
    <3>1. Chain(K, inflight, r, worker[r]) /\ Len(worker[r]) = N + n
      BY <1>2, <1>13, <2>1
    <3>2. Chain(config.prompt[r] \o q2.output, Rest, r, worker[r])
      BY <1>5, <1>11, <3>1
    <3> HIDE DEF n, n2, N
    <3>3. N + n = (N + 1) + n2
      BY <1>2, <1>9
    <3> QED BY <1>10, <3>1, <3>2, <3>3
  <2> QED BY <2>1
<1> HIDE DEF q, K, N, token, V
<1>15. OrderOK(config, r, q2, NoStep("idle"), Rest, worker)
  <2>1. config.maxAdmin = 0 => q2.discard = FALSE
    BY <1>7, <1>8
  <2>2. q2.status \in Queued => n2 = 0
    BY <1>2, <1>13
  <2> QED BY <1>2, <1>12, <1>14, <2>1, <2>2, OrderAfter
<1> QED BY <1>6, <1>15 DEF K, q

\* The loop of update_from_output is through with the requests in S.
OrderSettled(t, S) ==
    /\ Settled(t, S)
    /\ "misplaced token" \notin t.faults
    /\ \A r \in Request \cap S : OrderOK(config, r, t.req[r], NoStep("idle"), Rest, worker)

\* One step of the loop.
LEMMA OrderSettledStep ==
    ASSUME OrderInv, inflight # <<>>, step.phase \in {"idle", "update"},
           NEW s, NEW S, OrderSettled(s, S), NEW x \in Request \ S, req[x].status # "NEW",
           NEW out, out = inflight[1].out, \A r \in DOMAIN out : out[r].token \in Vocabulary,
           NEW t, t = UpdateRequest(s, x, out)
    PROVE  OrderSettled(t, S \cup {x})
<1> DEFINE q == s.req[x]
           q2 == t.req[x]
<1>1. EngineInv /\ Settled(s, S) /\ UpdateShape(s) /\ q = req[x]
      /\ "misplaced token" \notin s.faults
  <2>1. EngineInv /\ Settled(s, S) /\ "misplaced token" \notin s.faults
    BY OrderSpec DEF OrderSettled
  <2> QED BY <2>1 DEF Settled
<1>2. Settled(t, S \cup {x})
  BY <1>1, SettledStep
<1>3. \A r \in Request \ {x} : t.req[r] = s.req[r]
  <2>1. UpdateShape(s)
    BY <1>1
  <2>2. x \in Request
    OBVIOUS
  <2> QED BY <2>1, <2>2, UpdateRequestSpec
<1>4. OutputEffect(s, t, x, out, q, q2)
  BY <1>1, UpdateEffect
<1>5. TakesOutput(q, x, out) <=> q.status \in Live /\ x \in DOMAIN out
  BY DEF TakesOutput, Live
<1>6. "misplaced token" \notin t.faults /\ OrderOK(config, x, q2, NoStep("idle"), Rest, worker)
  <2>1. CASE ~TakesOutput(q, x, out)
    <3>1. t = s
      BY <1>4, <2>1 DEF OutputEffect
    <3>2. q2 = req[x] /\ "misplaced token" \notin t.faults
      BY <1>1, <3>1
    <3>3. req[x].status \in Live => x \notin DOMAIN inflight[1].out
      BY <1>1, <1>5, <2>1
    <3> HIDE DEF q, q2
    <3>4. OrderOK(config, x, req[x], NoStep("idle"), Rest, worker)
      BY <3>3, SkippedOrder
    <3> QED BY <3>2, <3>4
  <2>2. CASE TakesOutput(q, x, out)
    <3>1. ~DiscardsOutput(q)
      <4>1. config.async => config.maxAdmin = 0
        BY OrderSpec
      <4>2. config.maxAdmin = 0 => q.discard = FALSE
        BY <1>1, OrderSpec DEF OrderOK
      <4> QED BY <4>1, <4>2 DEF DiscardsOutput, Async
    <3>2. /\ Taken(q, q2, config, x, out[x].token)
          /\ out[x].after = config.prompt[x] \o q.output =>
                t.faults \subseteq s.faults \cup {"placeholder underflow"}
      BY <1>4, <2>2, <3>1 DEF OutputEffect
    <3>3. q.status \in Live /\ x \in DOMAIN out /\ out[x].token \in Vocabulary
      BY <1>5, <2>2
    <3> HIDE DEF q, q2
    <3>4. /\ out[x].after = config.prompt[x] \o req[x].output
          /\ OrderOK(config, x, q2, NoStep("idle"), Rest, worker)
      <4>1. /\ req[x].status \in Live /\ Taken(req[x], q2, config, x, out[x].token)
            /\ x \in Request
        BY <1>1, <3>2, <3>3
      <4> QED BY <3>3, <4>1, TakenOrder
    <3> QED BY <1>1, <3>2, <3>4
  <2> QED BY <2>1, <2>2
<1>7. ASSUME NEW r \in Request \cap (S \cup {x})
      PROVE  OrderOK(config, r, t.req[r], NoStep("idle"), Rest, worker)
  <2>1. CASE r = x
    BY <1>6, <2>1
  <2>2. CASE r # x
    BY <1>3, <1>7, <2>2 DEF OrderSettled
  <2> QED BY <2>1, <2>2
<1> QED BY <1>2, <1>6, <1>7 DEF OrderSettled

\* The whole loop, by induction over the batch.
LEMMA OrderSettledAll ==
    ASSUME OrderInv, inflight # <<>>, step.phase \in {"idle", "update"},
           NEW s, s = [req |-> req, kv |-> kv, faults |-> faults, stopped |-> {}],
           NEW batch, batch = inflight[1]
    PROVE  /\ BatchOK(batch, req)
           /\ OrderSettled(UpdateRequests(s, batch.order, batch.out), ToSet(batch.order))
<1> DEFINE order == batch.order
           out == batch.out
           n == Len(order)
           done(i) == {order[k] : k \in 1 .. i}
<1>1. /\ order \in Seq(Request) /\ BatchOK(batch, req)
  <2>1. inflight \in Seq(ToSet(inflight)) /\ Len(inflight) \in Nat
        /\ \A b \in ToSet(inflight) : b.order \in Seq(Request)
    BY DEF OrderInv, EngineInv, SchedulerInv, BatchInv
  <2> DEFINE B == ToSet(inflight)
  <2> HIDE DEF B
  <2>2. 1 \in 1 .. Len(inflight) /\ inflight[1] \in B
    BY <2>1 DEF B
  <2> QED BY <2>1, <2>2 DEF OrderInv, EngineInv, PartsOK, InflightOK, B
<1>2. PICK run : Updates(run, s, order, out) /\ UpdateRequests(s, order, out) = run[n]
  BY <1>1, UpdatesExists
<1>3. n \in Nat /\ \A i \in 1 .. n : order[i] \in Request
  BY <1>1
<1>4. /\ \A i, j \in 1 .. n : order[i] = order[j] => i = j
      /\ \A i \in 1 .. n : req[order[i]].status # "NEW"
      /\ \A r \in DOMAIN out : out[r].token \in Vocabulary
  <2>1. DOMAIN order = 1 .. n
    BY <1>1
  <2>2. \A i \in 1 .. n : order[i] \in ToSet(order)
    BY <1>1, ToSetSpec
  <2> QED BY <1>1, <2>1, <2>2 DEF BatchOK, IsInjective
<1>5. OrderSettled(s, {})
  <2>1. Settled(s, {})
    BY OrderSpec, SettledStart
  <2>2. s.faults = faults
    OBVIOUS
  <2> QED BY <2>1, <2>2, OrderSpec DEF OrderSettled
<1> HIDE DEF order, out, n
<1> DEFINE G == {i \in Nat : i <= n => OrderSettled(run[i], done(i))}
<1>6. 0 \in G
  <2>1. run[0] = s /\ done(0) = {}
    BY <1>2 DEF Updates
  <2> HIDE DEF done
  <2>2. OrderSettled(run[0], done(0))
    BY <1>5, <2>1
  <2> QED BY <2>2
<1>7. ASSUME NEW i \in Nat, i \in G PROVE i + 1 \in G
  <2> SUFFICES ASSUME i + 1 <= n PROVE OrderSettled(run[i + 1], done(i + 1))
    OBVIOUS
  <2> DEFINE x == order[i + 1]
             d == done(i)
  <2>1. OrderSettled(run[i], d) /\ i + 1 \in 1 .. n /\ \A k \in 1 .. i : k \in 1 .. n /\ k # i + 1
    BY <1>3, <1>7
  <2>2. x \in Request /\ x \notin d /\ req[x].status # "NEW"
    BY <1>3, <1>4, <2>1
  <2>3. done(i + 1) = d \cup {x}
    <3>1. \A k : k \in 1 .. i + 1 <=> k \in 1 .. i \/ k = i + 1
      OBVIOUS
    <3> QED BY <3>1
  <2>4. run[i + 1] = UpdateRequest(run[i], x, out)
    <3>1. Len(order) = n
      BY DEF n
    <3>2. (i + 1) - 1 = i
      OBVIOUS
    <3> QED BY <1>2, <2>1, <3>1, <3>2 DEF Updates
  <2> HIDE DEF done, d, x
  <2>5. OrderSettled(run[i + 1], d \cup {x})
    BY <1>4, <2>1, <2>2, <2>4, OrderSettledStep DEF out
  <2> QED BY <2>3, <2>5
<1> HIDE DEF G
<1>8. Nat \subseteq G
  BY <1>6, <1>7, SetInduction
<1>9. OrderSettled(run[n], done(n))
  <2>1. n \in Nat /\ n <= n
    BY <1>3
  <2> QED BY <1>8, <2>1 DEF G
<1>10. done(n) = ToSet(order)
  BY <1>1, ToSetSpec DEF order, n
<1> QED BY <1>1, <1>2, <1>9, <1>10 DEF order, out

LEMMA UpdateFromOutputOrder ==
    ASSUME OrderInv, UpdateFromOutput
    PROVE  OrderParts(config, req', step', inflight', worker', faults', admin', callback')
<1> DEFINE s     == [req |-> req, kv |-> kv, faults |-> faults, stopped |-> {}]
           batch == inflight[1]
           t     == UpdateRequests(s, batch.order, batch.out)
           S     == ToSet(batch.order)
<1>1. /\ inflight # <<>> /\ step.phase \in {"idle", "update"}
      /\ UNCHANGED <<worker, admin, callback>>
      /\ req' = t.req /\ faults' = t.faults
      /\ inflight' = Rest /\ step' = NoStep("idle")
  BY DEF UpdateFromOutput, AwaitedBatch, RemoveStopped, Rest
<1>2. s = [req |-> req, kv |-> kv, faults |-> faults, stopped |-> {}] /\ batch = inflight[1]
  OBVIOUS
<1> HIDE DEF s, batch
<1>3. BatchOK(batch, req) /\ OrderSettled(t, S)
  BY <1>1, <1>2, OrderSettledAll
<1> HIDE DEF t, S
<1>4. ASSUME NEW r \in Request
      PROVE  OrderOK(config, r, req'[r], NoStep("idle"), Rest, worker)
  <2>1. CASE r \in S
    BY <1>1, <1>3, <2>1 DEF OrderSettled
  <2>2. CASE r \notin S
    <3>1. r \notin DOMAIN inflight[1].out
      BY <1>2, <1>3, <2>2 DEF BatchOK, S
    <3>2. req'[r] = req[r]
      BY <1>1, <1>3, <2>2 DEF OrderSettled, Settled
    <3> QED BY <1>1, <3>1, <3>2, SkippedOrder
  <2> QED BY <2>1, <2>2
<1>5. "misplaced token" \notin faults'
  BY <1>1, <1>3 DEF OrderSettled
<1> QED BY <1>1, <1>4, <1>5, OrderSpec DEF OrderParts

-----------------------------------------------------------------------------
(* The order: the theorem                                                   *)

LEMMA OrderNext ==
    ASSUME OrderInv, [Next]_vars
    PROVE  OrderInv'
<1>1. EngineInv'
  BY EngineNext, OrderSpec
<1>2. OrderParts(config, req', step', inflight', worker', faults', admin', callback')
  <2>1. CASE EngineStep
    BY <2>1, ScheduleOrder, PreemptRunningOrder, ScheduleWaitingOrder, FinishScheduleOrder,
       UpdateFromOutputOrder DEF EngineStep
  <2>2. CASE ClientCall
    BY <2>2, AddRequestOrder, AbortRequestOrder, ResetCacheOrder, PauseSchedulerOrder,
       PauseAbortOrder DEF ClientCall
  <2>3. CASE IdleCallback \/ ResumeScheduler
    BY <2>3, IdleCallbackOrder
  <2>4. CASE UNCHANGED vars
    <3>1. UNCHANGED <<req, step, inflight, worker, faults, admin, callback>>
      BY <2>4 DEF vars
    <3> QED BY <3>1, OrderUnmoved, OrderSpec
  <2> QED BY <2>1, <2>2, <2>3, <2>4 DEF Next
<1>3. config' = config
  BY DEF Next, vars, EngineStep, ClientCall, BeginSchedule, SkipRunning, ScheduleRunning,
         PreemptRunning, EndRunning, ScheduleWaiting, FinishSchedule, UpdateFromOutput,
         AddRequest, AbortRequest, ResetCache, PauseScheduler, PauseAbort, IdleCallback,
         ResumeScheduler
<1> QED BY <1>1, <1>2, <1>3 DEF OrderInv

LEMMA OrderImplies ==
    ASSUME OrderInv
    PROVE  OutputsInOrder
<1>1. OutputExtendsContext
  BY OrderSpec DEF OutputExtendsContext
<1>2. PlaceholdersMatchInflight
  <2>1. ASSUME NEW r \in Request, Async, req[r].status \in Queued \cup {"RUNNING"}
        PROVE  req[r].placeholders =
                  Cardinality({i \in DOMAIN inflight : r \in DOMAIN inflight[i].out})
    <3>1. req[r].placeholders = CountIn(inflight, r)
      BY <2>1, OrderSpec DEF OrderOK, Live, Async
    <3>2. DOMAIN inflight = 1 .. Len(inflight)
      <4>1. inflight \in Seq(ToSet(inflight))
        BY OrderSpec
      <4> QED BY <4>1
    <3> QED BY <3>1, <3>2 DEF CountIn
  <2> QED BY <2>1 DEF PlaceholdersMatchInflight
<1> QED BY <1>1, <1>2 DEF OutputsInOrder

\* A sampled token is appended to exactly the tokens it was sampled after,
\* and num_output_placeholders counts the tokens in flight: preemption, aborts
\* and a second batch in flight lose, repeat and reorder nothing
\* (scheduler.py: update_from_output, _preempt_request; async_scheduler.py:
\* _update_after_schedule, _update_request_with_output), where no client call
\* resets the running requests while tokens are in flight.
THEOREM OutputsStayInOrder == Spec /\ OrderedQueue => []OutputsInOrder
<1>1. Init /\ OrderedQueue => OrderInv
  <2>1. ASSUME Init, OrderedQueue PROVE OrderInv
    <3>1. AsyncQueue
      BY <2>1 DEF OrderedQueue, AsyncQueue
    <3> QED BY <2>1, <3>1, EngineInit, OrderInit DEF OrderInv
  <2> QED BY <2>1
<1>2. OrderInv /\ [Next]_vars => OrderInv'
  BY OrderNext
<1>3. OrderInv => OutputsInOrder
  BY OrderImplies
<1> QED BY <1>1, <1>2, <1>3, PTL DEF Spec

-----------------------------------------------------------------------------
(* The contents of the KV slots, fcfs policy                                *)

\* The block of a request's table that holds its p-th token, and the slot in
\* that block.
Place(p) == CDiv(p, BlockSize)
Offset(p) == 1 + ((p - 1) % BlockSize)

\* The s-th slot of the i-th block holds one token.
LEMMA PositionUnique ==
    ASSUME NEW p \in Nat, NEW i \in Nat \ {0}, NEW s \in 1 .. BlockSize,
           NEW j \in Nat \ {0}, NEW t \in 1 .. BlockSize,
           p = i * BlockSize - BlockSize + s, p = j * BlockSize - BlockSize + t
    PROVE  i = j /\ s = t
<1>1. BlockSize \in Nat \ {0} /\ i * BlockSize \in Nat /\ j * BlockSize \in Nat
  BY BlockTimes
<1>2. /\ i < j => i * BlockSize + BlockSize <= j * BlockSize
      /\ j < i => j * BlockSize + BlockSize <= i * BlockSize
  BY BlockTimes
<1> DEFINE x == i * BlockSize
           y == j * BlockSize
<1>3. x \in Nat /\ y \in Nat /\ p = x - BlockSize + s /\ p = y - BlockSize + t
  BY <1>1
<1>4. (i < j => x + BlockSize <= y) /\ (j < i => y + BlockSize <= x)
  BY <1>2
<1>5. i = j => x = y
  OBVIOUS
<1> HIDE DEF x, y
<1>6. ~ (i < j) /\ ~ (j < i)
  BY <1>1, <1>3, <1>4
<1>7. i = j
  BY <1>6
<1> QED BY <1>1, <1>3, <1>5, <1>7

\* The p-th token has a slot.
LEMMA PositionSpec ==
    ASSUME NEW p \in Nat \ {0}
    PROVE  /\ Place(p) \in Nat \ {0} /\ Offset(p) \in 1 .. BlockSize
           /\ p = Place(p) * BlockSize - BlockSize + Offset(p)
           /\ p <= Place(p) * BlockSize /\ Place(p) * BlockSize \in Nat
<1> DEFINE c == Place(p)
           n == c * BlockSize
           k == p - 1
           d == k \div BlockSize
           e == k % BlockSize
           x == d * BlockSize
           y == (d + 1) * BlockSize
<1>1. BlockSize \in Nat \ {0} /\ k \in Nat
  BY BlockTimes
<1>2. c \in Nat /\ p <= n /\ n < p + BlockSize
  BY BlockCDiv DEF Place
<1>3. d \in Nat /\ x <= k /\ k < x + BlockSize
  BY <1>1, BlockDiv
<1>4. e \in 0 .. BlockSize - 1 /\ k = BlockSize * d + e
  BY <1>1
<1>5. BlockSize * d = x
  <2> HIDE DEF d
  <2> QED BY <1>1, <1>3
<1>6. n \in Nat /\ x \in Nat /\ y = x + BlockSize /\ d + 1 \in Nat \ {0}
  <2> HIDE DEF c, d
  <2> QED BY <1>2, <1>3, BlockTimes
<1>7. /\ c < d + 1 => n + BlockSize <= y
      /\ d + 1 < c => y + BlockSize <= n
  <2> HIDE DEF c, d
  <2> QED BY <1>2, <1>3, BlockTimes
<1> HIDE DEF n, x, y, d, c, e
<1>8. k = x + e
  BY <1>4, <1>5
<1>9. ~ (c < d + 1) /\ ~ (d + 1 < c)
  BY <1>1, <1>2, <1>3, <1>6, <1>7
<1>10. c = d + 1
  BY <1>2, <1>3, <1>9
<1>11. n = y
  BY <1>10 DEF n, y
<1>12. Offset(p) = 1 + e
  BY DEF Offset, e
<1>13. c \in Nat \ {0} /\ 1 + e \in 1 .. BlockSize /\ p = n - BlockSize + (1 + e)
  BY <1>1, <1>3, <1>4, <1>6, <1>8, <1>10, <1>11
<1> QED BY <1>2, <1>6, <1>12, <1>13 DEF n, c

\* Which slot it is.
LEMMA PositionIs ==
    ASSUME NEW i \in Nat \ {0}, NEW s \in 1 .. BlockSize,
           NEW p, p = i * BlockSize - BlockSize + s
    PROVE  p \in Nat \ {0} /\ p <= i * BlockSize /\ Place(p) = i /\ Offset(p) = s
<1>1. BlockSize \in Nat \ {0} /\ i * BlockSize \in Nat /\ BlockSize <= i * BlockSize
  <2>1. 1 <= i /\ 1 \in Nat /\ i \in Nat
    OBVIOUS
  <2>2. 1 * BlockSize <= i * BlockSize
    BY <2>1, BlockTimes
  <2> QED BY <2>2, BlockTimes
<1>2. p \in Nat \ {0} /\ p <= i * BlockSize
  BY <1>1
<1>3. /\ Place(p) \in Nat \ {0} /\ Offset(p) \in 1 .. BlockSize
      /\ p = Place(p) * BlockSize - BlockSize + Offset(p)
  BY <1>2, PositionSpec
<1>4. Place(p) = i /\ Offset(p) = s
  BY <1>2, <1>3, PositionUnique
<1> QED BY <1>2, <1>4

\* A token that fits into n blocks is in one of them.
LEMMA PlaceFits ==
    ASSUME NEW p \in Nat \ {0}, NEW n \in Nat, p <= n * BlockSize
    PROVE  Place(p) \in 1 .. n
<1> DEFINE i == Place(p)
           x == i * BlockSize
           y == n * BlockSize
<1>1. i \in Nat \ {0} /\ Offset(p) \in 1 .. BlockSize /\ p = x - BlockSize + Offset(p)
  BY PositionSpec
<1>2. BlockSize \in Nat \ {0} /\ x \in Nat /\ y \in Nat /\ p <= y
  BY <1>1, BlockTimes
<1>3. n < i => y + BlockSize <= x
  BY <1>1, BlockTimes
<1> HIDE DEF i, x, y
<1>4. ~ (n < i)
  BY <1>1, <1>2, <1>3
<1>5. i \in 1 .. n
  BY <1>1, <1>4
<1> QED BY <1>5 DEF i

\* What a sequence starts with, the longer one starts with.
LEMMA SamePrefix ==
    ASSUME NEW V, NEW s \in Seq(V), NEW t \in Seq(V), Extends(s, t),
           NEW p \in Nat, p <= Len(s)
    PROVE  SubSeq(t, 1, p) = SubSeq(s, 1, p)
<1> DEFINE a == SubSeq(s, 1, p)
           b == SubSeq(t, 1, p)
<1>1. p <= Len(t) /\ Len(s) \in Nat /\ Len(t) \in Nat
  BY DEF Extends
<1>2. a \in Seq(V) /\ Len(a) = p /\ \A k \in 1 .. p : a[k] = s[k]
  OBVIOUS
<1>3. b \in Seq(V) /\ Len(b) = p /\ \A k \in 1 .. p : b[k] = t[k]
  BY <1>1
<1> HIDE DEF a, b
<1>4. \A k \in 1 .. p : a[k] = b[k]
  BY <1>1, <1>2, <1>3 DEF Extends
<1>5. a = b
  BY <1>2, <1>3, <1>4, SeqEqual
<1> QED BY <1>5 DEF a, b

LEMMA ExtendsPrefix ==
    ASSUME NEW V, NEW s \in Seq(V), NEW n \in Nat, n <= Len(s)
    PROVE  /\ SubSeq(s, 1, n) \in Seq(V) /\ Len(SubSeq(s, 1, n)) = n
           /\ Extends(SubSeq(s, 1, n), s)
<1> DEFINE a == SubSeq(s, 1, n)
<1>1. a \in Seq(V) /\ Len(a) = n /\ \A k \in 1 .. n : a[k] = s[k]
  OBVIOUS
<1> HIDE DEF a
<1>2. Extends(a, s)
  BY <1>1 DEF Extends
<1> QED BY <1>1, <1>2 DEF a

\* The tokens that a slot of a block with this hash is for.
SlotTokens(h, s) == SubSeq(h, 1, Len(h) - BlockSize + s)

\* The slots of the i-th block of a request are for the tokens of the request.
LEMMA HashTokens ==
    ASSUME NEW V, NEW tok \in Seq(V), NEW i \in Nat \ {0}, i * BlockSize <= Len(tok),
           NEW s \in 1 .. BlockSize, NEW p, p = i * BlockSize - BlockSize + s
    PROVE  /\ p \in Nat \ {0} /\ p <= Len(tok)
           /\ SlotTokens(BlockHash(tok, i), s) = SubSeq(tok, 1, p)
<1>1. p \in Nat \ {0} /\ p <= i * BlockSize /\ i * BlockSize \in Nat /\ Len(tok) \in Nat
  <2>1. p \in Nat \ {0} /\ p <= i * BlockSize
    BY PositionIs
  <2>2. i \in Nat
    OBVIOUS
  <2>3. i * BlockSize \in Nat
    BY <2>2, BlockTimes
  <2> QED BY <2>1, <2>3
<1>2. p <= Len(tok)
  BY <1>1
<1> DEFINE h == BlockHash(tok, i)
<1>3. h \in Seq(V) /\ Len(h) = i * BlockSize /\ Extends(h, tok)
  BY <1>1, ExtendsPrefix DEF BlockHash
<1> HIDE DEF h
<1>4. SubSeq(tok, 1, p) = SubSeq(h, 1, p)
  BY <1>1, <1>3, SamePrefix
<1>5. SlotTokens(h, s) = SubSeq(h, 1, p)
  BY <1>3 DEF SlotTokens
<1> QED BY <1>1, <1>2, <1>4, <1>5 DEF h

-----------------------------------------------------------------------------

\* A chain of outputs extends the tokens it starts from.
LEMMA ChainExtends ==
    ASSUME NEW V, NEW S, NEW batches \in Seq(S), NEW r, NEW K \in Seq(V), NEW last,
           Chain(K, batches, r, last),
           \A i \in 1 .. Len(batches) : r \in DOMAIN batches[i].out => batches[i].out[r].token \in V
    PROVE  last \in Seq(V) /\ Extends(K, last)
<1> DEFINE n == Len(batches)
<1>1. PICK f : /\ f[0] = K /\ f[n] = last
               /\ \A i \in 1 .. n :
                     LET out == batches[i].out
                     IN  IF r \in DOMAIN out
                         THEN out[r].after = f[i - 1] /\ f[i] = Append(f[i - 1], out[r].token)
                         ELSE f[i] = f[i - 1]
  BY DEF Chain
<1>2. n \in Nat
  OBVIOUS
<1> DEFINE G == {i \in Nat : i <= n => f[i] \in Seq(V) /\ Extends(K, f[i])}
<1>3. 0 \in G
  BY <1>1 DEF Extends
<1>4. ASSUME NEW i \in Nat, i \in G PROVE i + 1 \in G
  <2> SUFFICES ASSUME i + 1 <= n PROVE f[i + 1] \in Seq(V) /\ Extends(K, f[i + 1])
    OBVIOUS
  <2> DEFINE j == i + 1
             out == batches[j].out
  <2>1. j \in 1 .. n /\ j - 1 = i /\ f[i] \in Seq(V) /\ Extends(K, f[i])
    BY <1>2, <1>4
  <2>2. IF r \in DOMAIN out THEN f[j] = Append(f[i], out[r].token) ELSE f[j] = f[i]
    BY <1>1, <2>1
  <2>3. r \in DOMAIN out => out[r].token \in V
    BY <2>1
  <2> HIDE DEF j, out
  <2>4. ASSUME r \in DOMAIN out PROVE f[j] \in Seq(V) /\ Extends(K, f[j])
    <3> DEFINE g == f[i]
               e == out[r].token
    <3>1. g \in Seq(V) /\ e \in V /\ f[j] = Append(g, e) /\ Extends(K, g)
      BY <2>1, <2>2, <2>3, <2>4
    <3> HIDE DEF g, e
    <3>2. Append(g, e) \in Seq(V) /\ Extends(K, Append(g, e))
      BY <3>1 DEF Extends
    <3> QED BY <3>1, <3>2
  <2>5. ASSUME r \notin DOMAIN out PROVE f[j] \in Seq(V) /\ Extends(K, f[j])
    BY <2>1, <2>2, <2>5
  <2> QED BY <2>4, <2>5 DEF j
<1> HIDE DEF G
<1>5. Nat \subseteq G
  BY <1>3, <1>4, SetInduction
<1> QED BY <1>1, <1>2, <1>5 DEF G

\* The outputs in flight only add tokens of the vocabulary.
LEMMA InflightTokens ==
    ASSUME EngineInv, NEW r
    PROVE  /\ inflight \in Seq(ToSet(inflight))
           /\ \A i \in 1 .. Len(inflight) :
                 r \in DOMAIN inflight[i].out => inflight[i].out[r].token \in Alphabet(config)
<1>1. inflight \in Seq(ToSet(inflight))
  BY DEF EngineInv, SchedulerInv, BatchInv
<1>2. \A i \in 1 .. Len(inflight) : BatchOK(inflight[i], req)
  BY DEF EngineInv, PartsOK, InflightOK
<1> QED BY <1>1, <1>2 DEF BatchOK, Alphabet

\* The tokens a batch has for a running request.
Context(r) == IF r \in step.fresh THEN Tokens(r) ELSE worker[r]

LEMMA ContextSpec ==
    ASSUME OrderInv, NEW r \in Request, req[r].status = "RUNNING"
    PROVE  /\ Tokens(r) \in Seq(Alphabet(config)) /\ NumTokens(r) = Len(Tokens(r))
           /\ Context(r) \in Seq(Alphabet(config)) /\ Extends(Tokens(r), Context(r))
           /\ r \notin step.fresh => Len(worker[r]) = NumTokens(r) + CountIn(inflight, r)
<1>1. EngineInv /\ OrderOK(config, r, req[r], step, inflight, worker)
  BY OrderSpec
<1>2. /\ r \in DOMAIN config.prompt /\ Tokens(r) \in Seq(Alphabet(config))
      /\ NumTokens(r) = Length(config, r, req[r])
  BY <1>1, SentSpec
<1>3. CASE r \in step.fresh
  BY <1>2, <1>3 DEF Context, Extends, NumTokens
<1>4. CASE r \notin step.fresh
  <2>1. /\ Chain(Tokens(r), inflight, r, worker[r])
        /\ Len(worker[r]) = NumTokens(r) + CountIn(inflight, r)
    BY <1>1, <1>2, <1>4 DEF OrderOK, Tokens, Prompt
  <2>2. worker[r] \in Seq(Alphabet(config)) /\ Extends(Tokens(r), worker[r])
    BY <1>1, <1>2, <2>1, InflightTokens, ChainExtends
  <2> QED BY <1>2, <1>4, <2>1, <2>2 DEF Context, NumTokens
<1> QED BY <1>3, <1>4

\* The slot of the p-th token is for the tokens up to it, if its block is
\* published; a block that is not has one owner.
LEMMA SlotSpec ==
    ASSUME NEW m, NEW tok, NEW V, KVInv(m, tok, V), NEW r \in Request,
           NEW p \in Nat \ {0}, p <= Len(m.table[r]) * BlockSize,
           NEW b, b = m.table[r][Place(p)]
    PROVE  /\ Place(p) \in 1 .. Len(m.table[r]) /\ b \in Block /\ b \in ToSet(m.table[r])
           /\ Offset(p) \in 1 .. BlockSize
           /\ Place(p) <= Done(m, r) => m.hash[b] # NoHash
           /\ m.hash[b] = NoHash => \A q \in Request : b \in ToSet(m.table[q]) => q = r
           /\ m.hash[b] # NoHash =>
                 /\ tok[r] \in Seq(V) /\ p <= Len(tok[r])
                 /\ SlotTokens(m.hash[b], Offset(p)) = SubSeq(tok[r], 1, p)
<1> DEFINE i == Place(p)
           s == Offset(p)
           t == m.table[r]
<1>1. t \in Seq(Block \ {NullBlock}) /\ Len(t) \in Nat
  BY DEF KVInv, KVTypes
<1>2. i \in Nat \ {0} /\ s \in 1 .. BlockSize /\ p = i * BlockSize - BlockSize + s
  BY PositionSpec
<1>3. i \in 1 .. Len(t)
  BY <1>1, PlaceFits
<1>4. b \in Block /\ b \in ToSet(t) /\ t # <<>>
  BY <1>1, <1>3, ToSetSpec
<1>5. PublishedOf(m, tok, V, r) /\ Done(m, r) <= Len(t)
  BY DEF KVInv, Published, PublishedOf
<1>6. /\ i <= Done(m, r) => i * BlockSize <= Len(tok[r]) /\ m.hash[b] = BlockHash(tok[r], i)
      /\ i > Done(m, r) => /\ m.hash[b] = NoHash
                           /\ \A q \in Request : b \in ToSet(m.table[q]) => q = r
      /\ tok[r] \in Seq(V)
  BY <1>3, <1>4, <1>5 DEF PublishedOf
<1>7. Done(m, r) \in Nat
  BY DEF KVInv, KVTypes, Done, NotCached
<1>8. ASSUME i <= Done(m, r)
      PROVE  /\ m.hash[b] # NoHash /\ p <= Len(tok[r])
             /\ SlotTokens(m.hash[b], s) = SubSeq(tok[r], 1, p)
  <2>1. m.hash[b] = BlockHash(tok[r], i) /\ i * BlockSize <= Len(tok[r])
    BY <1>6, <1>8
  <2>2. p <= Len(tok[r]) /\ SlotTokens(BlockHash(tok[r], i), s) = SubSeq(tok[r], 1, p)
    BY <1>2, <1>6, <2>1, HashTokens
  <2>3. BlockHash(tok[r], i) # NoHash
    BY <1>2, <1>6, <2>1, BlockHashSpec
  <2> QED BY <2>1, <2>2, <2>3
<1>9. i <= Done(m, r) \/ i > Done(m, r)
  BY <1>2, <1>7
<1> QED BY <1>2, <1>3, <1>4, <1>6, <1>8, <1>9

\* Two tokens that share a slot are the same token of the same prefix.
LEMMA SharedSlot ==
    ASSUME NEW m, NEW tok, NEW V, KVInv(m, tok, V), NEW r \in Request, NEW q \in Request,
           NEW p \in Nat \ {0}, p <= Len(m.table[r]) * BlockSize,
           NEW p2 \in Nat \ {0}, p2 <= Len(m.table[q]) * BlockSize,
           m.table[r][Place(p)] = m.table[q][Place(p2)], Offset(p) = Offset(p2)
    PROVE  /\ p = p2
           /\ \/ r = q
              \/ /\ tok[r] \in Seq(V) /\ p <= Len(tok[r]) /\ tok[q] \in Seq(V) /\ p <= Len(tok[q])
                 /\ SubSeq(tok[r], 1, p) = SubSeq(tok[q], 1, p)
<1> DEFINE b == m.table[r][Place(p)]
<1>1. /\ Place(p) \in 1 .. Len(m.table[r]) /\ b \in Block /\ b \in ToSet(m.table[r])
      /\ m.hash[b] = NoHash => \A x \in Request : b \in ToSet(m.table[x]) => x = r
      /\ m.hash[b] # NoHash =>
            /\ tok[r] \in Seq(V) /\ p <= Len(tok[r])
            /\ SlotTokens(m.hash[b], Offset(p)) = SubSeq(tok[r], 1, p)
  BY SlotSpec
<1>2. /\ Place(p2) \in 1 .. Len(m.table[q]) /\ b \in ToSet(m.table[q])
      /\ m.hash[b] # NoHash =>
            /\ tok[q] \in Seq(V) /\ p2 <= Len(tok[q])
            /\ SlotTokens(m.hash[b], Offset(p2)) = SubSeq(tok[q], 1, p2)
  BY SlotSpec
<1>3. CASE r = q
  <2>1. m.table[r] \in Seq(Block \ {NullBlock}) /\ IsInjective(m.table[r])
    BY DEF KVInv, KVTypes, Counted
  <2>2. Place(p) = Place(p2)
    BY <1>1, <1>2, <1>3, <2>1, ToSetSpec
  <2>3. /\ p = Place(p) * BlockSize - BlockSize + Offset(p)
        /\ p2 = Place(p2) * BlockSize - BlockSize + Offset(p2)
    BY PositionSpec
  <2> QED BY <1>3, <2>2, <2>3
<1>4. CASE r # q
  <2>1. m.hash[b] # NoHash
    BY <1>1, <1>2, <1>4
  <2> DEFINE x == SubSeq(tok[r], 1, p)
             y == SubSeq(tok[q], 1, p2)
  <2>2. x = y
    BY <1>1, <1>2, <2>1
  <2>3. Len(x) = p
    BY <1>1, <2>1, ExtendsPrefix
  <2>4. Len(y) = p2
    BY <1>2, <2>1, ExtendsPrefix
  <2>5. p = p2
    BY <2>2, <2>3, <2>4
  <2> QED BY <1>1, <1>2, <2>1, <2>2, <2>5
<1> QED BY <1>3, <1>4

-----------------------------------------------------------------------------

At(mm, t, p) == mm[t[Place(p)]][Offset(p)]

\* Slot s of block b waits for a token scheduled in the schedule() call under
\* way.
Pending(rq, m, st, b, s) ==
    \E r \in ToSet(st.order) : \E p \in rq[r].computed + 1 .. rq[r].computed + st.num[r] :
        m.table[r][Place(p)] = b /\ Offset(p) = s

\* The computed tokens of a running request are in its slots; those of a
\* request admitted by this call are cache hits.
HoldsKV(q, m, st, w, mm, r) ==
    IF r \in st.fresh THEN q.computed <= Done(m, r) * BlockSize
    ELSE \A p \in 1 .. q.computed : At(mm, m.table[r], p) = SubSeq(w[r], 1, p)

\* A published block holds the KV of its tokens or waits for it.
HashKV(rq, m, st, mm, b) ==
    m.hash[b] # NoHash => \A s \in 1 .. BlockSize :
        mm[b][s] = SlotTokens(m.hash[b], s) \/ Pending(rq, m, st, b, s)

MemOK(rq, m, st, w, mm, fs) ==
    /\ "wrong KV" \notin fs
    /\ \A r \in Request : rq[r].status = "RUNNING" => HoldsKV(rq[r], m, st, w, mm, r)
    /\ \A b \in Block : HashKV(rq, m, st, mm, b)

MemInv ==
    OrderInv /\ (config.policy = "fcfs" => MemOK(req, kv, step, worker, mem, faults))

\* A running request goes on with the tokens it has computed.
Stays(rq, rq2, m, m2, st, st2, r) ==
    /\ rq[r].status = "RUNNING" /\ rq2[r].computed = rq[r].computed
    /\ rq[r].computed \in Nat /\ st.num[r] \in Nat
    /\ r \in st2.fresh <=> r \in st.fresh
    /\ Done(m, r) \in Nat /\ Done(m2, r) \in Nat /\ Done(m, r) <= Done(m2, r)
    /\ Extends(m.table[r], m2.table[r]) /\ Len(m.table[r]) \in Nat
    /\ rq[r].computed + st.num[r] <= Len(m.table[r]) * BlockSize

LEMMA StaysSpec ==
    ASSUME NEW rq, NEW rq2, NEW m, NEW m2, NEW st, NEW st2, NEW r,
           Stays(rq, rq2, m, m2, st, st2, r)
    PROVE  /\ rq[r].computed \in Nat /\ st.num[r] \in Nat
           /\ rq[r].status = "RUNNING" /\ rq2[r].computed = rq[r].computed
           /\ 1 .. rq[r].computed \subseteq 1 .. rq[r].computed + st.num[r]
           /\ rq[r].computed + 1 .. rq[r].computed + st.num[r]
                 \subseteq 1 .. rq[r].computed + st.num[r]
           /\ \A p \in 1 .. rq[r].computed + st.num[r] :
                 p \in Nat \ {0} /\ p <= Len(m.table[r]) * BlockSize
<1>1. /\ rq[r].computed \in Nat /\ st.num[r] \in Nat
      /\ rq[r].status = "RUNNING" /\ rq2[r].computed = rq[r].computed
      /\ Len(m.table[r]) \in Nat
      /\ rq[r].computed + st.num[r] <= Len(m.table[r]) * BlockSize
  BY DEF Stays
<1>2. Len(m.table[r]) * BlockSize \in Nat
  BY <1>1, BlockTimes
<1> DEFINE c == rq[r].computed
           n == st.num[r]
           x == Len(m.table[r]) * BlockSize
<1>3. c \in Nat /\ n \in Nat /\ x \in Nat /\ c + n <= x
  BY <1>1, <1>2
<1> HIDE DEF c, n, x
<1>4. /\ 1 .. c \subseteq 1 .. c + n /\ c + 1 .. c + n \subseteq 1 .. c + n
      /\ \A p \in 1 .. c + n : p \in Nat \ {0} /\ p <= x
  BY <1>3
<1> QED BY <1>1, <1>4 DEF c, n, x

\* Its tokens keep their places.
LEMMA StaysPlace ==
    ASSUME NEW rq, NEW rq2, NEW m, NEW m2, NEW st, NEW st2, NEW r,
           Stays(rq, rq2, m, m2, st, st2, r)
    PROVE  \A p \in 1 .. rq[r].computed + st.num[r] :
              m2.table[r][Place(p)] = m.table[r][Place(p)]
<1> SUFFICES ASSUME NEW p \in 1 .. rq[r].computed + st.num[r]
             PROVE  m2.table[r][Place(p)] = m.table[r][Place(p)]
  OBVIOUS
<1>1. p \in Nat \ {0} /\ p <= Len(m.table[r]) * BlockSize
  BY StaysSpec
<1>2. Place(p) \in 1 .. Len(m.table[r])
  BY <1>1, PlaceFits DEF Stays
<1> QED BY <1>2 DEF Stays, Extends

\* What it has computed stays in its slots.
LEMMA StaysHolds ==
    ASSUME NEW rq, NEW rq2, NEW m, NEW m2, NEW st, NEW st2, NEW w, NEW mm, NEW r,
           Stays(rq, rq2, m, m2, st, st2, r), HoldsKV(rq[r], m, st, w, mm, r)
    PROVE  HoldsKV(rq2[r], m2, st2, w, mm, r)
<1>1. CASE r \in st.fresh
  <2>1. /\ rq[r].computed <= Done(m, r) * BlockSize
        /\ rq2[r].computed = rq[r].computed /\ rq[r].computed \in Nat
        /\ r \in st2.fresh
    BY <1>1 DEF HoldsKV, Stays
  <2> DEFINE a == Done(m, r)
             b == Done(m2, r)
             x == a * BlockSize
             y == b * BlockSize
  <2>2. a \in Nat /\ b \in Nat /\ a <= b
    BY DEF Stays
  <2> HIDE DEF a, b
  <2>3. x <= y /\ x \in Nat /\ y \in Nat
    BY <2>2, BlockTimes
  <2>4. rq2[r].computed <= x /\ rq2[r].computed \in Nat
    BY <2>1 DEF a
  <2> HIDE DEF x, y
  <2>5. rq2[r].computed <= y
    BY <2>3, <2>4
  <2> QED BY <2>1, <2>5 DEF HoldsKV, y, b
<1>2. CASE r \notin st.fresh
  <2>1. r \notin st2.fresh /\ rq2[r].computed = rq[r].computed
    BY <1>2 DEF Stays
  <2>2. ASSUME NEW p \in 1 .. rq[r].computed
        PROVE  At(mm, m2.table[r], p) = SubSeq(w[r], 1, p)
    <3>1. At(mm, m.table[r], p) = SubSeq(w[r], 1, p)
      BY <1>2 DEF HoldsKV
    <3>2. p \in 1 .. rq[r].computed + st.num[r]
      BY StaysSpec
    <3>3. m2.table[r][Place(p)] = m.table[r][Place(p)]
      BY <3>2, StaysPlace
    <3> QED BY <3>1, <3>3 DEF At
  <2> QED BY <2>1, <2>2 DEF HoldsKV
<1> QED BY <1>1, <1>2

\* A slot that waits for one of its tokens goes on waiting.
LEMMA StaysPending ==
    ASSUME NEW rq, NEW rq2, NEW m, NEW m2, NEW st, NEW st2, NEW b, NEW s,
           \A r \in ToSet(st.order) : /\ r \in ToSet(st2.order)
                                      /\ Stays(rq, rq2, m, m2, st, st2, r)
                                      /\ st2.num[r] = st.num[r],
           Pending(rq, m, st, b, s)
    PROVE  Pending(rq2, m2, st2, b, s)
<1>1. PICK r \in ToSet(st.order) : \E p \in rq[r].computed + 1 .. rq[r].computed + st.num[r] :
          m.table[r][Place(p)] = b /\ Offset(p) = s
  BY DEF Pending
<1>2. PICK p \in rq[r].computed + 1 .. rq[r].computed + st.num[r] :
          m.table[r][Place(p)] = b /\ Offset(p) = s
  BY <1>1
<1>3. r \in ToSet(st2.order) /\ Stays(rq, rq2, m, m2, st, st2, r) /\ st2.num[r] = st.num[r]
  BY <1>1
<1>4. p \in 1 .. rq[r].computed + st.num[r]
  BY <1>2, <1>3, StaysSpec
<1>5. m2.table[r][Place(p)] = m.table[r][Place(p)]
  <2>1. \A k \in 1 .. rq[r].computed + st.num[r] :
            m2.table[r][Place(k)] = m.table[r][Place(k)]
    BY <1>3, StaysPlace
  <2> QED BY <1>4, <2>1
<1>6. p \in rq2[r].computed + 1 .. rq2[r].computed + st2.num[r]
  BY <1>2, <1>3 DEF Stays
<1>7. m2.table[r][Place(p)] = b /\ Offset(p) = s
  BY <1>2, <1>5
<1> QED BY <1>3, <1>6, <1>7 DEF Pending

\* What an operation that leaves the memory alone has to show.
LEMMA MemKept ==
    ASSUME NEW rq, NEW rq2, NEW m, NEW m2, NEW st, NEW st2, NEW w, NEW mm, NEW fs, NEW fs2,
           MemOK(rq, m, st, w, mm, fs), "wrong KV" \notin fs2,
           \A r \in Request : rq2[r].status = "RUNNING" =>
               Stays(rq, rq2, m, m2, st, st2, r) \/ HoldsKV(rq2[r], m2, st2, w, mm, r),
           \A r \in ToSet(st.order) : /\ r \in ToSet(st2.order)
                                      /\ Stays(rq, rq2, m, m2, st, st2, r)
                                      /\ st2.num[r] = st.num[r],
           \A b \in Block : m2.hash[b] \in {NoHash, m.hash[b]} \/ HashKV(rq2, m2, st2, mm, b)
    PROVE  MemOK(rq2, m2, st2, w, mm, fs2)
<1>1. ASSUME NEW r \in Request, rq2[r].status = "RUNNING"
      PROVE  HoldsKV(rq2[r], m2, st2, w, mm, r)
  <2> SUFFICES ASSUME Stays(rq, rq2, m, m2, st, st2, r) PROVE HoldsKV(rq2[r], m2, st2, w, mm, r)
    BY <1>1
  <2>1. HoldsKV(rq[r], m, st, w, mm, r)
    BY DEF Stays, MemOK
  <2> QED BY <2>1, StaysHolds
<1>2. ASSUME NEW b \in Block PROVE HashKV(rq2, m2, st2, mm, b)
  <2>1. \A s \in 1 .. BlockSize : Pending(rq, m, st, b, s) => Pending(rq2, m2, st2, b, s)
    BY StaysPending
  <2>2. HashKV(rq, m, st, mm, b)
    BY DEF MemOK
  <2> QED BY <2>1, <2>2 DEF HashKV
<1> QED BY <1>1, <1>2 DEF MemOK

\* The facts about a running request that the frame needs.
LEMMA RunningStays ==
    ASSUME OrderInv, NEW r \in Request, req[r].status = "RUNNING",
           NEW rq2, rq2[r].computed = req[r].computed,
           NEW m2, m2.table \in [Request -> Seq(Block \ {NullBlock})],
           Done(m2, r) \in Nat, Done(kv, r) <= Done(m2, r),
           Extends(kv.table[r], m2.table[r]),
           NEW st2, r \in st2.fresh <=> r \in step.fresh
    PROVE  Stays(req, rq2, kv, m2, step, st2, r)
<1>1. EngineInv
  BY DEF OrderInv
<1>2. /\ Fits(config, r, req[r], step.num[r], kv.table[r]) /\ ReqOK(config, r, req[r])
      /\ step.num[r] \in Nat
  BY <1>1 DEF EngineInv, PartsOK, StepOK
<1>3. KVTypes(kv)
  BY <1>1 DEF EngineInv, PartsOK, KVInv
<1>4. Done(kv, r) \in Nat /\ Len(kv.table[r]) \in Nat
  BY <1>3 DEF KVTypes, Done, NotCached
<1>5. req[r].computed \in Nat
  BY <1>2 DEF ReqOK
<1>6. req[r].computed + step.num[r] <= Len(kv.table[r]) * BlockSize
  BY <1>2 DEF Fits
<1> QED BY <1>2, <1>4, <1>5, <1>6 DEF Stays

-----------------------------------------------------------------------------

LEMMA ExtendsItself ==
    ASSUME NEW V, NEW s \in Seq(V)
    PROVE  Extends(s, s)
BY DEF Extends

LEMMA SameNumber ==
    ASSUME NEW a \in Nat, NEW b, b = a
    PROVE  b \in Nat /\ a <= b
OBVIOUS

\* A step that schedules nothing and leaves the running requests that stay
\* alone.
LEMMA MemFrame ==
    ASSUME MemInv, config.policy = "fcfs", OrderInv', UNCHANGED <<worker, mem>>,
           "wrong KV" \notin faults',
           \A r \in Request : req'[r].status = "RUNNING" =>
               /\ req[r].status = "RUNNING" /\ req'[r].computed = req[r].computed
               /\ r \in step'.fresh <=> r \in step.fresh
               /\ kv'.table[r] = kv.table[r] /\ kv'.cached[r] = kv.cached[r],
           \A r \in ToSet(step.order) : /\ r \in ToSet(step'.order)
                                        /\ req'[r].status = "RUNNING"
                                        /\ step'.num[r] = step.num[r],
           \A b \in Block : kv'.hash[b] \in {NoHash, kv.hash[b]}
    PROVE  MemOK(req', kv', step', worker', mem', faults')
<1>1. OrderInv /\ MemOK(req, kv, step, worker, mem, faults)
  BY DEF MemInv
<1>2. /\ KVTypes(kv) /\ KVTypes(kv') /\ ToSet(step.order) \subseteq ToSet(running)
      /\ running \in Seq(Request)
  BY <1>1 DEF OrderInv, EngineInv, SchedulerInv, Placed, PartsOK, KVInv, StepOK
<1>3. ASSUME NEW r \in Request, req'[r].status = "RUNNING"
      PROVE  Stays(req, req', kv, kv', step, step', r)
  <2>1. /\ req[r].status = "RUNNING" /\ req'[r].computed = req[r].computed
        /\ r \in step'.fresh <=> r \in step.fresh
        /\ kv'.table[r] = kv.table[r] /\ kv'.cached[r] = kv.cached[r]
    BY <1>3
  <2>2. /\ kv.table[r] \in Seq(Block \ {NullBlock}) /\ kv'.table \in [Request -> Seq(Block \ {NullBlock})]
        /\ kv.cached[r] \in Nat \cup {NotCached}
    BY <1>2 DEF KVTypes
  <2>3. Done(kv', r) = Done(kv, r) /\ Done(kv, r) \in Nat
    BY <2>1, <2>2 DEF Done, NotCached
  <2> DEFINE a == Done(kv, r)
             b == Done(kv', r)
  <2>4. b \in Nat /\ a <= b
    <3>1. a \in Nat /\ b = a
      BY <2>3
    <3> HIDE DEF a, b
    <3> QED BY <3>1, SameNumber, Zenon
  <2>5. Extends(kv.table[r], kv'.table[r])
    BY <2>1, <2>2, ExtendsItself
  <2> QED BY <1>1, <2>1, <2>2, <2>4, <2>5, RunningStays
<1>4. ASSUME NEW r \in ToSet(step.order)
      PROVE  /\ r \in ToSet(step'.order) /\ Stays(req, req', kv, kv', step, step', r)
             /\ step'.num[r] = step.num[r]
  <2>1. r \in Request
    BY <1>2, ToSetSpec
  <2> QED BY <1>3, <2>1
<1>5. MemOK(req', kv', step', worker, mem, faults')
  BY <1>1, <1>3, <1>4, MemKept
<1> QED BY <1>5

\* Outside schedule() nothing is scheduled.
LEMMA IdleStep ==
    ASSUME OrderInv, step.phase \in {"idle", "update"}
    PROVE  step.order = <<>> /\ step.fresh = {} /\ ToSet(step.order) = {}
<1>1. step = NoStep(step.phase)
  BY DEF OrderInv, EngineInv, PartsOK, StepOK
<1>2. step.order = <<>> /\ step.fresh = {}
  BY <1>1 DEF NoStep
<1>3. <<>> \in Seq(Request)
  OBVIOUS
<1> QED BY <1>2, <1>3, ToSetSpec

\* Freeing requests leaves the blocks published and the other requests alone.
LEMMA FreeRequestsKept ==
    ASSUME NEW m, NEW tok, NEW V, KVInv(m, tok, V), NEW order \in Seq(Request)
    PROVE  /\ FreeRequests(m, order).hash = m.hash
           /\ \A r \in Request : r \notin ToSet(order) =>
                 /\ FreeRequests(m, order).table[r] = m.table[r]
                 /\ FreeRequests(m, order).cached[r] = m.cached[r]
<1>1. PICK run : Frees(run, m, order) /\ FreeRequests(m, order) = run[Len(order)]
  BY FreesExists
<1> DEFINE n == Len(order)
           Same(i) == /\ KVInv(run[i], tok, V) /\ run[i].hash = m.hash
                      /\ \A r \in Request : r \notin ToSet(order) =>
                            run[i].table[r] = m.table[r] /\ run[i].cached[r] = m.cached[r]
           G == {i \in Nat : i <= n => Same(i)}
<1>2. n \in Nat
  OBVIOUS
<1>3. 0 \in G
  BY <1>1 DEF Frees
<1>4. ASSUME NEW i \in Nat, i \in G PROVE i + 1 \in G
  <2> SUFFICES ASSUME i + 1 <= n PROVE Same(i + 1)
    OBVIOUS
  <2> DEFINE x == order[i + 1]
             a == run[i]
             b == run[i + 1]
  <2>1. /\ KVInv(a, tok, V) /\ a.hash = m.hash
        /\ \A r \in Request : r \notin ToSet(order) =>
              a.table[r] = m.table[r] /\ a.cached[r] = m.cached[r]
    BY <1>2, <1>4
  <2>2. i + 1 \in 1 .. n /\ i + 1 - 1 = i
    BY <1>2
  <2>3. b = FreeRequest(a, x) /\ x \in Request /\ x \in ToSet(order)
    BY <1>1, <2>2, ToSetSpec DEF Frees
  <2>4. KVTypes(a) /\ Counted(a)
    BY <2>1 DEF KVInv
  <2>5. GivesBlocks(a, b, x)
    BY <2>3, <2>4, GivesBlocksSpec
  <2>6. /\ KVInv(b, tok, V)
        /\ \A q \in Request \ {x} : b.table[q] = a.table[q] /\ b.cached[q] = a.cached[q]
    BY <2>1, <2>3, <2>5, GivesBlocksInv
  <2>7. b.hash = a.hash
    BY <2>5 DEF GivesBlocks
  <2> HIDE DEF a, b, x
  <2>8. /\ KVInv(b, tok, V) /\ b.hash = m.hash
        /\ \A r \in Request : r \notin ToSet(order) =>
              b.table[r] = m.table[r] /\ b.cached[r] = m.cached[r]
    BY <2>1, <2>3, <2>6, <2>7
  <2> QED BY <2>8 DEF b
<1> HIDE DEF G
<1>5. Nat \subseteq G
  BY <1>3, <1>4, SetInduction
<1>6. Same(n)
  BY <1>2, <1>5 DEF G
<1> QED BY <1>1, <1>6

\* A call that changes no running request.
LEMMA MemUnmoved ==
    ASSUME MemInv, config.policy = "fcfs", OrderInv', step.phase \in {"idle", "update"},
           UNCHANGED <<kv, step, worker, mem, faults>>,
           \A r \in Request : req'[r].status = "RUNNING" => req'[r] = req[r]
    PROVE  MemOK(req', kv', step', worker', mem', faults')
<1>1. "wrong KV" \notin faults' /\ ToSet(step.order) = {}
  BY IdleStep DEF MemInv, MemOK
<1> QED BY <1>1, MemFrame

LEMMA AddRequestMem ==
    ASSUME MemInv, config.policy = "fcfs", OrderInv', NEW r \in Request, AddRequest(r)
    PROVE  MemOK(req', kv', step', worker', mem', faults')
<1>1. /\ step.phase = "idle" /\ req'[r].status = "WAITING"
      /\ \A q \in Request \ {r} : req'[q] = req[q]
      /\ UNCHANGED <<kv, step, worker, mem, faults>>
  BY DEF AddRequest, MemInv, OrderInv, EngineInv, SchedulerInv, ReqInv, ReqShape, ReqFields
<1> QED BY <1>1, MemUnmoved

\* Requests are aborted: their blocks stay published.
LEMMA FinishRequestsMem ==
    ASSUME MemInv, config.policy = "fcfs", OrderInv', step.phase \in {"idle", "update"},
           UNCHANGED <<step, worker, mem, faults>>,
           NEW S, NEW order \in Seq(Request), ToSet(order) = S, FinishRequests(S, order)
    PROVE  MemOK(req', kv', step', worker', mem', faults')
<1>1. OrderInv /\ "wrong KV" \notin faults' /\ ToSet(step.order) = {}
  BY IdleStep DEF MemInv, MemOK
<1>2. KVInv(kv, Known(config, req), Alphabet(config)) /\ kv' = FreeRequests(kv, order)
  BY <1>1 DEF OrderInv, EngineInv, PartsOK, FinishRequests
<1>3. /\ kv'.hash = kv.hash
      /\ \A r \in Request : r \notin S =>
            kv'.table[r] = kv.table[r] /\ kv'.cached[r] = kv.cached[r]
  BY <1>2, FreeRequestsKept
<1>4. ASSUME NEW r \in Request, req'[r].status = "RUNNING"
      PROVE  r \notin S /\ req'[r] = req[r]
  <2>1. CASE r \in S
    <3>1. req'[r].status = "FINISHED_ABORTED"
      BY <2>1 DEF FinishRequests, MemInv, OrderInv, EngineInv, SchedulerInv, ReqInv, ReqShape, ReqFields
    <3> QED BY <1>4, <3>1
  <2>2. CASE r \notin S
    BY <2>2 DEF FinishRequests
  <2> QED BY <2>1, <2>2
<1> QED BY <1>1, <1>3, <1>4, MemFrame

LEMMA AbortRequestMem ==
    ASSUME MemInv, config.policy = "fcfs", OrderInv', NEW r \in Request, AbortRequest(r)
    PROVE  MemOK(req', kv', step', worker', mem', faults')
<1>1. /\ FinishRequests({r}, <<r>>) /\ step.phase \in {"idle", "update"}
      /\ UNCHANGED <<step, worker, mem, faults>>
  BY DEF AbortRequest
<1>2. <<r>> \in Seq(Request) /\ ToSet(<<r>>) = {r}
  BY SingletonSpec
<1> QED BY <1>1, <1>2, FinishRequestsMem

\* Running requests are preempted and the cache is cleared.
LEMMA ResetRunningMem ==
    ASSUME MemInv, config.policy = "fcfs", OrderInv', step.phase = "idle",
           UNCHANGED <<step, worker, mem>>, ResetRunning(req, running, waiting, kv)
    PROVE  MemOK(req', kv', step', worker', mem', faults')
<1>1. OrderInv /\ ToSet(step.order) = {}
  BY IdleStep DEF MemInv
<1>2. "wrong KV" \notin faults'
  BY DEF MemInv, MemOK, ResetRunning
<1>3. ASSUME NEW r \in Request, req'[r].status = "RUNNING" PROVE FALSE
  <2>1. ToSet(running) = {q \in Request : req[q].status = "RUNNING"}
    BY <1>1 DEF OrderInv, EngineInv, SchedulerInv, Placed
  <2>2. CASE r \in ToSet(running)
    <3>1. req'[r].status = "PREEMPTED"
      BY <2>2 DEF ResetRunning, Preempted, MemInv, OrderInv, EngineInv, SchedulerInv, ReqInv,
                  ReqShape, ReqFields
    <3> QED BY <1>3, <3>1
  <2>3. CASE r \notin ToSet(running)
    BY <1>3, <2>1, <2>3 DEF ResetRunning
  <2> QED BY <2>2, <2>3
<1> DEFINE m == FreeRequests(kv, Reverse(running))
<1>4. m.hash = kv.hash /\ KVShape(m)
  <2>1. KVInv(kv, Known(config, req), Alphabet(config)) /\ running \in Seq(Request)
    BY <1>1 DEF OrderInv, EngineInv, PartsOK, SchedulerInv, Placed
  <2>2. Reverse(running) \in Seq(Request)
    BY <2>1, ReverseSpec
  <2>3. KVShape(kv)
    BY <2>1 DEF KVInv, KVTypes
  <2> QED BY <2>1, <2>2, <2>3, FreeRequestsKept, FreeRequestsTables
<1>5. kv' = ResetPrefixCache(m)
  BY DEF ResetRunning
<1> HIDE DEF m
<1>6. \A b \in Block : kv'.hash[b] \in {NoHash, kv.hash[b]}
  BY <1>4, <1>5 DEF ResetPrefixCache, KVShape, KVFields
<1> QED BY <1>1, <1>2, <1>3, <1>6, MemFrame

LEMMA ResetCacheMem ==
    ASSUME MemInv, config.policy = "fcfs", OrderInv', NEW all \in BOOLEAN, ResetCache(all)
    PROVE  MemOK(req', kv', step', worker', mem', faults')
<1>1. /\ step.phase = "idle" /\ UNCHANGED <<step, worker, mem>>
      /\ \/ ResetRunning(req, running, waiting, kv)
         \/ kv' = ResetPrefixCache(kv) /\ UNCHANGED <<req, faults>>
  BY DEF ResetCache
<1>2. CASE ResetRunning(req, running, waiting, kv)
  BY <1>1, <1>2, ResetRunningMem
<1>3. CASE kv' = ResetPrefixCache(kv) /\ UNCHANGED <<req, faults>>
  <2>1. "wrong KV" \notin faults' /\ ToSet(step.order) = {} /\ KVShape(kv)
    BY <1>1, <1>3, IdleStep DEF MemInv, MemOK, OrderInv, EngineInv, SchedulerInv
  <2>2. kv'.table = kv.table /\ kv'.cached = kv.cached
    BY <1>3, <2>1 DEF ResetPrefixCache, KVShape, KVFields
  <2>3. \A b \in Block : kv'.hash[b] \in {NoHash, kv.hash[b]}
    BY <1>3, <2>1 DEF ResetPrefixCache, KVShape, KVFields
  <2> QED BY <1>1, <1>3, <2>1, <2>2, <2>3, MemFrame
<1> QED BY <1>1, <1>2, <1>3

LEMMA PauseSchedulerMem ==
    ASSUME MemInv, config.policy = "fcfs", OrderInv', NEW mode, NEW clear \in BOOLEAN,
           PauseScheduler(mode, clear)
    PROVE  MemOK(req', kv', step', worker', mem', faults')
<1>1. /\ step.phase = "idle" /\ UNCHANGED <<step, worker, mem>>
      /\ ResetRunning(req, running, waiting, kv) \/ UNCHANGED <<req, kv, faults>>
  BY DEF PauseScheduler
<1> QED BY <1>1, ResetRunningMem, MemUnmoved

LEMMA IdleCallbackMem ==
    ASSUME MemInv, config.policy = "fcfs", OrderInv', IdleCallback \/ ResumeScheduler
    PROVE  MemOK(req', kv', step', worker', mem', faults')
<1>1. /\ step.phase = "idle" /\ UNCHANGED <<step, worker, mem>>
      /\ ResetRunning(req, running, waiting, kv) \/ UNCHANGED <<req, kv, faults>>
  BY DEF IdleCallback, ResumeScheduler
<1> QED BY <1>1, ResetRunningMem, MemUnmoved

LEMMA PauseAbortMem ==
    ASSUME MemInv, config.policy = "fcfs", OrderInv', NEW clear \in BOOLEAN, PauseAbort(clear)
    PROVE  MemOK(req', kv', step', worker', mem', faults')
<1> DEFINE S == {r \in Request : req[r].status \in Queued \cup {"RUNNING"}}
<1>1. /\ step.phase \in {"idle", "update"} /\ UNCHANGED <<step, worker, mem, faults>>
      /\ \E order \in [1 .. Cardinality(S) -> S] :
            ToSet(order) = S /\ FinishRequests(S, order)
  BY DEF PauseAbort
<1>2. Cardinality(S) \in Nat
  <2>1. S \subseteq Sent(req)
    BY StatusesDiffer DEF Sent
  <2> HIDE DEF S
  <2>2. IsFiniteSet(S)
    BY <2>1, FS_Subset DEF MemInv, OrderInv, EngineInv, SchedulerInv, ReqInv
  <2> QED BY <2>2, FS_CardinalityType
<1>3. S \in SUBSET Request
  OBVIOUS
<1> HIDE DEF S
<1>4. PICK order \in [1 .. Cardinality(S) -> S] : ToSet(order) = S /\ FinishRequests(S, order)
  BY <1>1
<1>5. order \in Seq(Request)
  BY <1>2, <1>3
<1> QED BY <1>1, <1>4, <1>5, FinishRequestsMem

\* A step of schedule() that schedules nothing.
LEMMA LoopMem ==
    ASSUME MemInv, config.policy = "fcfs", OrderInv', BeginSchedule \/ EndRunning \/ SkipRunning
    PROVE  MemOK(req', kv', step', worker', mem', faults')
<1>1. UNCHANGED <<req, kv, worker, mem, faults>>
  BY DEF BeginSchedule, EndRunning, SkipRunning
<1>2. "wrong KV" \notin faults' /\ OrderInv
  BY <1>1 DEF MemInv, MemOK
<1>3. step'.fresh = step.fresh
  <2>1. CASE BeginSchedule
    <3> DEFINE s == NoStep("running")
    <3>1. step' = [s EXCEPT !.budget = step'.budget] /\ step.phase \in {"idle", "update"}
      BY <2>1 DEF BeginSchedule, NoStep
    <3>2. step'.fresh = {}
      BY <3>1 DEF NoStep
    <3> QED BY <1>2, <3>1, <3>2, IdleStep
  <2>2. CASE EndRunning
    BY <2>2 DEF EndRunning, MemInv, OrderInv, EngineInv, SchedulerInv, StepInv, StepFields
  <2>3. CASE SkipRunning
    BY <2>3 DEF SkipRunning, MemInv, OrderInv, EngineInv, SchedulerInv, StepInv, StepFields
  <2> QED BY <2>1, <2>2, <2>3
<1>4. \A r \in ToSet(step.order) : r \in ToSet(step'.order) /\ step'.num[r] = step.num[r]
  <2>1. CASE BeginSchedule
    <3>1. ToSet(step.order) = {}
      BY <1>2, <2>1, IdleStep DEF BeginSchedule
    <3> QED BY <3>1
  <2>2. CASE EndRunning
    <3>1. step'.order = step.order /\ step'.num = step.num
      BY <2>2 DEF EndRunning, MemInv, OrderInv, EngineInv, SchedulerInv, StepInv, StepFields
    <3> QED BY <3>1
  <2>3. CASE SkipRunning
    <3>1. step'.order = step.order /\ step'.num = step.num
      BY <2>3 DEF SkipRunning, MemInv, OrderInv, EngineInv, SchedulerInv, StepInv, StepFields
    <3> QED BY <3>1
  <2> QED BY <2>1, <2>2, <2>3
<1>5. \A r \in ToSet(step.order) : req[r].status = "RUNNING"
  BY <1>2, ScheduledSpec DEF OrderInv
<1> QED BY <1>1, <1>2, <1>3, <1>4, <1>5, MemFrame

\* The victim is not scheduled: it was admitted last.
LEMMA PreemptRunningMem ==
    ASSUME MemInv, config.policy = "fcfs", OrderInv', PreemptRunning
    PROVE  MemOK(req', kv', step', worker', mem', faults')
<1> DEFINE v == PreemptionVictim
<1>1. /\ UNCHANGED <<worker, mem, faults>> /\ InRunningLoop
      /\ ~NothingToSchedule(CurrentRequest)
      /\ req' = [req EXCEPT ![v] = Preempted(@)]
      /\ kv' = FreeRequest(kv, v)
      /\ EngineInv /\ "wrong KV" \notin faults
  BY DEF PreemptRunning, MemInv, MemOK, OrderInv
<1>2. v \in Request /\ req[v].status = "RUNNING" /\ v \notin ToSet(step.order)
  BY <1>1, VictimPosition
<1>3. /\ step'.fresh = step.fresh /\ step'.num = [step.num EXCEPT ![v] = 0]
      /\ ToSet(step'.order) = ToSet(step.order) \ {v}
  BY <1>1, PreemptsSpec DEF Preempts
<1> HIDE DEF v
<1>4. /\ req'[v].status = "PREEMPTED"
      /\ \A r \in Request \ {v} : req'[r] = req[r]
  BY <1>1, <1>2 DEF EngineInv, SchedulerInv, ReqInv, ReqShape, ReqFields, Preempted
<1>5. KVInv(kv, Known(config, req), Alphabet(config))
  BY <1>1 DEF EngineInv, PartsOK
<1>6. GivesBlocks(kv, kv', v)
  BY <1>1, <1>2, <1>5, GivesBlocksSpec DEF KVInv
<1>7. /\ kv'.hash = kv.hash
      /\ \A r \in Request \ {v} : kv'.table[r] = kv.table[r] /\ kv'.cached[r] = kv.cached[r]
  BY <1>2, <1>5, <1>6, GivesBlocksInv DEF GivesBlocks
<1>8. ASSUME NEW r \in ToSet(step.order)
      PROVE  /\ r \in ToSet(step'.order) /\ req'[r].status = "RUNNING"
             /\ step'.num[r] = step.num[r]
  <2>1. r \in Request /\ r # v /\ req[r].status = "RUNNING"
    BY <1>1, <1>2, ScheduledSpec
  <2>2. r \in DOMAIN step.num
    BY <1>1, <2>1 DEF EngineInv, SchedulerInv, StepInv
  <2> QED BY <1>3, <1>4, <2>1, <2>2
<1>9. ASSUME NEW r \in Request, req'[r].status = "RUNNING"
      PROVE  /\ req[r].status = "RUNNING" /\ req'[r].computed = req[r].computed
             /\ r \in step'.fresh <=> r \in step.fresh
             /\ kv'.table[r] = kv.table[r] /\ kv'.cached[r] = kv.cached[r]
  <2>1. r # v
    BY <1>4, <1>9
  <2> QED BY <1>3, <1>4, <1>7, <1>9, <2>1
<1> QED BY <1>1, <1>7, <1>8, <1>9, MemFrame

\* A block published now holds the KV of its tokens as far as they are
\* computed, and waits for the rest.
LEMMA RehashedKV ==
    ASSUME NEW V, NEW tok \in Seq(V), NEW rq2, NEW m2, NEW st2, NEW mm, NEW r,
           NEW c \in Nat, NEW n \in Nat, NEW from \in Nat, NEW b, NEW i \in Nat,
           from < i, i * BlockSize <= c + n, i * BlockSize <= Len(tok),
           m2.table[r][i] = b, m2.hash[b] = BlockHash(tok, i),
           n # 0 => r \in ToSet(st2.order) /\ rq2[r].computed = c /\ st2.num[r] = n,
           \A p \in 1 .. c : Place(p) > from /\ p <= Len(tok) =>
               At(mm, m2.table[r], p) = SubSeq(tok, 1, p)
    PROVE  HashKV(rq2, m2, st2, mm, b)
<1> SUFFICES ASSUME NEW s \in 1 .. BlockSize
             PROVE  mm[b][s] = SlotTokens(m2.hash[b], s) \/ Pending(rq2, m2, st2, b, s)
  BY DEF HashKV
<1> DEFINE p == i * BlockSize - BlockSize + s
           x == i * BlockSize
<1>1. i \in Nat \ {0}
  OBVIOUS
<1>2. p \in Nat \ {0} /\ p <= x /\ Place(p) = i /\ Offset(p) = s
  BY <1>1, PositionIs
<1>3. p <= Len(tok) /\ SlotTokens(m2.hash[b], s) = SubSeq(tok, 1, p)
  BY <1>1, HashTokens
<1>4. x \in Nat /\ x <= c + n
  BY BlockTimes
<1> HIDE DEF p, x
<1>5. CASE p <= c
  <2>1. p \in 1 .. c
    BY <1>2, <1>5
  <2>2. At(mm, m2.table[r], p) = SubSeq(tok, 1, p)
    BY <1>2, <1>3, <2>1
  <2>3. mm[b][s] = SubSeq(tok, 1, p)
    BY <1>2, <2>2 DEF At
  <2> QED BY <1>3, <2>3
<1>6. CASE ~ (p <= c)
  <2>1. n # 0 /\ p \in c + 1 .. c + n
    BY <1>2, <1>4, <1>6
  <2>2. r \in ToSet(st2.order) /\ p \in rq2[r].computed + 1 .. rq2[r].computed + st2.num[r]
    BY <2>1
  <2>3. m2.table[r][Place(p)] = b /\ Offset(p) = s
    BY <1>2
  <2> QED BY <2>2, <2>3 DEF Pending
<1> QED BY <1>5, <1>6

\* The same in a consistent cache.
LEMMA RehashesKV ==
    ASSUME NEW m, NEW m2, NEW tok, NEW V, KVInv(m2, tok, V), NEW r \in Request, tok[r] \in Seq(V),
           NEW rq2, NEW st2, NEW mm, NEW c \in Nat, NEW n \in Nat, NEW from \in Nat,
           Rehashes(m, m2, r, tok[r], from, c + n), c + n <= Len(m2.table[r]) * BlockSize,
           n # 0 => r \in ToSet(st2.order) /\ rq2[r].computed = c /\ st2.num[r] = n,
           \A p \in 1 .. c : Place(p) > from /\ p <= Len(tok[r]) =>
               At(mm, m2.table[r], p) = SubSeq(tok[r], 1, p)
    PROVE  \A b \in Block : m2.hash[b] \in {NoHash, m.hash[b]} \/ HashKV(rq2, m2, st2, mm, b)
<1> SUFFICES ASSUME NEW b \in Block, m2.hash[b] \notin {NoHash, m.hash[b]}
             PROVE  HashKV(rq2, m2, st2, mm, b)
  OBVIOUS
<1>1. PICK i \in Nat : /\ from < i /\ i * BlockSize <= c + n
                       /\ m2.table[r][i] = b /\ m2.hash[b] = BlockHash(tok[r], i)
  BY DEF Rehashes
<1> DEFINE p == i * BlockSize
           x == Len(m2.table[r]) * BlockSize
<1>2. BlockSize \in Nat \ {0} /\ BlockSize \in 1 .. BlockSize /\ i \in Nat \ {0}
  BY <1>1, BlockTimes
<1>3. p = i * BlockSize - BlockSize + BlockSize
  <2>1. i * BlockSize \in Nat
    BY BlockTimes
  <2> QED BY <1>2, <2>1
<1>4. p \in Nat \ {0} /\ Place(p) = i
  BY <1>2, <1>3, PositionIs
<1>5. p <= x
  <2>1. Len(m2.table[r]) \in Nat
    BY DEF KVInv, KVTypes
  <2>2. x \in Nat
    BY <2>1, BlockTimes
  <2>3. p <= c + n /\ c + n <= x
    BY <1>1
  <2> HIDE DEF p, x
  <2> QED BY <1>4, <2>2, <2>3
<1>6. p <= Len(tok[r])
  <2> HIDE DEF p
  <2>1. b = m2.table[r][Place(p)] /\ m2.hash[b] # NoHash
    BY <1>1, <1>4
  <2> QED BY <1>4, <1>5, <2>1, SlotSpec
<1> HIDE DEF x
<1> QED BY <1>1, <1>6, RehashedKV

\* What a slot holds for a request of the batch that is not new: its own copy
\* of the tokens extends the scheduler's.
LEMMA HeldTokens ==
    ASSUME OrderInv, NEW r \in Request, req[r].status = "RUNNING", r \notin step.fresh,
           HoldsKV(req[r], kv, step, worker, mem, r)
    PROVE  \A p \in 1 .. req[r].computed : p <= Len(Tokens(r)) =>
              At(mem, kv.table[r], p) = SubSeq(Tokens(r), 1, p)
<1> SUFFICES ASSUME NEW p \in 1 .. req[r].computed, p <= Len(Tokens(r))
             PROVE  At(mem, kv.table[r], p) = SubSeq(Tokens(r), 1, p)
  OBVIOUS
<1>1. At(mem, kv.table[r], p) = SubSeq(worker[r], 1, p)
  BY DEF HoldsKV
<1>2. /\ Tokens(r) \in Seq(Alphabet(config)) /\ worker[r] \in Seq(Alphabet(config))
      /\ Extends(Tokens(r), worker[r])
  BY ContextSpec DEF Context
<1>3. p \in Nat
  BY DEF OrderInv, EngineInv, PartsOK, ReqOK
<1> QED BY <1>1, <1>2, <1>3, SamePrefix

\* A running request keeps its blocks and gets new ones; what is published
\* holds its tokens up to those of this batch.
LEMMA ScheduleRunningMem ==
    ASSUME MemInv, config.policy = "fcfs", OrderInv', ScheduleRunning
    PROVE  MemOK(req', kv', step', worker', mem', faults')
<1> DEFINE r == CurrentRequest
           n == Wanted(r)
           a == RunningAlloc(r)
           c == req[r].computed
           V == Alphabet(config)
<1>1. /\ UNCHANGED <<config, req, worker, mem, faults>> /\ InRunningLoop
      /\ ~NothingToSchedule(r) /\ a.ok /\ kv' = a.kv
      /\ step' = [step EXCEPT !.num[r] = n, !.order = Append(@, r), !.budget = @ - n,
                              !.idx = @ + 1, !.cur = NoRequest, !.want = 0]
  BY DEF ScheduleRunning
<1>2. OrderInv /\ EngineInv /\ MemOK(req, kv, step, worker, mem, faults)
  BY DEF MemInv, OrderInv
<1>3. /\ r \in Request /\ req[r].status = "RUNNING" /\ r \notin ToSet(step.order)
      /\ n \in Nat \ {0} /\ c \in 0 .. MaxModelLen - 1 /\ c + n <= MaxModelLen - 1
  BY <1>1, <1>2, WantedSpec
<1>4. /\ a = AllocateSlots(kv, r, Known(config, req)[r], c, <<>>, n)
      /\ Known(config, req)[r] = Tokens(r) /\ Known(config, req)[r] \in Seq(V)
  BY <1>2, <1>3, SentSpec, StatusesDiffer DEF RunningAlloc
<1> HIDE DEF r, n, a, c
<1>5. c \in Nat /\ n \in Nat /\ c + n <= MaxModelLen
  BY <1>3, KVCacheAssumption
<1>6. /\ KVInv(kv', Known(config, req), V)
      /\ c + n <= Len(kv'.table[r]) * BlockSize
      /\ \A q \in Request \ {r} : kv'.table[q] = kv.table[q]
      /\ Rehashes(kv, kv', r, Known(config, req)[r], Done(kv, r), c + n)
  <2>1. KVInv(kv, Known(config, req), V)
    BY <1>2 DEF EngineInv, PartsOK
  <2> HIDE DEF V
  <2> QED BY <1>1, <1>3, <1>4, <1>5, <2>1, RunningSlots
<1>7. /\ step'.fresh = step.fresh /\ step'.num = [step.num EXCEPT ![r] = n]
      /\ DOMAIN step.num = Request /\ step'.order = Append(step.order, r)
      /\ step.order \in Seq(Request)
  BY <1>1, <1>2 DEF EngineInv, SchedulerInv, StepInv, StepFields
<1>8. /\ step'.num[r] = n /\ \A q \in Request \ {r} : step'.num[q] = step.num[q]
      /\ ToSet(step'.order) = ToSet(step.order) \cup {r}
  BY <1>3, <1>7, AppendSpec
<1>9. step.fresh = {}
  BY <1>1, <1>2 DEF InRunningLoop, EngineInv, PartsOK, StepOK, LoopOK
<1>10. /\ kv.table \in [Request -> Seq(Block \ {NullBlock})]
       /\ kv'.table \in [Request -> Seq(Block \ {NullBlock})]
       /\ \A q \in Request : Done(kv, q) \in Nat /\ Done(kv', q) \in Nat
  <2>1. KVTypes(kv) /\ KVTypes(kv')
    BY <1>2, <1>6 DEF KVInv, EngineInv, PartsOK
  <2> QED BY <2>1 DEF KVTypes, Done
<1>11. ASSUME NEW q \in Request, req[q].status = "RUNNING"
       PROVE  Stays(req, req', kv, kv', step, step', q)
  <2>1. Extends(kv.table[q], kv'.table[q]) /\ Done(kv, q) <= Done(kv', q)
    <3>1. CASE q = r
      BY <1>6, <3>1 DEF Rehashes
    <3>2. CASE q # r
      <4>1. kv'.table[q] = kv.table[q] /\ kv'.cached[q] = kv.cached[q]
        BY <1>6, <3>2 DEF Rehashes
      <4>2. kv.table[q] \in Seq(Block \ {NullBlock}) /\ Done(kv', q) = Done(kv, q)
        BY <1>10, <4>1 DEF Done
      <4> QED BY <1>10, <4>1, <4>2, ExtendsItself, SameNumber
    <3> QED BY <3>1, <3>2
  <2> QED BY <1>1, <1>2, <1>7, <1>10, <1>11, <2>1, RunningStays
<1>12. \A q \in ToSet(step.order) : /\ q \in ToSet(step'.order)
                                    /\ Stays(req, req', kv, kv', step, step', q)
                                    /\ step'.num[q] = step.num[q]
  BY <1>2, <1>3, <1>8, <1>11, ScheduledSpec
<1>13. \A p \in 1 .. c : Place(p) > Done(kv, r) /\ p <= Len(Known(config, req)[r]) =>
          At(mem, kv'.table[r], p) = SubSeq(Known(config, req)[r], 1, p)
  <2> SUFFICES ASSUME NEW p \in 1 .. c, p <= Len(Known(config, req)[r])
               PROVE  At(mem, kv'.table[r], p) = SubSeq(Known(config, req)[r], 1, p)
    OBVIOUS
  <2>1. At(mem, kv.table[r], p) = SubSeq(Tokens(r), 1, p)
    BY <1>2, <1>3, <1>4, <1>9, HeldTokens DEF MemOK, c
  <2>2. Stays(req, req', kv, kv', step, step', r)
    BY <1>3, <1>11
  <2>3. p \in 1 .. req[r].computed + step.num[r]
    BY <2>2, StaysSpec DEF c
  <2>4. kv'.table[r][Place(p)] = kv.table[r][Place(p)]
    BY <2>2, <2>3, StaysPlace
  <2> QED BY <1>4, <2>1, <2>4 DEF At
<1>14. \A b \in Block : \/ kv'.hash[b] \in {NoHash, kv.hash[b]}
                        \/ HashKV(req', kv', step', mem, b)
  <2>1. n # 0 => r \in ToSet(step'.order) /\ req'[r].computed = c /\ step'.num[r] = n
    BY <1>1, <1>8 DEF c
  <2>2. r \in Request /\ Done(kv, r) \in Nat /\ Known(config, req)[r] \in Seq(V)
    BY <1>3, <1>4, <1>10
  <2> DEFINE tok == Known(config, req)
             from == Done(kv, r)
  <2>3. /\ KVInv(kv', tok, V) /\ tok[r] \in Seq(V) /\ from \in Nat
        /\ Rehashes(kv, kv', r, tok[r], from, c + n) /\ c + n <= Len(kv'.table[r]) * BlockSize
        /\ \A p \in 1 .. c : Place(p) > from /\ p <= Len(tok[r]) =>
               At(mem, kv'.table[r], p) = SubSeq(tok[r], 1, p)
    BY <1>6, <1>13, <2>2
  <2> HIDE DEF V, tok, from
  <2> QED BY <1>5, <2>1, <2>2, <2>3, RehashesKV
<1>15. "wrong KV" \notin faults'
  BY <1>1, <1>2 DEF MemOK
<1> QED BY <1>1, <1>2, <1>11, <1>12, <1>14, <1>15, MemKept

\* A request that is admitted has computed what the blocks it hits hold.
LEMMA ScheduleWaitingMem ==
    ASSUME MemInv, config.policy = "fcfs", OrderInv', ScheduleWaiting
    PROVE  MemOK(req', kv', step', worker', mem', faults')
<1> DEFINE r == Head(waiting)
<1>1. /\ InWaitingLoop /\ UNCHANGED <<config, worker, mem, faults>>
      /\ AdmitWaiting(r, Hits(r))
  BY DEF ScheduleWaiting
<1> DEFINE hits == Hits(r)
           n == NumAdmitted(r, hits)
           k == Len(hits)
           h == k * BlockSize
           a == WaitingAlloc(r, hits)
           V == Alphabet(config)
           tok == Known(config, req)
<1>2. /\ a.ok /\ kv' = a.kv
      /\ req' = [req EXCEPT ![r].status = "RUNNING", ![r].computed = h]
      /\ step' = [step EXCEPT !.num[r] = n, !.order = Append(@, r), !.budget = @ - n,
                              !.fresh = @ \cup {r}]
  BY <1>1 DEF AdmitWaiting, Admissible
<1>3. OrderInv /\ EngineInv /\ MemOK(req, kv, step, worker, mem, faults)
  BY DEF MemInv, OrderInv
<1>4. /\ r \in Request /\ req[r].status \in Queued /\ r \notin ToSet(step.order)
      /\ kv.table[r] = <<>> /\ kv.cached[r] = NotCached
      /\ tok[r] = Tokens(r) /\ tok[r] \in Seq(V)
      /\ hits = <<>> \/ AreHits(kv, tok, V, r, hits)
      /\ h \in 0 .. MaxModelLen - 1 /\ n \in Nat \ {0}
      /\ h + n <= Length(config, r, req[r]) /\ Length(config, r, req[r]) <= MaxModelLen - 1
      /\ Length(config, r, req[r]) \in Nat
  BY <1>1, <1>3, AdmittedSpec
<1>5. k \in Nat
  BY <1>4 DEF AreHits
<1>6. a = AllocateSlots(kv, r, tok[r], 0, hits, n)
  BY <1>4 DEF WaitingAlloc
<1>7. /\ req'[r].status = "RUNNING" /\ req'[r].computed = h
      /\ \A q \in Request \ {r} : req'[q] = req[q]
  BY <1>2, <1>3, <1>4 DEF EngineInv, SchedulerInv, ReqInv, ReqShape, ReqFields
<1>8. /\ step'.num = [step.num EXCEPT ![r] = n] /\ DOMAIN step.num = Request
      /\ step'.order = Append(step.order, r) /\ step'.fresh = step.fresh \cup {r}
      /\ step.order \in Seq(Request)
  BY <1>2, <1>3 DEF EngineInv, SchedulerInv, StepInv, StepFields
<1> HIDE DEF r, hits, n, k, h, a, V, tok
<1>9. h \in Nat /\ n \in Nat /\ h + n <= MaxModelLen
  BY <1>4, KVCacheAssumption
<1>10. /\ KVInv(kv', tok, V)
       /\ h + n <= Len(kv'.table[r]) * BlockSize
       /\ \A q \in Request \ {r} : kv'.table[q] = kv.table[q]
       /\ Rehashes(kv, kv', r, tok[r], k, h + n)
  <2>1. KVInv(kv, tok, V)
    BY <1>3 DEF EngineInv, PartsOK, V, tok
  <2>2. k * BlockSize + n <= MaxModelLen
    BY <1>9 DEF h
  <2>3. /\ KVInv(a.kv, tok, V)
        /\ k * BlockSize + n <= Len(a.kv.table[r]) * BlockSize
        /\ \A q \in Request \ {r} : a.kv.table[q] = kv.table[q]
        /\ Rehashes(kv, a.kv, r, tok[r], k, k * BlockSize + n)
    BY <1>2, <1>4, <1>6, <1>9, <2>1, <2>2, WaitingSlots DEF k
  <2> QED BY <1>2, <2>3 DEF h
<1>11. /\ step'.num[r] = n /\ \A q \in Request \ {r} : step'.num[q] = step.num[q]
       /\ ToSet(step'.order) = ToSet(step.order) \cup {r}
  BY <1>4, <1>8, AppendSpec
<1>12. /\ kv.table \in [Request -> Seq(Block \ {NullBlock})]
       /\ kv'.table \in [Request -> Seq(Block \ {NullBlock})]
       /\ \A q \in Request : Done(kv, q) \in Nat /\ Done(kv', q) \in Nat
  <2>1. KVTypes(kv) /\ KVTypes(kv')
    BY <1>3, <1>10 DEF KVInv, EngineInv, PartsOK
  <2> QED BY <2>1 DEF KVTypes, Done
<1>13. req[r].status # "RUNNING"
  BY <1>4, StatusesDiffer
<1>14. ASSUME NEW q \in Request, req[q].status = "RUNNING"
       PROVE  Stays(req, req', kv, kv', step, step', q)
  <2>1. q # r
    BY <1>13, <1>14
  <2>2. kv'.table[q] = kv.table[q] /\ kv'.cached[q] = kv.cached[q]
    BY <1>10, <2>1 DEF Rehashes
  <2>3. kv.table[q] \in Seq(Block \ {NullBlock}) /\ Done(kv', q) = Done(kv, q)
    BY <1>12, <2>2 DEF Done
  <2>4. Extends(kv.table[q], kv'.table[q]) /\ Done(kv, q) <= Done(kv', q)
    BY <1>12, <2>2, <2>3, ExtendsItself, SameNumber
  <2>5. req'[q].computed = req[q].computed /\ (q \in step'.fresh <=> q \in step.fresh)
    BY <1>7, <1>8, <2>1
  <2> QED BY <1>3, <1>12, <1>14, <2>4, <2>5, RunningStays
<1>15. \A q \in ToSet(step.order) : /\ q \in ToSet(step'.order)
                                    /\ Stays(req, req', kv, kv', step, step', q)
                                    /\ step'.num[q] = step.num[q]
  BY <1>3, <1>4, <1>11, <1>14, ScheduledSpec
<1>16. HoldsKV(req'[r], kv', step', worker, mem, r)
  <2>1. k <= Done(kv', r) /\ Done(kv', r) \in Nat
    BY <1>4, <1>10, <1>12 DEF Rehashes
  <2>2. h <= Done(kv', r) * BlockSize
    BY <1>5, <2>1, BlockTimes DEF h
  <2> QED BY <1>7, <1>8, <2>2 DEF HoldsKV
<1>17. \A q \in Request : req'[q].status = "RUNNING" =>
          \/ Stays(req, req', kv, kv', step, step', q)
          \/ HoldsKV(req'[q], kv', step', worker, mem, q)
  <2> SUFFICES ASSUME NEW q \in Request, req'[q].status = "RUNNING"
               PROVE  \/ Stays(req, req', kv, kv', step, step', q)
                      \/ HoldsKV(req'[q], kv', step', worker, mem, q)
    OBVIOUS
  <2>1. CASE q = r
    BY <1>16, <2>1
  <2>2. CASE q # r
    BY <1>7, <1>14, <2>2
  <2> QED BY <2>1, <2>2
<1>18. \A p \in 1 .. h : Place(p) > k /\ p <= Len(tok[r]) =>
          At(mem, kv'.table[r], p) = SubSeq(tok[r], 1, p)
  <2> SUFFICES ASSUME NEW p \in 1 .. h PROVE ~(Place(p) > k)
    OBVIOUS
  <2>1. p \in Nat \ {0} /\ p <= h
    BY <1>9
  <2>2. Place(p) \in 1 .. k
    BY <1>5, <2>1, PlaceFits DEF h
  <2> QED BY <1>5, <2>2
<1>19. \A b \in Block : \/ kv'.hash[b] \in {NoHash, kv.hash[b]}
                        \/ HashKV(req', kv', step', mem, b)
  <2>1. n # 0 => r \in ToSet(step'.order) /\ req'[r].computed = h /\ step'.num[r] = n
    BY <1>7, <1>11
  <2>2. /\ KVInv(kv', tok, V) /\ tok[r] \in Seq(V) /\ r \in Request /\ k \in Nat
        /\ Rehashes(kv, kv', r, tok[r], k, h + n) /\ h + n <= Len(kv'.table[r]) * BlockSize
        /\ h \in Nat /\ n \in Nat
    BY <1>4, <1>5, <1>9, <1>10
  <2> QED BY <1>18, <2>1, <2>2, RehashesKV
<1>20. "wrong KV" \notin faults'
  BY <1>1, <1>3 DEF MemOK
<1> QED BY <1>1, <1>3, <1>15, <1>17, <1>19, <1>20, MemKept

-----------------------------------------------------------------------------
(* The contents: a batch is dispatched                                      *)

\* A scheduled request runs with its context, and the batch ends within it.
LEMMA ContextIs ==
    ASSUME OrderInv, NEW r \in ToSet(step.order)
    PROVE  /\ WorkerTokens(r) = Context(r)
           /\ BatchEnd(r) \in Nat /\ BatchEnd(r) <= Len(Context(r))
<1> DEFINE n == CountIn(inflight, r)
           N == NumTokens(r)
           p == req[r].placeholders
           w == worker[r]
           c == req[r].computed + step.num[r]
<1>1. /\ r \in Request /\ req[r].status = "RUNNING" /\ req[r].status \in Live
      /\ p \in Nat /\ N \in Nat /\ c \in Nat /\ c <= N + p /\ BatchEnd(r) = c
  BY ScheduledSpec DEF OrderInv, BatchEnd, Live
<1>2. Len(WorkerTokens(r)) = N + n /\ n \in Nat
  BY WorkerTokensOrder, OrderSpec, CountInBounds
<1>3. WorkerTokens(r) = Context(r)
  <2>1. CASE r \in step.fresh
    BY <2>1 DEF WorkerTokens, Context
  <2>2. CASE r \notin step.fresh
    <3>1. w \in Seq(Alphabet(config)) /\ Len(w) = N + n
      BY <1>1, <2>2, ContextSpec DEF Context
    <3>2. WorkerTokens(r) = SubSeq(w, 1, MinOf(Len(w), N + p)) /\ Context(r) = w
      BY <2>2 DEF WorkerTokens, Context
    <3> HIDE DEF n, N, p, w
    <3> DEFINE k == MinOf(Len(w), N + p)
    <3>3. k \in 0 .. Len(w)
      BY <1>1, <1>2, <3>1 DEF MinOf
    <3> HIDE DEF k
    <3>4. Len(SubSeq(w, 1, k)) = k
      BY <3>1, <3>3
    <3>5. k = Len(w)
      BY <1>2, <3>1, <3>2, <3>4 DEF k
    <3>6. SubSeq(w, 1, Len(w)) = w
      BY <3>1
    <3> QED BY <3>2, <3>5, <3>6 DEF k
  <2> QED BY <2>1, <2>2
<1>4. p <= n
  <2>1. OrderOK(config, r, req[r], step, inflight, worker) /\ ReqOK(config, r, req[r])
    BY <1>1, OrderSpec
  <2>2. CASE config.async
    BY <1>1, <1>2, <2>1, <2>2 DEF OrderOK
  <2>3. CASE ~config.async
    BY <1>2, <2>1, <2>3 DEF ReqOK
  <2> QED BY <2>2, <2>3
<1> HIDE DEF n, N, p, c
<1> QED BY <1>1, <1>2, <1>3, <1>4

\* The forward pass leaves a slot alone, or writes the tokens of a request
\* of the batch up to the slot.
LEMMA WrittenSlot ==
    ASSUME OrderInv
    PROVE  \A b \in Block : \A s \in 1 .. BlockSize :
              \/ WriteKV[b][s] = mem[b][s] /\ ~Pending(req, kv, step, b, s)
              \/ \E q \in ToSet(step.order) : \E p \in req[q].computed + 1 .. BatchEnd(q) :
                    /\ kv.table[q][Place(p)] = b /\ Offset(p) = s
                    /\ WriteKV[b][s] = SubSeq(Context(q), 1, p)
<1> SUFFICES ASSUME NEW b \in Block, NEW s \in 1 .. BlockSize
             PROVE  \/ WriteKV[b][s] = mem[b][s] /\ ~Pending(req, kv, step, b, s)
                    \/ \E q \in ToSet(step.order) : \E p \in req[q].computed + 1 .. BatchEnd(q) :
                          /\ kv.table[q][Place(p)] = b /\ Offset(p) = s
                          /\ WriteKV[b][s] = SubSeq(Context(q), 1, p)
  OBVIOUS
<1> DEFINE written == UNION {{<<r, p>> : p \in req[r].computed + 1 .. BatchEnd(r)} :
                             r \in ToSet(step.order)}
           at(i, j) == {w \in written : Slot(w[1], w[2]) = <<i, j>>}
           wrote(w) == SubSeq(WorkerTokens(w[1]), 1, w[2])
<1>1. WriteKV[b][s] = IF at(b, s) = {} THEN mem[b][s]
                      ELSE wrote(CHOOSE w \in at(b, s) : TRUE)
  BY DEF WriteKV
<1>2. \A w \in at(b, s) : \E q \in ToSet(step.order) :
         \E p \in req[q].computed + 1 .. BatchEnd(q) :
            w = <<q, p>> /\ kv.table[q][Place(p)] = b /\ Offset(p) = s
  <2> SUFFICES ASSUME NEW w \in at(b, s)
               PROVE  \E q \in ToSet(step.order) :
                         \E p \in req[q].computed + 1 .. BatchEnd(q) :
                            w = <<q, p>> /\ kv.table[q][Place(p)] = b /\ Offset(p) = s
    OBVIOUS
  <2>1. PICK q \in ToSet(step.order) : \E p \in req[q].computed + 1 .. BatchEnd(q) : w = <<q, p>>
    OBVIOUS
  <2>2. PICK p \in req[q].computed + 1 .. BatchEnd(q) : w = <<q, p>>
    BY <2>1
  <2>3. Slot(q, p) = <<b, s>>
    BY <2>2
  <2>4. kv.table[q][Place(p)] = b /\ Offset(p) = s
    BY <2>3 DEF Slot, Place, Offset
  <2> QED BY <2>2, <2>4
<1>3. Pending(req, kv, step, b, s) => at(b, s) # {}
  <2> SUFFICES ASSUME Pending(req, kv, step, b, s) PROVE at(b, s) # {}
    OBVIOUS
  <2>1. PICK q \in ToSet(step.order) :
           \E p \in req[q].computed + 1 .. req[q].computed + step.num[q] :
              kv.table[q][Place(p)] = b /\ Offset(p) = s
    BY DEF Pending
  <2>2. PICK p \in req[q].computed + 1 .. BatchEnd(q) :
           kv.table[q][Place(p)] = b /\ Offset(p) = s
    BY <2>1 DEF BatchEnd
  <2>3. Slot(q, p) = <<b, s>>
    BY <2>2 DEF Slot, Place, Offset
  <2>4. <<q, p>> \in written
    OBVIOUS
  <2>5. <<q, p>> \in at(b, s)
    BY <2>3, <2>4
  <2> QED BY <2>5
<1>4. CASE at(b, s) = {}
  <2>1. WriteKV[b][s] = mem[b][s]
    BY <1>1, <1>4
  <2> QED BY <1>3, <1>4, <2>1
<1>5. CASE at(b, s) # {}
  <2> DEFINE w == CHOOSE w \in at(b, s) : TRUE
  <2>1. w \in at(b, s)
    <3> HIDE DEF at
    <3> QED BY <1>5
  <2>2. WriteKV[b][s] = wrote(w)
    BY <1>1, <1>5
  <2> HIDE DEF w, at
  <2>3. PICK q \in ToSet(step.order) : \E p \in req[q].computed + 1 .. BatchEnd(q) :
           w = <<q, p>> /\ kv.table[q][Place(p)] = b /\ Offset(p) = s
    BY <1>2, <2>1
  <2>4. PICK p \in req[q].computed + 1 .. BatchEnd(q) :
           w = <<q, p>> /\ kv.table[q][Place(p)] = b /\ Offset(p) = s
    BY <2>3
  <2>5. WriteKV[b][s] = SubSeq(Context(q), 1, p)
    BY <2>2, <2>4, ContextIs
  <2> QED BY <2>4, <2>5
<1> QED BY <1>4, <1>5

\* Of a position that a batch writes: its slot is for the context up to it.
LEMMA BatchPosition ==
    ASSUME OrderInv, NEW q \in ToSet(step.order)
    PROVE  /\ q \in Request
           /\ \A p \in req[q].computed + 1 .. BatchEnd(q) :
                 /\ p \in Nat \ {0} /\ p <= Len(kv.table[q]) * BlockSize
                 /\ p <= Len(Context(q))
<1> DEFINE c == req[q].computed
           e == BatchEnd(q)
           k == Len(kv.table[q]) * BlockSize
           x == Len(Context(q))
<1>1. q \in Request /\ c \in Nat /\ e \in Nat /\ e <= k
  BY ScheduledSpec DEF OrderInv
<1>2. e <= x /\ x \in Nat
  BY <1>1, ContextIs, ContextSpec, ScheduledSpec DEF OrderInv
<1>3. k \in Nat
  <2>1. Len(kv.table[q]) \in Nat
    BY <1>1 DEF OrderInv, EngineInv, PartsOK, KVInv, KVTypes
  <2> QED BY <2>1, BlockTimes
<1> HIDE DEF c, e, k, x
<1>4. \A p \in c + 1 .. e : p \in Nat \ {0} /\ p <= k /\ p <= x
  BY <1>1, <1>2, <1>3
<1> QED BY <1>1, <1>4 DEF c, e, k, x

\* Tokens that are known are the same in the context.
LEMMA KnownContext ==
    ASSUME OrderInv, NEW r \in Request, req[r].status = "RUNNING"
    PROVE  /\ Known(config, req)[r] = Tokens(r)
           /\ \A p \in Nat : p <= Len(Known(config, req)[r]) =>
                 SubSeq(Context(r), 1, p) = SubSeq(Known(config, req)[r], 1, p)
<1>1. Known(config, req)[r] = Tokens(r)
  BY OrderSpec, SentSpec, StatusesDiffer
<1>2. /\ Tokens(r) \in Seq(Alphabet(config)) /\ Context(r) \in Seq(Alphabet(config))
      /\ Extends(Tokens(r), Context(r))
  BY ContextSpec
<1> QED BY <1>1, <1>2, SamePrefix

\* Blocks whose hash is published hold the KV of its tokens.
LEMMA WrittenHash ==
    ASSUME OrderInv, MemOK(req, kv, step, worker, mem, faults)
    PROVE  \A b \in Block : kv.hash[b] # NoHash =>
              \A s \in 1 .. BlockSize : WriteKV[b][s] = SlotTokens(kv.hash[b], s)
<1> SUFFICES ASSUME NEW b \in Block, kv.hash[b] # NoHash, NEW s \in 1 .. BlockSize
             PROVE  WriteKV[b][s] = SlotTokens(kv.hash[b], s)
  OBVIOUS
<1>1. CASE WriteKV[b][s] = mem[b][s] /\ ~Pending(req, kv, step, b, s)
  BY <1>1 DEF MemOK, HashKV
<1>2. ASSUME NEW q \in ToSet(step.order), NEW p \in req[q].computed + 1 .. BatchEnd(q),
             kv.table[q][Place(p)] = b, Offset(p) = s,
             WriteKV[b][s] = SubSeq(Context(q), 1, p)
      PROVE  WriteKV[b][s] = SlotTokens(kv.hash[b], s)
  <2>1. q \in Request /\ p \in Nat \ {0} /\ p <= Len(kv.table[q]) * BlockSize
    BY BatchPosition
  <2>2. KVInv(kv, Known(config, req), Alphabet(config))
    BY DEF OrderInv, EngineInv, PartsOK
  <2>3. /\ p <= Len(Known(config, req)[q])
        /\ SlotTokens(kv.hash[b], s) = SubSeq(Known(config, req)[q], 1, p)
    BY <1>2, <2>1, <2>2, SlotSpec
  <2>4. req[q].status = "RUNNING"
    BY ScheduledSpec DEF OrderInv
  <2>5. p \in Nat
    BY <2>1
  <2>6. SubSeq(Context(q), 1, p) = SubSeq(Known(config, req)[q], 1, p)
    BY <2>1, <2>3, <2>4, <2>5, KnownContext
  <2> QED BY <1>2, <2>3, <2>6
<1> QED BY <1>1, <1>2, WrittenSlot

\* Before the batch, a slot of a request that the batch does not write holds
\* its context.
LEMMA UnwrittenSlot ==
    ASSUME OrderInv, MemOK(req, kv, step, worker, mem, faults),
           NEW r \in Request, req[r].status = "RUNNING",
           NEW p \in 1 .. req[r].computed + step.num[r], p \in Nat \ {0},
           p <= Len(kv.table[r]) * BlockSize,
           ~Pending(req, kv, step, kv.table[r][Place(p)], Offset(p))
    PROVE  At(mem, kv.table[r], p) = SubSeq(Context(r), 1, p)
<1> DEFINE b == kv.table[r][Place(p)]
           s == Offset(p)
           c == req[r].computed
           n == step.num[r]
           tok == Known(config, req)
<1>1. c \in Nat /\ n \in Nat /\ (n # 0 => r \in ToSet(step.order))
  <2>1. c \in 0 .. MaxModelLen - 1
    BY DEF OrderInv, EngineInv, PartsOK, ReqOK
  <2>2. n \in Nat /\ (n > 0 => r \in ToSet(step.order))
    BY DEF OrderInv, EngineInv, PartsOK, StepOK
  <2> HIDE DEF c, n
  <2> QED BY <2>1, <2>2, KVCacheAssumption
<1>2. p <= c
  <2>1. SUFFICES ASSUME ~(p <= c) PROVE FALSE
    OBVIOUS
  <2>2. p \in c + 1 .. c + n /\ n # 0
    <3>1. p \in Nat /\ p <= c + n
      BY <1>1
    <3> HIDE DEF c, n
    <3> QED BY <1>1, <2>1, <3>1
  <2>3. Pending(req, kv, step, b, s)
    BY <1>1, <2>2 DEF Pending
  <2> QED BY <2>3
<1>3. p \in 1 .. c
  BY <1>1, <1>2
<1>4. HoldsKV(req[r], kv, step, worker, mem, r)
  BY DEF MemOK
<1>5. CASE r \notin step.fresh
  BY <1>3, <1>4, <1>5 DEF HoldsKV, Context
<1>6. CASE r \in step.fresh
  <2> DEFINE d == Done(kv, r)
  <2>1. KVInv(kv, tok, Alphabet(config))
    BY DEF OrderInv, EngineInv, PartsOK
  <2>2. d \in Nat /\ c <= d * BlockSize
    BY <1>4, <1>6, <2>1 DEF HoldsKV, KVInv, KVTypes, Done
  <2>3. p <= d * BlockSize
    <3>1. d * BlockSize \in Nat
      BY <2>2, BlockTimes
    <3> DEFINE x == d * BlockSize
    <3>2. x \in Nat /\ c <= x
      BY <2>2, <3>1
    <3>3. p <= x
      <4> HIDE DEF x, c
      <4> QED BY <1>1, <1>2, <3>2
    <3> QED BY <3>3
  <2>4. Place(p) \in 1 .. d
    BY <2>2, <2>3, PlaceFits
  <2>5. Place(p) <= d
    BY <2>2, <2>4
  <2>6. /\ b \in Block /\ s \in 1 .. BlockSize /\ kv.hash[b] # NoHash
        /\ p <= Len(tok[r])
        /\ SlotTokens(kv.hash[b], s) = SubSeq(tok[r], 1, p)
    <3> HIDE DEF tok
    <3> QED BY <2>1, <2>5, SlotSpec
  <2>7. mem[b][s] = SlotTokens(kv.hash[b], s)
    <3>1. HashKV(req, kv, step, mem, b)
      BY <2>6 DEF MemOK
    <3> HIDE DEF b, s
    <3>2. ~Pending(req, kv, step, b, s)
      BY DEF b, s
    <3> QED BY <2>6, <3>1, <3>2 DEF HashKV
  <2>8. SubSeq(Context(r), 1, p) = SubSeq(tok[r], 1, p)
    BY <2>6, KnownContext
  <2> QED BY <2>6, <2>7, <2>8 DEF At
<1> QED BY <1>5, <1>6

\* After the batch every slot of a running request holds its context.
LEMMA BatchReads ==
    ASSUME OrderInv, MemOK(req, kv, step, worker, mem, faults),
           NEW r \in Request, req[r].status = "RUNNING"
    PROVE  \A p \in 1 .. req[r].computed + step.num[r] :
              At(WriteKV, kv.table[r], p) = SubSeq(Context(r), 1, p)
<1> DEFINE e == req[r].computed + step.num[r]
           k == Len(kv.table[r]) * BlockSize
           tok == Known(config, req)
<1>1. KVInv(kv, tok, Alphabet(config))
  BY DEF OrderInv, EngineInv, PartsOK
<1>2. e \in Nat /\ e <= k /\ k \in Nat
  <2>1. req[r].computed \in 0 .. MaxModelLen - 1 /\ step.num[r] \in Nat /\ e <= k
    BY DEF OrderInv, EngineInv, PartsOK, ReqOK, Fits, StepOK
  <2>2. Len(kv.table[r]) \in Nat
    BY <1>1 DEF KVInv, KVTypes
  <2> QED BY <2>1, <2>2, BlockTimes
<1>3. \A p \in 1 .. e : p \in Nat \ {0} /\ p <= k
  <2> HIDE DEF e, k
  <2> QED BY <1>2
<1> SUFFICES ASSUME NEW p \in 1 .. e
             PROVE  At(WriteKV, kv.table[r], p) = SubSeq(Context(r), 1, p)
  OBVIOUS
<1> DEFINE b == kv.table[r][Place(p)]
           s == Offset(p)
<1>4. p \in Nat \ {0} /\ p <= Len(kv.table[r]) * BlockSize
  BY <1>3
<1>5. b \in Block /\ s \in 1 .. BlockSize
  <2> HIDE DEF tok
  <2> QED BY <1>1, <1>4, SlotSpec
<1>6. CASE WriteKV[b][s] = mem[b][s] /\ ~Pending(req, kv, step, b, s)
  <2>1. At(mem, kv.table[r], p) = SubSeq(Context(r), 1, p)
    BY <1>4, <1>6, UnwrittenSlot
  <2> QED BY <1>6, <2>1 DEF At
<1>7. ASSUME NEW q \in ToSet(step.order), NEW t \in req[q].computed + 1 .. BatchEnd(q),
             kv.table[q][Place(t)] = b, Offset(t) = s,
             WriteKV[b][s] = SubSeq(Context(q), 1, t)
      PROVE  At(WriteKV, kv.table[r], p) = SubSeq(Context(r), 1, p)
  <2>1. q \in Request /\ t \in Nat \ {0} /\ t <= Len(kv.table[q]) * BlockSize
    BY BatchPosition
  <2>2. /\ p = t
        /\ \/ r = q
           \/ /\ p <= Len(tok[r]) /\ p <= Len(tok[q])
              /\ SubSeq(tok[r], 1, p) = SubSeq(tok[q], 1, p)
    <3> HIDE DEF tok
    <3> QED BY <1>1, <1>4, <1>7, <2>1, SharedSlot
  <2>3. SubSeq(Context(q), 1, p) = SubSeq(Context(r), 1, p)
    <3>1. CASE r = q
      BY <3>1
    <3>2. CASE /\ p <= Len(tok[r]) /\ p <= Len(tok[q])
               /\ SubSeq(tok[r], 1, p) = SubSeq(tok[q], 1, p)
      <4>1. req[q].status = "RUNNING" /\ p \in Nat
        BY <1>4, ScheduledSpec DEF OrderInv
      <4>2. SubSeq(Context(q), 1, p) = SubSeq(tok[q], 1, p)
        BY <2>1, <3>2, <4>1, KnownContext
      <4>3. SubSeq(Context(r), 1, p) = SubSeq(tok[r], 1, p)
        BY <3>2, <4>1, KnownContext
      <4> QED BY <3>2, <4>2, <4>3
    <3> QED BY <2>2, <3>1, <3>2
  <2> QED BY <1>7, <2>2, <2>3 DEF At
<1> QED BY <1>5, <1>6, <1>7, WrittenSlot

\* Every request of the batch reads its own KV.
LEMMA NoWrongRead ==
    ASSUME OrderInv, MemOK(req, kv, step, worker, mem, faults), FinishSchedule
    PROVE  "wrong KV" \notin faults'
<1>1. \A r \in ToSet(step.order) : ReadsOwnKV(r, WriteKV)
  <2> SUFFICES ASSUME NEW r \in ToSet(step.order), NEW p \in 1 .. BatchEnd(r)
               PROVE  WriteKV[Slot(r, p)[1]][Slot(r, p)[2]] = SubSeq(WorkerTokens(r), 1, p)
    BY DEF ReadsOwnKV
  <2>1. r \in Request /\ req[r].status = "RUNNING"
    BY ScheduledSpec DEF OrderInv
  <2>2. At(WriteKV, kv.table[r], p) = SubSeq(Context(r), 1, p)
    BY <2>1, BatchReads DEF BatchEnd
  <2>3. Slot(r, p)[1] = kv.table[r][Place(p)] /\ Slot(r, p)[2] = Offset(p)
    BY DEF Slot, Place, Offset
  <2> QED BY <2>2, <2>3, ContextIs DEF At
<1>2. mem' = WriteKV
  BY Zenon DEF FinishSchedule
<1> DEFINE wrong == {f \in {"wrong KV"} : \E r \in ToSet(step.order) : ~ReadsOwnKV(r, mem')}
           bad == {f \in {"bad batch"} : \/ step.budget < 0
                                         \/ Len(running) > MaxNumRunningReqs
                                         \/ Len(step.order) > Len(running)}
<1>3. faults' = (faults \cup wrong) \cup bad
  BY Zenon DEF FinishSchedule
<1>4. wrong = {}
  BY <1>1, <1>2, Zenon
<1>5. "wrong KV" # "bad batch"
  BY Zenon
<1>6. "wrong KV" \notin bad
  BY <1>5, Zenon
<1>7. "wrong KV" \notin faults
  BY Zenon DEF MemOK
<1> HIDE DEF wrong, bad
<1> QED BY <1>3, <1>4, <1>6, <1>7, Zenon

\* What a running request holds after the batch: the worker's tokens extend
\* those it ran with.
LEMMA DispatchHolds ==
    ASSUME OrderInv, MemOK(req, kv, step, worker, mem, faults), UpdateAfterSchedule,
           NEW batch, NEW sampled, Dispatches(batch, sampled),
           NEW r \in Request, req'[r].status = "RUNNING"
    PROVE  \A p \in 1 .. req'[r].computed :
              At(WriteKV, kv.table[r], p) = SubSeq(worker'[r], 1, p)
<1>1. Counts(r, step.num[r])
  BY CountsSpec DEF OrderInv
<1>2. req[r].status = "RUNNING" /\ req'[r].computed = req[r].computed + step.num[r]
  BY <1>1 DEF Counts
<1> DEFINE e == req[r].computed + step.num[r]
           c == Context(r)
           w == worker'[r]
           V == Alphabet(config)
<1>3. \A p \in 1 .. e : At(WriteKV, kv.table[r], p) = SubSeq(c, 1, p)
  BY <1>2, BatchReads
<1>4. \A p \in 1 .. e : SubSeq(w, 1, p) = SubSeq(c, 1, p)
  <2>1. CASE r \in ToSet(step.order)
    <3>1. /\ c \in Seq(V) /\ WorkerTokens(r) = c /\ e \in Nat /\ e <= Len(c)
      BY <1>2, <2>1, ContextIs, ContextSpec DEF BatchEnd
    <3>2. w \in Seq(V)
      BY <2>1, DispatchWorker DEF OrderInv
    <3>3. Extends(c, w)
      <4>1. CASE r \in Samples
        <5>1. w = Append(c, sampled[r]) /\ sampled[r] \in V
          <6>1. w = Append(WorkerTokens(r), sampled[r]) /\ sampled[r] \in Vocabulary
            BY <4>1 DEF Dispatches
          <6> QED BY <3>1, <6>1 DEF Alphabet
        <5> HIDE DEF c, w, V
        <5>2. Len(w) = Len(c) + 1 /\ \A k \in 1 .. Len(c) : w[k] = c[k]
          BY <3>1, <5>1, AppendProperties
        <5> QED BY <3>1, <5>2 DEF Extends
      <4>2. CASE r \notin Samples
        <5>1. w = c
          BY <2>1, <3>1, <4>2 DEF Dispatches
        <5> HIDE DEF c, w, V
        <5> QED BY <3>1, <5>1, ExtendsItself
      <4> QED BY <4>1, <4>2
    <3> HIDE DEF c, w, V, e
    <3>4. \A p \in 1 .. e : p \in Nat /\ p <= Len(c)
      BY <3>1
    <3> QED BY <3>1, <3>2, <3>3, <3>4, SamePrefix
  <2>2. CASE r \notin ToSet(step.order)
    <3>1. w = worker[r]
      BY <2>2, DispatchWorker DEF OrderInv
    <3>2. r \notin step.fresh
      BY <2>2 DEF OrderInv, EngineInv, PartsOK, StepOK
    <3> QED BY <3>1, <3>2 DEF Context
  <2> QED BY <2>1, <2>2
<1> QED BY <1>2, <1>3, <1>4

LEMMA FinishScheduleMem ==
    ASSUME MemInv, config.policy = "fcfs", OrderInv', FinishSchedule
    PROVE  MemOK(req', kv', step', worker', mem', faults')
<1>1. OrderInv /\ MemOK(req, kv, step, worker, mem, faults)
  BY DEF MemInv
<1>2. UpdateAfterSchedule /\ mem' = WriteKV /\ kv' = kv
  BY Zenon DEF FinishSchedule
<1>3. step' = NoStep("idle") \/ step' = NoStep("update")
  BY Zenon DEF FinishSchedule
<1>4. step'.fresh = {}
  BY <1>3 DEF NoStep
<1>5. PICK batch, sampled : Dispatches(batch, sampled)
  BY DispatchExists
<1>6. "wrong KV" \notin faults'
  BY <1>1, NoWrongRead
<1>7. \A r \in Request : req'[r].status = "RUNNING" =>
         HoldsKV(req'[r], kv', step', worker', mem', r)
  <2> SUFFICES ASSUME NEW r \in Request, req'[r].status = "RUNNING"
               PROVE  HoldsKV(req'[r], kv', step', worker', mem', r)
    OBVIOUS
  <2>1. \A p \in 1 .. req'[r].computed :
           At(WriteKV, kv.table[r], p) = SubSeq(worker'[r], 1, p)
    BY <1>1, <1>2, <1>5, DispatchHolds
  <2>2. \A p \in 1 .. req'[r].computed :
           At(mem', kv'.table[r], p) = SubSeq(worker'[r], 1, p)
    BY <1>2, <2>1, Zenon
  <2> QED BY <1>4, <2>2, Zenon DEF HoldsKV
<1>8. \A b \in Block : HashKV(req', kv', step', mem', b)
  <2>1. \A b \in Block : kv.hash[b] # NoHash =>
           \A s \in 1 .. BlockSize : WriteKV[b][s] = SlotTokens(kv.hash[b], s)
    BY <1>1, WrittenHash
  <2> QED BY <1>2, <2>1, Zenon DEF HashKV
<1> QED BY <1>6, <1>7, <1>8, Zenon DEF MemOK

-----------------------------------------------------------------------------
(* The contents: update_from_output                                         *)

\* The worker already has the token that the request takes now.
LEMMA TakenExtends ==
    ASSUME OrderInv, inflight # <<>>, step.phase \in {"idle", "update"},
           NEW x \in Request, req[x].status = "RUNNING",
           NEW out, out = inflight[1].out, x \in DOMAIN out,
           NEW K, K = config.prompt[x] \o req[x].output,
           Append(K, out[x].token) \in Seq(Alphabet(config))
    PROVE  /\ worker[x] \in Seq(Alphabet(config))
           /\ Extends(Append(K, out[x].token), worker[x])
<1> DEFINE S == ToSet(inflight)
           V == Alphabet(config)
<1>1. inflight \in Seq(S) /\ EngineInv
  BY OrderSpec
<1>2. Chain(K, inflight, x, worker[x])
  BY OrderRest
<1> HIDE DEF S, V
<1>3. Chain(Append(K, out[x].token), Rest, x, worker[x])
  BY <1>1, <1>2, ChainRemove DEF Rest
<1>4. /\ Rest \in Seq(S)
      /\ \A i \in 1 .. Len(Rest) : Rest[i] = inflight[i + 1] /\ i + 1 \in 1 .. Len(inflight)
  BY <1>1, CountInRemove DEF Rest
<1>5. \A i \in 1 .. Len(inflight) :
         x \in DOMAIN inflight[i].out => inflight[i].out[x].token \in V
  BY <1>1, InflightTokens DEF V
<1>6. \A i \in 1 .. Len(Rest) : x \in DOMAIN Rest[i].out => Rest[i].out[x].token \in V
  BY <1>4, <1>5
<1> DEFINE t == Append(K, out[x].token)
<1>7. t \in Seq(V)
  BY DEF V
<1>8. Chain(t, Rest, x, worker[x]) /\ Rest \in Seq(S)
  BY <1>3, <1>4
<1> HIDE DEF t
<1>9. worker[x] \in Seq(V) /\ Extends(t, worker[x])
  BY <1>6, <1>7, <1>8, ChainExtends
<1> QED BY <1>9 DEF t, V

\* A published block holds the tokens of its hash.
Hashed(hash, mm) ==
    \A b \in Block : hash[b] # NoHash =>
        \A s \in 1 .. BlockSize : mm[b][s] = SlotTokens(hash[b], s)

\* Between two steps a running request's blocks hold the worker's tokens.
Holding(rq, m, w, mm) ==
    /\ \A r \in Request : rq[r].status = "RUNNING" =>
          \A p \in 1 .. rq[r].computed : At(mm, m.table[r], p) = SubSeq(w[r], 1, p)
    /\ Hashed(m.hash, mm)

\* No request has read KV that is not its own.
RightKV(fs) == "wrong KV" \notin fs

LEMMA IdleMem ==
    ASSUME NEW rq, NEW m, NEW st, NEW w, NEW mm, NEW fs, st.fresh = {}, ToSet(st.order) = {}
    PROVE  MemOK(rq, m, st, w, mm, fs) <=> RightKV(fs) /\ Holding(rq, m, w, mm)
<1>1. \A r : HoldsKV(rq[r], m, st, w, mm, r) <=>
         \A p \in 1 .. rq[r].computed : At(mm, m.table[r], p) = SubSeq(w[r], 1, p)
  BY DEF HoldsKV
<1>2. \A b, s : ~Pending(rq, m, st, b, s)
  BY DEF Pending
<1>3. \A b : HashKV(rq, m, st, mm, b) <=>
         (m.hash[b] # NoHash => \A s \in 1 .. BlockSize : mm[b][s] = SlotTokens(m.hash[b], s))
  BY <1>2 DEF HashKV
<1> QED BY <1>1, <1>3, Zenon DEF MemOK, Holding, Hashed, RightKV

\* The blocks that a request publishes with a token hold the tokens.
LEMMA TakenHash ==
    ASSUME OrderInv, inflight # <<>>, step.phase \in {"idle", "update"},
           NEW x \in Request, NEW out, out = inflight[1].out, x \in DOMAIN out,
           NEW m, KVTypes(m), NEW m2, NEW rq, rq[x] = req[x], Holding(rq, m, worker, mem),
           NEW tok2, Refilled(m, m2, tok2, x, req[x], out[x].token)
    PROVE  Hashed(m2.hash, mem)
<1>1. CASE m2 = m
  BY <1>1 DEF Holding
<1> USE DEF Refilled
<1>2. ASSUME req[x].status = "RUNNING", req[x].computed \in Nat,
             req[x].computed <= Len(m2.table[x]) * BlockSize,
             Rehashes(m, m2, x, tok2[x], Done(m, x), req[x].computed)
      PROVE  Hashed(m2.hash, mem)
  <2> DEFINE c == req[x].computed
             V == Alphabet(config)
             t == tok2[x]
             st == NoStep("idle")
             from == Done(m, x)
  <2>1. t \in Seq(V) /\ worker[x] \in Seq(V) /\ Extends(t, worker[x])
    BY <1>2, TakenExtends
  <2>2. \A p \in 1 .. c : p <= Len(t) => At(mem, m2.table[x], p) = SubSeq(t, 1, p)
    <3>1. \A p \in 1 .. c : At(mem, m2.table[x], p) = SubSeq(worker[x], 1, p)
      BY <1>2 DEF Holding
    <3>2. \A p \in 1 .. c : p \in Nat
      BY <1>2
    <3> HIDE DEF t, c, V
    <3> QED BY <2>1, <3>1, <3>2, SamePrefix
  <2>3. from \in Nat
    BY DEF KVTypes, Done
  <2>4. c \in Nat /\ c + 0 = c /\ 0 \in Nat
    BY <1>2
  <2>5. Rehashes(m, m2, x, t, from, c + 0) /\ c + 0 <= Len(m2.table[x]) * BlockSize
    BY <1>2, <2>4
  <2>6. \A p \in 1 .. c : Place(p) > from /\ p <= Len(tok2[x]) =>
           At(mem, m2.table[x], p) = SubSeq(tok2[x], 1, p)
    BY <2>2
  <2>7. st.fresh = {} /\ ToSet(st.order) = {}
    BY DEF NoStep, ToSet
  <2> HIDE DEF c, V, st, from
  <2>8. \A b \in Block : m2.hash[b] \in {NoHash, m.hash[b]} \/ HashKV(rq, m2, st, mem, b)
    BY <2>1, <2>3, <2>4, <2>5, <2>6, RehashesKV DEF V
  <2>9. \A b, s : ~Pending(rq, m2, st, b, s)
    BY <2>7 DEF Pending
  <2>10. \A b \in Block : m.hash[b] # NoHash =>
            \A s \in 1 .. BlockSize : mem[b][s] = SlotTokens(m.hash[b], s)
    BY DEF Holding, Hashed
  <2> QED BY <2>8, <2>9, <2>10 DEF HashKV, Hashed
<1> QED BY <1>1, <1>2

\* A request takes its token: its blocks and counter stay until it stops.
LEMMA TakenMem ==
    ASSUME OrderInv, inflight # <<>>, step.phase \in {"idle", "update"},
           NEW s, NEW S, Settled(s, S), Holding(s.req, s.kv, worker, mem),
           NEW x \in Request \ S, req[x].status \in Live,
           NEW out, out = inflight[1].out, x \in DOMAIN out, out[x].token \in Vocabulary,
           NEW t, \A r \in Request \ {x} : /\ t.req[r] = s.req[r]
                                           /\ t.kv.table[r] = s.kv.table[r],
           Taken(s.req[x], t.req[x], config, x, out[x].token),
           t.kv = TakenKV(s.kv, x, s.req[x], t.req[x])
    PROVE  Holding(t.req, t.kv, worker, mem)
<1> DEFINE q == s.req[x]
           q2 == t.req[x]
           m == s.kv
           m2 == TakenCache(m, x, q, q2)
           V == Alphabet(config)
           tok2 == Known(config, t.req)
<1>1. /\ EngineInv /\ q = req[x] /\ KVInv(m, Known(config, s.req), V)
      /\ ReqOK(config, x, q) /\ Fits(config, x, q, 0, m.table[x]) /\ q.status \in Live
      /\ \A r \in Request : m.table[r] # <<>> => r \in DOMAIN config.prompt
  BY OrderSpec DEF Settled
<1>2. x \in Request /\ x \in DOMAIN config.prompt
  <2>1. req[x].status # "NEW"
    BY StatusesDiffer DEF Live
  <2> QED BY <1>1, <2>1, SentSpec
<1>3. Async => q.placeholders >= 1
  <2>1. config.async => req[x].placeholders = CountIn(inflight, x)
    BY OrderSpec DEF OrderOK
  <2>2. /\ CountIn(inflight, x) \in Nat /\ CountIn(Rest, x) \in Nat
        /\ CountIn(Rest, x) = CountIn(inflight, x) - 1
    BY OrderRest
  <2>3. CountIn(inflight, x) >= 1
    <3> DEFINE a == CountIn(inflight, x)
               b == CountIn(Rest, x)
    <3>1. a \in Nat /\ b \in Nat /\ b = a - 1
      BY <2>2
    <3> HIDE DEF a, b
    <3>2. a >= 1
      BY <3>1
    <3> QED BY <3>2 DEF a
  <2> QED BY <1>1, <2>1, <2>3 DEF Async
<1> HIDE DEF m2
<1>4. Refilled(m, m2, tok2, x, q, out[x].token)
  <2> DEFINE rq == s.req
             rq2 == t.req
             token == out[x].token
  <2>1. /\ EngineInv /\ KVInv(m, Known(config, rq), Alphabet(config))
        /\ \A r \in Request : m.table[r] # <<>> => r \in DOMAIN config.prompt
        /\ \A r \in Request \ {x} : rq2[r] = rq[r]
        /\ token \in Vocabulary /\ Taken(rq[x], rq2[x], config, x, token)
        /\ ReqOK(config, x, rq[x]) /\ Fits(config, x, rq[x], 0, m.table[x])
        /\ rq[x].status \in Live /\ (Async => rq[x].placeholders >= 1)
        /\ m2 = TakenCache(m, x, rq[x], rq2[x])
    BY <1>1, <1>3 DEF m2
  <2> HIDE DEF rq, rq2, token, m
  <2>2. Refilled(m, m2, Known(config, rq2), x, rq[x], token)
    BY <1>2, <2>1, TakenCacheInv
  <2> QED BY <2>2 DEF rq, rq2, token
<1>5. Hashed(m2.hash, mem)
  <2> DEFINE rq == s.req
  <2>1. /\ KVTypes(m) /\ rq[x] = req[x] /\ Holding(rq, m, worker, mem)
        /\ Refilled(m, m2, tok2, x, req[x], out[x].token)
    BY <1>1, <1>4 DEF KVInv
  <2> HIDE DEF rq, tok2, m
  <2> QED BY <1>2, <2>1, TakenHash
<1>6. t.kv = IF q2.status \in Finished THEN FreeRequest(m2, x) ELSE m2
  BY DEF TakenKV, m2
<1>7. FreeRequest(m2, x).hash = m2.hash
  <2>1. GivesBlocks(m2, FreeRequest(m2, x), x)
    BY <1>2, <1>4, GivesBlocksSpec DEF Refilled, KVInv
  <2> QED BY <2>1 DEF GivesBlocks
<1>8. t.kv.hash = m2.hash
  BY <1>6, <1>7
<1>9. ASSUME NEW r \in Request, t.req[r].status = "RUNNING"
      PROVE  \A p \in 1 .. t.req[r].computed :
                At(mem, t.kv.table[r], p) = SubSeq(worker[r], 1, p)
  <2>1. CASE r = x
    <3>1. q2.status \notin Finished
      BY <1>9, <2>1, StatusesDiffer
    <3>2. q.status = "RUNNING" /\ q2.computed = q.computed
      BY <1>9, <2>1, <3>1 DEF Taken
    <3>3. t.kv.table[x] = m.table[x]
      BY <1>4, <1>6, <3>1 DEF Refilled
    <3> QED BY <1>2, <2>1, <3>2, <3>3 DEF Holding
  <2>2. CASE r # x
    BY <1>9, <2>2 DEF Holding
  <2> QED BY <2>1, <2>2
<1> QED BY <1>5, <1>8, <1>9 DEF Holding

\* What an output that is taken does.
TakenEffect(s, t, x, out, q, q2) ==
    /\ Taken(q, q2, config, x, out[x].token)
    /\ t.kv = TakenKV(s.kv, x, q, q2)
    /\ out[x].after = config.prompt[x] \o q.output =>
          (RightKV(s.faults) => RightKV(t.faults))

LEMMA OutputTaken ==
    ASSUME NEW s, NEW t, NEW x, NEW out, NEW q, NEW q2, OutputEffect(s, t, x, out, q, q2),
           TakesOutput(q, x, out), ~DiscardsOutput(q)
    PROVE  TakenEffect(s, t, x, out, q, q2)
<1>1. "wrong KV" # "placeholder underflow"
  BY Zenon
<1> QED BY <1>1, Zenon DEF OutputEffect, RightKV, TakenEffect

\* The loop of update_from_output is through with the requests in S.
MemSettled(t, S) ==
    /\ OrderSettled(t, S)
    /\ RightKV(t.faults)
    /\ Holding(t.req, t.kv, worker, mem)

\* One step of the loop.
LEMMA MemSettledStep ==
    ASSUME OrderInv, inflight # <<>>, step.phase \in {"idle", "update"},
           NEW s, NEW S, MemSettled(s, S), NEW x \in Request \ S, req[x].status # "NEW",
           NEW out, out = inflight[1].out, \A r \in DOMAIN out : out[r].token \in Vocabulary,
           NEW t, t = UpdateRequest(s, x, out)
    PROVE  MemSettled(t, S \cup {x})
<1> DEFINE q == s.req[x]
           q2 == t.req[x]
<1>1. /\ OrderSettled(s, S) /\ RightKV(s.faults)
      /\ Holding(s.req, s.kv, worker, mem)
  BY Zenon DEF MemSettled
<1>2. Settled(s, S) /\ UpdateShape(s) /\ q = req[x]
  BY <1>1 DEF OrderSettled, Settled
<1>3. OrderSettled(t, S \cup {x})
  BY <1>1, OrderSettledStep
<1>4. OutputEffect(s, t, x, out, q, q2)
  BY <1>2, UpdateEffect
<1>5. TakesOutput(q, x, out) <=> q.status \in Live /\ x \in DOMAIN out
  BY DEF TakesOutput, Live
<1>6. CASE ~TakesOutput(q, x, out)
  <2>1. t = s
    BY <1>4, <1>6 DEF OutputEffect
  <2> QED BY <1>1, <1>3, <2>1, Zenon DEF MemSettled
<1>7. CASE TakesOutput(q, x, out)
  <2>1. ~DiscardsOutput(q)
    <3>1. config.async => config.maxAdmin = 0
      BY OrderSpec
    <3>2. config.maxAdmin = 0 => q.discard = FALSE
      BY <1>2, OrderSpec DEF OrderOK
    <3> QED BY <3>1, <3>2 DEF DiscardsOutput, Async
  <2>2. q.status \in Live /\ x \in DOMAIN out /\ out[x].token \in Vocabulary
    BY <1>5, <1>7
  <2>3. /\ Taken(q, q2, config, x, out[x].token)
        /\ t.kv = TakenKV(s.kv, x, q, q2)
        /\ out[x].after = config.prompt[x] \o q.output =>
              (RightKV(s.faults) => RightKV(t.faults))
    <3>1. TakenEffect(s, t, x, out, q, q2)
      <4> HIDE DEF q, q2
      <4> QED BY <1>4, <1>7, <2>1, OutputTaken
    <3> QED BY <3>1 DEF TakenEffect
  <2>4. out[x].after = config.prompt[x] \o q.output
    <3>1. req[x].status \in Live /\ Taken(req[x], q2, config, x, out[x].token)
      BY <1>2, <2>2, <2>3
    <3> HIDE DEF q, q2
    <3>2. out[x].after = config.prompt[x] \o req[x].output
      BY <2>2, <3>1, TakenOrder
    <3> QED BY <1>2, <3>2
  <2>5. RightKV(t.faults)
    BY <1>1, <2>3, <2>4
  <2>6. \A r \in Request \ {x} : t.req[r] = s.req[r] /\ t.kv.table[r] = s.kv.table[r]
    BY <1>2, UpdateRequestSpec
  <2>7. Holding(t.req, t.kv, worker, mem)
    <3>1. req[x].status \in Live
      BY <1>2, <2>2
    <3> QED BY <1>1, <1>2, <2>2, <2>3, <2>6, <3>1, TakenMem
  <2> QED BY <1>3, <2>5, <2>7, Zenon DEF MemSettled
<1> QED BY <1>6, <1>7

\* The whole loop, by induction over the batch.
LEMMA MemSettledAll ==
    ASSUME OrderInv, inflight # <<>>, step.phase \in {"idle", "update"},
           RightKV(faults), Holding(req, kv, worker, mem),
           NEW s, s = [req |-> req, kv |-> kv, faults |-> faults, stopped |-> {}],
           NEW batch, batch = inflight[1]
    PROVE  MemSettled(UpdateRequests(s, batch.order, batch.out), ToSet(batch.order))
<1> DEFINE order == batch.order
           out == batch.out
           n == Len(order)
           done(i) == {order[k] : k \in 1 .. i}
<1>1. /\ order \in Seq(Request) /\ BatchOK(batch, req)
  <2>1. inflight \in Seq(ToSet(inflight)) /\ Len(inflight) \in Nat
        /\ \A b \in ToSet(inflight) : b.order \in Seq(Request)
    BY DEF OrderInv, EngineInv, SchedulerInv, BatchInv
  <2> DEFINE B == ToSet(inflight)
  <2> HIDE DEF B
  <2>2. 1 \in 1 .. Len(inflight) /\ inflight[1] \in B
    BY <2>1 DEF B
  <2> QED BY <2>1, <2>2 DEF OrderInv, EngineInv, PartsOK, InflightOK, B
<1>2. PICK run : Updates(run, s, order, out) /\ UpdateRequests(s, order, out) = run[n]
  BY <1>1, UpdatesExists
<1>3. n \in Nat /\ \A i \in 1 .. n : order[i] \in Request
  BY <1>1
<1>4. /\ \A i, j \in 1 .. n : order[i] = order[j] => i = j
      /\ \A i \in 1 .. n : req[order[i]].status # "NEW"
      /\ \A r \in DOMAIN out : out[r].token \in Vocabulary
  <2>1. DOMAIN order = 1 .. n
    BY <1>1
  <2>2. \A i \in 1 .. n : order[i] \in ToSet(order)
    BY <1>1, ToSetSpec
  <2> QED BY <1>1, <2>1, <2>2 DEF BatchOK, IsInjective
<1>5. MemSettled(s, {})
  <2>1. OrderSettled(s, {})
    <3>1. Settled(s, {})
      BY OrderSpec, SettledStart
    <3>2. s.faults = faults
      OBVIOUS
    <3> QED BY <3>1, <3>2, OrderSpec DEF OrderSettled
  <2>2. s.req = req /\ s.kv = kv /\ s.faults = faults
    BY Zenon
  <2> QED BY <2>1, <2>2, Zenon DEF MemSettled
<1> HIDE DEF order, out, n
<1> DEFINE G == {i \in Nat : i <= n => MemSettled(run[i], done(i))}
<1>6. 0 \in G
  <2>1. run[0] = s /\ done(0) = {}
    BY <1>2 DEF Updates
  <2> HIDE DEF done
  <2>2. MemSettled(run[0], done(0))
    BY <1>5, <2>1
  <2> QED BY <2>2
<1>7. ASSUME NEW i \in Nat, i \in G PROVE i + 1 \in G
  <2> SUFFICES ASSUME i + 1 <= n PROVE MemSettled(run[i + 1], done(i + 1))
    OBVIOUS
  <2> DEFINE x == order[i + 1]
             d == done(i)
  <2>1. MemSettled(run[i], d) /\ i + 1 \in 1 .. n /\ \A k \in 1 .. i : k \in 1 .. n /\ k # i + 1
    BY <1>3, <1>7
  <2>2. x \in Request /\ x \notin d /\ req[x].status # "NEW"
    BY <1>3, <1>4, <2>1
  <2>3. done(i + 1) = d \cup {x}
    <3>1. \A k : k \in 1 .. i + 1 <=> k \in 1 .. i \/ k = i + 1
      OBVIOUS
    <3> QED BY <3>1
  <2>4. run[i + 1] = UpdateRequest(run[i], x, out)
    <3>1. Len(order) = n
      BY DEF n
    <3>2. (i + 1) - 1 = i
      OBVIOUS
    <3> QED BY <1>2, <2>1, <3>1, <3>2 DEF Updates
  <2> HIDE DEF done, d, x
  <2>5. MemSettled(run[i + 1], d \cup {x})
    BY <1>4, <2>1, <2>2, <2>4, MemSettledStep DEF out
  <2> QED BY <2>3, <2>5
<1> HIDE DEF G
<1>8. Nat \subseteq G
  BY <1>6, <1>7, SetInduction
<1>9. MemSettled(run[n], done(n))
  <2>1. n \in Nat /\ n <= n
    BY <1>3
  <2> QED BY <1>8, <2>1 DEF G
<1>10. done(n) = ToSet(order)
  BY <1>1, ToSetSpec DEF order, n
<1> QED BY <1>2, <1>9, <1>10 DEF order, out

LEMMA UpdateFromOutputMem ==
    ASSUME MemInv, config.policy = "fcfs", OrderInv', UpdateFromOutput
    PROVE  MemOK(req', kv', step', worker', mem', faults')
<1> DEFINE s     == [req |-> req, kv |-> kv, faults |-> faults, stopped |-> {}]
           batch == inflight[1]
           t     == UpdateRequests(s, batch.order, batch.out)
<1>1. /\ inflight # <<>> /\ step.phase \in {"idle", "update"}
      /\ UNCHANGED <<worker, mem>>
      /\ req' = t.req /\ kv' = t.kv /\ faults' = t.faults /\ step' = NoStep("idle")
  BY DEF UpdateFromOutput, AwaitedBatch
<1>2. OrderInv /\ MemOK(req, kv, step, worker, mem, faults)
  BY DEF MemInv
<1>3. step.fresh = {} /\ ToSet(step.order) = {}
  BY <1>1, <1>2, IdleStep
<1>4. RightKV(faults) /\ Holding(req, kv, worker, mem)
  BY <1>2, <1>3, IdleMem, Zenon
<1>5. s = [req |-> req, kv |-> kv, faults |-> faults, stopped |-> {}] /\ batch = inflight[1]
  OBVIOUS
<1> HIDE DEF s, batch
<1>6. MemSettled(t, ToSet(batch.order))
  BY <1>1, <1>2, <1>4, <1>5, MemSettledAll, Zenon
<1>7. RightKV(t.faults) /\ Holding(t.req, t.kv, worker, mem)
  BY <1>6, Zenon DEF MemSettled
<1> HIDE DEF t
<1>8. step'.fresh = {} /\ ToSet(step'.order) = {}
  BY <1>1 DEF NoStep, ToSet
<1>9. RightKV(faults') /\ Holding(req', kv', worker', mem')
  BY <1>1, <1>7, Zenon
<1> QED BY <1>8, <1>9, IdleMem, Zenon

-----------------------------------------------------------------------------
(* The contents of the KV slots: the theorem                                *)

\* Nothing is computed, published or read yet.
LEMMA MemInit ==
    ASSUME Init
    PROVE  MemOK(req, kv, step, worker, mem, faults)
<1>1. "wrong KV" \notin faults
  BY Zenon DEF Init
<1>2. \A r \in Request : req[r].status # "RUNNING"
  BY StatusesDiffer DEF Init, NewRequest
<1>3. \A b \in Block : kv.hash[b] = NoHash
  BY DEF Init, EmptyKV
<1>4. \A b \in Block : HashKV(req, kv, step, mem, b)
  BY <1>3, Zenon DEF HashKV
<1> QED BY <1>1, <1>2, <1>4, Zenon DEF MemOK

LEMMA MemNext ==
    ASSUME MemInv, [Next]_vars
    PROVE  MemInv'
<1>1. OrderInv'
  BY OrderNext DEF MemInv
<1>2. config' = config
  BY DEF Next, vars, EngineStep, ClientCall, BeginSchedule, SkipRunning, ScheduleRunning,
         PreemptRunning, EndRunning, ScheduleWaiting, FinishSchedule, UpdateFromOutput,
         AddRequest, AbortRequest, ResetCache, PauseScheduler, PauseAbort, IdleCallback,
         ResumeScheduler
<1>3. ASSUME config.policy = "fcfs" PROVE MemOK(req', kv', step', worker', mem', faults')
  <2>1. CASE EngineStep
    BY <1>1, <1>3, <2>1, LoopMem, ScheduleRunningMem, PreemptRunningMem, ScheduleWaitingMem,
       FinishScheduleMem, UpdateFromOutputMem DEF EngineStep
  <2>2. CASE ClientCall
    BY <1>1, <1>3, <2>2, AddRequestMem, AbortRequestMem, ResetCacheMem, PauseSchedulerMem,
       PauseAbortMem DEF ClientCall
  <2>3. CASE IdleCallback \/ ResumeScheduler
    BY <1>1, <1>3, <2>3, IdleCallbackMem
  <2>4. CASE UNCHANGED vars
    <3>1. UNCHANGED <<req, kv, step, worker, mem, faults>>
      BY <2>4 DEF vars
    <3> QED BY <1>3, <3>1, Zenon DEF MemInv
  <2> QED BY <2>1, <2>2, <2>3, <2>4 DEF Next
<1>4. config'.policy = "fcfs" => MemOK(req', kv', step', worker', mem', faults')
  BY <1>2, <1>3
<1> QED BY <1>1, <1>4, Zenon DEF MemInv

LEMMA MemImplies ==
    ASSUME MemInv
    PROVE  FcfsReadsComputedKV
  BY Zenon DEF MemInv, MemOK, FcfsReadsComputedKV, ReadsComputedKV, Policy

\* Under the fcfs policy each KV slot that a worker's attention reads holds
\* the KV of the request's own tokens (gpu_model_runner.py: execute_model),
\* whatever is preempted, evicted, shared by a prefix or published before it
\* is computed (kv_cache_manager.py: allocate_slots, get_computed_blocks;
\* scheduler.py: schedule), in every run that OutputsStayInOrder is about.
THEOREM FcfsReadsKV == Spec /\ OrderedQueue => []FcfsReadsComputedKV
<1>1. Init /\ OrderedQueue => MemInv
  <2>1. ASSUME Init, OrderedQueue PROVE MemInv
    <3>1. AsyncQueue
      BY <2>1 DEF OrderedQueue, AsyncQueue
    <3>2. OrderInv
      BY <2>1, <3>1, EngineInit, OrderInit DEF OrderInv
    <3>3. MemOK(req, kv, step, worker, mem, faults)
      BY <2>1, MemInit
    <3> QED BY <3>2, <3>3, Zenon DEF MemInv
  <2> QED BY <2>1
<1>2. MemInv /\ [Next]_vars => MemInv'
  BY MemNext
<1>3. MemInv => FcfsReadsComputedKV
  BY MemImplies
<1> QED BY <1>1, <1>2, <1>3, PTL DEF Spec
=============================================================================
