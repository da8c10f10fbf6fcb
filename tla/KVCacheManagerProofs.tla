------------------------ MODULE KVCacheManagerProofs ------------------------
(***************************************************************************)
(* Lemmas about the operators of KVCacheManager: what a fold over a queue  *)
(* computes, by induction; which parts of its state the manager's methods  *)
(* change; and that each of them keeps KVInv, the invariant of its state:  *)
(* references, block tables, free queue, hash index and eviction order.    *)
(***************************************************************************)
EXTENDS KVCacheManager, FiniteSetTheorems, SequenceTheorems, TLAPS

-----------------------------------------------------------------------------
(* Induction over the natural numbers, for a set instead of a predicate     *)

LEMMA SetInduction ==
    ASSUME NEW S, 0 \in S, \A n \in Nat : n \in S => n + 1 \in S
    PROVE  Nat \subseteq S
<1> SUFFICES ASSUME NEW N \in Nat, N \notin S PROVE FALSE
  OBVIOUS
<1> DEFINE T == {Y \in SUBSET (0 .. N) : \E m \in 0 .. N : m \notin S /\ Y = 0 .. m}
<1>1. IsFiniteSet(0 .. N)
  BY FS_Interval
<1>2. IsWellFoundedOn(StrictSubsetOrdering(0 .. N), SUBSET (0 .. N))
  BY <1>1, FS_FiniteSubsetsOfFinite, FS_StrictSubsetOrderingWellFounded
<1>3. (0 .. N) \in T
  OBVIOUS
<1>4. PICK Y \in T : \A Z \in T : ~ (<<Z, Y>> \in StrictSubsetOrdering(0 .. N))
  <2>1. T \subseteq SUBSET (0 .. N) /\ T # {}
    BY <1>3
  <2> HIDE DEF T
  <2> QED BY <1>2, <2>1, WFMin
<1>5. PICK m \in 0 .. N : m \notin S /\ Y = 0 .. m
  BY <1>4
<1>6. m # 0
  BY <1>5
<1>7. m - 1 \in S
  <2>1. SUFFICES ASSUME m - 1 \notin S PROVE FALSE
    OBVIOUS
  <2>2. (0 .. m - 1) \in T
    BY <1>6, <2>1
  <2>3. <<0 .. m - 1, Y>> \in StrictSubsetOrdering(0 .. N)
    <3>1. (0 .. m - 1) \subseteq (0 .. m) /\ m \in 0 .. m /\ m \notin 0 .. m - 1
      BY <1>6
    <3> QED BY <1>4, <1>5, <2>2, <3>1 DEF StrictSubsetOrdering
  <2> QED BY <1>4, <2>2, <2>3
<1> QED BY <1>5, <1>6, <1>7

-----------------------------------------------------------------------------
(* Folds                                                                    *)

LEMMA MaxTop ==
    ASSUME NEW m \in Nat, NEW s \in SUBSET (1 .. m), m \in s
    PROVE  Max(s) = m
<1>1. \A y \in s : m >= y
  OBVIOUS
<1>2. \A x \in s : (\A y \in s : x >= y) => x = m
  BY <1>1
<1> QED BY <1>1, <1>2 DEF Max

\* Among goes through the queue: kept[i] is what it has of the first i elements.
Keeps(kept, queue, S) ==
    /\ DOMAIN kept = 0 .. Len(queue)
    /\ kept[0] = <<>>
    /\ \A i \in 1 .. Len(queue) :
          kept[i] = IF queue[i] \in S THEN Append(kept[i - 1], queue[i]) ELSE kept[i - 1]

LEMMA AmongKeeps ==
    ASSUME NEW A, NEW queue \in Seq(A), NEW S
    PROVE  \E kept : Keeps(kept, queue, S) /\ Among(queue, S) = kept[Len(queue)]
<1> DEFINE n == Len(queue)
           Step(k, i) == IF queue[i] \in S THEN Append(k, queue[i]) ELSE k
           Runs(f, m) == f = [s \in SUBSET (1 .. m) |->
                                IF s = {} THEN <<>>
                                ELSE Step(f[s \ {Max(s)}], Max(s))]
           G == {m \in Nat : \E f : Runs(f, m)}
<1>1. \E f : Runs(f, n)
  <2>1. 0 \in G
    <3>1. Runs([s \in SUBSET (1 .. 0) |-> <<>>], 0)
      BY DEF Runs
    <3> QED BY <3>1
  <2>2. ASSUME NEW m \in Nat, m \in G PROVE m + 1 \in G
    <3>1. PICK f : Runs(f, m)
      BY <2>2
    <3> DEFINE g == [s \in SUBSET (1 .. m + 1) |->
                       IF m + 1 \in s THEN Step(f[s \ {m + 1}], m + 1) ELSE f[s]]
    <3>2. ASSUME NEW s \in SUBSET (1 .. m + 1)
          PROVE  g[s] = IF s = {} THEN <<>> ELSE Step(g[s \ {Max(s)}], Max(s))
      <4>1. CASE m + 1 \in s
        <5>1. Max(s) = m + 1
          BY <4>1, MaxTop
        <5>2. s \ {m + 1} \in SUBSET (1 .. m + 1) /\ m + 1 \notin s \ {m + 1}
          OBVIOUS
        <5> QED BY <4>1, <5>1, <5>2
      <4>2. CASE m + 1 \notin s
        <5>1. s \in SUBSET (1 .. m)
          BY <4>2
        <5>2. f[s] = IF s = {} THEN <<>> ELSE Step(f[s \ {Max(s)}], Max(s))
          BY <3>1, <5>1
        <5>3. s \ {Max(s)} \in SUBSET (1 .. m + 1) /\ m + 1 \notin s \ {Max(s)}
          BY <4>2
        <5> QED BY <4>2, <5>2, <5>3
      <4> QED BY <4>1, <4>2
    <3>3. g = [s \in SUBSET (1 .. m + 1) |-> g[s]]
      OBVIOUS
    <3> HIDE DEF g
    <3>4. Runs(g, m + 1)
      BY <3>2, <3>3
    <3> HIDE DEF Runs
    <3> QED BY <3>4
  <2> HIDE DEF G
  <2>3. Nat \subseteq G
    BY <2>1, <2>2, SetInduction
  <2>4. n \in G
    BY <2>3
  <2> QED BY <2>4 DEF G
<1> DEFINE it == CHOOSE f : Runs(f, n)
<1>2. Runs(it, n)
  BY <1>1
<1>3. Among(queue, S) = it[1 .. n]
  <2>1. DOMAIN queue = 1 .. n
    OBVIOUS
  <2> QED BY <2>1 DEF Among, FoldLeft, MapThenFoldSet
<1> DEFINE kept == [i \in 0 .. n |-> it[1 .. i]]
<1>4. kept[0] = <<>>
  <2>1. (1 .. 0) = {} /\ {} \in SUBSET (1 .. n)
    OBVIOUS
  <2>2. it[{}] = <<>>
    BY <1>2, <2>1
  <2> QED BY <2>1, <2>2
<1>5. ASSUME NEW i \in 1 .. n PROVE kept[i] = Step(kept[i - 1], i)
  <2>1. (1 .. i) \in SUBSET (1 .. n) /\ i \in 1 .. i /\ (1 .. i) \ {i} = 1 .. (i - 1)
    OBVIOUS
  <2>2. Max(1 .. i) = i
    BY <2>1, MaxTop
  <2>3. it[1 .. i] = Step(it[(1 .. i) \ {Max(1 .. i)}], Max(1 .. i))
    BY <1>2, <2>1
  <2>4. kept[i] = it[1 .. i] /\ kept[i - 1] = it[1 .. (i - 1)]
    OBVIOUS
  <2> HIDE DEF Step, kept, it
  <2> QED BY <2>1, <2>2, <2>3, <2>4
<1>6. DOMAIN kept = 0 .. n /\ kept[n] = it[1 .. n]
  OBVIOUS
<1> HIDE DEF it, kept
<1> QED BY <1>3, <1>4, <1>5, <1>6 DEF Keeps


\* The elements of a sequence, as provers like to have them.
LEMMA ToSetSpec ==
    ASSUME NEW A, NEW s \in Seq(A)
    PROVE  /\ ToSet(s) = {s[i] : i \in 1 .. Len(s)}
           /\ ToSet(s) \subseteq A
           /\ \A x : x \in ToSet(s) <=> \E i \in 1 .. Len(s) : s[i] = x
           /\ IsInjective(s) <=> \A i, j \in 1 .. Len(s) : s[i] = s[j] => i = j
           /\ s = <<>> <=> ToSet(s) = {}
<1>1. DOMAIN s = 1 .. Len(s) /\ Len(s) \in Nat /\ \A i \in 1 .. Len(s) : s[i] \in A
  OBVIOUS
<1>2. ToSet(s) = {s[i] : i \in 1 .. Len(s)}
  BY <1>1 DEF ToSet
<1>3. ToSet(s) \subseteq A /\ \A x : x \in ToSet(s) <=> \E i \in 1 .. Len(s) : s[i] = x
  BY <1>1, <1>2
<1>4. IsInjective(s) <=> \A i, j \in 1 .. Len(s) : s[i] = s[j] => i = j
  BY <1>1 DEF IsInjective
<1>5. ASSUME ToSet(s) = {} PROVE s = <<>>
  <2>1. Len(s) = 0
    <3>1. SUFFICES ASSUME Len(s) # 0 PROVE FALSE
      OBVIOUS
    <3>2. 1 \in 1 .. Len(s)
      BY <1>1, <3>1
    <3> QED BY <1>2, <1>5, <3>2
  <2> QED BY <2>1, EmptySeq
<1>6. ToSet(<<>>) = {}
  BY DEF ToSet
<1> QED BY <1>2, <1>3, <1>4, <1>5, <1>6

LEMMA AppendSpec ==
    ASSUME NEW A, NEW s \in Seq(A), NEW e \in A
    PROVE  /\ Append(s, e) \in Seq(A)
           /\ Len(Append(s, e)) = Len(s) + 1
           /\ ToSet(Append(s, e)) = ToSet(s) \cup {e}
           /\ IsInjective(s) /\ e \notin ToSet(s) => IsInjective(Append(s, e))
<1> DEFINE t == Append(s, e)
<1>1. /\ t \in Seq(A) /\ Len(t) = Len(s) + 1 /\ Len(s) \in Nat /\ t[Len(s) + 1] = e
      /\ \A i \in 1 .. Len(s) : t[i] = s[i]
  BY AppendProperties
<1> HIDE DEF t
<1>2. \A x : x \in ToSet(t) <=> x \in ToSet(s) \/ x = e
  <2>1. \A i : i \in 1 .. Len(t) <=> i \in 1 .. Len(s) \/ i = Len(s) + 1
    BY <1>1
  <2>2. \A x : x \in ToSet(t) <=> \E i \in 1 .. Len(t) : t[i] = x
    BY <1>1, ToSetSpec
  <2>3. \A x : x \in ToSet(s) <=> \E i \in 1 .. Len(s) : s[i] = x
    BY ToSetSpec
  <2> QED BY <1>1, <2>1, <2>2, <2>3
<1>3. ASSUME IsInjective(s), e \notin ToSet(s) PROVE IsInjective(t)
  <2> SUFFICES ASSUME NEW i \in 1 .. Len(t), NEW j \in 1 .. Len(t), t[i] = t[j]
               PROVE  i = j
    BY <1>1, ToSetSpec
  <2>1. CASE i \in 1 .. Len(s) /\ j \in 1 .. Len(s)
    BY <1>1, <1>3, <2>1, ToSetSpec
  <2>2. CASE i = Len(s) + 1 /\ j \in 1 .. Len(s)
    BY <1>1, <1>3, <2>2, ToSetSpec
  <2>3. CASE j = Len(s) + 1 /\ i \in 1 .. Len(s)
    BY <1>1, <1>3, <2>3, ToSetSpec
  <2> QED BY <1>1, <2>1, <2>2, <2>3
<1> QED BY <1>1, <1>2, <1>3 DEF t

LEMMA ConcatSpec ==
    ASSUME NEW A, NEW s \in Seq(A), NEW t \in Seq(A)
    PROVE  /\ s \o t \in Seq(A)
           /\ ToSet(s \o t) = ToSet(s) \cup ToSet(t)
           /\ IsInjective(s) /\ IsInjective(t) /\ ToSet(s) \cap ToSet(t) = {}
                => IsInjective(s \o t)
<1> DEFINE u == s \o t
<1>1. /\ u \in Seq(A) /\ Len(u) = Len(s) + Len(t) /\ Len(s) \in Nat /\ Len(t) \in Nat
      /\ \A i \in 1 .. Len(s) : u[i] = s[i]
      /\ \A i \in 1 .. Len(t) : Len(s) + i \in 1 .. Len(u) /\ u[Len(s) + i] = t[i]
  BY ConcatProperties
<1> HIDE DEF u
<1>2. ASSUME NEW i \in 1 .. Len(u)
      PROVE  i \in 1 .. Len(s) \/ \E k \in 1 .. Len(t) : i = Len(s) + k
  <2>1. CASE i > Len(s)
    <3>1. i - Len(s) \in 1 .. Len(t) /\ i = Len(s) + (i - Len(s))
      BY <1>1, <2>1
    <3> QED BY <3>1
  <2> QED BY <1>1, <2>1
<1>3. /\ \A x : x \in ToSet(u) <=> \E i \in 1 .. Len(u) : u[i] = x
      /\ \A x : x \in ToSet(s) <=> \E i \in 1 .. Len(s) : s[i] = x
      /\ \A x : x \in ToSet(t) <=> \E i \in 1 .. Len(t) : t[i] = x
  BY <1>1, ToSetSpec
<1>4. ToSet(u) = ToSet(s) \cup ToSet(t)
  <2>1. ASSUME NEW x \in ToSet(u) PROVE x \in ToSet(s) \cup ToSet(t)
    <3>1. PICK i \in 1 .. Len(u) : u[i] = x
      BY <1>3
    <3>2. CASE i \in 1 .. Len(s)
      BY <1>1, <1>3, <3>1, <3>2
    <3>3. ASSUME NEW k \in 1 .. Len(t), i = Len(s) + k PROVE x \in ToSet(t)
      <4>1. u[i] = t[k]
        BY <1>1, <3>3
      <4> QED BY <1>3, <3>1, <4>1
    <3> QED BY <1>2, <3>2, <3>3
  <2>2. ASSUME NEW x \in ToSet(s) PROVE x \in ToSet(u)
    <3>1. PICK i \in 1 .. Len(s) : s[i] = x
      BY <1>3
    <3>2. i \in 1 .. Len(u)
      BY <1>1
    <3> QED BY <1>1, <1>3, <3>1, <3>2
  <2>3. ASSUME NEW x \in ToSet(t) PROVE x \in ToSet(u)
    <3>1. PICK i \in 1 .. Len(t) : t[i] = x
      BY <1>3
    <3> QED BY <1>1, <1>3, <3>1
  <2> QED BY <2>1, <2>2, <2>3
<1>5. ASSUME IsInjective(s), IsInjective(t), ToSet(s) \cap ToSet(t) = {}
      PROVE  IsInjective(u)
  <2>1. /\ \A i, j \in 1 .. Len(s) : s[i] = s[j] => i = j
        /\ \A i, j \in 1 .. Len(t) : t[i] = t[j] => i = j
    BY <1>5, ToSetSpec
  <2>2. \A i \in 1 .. Len(s), j \in 1 .. Len(t) : s[i] # t[j]
    BY <1>3, <1>5
  <2>3. ASSUME NEW i \in 1 .. Len(u), NEW j \in 1 .. Len(u), u[i] = u[j] PROVE i = j
    <3>1. CASE i \in 1 .. Len(s) /\ j \in 1 .. Len(s)
      BY <1>1, <2>1, <2>3, <3>1
    <3>2. CASE i \in 1 .. Len(s) /\ \E k \in 1 .. Len(t) : j = Len(s) + k
      BY <1>1, <2>2, <2>3, <3>2
    <3>3. CASE j \in 1 .. Len(s) /\ \E k \in 1 .. Len(t) : i = Len(s) + k
      BY <1>1, <2>2, <2>3, <3>3
    <3>4. ASSUME NEW k \in 1 .. Len(t), NEW l \in 1 .. Len(t),
                 i = Len(s) + k, j = Len(s) + l
          PROVE  i = j
      <4>1. t[k] = t[l]
        BY <1>1, <2>3, <3>4
      <4> QED BY <2>1, <3>4, <4>1
    <3> QED BY <1>2, <3>1, <3>2, <3>3, <3>4
  <2> QED BY <1>1, <2>3, ToSetSpec
<1> QED BY <1>1, <1>4, <1>5 DEF u

LEMMA SingletonSpec ==
    ASSUME NEW A, NEW e \in A
    PROVE  <<e>> \in Seq(A) /\ ToSet(<<e>>) = {e} /\ IsInjective(<<e>>) /\ Len(<<e>>) = 1
  BY DEF ToSet, IsInjective

LEMMA ReverseSpec ==
    ASSUME NEW A, NEW s \in Seq(A)
    PROVE  /\ Reverse(s) \in Seq(A)
           /\ ToSet(Reverse(s)) = ToSet(s)
           /\ IsInjective(s) => IsInjective(Reverse(s))
<1> DEFINE u == Reverse(s)
           n == Len(s)
<1>1. n \in Nat /\ \A i \in 1 .. n : s[i] \in A /\ (n - i) + 1 \in 1 .. n
  OBVIOUS
<1>2. /\ u = [i \in 1 .. n |-> s[(n - i) + 1]]
      /\ \A i \in 1 .. n : u[i] = s[(n - i) + 1]
  BY DEF Reverse
<1>3. u \in Seq(A) /\ Len(u) = n
  <2> HIDE DEF u
  <2> QED BY <1>1, <1>2
<1> HIDE DEF u
<1>4. /\ \A x : x \in ToSet(u) <=> \E i \in 1 .. n : u[i] = x
      /\ \A x : x \in ToSet(s) <=> \E i \in 1 .. n : s[i] = x
  BY <1>3, ToSetSpec
<1>5. \A i \in 1 .. n : u[(n - i) + 1] = s[i]
  BY <1>1, <1>2
<1>6. ToSet(u) = ToSet(s)
  <2>1. ASSUME NEW x \in ToSet(u) PROVE x \in ToSet(s)
    <3>1. PICK i \in 1 .. n : u[i] = x
      BY <1>4
    <3> QED BY <1>1, <1>2, <1>4, <3>1
  <2>2. ASSUME NEW x \in ToSet(s) PROVE x \in ToSet(u)
    <3>1. PICK i \in 1 .. n : s[i] = x
      BY <1>4
    <3> QED BY <1>1, <1>4, <1>5, <3>1
  <2> QED BY <2>1, <2>2
<1>7. ASSUME IsInjective(s) PROVE IsInjective(u)
  <2>1. \A i, j \in 1 .. n : s[i] = s[j] => i = j
    BY <1>7, ToSetSpec
  <2>2. ASSUME NEW i \in 1 .. n, NEW j \in 1 .. n, u[i] = u[j] PROVE i = j
    <3>1. (n - i) + 1 = (n - j) + 1
      BY <1>1, <1>2, <2>1, <2>2
    <3> QED BY <1>1, <3>1
  <2> QED BY <1>3, <2>2, ToSetSpec
<1> QED BY <1>3, <1>6, <1>7 DEF u

LEMMA TailSpec ==
    ASSUME NEW A, NEW s \in Seq(A), s # <<>>
    PROVE  /\ Head(s) \in ToSet(s) /\ Head(s) \in A
           /\ Tail(s) \in Seq(A)
           /\ ToSet(s) = ToSet(Tail(s)) \cup {Head(s)}
           /\ IsInjective(s) => IsInjective(Tail(s)) /\ Head(s) \notin ToSet(Tail(s))
<1> DEFINE t == Tail(s)
<1>1. /\ t \in Seq(A) /\ Len(t) = Len(s) - 1 /\ Len(s) \in Nat \ {0}
      /\ \A i \in 1 .. Len(t) : t[i] = s[i + 1] /\ i + 1 \in 1 .. Len(s)
      /\ Head(s) = s[1] /\ s[1] \in A /\ 1 \in 1 .. Len(s)
  OBVIOUS
<1> HIDE DEF t
<1>2. /\ \A x : x \in ToSet(s) <=> \E i \in 1 .. Len(s) : s[i] = x
      /\ \A x : x \in ToSet(t) <=> \E i \in 1 .. Len(t) : t[i] = x
  BY <1>1, ToSetSpec
<1>3. ToSet(s) = ToSet(t) \cup {Head(s)}
  <2>1. ASSUME NEW x \in ToSet(s) PROVE x \in ToSet(t) \/ x = Head(s)
    <3>1. PICK i \in 1 .. Len(s) : s[i] = x
      BY <1>2
    <3>2. CASE i # 1
      <4>1. i - 1 \in 1 .. Len(t) /\ (i - 1) + 1 = i
        BY <1>1, <3>2
      <4>2. t[i - 1] = s[i]
        BY <1>1, <4>1
      <4> QED BY <1>2, <3>1, <4>1, <4>2
    <3> QED BY <1>1, <3>1, <3>2
  <2>2. ASSUME NEW x \in ToSet(t) PROVE x \in ToSet(s)
    BY <1>1, <1>2
  <2> QED BY <1>1, <1>2, <2>1, <2>2
<1>4. ASSUME IsInjective(s) PROVE IsInjective(t) /\ Head(s) \notin ToSet(t)
  <2>1. \A i, j \in 1 .. Len(s) : s[i] = s[j] => i = j
    BY <1>4, ToSetSpec
  <2>2. ASSUME NEW i \in 1 .. Len(t), NEW j \in 1 .. Len(t), t[i] = t[j] PROVE i = j
    <3>1. i + 1 = j + 1
      BY <1>1, <2>1, <2>2
    <3> QED BY <1>1, <3>1
  <2>3. ASSUME NEW i \in 1 .. Len(t), t[i] = Head(s) PROVE FALSE
    <3>1. i + 1 = 1
      BY <1>1, <2>1, <2>3
    <3> QED BY <1>1, <3>1
  <2>4. IsInjective(t)
    BY <1>1, <2>2, ToSetSpec
  <2>5. Head(s) \notin ToSet(t)
    BY <1>2, <2>3
  <2> QED BY <2>4, <2>5
<1> QED BY <1>1, <1>2, <1>3, <1>4 DEF t

LEMMA AmongSpec ==
    ASSUME NEW A, NEW queue \in Seq(A), NEW S
    PROVE  /\ Among(queue, S) \in Seq(A)
           /\ ToSet(Among(queue, S)) = ToSet(queue) \cap S
           /\ Len(Among(queue, S)) <= Len(queue)
           /\ (\E x \in ToSet(queue) : x \notin S) => Len(Among(queue, S)) < Len(queue)
           /\ IsInjective(queue) => IsInjective(Among(queue, S))
<1> DEFINE n == Len(queue)
<1>1. PICK kept : Keeps(kept, queue, S) /\ Among(queue, S) = kept[n]
  BY AmongKeeps
<1> DEFINE P(i) ==
      /\ kept[i] \in Seq(A)
      /\ \A x : x \in ToSet(kept[i]) <=> x \in S /\ \E j \in 1 .. i : queue[j] = x
      /\ Len(kept[i]) <= i
      /\ (\E j \in 1 .. i : queue[j] \notin S) => Len(kept[i]) < i
      /\ IsInjective(queue) => IsInjective(kept[i])
<1> DEFINE G == {i \in Nat : i <= n => P(i)}
<1>2. 0 \in G
  <2>1. kept[0] = <<>> /\ <<>> \in Seq(A) /\ Len(<<>>) = 0
    BY <1>1 DEF Keeps
  <2>2. ToSet(<<>>) = {} /\ IsInjective(<<>>)
    BY DEF ToSet, IsInjective
  <2>3. ~ \E j \in 1 .. 0 : TRUE
    OBVIOUS
  <2>4. P(0)
    BY <2>1, <2>2, <2>3
  <2> QED BY <2>4
<1>3. ASSUME NEW m \in Nat, m \in G PROVE m + 1 \in G
  <2> SUFFICES ASSUME m + 1 <= n PROVE P(m + 1)
    OBVIOUS
  <2>1. P(m)
    BY <1>3
  <2> DEFINE e == queue[m + 1]
  <2>2. m + 1 \in 1 .. n /\ n \in Nat /\ e \in A
    OBVIOUS
  <2>3. kept[m + 1] = IF e \in S THEN Append(kept[m], e) ELSE kept[m]
    BY <1>1, <2>2 DEF Keeps
  <2>4. \A j : j \in 1 .. m + 1 <=> j \in 1 .. m \/ j = m + 1
    OBVIOUS
  <2>5. Len(kept[m]) \in Nat
    BY <2>1
  <2>6. CASE e \in S
    <3>1. /\ kept[m + 1] = Append(kept[m], e)
          /\ kept[m + 1] \in Seq(A)
          /\ Len(kept[m + 1]) = Len(kept[m]) + 1
          /\ ToSet(kept[m + 1]) = ToSet(kept[m]) \cup {e}
      BY <2>1, <2>2, <2>3, <2>6, AppendSpec
    <3>2. ASSUME IsInjective(queue) PROVE IsInjective(kept[m + 1])
      <4>1. e \notin ToSet(kept[m])
        <5>1. \A j \in 1 .. m : queue[j] # e
          BY <2>2, <3>2, ToSetSpec
        <5> QED BY <2>1, <5>1
      <4> QED BY <2>1, <2>2, <3>1, <3>2, <4>1, AppendSpec
    <3>3. \A x : x \in ToSet(kept[m + 1]) <=> x \in S /\ \E j \in 1 .. m + 1 : queue[j] = x
      BY <2>1, <2>4, <2>6, <3>1
    <3>4. (\E j \in 1 .. m + 1 : queue[j] \notin S) => (\E j \in 1 .. m : queue[j] \notin S)
      BY <2>4, <2>6
    <3>5. /\ Len(kept[m + 1]) <= m + 1
          /\ (\E j \in 1 .. m + 1 : queue[j] \notin S) => Len(kept[m + 1]) < m + 1
      BY <2>1, <2>5, <3>1, <3>4
    <3> QED BY <3>1, <3>2, <3>3, <3>5
  <2>7. CASE e \notin S
    <3>1. kept[m + 1] = kept[m]
      BY <2>3, <2>7
    <3>2. \A x : x \in ToSet(kept[m]) <=> x \in S /\ \E j \in 1 .. m + 1 : queue[j] = x
      BY <2>1, <2>4, <2>7
    <3>3. Len(kept[m]) < m + 1
      BY <2>1, <2>5
    <3> QED BY <2>1, <3>1, <3>2, <3>3
  <2> QED BY <2>6, <2>7
<1> HIDE DEF G
<1>4. Nat \subseteq G
  BY <1>2, <1>3, SetInduction
<1>5. P(n)
  <2>1. n \in Nat /\ n <= n
    OBVIOUS
  <2> QED BY <1>4, <2>1 DEF G
<1>6. ToSet(kept[n]) = ToSet(queue) \cap S
  BY <1>5, ToSetSpec
<1>7. (\E x \in ToSet(queue) : x \notin S) => Len(kept[n]) < n
  BY <1>5, ToSetSpec
<1> QED BY <1>1, <1>5, <1>6, <1>7


-----------------------------------------------------------------------------
(* What the methods of the manager do to the block tables                   *)

KVFields == {"ref", "hash", "free", "cache", "table", "cached", "err"}

\* A record of the manager, with a block table for every request.
KVShape(m) == DOMAIN m = KVFields /\ DOMAIN m.table = Request

LEMMA TablesKept ==
    ASSUME NEW m, KVShape(m)
    PROVE  /\ \A S : KVShape(EvictCachedBlocks(m, S)) /\ EvictCachedBlocks(m, S).table = m.table
           /\ \A n : KVShape(GetNewBlocks(m, n)) /\ GetNewBlocks(m, n).table = m.table
           /\ \A bs : KVShape(Touch(m, bs)) /\ Touch(m, bs).table = m.table
           /\ \A bs : KVShape(FreeBlocks(m, bs)) /\ FreeBlocks(m, bs).table = m.table
           /\ KVShape(Fail(m)) /\ Fail(m).table = m.table
           /\ KVShape(ResetPrefixCache(m)) /\ ResetPrefixCache(m).table = m.table
           /\ \A r, tokens, from, upto :
                 /\ KVShape(CacheFullBlocks(m, r, tokens, from, upto))
                 /\ CacheFullBlocks(m, r, tokens, from, upto).table = m.table
<1>1. ASSUME NEW S
      PROVE  KVShape(EvictCachedBlocks(m, S)) /\ EvictCachedBlocks(m, S).table = m.table
  BY DEF EvictCachedBlocks, KVShape, KVFields
<1>2. KVShape(Fail(m)) /\ Fail(m).table = m.table
  BY DEF Fail, KVShape, KVFields
<1>3. ASSUME NEW n
      PROVE  KVShape(GetNewBlocks(m, n)) /\ GetNewBlocks(m, n).table = m.table
  BY <1>1, <1>2 DEF GetNewBlocks, KVShape, KVFields
<1>4. ASSUME NEW bs PROVE KVShape(Touch(m, bs)) /\ Touch(m, bs).table = m.table
  BY DEF Touch, KVShape, KVFields
<1>5. ASSUME NEW bs PROVE KVShape(FreeBlocks(m, bs)) /\ FreeBlocks(m, bs).table = m.table
  BY DEF FreeBlocks, KVShape, KVFields
<1>6. KVShape(ResetPrefixCache(m)) /\ ResetPrefixCache(m).table = m.table
  BY DEF ResetPrefixCache, KVShape, KVFields
<1>7. ASSUME NEW r, NEW tokens, NEW from, NEW upto
      PROVE  /\ KVShape(CacheFullBlocks(m, r, tokens, from, upto))
             /\ CacheFullBlocks(m, r, tokens, from, upto).table = m.table
  BY <1>2 DEF CacheFullBlocks, KVShape, KVFields
<1> QED BY <1>1, <1>2, <1>3, <1>4, <1>5, <1>6, <1>7

\* cache_blocks publishes blocks and changes no table.
LEMMA CacheBlocksTables ==
    ASSUME NEW m, KVShape(m), NEW r, NEW tokens, NEW n
    PROVE  KVShape(CacheBlocks(m, r, tokens, n)) /\ CacheBlocks(m, r, tokens, n).table = m.table
<1> DEFINE from == IF m.cached[r] = NotCached THEN 0 ELSE m.cached[r]
           upto == n \div BlockSize
           c == CacheFullBlocks(m, r, tokens, from, upto)
<1>1. KVShape(c) /\ c.table = m.table
  BY TablesKept
<1>2. CacheBlocks(m, r, tokens, n) = IF from >= upto THEN m ELSE [c EXCEPT !.cached[r] = upto]
  BY DEF CacheBlocks
<1> HIDE DEF from, upto, c
<1> QED BY <1>1, <1>2 DEF KVShape, KVFields

\* allocate_slots changes the table of the one request it is called for.
LEMMA AllocateSlotsTables ==
    ASSUME NEW m, KVShape(m), NEW r, NEW tokens, NEW c, NEW hits, NEW n
    PROVE  LET a == AllocateSlots(m, r, tokens, c, hits, n)
           IN  /\ KVShape(a.kv)
               /\ \A q \in Request : q # r => a.kv.table[q] = m.table[q]
<1> DEFINE Good(k) == KVShape(k) /\ \A q \in Request : q # r => k.table[q] = m.table[q]
           total    == MinOf(c + Len(hits) * BlockSize, MaxModelLen)
           needSlot == MinOf(total + n, MaxModelLen)
           toCache  == MinOf(total + n, Len(tokens))
           new      == CDiv(needSlot, BlockSize)
           kv1      == IF hits = <<>> THEN m ELSE AllocateNewComputedBlocks(m, r, hits)
           kv2      == AllocateNewBlocks(kv1, r, needSlot)
           kv3      == CacheBlocks(kv2, r, tokens, toCache)
<1>1. Good(kv1)
  <2>1. Good(m) /\ Good(Fail(m))
    BY TablesKept
  <2>2. Good([Touch(m, hits) EXCEPT !.table[r] = hits, !.cached[r] = Len(hits)])
    <3>1. KVShape(Touch(m, hits)) /\ Touch(m, hits).table = m.table
      BY TablesKept
    <3>2. \A t : KVShape(t) /\ t.table = m.table =>
             Good([t EXCEPT !.table[r] = hits, !.cached[r] = Len(hits)])
      BY DEF KVShape, KVFields
    <3> QED BY <3>1, <3>2
  <2> QED BY <2>1, <2>2 DEF AllocateNewComputedBlocks
<1>2. Good(kv2)
  <2> HIDE DEF kv1
  <2> DEFINE g == GetNewBlocks(kv1, new - Len(kv1.table[r]))
             bs == NewBlocks(kv1, new - Len(kv1.table[r]))
  <2>1. KVShape(Fail(kv1)) /\ Fail(kv1).table = kv1.table /\ KVShape(g) /\ g.table = kv1.table
    BY <1>1, TablesKept
  <2>2. kv2 \in {kv1, Fail(kv1), [g EXCEPT !.table[r] = @ \o bs]}
    BY DEF AllocateNewBlocks
  <2>3. Good([g EXCEPT !.table[r] = @ \o bs])
    <3> HIDE DEF g, bs
    <3> QED BY <1>1, <2>1 DEF KVShape, KVFields
  <2> HIDE DEF g, bs, kv2
  <2> QED BY <1>1, <2>1, <2>2, <2>3
<1>3. Good(kv3)
  <2> HIDE DEF kv2
  <2> QED BY <1>2, CacheBlocksTables
<1>4. AllocateSlots(m, r, tokens, c, hits, n).kv \in {m, kv2, kv3}
  BY DEF AllocateSlots
<1> HIDE DEF kv2, kv3
<1> QED BY <1>2, <1>3, <1>4

\* free empties the table of the request.
LEMMA FreeRequestTables ==
    ASSUME NEW m, KVShape(m), NEW r \in Request
    PROVE  KVShape(FreeRequest(m, r)) /\ FreeRequest(m, r).table = [m.table EXCEPT ![r] = <<>>]
<1> DEFINE f == FreeBlocks(m, Reverse(m.table[r]))
<1>1. KVShape(f) /\ f.table = m.table
  BY TablesKept
<1>2. FreeRequest(m, r) = [f EXCEPT !.table[r] = <<>>, !.cached[r] = NotCached]
  BY DEF FreeRequest
<1> HIDE DEF f
<1> QED BY <1>1, <1>2 DEF KVShape, KVFields

\* c comes after b in the queue.
AfterIn(queue, b, c) ==
    \E i, j \in 1 .. Len(queue) : i < j /\ queue[i] = b /\ queue[j] = c

\* Among keeps the order of a queue.
LEMMA AmongOrder ==
    ASSUME NEW A, NEW queue \in Seq(A), NEW S, NEW b \in S, NEW c \in S,
           AfterIn(queue, b, c)
    PROVE  AfterIn(Among(queue, S), b, c)
<1> DEFINE n == Len(queue)
<1>1. PICK kept : Keeps(kept, queue, S) /\ Among(queue, S) = kept[n]
  BY AmongKeeps
<1>2. n \in Nat /\ \A i \in 1 .. n : queue[i] \in A
  OBVIOUS
<1> DEFINE P(i) ==
      /\ kept[i] \in Seq(A)
      /\ (\E k \in 1 .. i : queue[k] = b) => \E x \in 1 .. Len(kept[i]) : kept[i][x] = b
      /\ (\E k, l \in 1 .. i : k < l /\ queue[k] = b /\ queue[l] = c) => AfterIn(kept[i], b, c)
<1> DEFINE G == {i \in Nat : i <= n => P(i)}
<1>3. 0 \in G
  <2>1. kept[0] = <<>> /\ <<>> \in Seq(A)
    BY <1>1 DEF Keeps
  <2>2. ~ \E k \in 1 .. 0 : TRUE
    OBVIOUS
  <2>3. P(0)
    BY <2>1, <2>2
  <2> QED BY <2>3
<1>4. ASSUME NEW m \in Nat, m \in G PROVE m + 1 \in G
  <2> SUFFICES ASSUME m + 1 <= n PROVE P(m + 1)
    OBVIOUS
  <2>1. P(m)
    BY <1>2, <1>4
  <2> DEFINE e == queue[m + 1]
             s == kept[m]
             t == kept[m + 1]
  <2>2. m + 1 \in 1 .. n /\ e \in A
    BY <1>2
  <2>3. t = IF e \in S THEN Append(s, e) ELSE s
    BY <1>1, <2>2 DEF Keeps
  <2>4. \A j : j \in 1 .. m + 1 <=> j \in 1 .. m \/ j = m + 1
    OBVIOUS
  <2>5. s \in Seq(A) /\ Len(s) \in Nat
    BY <2>1
  <2>6. /\ t \in Seq(A) /\ Len(s) <= Len(t) /\ Len(t) \in Nat
        /\ \A i \in 1 .. Len(s) : t[i] = s[i]
        /\ e \in S => Len(t) = Len(s) + 1 /\ t[Len(s) + 1] = e
    <3>1. CASE e \in S
      BY <2>2, <2>3, <2>5, <3>1, AppendProperties
    <3>2. CASE e \notin S
      BY <2>3, <2>5, <3>2
    <3> QED BY <3>1, <3>2
  <2> HIDE DEF s, t
  <2>7. ASSUME NEW k \in 1 .. m + 1, queue[k] = b
        PROVE  \E x \in 1 .. Len(t) : t[x] = b
    <3>1. CASE k = m + 1
      BY <2>5, <2>6, <2>7, <3>1
    <3>2. CASE k \in 1 .. m
      <4>1. PICK x \in 1 .. Len(s) : s[x] = b
        BY <2>1, <2>7, <3>2 DEF s
      <4> QED BY <2>5, <2>6, <4>1
    <3> QED BY <2>4, <3>1, <3>2
  <2>8. ASSUME NEW k \in 1 .. m + 1, NEW l \in 1 .. m + 1, k < l, queue[k] = b, queue[l] = c
        PROVE  AfterIn(t, b, c)
    <3>0. k \in 1 .. m
      BY <2>8
    <3>1. CASE l = m + 1
      <4>1. PICK x \in 1 .. Len(s) : s[x] = b
        BY <2>1, <2>8, <3>0 DEF s
      <4>2. x \in 1 .. Len(t) /\ Len(s) + 1 \in 1 .. Len(t) /\ x < Len(s) + 1
            /\ t[x] = b /\ t[Len(s) + 1] = c
        BY <2>5, <2>6, <2>8, <3>1, <4>1
      <4> QED BY <4>2 DEF AfterIn
    <3>2. CASE l \in 1 .. m
      <4>1. AfterIn(s, b, c)
        BY <2>1, <2>8, <3>0, <3>2 DEF s
      <4> QED BY <2>5, <2>6, <4>1, SMTT(20) DEF AfterIn
    <3> QED BY <2>4, <3>1, <3>2
  <2> QED BY <2>6, <2>7, <2>8 DEF t
<1> HIDE DEF G
<1>5. Nat \subseteq G
  BY <1>3, <1>4, SetInduction
<1>6. P(n)
  <2>1. n \in Nat /\ n <= n
    BY <1>2
  <2> QED BY <1>5, <2>1 DEF G
<1> QED BY <1>1, <1>6 DEF AfterIn

\* What is in the first part of a queue is before what is in the second.
LEMMA ConcatOrder ==
    ASSUME NEW A, NEW s \in Seq(A), NEW t \in Seq(A)
    PROVE  /\ \A b, c : AfterIn(s, b, c) => AfterIn(s \o t, b, c)
           /\ \A b, c : AfterIn(t, b, c) => AfterIn(s \o t, b, c)
           /\ \A b \in ToSet(s), c \in ToSet(t) : AfterIn(s \o t, b, c)
<1> DEFINE u == s \o t
<1>1. /\ u \in Seq(A) /\ Len(u) = Len(s) + Len(t) /\ Len(s) \in Nat /\ Len(t) \in Nat
      /\ \A i \in 1 .. Len(s) : u[i] = s[i] /\ i \in 1 .. Len(u)
      /\ \A i \in 1 .. Len(t) : Len(s) + i \in 1 .. Len(u) /\ u[Len(s) + i] = t[i]
  BY ConcatProperties
<1> HIDE DEF u
<1>2. ASSUME NEW b, NEW c, AfterIn(s, b, c) PROVE AfterIn(u, b, c)
  BY <1>1, <1>2 DEF AfterIn
<1>3. ASSUME NEW b, NEW c, AfterIn(t, b, c) PROVE AfterIn(u, b, c)
  <2>1. PICK i, j \in 1 .. Len(t) : i < j /\ t[i] = b /\ t[j] = c
    BY <1>3 DEF AfterIn
  <2>2. /\ Len(s) + i \in 1 .. Len(u) /\ Len(s) + j \in 1 .. Len(u)
        /\ u[Len(s) + i] = b /\ u[Len(s) + j] = c /\ Len(s) + i < Len(s) + j
    BY <1>1, <2>1
  <2> QED BY <2>2 DEF AfterIn
<1>4. ASSUME NEW b \in ToSet(s), NEW c \in ToSet(t) PROVE AfterIn(u, b, c)
  <2>1. PICK i \in 1 .. Len(s) : s[i] = b
    BY ToSetSpec
  <2>2. PICK j \in 1 .. Len(t) : t[j] = c
    BY ToSetSpec
  <2>3. /\ i \in 1 .. Len(u) /\ Len(s) + j \in 1 .. Len(u) /\ i < Len(s) + j
        /\ u[i] = b /\ u[Len(s) + j] = c
    BY <1>1, <2>1, <2>2
  <2> QED BY <2>3 DEF AfterIn
<1> QED BY <1>2, <1>3, <1>4 DEF u

\* Reversing a queue reverses its order.
LEMMA ReverseOrder ==
    ASSUME NEW A, NEW s \in Seq(A), NEW i \in 1 .. Len(s), NEW j \in 1 .. Len(s), i < j
    PROVE  AfterIn(Reverse(s), s[j], s[i])
<1> DEFINE n == Len(s)
           u == Reverse(s)
<1>1. /\ n \in Nat /\ (n - i) + 1 \in 1 .. n /\ (n - j) + 1 \in 1 .. n
      /\ (n - j) + 1 < (n - i) + 1
      /\ (n - ((n - i) + 1)) + 1 = i /\ (n - ((n - j) + 1)) + 1 = j
  OBVIOUS
<1>2. \A k \in 1 .. n : u[k] = s[(n - k) + 1]
  BY DEF Reverse
<1>3. Len(u) = n
  BY <1>1 DEF Reverse
<1> HIDE DEF u, n
<1>4. u[(n - i) + 1] = s[i] /\ u[(n - j) + 1] = s[j]
  BY <1>1, <1>2
<1>5. AfterIn(u, s[j], s[i])
  BY <1>1, <1>3, <1>4 DEF AfterIn
<1> QED BY <1>5 DEF u

\* A queue and what is left of it without its first n elements.
LEMMA DropSpec ==
    ASSUME NEW A, NEW s \in Seq(A), NEW n \in 0 .. Len(s), IsInjective(s)
    PROVE  LET a == SubSeq(s, 1, n)
               t == SubSeq(s, n + 1, Len(s))
           IN  /\ a \in Seq(A) /\ Len(a) = n /\ IsInjective(a)
               /\ t \in Seq(A) /\ Len(t) = Len(s) - n /\ IsInjective(t)
               /\ ToSet(t) = ToSet(s) \ ToSet(a) /\ ToSet(a) \subseteq ToSet(s)
               /\ \A b, c : AfterIn(s, b, c) /\ b \in ToSet(t) => AfterIn(t, b, c)
<1> DEFINE a == SubSeq(s, 1, n)
           t == SubSeq(s, n + 1, Len(s))
<1>0. Len(s) \in Nat /\ \A i \in 1 .. Len(s) : s[i] \in A
  OBVIOUS
<1>1. a \in Seq(A) /\ Len(a) = n /\ \A i \in 1 .. n : a[i] = s[i] /\ i \in 1 .. Len(s)
  BY <1>0
<1>2. /\ t \in Seq(A) /\ Len(t) = Len(s) - n
      /\ \A i \in 1 .. Len(s) - n : t[i] = s[n + i] /\ n + i \in 1 .. Len(s)
  BY <1>0
<1> HIDE DEF a, t
<1>3. /\ \A x : x \in ToSet(s) <=> \E i \in 1 .. Len(s) : s[i] = x
      /\ \A i, j \in 1 .. Len(s) : s[i] = s[j] => i = j
  BY ToSetSpec
<1>4. \A x : x \in ToSet(a) <=> \E i \in 1 .. n : a[i] = x
  BY <1>1, ToSetSpec
<1>5. \A x : x \in ToSet(t) <=> \E i \in 1 .. Len(s) - n : t[i] = x
  BY <1>2, ToSetSpec
<1>6. IsInjective(a)
  <2>1. \A i, j \in 1 .. Len(a) : a[i] = a[j] => i = j
    BY <1>1, <1>3
  <2> QED BY <1>1, <2>1, ToSetSpec
<1>7. IsInjective(t)
  <2>1. ASSUME NEW i \in 1 .. Len(t), NEW j \in 1 .. Len(t), t[i] = t[j] PROVE i = j
    <3>1. n + i = n + j
      <4>1. i \in 1 .. Len(s) - n /\ j \in 1 .. Len(s) - n
        BY <1>2, <2>1
      <4>2. /\ s[n + i] = s[n + j]
            /\ n + i \in 1 .. Len(s) /\ n + j \in 1 .. Len(s)
        BY <1>2, <2>1, <4>1
      <4> QED BY <1>3, <4>2, ZenonT(30)
    <3> QED BY <1>0, <1>2, <3>1
  <2> QED BY <1>2, <2>1, ToSetSpec
<1>8. ToSet(a) \subseteq ToSet(s)
  BY <1>1, <1>3, <1>4
<1>9. ASSUME NEW x \in ToSet(t) PROVE x \in ToSet(s) \ ToSet(a)
  <2>1. PICK i \in 1 .. Len(s) - n : t[i] = x
    BY <1>5
  <2>2. s[n + i] = x /\ n + i \in 1 .. Len(s)
    BY <1>2, <2>1
  <2>3. ASSUME NEW j \in 1 .. n, a[j] = x PROVE FALSE
    <3>1. n + i = j
      BY <1>1, <1>3, <2>2, <2>3
    <3> QED BY <1>0, <2>1, <3>1
  <2> QED BY <1>3, <1>4, <2>2, <2>3
<1>10. ASSUME NEW i \in 1 .. Len(s), s[i] \notin ToSet(a)
       PROVE  /\ i - n \in 1 .. Len(s) - n /\ t[i - n] = s[i]
              /\ s[i] \in ToSet(t)
  <2>1. i \notin 1 .. n
    BY <1>1, <1>4, <1>10
  <2>2. i - n \in 1 .. Len(s) - n /\ n + (i - n) = i
    BY <1>0, <2>1
  <2> QED BY <1>2, <1>5, <2>2
<1>11. ToSet(t) = ToSet(s) \ ToSet(a)
  BY <1>3, <1>9, <1>10
<1>12. ASSUME NEW b, NEW c, AfterIn(s, b, c), b \in ToSet(t) PROVE AfterIn(t, b, c)
  <2>1. PICK i, j \in 1 .. Len(s) : i < j /\ s[i] = b /\ s[j] = c
    BY <1>12 DEF AfterIn
  <2>2. i - n \in 1 .. Len(t) /\ t[i - n] = b
    BY <1>2, <1>10, <1>11, <1>12, <2>1
  <2>3. j - n \in 1 .. Len(t) /\ n + (j - n) = j
    BY <1>0, <1>2, <2>1, <2>2
  <2>4. t[j - n] = c /\ i - n < j - n
    BY <1>0, <1>2, <2>1, <2>3
  <2> QED BY <2>2, <2>3, <2>4 DEF AfterIn
<1> QED BY <1>1, <1>2, <1>6, <1>7, <1>8, <1>11, <1>12 DEF a, t

\* A queue that holds nothing twice is as long as its set is large.
LEMMA LenIsCardinality ==
    ASSUME NEW A, NEW s \in Seq(A), IsInjective(s)
    PROVE  IsFiniteSet(ToSet(s)) /\ Cardinality(ToSet(s)) = Len(s)
<1> DEFINE n == Len(s)
           f == [i \in 1 .. n |-> s[i]]
<1>1. /\ n \in Nat /\ ToSet(s) = {s[i] : i \in 1 .. n}
      /\ \A i, j \in 1 .. n : s[i] = s[j] => i = j
  BY ToSetSpec
<1>2. f \in Bijection(1 .. n, ToSet(s))
  BY <1>1 DEF Bijection, Injection, Surjection, IsInjective
<1>3. ExistsBijection(1 .. n, ToSet(s))
  BY <1>2 DEF ExistsBijection
<1> HIDE DEF f
<1>4. IsFiniteSet(1 .. n) /\ Cardinality(1 .. n) = n
  <2>1. 1 \in Int /\ n \in Int /\ n \in Nat
    BY <1>1
  <2> HIDE DEF n
  <2>2. IsFiniteSet(1 .. n) /\ Cardinality(1 .. n) = IF 1 > n THEN 0 ELSE n - 1 + 1
    BY <2>1, FS_Interval
  <2> QED BY <2>1, <2>2
<1> QED BY <1>3, <1>4, FS_Bijection

-----------------------------------------------------------------------------
(* Counting tokens in blocks                                                *)

\* Multiples of the block size.
LEMMA BlockTimes ==
    /\ BlockSize \in Nat \ {0}
    /\ \A i \in Nat : i * BlockSize \in Nat /\ (i + 1) * BlockSize = i * BlockSize + BlockSize
    /\ 0 * BlockSize = 0 /\ 1 * BlockSize = BlockSize
    /\ \A i \in Nat \ {0} : (i - 1) * BlockSize = i * BlockSize - BlockSize
    /\ \A i, j \in Nat : i < j => i * BlockSize + BlockSize <= j * BlockSize
    /\ \A i, j \in Nat : i <= j <=> i * BlockSize <= j * BlockSize
    /\ \A i, j \in Nat : i * BlockSize = j * BlockSize => i = j
<1>1. BlockSize \in Nat \ {0}
  BY KVCacheAssumption
<1> DEFINE B == BlockSize
<1>2. \A i \in Nat : i * B \in Nat /\ (i + 1) * B = i * B + B
  BY <1>1
<1>3. \A i, j \in Nat : i < j => i * B + B <= j * B
  <2> SUFFICES ASSUME NEW i \in Nat, NEW j \in Nat, i < j PROVE i * B + B <= j * B
    OBVIOUS
  <2>1. PICK k \in Nat : j = i + 1 + k
    <3>1. j - i - 1 \in Nat /\ j = i + 1 + (j - i - 1)
      OBVIOUS
    <3> QED BY <3>1
  <2>2. j * B = i * B + B + k * B /\ k * B \in Nat /\ i * B \in Nat
    BY <1>1, <2>1
  <2> QED BY <1>1, <2>2
<1>4. 0 * B = 0 /\ 1 * B = B /\ \A i \in Nat \ {0} : (i - 1) * B = i * B - B
  BY <1>1
<1> HIDE DEF B
<1>5. \A i, j \in Nat : i <= j <=> i * B <= j * B
  <2> SUFFICES ASSUME NEW i \in Nat, NEW j \in Nat PROVE i <= j <=> i * B <= j * B
    OBVIOUS
  <2>1. i * B \in Nat /\ j * B \in Nat /\ B \in Nat \ {0}
    BY <1>1, <1>2 DEF B
  <2>2. (i < j => i * B + B <= j * B) /\ (j < i => j * B + B <= i * B)
    BY <1>3
  <2>3. i = j => i * B = j * B
    OBVIOUS
  <2> QED BY <2>1, <2>2, <2>3
<1>6. \A i, j \in Nat : i * B = j * B => i = j
  <2> SUFFICES ASSUME NEW i \in Nat, NEW j \in Nat, i * B = j * B PROVE i = j
    OBVIOUS
  <2>1. i * B \in Nat /\ j * B \in Nat /\ B \in Nat \ {0}
    BY <1>1, <1>2 DEF B
  <2>2. (i < j => i * B + B <= j * B) /\ (j < i => j * B + B <= i * B)
    BY <1>3
  <2> QED BY <2>1, <2>2
<1> QED BY <1>1, <1>2, <1>3, <1>4, <1>5, <1>6 DEF B

\* The blocks that n tokens fill.
LEMMA BlockDiv ==
    /\ \A a \in Nat : /\ a \div BlockSize \in Nat
                      /\ (a \div BlockSize) * BlockSize <= a
                      /\ a < (a \div BlockSize) * BlockSize + BlockSize
    /\ \A a \in Int : a \div BlockSize \in Int /\ (a < 0 => a \div BlockSize < 0)
    /\ \A i \in Nat : (i * BlockSize) \div BlockSize = i
<1>1. BlockSize \in Nat \ {0}
  BY KVCacheAssumption
<1> DEFINE B == BlockSize
<1>2. ASSUME NEW a \in Int
      PROVE  /\ a \div B \in Int
             /\ B * (a \div B) <= a /\ a < B * (a \div B) + B
  BY <1>1
<1>3. ASSUME NEW a \in Int
      PROVE  /\ a \div B \in Int /\ (a \div B) * B \in Int
             /\ (a \div B) * B <= a /\ a < (a \div B) * B + B
  <2> DEFINE q == a \div B
  <2>1. q \in Int /\ B * q <= a /\ a < B * q + B
    BY <1>2
  <2> HIDE DEF q
  <2>2. B * q = q * B /\ q * B \in Int
    BY <1>1, <2>1
  <2>3. q \in Int /\ q * B \in Int /\ q * B <= a /\ a < q * B + B
    BY <2>1, <2>2
  <2> QED BY <2>3 DEF q
<1> HIDE DEF B
<1>4. ASSUME NEW a \in Nat PROVE a \div B >= 0
  <2> DEFINE q == a \div B
  <2>1. q \in Int /\ q * B \in Int /\ a < q * B + B
    BY <1>3
  <2> HIDE DEF q
  <2>2. ASSUME q < 0 PROVE FALSE
    <3>1. q * B + B <= 0
      <4>1. PICK k \in Nat : q = -1 - k
        <5>1. -1 - q \in Nat /\ q = -1 - (-1 - q)
          BY <2>1, <2>2
        <5> QED BY <5>1
      <4>2. q * B = - B - k * B /\ k * B \in Nat
        BY <1>1, <4>1 DEF B
      <4> QED BY <1>1, <4>2 DEF B
    <3> QED BY <1>1, <2>1, <3>1 DEF B
  <2>3. q >= 0
    BY <2>1, <2>2
  <2> QED BY <2>3 DEF q
<1>5. ASSUME NEW a \in Int, a < 0 PROVE a \div B < 0
  <2> DEFINE q == a \div B
  <2>1. q \in Int /\ q * B \in Int /\ q * B <= a
    BY <1>3
  <2> HIDE DEF q
  <2>2. ASSUME q >= 0 PROVE FALSE
    <3>1. q * B \in Nat
      BY <1>1, <2>1, <2>2 DEF B
    <3> QED BY <1>5, <2>1, <3>1
  <2>3. q < 0
    BY <2>1, <2>2
  <2> QED BY <2>3 DEF q
<1>6. ASSUME NEW i \in Nat PROVE (i * B) \div B = i
  <2> DEFINE a == i * B
             q == a \div B
  <2>0. a \in Nat
    BY BlockTimes DEF B
  <2> HIDE DEF a
  <2>1. q \in Int /\ q * B \in Int /\ q * B <= a /\ a < q * B + B /\ q >= 0
    BY <1>3, <1>4, <2>0
  <2> HIDE DEF q
  <2>2. q \in Nat
    BY <2>1
  <2>3. (q < i => q * B + B <= i * B) /\ (i < q => i * B + B <= q * B)
    BY <2>2, BlockTimes DEF B
  <2>4. q = i
    BY <1>1, <2>0, <2>1, <2>2, <2>3 DEF B, a
  <2> QED BY <2>4 DEF q, a
<1> QED BY <1>3, <1>4, <1>5, <1>6 DEF B

\* The blocks that n tokens need.
LEMMA BlockCDiv ==
    \A a \in Nat : /\ CDiv(a, BlockSize) \in Nat
                   /\ a <= CDiv(a, BlockSize) * BlockSize
                   /\ CDiv(a, BlockSize) * BlockSize < a + BlockSize
<1> SUFFICES ASSUME NEW a \in Nat
             PROVE  /\ CDiv(a, BlockSize) \in Nat
                    /\ a <= CDiv(a, BlockSize) * BlockSize
                    /\ CDiv(a, BlockSize) * BlockSize < a + BlockSize
  OBVIOUS
<1>1. BlockSize \in Nat \ {0}
  BY KVCacheAssumption
<1> DEFINE b == a + BlockSize - 1
           q == b \div BlockSize
<1>2. b \in Nat
  BY <1>1
<1> HIDE DEF b
<1>3. q \in Nat /\ q * BlockSize <= b /\ b < q * BlockSize + BlockSize
  BY <1>2, BlockDiv
<1> HIDE DEF q
<1>4. q * BlockSize \in Nat
  BY <1>3, BlockTimes
<1>5. a <= q * BlockSize /\ q * BlockSize < a + BlockSize
  BY <1>1, <1>2, <1>3, <1>4 DEF b
<1> QED BY <1>3, <1>5 DEF CDiv, q, b

-----------------------------------------------------------------------------
(* Block hashes                                                             *)

Prefix(h) == SubSeq(h, 1, Len(h) - BlockSize)

\* A block hash is a prefix of the tokens, its parent a shorter one.
LEMMA BlockHashSpec ==
    ASSUME NEW V, NEW tok \in Seq(V), NEW i \in Nat, i * BlockSize <= Len(tok)
    PROVE  /\ BlockHash(tok, i) \in Seq(V)
           /\ Len(BlockHash(tok, i)) = i * BlockSize
           /\ \A k \in 1 .. i * BlockSize : BlockHash(tok, i)[k] = tok[k]
           /\ i # 0 => BlockHash(tok, i) # NoHash
           /\ i # 0 => Prefix(BlockHash(tok, i)) = BlockHash(tok, i - 1)
           /\ i # 1 /\ i # 0 <=> Len(BlockHash(tok, i)) > BlockSize
<1> DEFINE h == BlockHash(tok, i)
           n == i * BlockSize
<1>1. BlockSize \in Nat \ {0} /\ n \in Nat /\ (i # 0 => n >= BlockSize)
  <2>1. i # 0 => 1 <= i /\ i \in Nat
    OBVIOUS
  <2>2. i # 0 => 1 * BlockSize <= i * BlockSize
    BY <2>1, BlockTimes
  <2> QED BY <2>2, BlockTimes
<1>2. h \in Seq(V) /\ Len(h) = n /\ \A k \in 1 .. n : h[k] = tok[k]
  <2> HIDE DEF n
  <2>1. n \in Nat /\ n <= Len(tok) /\ Len(tok) \in Nat
    BY <1>1 DEF n
  <2>2. /\ SubSeq(tok, 1, n) \in Seq(V) /\ Len(SubSeq(tok, 1, n)) = n
        /\ \A k \in 1 .. n : SubSeq(tok, 1, n)[k] = tok[k]
    BY <2>1
  <2> QED BY <2>2 DEF BlockHash, n
<1>3. i # 0 => h # NoHash
  BY <1>1, <1>2 DEF NoHash
<1>4. i # 0 => Prefix(h) = BlockHash(tok, i - 1)
  <2> SUFFICES ASSUME i # 0 PROVE Prefix(h) = BlockHash(tok, i - 1)
    OBVIOUS
  <2> DEFINE m == n - BlockSize
  <2>1. (i - 1) * BlockSize = m /\ m \in Nat /\ m <= n /\ n \in Nat /\ n <= Len(tok)
    BY <1>1, BlockTimes
  <2> HIDE DEF m, n
  <2>2. SubSeq(SubSeq(tok, 1, n), 1, m) = SubSeq(tok, 1, m)
    <3>1. /\ SubSeq(tok, 1, n) \in Seq(V) /\ Len(SubSeq(tok, 1, n)) = n
          /\ \A k \in 1 .. n : SubSeq(tok, 1, n)[k] = tok[k]
      BY <2>1
    <3> DEFINE u == SubSeq(tok, 1, n)
    <3> HIDE DEF u
    <3>2. /\ SubSeq(u, 1, m) \in Seq(V) /\ Len(SubSeq(u, 1, m)) = m
          /\ \A k \in 1 .. m : SubSeq(u, 1, m)[k] = u[k]
      BY <2>1, <3>1 DEF u
    <3>3. /\ SubSeq(tok, 1, m) \in Seq(V) /\ Len(SubSeq(tok, 1, m)) = m
          /\ \A k \in 1 .. m : SubSeq(tok, 1, m)[k] = tok[k]
      BY <2>1
    <3>4. \A k \in 1 .. m : SubSeq(u, 1, m)[k] = SubSeq(tok, 1, m)[k]
      BY <2>1, <3>1, <3>2, <3>3 DEF u
    <3>5. SubSeq(u, 1, m) = SubSeq(tok, 1, m)
      BY <2>1, <3>2, <3>3, <3>4, SeqEqual
    <3> QED BY <3>5 DEF u
  <2> QED BY <1>2, <2>1, <2>2 DEF Prefix, BlockHash, m, n
<1>5. i # 1 /\ i # 0 <=> Len(h) > BlockSize
  <2>1. CASE i = 0
    BY <1>1, <1>2, <2>1, BlockTimes
  <2>2. CASE i = 1
    BY <1>1, <1>2, <2>2, BlockTimes
  <2>3. CASE i # 0 /\ i # 1
    <3>1. 1 < i /\ 1 \in Nat
      BY <2>3
    <3>2. 1 * BlockSize + BlockSize <= n
      BY <3>1, BlockTimes
    <3> QED BY <1>1, <1>2, <2>3, <3>2, BlockTimes
  <2> QED BY <2>1, <2>2, <2>3
<1> QED BY <1>2, <1>3, <1>4, <1>5

\* t starts with the tokens of s.
Extends(s, t) ==
    Len(s) <= Len(t) /\ \A k \in 1 .. Len(s) : t[k] = s[k]

\* More tokens leave the hashes of the blocks there are as they were.
LEMMA ExtendsSpec ==
    ASSUME NEW V, NEW s \in Seq(V), NEW t \in Seq(V), Extends(s, t),
           NEW i \in Nat, i * BlockSize <= Len(s)
    PROVE  i * BlockSize <= Len(t) /\ BlockHash(t, i) = BlockHash(s, i)
<1>1. i * BlockSize \in Nat /\ Len(s) \in Nat /\ Len(t) \in Nat
  BY BlockTimes
<1>2. i * BlockSize <= Len(t)
  BY <1>1 DEF Extends
<1> DEFINE a == BlockHash(s, i)
           b == BlockHash(t, i)
           n == i * BlockSize
<1>3. a \in Seq(V) /\ Len(a) = n /\ \A k \in 1 .. n : a[k] = s[k]
  BY BlockHashSpec
<1>4. b \in Seq(V) /\ Len(b) = n /\ \A k \in 1 .. n : b[k] = t[k]
  BY <1>2, BlockHashSpec
<1> HIDE DEF a, b, n
<1>5. \A k \in 1 .. n : a[k] = b[k]
  BY <1>1, <1>3, <1>4 DEF Extends, n
<1>6. a = b
  BY <1>3, <1>4, <1>5, SeqEqual
<1> QED BY <1>2, <1>6 DEF a, b

-----------------------------------------------------------------------------
(* The invariant of the manager                                             *)

\* The requests whose table lists the block.
Holders(m, b) == {r \in Request : b \in ToSet(m.table[r])}

\* The number of blocks of a request that are published.
Done(m, r) == IF m.cached[r] = NotCached THEN 0 ELSE m.cached[r]

CacheTyped(cache) == \A h \in DOMAIN cache : cache[h] \in Seq(Block) /\ cache[h] # <<>>

KVTypes(m) ==
    /\ KVShape(m)
    /\ m.ref \in [Block -> Nat]
    /\ m.free \in Seq(Block)
    /\ m.table \in [Request -> Seq(Block \ {NullBlock})]
    /\ m.cached \in [Request -> Nat \cup {NotCached}]
    /\ DOMAIN m.hash = Block /\ m.hash[NullBlock] = NoHash
    /\ CacheTyped(m.cache)
    /\ EnableCaching \/ \A b \in Block : m.hash[b] = NoHash
    /\ m.err = FALSE

\* BlockAccounting, of a given state of the manager.
Counted(m) ==
    /\ \A b \in Block \ {NullBlock} :
          IsFiniteSet(Holders(m, b)) /\ m.ref[b] = Cardinality(Holders(m, b))
    /\ \A r \in Request : IsInjective(m.table[r])
    /\ IsInjective(m.free)
    /\ ToSet(m.free) = {b \in Block \ {NullBlock} : m.ref[b] = 0}

\* CacheIndexExact, for every hash.
Indexed(hash, cache) ==
    \A b \in Block : \A h :
        (h # NoHash /\ hash[b] = h) <=> (h \in DOMAIN cache /\ b \in ToSet(cache[h]))

\* A request's blocks are published up to Done under the hashes of its own
\* tokens; the rest of its table has no hash yet and belongs to it alone.
PublishedOf(m, tok, V, r) ==
    /\ Done(m, r) <= Len(m.table[r])
    /\ m.cached[r] # NotCached => m.cached[r] # 0
    /\ m.table[r] # <<>> => tok[r] \in Seq(V)
    /\ \A i \in 1 .. Len(m.table[r]) :
          /\ i <= Done(m, r) => /\ i * BlockSize <= Len(tok[r])
                                /\ m.hash[m.table[r][i]] = BlockHash(tok[r], i)
          /\ i > Done(m, r) => /\ m.hash[m.table[r][i]] = NoHash
                               /\ \A q \in Request : m.table[r][i] \in ToSet(m.table[q]) => q = r

Published(m, tok, V) == \A r \in Request : PublishedOf(m, tok, V, r)

\* The prefix of a cached block that is in no table is cached in a block that
\* is in use or behind it in the free queue.
OutlivedBy(m, b, c) ==
    /\ m.hash[c] = Prefix(m.hash[b]) /\ m.hash[c] # NoHash
    /\ m.ref[c] > 0 \/ AfterIn(m.free, b, c)

Outlived(m) ==
    \A b \in Block \ {NullBlock} :
        m.ref[b] = 0 /\ Len(m.hash[b]) > BlockSize =>
            \E c \in Block \ {NullBlock} : OutlivedBy(m, b, c)

KVInv(m, tok, V) ==
    /\ KVTypes(m)
    /\ Counted(m)
    /\ Indexed(m.hash, m.cache)
    /\ Published(m, tok, V)
    /\ Outlived(m)

-----------------------------------------------------------------------------
(* The index                                                                *)

\* What becomes of the hashes when the blocks of S are evicted.
Unhashed(hash, S) == [b \in Block |-> IF b \in S THEN NoHash ELSE hash[b]]

\* Under each hash of the index there is a block with that hash.
LEMMA IndexedKey ==
    ASSUME NEW hash, NEW cache, CacheTyped(cache), Indexed(hash, cache), NEW h \in DOMAIN cache
    PROVE  h # NoHash /\ \E b \in Block : hash[b] = h /\ b \in ToSet(cache[h])
<1>1. cache[h] \in Seq(Block) /\ cache[h] # <<>>
  BY DEF CacheTyped
<1>2. PICK b \in Block : b \in ToSet(cache[h])
  <2>1. ToSet(cache[h]) # {} /\ ToSet(cache[h]) \subseteq Block
    BY <1>1, ToSetSpec
  <2> QED BY <2>1
<1> QED BY <1>2 DEF Indexed

\* _maybe_evict_cached_block, of several blocks.
LEMMA EvictSpec ==
    ASSUME NEW m, KVTypes(m), Indexed(m.hash, m.cache), NEW S \in SUBSET Block
    PROVE  LET e == EvictCachedBlocks(m, S)
           IN  /\ e.hash = Unhashed(m.hash, S)
               /\ CacheTyped(e.cache) /\ Indexed(e.hash, e.cache)
               /\ DOMAIN e = KVFields
               /\ e.ref = m.ref /\ e.free = m.free /\ e.table = m.table
               /\ e.cached = m.cached /\ e.err = m.err
<1> DEFINE evicted == {b \in S : /\ m.hash[b] \in DOMAIN m.cache
                                 /\ b \in ToSet(m.cache[m.hash[b]])}
           rest(h) == {b \in Block : ~(b \in evicted /\ m.hash[b] = h)}
           left(h) == Among(m.cache[h], rest(h))
           keys    == {h \in DOMAIN m.cache : left(h) # <<>>}
           hash2   == [b \in Block |-> IF b \in evicted THEN NoHash ELSE m.hash[b]]
           cache2  == [h \in keys |-> left(h)]
           e       == EvictCachedBlocks(m, S)
<1>1. \A b \in S : b \in evicted <=> m.hash[b] # NoHash
  BY DEF Indexed
<1>2. DOMAIN m = KVFields
  BY DEF KVTypes, KVShape
<1>3. /\ DOMAIN e = KVFields /\ e.hash = hash2 /\ e.cache = cache2
      /\ e.ref = m.ref /\ e.free = m.free /\ e.table = m.table
      /\ e.cached = m.cached /\ e.err = m.err
  <2>1. e = [m EXCEPT !.hash = hash2, !.cache = cache2]
    <3>1. DOMAIN m.hash = Block
      BY DEF KVTypes
    <3> QED BY DEF EvictCachedBlocks
  <2> HIDE DEF e, hash2, cache2
  <2> QED BY <1>2, <2>1 DEF KVFields
<1>4. hash2 = Unhashed(m.hash, S)
  <2>1. \A b \in Block : (IF b \in evicted THEN NoHash ELSE m.hash[b])
                           = (IF b \in S THEN NoHash ELSE m.hash[b])
    BY <1>1
  <2> QED BY <2>1 DEF Unhashed
<1>5. ASSUME NEW h \in DOMAIN m.cache
      PROVE  /\ left(h) \in Seq(Block)
             /\ ToSet(left(h)) = ToSet(m.cache[h]) \cap rest(h)
  <2>1. m.cache[h] \in Seq(Block)
    BY DEF KVTypes, CacheTyped
  <2> HIDE DEF rest
  <2> QED BY <2>1, AmongSpec
<1>6. CacheTyped(cache2)
  <2> HIDE DEF left
  <2> QED BY <1>5 DEF CacheTyped
<1>7. \A b \in Block : hash2[b] = IF b \in evicted THEN NoHash ELSE m.hash[b]
  OBVIOUS
<1>8. DOMAIN cache2 = keys /\ \A h \in keys : cache2[h] = left(h)
  OBVIOUS
<1>9. Indexed(hash2, cache2)
  <2> SUFFICES ASSUME NEW b \in Block, NEW h
               PROVE  (h # NoHash /\ hash2[b] = h) <=> (h \in keys /\ b \in ToSet(left(h)))
    <3> HIDE DEF hash2, cache2, keys, left
    <3> QED BY <1>8 DEF Indexed
  <2>1. (h # NoHash /\ m.hash[b] = h) <=> (h \in DOMAIN m.cache /\ b \in ToSet(m.cache[h]))
    BY DEF Indexed
  <2>2. ASSUME h # NoHash, hash2[b] = h PROVE h \in keys /\ b \in ToSet(left(h))
    <3>1. b \notin evicted /\ m.hash[b] = h
      BY <1>7, <2>2
    <3>2. h \in DOMAIN m.cache /\ b \in ToSet(m.cache[h]) /\ b \in rest(h)
      BY <2>1, <2>2, <3>1
    <3>3. b \in ToSet(left(h))
      BY <1>5, <3>2
    <3>4. left(h) # <<>>
      <4>1. ToSet(<<>>) = {}
        BY DEF ToSet
      <4> HIDE DEF left
      <4> QED BY <3>3, <4>1
    <3> QED BY <3>2, <3>3, <3>4
  <2>3. ASSUME h \in keys, b \in ToSet(left(h)) PROVE h # NoHash /\ hash2[b] = h
    <3>1. h \in DOMAIN m.cache /\ b \in ToSet(m.cache[h]) /\ b \in rest(h)
      BY <1>5, <2>3
    <3>2. h # NoHash /\ m.hash[b] = h
      BY <2>1, <3>1
    <3>3. b \notin evicted
      BY <3>1, <3>2
    <3> QED BY <1>7, <3>2, <3>3
  <2> HIDE DEF hash2, keys, left
  <2> QED BY <2>2, <2>3
<1> HIDE DEF e, hash2, cache2
<1> QED BY <1>3, <1>4, <1>6, <1>9 DEF e

\* A block of the free queue is in no table; a block of a table is not free.
LEMMA CountedSpec ==
    ASSUME NEW m, KVTypes(m), Counted(m)
    PROVE  /\ \A b \in ToSet(m.free) : b \in Block \ {NullBlock} /\ m.ref[b] = 0
           /\ \A b \in ToSet(m.free), r \in Request : b \notin ToSet(m.table[r])
           /\ \A r \in Request : \A b \in ToSet(m.table[r]) :
                 b \in Block \ {NullBlock} /\ m.ref[b] \in Nat \ {0} /\ b \notin ToSet(m.free)
<1>1. \A b \in ToSet(m.free) : b \in Block \ {NullBlock} /\ m.ref[b] = 0
  BY DEF Counted
<1>2. ASSUME NEW b \in Block \ {NullBlock}, NEW r \in Request, b \in ToSet(m.table[r])
      PROVE  m.ref[b] # 0
  <2>1. IsFiniteSet(Holders(m, b)) /\ m.ref[b] = Cardinality(Holders(m, b))
    BY DEF Counted
  <2>2. Holders(m, b) # {}
    BY <1>2 DEF Holders
  <2> QED BY <2>1, <2>2, FS_EmptySet
<1>3. \A r \in Request : ToSet(m.table[r]) \subseteq Block \ {NullBlock}
  BY ToSetSpec DEF KVTypes
<1>4. \A b \in Block : m.ref[b] \in Nat
  BY DEF KVTypes
<1> QED BY <1>1, <1>2, <1>3, <1>4

\* Blocks with a place in the queue are in the queue.
LEMMA AfterInSpec ==
    ASSUME NEW A, NEW s \in Seq(A), NEW b, NEW c, AfterIn(s, b, c)
    PROVE  b \in ToSet(s) /\ c \in ToSet(s)
  BY ToSetSpec DEF AfterIn

\* What allocate_new_blocks changes: r gets the first n free blocks.
TakesBlocks(m, m2, r, n) ==
    LET T == ToSet(NewBlocks(m, n))
    IN  /\ DOMAIN m2 = KVFields
        /\ m2.table = [m.table EXCEPT ![r] = m.table[r] \o NewBlocks(m, n)]
        /\ m2.free = SubSeq(m.free, n + 1, Len(m.free))
        /\ m2.ref = [b \in Block |-> IF b \in T THEN m.ref[b] + 1 ELSE m.ref[b]]
        /\ DOMAIN m2.hash = Block
        /\ \A b \in Block : m2.hash[b] = IF b \in T THEN NoHash ELSE m.hash[b]
        /\ CacheTyped(m2.cache) /\ Indexed(m2.hash, m2.cache)
        /\ m2.cached = m.cached
        /\ m2.err = FALSE

\* allocate_new_blocks takes the blocks off the head of the free queue.
LEMMA TakesBlocksSpec ==
    ASSUME NEW m, KVTypes(m), Counted(m), Indexed(m.hash, m.cache),
           NEW r \in Request, NEW n \in 0 .. Len(m.free)
    PROVE  TakesBlocks(m, [GetNewBlocks(m, n) EXCEPT !.table[r] = @ \o NewBlocks(m, n)], r, n)
<1> DEFINE bs == NewBlocks(m, n)
           T == ToSet(bs)
           S == IF EnableCaching THEN T ELSE {}
           e == EvictCachedBlocks(m, S)
           g == GetNewBlocks(m, n)
           m2 == [g EXCEPT !.table[r] = @ \o bs]
           free2 == SubSeq(m.free, n + 1, Len(m.free))
<1>1. m.free \in Seq(Block) /\ Len(m.free) \in Nat /\ IsInjective(m.free)
  BY DEF KVTypes, Counted
<1>2. bs \in Seq(Block) /\ T \subseteq ToSet(m.free) /\ T \subseteq Block
  <2>1. bs \in Seq(Block) /\ T \subseteq ToSet(m.free)
    BY <1>1, DropSpec DEF NewBlocks
  <2> HIDE DEF bs
  <2> QED BY <2>1, ToSetSpec
<1>3. /\ e.hash = Unhashed(m.hash, S)
      /\ CacheTyped(e.cache) /\ Indexed(e.hash, e.cache)
      /\ DOMAIN e = KVFields
      /\ e.ref = m.ref /\ e.free = m.free /\ e.table = m.table
      /\ e.cached = m.cached /\ e.err = m.err
  <2>1. S \in SUBSET Block
    BY <1>2
  <2> HIDE DEF S
  <2> QED BY <2>1, EvictSpec
<1>4. g = [e EXCEPT !.free = SubSeq(@, n + 1, Len(@)),
                    !.ref  = [b \in Block |-> IF b \in T THEN @[b] + 1 ELSE @[b]],
                    !.err  = @ \/ \E b \in T : m.ref[b] # 0]
  <2>1. ~ (n > Len(m.free))
    BY <1>1
  <2> QED BY <2>1 DEF GetNewBlocks
<1> HIDE DEF e, g, S
<1>5. /\ DOMAIN g = KVFields /\ g.free = free2 /\ g.table = m.table
      /\ g.ref = [b \in Block |-> IF b \in T THEN m.ref[b] + 1 ELSE m.ref[b]]
      /\ g.hash = e.hash /\ g.cache = e.cache /\ g.cached = m.cached
      /\ g.err = (m.err \/ \E b \in T : m.ref[b] # 0)
  <2> HIDE DEF T
  <2> QED BY <1>3, <1>4 DEF KVFields
<1>6. g.err = FALSE
  <2>1. \A b \in T : m.ref[b] = 0
    BY <1>2, CountedSpec
  <2>2. m.err = FALSE
    BY DEF KVTypes
  <2> QED BY <1>5, <2>1, <2>2
<1>7. DOMAIN g.hash = Block /\ \A b \in Block : g.hash[b] = IF b \in T THEN NoHash ELSE m.hash[b]
  <2>1. g.hash = Unhashed(m.hash, S)
    BY <1>3, <1>5
  <2>2. CASE EnableCaching
    BY <2>1, <2>2 DEF Unhashed, S
  <2>3. CASE ~EnableCaching
    BY <2>1, <2>3 DEF Unhashed, S, KVTypes
  <2> QED BY <2>2, <2>3
<1>8. DOMAIN m.table = Request
  BY DEF KVTypes
<1> HIDE DEF bs
<1>9. /\ DOMAIN m2 = KVFields /\ m2.table = [m.table EXCEPT ![r] = m.table[r] \o bs]
      /\ m2.free = g.free /\ m2.ref = g.ref /\ m2.hash = g.hash /\ m2.cache = g.cache
      /\ m2.cached = g.cached /\ m2.err = g.err
  BY <1>5, <1>8 DEF KVFields
<1> HIDE DEF m2
<1>10. TakesBlocks(m, m2, r, n)
  BY <1>3, <1>5, <1>6, <1>7, <1>9 DEF TakesBlocks, bs
<1> QED BY <1>10 DEF m2, g, bs

\* It keeps the invariant: what continues an evicted block goes before it.
LEMMA TakesBlocksInv ==
    ASSUME NEW m, NEW tok, NEW V, KVInv(m, tok, V), NEW r \in Request, tok[r] \in Seq(V),
           NEW n \in 0 .. Len(m.free), NEW m2, TakesBlocks(m, m2, r, n)
    PROVE  /\ KVInv(m2, tok, V)
           /\ Len(m2.table[r]) = Len(m.table[r]) + n
           /\ m2.cached = m.cached
           /\ \A q \in Request \ {r} : m2.table[q] = m.table[q]
<1> DEFINE bs == NewBlocks(m, n)
           T == ToSet(bs)
<1>1. /\ KVTypes(m) /\ Counted(m) /\ Indexed(m.hash, m.cache)
      /\ Published(m, tok, V) /\ Outlived(m)
  BY DEF KVInv
<1>2. m.free \in Seq(Block) /\ Len(m.free) \in Nat /\ IsInjective(m.free)
  BY <1>1 DEF KVTypes, Counted
<1>3. /\ bs \in Seq(Block) /\ Len(bs) = n /\ IsInjective(bs) /\ T \subseteq ToSet(m.free)
      /\ m2.free \in Seq(Block) /\ IsInjective(m2.free)
      /\ ToSet(m2.free) = ToSet(m.free) \ T
      /\ \A b, c : AfterIn(m.free, b, c) /\ b \in ToSet(m2.free) => AfterIn(m2.free, b, c)
  BY <1>2, DropSpec DEF NewBlocks, TakesBlocks
<1>4. \A b \in T : b \in Block \ {NullBlock} /\ m.ref[b] = 0 /\ \A q \in Request : b \notin ToSet(m.table[q])
  BY <1>1, <1>3, CountedSpec
<1>5. bs \in Seq(Block \ {NullBlock})
  <2> HIDE DEF bs
  <2>1. \A i \in 1 .. n : bs[i] \in Block \ {NullBlock}
    BY <1>3, <1>4, ToSetSpec
  <2> QED BY <1>3, <2>1
<1> HIDE DEF bs
<1>6. m.table \in [Request -> Seq(Block \ {NullBlock})]
  BY <1>1 DEF KVTypes
<1>7. /\ DOMAIN m2.table = Request
      /\ m2.table[r] = m.table[r] \o bs
      /\ \A q \in Request \ {r} : m2.table[q] = m.table[q]
  BY <1>6 DEF TakesBlocks, bs
<1>8. /\ m2.table[r] \in Seq(Block \ {NullBlock})
      /\ ToSet(m2.table[r]) = ToSet(m.table[r]) \cup T
      /\ IsInjective(m2.table[r])
      /\ Len(m2.table[r]) = Len(m.table[r]) + n
      /\ \A i \in 1 .. Len(m.table[r]) : m2.table[r][i] = m.table[r][i]
      /\ \A i \in 1 .. n : m2.table[r][Len(m.table[r]) + i] = bs[i]
  <2> DEFINE t == m.table[r]
  <2>1. t \in Seq(Block \ {NullBlock}) /\ IsInjective(t)
    BY <1>1, <1>6 DEF Counted
  <2>2. ToSet(t) \cap T = {}
    BY <1>4
  <2> HIDE DEF t
  <2>3. /\ t \o bs \in Seq(Block \ {NullBlock})
        /\ ToSet(t \o bs) = ToSet(t) \cup ToSet(bs)
        /\ IsInjective(t \o bs)
    BY <1>3, <1>5, <2>1, <2>2, ConcatSpec
  <2>4. /\ Len(t \o bs) = Len(t) + Len(bs)
        /\ \A i \in 1 .. Len(t) : (t \o bs)[i] = t[i]
        /\ \A i \in 1 .. Len(bs) : (t \o bs)[Len(t) + i] = bs[i]
    BY <1>5, <2>1, ConcatProperties
  <2> QED BY <1>3, <1>7, <2>3, <2>4 DEF t
<1>9. \A b \in Block : m2.ref[b] = (IF b \in T THEN m.ref[b] + 1 ELSE m.ref[b])
                       /\ m2.hash[b] = (IF b \in T THEN NoHash ELSE m.hash[b])
  BY DEF TakesBlocks, bs
<1>10. KVTypes(m2)
  <2>1. KVShape(m2)
    BY <1>7 DEF TakesBlocks, KVShape
  <2>2. m2.ref \in [Block -> Nat]
    <3>1. \A b \in Block : m.ref[b] \in Nat
      BY <1>1 DEF KVTypes
    <3> QED BY <3>1 DEF TakesBlocks
  <2>3. m2.table \in [Request -> Seq(Block \ {NullBlock})]
    <3>1. m2.table = [m.table EXCEPT ![r] = m2.table[r]]
      BY <1>7 DEF TakesBlocks
    <3> QED BY <1>6, <1>8, <3>1
  <2>4. m2.hash[NullBlock] = NoHash /\ NullBlock \in Block
    BY <1>1, <1>9, KVCacheAssumption DEF KVTypes, Block, NullBlock
  <2>5. EnableCaching \/ \A b \in Block : m2.hash[b] = NoHash
    BY <1>1, <1>9 DEF KVTypes
  <2>6. m2.cached \in [Request -> Nat \cup {NotCached}]
    BY <1>1 DEF KVTypes, TakesBlocks
  <2> QED BY <1>3, <2>1, <2>2, <2>3, <2>4, <2>5, <2>6 DEF KVTypes, TakesBlocks
<1>11. Counted(m2)
  <2>1. ASSUME NEW b \in Block \ {NullBlock}
        PROVE  IsFiniteSet(Holders(m2, b)) /\ m2.ref[b] = Cardinality(Holders(m2, b))
    <3>1. IsFiniteSet(Holders(m, b)) /\ m.ref[b] = Cardinality(Holders(m, b))
      BY <1>1 DEF Counted
    <3>2. CASE b \in T
      <4>1. Holders(m2, b) = Holders(m, b) \cup {r} /\ r \notin Holders(m, b)
        BY <1>4, <1>7, <1>8, <3>2 DEF Holders
      <4> QED BY <1>9, <3>1, <3>2, <4>1, FS_AddElement
    <3>3. CASE b \notin T
      <4>1. Holders(m2, b) = Holders(m, b)
        BY <1>7, <1>8, <3>3 DEF Holders
      <4> QED BY <1>9, <3>1, <3>3, <4>1
    <3> QED BY <3>2, <3>3
  <2>2. \A q \in Request : IsInjective(m2.table[q])
    BY <1>1, <1>7, <1>8 DEF Counted
  <2>3. ToSet(m2.free) = {b \in Block \ {NullBlock} : m2.ref[b] = 0}
    <3>1. ToSet(m.free) = {b \in Block \ {NullBlock} : m.ref[b] = 0}
      BY <1>1 DEF Counted
    <3>2. \A b \in Block : m.ref[b] \in Nat
      BY <1>1 DEF KVTypes
    <3>3. \A b \in Block : b \in T => m2.ref[b] # 0
      BY <1>9, <3>2
    <3> QED BY <1>3, <1>9, <3>1, <3>3
  <2> QED BY <1>3, <2>1, <2>2, <2>3 DEF Counted
<1>12. Published(m2, tok, V)
  <2>1. ASSUME NEW q \in Request PROVE PublishedOf(m2, tok, V, q)
    <3>1. PublishedOf(m, tok, V, q)
      BY <1>1 DEF Published
    <3>2. Done(m2, q) = Done(m, q) /\ m2.cached = m.cached
      BY DEF Done, TakesBlocks
    <3>3. Done(m, q) \in Nat
      BY <1>1 DEF KVTypes, Done
    <3>4. m.table[q] \in Seq(Block \ {NullBlock}) /\ Len(m.table[q]) \in Nat
      BY <1>6
    <3>5. ASSUME NEW i \in 1 .. Len(m.table[q])
          PROVE  /\ m2.table[q][i] = m.table[q][i]
                 /\ m.table[q][i] \notin T
                 /\ m2.hash[m.table[q][i]] = m.hash[m.table[q][i]]
                 /\ \A p \in Request : m.table[q][i] \in ToSet(m2.table[p]) => m.table[q][i] \in ToSet(m.table[p])
      <4>1. m.table[q][i] \in ToSet(m.table[q]) /\ m.table[q][i] \in Block
        BY <3>4, ToSetSpec
      <4>2. m.table[q][i] \notin T
        BY <1>4, <4>1
      <4> QED BY <1>7, <1>8, <1>9, <4>1, <4>2
    <3>6. CASE q # r
      <4>1. m2.table[q] = m.table[q]
        BY <1>7, <3>6
      <4> QED BY <3>1, <3>2, <3>5, <4>1 DEF PublishedOf
    <3>7. CASE q = r
      <4>1. ASSUME NEW i \in 1 .. Len(m2.table[q])
            PROVE  /\ i <= Done(m, q) => /\ i * BlockSize <= Len(tok[q])
                                         /\ m2.hash[m2.table[q][i]] = BlockHash(tok[q], i)
                   /\ i > Done(m, q) => /\ m2.hash[m2.table[q][i]] = NoHash
                                        /\ \A p \in Request : m2.table[q][i] \in ToSet(m2.table[p]) => p = q
        <5>1. CASE i \in 1 .. Len(m.table[q])
          BY <3>1, <3>5, <5>1 DEF PublishedOf
        <5>2. CASE i \notin 1 .. Len(m.table[q])
          <6>1. i - Len(m.table[q]) \in 1 .. n /\ i > Len(m.table[q])
                /\ Len(m.table[q]) + (i - Len(m.table[q])) = i
            BY <1>8, <3>4, <3>7, <5>2
          <6>2. m2.table[q][i] = bs[i - Len(m.table[q])]
            BY <1>8, <3>7, <6>1
          <6>3. m2.table[q][i] \in T
            BY <1>3, <6>1, <6>2, ToSetSpec
          <6>4. i > Done(m, q)
            BY <3>1, <3>3, <3>4, <6>1 DEF PublishedOf
          <6>5. m2.hash[m2.table[q][i]] = NoHash
            BY <1>4, <1>9, <6>3
          <6>6. \A p \in Request : m2.table[q][i] \in ToSet(m2.table[p]) => p = q
            BY <1>4, <1>7, <3>7, <6>3
          <6>7. ~ (i <= Done(m, q))
            BY <3>3, <6>4
          <6> QED BY <6>4, <6>5, <6>6, <6>7
        <5> QED BY <5>1, <5>2
      <4>2. Done(m2, q) <= Len(m2.table[q])
        BY <1>8, <3>1, <3>2, <3>3, <3>4, <3>7 DEF PublishedOf
      <4>3. tok[q] \in Seq(V)
        BY <3>7
      <4>4. m2.cached[q] # NotCached => m2.cached[q] # 0
        BY <3>1, <3>2 DEF PublishedOf
      <4> QED BY <3>2, <4>1, <4>2, <4>3, <4>4 DEF PublishedOf
    <3> QED BY <3>6, <3>7
  <2> QED BY <2>1 DEF Published
<1>13. Outlived(m2)
  <2> SUFFICES ASSUME NEW b \in Block \ {NullBlock}, m2.ref[b] = 0, Len(m2.hash[b]) > BlockSize
               PROVE  \E c \in Block \ {NullBlock} : OutlivedBy(m2, b, c)
    BY DEF Outlived
  <2>1. b \notin T
    <3>1. m.ref[b] \in Nat
      BY <1>1 DEF KVTypes
    <3> QED BY <1>9, <3>1
  <2>2. m.ref[b] = 0 /\ m2.hash[b] = m.hash[b] /\ b \in ToSet(m2.free)
    BY <1>1, <1>3, <1>9, <2>1 DEF Counted
  <2>3. PICK c \in Block \ {NullBlock} : OutlivedBy(m, b, c)
    BY <1>1, <2>2 DEF Outlived
  <2>4. CASE m.ref[c] > 0
    <3>1. c \notin T
      BY <1>4, <2>4
    <3> QED BY <1>9, <2>2, <2>3, <2>4, <3>1 DEF OutlivedBy
  <2>5. CASE AfterIn(m.free, b, c)
    <3>1. AfterIn(m2.free, b, c)
      BY <1>3, <2>2, <2>5
    <3>2. c \notin T
      BY <1>3, <3>1, AfterInSpec
    <3> QED BY <1>9, <2>2, <2>3, <3>1, <3>2 DEF OutlivedBy
  <2> QED BY <2>3, <2>4, <2>5 DEF OutlivedBy
<1>14. Indexed(m2.hash, m2.cache)
  BY DEF TakesBlocks
<1> QED BY <1>7, <1>8, <1>10, <1>11, <1>12, <1>13, <1>14 DEF KVInv, TakesBlocks

\* A queue without repetitions lists a block once or not at all.
LEMMA TimesSpec ==
    ASSUME NEW A, NEW s \in Seq(A), IsInjective(s), NEW b
    PROVE  Cardinality({i \in DOMAIN s : s[i] = b}) = IF b \in ToSet(s) THEN 1 ELSE 0
<1>1. DOMAIN s = 1 .. Len(s)
  OBVIOUS
<1>2. CASE b \in ToSet(s)
  <2>1. PICK i \in 1 .. Len(s) : s[i] = b
    BY <1>2, ToSetSpec
  <2>2. {k \in DOMAIN s : s[k] = b} = {i}
    BY <1>1, <2>1, ToSetSpec
  <2> QED BY <1>2, <2>2, FS_Singleton
<1>3. CASE b \notin ToSet(s)
  <2>1. {k \in DOMAIN s : s[k] = b} = {}
    BY <1>1, <1>3, ToSetSpec
  <2> QED BY <1>3, <2>1, FS_EmptySet
<1> QED BY <1>2, <1>3

Evictable(m, hits) == {i \in DOMAIN hits : m.ref[hits[i]] = 0 /\ hits[i] # NullBlock}

\* The blocks of hits are published under the tokens of r.
AreHits(m, tok, V, r, hits) ==
    /\ hits \in Seq(Block \ {NullBlock}) /\ IsInjective(hits) /\ hits # <<>>
    /\ tok[r] \in Seq(V)
    /\ \A i \in 1 .. Len(hits) : /\ i * BlockSize <= Len(tok[r])
                                 /\ m.hash[hits[i]] = BlockHash(tok[r], i)

\* What allocate_new_computed_blocks changes: the hits start the table of r.
TouchesBlocks(m, m2, r, hits) ==
    /\ DOMAIN m2 = KVFields
    /\ m2.table = [m.table EXCEPT ![r] = hits]
    /\ m2.cached = [m.cached EXCEPT ![r] = Len(hits)]
    /\ m2.ref = [b \in Block |-> IF b \in ToSet(hits) THEN m.ref[b] + 1 ELSE m.ref[b]]
    /\ m2.hash = m.hash /\ m2.cache = m.cache
    /\ m2.err = FALSE
    /\ m2.free \in Seq(Block) /\ IsInjective(m2.free)
    /\ ToSet(m2.free) = ToSet(m.free) \ ToSet(hits)
    /\ \A b, c : AfterIn(m.free, b, c) /\ b \notin ToSet(hits) /\ c \notin ToSet(hits)
                    => AfterIn(m2.free, b, c)

\* allocate_new_computed_blocks gives r the blocks it hits.
LEMMA TouchesBlocksSpec ==
    ASSUME NEW m, KVTypes(m), Counted(m), NEW r \in Request,
           m.table[r] = <<>>, m.cached[r] = NotCached,
           NEW hits \in Seq(Block \ {NullBlock}), IsInjective(hits)
    PROVE  TouchesBlocks(m, AllocateNewComputedBlocks(m, r, hits), r, hits)
<1> DEFINE times(b) == Cardinality({i \in DOMAIN hits : hits[i] = b})
           freed(b) == m.ref[b] = 0 /\ b # NullBlock
           H == ToSet(hits)
           rest == {b \in Block : ~(times(b) > 0 /\ freed(b))}
           t == Touch(m, hits)
           m2 == [t EXCEPT !.table[r] = hits, !.cached[r] = Len(hits)]
<1>1. \A b : times(b) = IF b \in H THEN 1 ELSE 0
  BY TimesSpec
<1> HIDE DEF times
<1>2. H \subseteq Block \ {NullBlock}
  BY ToSetSpec
<1>3. t = [m EXCEPT !.free = Among(@, rest),
                    !.ref  = [b \in Block |-> @[b] + times(b)],
                    !.err  = @ \/ \E b \in H : freed(b) /\ b \notin ToSet(m.free)]
  BY DEF Touch, times
<1> HIDE DEF t
<1>4. /\ DOMAIN t = KVFields /\ t.free = Among(m.free, rest)
      /\ t.ref = [b \in Block |-> m.ref[b] + times(b)]
      /\ t.err = (m.err \/ \E b \in H : freed(b) /\ b \notin ToSet(m.free))
      /\ t.table = m.table /\ t.cached = m.cached /\ t.hash = m.hash /\ t.cache = m.cache
  <2>1. DOMAIN m = KVFields
    BY DEF KVTypes, KVShape
  <2> HIDE DEF rest, H, freed
  <2> QED BY <1>3, <2>1 DEF KVFields
<1>5. t.err = FALSE
  <2>1. \A b \in H : freed(b) => b \in ToSet(m.free)
    BY <1>2 DEF Counted
  <2>2. m.err = FALSE
    BY DEF KVTypes
  <2> QED BY <1>4, <2>1, <2>2
<1>6. t.ref = [b \in Block |-> IF b \in H THEN m.ref[b] + 1 ELSE m.ref[b]]
  <2>1. \A b \in Block : m.ref[b] + times(b) = IF b \in H THEN m.ref[b] + 1 ELSE m.ref[b]
    <3>1. \A b \in Block : m.ref[b] \in Nat
      BY DEF KVTypes
    <3> QED BY <1>1, <3>1
  <2> QED BY <1>4, <2>1
<1>7. m.free \in Seq(Block) /\ IsInjective(m.free)
  BY DEF KVTypes, Counted
<1>8. \A b \in Block : b \in rest <=> ~(b \in H /\ freed(b))
  BY <1>1
<1> HIDE DEF rest
<1>9. /\ t.free \in Seq(Block) /\ IsInjective(t.free)
      /\ ToSet(t.free) = ToSet(m.free) \ H
  <2>1. /\ t.free \in Seq(Block) /\ IsInjective(t.free)
        /\ ToSet(t.free) = ToSet(m.free) \cap rest
    BY <1>4, <1>7, AmongSpec
  <2>2. \A b \in ToSet(m.free) : b \in Block /\ freed(b)
    BY CountedSpec
  <2>3. ToSet(m.free) \cap rest = ToSet(m.free) \ H
    BY <1>8, <2>2
  <2> QED BY <2>1, <2>3
<1>10. ASSUME NEW b, NEW c, AfterIn(m.free, b, c), b \notin H, c \notin H
       PROVE  AfterIn(t.free, b, c)
  <2>1. b \in ToSet(m.free) /\ c \in ToSet(m.free)
    BY <1>7, <1>10, AfterInSpec
  <2>2. b \in Block /\ c \in Block
    BY <2>1, CountedSpec
  <2>3. b \in rest /\ c \in rest
    BY <1>8, <1>10, <2>2
  <2> QED BY <1>4, <1>7, <1>10, <2>3, AmongOrder
<1>11. AllocateNewComputedBlocks(m, r, hits) = m2
  BY DEF AllocateNewComputedBlocks, t
<1>12. /\ DOMAIN m2 = KVFields /\ m2.table = [m.table EXCEPT ![r] = hits]
       /\ m2.cached = [m.cached EXCEPT ![r] = Len(hits)]
       /\ m2.free = t.free /\ m2.ref = t.ref /\ m2.hash = t.hash /\ m2.cache = t.cache
       /\ m2.err = t.err
  BY <1>4 DEF KVFields
<1> HIDE DEF m2
<1> QED BY <1>4, <1>5, <1>6, <1>9, <1>10, <1>11, <1>12 DEF TouchesBlocks

\* The blocks that are hit leave the free queue.
LEMMA TouchesBlocksFree ==
    ASSUME NEW m, KVTypes(m), Counted(m), NEW r \in Request,
           NEW hits \in Seq(Block \ {NullBlock}), IsInjective(hits),
           NEW m2, TouchesBlocks(m, m2, r, hits)
    PROVE  /\ Cardinality(Evictable(m, hits)) \in Nat
           /\ Len(m2.free) = Len(m.free) - Cardinality(Evictable(m, hits))
<1> DEFINE H == ToSet(hits)
           F == ToSet(m.free)
           E == Evictable(m, hits)
           f == [i \in E |-> hits[i]]
<1>1. IsFiniteSet(F) /\ Cardinality(F) = Len(m.free)
  BY LenIsCardinality DEF KVTypes, Counted
<1>2. IsFiniteSet(F \ H) /\ Cardinality(F \ H) = Len(m2.free)
  <2>1. IsFiniteSet(ToSet(m2.free)) /\ Cardinality(ToSet(m2.free)) = Len(m2.free)
    BY LenIsCardinality DEF TouchesBlocks
  <2> QED BY <2>1 DEF TouchesBlocks
<1>3. Cardinality(F \ H) = Cardinality(F) - Cardinality(F \cap H)
  BY <1>1, FS_Difference
<1>4. /\ DOMAIN hits = 1 .. Len(hits) /\ Len(hits) \in Nat
      /\ \A i \in 1 .. Len(hits) : hits[i] \in Block \ {NullBlock}
      /\ \A x : x \in H <=> \E i \in 1 .. Len(hits) : hits[i] = x
      /\ \A i, j \in 1 .. Len(hits) : hits[i] = hits[j] => i = j
  BY ToSetSpec
<1>5. F = {b \in Block \ {NullBlock} : m.ref[b] = 0}
  BY DEF Counted
<1>6. \A i : i \in E <=> i \in 1 .. Len(hits) /\ hits[i] \in F
  BY <1>4, <1>5 DEF Evictable
<1> HIDE DEF E, F, H
<1>7. f \in Bijection(E, F \cap H)
  <2>1. f \in [E -> F \cap H]
    BY <1>4, <1>6
  <2>2. \A i, j \in E : f[i] = f[j] => i = j
    BY <1>4, <1>6
  <2>3. \A x \in F \cap H : \E i \in E : f[i] = x
    BY <1>4, <1>6
  <2>4. DOMAIN f = E
    OBVIOUS
  <2> HIDE DEF f
  <2>5. IsInjective(f)
    BY <2>2, <2>4 DEF IsInjective
  <2> QED BY <2>1, <2>3, <2>5 DEF Bijection, Injection, Surjection
<1>8. IsFiniteSet(E)
  <2>1. IsFiniteSet(1 .. Len(hits))
    <3>1. 1 \in Int /\ Len(hits) \in Int
      BY <1>4
    <3> QED BY <3>1, FS_Interval
  <2>2. E \in SUBSET (1 .. Len(hits))
    BY <1>6
  <2> QED BY <2>1, <2>2, FS_Subset
<1>9. Cardinality(F \cap H) = Cardinality(E)
  BY <1>7, <1>8, FS_Bijection DEF ExistsBijection
<1>10. Cardinality(E) \in Nat /\ Cardinality(F) \in Nat
  BY <1>1, <1>8, FS_CardinalityType
<1> QED BY <1>1, <1>2, <1>3, <1>9, <1>10 DEF E

\* It keeps the invariant.
LEMMA TouchesBlocksInv ==
    ASSUME NEW m, NEW tok, NEW V, KVInv(m, tok, V), NEW r \in Request,
           m.table[r] = <<>>, m.cached[r] = NotCached,
           NEW hits, AreHits(m, tok, V, r, hits), NEW m2, TouchesBlocks(m, m2, r, hits)
    PROVE  /\ KVInv(m2, tok, V)
           /\ m2.table[r] = hits /\ m2.cached[r] = Len(hits)
           /\ \A q \in Request \ {r} : m2.table[q] = m.table[q] /\ m2.cached[q] = m.cached[q]
<1> DEFINE H == ToSet(hits)
<1>1. /\ KVTypes(m) /\ Counted(m) /\ Indexed(m.hash, m.cache)
      /\ Published(m, tok, V) /\ Outlived(m)
  BY DEF KVInv
<1>2. /\ hits \in Seq(Block \ {NullBlock}) /\ IsInjective(hits) /\ hits # <<>>
      /\ tok[r] \in Seq(V)
      /\ \A i \in 1 .. Len(hits) : /\ i * BlockSize <= Len(tok[r])
                                   /\ m.hash[hits[i]] = BlockHash(tok[r], i)
  BY DEF AreHits
<1>3. H \subseteq Block \ {NullBlock} /\ \A b \in H : m.hash[b] # NoHash
  <2>1. \A i \in 1 .. Len(hits) : m.hash[hits[i]] # NoHash
    <3>1. \A i \in 1 .. Len(hits) : i \in Nat /\ i # 0
      OBVIOUS
    <3> QED BY <1>2, <3>1, BlockHashSpec
  <2> QED BY <1>2, <2>1, ToSetSpec
<1>4. Len(hits) \in Nat \ {0}
  BY <1>2
<1>5. m.table \in [Request -> Seq(Block \ {NullBlock})] /\ m.cached \in [Request -> Nat \cup {NotCached}]
  BY <1>1 DEF KVTypes
<1>6. /\ m2.table[r] = hits /\ m2.cached[r] = Len(hits)
      /\ \A q \in Request \ {r} : m2.table[q] = m.table[q] /\ m2.cached[q] = m.cached[q]
      /\ m2.table \in [Request -> Seq(Block \ {NullBlock})]
      /\ m2.cached \in [Request -> Nat \cup {NotCached}]
  BY <1>2, <1>4, <1>5 DEF TouchesBlocks
<1>7. \A b \in Block : /\ m.ref[b] \in Nat
                       /\ m2.ref[b] = IF b \in H THEN m.ref[b] + 1 ELSE m.ref[b]
  BY <1>1 DEF KVTypes, TouchesBlocks
<1>8. /\ ToSet(m2.free) = ToSet(m.free) \ H /\ m2.free \in Seq(Block) /\ IsInjective(m2.free)
      /\ m2.hash = m.hash /\ m2.cache = m.cache /\ DOMAIN m2 = KVFields /\ m2.err = FALSE
      /\ \A b, c : AfterIn(m.free, b, c) /\ b \notin H /\ c \notin H => AfterIn(m2.free, b, c)
  BY DEF TouchesBlocks
<1> HIDE DEF H
<1>9. ToSet(m2.table[r]) = H /\ ToSet(m.table[r]) = {}
  <2>1. ToSet(<<>>) = {}
    BY DEF ToSet
  <2> QED BY <1>6, <2>1 DEF H
<1>10. KVTypes(m2)
  <2>1. m2.ref \in [Block -> Nat]
    <3>1. m2.ref = [b \in Block |-> m2.ref[b]]
      BY DEF TouchesBlocks
    <3>2. \A b \in Block : m2.ref[b] \in Nat
      BY <1>7
    <3> QED BY <3>1, <3>2
  <2> QED BY <1>1, <1>6, <1>8, <2>1 DEF KVTypes, KVShape
<1>11. Counted(m2)
  <2>1. ASSUME NEW b \in Block \ {NullBlock}
        PROVE  IsFiniteSet(Holders(m2, b)) /\ m2.ref[b] = Cardinality(Holders(m2, b))
    <3>1. IsFiniteSet(Holders(m, b)) /\ m.ref[b] = Cardinality(Holders(m, b))
      BY <1>1 DEF Counted
    <3>2. CASE b \in H
      <4>1. Holders(m2, b) = Holders(m, b) \cup {r} /\ r \notin Holders(m, b)
        BY <1>6, <1>9, <3>2 DEF Holders
      <4> QED BY <1>7, <3>1, <3>2, <4>1, FS_AddElement
    <3>3. CASE b \notin H
      <4>1. Holders(m2, b) = Holders(m, b)
        BY <1>6, <1>9, <3>3 DEF Holders
      <4> QED BY <1>7, <3>1, <3>3, <4>1
    <3> QED BY <3>2, <3>3
  <2>2. \A q \in Request : IsInjective(m2.table[q])
    BY <1>1, <1>2, <1>6 DEF Counted
  <2>3. ToSet(m2.free) = {b \in Block \ {NullBlock} : m2.ref[b] = 0}
    <3>1. ToSet(m.free) = {b \in Block \ {NullBlock} : m.ref[b] = 0}
      BY <1>1 DEF Counted
    <3>2. \A b \in Block : m2.ref[b] = 0 <=> m.ref[b] = 0 /\ b \notin H
      BY <1>7
    <3> QED BY <1>8, <3>1, <3>2
  <2> QED BY <1>8, <2>1, <2>2, <2>3 DEF Counted
<1>12. Published(m2, tok, V)
  <2>1. ASSUME NEW q \in Request PROVE PublishedOf(m2, tok, V, q)
    <3>1. PublishedOf(m, tok, V, q)
      BY <1>1 DEF Published
    <3>2. CASE q # r
      <4>1. m2.table[q] = m.table[q] /\ Done(m2, q) = Done(m, q) /\ m2.cached[q] = m.cached[q]
        BY <1>6, <3>2 DEF Done
      <4>2. ASSUME NEW i \in 1 .. Len(m.table[q]), i > Done(m, q),
                   NEW p \in Request, m.table[q][i] \in ToSet(m2.table[p])
            PROVE  p = q
        <5>1. m.hash[m.table[q][i]] = NoHash
          BY <3>1, <4>2 DEF PublishedOf
        <5>2. p # r
          BY <1>3, <1>9, <4>2, <5>1
        <5> QED BY <1>6, <3>1, <4>2, <5>2 DEF PublishedOf
      <4> QED BY <1>8, <3>1, <4>1, <4>2 DEF PublishedOf
    <3>3. CASE q = r
      <4>1. Done(m2, q) = Len(hits) /\ m2.table[q] = hits /\ m2.cached[q] # 0
        BY <1>4, <1>6, <3>3 DEF Done, NotCached
      <4>2. \A i \in 1 .. Len(hits) : ~ (i > Len(hits))
        BY <1>4
      <4> QED BY <1>2, <1>4, <1>8, <3>3, <4>1, <4>2 DEF PublishedOf
    <3> QED BY <3>2, <3>3
  <2> QED BY <2>1 DEF Published
<1>13. Outlived(m2)
  <2> SUFFICES ASSUME NEW b \in Block \ {NullBlock}, m2.ref[b] = 0, Len(m2.hash[b]) > BlockSize
               PROVE  \E c \in Block \ {NullBlock} : OutlivedBy(m2, b, c)
    BY DEF Outlived
  <2>1. b \notin H /\ m.ref[b] = 0
    BY <1>7
  <2>2. PICK c \in Block \ {NullBlock} : OutlivedBy(m, b, c)
    BY <1>1, <1>8, <2>1 DEF Outlived
  <2>3. CASE m.ref[c] > 0 \/ c \in H
    BY <1>7, <1>8, <2>2, <2>3 DEF OutlivedBy
  <2>4. CASE AfterIn(m.free, b, c) /\ c \notin H
    BY <1>8, <2>1, <2>2, <2>4 DEF OutlivedBy
  <2> QED BY <2>2, <2>3, <2>4 DEF OutlivedBy
<1> QED BY <1>1, <1>6, <1>8, <1>10, <1>11, <1>12, <1>13 DEF KVInv

\* What cache_blocks changes when it publishes the blocks of r from index
\* from + 1 to upto.
PublishesBlocks(m, m2, tok, r, from, upto) ==
    /\ DOMAIN m2 = KVFields
    /\ m2.table = m.table /\ m2.ref = m.ref /\ m2.free = m.free
    /\ m2.cached = [m.cached EXCEPT ![r] = upto]
    /\ DOMAIN m2.hash = Block
    /\ \A i \in from + 1 .. upto : m2.hash[m.table[r][i]] = BlockHash(tok, i)
    /\ \A b \in Block : (\A i \in from + 1 .. upto : m.table[r][i] # b) => m2.hash[b] = m.hash[b]
    /\ CacheTyped(m2.cache) /\ Indexed(m2.hash, m2.cache)
    /\ m2.err = FALSE

\* cache_full_blocks hashes the next blocks of r's table.
LEMMA PublishesBlocksSpec ==
    ASSUME NEW m, NEW V, KVTypes(m), Counted(m), Indexed(m.hash, m.cache),
           NEW tok \in Seq(V), NEW r \in Request, NEW from \in Nat, NEW upto \in Nat,
           upto <= Len(m.table[r]), upto * BlockSize <= Len(tok),
           \A i \in from + 1 .. upto : m.hash[m.table[r][i]] = NoHash
    PROVE  PublishesBlocks(m, [CacheFullBlocks(m, r, tok, from, upto) EXCEPT !.cached[r] = upto],
                           tok, r, from, upto)
<1> DEFINE I == from + 1 .. upto
           t == m.table[r]
           new == {i \in I : t[i] # NullBlock}
           added == {BlockHash(tok, i) : i \in new}
           blk(h) == t[Len(h) \div BlockSize]
           old(h) == IF h \in DOMAIN m.cache THEN m.cache[h] ELSE <<>>
           idx(b) == {i \in new : t[i] = b}
           hash2 == [b \in Block |-> IF idx(b) = {} THEN m.hash[b]
                                     ELSE BlockHash(tok, CHOOSE i \in idx(b) : TRUE)]
           next(h) == IF h \in added /\ blk(h) \notin ToSet(old(h))
                      THEN Append(old(h), blk(h)) ELSE old(h)
           cache2 == [h \in DOMAIN m.cache \cup added |-> next(h)]
           c == CacheFullBlocks(m, r, tok, from, upto)
           m2 == [c EXCEPT !.cached[r] = upto]
<1>1. /\ t \in Seq(Block \ {NullBlock}) /\ Len(t) \in Nat
      /\ \A i, j \in 1 .. Len(t) : t[i] = t[j] => i = j
  BY ToSetSpec, SMTT(20) DEF KVTypes, Counted
<1>2. \A i \in I : i \in 1 .. Len(t) /\ t[i] \in Block \ {NullBlock} /\ i \in Nat /\ i # 0
                   /\ i * BlockSize <= Len(tok)
  <2> SUFFICES ASSUME NEW i \in I
               PROVE  i \in 1 .. Len(t) /\ t[i] \in Block \ {NullBlock} /\ i \in Nat /\ i # 0
                      /\ i * BlockSize <= Len(tok)
    OBVIOUS
  <2>1. i \in 1 .. Len(t) /\ i \in Nat /\ i <= upto
    BY <1>1
  <2>2. i * BlockSize <= upto * BlockSize /\ i * BlockSize \in Nat /\ upto * BlockSize \in Nat
    BY <2>1, BlockTimes
  <2>3. Len(tok) \in Nat
    OBVIOUS
  <2> QED BY <1>1, <2>1, <2>2, <2>3
<1>3. new = I
  BY <1>2
<1>4. \A i \in I : /\ BlockHash(tok, i) \in added
                   /\ BlockHash(tok, i) # NoHash
                   /\ blk(BlockHash(tok, i)) = t[i]
  <2> SUFFICES ASSUME NEW i \in I
               PROVE  /\ BlockHash(tok, i) \in added
                      /\ BlockHash(tok, i) # NoHash
                      /\ blk(BlockHash(tok, i)) = t[i]
    OBVIOUS
  <2>1. Len(BlockHash(tok, i)) = i * BlockSize /\ BlockHash(tok, i) # NoHash
    BY <1>2, BlockHashSpec
  <2>2. Len(BlockHash(tok, i)) \div BlockSize = i
    BY <1>2, <2>1, BlockDiv
  <2> QED BY <1>3, <2>1, <2>2
<1>5. \A i, j \in I : BlockHash(tok, i) = BlockHash(tok, j) => i = j
  <2> SUFFICES ASSUME NEW i \in I, NEW j \in I, BlockHash(tok, i) = BlockHash(tok, j)
               PROVE  i = j
    OBVIOUS
  <2>1. Len(BlockHash(tok, i)) = i * BlockSize
    <3>1. i \in Nat /\ i * BlockSize <= Len(tok)
      BY <1>2
    <3> HIDE DEF I
    <3> QED BY <3>1, BlockHashSpec
  <2>2. Len(BlockHash(tok, j)) = j * BlockSize
    <3>1. j \in Nat /\ j * BlockSize <= Len(tok)
      BY <1>2
    <3> HIDE DEF I
    <3> QED BY <3>1, BlockHashSpec
  <2>3. i \in Nat /\ j \in Nat
    BY <1>2
  <2> QED BY <2>1, <2>2, <2>3, BlockTimes
<1>6. \A h \in added : \E i \in I : h = BlockHash(tok, i)
  BY <1>3
<1>7. \A i \in I : hash2[t[i]] = BlockHash(tok, i)
  <2> SUFFICES ASSUME NEW i \in I PROVE hash2[t[i]] = BlockHash(tok, i)
    OBVIOUS
  <2>1. idx(t[i]) = {i}
    BY <1>1, <1>2, <1>3
  <2>2. t[i] \in Block
    BY <1>2
  <2> QED BY <2>1, <2>2
<1>8. \A b \in Block : (\A i \in I : t[i] # b) => hash2[b] = m.hash[b]
  BY <1>3
<1>9. c = [m EXCEPT !.hash = hash2, !.cache = cache2,
                    !.err = @ \/ \E i \in new : m.hash[t[i]] # NoHash]
  <2>1. ~ (Len(t) < upto \/ Len(tok) < upto * BlockSize)
    <3>1. upto * BlockSize \in Nat /\ Len(tok) \in Nat
      BY BlockTimes
    <3> QED BY <1>1, <3>1
  <2>2. DOMAIN m.hash = Block
    BY DEF KVTypes
  <2> QED BY <2>1 DEF CacheFullBlocks
<1>10. CacheTyped(cache2)
  <2>1. \A h \in DOMAIN m.cache \cup added : old(h) \in Seq(Block)
    BY DEF KVTypes, CacheTyped
  <2>2. ASSUME NEW h \in added PROVE next(h) \in Seq(Block) /\ next(h) # <<>>
    <3>1. PICK i \in I : h = BlockHash(tok, i)
      BY <1>6
    <3>2. blk(h) \in Block
      BY <1>2, <1>4, <3>1
    <3>3. CASE blk(h) \in ToSet(old(h))
      <4>1. ToSet(<<>>) = {}
        BY DEF ToSet
      <4> HIDE DEF blk, old
      <4> QED BY <2>1, <3>3, <4>1
    <3>4. CASE blk(h) \notin ToSet(old(h))
      <4>1. next(h) = Append(old(h), blk(h))
        BY <3>4
      <4> HIDE DEF blk, old, next
      <4> QED BY <2>1, <3>2, <4>1, AppendProperties
    <3> QED BY <3>3, <3>4
  <2>3. ASSUME NEW h \in DOMAIN m.cache, h \notin added PROVE next(h) \in Seq(Block) /\ next(h) # <<>>
    BY <2>3 DEF KVTypes, CacheTyped
  <2> HIDE DEF next, added
  <2> QED BY <2>2, <2>3 DEF CacheTyped
<1>11. ASSUME NEW b \in Block, NEW h
       PROVE  (h # NoHash /\ hash2[b] = h)
                <=> (h \in DOMAIN m.cache \cup added /\ b \in ToSet(next(h)))
  <2>1. (h # NoHash /\ m.hash[b] = h) <=> (h \in DOMAIN m.cache /\ b \in ToSet(old(h)))
    BY DEF Indexed
  <2>2. \A i \in I : m.hash[t[i]] = NoHash
    OBVIOUS
  <2>3. (\E i \in I : t[i] = b) \/ hash2[b] = m.hash[b]
    BY <1>8
  <2>4. ASSUME h \notin added
        PROVE  (h # NoHash /\ hash2[b] = h) <=> (h \in DOMAIN m.cache /\ b \in ToSet(next(h)))
    <3>1. next(h) = old(h)
      BY <2>4
    <3>2. \A i \in I : t[i] = b => hash2[b] # h /\ m.hash[b] = NoHash
      BY <1>4, <1>7, <2>2, <2>4, ZenonT(30)
    <3> HIDE DEF hash2, next, old, added, I, t
    <3> QED BY <2>1, <2>3, <3>1, <3>2
  <2>5. ASSUME h \in added
        PROVE  (h # NoHash /\ hash2[b] = h) <=> b \in ToSet(next(h))
    <3>1. PICK i \in I : h = BlockHash(tok, i)
      BY <1>6, <2>5
    <3>2. blk(h) = t[i] /\ h # NoHash /\ t[i] \in Block
      BY <1>2, <1>4, <3>1
    <3>3. old(h) \in Seq(Block)
      BY DEF KVTypes, CacheTyped
    <3>4. ToSet(<<>>) = {}
      BY DEF ToSet
    <3>5. b \in ToSet(old(h)) <=> m.hash[b] = h
      <4>1. h \notin DOMAIN m.cache => ToSet(old(h)) = {}
        BY <3>4
      <4> QED BY <2>1, <3>2, <4>1
    <3>6. t[i] \notin ToSet(old(h))
      <4>1. (h # NoHash /\ m.hash[t[i]] = h) <=> (h \in DOMAIN m.cache /\ t[i] \in ToSet(m.cache[h]))
        BY <3>2 DEF Indexed
      <4> QED BY <2>2, <3>2, <3>4, <4>1
    <3>7. next(h) = Append(old(h), t[i])
      BY <2>5, <3>2, <3>6
    <3>8. ToSet(next(h)) = ToSet(old(h)) \cup {t[i]}
      <4> HIDE DEF old, next, t, I
      <4> QED BY <3>2, <3>3, <3>7, AppendSpec
    <3>9. hash2[b] = h <=> m.hash[b] = h \/ b = t[i]
      <4>1. CASE \E j \in I : t[j] = b
        <5>1. PICK j \in I : t[j] = b
          BY <4>1
        <5>2. hash2[b] = BlockHash(tok, j) /\ m.hash[b] = NoHash
          BY <1>7, <2>2, <5>1
        <5>3. hash2[b] = h <=> i = j
          BY <1>5, <3>1, <5>2
        <5>4. b = t[i] <=> i = j
          BY <1>1, <1>2, <5>1
        <5> QED BY <3>2, <5>2, <5>3, <5>4
      <4>2. CASE ~ \E j \in I : t[j] = b
        <5>1. hash2[b] = m.hash[b] /\ b # t[i]
          BY <2>3, <4>2
        <5> QED BY <5>1
      <4> QED BY <4>1, <4>2
    <3> HIDE DEF hash2, next, old, added, I, t
    <3> QED BY <3>2, <3>5, <3>8, <3>9
  <2> HIDE DEF hash2, next, old, added, I, t
  <2> QED BY <2>4, <2>5
<1>12. Indexed(hash2, cache2)
  <2>1. DOMAIN cache2 = DOMAIN m.cache \cup added
        /\ \A h \in DOMAIN m.cache \cup added : cache2[h] = next(h)
    OBVIOUS
  <2> HIDE DEF hash2, cache2, next, added
  <2> QED BY <1>11, <2>1 DEF Indexed
<1>13. ~ \E i \in new : m.hash[t[i]] # NoHash
  BY <1>3
<1>14. DOMAIN m = KVFields /\ m.err = FALSE
  BY DEF KVTypes, KVShape
<1>15. DOMAIN hash2 = Block
  OBVIOUS
<1> HIDE DEF c, hash2, cache2, new, t
<1>16. /\ DOMAIN m2 = KVFields /\ m2.hash = hash2 /\ m2.cache = cache2 /\ m2.err = FALSE
       /\ m2.table = m.table /\ m2.ref = m.ref /\ m2.free = m.free
       /\ m2.cached = [m.cached EXCEPT ![r] = upto]
  <2>1. /\ DOMAIN c = KVFields /\ c.hash = hash2 /\ c.cache = cache2
        /\ c.table = m.table /\ c.ref = m.ref /\ c.free = m.free /\ c.cached = m.cached
        /\ c.err = (m.err \/ \E i \in new : m.hash[t[i]] # NoHash)
    BY <1>9, <1>14 DEF KVFields
  <2>2. c.err = FALSE
    BY <1>13, <1>14, <2>1
  <2> QED BY <2>1, <2>2 DEF KVFields
<1> HIDE DEF m2
<1>17. PublishesBlocks(m, m2, tok, r, from, upto)
  BY <1>7, <1>8, <1>10, <1>12, <1>15, <1>16 DEF PublishesBlocks, t
<1> QED BY <1>17 DEF m2, c

\* It keeps the invariant: the hashes are of r's own tokens.
LEMMA PublishesBlocksInv ==
    ASSUME NEW m, NEW tok, NEW V, KVInv(m, tok, V), EnableCaching, NEW r \in Request,
           NEW upto \in Nat, Done(m, r) < upto,
           upto <= Len(m.table[r]), upto * BlockSize <= Len(tok[r]),
           NEW m2, PublishesBlocks(m, m2, tok[r], r, Done(m, r), upto)
    PROVE  KVInv(m2, tok, V)
<1> DEFINE from == Done(m, r)
           I == from + 1 .. upto
           t == m.table[r]
<1>1. /\ KVTypes(m) /\ Counted(m) /\ Indexed(m.hash, m.cache)
      /\ Published(m, tok, V) /\ Outlived(m)
  BY DEF KVInv
<1>2. from \in Nat /\ \A q \in Request : Done(m, q) \in Nat
  BY <1>1 DEF Done, KVTypes
<1>3. /\ t \in Seq(Block \ {NullBlock}) /\ Len(t) \in Nat
      /\ \A i, j \in 1 .. Len(t) : t[i] = t[j] => i = j
  BY <1>1, ToSetSpec, SMTT(20) DEF KVTypes, Counted
<1>4. \A i \in I : i \in 1 .. Len(t) /\ i > from /\ t[i] \in Block \ {NullBlock} /\ t[i] \in ToSet(t)
                   /\ i \in Nat
  BY <1>2, <1>3, ToSetSpec
<1>5. tok[r] \in Seq(V) /\ Len(tok[r]) \in Nat
  <2>1. t # <<>>
    BY <1>2, <1>3
  <2>2. tok[r] \in Seq(V)
    BY <1>1, <2>1 DEF Published, PublishedOf
  <2> QED BY <2>2
<1>6. \A i \in I : m.hash[t[i]] = NoHash /\ \A q \in Request : t[i] \in ToSet(m.table[q]) => q = r
  BY <1>1, <1>4 DEF Published, PublishedOf
<1>7. /\ m2.table = m.table /\ m2.ref = m.ref /\ m2.free = m.free
      /\ \A i \in I : m2.hash[t[i]] = BlockHash(tok[r], i)
      /\ \A b \in Block : (\A i \in I : t[i] # b) => m2.hash[b] = m.hash[b]
      /\ CacheTyped(m2.cache) /\ Indexed(m2.hash, m2.cache)
  BY DEF PublishesBlocks
<1>8. m.cached \in [Request -> Nat \cup {NotCached}]
  BY <1>1 DEF KVTypes
<1>9. /\ m2.cached[r] = upto /\ \A q \in Request \ {r} : m2.cached[q] = m.cached[q]
      /\ m2.cached \in [Request -> Nat \cup {NotCached}]
  BY <1>8 DEF PublishesBlocks
<1> HIDE DEF from, I, t
<1>10. KVTypes(m2)
  <2>1. m2.hash[NullBlock] = NoHash
    <3>1. NullBlock \in Block
      BY KVCacheAssumption DEF Block, NullBlock
    <3>2. m.hash[NullBlock] = NoHash
      BY <1>1 DEF KVTypes
    <3> QED BY <1>4, <1>7, <3>1, <3>2
  <2>2. KVShape(m2)
    BY <1>1, <1>7 DEF KVTypes, KVShape, PublishesBlocks
  <2> QED BY <1>1, <1>7, <1>9, <2>1, <2>2 DEF KVTypes, PublishesBlocks
<1>11. Counted(m2)
  BY <1>1, <1>7 DEF Counted, Holders
<1>12. Published(m2, tok, V)
  <2>1. ASSUME NEW q \in Request PROVE PublishedOf(m2, tok, V, q)
    <3>1. PublishedOf(m, tok, V, q)
      BY <1>1 DEF Published
    <3>2. m.table[q] \in Seq(Block \ {NullBlock}) /\ Len(m.table[q]) \in Nat
      BY <1>1 DEF KVTypes
    <3>3. CASE q # r
      <4>1. m2.table[q] = m.table[q] /\ Done(m2, q) = Done(m, q) /\ m2.cached[q] = m.cached[q]
        BY <1>7, <1>9, <3>3 DEF Done
      <4>2. ASSUME NEW i \in 1 .. Len(m.table[q])
            PROVE  m2.hash[m.table[q][i]] = m.hash[m.table[q][i]]
        <5>1. m.table[q][i] \in ToSet(m.table[q]) /\ m.table[q][i] \in Block
          BY <3>2, ToSetSpec
        <5>2. \A j \in I : t[j] # m.table[q][i]
          BY <1>6, <3>3, <5>1
        <5> QED BY <1>7, <5>1, <5>2
      <4> QED BY <1>7, <3>1, <4>1, <4>2 DEF PublishedOf
    <3>4. CASE q = r
      <4>1. m2.table[q] = t /\ Done(m2, q) = upto /\ m2.cached[q] # 0 /\ from = Done(m, q)
        <5>1. m2.cached[q] = upto /\ upto # 0 /\ upto # NotCached
          BY <1>2, <1>9, <3>4 DEF from, NotCached
        <5> QED BY <1>7, <3>4, <5>1 DEF Done, t, from
      <4>2. ASSUME NEW i \in 1 .. Len(t)
            PROVE  /\ i <= upto => /\ i * BlockSize <= Len(tok[q])
                                   /\ m2.hash[t[i]] = BlockHash(tok[q], i)
                   /\ i > upto => /\ m2.hash[t[i]] = NoHash
                                  /\ \A p \in Request : t[i] \in ToSet(m.table[p]) => p = q
        <5>0. i \in Nat /\ t[i] \in Block
          BY <1>3
        <5>1. CASE i \in I
          <6>1. i <= upto /\ ~ (i > upto)
            BY <1>2, <5>1 DEF I
          <6>2. i * BlockSize <= upto * BlockSize /\ i * BlockSize \in Nat /\ upto * BlockSize \in Nat
            BY <5>0, <6>1, BlockTimes
          <6> QED BY <1>5, <1>7, <3>4, <5>1, <6>1, <6>2
        <5>2. CASE i \notin I
          <6>1. i <= from \/ i > upto
            BY <1>2, <5>0, <5>2 DEF I
          <6>2. \A j \in I : t[j] # t[i]
            BY <1>3, <1>4, <5>2
          <6>3. m2.hash[t[i]] = m.hash[t[i]]
            BY <1>7, <5>0, <6>2
          <6>4. CASE i <= from
            <7>1. i * BlockSize <= Len(tok[q]) /\ m.hash[t[i]] = BlockHash(tok[q], i)
              BY <3>1, <3>4, <4>1, <6>4 DEF PublishedOf, t
            <7>2. ~ (i > upto)
              BY <1>2, <5>0, <6>4 DEF from
            <7> QED BY <6>3, <7>1, <7>2
          <6>5. CASE i > upto
            <7>1. i > from /\ ~ (i <= upto)
              BY <1>2, <5>0, <6>5 DEF from
            <7>2. m.hash[t[i]] = NoHash /\ \A p \in Request : t[i] \in ToSet(m.table[p]) => p = q
              BY <3>1, <3>4, <4>1, <7>1 DEF PublishedOf, t
            <7> QED BY <6>3, <7>1, <7>2
          <6> QED BY <6>1, <6>4, <6>5
        <5> QED BY <5>1, <5>2
      <4> QED BY <1>5, <1>7, <3>4, <4>1, <4>2 DEF PublishedOf, t
    <3> QED BY <3>3, <3>4
  <2> QED BY <2>1 DEF Published
<1>13. Outlived(m2)
  <2> SUFFICES ASSUME NEW b \in Block \ {NullBlock}, m2.ref[b] = 0, Len(m2.hash[b]) > BlockSize
               PROVE  \E c \in Block \ {NullBlock} : OutlivedBy(m2, b, c)
    BY DEF Outlived
  <2>1. m2.hash[b] = m.hash[b]
    <3>1. \A i \in I : t[i] # b
      <4>1. \A i \in I : m.ref[t[i]] # 0
        BY <1>1, <1>4, CountedSpec DEF t
      <4> QED BY <1>7, <4>1
    <3> QED BY <1>7, <3>1
  <2>2. PICK c \in Block \ {NullBlock} : OutlivedBy(m, b, c)
    BY <1>1, <1>7, <2>1 DEF Outlived
  <2>3. m2.hash[c] = m.hash[c]
    <3>1. \A i \in I : t[i] # c
      BY <1>6, <2>2 DEF OutlivedBy
    <3> QED BY <1>7, <3>1
  <2> QED BY <1>7, <2>1, <2>2, <2>3 DEF OutlivedBy
<1> QED BY <1>7, <1>10, <1>11, <1>12, <1>13 DEF KVInv

\* What giving blocks to r and publishing the first n of its tokens changes: a
\* block keeps its hash, or is taken and loses it, or is one of r's behind the
\* first `from' ones and gets the hash of r's tokens.
Rehashes(m, m2, r, tok, from, n) ==
    /\ Extends(m.table[r], m2.table[r])
    /\ \A q \in Request \ {r} : m2.cached[q] = m.cached[q]
    /\ from <= Done(m2, r)
    /\ \A b \in Block :
          \/ m2.hash[b] \in {NoHash, m.hash[b]}
          \/ \E i \in Nat : /\ from < i /\ i * BlockSize <= n
                            /\ m2.table[r][i] = b /\ m2.hash[b] = BlockHash(tok, i)

\* Publishing blocks hashes these blocks only.
LEMMA PublishesRehash ==
    ASSUME NEW m, KVTypes(m), NEW r \in Request, NEW tok, NEW n \in Nat,
           NEW upto \in Nat, upto * BlockSize <= n, Done(m, r) < upto,
           NEW m2, PublishesBlocks(m, m2, tok, r, Done(m, r), upto)
    PROVE  Rehashes(m, m2, r, tok, Done(m, r), n)
<1> DEFINE from == Done(m, r)
<1>1. /\ from \in Nat /\ m.table[r] \in Seq(Block \ {NullBlock})
      /\ m.cached \in [Request -> Nat \cup {NotCached}]
  BY DEF Done, KVTypes
<1>2. /\ m2.table = m.table /\ m2.cached = [m.cached EXCEPT ![r] = upto]
      /\ \A i \in from + 1 .. upto : m2.hash[m.table[r][i]] = BlockHash(tok, i)
      /\ \A b \in Block : (\A i \in from + 1 .. upto : m.table[r][i] # b) => m2.hash[b] = m.hash[b]
  BY DEF PublishesBlocks
<1>3. Extends(m.table[r], m2.table[r])
  BY <1>1, <1>2 DEF Extends
<1>4. \A q \in Request \ {r} : m2.cached[q] = m.cached[q]
  BY <1>1, <1>2
<1>5. Done(m2, r) = upto
  <2>1. m2.cached[r] = upto /\ upto # NotCached
    BY <1>1, <1>2 DEF NotCached
  <2> QED BY <2>1 DEF Done
<1> HIDE DEF from
<1>6. ASSUME NEW b \in Block
      PROVE  \/ m2.hash[b] \in {NoHash, m.hash[b]}
             \/ \E i \in Nat : /\ from < i /\ i * BlockSize <= n
                               /\ m2.table[r][i] = b /\ m2.hash[b] = BlockHash(tok, i)
  <2>1. CASE \A i \in from + 1 .. upto : m.table[r][i] # b
    BY <1>2, <2>1
  <2>2. CASE \E i \in from + 1 .. upto : m.table[r][i] = b
    <3>1. PICK i \in from + 1 .. upto : m.table[r][i] = b
      BY <2>2
    <3>2. i \in Nat /\ from < i /\ i <= upto
      BY <1>1
    <3>3. i * BlockSize <= upto * BlockSize /\ i * BlockSize \in Nat /\ upto * BlockSize \in Nat
      BY <3>2, BlockTimes
    <3>4. i * BlockSize <= n
      BY <3>3
    <3> QED BY <1>2, <3>1, <3>2, <3>4
  <2> QED BY <2>1, <2>2
<1>7. from <= Done(m2, r)
  BY <1>1, <1>5 DEF from
<1> QED BY <1>3, <1>4, <1>6, <1>7 DEF Rehashes, from

\* Taking blocks hashes none.
LEMMA TakesRehash ==
    ASSUME NEW m, KVTypes(m), NEW r \in Request, NEW tok, NEW from, NEW n, NEW k \in 0 .. Len(m.free),
           NEW m2, TakesBlocks(m, m2, r, k), from <= Done(m, r)
    PROVE  Rehashes(m, m2, r, tok, from, n)
<1> DEFINE bs == NewBlocks(m, k)
<1>1. m.table[r] \in Seq(Block) /\ bs \in Seq(Block) /\ m.table \in [Request -> Seq(Block \ {NullBlock})]
  <2>1. m.table[r] \in Seq(Block \ {NullBlock}) /\ Block \ {NullBlock} \subseteq Block
        /\ m.free \in Seq(Block)
    BY DEF KVTypes
  <2> QED BY <2>1, SeqMonotonic, DropSpec DEF NewBlocks, KVTypes
<1>2. m2.table[r] = m.table[r] \o bs
  BY <1>1 DEF TakesBlocks
<1> HIDE DEF bs
<1>3. Extends(m.table[r], m2.table[r])
  BY <1>1, <1>2, ConcatSpec DEF Extends
<1>4. m2.cached = m.cached /\ \A b \in Block : m2.hash[b] \in {NoHash, m.hash[b]}
  BY DEF TakesBlocks
<1>5. from <= Done(m2, r)
  BY <1>4 DEF Done
<1> QED BY <1>3, <1>4, <1>5 DEF Rehashes

\* Publishing after taking or touching.
LEMMA RehashesAfter ==
    ASSUME NEW m, NEW m1, NEW m2, NEW r \in Request, NEW tok, NEW n, NEW from, NEW from1, NEW V,
           m.table[r] \in Seq(V), m1.table[r] \in Seq(V), m2.table[r] \in Seq(V),
           Extends(m.table[r], m1.table[r]), \A q \in Request \ {r} : m1.cached[q] = m.cached[q],
           \A b \in Block : m1.hash[b] \in {NoHash, m.hash[b]},
           from \in Nat, from1 \in Nat, Done(m2, r) \in Nat, from <= from1,
           Rehashes(m1, m2, r, tok, from1, n)
    PROVE  Rehashes(m, m2, r, tok, from, n)
<1>1. Extends(m.table[r], m2.table[r])
  <2>1. Extends(m1.table[r], m2.table[r])
    BY DEF Rehashes
  <2> DEFINE a == m.table[r]
             b == m1.table[r]
             c == m2.table[r]
  <2>2. Extends(a, b) /\ Extends(b, c) /\ a \in Seq(V) /\ b \in Seq(V) /\ c \in Seq(V)
    BY <2>1
  <2> HIDE DEF a, b, c
  <2>3. Extends(a, c)
    BY <2>2 DEF Extends
  <2> QED BY <2>3 DEF a, c
<1>2. \A q \in Request \ {r} : m2.cached[q] = m.cached[q]
  BY DEF Rehashes
<1>3. from <= Done(m2, r)
  BY DEF Rehashes
<1>4. ASSUME NEW b \in Block
      PROVE  \/ m2.hash[b] \in {NoHash, m.hash[b]}
             \/ \E i \in Nat : /\ from < i /\ i * BlockSize <= n
                               /\ m2.table[r][i] = b /\ m2.hash[b] = BlockHash(tok, i)
  <2>1. CASE m2.hash[b] \in {NoHash, m1.hash[b]}
    BY <2>1
  <2>2. CASE \E i \in Nat : /\ from1 < i /\ i * BlockSize <= n
                            /\ m2.table[r][i] = b /\ m2.hash[b] = BlockHash(tok, i)
    <3>1. PICK i \in Nat : /\ from1 < i /\ i * BlockSize <= n
                           /\ m2.table[r][i] = b /\ m2.hash[b] = BlockHash(tok, i)
      BY <2>2
    <3>2. from < i
      BY <3>1
    <3> QED BY <3>1, <3>2
  <2> QED BY <2>1, <2>2 DEF Rehashes
<1> QED BY <1>1, <1>2, <1>3, <1>4 DEF Rehashes

LEMMA RehashesMore ==
    ASSUME NEW m, NEW m2, NEW r, NEW tok, NEW from, NEW n \in Nat, NEW k \in Nat, n <= k,
           Rehashes(m, m2, r, tok, from, n)
    PROVE  Rehashes(m, m2, r, tok, from, k)
<1>1. \A i \in Nat : i * BlockSize <= n => i * BlockSize <= k
  <2> SUFFICES ASSUME NEW i \in Nat, i * BlockSize <= n PROVE i * BlockSize <= k
    OBVIOUS
  <2>1. i * BlockSize \in Nat
    BY BlockTimes
  <2> QED BY <2>1
<1> QED BY <1>1 DEF Rehashes

\* cache_blocks keeps the invariant if the tokens are r's and have slots.
LEMMA CacheBlocksInv ==
    ASSUME NEW m, NEW tok, NEW V, KVInv(m, tok, V), EnableCaching, NEW r \in Request,
           NEW n \in Int, n <= Len(m.table[r]) * BlockSize,
           tok[r] \in Seq(V), n <= Len(tok[r])
    PROVE  LET m2 == CacheBlocks(m, r, tok[r], n)
           IN  /\ KVInv(m2, tok, V)
               /\ m2.table = m.table
               /\ Rehashes(m, m2, r, tok[r], Done(m, r), n)
<1> DEFINE from == Done(m, r)
           upto == n \div BlockSize
           m3 == [CacheFullBlocks(m, r, tok[r], from, upto) EXCEPT !.cached[r] = upto]
<1>1. CacheBlocks(m, r, tok[r], n) = IF from >= upto THEN m ELSE m3
  BY DEF CacheBlocks, Done
<1>2. CASE from >= upto
  <2>1. from \in Nat /\ m.table[r] \in Seq(Block \ {NullBlock})
    BY DEF Done, KVInv, KVTypes
  <2>2. Extends(m.table[r], m.table[r]) /\ from <= from
    BY <2>1 DEF Extends
  <2>3. Rehashes(m, m, r, tok[r], from, n)
    BY <2>2 DEF Rehashes
  <2> QED BY <1>1, <1>2, <2>3
<1>3. CASE ~ (from >= upto)
  <2>1. /\ KVTypes(m) /\ Counted(m) /\ Indexed(m.hash, m.cache) /\ Published(m, tok, V)
    BY DEF KVInv
  <2>2. from \in Nat
    BY <2>1 DEF Done, KVTypes
  <2>3. upto \in Int /\ n \in Nat
    <3>1. upto \in Int /\ (n < 0 => upto < 0)
      BY BlockDiv
    <3> HIDE DEF upto, from
    <3> QED BY <1>3, <2>2, <3>1
  <2>4. upto \in Nat /\ upto * BlockSize <= n
    BY <2>3, BlockDiv
  <2>5. m.table[r] \in Seq(Block \ {NullBlock}) /\ Len(m.table[r]) \in Nat /\ Len(tok[r]) \in Nat
    BY <2>1 DEF KVTypes
  <2> HIDE DEF from, upto
  <2>6. upto * BlockSize \in Nat /\ Len(m.table[r]) * BlockSize \in Nat
    BY <2>4, <2>5, BlockTimes
  <2>7. upto * BlockSize <= Len(m.table[r]) * BlockSize /\ upto * BlockSize <= Len(tok[r])
    BY <2>3, <2>4, <2>5, <2>6
  <2>8. upto <= Len(m.table[r]) /\ from < upto
    BY <1>3, <2>2, <2>4, <2>5, <2>7, BlockTimes
  <2>9. \A i \in from + 1 .. upto : m.hash[m.table[r][i]] = NoHash
    <3>1. \A i \in from + 1 .. upto : i \in 1 .. Len(m.table[r]) /\ i > from
      BY <2>2, <2>4, <2>5, <2>8
    <3> QED BY <2>1, <3>1 DEF Published, PublishedOf, from
  <2>10. PublishesBlocks(m, m3, tok[r], r, from, upto)
    BY <2>1, <2>2, <2>4, <2>7, <2>8, <2>9, PublishesBlocksSpec
  <2> HIDE DEF m3
  <2>11. KVInv(m3, tok, V)
    BY <2>4, <2>7, <2>8, <2>10, PublishesBlocksInv DEF from
  <2>12. m3.table = m.table
    BY <2>10 DEF PublishesBlocks
  <2>13. Rehashes(m, m3, r, tok[r], from, n)
    <3>1. n \in Nat /\ upto \in Nat /\ upto * BlockSize <= n /\ from < upto
      BY <2>3, <2>4, <2>8
    <3> QED BY <2>1, <2>10, <3>1, PublishesRehash, Zenon DEF from
  <2> QED BY <1>1, <1>3, <2>11, <2>12, <2>13 DEF from
<1> QED BY <1>2, <1>3

\* What free changes: r gives its blocks back, the tail of its table first.
GivesBlocks(m, m2, r) ==
    /\ DOMAIN m2 = KVFields
    /\ m2.table = [m.table EXCEPT ![r] = <<>>]
    /\ m2.cached = [m.cached EXCEPT ![r] = NotCached]
    /\ m2.ref = [b \in Block |-> IF b \in ToSet(m.table[r]) THEN m.ref[b] - 1 ELSE m.ref[b]]
    /\ m2.hash = m.hash /\ m2.cache = m.cache
    /\ m2.err = m.err
    /\ m2.free \in Seq(Block) /\ IsInjective(m2.free)
    /\ ToSet(m2.free) = ToSet(m.free) \cup {b \in ToSet(m.table[r]) : m2.ref[b] = 0}
    /\ \A b, c : AfterIn(m.free, b, c) => AfterIn(m2.free, b, c)
    /\ \A b \in ToSet(m.free), c \in ToSet(m.table[r]) : m2.ref[c] = 0 => AfterIn(m2.free, b, c)
    /\ \A i, j \in 1 .. Len(m.table[r]) :
          i < j /\ m2.ref[m.table[r][i]] = 0 /\ m2.ref[m.table[r][j]] = 0
             => AfterIn(m2.free, m.table[r][j], m.table[r][i])

\* free gives r's blocks back, the last of them first.
LEMMA GivesBlocksSpec ==
    ASSUME NEW m, KVTypes(m), Counted(m), NEW r \in Request
    PROVE  GivesBlocks(m, FreeRequest(m, r), r)
<1> DEFINE t == m.table[r]
           u == Reverse(t)
           T == ToSet(t)
           times(b) == Cardinality({i \in DOMAIN u : u[i] = b})
           ref1 == [b \in Block |-> m.ref[b] - times(b)]
           ref2 == [b \in Block |-> IF b \in T THEN m.ref[b] - 1 ELSE m.ref[b]]
           Z == {b \in Block \ {NullBlock} : ref1[b] = 0}
           back == Among(u, Z)
           f == FreeBlocks(m, u)
           m2 == FreeRequest(m, r)
<1>1. /\ t \in Seq(Block \ {NullBlock}) /\ IsInjective(t)
      /\ m.free \in Seq(Block) /\ IsInjective(m.free) /\ m.ref \in [Block -> Nat]
  BY DEF KVTypes, Counted
<1>2. u \in Seq(Block \ {NullBlock}) /\ ToSet(u) = T /\ IsInjective(u)
  BY <1>1, ReverseSpec
<1> HIDE DEF u, t
<1>3. \A b : times(b) = IF b \in T THEN 1 ELSE 0
  BY <1>2, TimesSpec
<1>4. ref1 = ref2
  <2>1. \A b \in Block : m.ref[b] \in Nat
    BY <1>1
  <2> HIDE DEF T, times
  <2>2. \A b \in Block : m.ref[b] - times(b) = IF b \in T THEN m.ref[b] - 1 ELSE m.ref[b]
    BY <1>3, <2>1
  <2> QED BY <2>2
<1>5. DOMAIN m = KVFields
  BY DEF KVTypes, KVShape
<1>6. /\ DOMAIN f = KVFields /\ f.ref = ref1 /\ f.free = m.free \o back
      /\ f.hash = m.hash /\ f.cache = m.cache /\ f.table = m.table
      /\ f.cached = m.cached /\ f.err = m.err
  <2>1. f = [m EXCEPT !.ref = ref1, !.free = @ \o back]
    BY DEF FreeBlocks
  <2> HIDE DEF f, ref1, back
  <2> QED BY <1>5, <2>1 DEF KVFields
<1>7. m2 = [f EXCEPT !.table[r] = <<>>, !.cached[r] = NotCached]
  BY DEF FreeRequest, u, t
<1> HIDE DEF f, m2, ref1, back
<1>8. /\ DOMAIN m2 = KVFields /\ m2.ref = ref2 /\ m2.free = m.free \o back
      /\ m2.hash = m.hash /\ m2.cache = m.cache
      /\ m2.table = [m.table EXCEPT ![r] = <<>>]
      /\ m2.cached = [m.cached EXCEPT ![r] = NotCached] /\ m2.err = m.err
  BY <1>4, <1>6, <1>7 DEF KVFields
<1> DEFINE B == Block \ {NullBlock}
<1>9. /\ back \in Seq(B) /\ ToSet(back) = T \cap Z /\ IsInjective(back)
  <2> HIDE DEF Z, T
  <2> QED BY <1>2, AmongSpec DEF back
<1>10. T \subseteq B /\ T \cap Z = {b \in T : ref2[b] = 0}
  <2>1. T \subseteq B
    BY <1>1, ToSetSpec
  <2> HIDE DEF ref2, T
  <2> QED BY <1>4, <2>1
<1>11. T \cap ToSet(m.free) = {}
  BY CountedSpec DEF t
<1>12. back \in Seq(Block)
  BY <1>9
<1> DEFINE free2 == m.free \o back
<1>13. /\ free2 \in Seq(Block) /\ ToSet(free2) = ToSet(m.free) \cup (T \cap Z) /\ IsInjective(free2)
  <2> HIDE DEF T, Z, B
  <2> QED BY <1>1, <1>9, <1>11, <1>12, ConcatSpec
<1>14. /\ \A b, c : AfterIn(m.free, b, c) => AfterIn(free2, b, c)
       /\ \A b, c : AfterIn(back, b, c) => AfterIn(free2, b, c)
       /\ \A b \in ToSet(m.free), c \in T \cap Z : AfterIn(free2, b, c)
  <2> HIDE DEF T, Z, B
  <2> QED BY <1>1, <1>9, <1>12, ConcatOrder
<1>15. ASSUME NEW i \in 1 .. Len(t), NEW j \in 1 .. Len(t), i < j,
              ref2[t[i]] = 0, ref2[t[j]] = 0
       PROVE  AfterIn(free2, t[j], t[i])
  <2>1. t[i] \in T \cap Z /\ t[j] \in T \cap Z
    <3>1. t[i] \in T /\ t[j] \in T
      BY <1>1, ToSetSpec
    <3> HIDE DEF T, Z, ref2
    <3> QED BY <1>10, <1>15, <3>1
  <2>2. AfterIn(u, t[j], t[i])
    BY <1>1, <1>15, ReverseOrder DEF u
  <2>3. AfterIn(back, t[j], t[i])
    <3> HIDE DEF Z, T, B
    <3> QED BY <1>2, <2>1, <2>2, AmongOrder DEF back
  <2> HIDE DEF free2
  <2> QED BY <1>14, <2>3
<1>16. \A b \in Block : m2.ref[b] = ref2[b]
  BY <1>8
<1>17. \A i \in 1 .. Len(t) : t[i] \in Block
  BY <1>1
<1>18. m2.ref = [b \in Block |-> IF b \in T THEN m.ref[b] - 1 ELSE m.ref[b]]
  BY <1>8
<1> HIDE DEF free2, ref2, T, Z
<1>19. /\ m2.free = free2
       /\ ToSet(m2.free) = ToSet(m.free) \cup {b \in T : m2.ref[b] = 0}
       /\ \A b \in ToSet(m.free), c \in T : m2.ref[c] = 0 => AfterIn(m2.free, b, c)
  BY <1>8, <1>10, <1>13, <1>14, <1>16 DEF free2
<1>20. \A i, j \in 1 .. Len(t) : i < j /\ m2.ref[t[i]] = 0 /\ m2.ref[t[j]] = 0
                                   => AfterIn(m2.free, t[j], t[i])
  BY <1>15, <1>16, <1>17, <1>19
<1> QED BY <1>8, <1>13, <1>14, <1>18, <1>19, <1>20 DEF GivesBlocks, t, T, m2

\* It keeps the invariant: a block goes behind the ones that continue it.
LEMMA GivesBlocksInv ==
    ASSUME NEW m, NEW tok, NEW V, KVInv(m, tok, V), NEW r \in Request,
           NEW m2, GivesBlocks(m, m2, r)
    PROVE  /\ KVInv(m2, tok, V)
           /\ m2.table[r] = <<>> /\ m2.cached[r] = NotCached
           /\ \A q \in Request \ {r} : m2.table[q] = m.table[q] /\ m2.cached[q] = m.cached[q]
<1> DEFINE t == m.table[r]
           T == ToSet(t)
<1>1. /\ KVTypes(m) /\ Counted(m) /\ Indexed(m.hash, m.cache)
      /\ Published(m, tok, V) /\ Outlived(m)
  BY DEF KVInv
<1>2. /\ t \in Seq(Block \ {NullBlock}) /\ Len(t) \in Nat
      /\ \A i, j \in 1 .. Len(t) : t[i] = t[j] => i = j
  BY <1>1, ToSetSpec, SMTT(20) DEF KVTypes, Counted
<1>3. T \subseteq Block \ {NullBlock}
      /\ \A x : x \in T <=> \E i \in 1 .. Len(t) : t[i] = x
  BY <1>2, ToSetSpec
<1>4. m.table \in [Request -> Seq(Block \ {NullBlock})] /\ m.cached \in [Request -> Nat \cup {NotCached}]
  BY <1>1 DEF KVTypes
<1>5. /\ m2.table[r] = <<>> /\ m2.cached[r] = NotCached
      /\ \A q \in Request \ {r} : m2.table[q] = m.table[q] /\ m2.cached[q] = m.cached[q]
      /\ m2.table \in [Request -> Seq(Block \ {NullBlock})]
      /\ m2.cached \in [Request -> Nat \cup {NotCached}]
  <2>1. <<>> \in Seq(Block \ {NullBlock})
    OBVIOUS
  <2> QED BY <1>4, <2>1 DEF GivesBlocks
<1>6. \A b \in T : m.ref[b] \in Nat \ {0}
  BY <1>1, CountedSpec
<1>7. \A b \in Block : /\ m.ref[b] \in Nat /\ m2.ref[b] \in Nat
                       /\ m2.ref[b] = IF b \in T THEN m.ref[b] - 1 ELSE m.ref[b]
  <2>1. \A b \in Block : /\ m.ref[b] \in Nat
                         /\ m2.ref[b] = IF b \in T THEN m.ref[b] - 1 ELSE m.ref[b]
    BY <1>1 DEF KVTypes, GivesBlocks
  <2> QED BY <1>6, <2>1
<1>8. /\ m2.free \in Seq(Block) /\ IsInjective(m2.free)
      /\ m2.hash = m.hash /\ m2.cache = m.cache /\ DOMAIN m2 = KVFields /\ m2.err = m.err
      /\ ToSet(m2.free) = ToSet(m.free) \cup {b \in T : m2.ref[b] = 0}
      /\ \A b, c : AfterIn(m.free, b, c) => AfterIn(m2.free, b, c)
      /\ \A b \in ToSet(m.free), c \in T : m2.ref[c] = 0 => AfterIn(m2.free, b, c)
      /\ \A i, j \in 1 .. Len(t) : i < j /\ m2.ref[t[i]] = 0 /\ m2.ref[t[j]] = 0
                                     => AfterIn(m2.free, t[j], t[i])
  BY DEF GivesBlocks
<1>9. ToSet(m2.table[r]) = {}
  <2>1. ToSet(<<>>) = {}
    BY DEF ToSet
  <2> QED BY <1>5, <2>1
<1> HIDE DEF T
<1>10. KVTypes(m2)
  <2>1. m2.ref \in [Block -> Nat]
    <3>1. m2.ref = [b \in Block |-> m2.ref[b]]
      BY DEF GivesBlocks
    <3> QED BY <1>7, <3>1
  <2> QED BY <1>1, <1>5, <1>8, <2>1 DEF KVTypes, KVShape
<1>11. Counted(m2)
  <2>1. ASSUME NEW b \in Block \ {NullBlock}
        PROVE  IsFiniteSet(Holders(m2, b)) /\ m2.ref[b] = Cardinality(Holders(m2, b))
    <3>1. IsFiniteSet(Holders(m, b)) /\ m.ref[b] = Cardinality(Holders(m, b))
      BY <1>1 DEF Counted
    <3>2. CASE b \in T
      <4>1. Holders(m2, b) = Holders(m, b) \ {r} /\ r \in Holders(m, b)
        BY <1>5, <1>9, <3>2 DEF Holders, T
      <4> QED BY <1>7, <3>1, <3>2, <4>1, FS_RemoveElement
    <3>3. CASE b \notin T
      <4>1. Holders(m2, b) = Holders(m, b)
        BY <1>5, <1>9, <3>3 DEF Holders, T
      <4> QED BY <1>7, <3>1, <3>3, <4>1
    <3> QED BY <3>2, <3>3
  <2>2. \A q \in Request : IsInjective(m2.table[q])
    <3>1. IsInjective(<<>>)
      BY DEF IsInjective
    <3> QED BY <1>1, <1>5, <3>1 DEF Counted
  <2>3. ToSet(m2.free) = {b \in Block \ {NullBlock} : m2.ref[b] = 0}
    <3>1. ToSet(m.free) = {b \in Block \ {NullBlock} : m.ref[b] = 0}
      BY <1>1 DEF Counted
    <3>2. \A b \in Block : m.ref[b] = 0 => b \notin T /\ m2.ref[b] = 0
      BY <1>6, <1>7
    <3>3. \A b \in Block : b \notin T => m2.ref[b] = m.ref[b]
      BY <1>7
    <3> QED BY <1>3, <1>8, <3>1, <3>2, <3>3
  <2> QED BY <1>8, <2>1, <2>2, <2>3 DEF Counted
<1>12. Published(m2, tok, V)
  <2>1. ASSUME NEW q \in Request PROVE PublishedOf(m2, tok, V, q)
    <3>1. PublishedOf(m, tok, V, q)
      BY <1>1 DEF Published
    <3>2. CASE q # r
      <4>1. m2.table[q] = m.table[q] /\ Done(m2, q) = Done(m, q) /\ m2.cached[q] = m.cached[q]
        BY <1>5, <3>2 DEF Done
      <4>2. ASSUME NEW i \in 1 .. Len(m.table[q]), i > Done(m, q),
                   NEW p \in Request, m.table[q][i] \in ToSet(m2.table[p])
            PROVE  p = q
        <5>1. p # r
          BY <1>9, <4>2
        <5> QED BY <1>5, <3>1, <4>2, <5>1 DEF PublishedOf
      <4> QED BY <1>8, <3>1, <4>1, <4>2 DEF PublishedOf
    <3>3. CASE q = r
      <4>1. Done(m2, q) = 0 /\ m2.table[q] = <<>> /\ m2.cached[q] = NotCached
        BY <1>5, <3>3 DEF Done
      <4>2. Len(m2.table[q]) = 0
        BY <4>1
      <4> QED BY <4>1, <4>2 DEF PublishedOf
    <3> QED BY <3>2, <3>3
  <2> QED BY <2>1 DEF Published
<1>13. Outlived(m2)
  <2> SUFFICES ASSUME NEW b \in Block \ {NullBlock}, m2.ref[b] = 0, Len(m2.hash[b]) > BlockSize
               PROVE  \E c \in Block \ {NullBlock} : OutlivedBy(m2, b, c)
    BY DEF Outlived
  <2>1. m.hash[b] = m2.hash[b]
    BY <1>8
  <2>2. CASE m.ref[b] = 0
    <3>1. PICK c \in Block \ {NullBlock} : OutlivedBy(m, b, c)
      BY <1>1, <2>1, <2>2 DEF Outlived
    <3>2. b \in ToSet(m.free)
      BY <1>1, <2>2 DEF Counted
    <3>3. CASE AfterIn(m.free, b, c)
      BY <1>8, <3>1, <3>3 DEF OutlivedBy
    <3>4. CASE m.ref[c] > 0 /\ m2.ref[c] > 0
      BY <1>8, <3>1, <3>4 DEF OutlivedBy
    <3>5. CASE m.ref[c] > 0 /\ ~ (m2.ref[c] > 0)
      <4>1. c \in T /\ m2.ref[c] = 0
        BY <1>7, <3>5
      <4>2. AfterIn(m2.free, b, c)
        BY <1>8, <3>2, <4>1
      <4> QED BY <1>8, <3>1, <4>2 DEF OutlivedBy
    <3> QED BY <3>1, <3>3, <3>4, <3>5 DEF OutlivedBy
  <2>3. CASE m.ref[b] # 0
    <3>1. b \in T
      BY <1>7, <2>3
    <3>2. PICK i \in 1 .. Len(t) : t[i] = b
      BY <1>3, <3>1
    <3>3. PublishedOf(m, tok, V, r) /\ i \in Nat /\ i # 0
      BY <1>1, <1>2 DEF Published
    <3>4. Done(m, r) \in Nat
      BY <1>4 DEF Done
    <3>5. i <= Done(m, r)
      <4>1. CASE i > Done(m, r)
        <5>1. m.hash[b] = NoHash
          BY <3>2, <3>3, <4>1 DEF PublishedOf
        <5>2. Len(m.hash[b]) = 0
          BY <5>1 DEF NoHash
        <5> QED BY <2>1, <5>2, KVCacheAssumption
      <4> QED BY <3>3, <3>4, <4>1
    <3>6. /\ tok[r] \in Seq(V) /\ i * BlockSize <= Len(tok[r])
          /\ m.hash[b] = BlockHash(tok[r], i)
      <4>1. t # <<>>
        BY <1>2
      <4> QED BY <3>2, <3>3, <3>5, <4>1 DEF PublishedOf
    <3>7. i # 1 /\ Prefix(m.hash[b]) = BlockHash(tok[r], i - 1)
      BY <2>1, <3>3, <3>6, BlockHashSpec
    <3>8. i - 1 \in 1 .. Len(t) /\ i - 1 <= Done(m, r) /\ i - 1 \in Nat /\ i - 1 # 0 /\ i - 1 < i
      BY <1>2, <3>3, <3>4, <3>5, <3>7
    <3>9. m.hash[t[i - 1]] = BlockHash(tok[r], i - 1) /\ (i - 1) * BlockSize <= Len(tok[r])
      BY <3>3, <3>8 DEF PublishedOf
    <3>10. m.hash[t[i - 1]] # NoHash
      BY <3>6, <3>8, <3>9, BlockHashSpec
    <3>11. t[i - 1] \in Block \ {NullBlock}
      BY <1>2, <3>8
    <3>12. m2.ref[t[i - 1]] > 0 \/ AfterIn(m2.free, b, t[i - 1])
      <4>1. m2.ref[t[i - 1]] \in Nat
        BY <1>7, <3>11
      <4>2. CASE m2.ref[t[i - 1]] = 0
        BY <1>8, <3>2, <3>8, <4>2
      <4> QED BY <4>1, <4>2
    <3> QED BY <1>8, <3>7, <3>9, <3>10, <3>11, <3>12 DEF OutlivedBy
  <2> QED BY <2>2, <2>3
<1> QED BY <1>1, <1>5, <1>8, <1>10, <1>11, <1>12, <1>13 DEF KVInv

-----------------------------------------------------------------------------
(* Allocation                                                               *)

\* What allocate_slots does after the hits are in the table: blocks for
\* `slots' tokens, and the first n tokens published.
Filled(m, r, tokens, slots, n) ==
    IF EnableCaching THEN CacheBlocks(AllocateNewBlocks(m, r, slots), r, tokens, n)
    ELSE AllocateNewBlocks(m, r, slots)

\* The blocks r holds after allocate_slots, and those it publishes.
LEMMA FilledInv ==
    ASSUME NEW m, NEW tok, NEW V, KVInv(m, tok, V), NEW r \in Request, tok[r] \in Seq(V),
           NEW slots \in Nat, CDiv(slots, BlockSize) - Len(m.table[r]) <= Len(m.free),
           NEW n \in Nat, n <= slots, n <= Len(tok[r])
    PROVE  LET m2 == Filled(m, r, tok[r], slots, n)
           IN  /\ KVInv(m2, tok, V)
               /\ slots <= Len(m2.table[r]) * BlockSize
               /\ Len(m.table[r]) <= Len(m2.table[r])
               /\ \A q \in Request \ {r} : m2.table[q] = m.table[q]
               /\ Rehashes(m, m2, r, tok[r], Done(m, r), n)
<1> DEFINE need == CDiv(slots, BlockSize)
           k == need - Len(m.table[r])
           m1 == AllocateNewBlocks(m, r, slots)
           m2 == Filled(m, r, tok[r], slots, n)
<1>1. /\ KVTypes(m) /\ Counted(m) /\ Indexed(m.hash, m.cache)
  BY DEF KVInv
<1>2. need \in Nat /\ slots <= need * BlockSize /\ need * BlockSize \in Nat
  BY BlockCDiv, BlockTimes
<1>3. Len(m.table[r]) \in Nat /\ Len(m.free) \in Nat
  BY <1>1 DEF KVTypes
<1> HIDE DEF need
<1>4. /\ KVInv(m1, tok, V) /\ need <= Len(m1.table[r]) /\ Len(m1.table[r]) \in Nat
      /\ Len(m.table[r]) <= Len(m1.table[r])
      /\ \A q \in Request \ {r} : m1.table[q] = m.table[q]
      /\ Rehashes(m, m1, r, tok[r], Done(m, r), 0)
      /\ m1.cached = m.cached /\ \A b \in Block : m1.hash[b] \in {NoHash, m.hash[b]}
  <2>0. Done(m, r) \in Nat /\ Done(m, r) <= Done(m, r) /\ m.table[r] \in Seq(Block \ {NullBlock})
    BY <1>1 DEF Done, KVTypes
  <2>1. CASE k <= 0
    <3>1. m1 = m
      BY <2>1 DEF AllocateNewBlocks, need
    <3>2. need <= Len(m.table[r])
      BY <1>2, <1>3, <2>1
    <3>3. Rehashes(m, m, r, tok[r], Done(m, r), 0)
      BY <2>0 DEF Rehashes, Extends
    <3> QED BY <1>3, <3>1, <3>2, <3>3
  <2>2. CASE ~ (k <= 0)
    <3>1. k \in 0 .. Len(m.free) /\ k <= Len(m.free)
      BY <1>2, <1>3, <2>2 DEF need
    <3>2. ~ (k > Len(m.free))
      BY <1>3, <3>1
    <3>3. m1 = [GetNewBlocks(m, k) EXCEPT !.table[r] = @ \o NewBlocks(m, k)]
      BY <2>2, <3>2 DEF AllocateNewBlocks, need
    <3> HIDE DEF m1, k
    <3>4. TakesBlocks(m, m1, r, k)
      BY <1>1, <3>1, <3>3, TakesBlocksSpec
    <3>5. /\ KVInv(m1, tok, V) /\ Len(m1.table[r]) = Len(m.table[r]) + k
          /\ \A q \in Request \ {r} : m1.table[q] = m.table[q]
      BY <3>1, <3>4, TakesBlocksInv
    <3>6. Rehashes(m, m1, r, tok[r], Done(m, r), 0)
      BY <1>1, <2>0, <3>1, <3>4, TakesRehash
    <3>7. m1.cached = m.cached /\ \A b \in Block : m1.hash[b] \in {NoHash, m.hash[b]}
      BY <3>4 DEF TakesBlocks
    <3>8. need <= Len(m1.table[r]) /\ Len(m1.table[r]) \in Nat /\ Len(m.table[r]) <= Len(m1.table[r])
      BY <1>2, <1>3, <3>1, <3>5 DEF k
    <3> QED BY <3>5, <3>6, <3>7, <3>8
  <2> QED BY <2>1, <2>2
<1>5. slots <= Len(m1.table[r]) * BlockSize
  <2>1. need * BlockSize <= Len(m1.table[r]) * BlockSize /\ Len(m1.table[r]) * BlockSize \in Nat
    BY <1>2, <1>4, BlockTimes
  <2> HIDE DEF m1
  <2> QED BY <1>2, <2>1
<1>6. CASE ~ EnableCaching
  <2>1. m2 = m1
    BY <1>6 DEF Filled
  <2> HIDE DEF m1, m2
  <2>2. Rehashes(m, m1, r, tok[r], Done(m, r), n)
    BY <1>4 DEF Rehashes
  <2> QED BY <1>4, <1>5, <2>1, <2>2 DEF m2
<1>7. CASE EnableCaching
  <2>1. m2 = CacheBlocks(m1, r, tok[r], n)
    BY <1>7 DEF Filled
  <2>2. n <= Len(m1.table[r]) * BlockSize
    <3>1. Len(m1.table[r]) * BlockSize \in Nat
      BY <1>4, BlockTimes
    <3> HIDE DEF m1
    <3> QED BY <1>5, <3>1
  <2> HIDE DEF m1, m2
  <2>3. /\ KVInv(m2, tok, V) /\ m2.table = m1.table
        /\ Rehashes(m1, m2, r, tok[r], Done(m1, r), n)
    BY <1>4, <1>7, <2>1, <2>2, CacheBlocksInv
  <2>4. Rehashes(m, m2, r, tok[r], Done(m, r), n)
    <3>1. KVTypes(m1) /\ KVTypes(m2)
      BY <1>4, <2>3 DEF KVInv
    <3>2. /\ m.table[r] \in Seq(Block \ {NullBlock}) /\ m1.table[r] \in Seq(Block \ {NullBlock})
          /\ m2.table[r] \in Seq(Block \ {NullBlock})
          /\ Done(m, r) \in Nat /\ Done(m2, r) \in Nat /\ Done(m1, r) = Done(m, r)
      BY <1>1, <1>4, <3>1 DEF KVTypes, Done
    <3>3. Extends(m.table[r], m1.table[r]) /\ Done(m, r) <= Done(m1, r)
      BY <1>4, <3>2 DEF Rehashes
    <3> QED BY <1>4, <2>3, <3>2, <3>3, RehashesAfter
  <2> QED BY <1>4, <1>5, <2>3, <2>4 DEF m2
<1> QED BY <1>6, <1>7

\* allocate_slots for a request that runs already.
LEMMA RunningSlots ==
    ASSUME NEW m, NEW tok, NEW V, KVInv(m, tok, V), NEW r \in Request, tok[r] \in Seq(V),
           NEW c \in Nat, NEW n \in Nat, c + n <= MaxModelLen,
           NEW a, a = AllocateSlots(m, r, tok[r], c, <<>>, n), a.ok
    PROVE  /\ KVInv(a.kv, tok, V)
           /\ c + n <= Len(a.kv.table[r]) * BlockSize
           /\ Len(m.table[r]) <= Len(a.kv.table[r])
           /\ \A q \in Request \ {r} : a.kv.table[q] = m.table[q]
           /\ Rehashes(m, a.kv, r, tok[r], Done(m, r), c + n)
<1> DEFINE lt == Len(tok[r])
           t == MinOf(c + n, lt)
           held == Len(m.table[r])
           need == CDiv(c + n, BlockSize)
           m2 == Filled(m, r, tok[r], c + n, t)
           e == Evictable(m, <<>>)
<1>1. KVTypes(m)
  BY DEF KVInv
<1>2. lt \in Nat /\ held \in Nat /\ Len(m.free) \in Nat /\ MaxModelLen \in Nat
  BY <1>1, KVCacheAssumption DEF KVTypes
<1>3. c + n \in Nat /\ t \in Nat /\ t <= c + n /\ t <= lt
  BY <1>2 DEF MinOf
<1>4. need \in Nat
  BY <1>3, BlockCDiv
<1>5. Len(<<>>) = 0 /\ Len(<<>>) * BlockSize = 0
  BY BlockTimes
<1>6. /\ MinOf(c + Len(<<>>) * BlockSize, MaxModelLen) = c
      /\ MinOf(c + n, MaxModelLen) = c + n
  BY <1>2, <1>5 DEF MinOf
<1>7. Cardinality(e) = 0
  <2>1. e = {}
    BY DEF Evictable
  <2> QED BY <2>1, FS_EmptySet
<1>8. NumBlocksToAllocate(m, r, c + n, <<>>) = MaxOf(need - held, 0)
  <2>1. Len(<<>>) + held = held
    BY <1>2
  <2>2. MaxOf(need - held, 0) + 0 = MaxOf(need - held, 0)
    BY <1>2, <1>4 DEF MaxOf
  <2>3. Cardinality({i \in DOMAIN <<>> : m.ref[<<>>[i]] = 0 /\ <<>>[i] # NullBlock}) = 0
    BY <1>7 DEF Evictable
  <2> HIDE DEF need, held
  <2> QED BY <2>1, <2>2, <2>3 DEF NumBlocksToAllocate, need, held
<1>9. a = IF NumBlocksToAllocate(m, r, c + n, <<>>) > Len(m.free)
          THEN [ok |-> FALSE, kv |-> m] ELSE [ok |-> TRUE, kv |-> m2]
  BY <1>6 DEF AllocateSlots, Filled
<1>10. ~ (NumBlocksToAllocate(m, r, c + n, <<>>) > Len(m.free)) /\ a.kv = m2
  <2> HIDE DEF m2
  <2> QED BY <1>9
<1>11. need - held <= Len(m.free)
  <2> HIDE DEF need, held
  <2> QED BY <1>2, <1>4, <1>8, <1>10 DEF MaxOf
<1> HIDE DEF t
<1>12. /\ KVInv(m2, tok, V) /\ c + n <= Len(m2.table[r]) * BlockSize
       /\ held <= Len(m2.table[r]) /\ \A q \in Request \ {r} : m2.table[q] = m.table[q]
       /\ Rehashes(m, m2, r, tok[r], Done(m, r), t)
  BY <1>3, <1>11, FilledInv
<1>13. Rehashes(m, m2, r, tok[r], Done(m, r), c + n)
  <2> HIDE DEF m2
  <2> QED BY <1>3, <1>12, RehashesMore
<1> QED BY <1>10, <1>12, <1>13

\* allocate_slots for a request that leaves the waiting queue.
LEMMA WaitingSlots ==
    ASSUME NEW m, NEW tok, NEW V, KVInv(m, tok, V), NEW r \in Request, tok[r] \in Seq(V),
           m.table[r] = <<>>, m.cached[r] = NotCached,
           NEW hits, hits = <<>> \/ AreHits(m, tok, V, r, hits),
           NEW n \in Nat, Len(hits) * BlockSize + n <= MaxModelLen,
           NEW a, a = AllocateSlots(m, r, tok[r], 0, hits, n), a.ok
    PROVE  /\ KVInv(a.kv, tok, V)
           /\ Len(hits) * BlockSize + n <= Len(a.kv.table[r]) * BlockSize
           /\ \A q \in Request \ {r} : a.kv.table[q] = m.table[q]
           /\ Rehashes(m, a.kv, r, tok[r], Len(hits), Len(hits) * BlockSize + n)
<1>1. CASE hits = <<>>
  <2>1. Len(hits) * BlockSize + n = 0 + n /\ 0 + n <= MaxModelLen
    <3>1. Len(hits) * BlockSize = 0
      BY <1>1, BlockTimes
    <3> QED BY <3>1
  <2>2. Done(m, r) = 0 /\ Len(hits) = 0 /\ Len(hits) * BlockSize + n = 0 + n
    BY <1>1, <2>1 DEF Done
  <2>3. /\ KVInv(a.kv, tok, V) /\ 0 + n <= Len(a.kv.table[r]) * BlockSize
        /\ \A q \in Request \ {r} : a.kv.table[q] = m.table[q]
        /\ Rehashes(m, a.kv, r, tok[r], Done(m, r), 0 + n)
    BY <1>1, <2>1, RunningSlots
  <2> QED BY <2>2, <2>3
<1>2. CASE AreHits(m, tok, V, r, hits) /\ hits # <<>>
  <2> DEFINE l == Len(hits) * BlockSize
             lt == Len(tok[r])
             t == MinOf(l + n, lt)
             need == CDiv(l + n, BlockSize)
             m1 == AllocateNewComputedBlocks(m, r, hits)
             m2 == Filled(m1, r, tok[r], l + n, t)
             e == Cardinality(Evictable(m, hits))
  <2>1. KVTypes(m) /\ Counted(m)
    BY DEF KVInv
  <2>2. hits \in Seq(Block \ {NullBlock}) /\ IsInjective(hits) /\ Len(hits) \in Nat
    BY <1>2 DEF AreHits
  <2>3. l \in Nat /\ lt \in Nat /\ Len(m.free) \in Nat /\ MaxModelLen \in Nat
    BY <2>1, <2>2, BlockTimes, KVCacheAssumption DEF KVTypes
  <2>4. l + n \in Nat /\ t \in Nat /\ t <= l + n /\ t <= lt
    <3> HIDE DEF l
    <3> QED BY <2>3 DEF MinOf
  <2>5. need \in Nat
    BY <2>4, BlockCDiv
  <2>6. TouchesBlocks(m, m1, r, hits)
    BY <2>1, <2>2, TouchesBlocksSpec
  <2>7. e \in Nat /\ Len(m1.free) = Len(m.free) - e
    <3> HIDE DEF m1
    <3> QED BY <2>1, <2>2, <2>6, TouchesBlocksFree
  <2>8. /\ KVInv(m1, tok, V) /\ m1.table[r] = hits
        /\ \A q \in Request \ {r} : m1.table[q] = m.table[q]
    <3> HIDE DEF m1
    <3> QED BY <1>2, <2>6, TouchesBlocksInv
  <2>9. MinOf(0 + l, MaxModelLen) = l /\ MinOf(l + n, MaxModelLen) = l + n
    <3> HIDE DEF l
    <3> QED BY <2>3 DEF MinOf, l
  <2>10. NumBlocksToAllocate(m, r, l + n, hits) = MaxOf(need - Len(hits), 0) + e
    <3>1. Len(m.table[r]) = 0 /\ Len(hits) + 0 = Len(hits)
      BY <2>2
    <3> HIDE DEF need, e, l
    <3> QED BY <3>1 DEF NumBlocksToAllocate, need, e, Evictable
  <2>11. a = IF NumBlocksToAllocate(m, r, l + n, hits) > Len(m.free)
             THEN [ok |-> FALSE, kv |-> m] ELSE [ok |-> TRUE, kv |-> m2]
    <3> HIDE DEF l
    <3> QED BY <1>2, <2>9 DEF AllocateSlots, Filled, l
  <2>12. ~ (NumBlocksToAllocate(m, r, l + n, hits) > Len(m.free)) /\ a.kv = m2
    <3> HIDE DEF m2, l
    <3> QED BY <2>11
  <2>13. need - Len(hits) <= Len(m1.free)
    <3> HIDE DEF need, m1, e, l
    <3> QED BY <2>2, <2>3, <2>5, <2>7, <2>10, <2>12 DEF MaxOf
  <2> HIDE DEF t, m1, l
  <2>14. /\ KVInv(m2, tok, V) /\ l + n <= Len(m2.table[r]) * BlockSize
         /\ \A q \in Request \ {r} : m2.table[q] = m1.table[q]
         /\ Rehashes(m1, m2, r, tok[r], Done(m1, r), t)
    BY <2>4, <2>8, <2>13, FilledInv
  <2> HIDE DEF m2
  <2>15. Rehashes(m, m2, r, tok[r], Len(hits), l + n)
    <3>1. Rehashes(m1, m2, r, tok[r], Done(m1, r), l + n)
      BY <2>4, <2>14, RehashesMore
    <3>2. /\ m1.hash = m.hash /\ m1.cached = [m.cached EXCEPT ![r] = Len(hits)]
          /\ m1.table[r] = hits
      BY <2>6, <2>8 DEF TouchesBlocks
    <3>3. DOMAIN m.cached = Request /\ Len(hits) # NotCached
      BY <2>1, <2>2 DEF KVTypes, NotCached
    <3>4. Done(m1, r) = Len(hits) /\ \A q \in Request \ {r} : m1.cached[q] = m.cached[q]
      BY <3>2, <3>3 DEF Done
    <3>5. /\ m.table[r] \in Seq(Block \ {NullBlock}) /\ m1.table[r] \in Seq(Block \ {NullBlock})
          /\ m2.table[r] \in Seq(Block \ {NullBlock}) /\ Done(m2, r) \in Nat
      BY <2>1, <2>2, <2>14, <3>2 DEF KVInv, KVTypes, Done
    <3>6. Extends(m.table[r], m1.table[r]) /\ Len(hits) <= Len(hits)
      <4>1. Len(m.table[r]) = 0 /\ m1.table[r] = hits
        BY <3>2
      <4> QED BY <2>2, <4>1 DEF Extends
    <3>7. \A b \in Block : m1.hash[b] \in {NoHash, m.hash[b]}
      BY <3>2
    <3> QED BY <2>2, <3>1, <3>4, <3>5, <3>6, <3>7, RehashesAfter
  <2> QED BY <2>8, <2>12, <2>14, <2>15 DEF l
<1> QED BY <1>1, <1>2

\* The blocks that get_computed_blocks finds can start the table of the
\* request, and leave at least one token to compute.
LEMMA HitsSpec ==
    ASSUME NEW m, NEW tok, NEW V, KVInv(m, tok, V), NEW r \in Request, tok[r] \in Seq(V),
           tok[r] # <<>>
    PROVE  LET hits == GetComputedBlocks(m, tok[r])
           IN  /\ hits = <<>> \/ AreHits(m, tok, V, r, hits)
               /\ Len(hits) \in Nat
               /\ Len(hits) * BlockSize < Len(tok[r])
<1> DEFINE t == tok[r]
           hits == GetComputedBlocks(m, t)
           top == (Len(t) - 1) \div BlockSize
           isHit(n) == \A i \in 1 .. n : BlockHash(t, i) \in DOMAIN m.cache
           n == CHOOSE k \in 0 .. top : isHit(k) /\ (k = top \/ ~ isHit(k + 1))
<1>1. Len(t) \in Nat \ {0} /\ Len(t) - 1 \in Nat
  OBVIOUS
<1>2. CASE ~ EnableCaching
  <2>1. hits = <<>>
    BY <1>2 DEF GetComputedBlocks
  <2>2. Len(<<>>) = 0 /\ Len(<<>>) * BlockSize = 0 /\ Len(<<>>) \in Nat
    BY BlockTimes
  <2> QED BY <1>1, <2>1, <2>2
<1>3. CASE EnableCaching
  <2>1. KVTypes(m) /\ Indexed(m.hash, m.cache)
    BY DEF KVInv
  <2>2. top \in Nat /\ top * BlockSize <= Len(t) - 1
    BY <1>1, BlockDiv
  <2> HIDE DEF top
  <2>3. \E k \in 0 .. top : isHit(k) /\ (k = top \/ ~ isHit(k + 1))
    <3> SUFFICES ASSUME \A k \in 0 .. top : isHit(k) => k # top /\ isHit(k + 1)
                 PROVE  FALSE
      OBVIOUS
    <3> DEFINE G == {k \in Nat : k <= top => isHit(k)}
    <3>1. 0 \in G
      OBVIOUS
    <3>2. ASSUME NEW k \in Nat, k \in G PROVE k + 1 \in G
      <4>1. CASE k + 1 <= top
        <5>1. k \in 0 .. top /\ k <= top
          BY <2>2, <4>1
        <5>2. isHit(k)
          BY <3>2, <5>1
        <5> HIDE DEF isHit
        <5>3. isHit(k + 1)
          BY <5>1, <5>2
        <5> QED BY <5>3
      <4>2. CASE ~ (k + 1 <= top)
        BY <4>2
      <4> QED BY <4>1, <4>2
    <3> HIDE DEF G
    <3>3. top \in G
      BY <2>2, <3>1, <3>2, SetInduction
    <3>4. isHit(top)
      BY <2>2, <3>3 DEF G
    <3> QED BY <2>2, <3>4
  <2>4. n \in 0 .. top /\ isHit(n)
    <3> HIDE DEF isHit
    <3> QED BY <2>3
  <2>5. hits = [i \in 1 .. n |-> Head(m.cache[BlockHash(t, i)])]
    BY <1>3 DEF GetComputedBlocks, GetCachedBlock, top
  <2> HIDE DEF n, hits
  <2>6. n \in Nat /\ n <= top
    BY <2>2, <2>4
  <2>7. n * BlockSize <= top * BlockSize /\ n * BlockSize \in Nat /\ top * BlockSize \in Nat
    BY <2>2, <2>6, BlockTimes
  <2>8. n * BlockSize < Len(t) /\ n * BlockSize <= Len(t)
    BY <1>1, <2>2, <2>7
  <2>9. ASSUME NEW i \in 1 .. n
        PROVE  /\ i \in Nat /\ i * BlockSize <= Len(t)
               /\ hits[i] \in Block \ {NullBlock}
               /\ m.hash[hits[i]] = BlockHash(t, i)
    <3>1. i \in Nat /\ i <= n /\ i # 0
      BY <2>6
    <3>2. i * BlockSize <= n * BlockSize /\ i * BlockSize \in Nat
      BY <2>6, <3>1, BlockTimes
    <3>3. i * BlockSize <= Len(t)
      BY <1>1, <2>7, <2>8, <3>2
    <3> DEFINE h == BlockHash(t, i)
    <3>4. h # NoHash
      BY <3>1, <3>3, BlockHashSpec
    <3>5. h \in DOMAIN m.cache /\ hits[i] = Head(m.cache[h])
      BY <2>4, <2>5
    <3> HIDE DEF h
    <3>6. m.cache[h] \in Seq(Block) /\ m.cache[h] # <<>>
      BY <2>1, <3>5 DEF KVTypes, CacheTyped
    <3>7. hits[i] \in Block /\ hits[i] \in ToSet(m.cache[h])
      BY <3>5, <3>6, TailSpec
    <3>8. m.hash[hits[i]] = h
      BY <2>1, <3>5, <3>7 DEF Indexed
    <3>9. hits[i] # NullBlock
      BY <2>1, <3>4, <3>8 DEF KVTypes
    <3> QED BY <3>1, <3>3, <3>7, <3>8, <3>9 DEF h
  <2>10. DOMAIN hits = 1 .. n /\ hits \in Seq(Block \ {NullBlock}) /\ Len(hits) = n
    <3>1. hits \in [1 .. n -> Block \ {NullBlock}]
      BY <2>5, <2>9
    <3> QED BY <2>6, <3>1
  <2>11. IsInjective(hits)
    <3>1. ASSUME NEW i \in 1 .. n, NEW j \in 1 .. n, hits[i] = hits[j] PROVE i = j
      <4>1. BlockHash(t, i) = BlockHash(t, j)
        BY <2>9, <3>1
      <4>2. Len(BlockHash(t, i)) = i * BlockSize
        BY <2>9, BlockHashSpec
      <4>3. Len(BlockHash(t, j)) = j * BlockSize
        BY <2>9, BlockHashSpec
      <4>4. i * BlockSize = j * BlockSize
        BY <4>1, <4>2, <4>3
      <4> QED BY <2>9, <4>4, BlockTimes
    <3> QED BY <2>10, <3>1 DEF IsInjective
  <2>12. hits # <<>> => AreHits(m, tok, V, r, hits)
    BY <2>9, <2>10, <2>11 DEF AreHits
  <2> QED BY <2>6, <2>8, <2>10, <2>12 DEF hits
<1> QED BY <1>2, <1>3

\* The blocks are all free when no table lists one, and only then.
LEMMA ResetSpec ==
    ASSUME NEW m, KVTypes(m), Counted(m)
    PROVE  CanResetPrefixCache(m) <=> \A r \in Request : m.table[r] = <<>>
<1> DEFINE P == Block \ {NullBlock}
           F == ToSet(m.free)
<1>1. NumGpuBlocks \in Nat \ {0} /\ P = 1 .. NumGpuBlocks - 1
  <2>1. NumGpuBlocks \in Nat \ {0}
    BY KVCacheAssumption
  <2> QED BY <2>1 DEF Block, NullBlock
<1>2. IsFiniteSet(P) /\ Cardinality(P) = NumGpuBlocks - 1
  <2>1. 1 \in Int /\ NumGpuBlocks - 1 \in Int
    BY <1>1
  <2>2. IsFiniteSet(1 .. NumGpuBlocks - 1)
    BY <2>1, FS_Interval
  <2>3. Cardinality(1 .. NumGpuBlocks - 1)
           = IF 1 > NumGpuBlocks - 1 THEN 0 ELSE (NumGpuBlocks - 1) - 1 + 1
    BY <2>1, FS_Interval
  <2>4. (IF 1 > NumGpuBlocks - 1 THEN 0 ELSE (NumGpuBlocks - 1) - 1 + 1) = NumGpuBlocks - 1
    BY <1>1
  <2> QED BY <1>1, <2>2, <2>3, <2>4
<1>3. Cardinality(F) = Len(m.free) /\ Len(m.free) \in Nat
  <2>1. m.free \in Seq(Block) /\ IsInjective(m.free)
    BY DEF KVTypes, Counted
  <2> QED BY <2>1, LenIsCardinality
<1>4. F = {b \in P : m.ref[b] = 0} /\ F \subseteq P
  BY DEF Counted
<1>5. \A r \in Request : m.table[r] \in Seq(P)
  BY DEF KVTypes
<1>6. ASSUME \A r \in Request : m.table[r] = <<>> PROVE F = P
  <2>1. ASSUME NEW b \in P PROVE m.ref[b] = 0
    <3>1. ToSet(<<>>) = {}
      BY DEF ToSet
    <3>2. Holders(m, b) = {}
      BY <1>6, <3>1 DEF Holders
    <3>3. m.ref[b] = Cardinality(Holders(m, b))
      BY DEF Counted
    <3> QED BY <3>2, <3>3, FS_EmptySet
  <2> QED BY <1>4, <2>1
<1>7. ASSUME F = P, NEW r \in Request PROVE m.table[r] = <<>>
  <2> HIDE DEF P
  <2> SUFFICES ASSUME m.table[r] # <<>> PROVE FALSE
    OBVIOUS
  <2>1. PICK b : b \in ToSet(m.table[r])
    BY <1>5, ToSetSpec
  <2>2. b \in P /\ b \notin F
    <3>1. ToSet(m.table[r]) \subseteq P
      BY <1>5, ToSetSpec
    <3>2. b \notin ToSet(m.free)
      BY <2>1, CountedSpec
    <3> QED BY <2>1, <3>1, <3>2
  <2> QED BY <1>7, <2>2
<1> HIDE DEF P, F
<1>8. F = P <=> Len(m.free) = NumGpuBlocks - 1
  BY <1>2, <1>3, <1>4, FS_Subset
<1>9. CanResetPrefixCache(m) <=> Len(m.free) = NumGpuBlocks - 1
  BY <1>1, <1>3 DEF CanResetPrefixCache
<1> QED BY <1>6, <1>7, <1>8, <1>9

\* reset_prefix_cache drops the index when no block is in use.
LEMMA ResetInv ==
    ASSUME NEW m, NEW tok, NEW V, KVInv(m, tok, V)
    PROVE  /\ KVInv(ResetPrefixCache(m), tok, V)
           /\ ResetPrefixCache(m).table = m.table
<1> DEFINE m2 == [m EXCEPT !.hash = [b \in Block |-> NoHash], !.cache = <<>>]
<1>1. KVTypes(m) /\ Counted(m) /\ Published(m, tok, V)
  BY DEF KVInv
<1>2. CASE CanResetPrefixCache(m)
  <2>1. ResetPrefixCache(m) = m2
    BY <1>2 DEF ResetPrefixCache
  <2>2. \A r \in Request : m.table[r] = <<>>
    BY <1>1, <1>2, ResetSpec
  <2>3. /\ DOMAIN m2 = KVFields /\ m2.table = m.table /\ m2.cached = m.cached
        /\ m2.ref = m.ref /\ m2.free = m.free /\ m2.err = m.err
        /\ m2.hash = [b \in Block |-> NoHash] /\ m2.cache = <<>>
    BY <1>1 DEF KVTypes, KVShape, KVFields
  <2> HIDE DEF m2
  <2>4. NullBlock \in Block
    BY KVCacheAssumption DEF Block, NullBlock
  <2>5. KVTypes(m2)
    BY <1>1, <2>3, <2>4 DEF KVTypes, KVShape, CacheTyped
  <2>6. Counted(m2)
    BY <1>1, <2>3 DEF Counted, Holders
  <2>7. Indexed(m2.hash, m2.cache)
    BY <2>3 DEF Indexed
  <2>8. Published(m2, tok, V)
    BY <1>1, <2>2, <2>3 DEF Published, PublishedOf, Done
  <2>9. Outlived(m2)
    <3>1. \A b \in Block \ {NullBlock} : ~ (Len(m2.hash[b]) > BlockSize)
      <4>1. Len(NoHash) = 0
        BY DEF NoHash
      <4> QED BY <2>3, <4>1, KVCacheAssumption
    <3> QED BY <3>1 DEF Outlived
  <2> QED BY <2>1, <2>3, <2>5, <2>6, <2>7, <2>8, <2>9 DEF KVInv
<1>3. CASE ~ CanResetPrefixCache(m)
  BY <1>3 DEF ResetPrefixCache
<1> QED BY <1>2, <1>3

\* More tokens leave what is published as it is.
LEMMA KVInvExtends ==
    ASSUME NEW m, NEW tok, NEW V, KVInv(m, tok, V), NEW tok2,
           \A r \in Request : m.table[r] # <<>> =>
               tok2[r] \in Seq(V) /\ Extends(tok[r], tok2[r])
    PROVE  KVInv(m, tok2, V)
<1>1. KVTypes(m) /\ Published(m, tok, V)
  BY DEF KVInv
<1>2. ASSUME NEW r \in Request PROVE PublishedOf(m, tok2, V, r)
  <2>1. PublishedOf(m, tok, V, r) /\ m.table[r] \in Seq(Block \ {NullBlock})
    BY <1>1 DEF Published, KVTypes
  <2>2. ASSUME NEW i \in 1 .. Len(m.table[r]), i <= Done(m, r)
        PROVE  i * BlockSize <= Len(tok2[r]) /\ m.hash[m.table[r][i]] = BlockHash(tok2[r], i)
    <3>1. m.table[r] # <<>> /\ i \in Nat
      BY <2>1
    <3>2. /\ tok[r] \in Seq(V) /\ tok2[r] \in Seq(V) /\ Extends(tok[r], tok2[r])
          /\ i * BlockSize <= Len(tok[r])
          /\ m.hash[m.table[r][i]] = BlockHash(tok[r], i)
      BY <2>1, <2>2, <3>1 DEF PublishedOf
    <3> QED BY <3>1, <3>2, ExtendsSpec
  <2> QED BY <2>1, <2>2 DEF PublishedOf
<1> QED BY <1>2 DEF KVInv, Published

\* The manager as __init__ leaves it.
LEMMA EmptyKVInv ==
    ASSUME NEW tok, NEW V PROVE KVInv(EmptyKV, tok, V)
<1> DEFINE m == EmptyKV
           n == NumGpuBlocks - 1
<1>1. NumGpuBlocks \in Nat \ {0} /\ n \in Nat /\ Block \ {NullBlock} = 1 .. n
      /\ NullBlock \in Block
  <2>1. NumGpuBlocks \in Nat \ {0}
    BY KVCacheAssumption
  <2> QED BY <2>1 DEF Block, NullBlock
<1>2. /\ DOMAIN m = KVFields /\ m.ref = [b \in Block |-> 0] /\ m.hash = [b \in Block |-> NoHash]
      /\ m.free = [i \in 1 .. n |-> i] /\ m.cache = <<>>
      /\ m.table = [r \in Request |-> <<>>]
      /\ m.cached = [r \in Request |-> NotCached] /\ m.err = FALSE
  BY DEF EmptyKV, KVFields
<1> HIDE DEF m, n
<1>3. m.free \in Seq(Block) /\ Len(m.free) = n /\ \A i \in 1 .. n : m.free[i] = i
  <2>1. m.free \in [1 .. n -> Block]
    BY <1>1, <1>2
  <2> QED BY <1>1, <1>2, <2>1
<1>4. ToSet(<<>>) = {} /\ IsInjective(<<>>) /\ <<>> \in Seq(Block \ {NullBlock})
      /\ Len(<<>>) = 0
  BY DEF ToSet, IsInjective
<1>5. KVTypes(m)
  BY <1>1, <1>2, <1>3, <1>4 DEF KVTypes, KVShape, CacheTyped
<1>6. Counted(m)
  <2>1. ASSUME NEW b \in Block \ {NullBlock}
        PROVE  /\ IsFiniteSet(Holders(m, b)) /\ m.ref[b] = Cardinality(Holders(m, b))
               /\ m.ref[b] = 0
    <3>1. Holders(m, b) = {}
      BY <1>2, <1>4 DEF Holders
    <3> QED BY <1>2, <3>1, FS_EmptySet
  <2>2. ToSet(m.free) = Block \ {NullBlock}
    <3>1. ToSet(m.free) = {m.free[i] : i \in 1 .. Len(m.free)}
      BY <1>3, ToSetSpec
    <3> QED BY <1>1, <1>3, <3>1
  <2>3. IsInjective(m.free)
    <3>1. \A i, j \in 1 .. Len(m.free) : m.free[i] = m.free[j] => i = j
      BY <1>3
    <3> QED BY <1>3, <3>1, ToSetSpec
  <2> QED BY <1>2, <1>4, <2>1, <2>2, <2>3 DEF Counted
<1>7. Indexed(m.hash, m.cache)
  BY <1>2 DEF Indexed
<1>8. Published(m, tok, V)
  BY <1>2, <1>4 DEF Published, PublishedOf, Done
<1>9. Outlived(m)
  <2>1. Len(NoHash) = 0
    BY DEF NoHash
  <2> QED BY <1>2, <2>1, KVCacheAssumption DEF Outlived
<1> QED BY <1>5, <1>6, <1>7, <1>8, <1>9 DEF KVInv, m

\* free keeps the manager consistent, whoever's tokens are known.
LEMMA FreeRequestInv ==
    ASSUME NEW m, NEW tok, NEW V, KVInv(m, tok, V), NEW r \in Request
    PROVE  LET m2 == FreeRequest(m, r)
           IN  /\ KVInv(m2, tok, V)
               /\ m2.table[r] = <<>>
               /\ \A q \in Request \ {r} : m2.table[q] = m.table[q]
<1>1. GivesBlocks(m, FreeRequest(m, r), r)
  BY GivesBlocksSpec DEF KVInv
<1> QED BY <1>1, GivesBlocksInv
=============================================================================
