------------------------- MODULE DataParallelProofs -------------------------
(***************************************************************************)
(* Proofs about DataParallel, for any number of engines, front ends and    *)
(* requests: the wave numbers that engines, coordinator and front ends     *)
(* count apart from each other are consistent, and no engine waits in a    *)
(* forward pass for one that nobody wakes.                                 *)
(*                                                                         *)
(* The order within a channel plays no part in either: the invariants      *)
(* speak of the messages under way as sets.                                *)
(***************************************************************************)
EXTENDS DataParallel, SequenceTheorems, TLAPS

\* The messages under way in a channel.
Msgs(s) == {s[n] : n \in DOMAIN s}

-----------------------------------------------------------------------------
(* Waves *)

\* What is under way lags behind whoever has sent it.  Rank 0 reports a wave when
\* it has left it; the coordinator counts waves from these reports.
MessagesLag ==
  /\ \A f \in Fronts, i \in Engines : \A m \in Msgs(toEng[f][i]) :
       m.type = "add" => m.wave <= coord.wave
  /\ \A i \in Engines : \A m \in Msgs(start[i]) : m.wave <= coord.wave
  /\ \A f \in Fronts : \A m \in Msgs(toFront[f]) : m.wave <= coord.wave
  /\ \A i \in Engines : \A m \in Msgs(fromEng[i]) :
       /\ m.wave <= eng[0].wave
       /\ m.type = "complete" => m.wave < eng[0].wave

WaveInv == TypeOK /\ WavesAgree /\ MessagesLag

-----------------------------------------------------------------------------
(* Waking the engines of the current wave *)

\* As long as no client pauses the engines.
NobodyPauses ==
  /\ left.pauses = 0
  /\ admin.state = "resumed"
  /\ \A i \in Engines : ~eng[i].paused /\ ~eng[i].owesReply
  /\ \A f \in Fronts, i \in Engines : \A m \in Msgs(toEng[f][i]) :
       m.type \in {"add", "abort"}

\* The coordinator has started the current wave.
Started == coord.wave = eng[0].wave /\ coord.running

\* A front end is about to tell the coordinator of a request.
NotesUnderWay == \E f \in Fronts : firstReq[f] # <<>> \/ fromFront[f] # <<>>
Noted == coord.wave = eng[0].wave /\ NotesUnderWay

\* An engine asks the coordinator to start the current wave.
Asked ==
  \E i \in Engines : \E m \in Msgs(fromEng[i]) :
    m.type = "start" /\ m.wave = eng[0].wave

\* Engine i runs, or a message is under way that makes it run.
Called(i) == eng[i].running \/ \E m \in Msgs(start[i]) : StartApplies(i, m)

Busy(i) == eng[i].running \/ eng[i].todo > 0 \/ eng[i].phase # "loop"

\* An engine that has something to do has it from a message of this wave, so that the
\* coordinator knows or will know.
BusyIsKnown == \A i \in Engines : Busy(i) => Started \/ Noted \/ Asked

\* Once the coordinator has started the wave, every engine is called.
AllAreCalled == Started => \A i \in Engines : Called(i)

\* What is under way, or known to a front end, about the current wave is true.
NewsIsTrue ==
  /\ \A i \in Engines : \A m \in Msgs(start[i]) : m.wave = eng[0].wave => Started
  /\ \A i \in Engines : \A m \in Msgs(fromEng[i]) :
       m.type = "start" /\ m.wave = eng[0].wave => eng[i].running
  /\ \A f \in Fronts : \A m \in Msgs(toFront[f]) :
       m.wave = eng[0].wave /\ m.running => Started
  /\ \A f \in Fronts :
       front[f].wave = eng[0].wave /\ front[f].running => Started \/ Noted
  /\ \A f \in Fronts, i \in Engines : \A m \in Msgs(toEng[f][i]) :
       m.type = "add" /\ m.wave = eng[0].wave => Started \/ Noted

\* The all-reduce sees every request.
SyncCounts ==
  \A i \in Engines :
    eng[i].phase = "sync" => (eng[i].unfinished <=> eng[i].todo > 0)

WakeInv == BusyIsKnown /\ AllAreCalled /\ NewsIsTrue /\ SyncCounts

-----------------------------------------------------------------------------
(* Sequences of messages as sets *)

LEMMA MsgsType ==
    ASSUME NEW S, NEW s \in Seq(S)
    PROVE  /\ Msgs(s) \subseteq S
           /\ Msgs(s) = {} <=> s = <<>>
<1>1. \A n \in DOMAIN s : s[n] \in S
  BY ElementOfSeq, LenProperties
<1>2. Len(s) \in Nat /\ DOMAIN s = 1..Len(s) /\ (s = <<>> <=> Len(s) = 0)
  BY LenProperties, EmptySeq
<1>3. Len(s) # 0 => 1 \in DOMAIN s
  BY <1>2
<1>4. Len(s) = 0 => DOMAIN s = {}
  BY <1>2
<1> QED BY <1>1, <1>2, <1>3, <1>4 DEF Msgs

LEMMA MsgsOfEmpty == Msgs(<<>>) = {}
BY DEF Msgs

LEMMA AppendMsgs ==
    ASSUME NEW S, NEW s \in Seq(S), NEW x \in S
    PROVE  /\ Append(s, x) \in Seq(S)
           /\ Append(s, x) # <<>>
           /\ Msgs(Append(s, x)) = Msgs(s) \union {x}
<1> DEFINE t == Append(s, x)
<1>1. /\ t \in Seq(S) /\ Len(t) = Len(s) + 1 /\ t[Len(s) + 1] = x
      /\ \A n \in 1..Len(s) : t[n] = s[n]
  BY AppendProperties
<1>2. Len(s) \in Nat /\ DOMAIN s = 1..Len(s) /\ DOMAIN t = 1..(Len(s) + 1)
  BY <1>1, LenProperties
<1>3. t # <<>>
  BY <1>1, <1>2, EmptySeq
<1>4. DOMAIN t = DOMAIN s \union {Len(s) + 1}
  BY <1>2
<1>5. \A n \in DOMAIN s : t[n] = s[n]
  BY <1>1, <1>2
<1>6. Msgs(t) = Msgs(s) \union {x}
  <2>1. ASSUME NEW m \in Msgs(t) PROVE m \in Msgs(s) \union {x}
    BY <2>1, <1>1, <1>4, <1>5 DEF Msgs
  <2>2. ASSUME NEW m \in Msgs(s) \union {x} PROVE m \in Msgs(t)
    BY <2>2, <1>1, <1>4, <1>5 DEF Msgs
  <2> QED BY <2>1, <2>2
<1> QED BY <1>1, <1>3, <1>6

LEMMA TailMsgs ==
    ASSUME NEW S, NEW s \in Seq(S), s # <<>>
    PROVE  /\ Tail(s) \in Seq(S)
           /\ Head(s) \in S
           /\ Msgs(s) = Msgs(Tail(s)) \union {Head(s)}
<1> DEFINE t == Tail(s)
<1>1. /\ Head(s) \in S /\ t \in Seq(S) /\ Len(t) = Len(s) - 1 /\ Head(s) = s[1]
      /\ \A n \in 1..Len(t) : t[n] = s[n + 1]
  BY HeadTailProperties
<1>2. Len(s) \in Nat /\ Len(s) # 0 /\ DOMAIN s = 1..Len(s) /\ DOMAIN t = 1..(Len(s) - 1)
  BY <1>1, LenProperties, EmptySeq
<1>3. ASSUME NEW m \in Msgs(s) PROVE m \in Msgs(t) \union {Head(s)}
  <2>1. PICK n \in DOMAIN s : m = s[n]
    BY DEF Msgs
  <2>2. CASE n = 1
    BY <2>1, <2>2, <1>1
  <2>3. CASE n # 1
    <3>1. n - 1 \in DOMAIN t /\ n - 1 \in 1..Len(t) /\ (n - 1) + 1 = n
      BY <2>3, <1>1, <1>2
    <3>2. t[n - 1] = s[n]
      BY <3>1, <1>1
    <3> QED BY <3>1, <3>2, <2>1 DEF Msgs
  <2> QED BY <2>2, <2>3
<1>4. ASSUME NEW m \in Msgs(t) \union {Head(s)} PROVE m \in Msgs(s)
  <2>1. CASE m = Head(s)
    BY <2>1, <1>1, <1>2 DEF Msgs
  <2>2. CASE m \in Msgs(t)
    <3>1. PICK n \in DOMAIN t : m = t[n]
      BY <2>2 DEF Msgs
    <3>2. n + 1 \in DOMAIN s /\ t[n] = s[n + 1]
      BY <1>1, <1>2
    <3> QED BY <3>1, <3>2 DEF Msgs
  <2> QED BY <1>4, <2>1, <2>2
<1> QED BY <1>1, <1>3, <1>4

LEMMA SubSeqMsgs ==
    ASSUME NEW S, NEW s \in Seq(S), NEW k \in 0..Len(s)
    PROVE  /\ SubSeq(s, k + 1, Len(s)) \in Seq(S)
           /\ Msgs(SubSeq(s, k + 1, Len(s))) \subseteq Msgs(s)
           /\ k > 0 => s[k] \in Msgs(s)
<1> DEFINE t == SubSeq(s, k + 1, Len(s))
<1>1. Len(s) \in Nat /\ DOMAIN s = 1..Len(s)
  BY LenProperties
<1>2. \A n \in (k + 1)..Len(s) : s[n] \in S
  BY <1>1, ElementOfSeq
<1>3. /\ t \in Seq(S)
      /\ Len(t) = IF k + 1 <= Len(s) THEN Len(s) - (k + 1) + 1 ELSE 0
      /\ \A n \in 1..(Len(s) - (k + 1) + 1) : t[n] = s[k + 1 + n - 1]
  BY <1>1, <1>2, SubSeqProperties
<1>4. ASSUME NEW m \in Msgs(t) PROVE m \in Msgs(s)
  <2>1. PICK n \in DOMAIN t : m = t[n]
    BY DEF Msgs
  <2>2. n \in 1..(Len(s) - (k + 1) + 1) /\ k + 1 + n - 1 \in DOMAIN s
    BY <1>1, <1>3, LenProperties
  <2> QED BY <2>1, <2>2, <1>3 DEF Msgs
<1>5. k > 0 => s[k] \in Msgs(s)
  BY <1>1 DEF Msgs
<1> QED BY <1>3, <1>4, <1>5

-----------------------------------------------------------------------------
(* Types *)

\* The constants, and the record sets that the messages belong to.
Notes == [exclude: {Identity(i) : i \in Engines}, wave: Waves]
Starts == [wave: Waves, exclude: Excluded]
Reports == [type: {"complete", "start"}, wave: Waves]
States == [wave: Waves, running: BOOLEAN]
EngineStates ==
  [wave: Waves, running: BOOLEAN, todo: Nat, paused: BOOLEAN, owesReply: BOOLEAN,
   steps: 0..SyncEvery - 1, unfinished: BOOLEAN, phase: {"loop", "pass", "sync"}]

LEMMA TypeUnfolded ==
    TypeOK <=> /\ eng \in [Engines -> EngineStates]
               /\ coord \in States
               /\ front \in [Fronts -> States]
               /\ firstReq \in [Fronts -> Seq(Engines)]
               /\ toEng \in [Fronts -> [Engines -> Seq(FrontMessages)]]
               /\ start \in [Engines -> Seq(Starts)]
               /\ fromFront \in [Fronts -> Seq(Notes)]
               /\ fromEng \in [Engines -> Seq(Reports)]
               /\ toFront \in [Fronts -> Seq(States)]
               /\ admin \in [state: {"resumed", "pausing", "paused"},
                             answered: SUBSET Engines]
               /\ left \in [requests: Nat, aborts: Nat, pauses: Nat]
BY DEF TypeOK, Notes, Starts, Reports, States, EngineStates

LEMMA TypeUnfoldedNext ==
    TypeOK' <=> /\ eng' \in [Engines -> EngineStates]
                /\ coord' \in States
                /\ front' \in [Fronts -> States]
                /\ firstReq' \in [Fronts -> Seq(Engines)]
                /\ toEng' \in [Fronts -> [Engines -> Seq(FrontMessages)]]
                /\ start' \in [Engines -> Seq(Starts)]
                /\ fromFront' \in [Fronts -> Seq(Notes)]
                /\ fromEng' \in [Engines -> Seq(Reports)]
                /\ toFront' \in [Fronts -> Seq(States)]
                /\ admin' \in [state: {"resumed", "pausing", "paused"},
                               answered: SUBSET Engines]
                /\ left' \in [requests: Nat, aborts: Nat, pauses: Nat]
BY DEF TypeOK, Notes, Starts, Reports, States, EngineStates

LEMMA InitType == Init => TypeOK
<1> SUFFICES ASSUME Init PROVE TypeOK
  OBVIOUS
<1>1. 0 \in 0..SyncEvery - 1
  BY DataParallelAssumption
<1>2. \A S : <<>> \in Seq(S)
  BY EmptySeq
<1>3. left \in [requests: Nat, aborts: Nat, pauses: Nat]
  BY DataParallelAssumption DEF Init
<1> QED BY <1>1, <1>2, <1>3, TypeUnfolded
        DEF Init, EngineStates, States, Waves

\* Taking a message from a front end: what is left is part of what was there.
LEMMA Received ==
    ASSUME TypeOK, NEW f \in Fronts, NEW i \in Engines, NEW type, Receive(f, i, type)
    PROVE  /\ toEng' \in [Fronts -> [Engines -> Seq(FrontMessages)]]
           /\ \A g \in Fronts, j \in Engines : Msgs(toEng'[g][j]) \subseteq Msgs(toEng[g][j])
           /\ Head(toEng[f][i]) \in Msgs(toEng[f][i])
           /\ Head(toEng[f][i]) \in FrontMessages
           /\ Head(toEng[f][i]).type = type
<1>1. toEng[f][i] \in Seq(FrontMessages) /\ toEng[f][i] # <<>>
  BY TypeUnfolded DEF Receive
<1>2. toEng' = [toEng EXCEPT ![f][i] = Tail(toEng[f][i])] /\ Head(toEng[f][i]).type = type
  BY DEF Receive
<1>3. /\ Tail(toEng[f][i]) \in Seq(FrontMessages)
      /\ Head(toEng[f][i]) \in FrontMessages
      /\ Msgs(toEng[f][i]) = Msgs(Tail(toEng[f][i])) \union {Head(toEng[f][i])}
  BY <1>1, TailMsgs
<1>4. \A g \in Fronts, j \in Engines :
        toEng'[g][j] = IF g = f /\ j = i THEN Tail(toEng[f][i]) ELSE toEng[g][j]
  BY <1>2, TypeUnfolded
<1>5. toEng' \in [Fronts -> [Engines -> Seq(FrontMessages)]]
  BY <1>2, <1>3, TypeUnfolded
<1> QED BY <1>2, <1>3, <1>4, <1>5

\* A front end sends a message to one engine.
LEMMA SentToEngine ==
    ASSUME TypeOK, NEW f \in Fronts, NEW i \in Engines, NEW m \in FrontMessages,
           toEng' = [toEng EXCEPT ![f][i] = Append(@, m)]
    PROVE  /\ toEng' \in [Fronts -> [Engines -> Seq(FrontMessages)]]
           /\ \A g \in Fronts, j \in Engines :
                Msgs(toEng'[g][j]) \subseteq Msgs(toEng[g][j]) \union {m}
<1>1. toEng[f][i] \in Seq(FrontMessages)
  BY TypeUnfolded
<1>2. /\ Append(toEng[f][i], m) \in Seq(FrontMessages)
      /\ Msgs(Append(toEng[f][i], m)) = Msgs(toEng[f][i]) \union {m}
  BY <1>1, AppendMsgs
<1>3. \A g \in Fronts, j \in Engines :
        toEng'[g][j] = IF g = f /\ j = i THEN Append(toEng[f][i], m) ELSE toEng[g][j]
  BY TypeUnfolded
<1>4. toEng' \in [Fronts -> [Engines -> Seq(FrontMessages)]]
  BY <1>2, TypeUnfolded
<1> QED BY <1>2, <1>3, <1>4

\* A front end sends a message to all engines.
LEMMA SentToAll ==
    ASSUME TypeOK, NEW f \in Fronts, NEW m \in FrontMessages,
           toEng' = [toEng EXCEPT ![f] = [i \in Engines |-> Append(@[i], m)]]
    PROVE  /\ toEng' \in [Fronts -> [Engines -> Seq(FrontMessages)]]
           /\ \A g \in Fronts, j \in Engines :
                Msgs(toEng'[g][j]) \subseteq Msgs(toEng[g][j]) \union {m}
<1> DEFINE row == [i \in Engines |-> Append(toEng[f][i], m)]
<1>1. \A i \in Engines : toEng[f][i] \in Seq(FrontMessages)
  BY TypeUnfolded
<1>2. \A i \in Engines : /\ row[i] \in Seq(FrontMessages)
                         /\ Msgs(row[i]) = Msgs(toEng[f][i]) \union {m}
  BY <1>1, AppendMsgs
<1>3. toEng' = [toEng EXCEPT ![f] = row]
  OBVIOUS
<1>4. row \in [Engines -> Seq(FrontMessages)]
  BY <1>2
<1> HIDE DEF row
<1>5. toEng' \in [Fronts -> [Engines -> Seq(FrontMessages)]]
  BY <1>3, <1>4, TypeUnfolded
<1>6. \A g \in Fronts, j \in Engines :
        toEng'[g][j] = IF g = f THEN row[j] ELSE toEng[g][j]
  BY <1>3, TypeUnfolded
<1> QED BY <1>2, <1>5, <1>6

\* An engine sends a message to the coordinator.
LEMMA Reported ==
    ASSUME TypeOK, NEW i \in Engines, NEW m \in Reports,
           fromEng' = [fromEng EXCEPT ![i] = Append(@, m)]
    PROVE  /\ fromEng' \in [Engines -> Seq(Reports)]
           /\ fromEng'[i] # <<>>
           /\ \A j \in Engines : Msgs(fromEng'[j]) =
                IF j = i THEN Msgs(fromEng[j]) \union {m} ELSE Msgs(fromEng[j])
<1>1. fromEng[i] \in Seq(Reports)
  BY TypeUnfolded
<1>2. /\ Append(fromEng[i], m) \in Seq(Reports) /\ Append(fromEng[i], m) # <<>>
      /\ Msgs(Append(fromEng[i], m)) = Msgs(fromEng[i]) \union {m}
  BY <1>1, AppendMsgs
<1> QED BY <1>2, TypeUnfolded

\* The coordinator takes a message of an engine.
LEMMA ReportTaken ==
    ASSUME TypeOK, NEW i \in Engines, fromEng[i] # <<>>,
           fromEng' = [fromEng EXCEPT ![i] = Tail(@)]
    PROVE  /\ fromEng' \in [Engines -> Seq(Reports)]
           /\ Head(fromEng[i]) \in Reports
           /\ \A j \in Engines : Msgs(fromEng[j]) =
                IF j = i THEN Msgs(fromEng'[j]) \union {Head(fromEng[j])}
                         ELSE Msgs(fromEng'[j])
<1>1. fromEng[i] \in Seq(Reports)
  BY TypeUnfolded
<1>2. /\ Tail(fromEng[i]) \in Seq(Reports) /\ Head(fromEng[i]) \in Reports
      /\ Msgs(fromEng[i]) = Msgs(Tail(fromEng[i])) \union {Head(fromEng[i])}
  BY <1>1, TailMsgs
<1> QED BY <1>2, TypeUnfolded

\* The coordinator tells all engines, or all front ends.
LEMMA WaveStarted ==
    ASSUME TypeOK, NEW w \in Waves, NEW e \in Excluded, SendStartWave(w, e)
    PROVE  /\ start' \in [Engines -> Seq(Starts)]
           /\ \A j \in Engines :
                Msgs(start'[j]) = Msgs(start[j]) \union {[wave |-> w, exclude |-> e]}
<1> DEFINE m == [wave |-> w, exclude |-> e]
<1>1. m \in Starts /\ \A j \in Engines : start[j] \in Seq(Starts)
  BY TypeUnfolded DEF Starts
<1> HIDE DEF m
<1>2. \A j \in Engines : /\ Append(start[j], m) \in Seq(Starts)
                         /\ Msgs(Append(start[j], m)) = Msgs(start[j]) \union {m}
  BY <1>1, AppendMsgs
<1>3. start' = [j \in Engines |-> Append(start[j], m)]
  BY DEF SendStartWave, m
<1> QED BY <1>2, <1>3 DEF m

LEMMA Published ==
    ASSUME TypeOK, NEW s \in States, PublishToFronts(s)
    PROVE  /\ toFront' \in [Fronts -> Seq(States)]
           /\ \A f \in Fronts : Msgs(toFront'[f]) = Msgs(toFront[f]) \union {s}
<1>1. \A f \in Fronts : toFront[f] \in Seq(States)
  BY TypeUnfolded
<1>2. \A f \in Fronts : /\ Append(toFront[f], s) \in Seq(States)
                        /\ Msgs(Append(toFront[f], s)) = Msgs(toFront[f]) \union {s}
  BY <1>1, AppendMsgs
<1> QED BY <1>2 DEF PublishToFronts

-----------------------------------------------------------------------------
(* What the steps do to the engines *)

LEMMA EngineFields ==
    ASSUME TypeOK, NEW i \in Engines
    PROVE  /\ eng[i] \in EngineStates
           /\ eng[i].wave \in Nat /\ eng[i].todo \in Nat
           /\ eng[i].steps \in 0..SyncEvery - 1
           /\ eng[i].running \in BOOLEAN /\ eng[i].paused \in BOOLEAN
           /\ eng[i].owesReply \in BOOLEAN /\ eng[i].unfinished \in BOOLEAN
           /\ eng[i].phase \in {"loop", "pass", "sync"}
BY TypeUnfolded DEF EngineStates, Waves

\* A step of one engine outside of the collective operations: its wave stays, unless a
\* message is ahead of it.
EngineMoves(i, wave, running, todo, paused, owes, phase) ==
  /\ eng' = [eng EXCEPT ![i] =
               [eng[i] EXCEPT !.wave = wave, !.running = running, !.todo = todo,
                              !.paused = paused, !.owesReply = owes, !.phase = phase]]
  /\ wave \in Nat /\ running \in BOOLEAN /\ todo \in Nat /\ paused \in BOOLEAN
  /\ owes \in BOOLEAN /\ phase \in {"loop", "pass"}

LEMMA EngineMoved ==
    ASSUME TypeOK, NEW i \in Engines, NEW wave, NEW running, NEW todo, NEW paused,
           NEW owes, NEW phase, EngineMoves(i, wave, running, todo, paused, owes, phase)
    PROVE  /\ eng' \in [Engines -> EngineStates]
           /\ \A j \in Engines \ {i} : eng'[j] = eng[j]
           /\ eng'[i].wave = wave /\ eng'[i].running = running /\ eng'[i].todo = todo
           /\ eng'[i].paused = paused /\ eng'[i].owesReply = owes
           /\ eng'[i].phase = phase /\ eng'[i].unfinished = eng[i].unfinished
<1> DEFINE e == [eng[i] EXCEPT !.wave = wave, !.running = running, !.todo = todo,
                               !.paused = paused, !.owesReply = owes, !.phase = phase]
<1>1. e \in EngineStates
  BY EngineFields DEF EngineMoves, EngineStates, Waves
<1>2. /\ e.wave = wave /\ e.running = running /\ e.todo = todo /\ e.paused = paused
      /\ e.owesReply = owes /\ e.phase = phase /\ e.unfinished = eng[i].unfinished
  BY EngineFields DEF EngineStates
<1>3. eng' = [eng EXCEPT ![i] = e]
  BY DEF EngineMoves
<1> HIDE DEF e
<1>4. eng \in [Engines -> EngineStates]
  BY TypeUnfolded
<1> QED BY <1>1, <1>2, <1>3, <1>4

\* The wave of a request that an engine takes.
LEMMA AddMessage ==
    ASSUME TypeOK, NEW f \in Fronts, NEW i \in Engines, Receive(f, i, "add")
    PROVE  Head(toEng[f][i]).wave \in Nat
<1>1. Head(toEng[f][i]) \in FrontMessages /\ Head(toEng[f][i]).type = "add"
  BY Received
<1> QED BY <1>1 DEF FrontMessages, Waves

LEMMA EngineSteps ==
    ASSUME TypeOK, NEW i \in Engines
    PROVE  /\ \A f \in Fronts : AddRequest(f, i) =>
                LET e == eng[i]
                    w == Head(toEng[f][i]).wave
                    stale == w < e.wave /\ ~e.running /\ ~e.paused
                IN  EngineMoves(i, IF w > e.wave THEN w ELSE e.wave, e.running \/ stale,
                                e.todo + 1, e.paused, e.owesReply, "loop")
           /\ \A f \in Fronts : AbortRequest(f, i) =>
                \E todo \in 0..eng[i].todo :
                  EngineMoves(i, eng[i].wave, eng[i].running, todo, eng[i].paused,
                              eng[i].owesReply, "loop")
           /\ StartWave(i) =>
                LET e == eng[i]
                    m == Head(start[i])
                    applies == StartApplies(i, m)
                IN  /\ m \in Starts
                    /\ EngineMoves(i, IF applies THEN m.wave ELSE e.wave,
                                   applies \/ e.running, e.todo, e.paused,
                                   e.owesReply, "loop")
           /\ EnterPass(i) =>
                /\ HasWork(eng[i])
                /\ EngineMoves(i, eng[i].wave, eng[i].running, eng[i].todo,
                               eng[i].paused, eng[i].owesReply, "pass")
           /\ IdleCallback(i) =>
                EngineMoves(i, eng[i].wave, eng[i].running, eng[i].todo,
                            eng[i].paused, FALSE, "loop")
           /\ Pause(i) =>
                EngineMoves(i, eng[i].wave, eng[i].running, eng[i].todo,
                            TRUE, eng[i].running, "loop")
           /\ Resume(i) =>
                EngineMoves(i, eng[i].wave, eng[i].running, eng[i].todo,
                            FALSE, eng[i].owesReply, "loop")
<1> DEFINE e == eng[i]
<1>e. eng \in [Engines -> EngineStates] /\ e \in EngineStates
  BY TypeUnfolded
<1>f. /\ e.wave \in Nat /\ e.todo \in Nat /\ e.running \in BOOLEAN /\ e.paused \in BOOLEAN
      /\ e.owesReply \in BOOLEAN /\ e.phase \in {"loop", "pass", "sync"}
  BY EngineFields
<1>1. ASSUME NEW f \in Fronts, AddRequest(f, i)
      PROVE  LET w == Head(toEng[f][i]).wave
                 stale == w < e.wave /\ ~e.running /\ ~e.paused
             IN  EngineMoves(i, IF w > e.wave THEN w ELSE e.wave, e.running \/ stale,
                             e.todo + 1, e.paused, e.owesReply, "loop")
  <2> DEFINE w == Head(toEng[f][i]).wave
             stale == w < e.wave /\ ~e.running /\ ~e.paused
             max == IF w > e.wave THEN w ELSE e.wave
             run == e.running \/ stale
  <2>1. w \in Nat /\ e.phase = "loop"
    BY <1>1, AddMessage DEF AddRequest, Receive
  <2>2. max \in Nat /\ run \in BOOLEAN /\ e.todo + 1 \in Nat
    BY <1>f, <2>1
  <2>3. eng' = [eng EXCEPT ![i].todo = e.todo + 1, ![i].wave = max, ![i].running = run]
    BY <1>1, <1>e DEF AddRequest
  <2> HIDE DEF max, run
  <2>4. eng' = [eng EXCEPT ![i] =
                  [e EXCEPT !.wave = max, !.running = run, !.todo = e.todo + 1,
                            !.paused = e.paused, !.owesReply = e.owesReply,
                            !.phase = "loop"]]
    BY <1>e, <2>1, <2>3 DEF EngineStates
  <2>5. EngineMoves(i, max, run, e.todo + 1, e.paused, e.owesReply, "loop")
    BY <1>f, <2>2, <2>4 DEF EngineMoves
  <2> QED BY <2>5 DEF max, run
<1>2. ASSUME NEW f \in Fronts, AbortRequest(f, i)
      PROVE  \E todo \in 0..e.todo :
               EngineMoves(i, e.wave, e.running, todo, e.paused, e.owesReply, "loop")
  <2> DEFINE todo == IF e.todo > 0 THEN e.todo - 1 ELSE 0
  <2>1. todo \in 0..e.todo /\ todo \in Nat
    BY <1>f
  <2>2. e.phase = "loop" /\ eng' = [eng EXCEPT ![i].todo = todo]
    BY <1>2, <1>e DEF AbortRequest, Receive
  <2> HIDE DEF todo
  <2>3. eng' = [eng EXCEPT ![i] =
                  [e EXCEPT !.wave = e.wave, !.running = e.running, !.todo = todo,
                            !.paused = e.paused, !.owesReply = e.owesReply,
                            !.phase = "loop"]]
    BY <1>e, <2>2 DEF EngineStates
  <2> QED BY <1>f, <2>1, <2>3 DEF EngineMoves
<1>3. ASSUME StartWave(i)
      PROVE  LET m == Head(start[i])
                 applies == StartApplies(i, m)
             IN  /\ m \in Starts
                 /\ EngineMoves(i, IF applies THEN m.wave ELSE e.wave,
                                applies \/ e.running, e.todo, e.paused,
                                e.owesReply, "loop")
  <2> DEFINE m == Head(start[i])
             applies == StartApplies(i, m)
             wave == IF applies THEN m.wave ELSE e.wave
             run == applies \/ e.running
  <2>1. m \in Starts
    <3>1. start[i] \in Seq(Starts) /\ start[i] # <<>>
      BY <1>3, TypeUnfolded DEF StartWave
    <3> QED BY <3>1, TailMsgs
  <2>2. m.wave \in Nat /\ e.phase = "loop"
    BY <1>3, <2>1 DEF Starts, Waves, StartWave
  <2>3. wave \in Nat /\ run \in BOOLEAN
    BY <1>f, <2>2
  <2>4. eng' = [eng EXCEPT ![i].wave = wave, ![i].running = run]
    <3>1. CASE applies
      BY <1>3, <3>1 DEF StartWave
    <3>2. CASE ~applies
      <4>1. eng' = eng /\ wave = e.wave /\ (run <=> e.running)
        BY <1>3, <3>2 DEF StartWave
      <4> HIDE DEF wave, run
      <4>2. run = e.running
        BY <1>f, <2>3, <4>1
      <4> QED BY <1>e, <4>1, <4>2 DEF EngineStates
    <3> QED BY <3>1, <3>2
  <2> HIDE DEF wave, run
  <2>5. EngineMoves(i, wave, run, e.todo, e.paused, e.owesReply, "loop")
    BY <1>e, <1>f, <2>2, <2>3, <2>4 DEF EngineMoves, EngineStates
  <2> QED BY <2>1, <2>5 DEF wave, run
<1>4. ASSUME EnterPass(i)
      PROVE  HasWork(e) /\ EngineMoves(i, e.wave, e.running, e.todo, e.paused,
                                       e.owesReply, "pass")
  BY <1>4, <1>e, <1>f DEF EnterPass, EngineMoves, EngineStates
<1>5. ASSUME IdleCallback(i)
      PROVE  EngineMoves(i, e.wave, e.running, e.todo, e.paused, FALSE, "loop")
  BY <1>5, <1>e, <1>f DEF IdleCallback, EngineMoves, EngineStates
<1>6. ASSUME Pause(i)
      PROVE  EngineMoves(i, e.wave, e.running, e.todo, TRUE, e.running, "loop")
  <2>1. e.phase = "loop" /\ eng' = [eng EXCEPT ![i].paused = TRUE,
                                               ![i].owesReply = e.running]
    BY <1>6 DEF Pause, Receive
  <2> QED BY <2>1, <1>e, <1>f DEF EngineMoves, EngineStates
<1>7. ASSUME Resume(i)
      PROVE  EngineMoves(i, e.wave, e.running, e.todo, FALSE, e.owesReply, "loop")
  BY <1>7, <1>e, <1>f DEF Resume, Receive, EngineMoves, EngineStates
<1> QED BY <1>1, <1>2, <1>3, <1>4, <1>5, <1>6, <1>7

\* A forward pass and an all-reduce change all engines alike.
LEMMA PassCompleted ==
    ASSUME TypeOK, CompletePass
    PROVE  /\ eng' \in [Engines -> EngineStates]
           /\ \A i \in Engines :
                /\ eng[i].phase = "pass"
                /\ eng'[i].wave = eng[i].wave
                /\ eng'[i].paused = eng[i].paused
                /\ eng'[i].owesReply = eng[i].owesReply
                /\ eng[i].running => eng'[i].running
                /\ eng'[i].unfinished <=> eng'[i].todo > 0 /\ ~eng[i].paused
<1> SUFFICES ASSUME NEW i \in Engines
             PROVE  LET e == eng[i]
                        a == AfterPass(e) IN
                    /\ a \in EngineStates /\ a.wave = e.wave /\ a.paused = e.paused
                    /\ a.owesReply = e.owesReply /\ (e.running => a.running)
                    /\ a.unfinished <=> a.todo > 0 /\ ~e.paused
  BY DEF CompletePass
<1> DEFINE e == eng[i]
           steps == (e.steps + 1) % SyncEvery
           todo == IF HasUnfinished(e) THEN e.todo - 1 ELSE e.todo
           unfinished == todo > 0 /\ ~e.paused
           running == IF steps = 0 THEN e.running ELSE TRUE
           phase == IF steps = 0 THEN "sync" ELSE "loop"
<1>1. e \in EngineStates
  BY EngineFields
<1>2. steps \in 0..SyncEvery - 1
  BY EngineFields, DataParallelAssumption
<1>3. todo \in Nat
  BY EngineFields DEF HasUnfinished
<1>4. unfinished \in BOOLEAN /\ running \in BOOLEAN /\ phase \in {"loop", "pass", "sync"}
  BY EngineFields
<1>5. AfterPass(e) = [e EXCEPT !.todo = todo, !.steps = steps, !.unfinished = unfinished,
                               !.running = running, !.phase = phase]
  BY DEF AfterPass
<1>6. e.running => running
  OBVIOUS
<1>7. unfinished <=> todo > 0 /\ ~e.paused
  OBVIOUS
<1> HIDE DEF steps, todo, unfinished, running, phase
<1>8. AfterPass(e) \in EngineStates
  BY <1>1, <1>2, <1>3, <1>4, <1>5 DEF EngineStates
<1> QED BY <1>1, <1>5, <1>6, <1>7, <1>8 DEF EngineStates

LEMMA SyncCompleted ==
    ASSUME TypeOK, CompleteSync
    PROVE  LET more == \E i \in Engines : eng[i].unfinished IN
           /\ eng' \in [Engines -> EngineStates]
           /\ \A i \in Engines :
                /\ eng[i].phase = "sync" /\ eng'[i].phase = "loop"
                /\ eng'[i].wave = IF more THEN eng[i].wave ELSE eng[i].wave + 1
                /\ eng'[i].running = more
                /\ eng'[i].todo = eng[i].todo
                /\ eng'[i].paused = eng[i].paused
                /\ eng'[i].owesReply = eng[i].owesReply
<1> DEFINE more == \E i \in Engines : eng[i].unfinished
<1>1. /\ \A i \in Engines : eng[i].phase = "sync"
      /\ eng' = [i \in Engines |->
                   [eng[i] EXCEPT !.phase = "loop", !.running = more,
                                  !.wave = IF more THEN eng[i].wave ELSE eng[i].wave + 1]]
  BY DEF CompleteSync
<1>2. more \in BOOLEAN
  OBVIOUS
<1> HIDE DEF more
<1>3. ASSUME NEW i \in Engines
      PROVE  eng[i] \in EngineStates /\ eng[i].wave \in Nat /\ eng[i].wave + 1 \in Nat
  BY EngineFields
<1> QED BY <1>1, <1>2, <1>3 DEF more, EngineStates, Waves

\* The stats task of a front end: what it knows comes from a message of the
\* coordinator, or it has just told the coordinator of a request.
LEMMA FrontTaskDone ==
    ASSUME TypeOK, NEW f \in Fronts, FrontTask(f)
    PROVE  /\ firstReq' \in [Fronts -> Seq(Engines)]
           /\ fromFront' \in [Fronts -> Seq(Notes)]
           /\ front' \in [Fronts -> States]
           /\ toFront' \in [Fronts -> Seq(States)]
           /\ \A g \in Fronts \ {f} : front'[g] = front[g]
           /\ \A g \in Fronts : Msgs(toFront'[g]) \subseteq Msgs(toFront[g])
           /\ \/ front'[f] \in Msgs(toFront[f])
              \/ front'[f].wave = front[f].wave /\ fromFront'[f] # <<>>
           /\ (\E g \in Fronts : firstReq[g] # <<>> \/ fromFront[g] # <<>>)
                => \E g \in Fronts : firstReq'[g] # <<>> \/ fromFront'[g] # <<>>
<1> DEFINE First(k) == firstReq[f] # <<>> /\ (k = 0 \/ ~front[f].running)
           note == [exclude |-> Identity(Head(firstReq[f])), wave |-> front[f].wave]
<1>1. PICK k \in 0..Len(toFront[f]) :
        /\ k > 0 \/ First(k)
        /\ firstReq' = IF First(k) THEN [firstReq EXCEPT ![f] = Tail(@)] ELSE firstReq
        /\ fromFront' = IF First(k) THEN [fromFront EXCEPT ![f] = Append(@, note)]
                        ELSE fromFront
        /\ front' = [front EXCEPT ![f] =
                       IF k > 0 THEN toFront[f][k] ELSE [@ EXCEPT !.running = TRUE]]
        /\ toFront' = [toFront EXCEPT ![f] = SubSeq(@, k + 1, Len(@))]
  BY DEF FrontTask
<1>t. /\ front \in [Fronts -> States] /\ firstReq \in [Fronts -> Seq(Engines)]
      /\ fromFront \in [Fronts -> Seq(Notes)] /\ toFront \in [Fronts -> Seq(States)]
      /\ toFront[f] \in Seq(States) /\ firstReq[f] \in Seq(Engines)
      /\ fromFront[f] \in Seq(Notes) /\ front[f] \in States
  BY TypeUnfolded
<1>2. /\ SubSeq(toFront[f], k + 1, Len(toFront[f])) \in Seq(States)
      /\ Msgs(SubSeq(toFront[f], k + 1, Len(toFront[f]))) \subseteq Msgs(toFront[f])
      /\ k > 0 => toFront[f][k] \in Msgs(toFront[f])
  BY <1>t, SubSeqMsgs
<1>3. /\ toFront' \in [Fronts -> Seq(States)]
      /\ \A g \in Fronts : Msgs(toFront'[g]) \subseteq Msgs(toFront[g])
  BY <1>1, <1>2, <1>t
<1>4. First(k) => /\ Tail(firstReq[f]) \in Seq(Engines) /\ Head(firstReq[f]) \in Engines
  BY <1>t, TailMsgs
<1>5. First(k) => /\ note \in Notes
                  /\ Append(fromFront[f], note) \in Seq(Notes)
                  /\ Append(fromFront[f], note) # <<>>
  <2> SUFFICES ASSUME First(k) PROVE note \in Notes
    BY <1>t, AppendMsgs
  <2> QED BY <1>4, <1>t DEF Notes, States
<1>6. front' \in [Fronts -> States] /\ \A g \in Fronts \ {f} : front'[g] = front[g]
  <2>1. k > 0 => toFront[f][k] \in States
    BY <1>2, <1>t, MsgsType
  <2>2. [front[f] EXCEPT !.running = TRUE] \in States
    BY <1>t DEF States
  <2> QED BY <1>1, <1>t, <2>1, <2>2
<1> HIDE DEF note
<1>7. firstReq' \in [Fronts -> Seq(Engines)] /\ fromFront' \in [Fronts -> Seq(Notes)]
  BY <1>1, <1>4, <1>5, <1>t
<1>8. \/ front'[f] \in Msgs(toFront[f])
      \/ front'[f].wave = front[f].wave /\ fromFront'[f] # <<>>
  <2>1. CASE k > 0
    BY <2>1, <1>1, <1>2, <1>t
  <2>2. CASE ~(k > 0)
    <3>1. First(k)
      BY <2>2, <1>1
    <3>2. front'[f] = [front[f] EXCEPT !.running = TRUE]
      BY <2>2, <1>1, <1>t
    <3>3. fromFront'[f] = Append(fromFront[f], note)
      BY <3>1, <1>1, <1>t
    <3> QED BY <3>1, <3>2, <3>3, <1>5, <1>t DEF States
  <2> QED BY <2>1, <2>2
<1>9. (\E g \in Fronts : firstReq[g] # <<>> \/ fromFront[g] # <<>>)
        => \E g \in Fronts : firstReq'[g] # <<>> \/ fromFront'[g] # <<>>
  <2>1. CASE First(k)
    <3>1. fromFront'[f] = Append(fromFront[f], note)
      BY <2>1, <1>1, <1>t
    <3> QED BY <2>1, <3>1, <1>5
  <2>2. CASE ~First(k)
    BY <2>2, <1>1
  <2> QED BY <2>1, <2>2
<1> QED BY <1>3, <1>6, <1>7, <1>8, <1>9

\* The coordinator takes a note of a front end.
LEMMA NoteTaken ==
    ASSUME TypeOK, NEW f \in Fronts, fromFront[f] # <<>>,
           fromFront' = [fromFront EXCEPT ![f] = Tail(@)]
    PROVE  fromFront' \in [Fronts -> Seq(Notes)] /\ Head(fromFront[f]) \in Notes
<1>1. fromFront[f] \in Seq(Notes)
  BY TypeUnfolded
<1>2. Tail(fromFront[f]) \in Seq(Notes) /\ Head(fromFront[f]) \in Notes
  BY <1>1, TailMsgs
<1> QED BY <1>2, TypeUnfolded

-----------------------------------------------------------------------------
(* The waves are consistent *)

LEMMA CoordType ==
    ASSUME TypeOK
    PROVE  /\ coord.wave \in Nat /\ coord.running \in BOOLEAN /\ coord \in States
           /\ \A f \in Fronts : front[f].wave \in Nat /\ front[f] \in States
           /\ 0 \in Engines /\ eng[0].wave \in Nat
BY TypeUnfolded, EngineFields, DataParallelAssumption DEF States, Waves

\* The waves of the messages under way are numbers.
LEMMA MsgFields ==
    ASSUME TypeOK
    PROVE  /\ \A f \in Fronts, i \in Engines : \A m \in Msgs(toEng[f][i]) :
                m.type = "add" => m.wave \in Nat
           /\ \A i \in Engines : \A m \in Msgs(start[i]) :
                m.wave \in Nat /\ m.exclude \in Excluded
           /\ \A f \in Fronts : \A m \in Msgs(toFront[f]) :
                m.wave \in Nat /\ m.running \in BOOLEAN
           /\ \A i \in Engines : \A m \in Msgs(fromEng[i]) :
                m.wave \in Nat /\ m.type \in {"complete", "start"}
<1>1. /\ \A f \in Fronts, i \in Engines : toEng[f][i] \in Seq(FrontMessages)
      /\ \A i \in Engines : start[i] \in Seq(Starts) /\ fromEng[i] \in Seq(Reports)
      /\ \A f \in Fronts : toFront[f] \in Seq(States)
  BY TypeUnfolded
<1>2. /\ \A f \in Fronts, i \in Engines : Msgs(toEng[f][i]) \subseteq FrontMessages
      /\ \A i \in Engines : Msgs(start[i]) \subseteq Starts /\ Msgs(fromEng[i]) \subseteq Reports
      /\ \A f \in Fronts : Msgs(toFront[f]) \subseteq States
  BY <1>1, MsgsType
<1> QED BY <1>2 DEF FrontMessages, Starts, Reports, States, Waves

LEMMA InitWaves == Init => WaveInv
<1> SUFFICES ASSUME Init PROVE WaveInv
  OBVIOUS
<1>1. TypeOK
  BY InitType
<1>2. /\ \A f \in Fronts, i \in Engines : Msgs(toEng[f][i]) = {}
      /\ \A i \in Engines : Msgs(start[i]) = {} /\ Msgs(fromEng[i]) = {}
      /\ \A f \in Fronts : Msgs(toFront[f]) = {}
  BY MsgsOfEmpty DEF Init
<1>3. WavesAgree
  BY DataParallelAssumption DEF Init, WavesAgree
<1> QED BY <1>1, <1>2, <1>3 DEF WaveInv, MessagesLag

\* Messages of front ends to engines.
LEMMA WavesSendRequest ==
    ASSUME WaveInv, NEW f \in Fronts, NEW i \in Engines, SendRequest(f, i)
    PROVE  WaveInv'
<1> DEFINE m == [type |-> "add", wave |-> front[f].wave]
<1>t. TypeOK
  BY DEF WaveInv
<1>1. m \in FrontMessages /\ m.wave <= coord.wave /\ m.type = "add"
  BY <1>t, CoordType DEF FrontMessages, Waves, WaveInv, WavesAgree
<1>2. toEng' = [toEng EXCEPT ![f][i] = Append(@, m)]
  BY DEF SendRequest
<1> HIDE DEF m
<1>3. /\ toEng' \in [Fronts -> [Engines -> Seq(FrontMessages)]]
      /\ \A g \in Fronts, j \in Engines :
           Msgs(toEng'[g][j]) \subseteq Msgs(toEng[g][j]) \union {m}
  BY <1>t, <1>1, <1>2, SentToEngine
<1>4. firstReq' \in [Fronts -> Seq(Engines)]
  <2>1. firstReq[f] \in Seq(Engines)
    BY <1>t, TypeUnfolded
  <2>2. Append(firstReq[f], i) \in Seq(Engines)
    BY <2>1, AppendMsgs
  <2>3. firstReq \in [Fronts -> Seq(Engines)]
    BY <1>t, TypeUnfolded
  <2> QED BY <2>2, <2>3 DEF SendRequest
<1>5. left' \in [requests: Nat, aborts: Nat, pauses: Nat]
  <2>1. left.requests > 0 /\ left' = [left EXCEPT !.requests = left.requests - 1]
    BY DEF SendRequest
  <2>2. left \in [requests: Nat, aborts: Nat, pauses: Nat]
    BY <1>t, TypeUnfolded
  <2> QED BY <2>1, <2>2
<1>6. UNCHANGED <<eng, coord, front, start, fromFront, fromEng, toFront, admin>>
  BY DEF SendRequest
<1>7. TypeOK'
  BY <1>t, <1>3, <1>4, <1>5, <1>6, TypeUnfolded, TypeUnfoldedNext
<1>8. WavesAgree'
  BY <1>6 DEF WaveInv, WavesAgree
<1>9. MessagesLag'
  <2>1. \A g \in Fronts, j \in Engines : \A n \in Msgs(toEng[g][j])' :
          n.type = "add" => n.wave <= coord.wave
    BY <1>1, <1>3 DEF WaveInv, MessagesLag
  <2> QED BY <1>6, <2>1 DEF WaveInv, MessagesLag, Msgs
<1> QED BY <1>7, <1>8, <1>9 DEF WaveInv

\* A step after which no wave is another, and which adds no message but a control
\* message or the request of an engine to start its wave.
LEMMA WavesKept ==
    ASSUME WaveInv, TypeOK', coord' = coord, front' = front,
           \A i \in Engines : eng'[i].wave = eng[i].wave,
           \A f \in Fronts, i \in Engines : \A m \in Msgs(toEng'[f][i]) :
             m.type = "add" => m \in Msgs(toEng[f][i]),
           \A i \in Engines : Msgs(start'[i]) \subseteq Msgs(start[i]),
           \A f \in Fronts : Msgs(toFront'[f]) \subseteq Msgs(toFront[f]),
           \A i \in Engines : \A m \in Msgs(fromEng'[i]) :
             m \in Msgs(fromEng[i]) \/ (m.type = "start" /\ m.wave = eng[i].wave)
    PROVE  WaveInv'
<1>1. TypeOK /\ WavesAgree /\ MessagesLag
  BY DEF WaveInv
<1>2. 0 \in Engines /\ \A i \in Engines : eng[i].wave = eng[0].wave /\ eng[i].wave \in Nat
  BY <1>1, EngineFields, CoordType DEF WavesAgree
<1>3. WavesAgree'
  BY <1>1, <1>2 DEF WavesAgree
<1>4. MessagesLag'
  <2>1. \A f \in Fronts, i \in Engines : \A m \in Msgs(toEng'[f][i]) :
          m.type = "add" => m.wave <= coord.wave
    BY <1>1 DEF MessagesLag
  <2>2. \A i \in Engines : \A m \in Msgs(start'[i]) : m.wave <= coord.wave
    BY <1>1 DEF MessagesLag
  <2>3. \A f \in Fronts : \A m \in Msgs(toFront'[f]) : m.wave <= coord.wave
    BY <1>1 DEF MessagesLag
  <2>4. \A i \in Engines : \A m \in Msgs(fromEng'[i]) :
          m.wave <= eng[0].wave /\ (m.type = "complete" => m.wave < eng[0].wave)
    BY <1>1, <1>2 DEF MessagesLag
  <2>5. eng'[0].wave = eng[0].wave
    BY <1>2
  <2> QED BY <2>1, <2>2, <2>3, <2>4, <2>5 DEF MessagesLag, Msgs
<1> QED BY <1>3, <1>4 DEF WaveInv

\* Aborts, pauses and resumptions that a front end sends.
LEMMA WavesControlSent ==
    ASSUME WaveInv,
           \/ \E f \in Fronts, i \in Engines : SendAbort(f, i)
           \/ SendPause \/ SendResume
    PROVE  WaveInv'
<1>t. TypeOK
  BY DEF WaveInv
<1>1. UNCHANGED <<eng, coord, front, firstReq, start, fromFront, fromEng, toFront>>
  BY DEF SendAbort, SendPause, SendResume
<1>2. /\ admin \in [state: {"resumed", "pausing", "paused"}, answered: SUBSET Engines]
      /\ left \in [requests: Nat, aborts: Nat, pauses: Nat]
  BY <1>t, TypeUnfolded
<1> DEFINE Sent(m) ==
             /\ toEng' \in [Fronts -> [Engines -> Seq(FrontMessages)]]
             /\ \A g \in Fronts, j \in Engines :
                  Msgs(toEng'[g][j]) \subseteq Msgs(toEng[g][j]) \union {m}
<1>3. \A type \in {"abort", "pause", "resume"} : [type |-> type] \in FrontMessages
  BY DEF FrontMessages
<1>4. PICK type \in {"abort", "pause", "resume"} : Sent([type |-> type])
  <2>1. CASE \E f \in Fronts, i \in Engines : SendAbort(f, i)
    <3>1. PICK f \in Fronts, i \in Engines :
            toEng' = [toEng EXCEPT ![f][i] = Append(@, [type |-> "abort"])]
      BY <2>1 DEF SendAbort
    <3>2. Sent([type |-> "abort"])
      BY <1>t, <1>3, <3>1, SentToEngine
    <3> QED BY <3>2
  <2>2. CASE SendPause
    <3>1. Sent([type |-> "pause"])
      BY <1>t, <1>3, <2>2, SentToAll, DataParallelAssumption DEF SendPause
    <3> QED BY <3>1
  <2>3. CASE SendResume
    <3>1. Sent([type |-> "resume"])
      BY <1>t, <1>3, <2>3, SentToAll, DataParallelAssumption DEF SendResume
    <3> QED BY <3>1
  <2> QED BY <2>1, <2>2, <2>3
<1>5. \A f \in Fronts, i \in Engines : \A m \in Msgs(toEng'[f][i]) :
        m.type = "add" => m \in Msgs(toEng[f][i])
  BY <1>4
<1>6. /\ admin' \in [state: {"resumed", "pausing", "paused"}, answered: SUBSET Engines]
      /\ left' \in [requests: Nat, aborts: Nat, pauses: Nat]
  <2>1. CASE \E f \in Fronts, i \in Engines : SendAbort(f, i)
    <3>1. admin' = admin /\ left.aborts > 0
          /\ left' = [left EXCEPT !.aborts = left.aborts - 1]
      BY <2>1 DEF SendAbort
    <3> QED BY <1>2, <3>1
  <2>2. CASE SendPause
    <3>1. admin' = [state |-> "pausing", answered |-> {}] /\ left.pauses > 0
          /\ left' = [left EXCEPT !.pauses = left.pauses - 1]
      BY <2>2 DEF SendPause
    <3> QED BY <1>2, <3>1
  <2>3. CASE SendResume
    <3>1. admin' = [admin EXCEPT !.state = "resumed"] /\ left' = left
      BY <2>3 DEF SendResume
    <3> QED BY <1>2, <3>1
  <2> QED BY <2>1, <2>2, <2>3
<1>7. TypeOK'
  BY <1>t, <1>1, <1>4, <1>6, TypeUnfolded, TypeUnfoldedNext
<1> QED BY <1>1, <1>5, <1>7, WavesKept

LEMMA WavesFrontTask ==
    ASSUME WaveInv, NEW f \in Fronts, FrontTask(f)
    PROVE  WaveInv'
<1>t. TypeOK /\ WavesAgree /\ MessagesLag
  BY DEF WaveInv
<1>1. UNCHANGED <<eng, coord, toEng, start, fromEng, admin, left>>
  BY DEF FrontTask
<1>2. TypeOK'
  BY <1>t, <1>1, FrontTaskDone, TypeUnfolded, TypeUnfoldedNext
<1>3. WavesAgree'
  <2>1. front'[f].wave <= coord.wave
    BY <1>t, FrontTaskDone DEF WavesAgree, MessagesLag
  <2>2. \A g \in Fronts \ {f} : front'[g] = front[g]
    BY <1>t, FrontTaskDone
  <2>3. \A g \in Fronts : front'[g].wave <= coord.wave
    BY <1>t, <2>1, <2>2 DEF WavesAgree
  <2> QED BY <1>t, <1>1, <2>3 DEF WavesAgree
<1>4. MessagesLag'
  <2>1. \A g \in Fronts : \A m \in Msgs(toFront'[g]) : m.wave <= coord.wave
    BY <1>t, FrontTaskDone DEF MessagesLag
  <2> QED BY <1>t, <1>1, <2>1 DEF MessagesLag, Msgs
<1> QED BY <1>2, <1>3, <1>4 DEF WaveInv

\* A step of the coordinator: its own wave may grow up to that of the engines; what it
\* sends carries its wave.
LEMMA WavesCoordinator ==
    ASSUME WaveInv, TypeOK', UNCHANGED <<eng, front, toEng>>,
           coord.wave <= coord'.wave, coord'.wave <= eng[0].wave,
           \A i \in Engines : \A m \in Msgs(start'[i]) :
             m \in Msgs(start[i]) \/ m.wave = coord'.wave,
           \A f \in Fronts : \A m \in Msgs(toFront'[f]) :
             m \in Msgs(toFront[f]) \/ m.wave = coord'.wave,
           \A i \in Engines : Msgs(fromEng'[i]) \subseteq Msgs(fromEng[i])
    PROVE  WaveInv'
<1>t. TypeOK /\ WavesAgree /\ MessagesLag
  BY DEF WaveInv
<1>1. coord.wave \in Nat /\ coord'.wave \in Nat /\ \A f \in Fronts : front[f].wave \in Nat
  BY <1>t, CoordType, TypeUnfoldedNext DEF States, Waves
<1>2. WavesAgree'
  BY <1>t, <1>1 DEF WavesAgree
<1>3. \A f \in Fronts, i \in Engines : \A m \in Msgs(toEng[f][i]) :
        m.type = "add" => m.wave <= coord'.wave
  BY <1>t, <1>1, MsgFields DEF MessagesLag
<1>4. \A i \in Engines : \A m \in Msgs(start'[i]) : m.wave <= coord'.wave
  BY <1>t, <1>1, MsgFields DEF MessagesLag
<1>5. \A f \in Fronts : \A m \in Msgs(toFront'[f]) : m.wave <= coord'.wave
  BY <1>t, <1>1, MsgFields DEF MessagesLag
<1>6. \A i \in Engines : \A m \in Msgs(fromEng'[i]) :
        m.wave <= eng[0].wave /\ (m.type = "complete" => m.wave < eng[0].wave)
  BY <1>t DEF MessagesLag
<1>7. MessagesLag'
  BY <1>3, <1>4, <1>5, <1>6 DEF MessagesLag, Msgs
<1> QED BY <1>2, <1>7 DEF WaveInv

LEMMA WavesFirstReq ==
    ASSUME WaveInv, NEW f \in Fronts, CoordinatorFirstReq(f)
    PROVE  WaveInv'
<1>t. TypeOK /\ WavesAgree
  BY DEF WaveInv
<1>1. /\ fromFront[f] # <<>> /\ fromFront' = [fromFront EXCEPT ![f] = Tail(@)]
      /\ UNCHANGED <<eng, front, firstReq, toEng, fromEng, admin, left>>
  BY DEF CoordinatorFirstReq
<1>2. fromFront' \in [Fronts -> Seq(Notes)] /\ Head(fromFront[f]) \in Notes
  BY <1>t, <1>1, NoteTaken
<1>3. coord.wave \in Nat /\ coord \in States /\ eng[0].wave \in Nat
  BY <1>t, CoordType
<1>4. CASE coord.running
  <2>1. UNCHANGED <<coord, start, toFront>>
    BY <1>4 DEF CoordinatorFirstReq
  <2>2. TypeOK'
    BY <1>t, <1>1, <1>2, <2>1, TypeUnfolded, TypeUnfoldedNext
  <2> QED BY <1>t, <1>1, <1>3, <2>1, <2>2, WavesCoordinator DEF WavesAgree
<1>5. CASE ~coord.running
  <2> DEFINE e == IF Head(fromFront[f]).wave < coord.wave THEN Nobody
                  ELSE Head(fromFront[f]).exclude
  <2>1. coord' = [coord EXCEPT !.running = TRUE] /\ SendStartWave(coord.wave, e)
        /\ PublishToFronts(coord')
    BY <1>5 DEF CoordinatorFirstReq
  <2>2. e \in Excluded
    BY <1>2 DEF Notes, Excluded
  <2>3. coord' \in States /\ coord'.wave = coord.wave
    BY <1>3, <2>1 DEF States
  <2> HIDE DEF e
  <2>4. /\ start' \in [Engines -> Seq(Starts)]
        /\ \A j \in Engines : Msgs(start'[j]) =
             Msgs(start[j]) \union {[wave |-> coord.wave, exclude |-> e]}
    BY <1>t, <1>3, <2>1, <2>2, WaveStarted DEF Waves
  <2>5. /\ toFront' \in [Fronts -> Seq(States)]
        /\ \A g \in Fronts : Msgs(toFront'[g]) = Msgs(toFront[g]) \union {coord'}
    BY <1>t, <2>1, <2>3, Published
  <2>6. TypeOK'
    BY <1>t, <1>1, <1>2, <2>3, <2>4, <2>5, TypeUnfolded, TypeUnfoldedNext
  <2> QED BY <1>t, <1>1, <1>3, <2>3, <2>4, <2>5, <2>6, WavesCoordinator DEF WavesAgree
<1> QED BY <1>4, <1>5

LEMMA WavesWaveComplete ==
    ASSUME WaveInv, CoordinatorWaveComplete
    PROVE  WaveInv'
<1>t. TypeOK /\ WavesAgree /\ MessagesLag
  BY DEF WaveInv
<1> DEFINE m == Head(fromEng[0])
<1>1. /\ fromEng[0] # <<>> /\ m.type = "complete"
      /\ fromEng' = [fromEng EXCEPT ![0] = Tail(@)]
      /\ UNCHANGED <<eng, front, firstReq, toEng, start, fromFront, admin, left>>
  BY DEF CoordinatorWaveComplete
<1>2. coord.wave \in Nat /\ coord \in States /\ eng[0].wave \in Nat /\ 0 \in Engines
  BY <1>t, CoordType
<1>3. /\ fromEng' \in [Engines -> Seq(Reports)] /\ m \in Reports /\ m \in Msgs(fromEng[0])
      /\ \A j \in Engines : Msgs(fromEng'[j]) \subseteq Msgs(fromEng[j])
  BY <1>t, <1>1, <1>2, ReportTaken
<1>4. m.wave \in Nat /\ m.wave < eng[0].wave
  BY <1>t, <1>1, <1>2, <1>3 DEF MessagesLag, Reports, Waves
<1>5. CASE coord.wave <= m.wave
  <2>1. coord' = [wave |-> m.wave + 1, running |-> FALSE] /\ PublishToFronts(coord')
    BY <1>5 DEF CoordinatorWaveComplete
  <2>2. /\ coord' \in States /\ coord'.wave = m.wave + 1
        /\ coord.wave <= coord'.wave /\ coord'.wave <= eng[0].wave
    BY <1>2, <1>4, <1>5, <2>1 DEF States, Waves
  <2>3. /\ toFront' \in [Fronts -> Seq(States)]
        /\ \A g \in Fronts : Msgs(toFront'[g]) = Msgs(toFront[g]) \union {coord'}
    BY <1>t, <2>1, <2>2, Published
  <2>4. TypeOK'
    BY <1>t, <1>1, <1>3, <2>2, <2>3, TypeUnfolded, TypeUnfoldedNext
  <2> QED BY <1>1, <1>3, <2>2, <2>3, <2>4, WavesCoordinator
<1>6. CASE ~(coord.wave <= m.wave)
  <2>1. UNCHANGED <<coord, toFront>>
    BY <1>6 DEF CoordinatorWaveComplete
  <2>2. TypeOK'
    BY <1>t, <1>1, <1>3, <2>1, TypeUnfolded, TypeUnfoldedNext
  <2> QED BY <1>t, <1>1, <1>2, <1>3, <2>1, <2>2, WavesCoordinator DEF WavesAgree
<1> QED BY <1>5, <1>6

LEMMA WavesStartWave ==
    ASSUME WaveInv, NEW i \in Engines, CoordinatorStartWave(i)
    PROVE  WaveInv'
<1>t. TypeOK /\ WavesAgree /\ MessagesLag
  BY DEF WaveInv
<1> DEFINE m == Head(fromEng[i])
<1>1. /\ fromEng[i] # <<>> /\ fromEng' = [fromEng EXCEPT ![i] = Tail(@)]
      /\ UNCHANGED <<eng, front, firstReq, toEng, fromFront, admin, left>>
  BY DEF CoordinatorStartWave
<1>2. coord.wave \in Nat /\ coord \in States /\ eng[0].wave \in Nat
  BY <1>t, CoordType
<1>3. /\ fromEng' \in [Engines -> Seq(Reports)] /\ m \in Reports /\ m \in Msgs(fromEng[i])
      /\ \A j \in Engines : Msgs(fromEng'[j]) \subseteq Msgs(fromEng[j])
  BY <1>t, <1>1, ReportTaken
<1>4. m.wave \in Nat /\ m.wave <= eng[0].wave
  BY <1>t, <1>3 DEF MessagesLag, Reports, Waves
<1>5. CASE StartIsNews(m.wave)
  <2>1. /\ coord' = [wave |-> m.wave, running |-> TRUE]
        /\ SendStartWave(m.wave, Index(i)) /\ PublishToFronts(coord')
    BY <1>5 DEF CoordinatorStartWave
  <2>2. /\ coord' \in States /\ coord'.wave = m.wave /\ Index(i) \in Excluded
        /\ coord.wave <= coord'.wave /\ coord'.wave <= eng[0].wave
    BY <1>2, <1>4, <1>5, <2>1 DEF States, Waves, Excluded, StartIsNews
  <2>3. /\ start' \in [Engines -> Seq(Starts)]
        /\ \A j \in Engines : Msgs(start'[j]) =
             Msgs(start[j]) \union {[wave |-> m.wave, exclude |-> Index(i)]}
    BY <1>t, <1>4, <2>1, <2>2, WaveStarted DEF Waves
  <2>4. /\ toFront' \in [Fronts -> Seq(States)]
        /\ \A g \in Fronts : Msgs(toFront'[g]) = Msgs(toFront[g]) \union {coord'}
    BY <1>t, <2>1, <2>2, Published
  <2>5. TypeOK'
    BY <1>t, <1>1, <1>3, <2>2, <2>3, <2>4, TypeUnfolded, TypeUnfoldedNext
  <2> QED BY <1>1, <1>3, <2>2, <2>3, <2>4, <2>5, WavesCoordinator
<1>6. CASE ~StartIsNews(m.wave)
  <2>1. UNCHANGED <<coord, start, toFront>>
    BY <1>6 DEF CoordinatorStartWave
  <2>2. TypeOK'
    BY <1>t, <1>1, <1>3, <2>1, TypeUnfolded, TypeUnfoldedNext
  <2> QED BY <1>t, <1>1, <1>2, <1>3, <2>1, <2>2, WavesCoordinator DEF WavesAgree
<1> QED BY <1>5, <1>6

LEMMA WavesPublishStats ==
    ASSUME WaveInv, PublishStats
    PROVE  WaveInv'
<1>t. TypeOK /\ WavesAgree
  BY DEF WaveInv
<1>1. /\ PublishToFronts(coord)
      /\ UNCHANGED <<eng, coord, front, firstReq, toEng, start, fromFront, fromEng,
                     admin, left>>
  BY DEF PublishStats
<1>2. coord.wave \in Nat /\ coord \in States /\ eng[0].wave \in Nat
  BY <1>t, CoordType
<1>3. /\ toFront' \in [Fronts -> Seq(States)]
      /\ \A g \in Fronts : Msgs(toFront'[g]) = Msgs(toFront[g]) \union {coord}
  BY <1>t, <1>1, <1>2, Published
<1>4. TypeOK'
  BY <1>t, <1>1, <1>3, TypeUnfolded, TypeUnfoldedNext
<1> QED BY <1>t, <1>1, <1>2, <1>3, <1>4, WavesCoordinator DEF WavesAgree

\* Requests never come from a later wave than the engine's own, and a START_DP_WAVE
\* that an engine obeys is of its own wave.
LEMMA NobodyIsAhead ==
    ASSUME WaveInv
    PROVE  /\ \A i \in Engines : eng[i].wave = eng[0].wave
           /\ \A f \in Fronts, i \in Engines : \A m \in Msgs(toEng[f][i]) :
                m.type = "add" => m.wave <= eng[i].wave
           /\ \A i \in Engines : \A m \in Msgs(start[i]) :
                m.wave <= eng[i].wave /\ (StartApplies(i, m) => m.wave = eng[i].wave)
<1>t. TypeOK /\ WavesAgree /\ MessagesLag
  BY DEF WaveInv
<1>1. /\ coord.wave \in Nat /\ eng[0].wave \in Nat /\ 0 \in Engines
      /\ \A i \in Engines : eng[i].wave = eng[0].wave
      /\ coord.wave <= eng[0].wave
  BY <1>t, CoordType DEF WavesAgree
<1>2. \A f \in Fronts, i \in Engines : \A m \in Msgs(toEng[f][i]) :
        m.type = "add" => m.wave <= eng[0].wave
  BY <1>t, <1>1, MsgFields DEF MessagesLag
<1>3. \A i \in Engines : \A m \in Msgs(start[i]) : m.wave <= eng[0].wave
  BY <1>t, <1>1, MsgFields DEF MessagesLag
<1>4. ASSUME NEW i \in Engines, NEW m \in Msgs(start[i]), StartApplies(i, m)
      PROVE  m.wave = eng[i].wave
  <2>1. m.wave >= eng[i].wave /\ m.wave \in Nat /\ m.wave <= eng[0].wave
    BY <1>t, <1>3, <1>4, MsgFields DEF StartApplies
  <2> QED BY <1>1, <2>1
<1> QED BY <1>1, <1>2, <1>3, <1>4

LEMMA StartTaken ==
    ASSUME TypeOK, NEW i \in Engines, start[i] # <<>>,
           start' = [start EXCEPT ![i] = Tail(@)]
    PROVE  /\ start' \in [Engines -> Seq(Starts)]
           /\ Head(start[i]) \in Starts
           /\ \A j \in Engines : Msgs(start[j]) =
                IF j = i THEN Msgs(start'[j]) \union {Head(start[j])} ELSE Msgs(start'[j])
<1>1. start[i] \in Seq(Starts)
  BY TypeUnfolded
<1>2. /\ Tail(start[i]) \in Seq(Starts) /\ Head(start[i]) \in Starts
      /\ Msgs(start[i]) = Msgs(Tail(start[i])) \union {Head(start[i])}
  BY <1>1, TailMsgs
<1> QED BY <1>2, TypeUnfolded

\* The request to start a wave that an engine sends when it gets work.
LEMMA StartRequested ==
    ASSUME TypeOK, NEW i \in Engines, NEW b \in BOOLEAN,
           fromEng' = IF b THEN [fromEng EXCEPT ![i] =
                                   Append(@, [type |-> "start", wave |-> eng[i].wave])]
                      ELSE fromEng
    PROVE  /\ fromEng' \in [Engines -> Seq(Reports)]
           /\ \A j \in Engines : \A m \in Msgs(fromEng'[j]) :
                \/ m \in Msgs(fromEng[j])
                \/ b /\ j = i /\ m = [type |-> "start", wave |-> eng[i].wave]
           /\ \A j \in Engines : Msgs(fromEng[j]) \subseteq Msgs(fromEng'[j])
           /\ b => [type |-> "start", wave |-> eng[i].wave] \in Msgs(fromEng'[i])
<1> DEFINE m == [type |-> "start", wave |-> eng[i].wave]
<1>1. m \in Reports
  BY EngineFields DEF Reports, Waves
<1>2. fromEng' = IF b THEN [fromEng EXCEPT ![i] = Append(@, m)] ELSE fromEng
  OBVIOUS
<1> HIDE DEF m
<1>3. CASE b
  <2>1. fromEng' = [fromEng EXCEPT ![i] = Append(@, m)]
    BY <1>2, <1>3
  <2>2. /\ fromEng' \in [Engines -> Seq(Reports)]
        /\ \A j \in Engines : Msgs(fromEng'[j]) =
             IF j = i THEN Msgs(fromEng[j]) \union {m} ELSE Msgs(fromEng[j])
    BY <1>1, <2>1, Reported
  <2> QED BY <1>3, <2>2 DEF m
<1>4. CASE ~b
  BY <1>2, <1>4, TypeUnfolded
<1> QED BY <1>3, <1>4

LEMMA SameWave ==
    ASSUME TypeOK, NEW i \in Engines,
           \E running, todo, paused, owes, phase :
             EngineMoves(i, eng[i].wave, running, todo, paused, owes, phase)
    PROVE  eng' \in [Engines -> EngineStates] /\ \A j \in Engines : eng'[j].wave = eng[j].wave
<1>1. PICK running, todo, paused, owes, phase :
        EngineMoves(i, eng[i].wave, running, todo, paused, owes, phase)
  OBVIOUS
<1>2. /\ eng' \in [Engines -> EngineStates] /\ eng'[i].wave = eng[i].wave
      /\ \A j \in Engines \ {i} : eng'[j] = eng[j]
  BY <1>1, EngineMoved
<1> QED BY <1>2

LEMMA AnswerType ==
    ASSUME TypeOK, NEW i \in Engines, Answer(i)
    PROVE  admin' \in [state: {"resumed", "pausing", "paused"}, answered: SUBSET Engines]
BY TypeUnfolded DEF Answer

LEMMA WavesEngineStep ==
    ASSUME WaveInv, NEW i \in Engines, EngineStep(i)
    PROVE  WaveInv'
<1>t. TypeOK
  BY DEF WaveInv
<1>1. CASE \E f \in Fronts : AddRequest(f, i)
  <2>1. PICK f \in Fronts : AddRequest(f, i)
    BY <1>1
  <2> DEFINE m == Head(toEng[f][i])
             stale == m.wave < eng[i].wave /\ ~eng[i].running /\ ~eng[i].paused
  <2>2. /\ Receive(f, i, "add")
        /\ UNCHANGED <<coord, front, firstReq, start, fromFront, toFront, admin, left>>
        /\ fromEng' = IF stale THEN [fromEng EXCEPT ![i] =
                                 Append(@, [type |-> "start", wave |-> eng[i].wave])]
                      ELSE fromEng
    BY <2>1 DEF AddRequest
  <2>3. m.wave \in Nat /\ m.wave <= eng[i].wave /\ eng[i].wave \in Nat
    BY <1>t, <2>2, NobodyIsAhead, Received, AddMessage, EngineFields
  <2>4. EngineMoves(i, eng[i].wave, eng[i].running \/ stale, eng[i].todo + 1,
                    eng[i].paused, eng[i].owesReply, "loop")
    <3>1. (IF m.wave > eng[i].wave THEN m.wave ELSE eng[i].wave) = eng[i].wave
      BY <2>3
    <3> QED BY <1>t, <2>1, <3>1, EngineSteps
  <2>5. eng' \in [Engines -> EngineStates] /\ \A j \in Engines : eng'[j].wave = eng[j].wave
    BY <1>t, <2>4, EngineMoved
  <2>6. stale \in BOOLEAN
    OBVIOUS
  <2> HIDE DEF stale
  <2>7. TypeOK'
    BY <1>t, <2>2, <2>5, <2>6, Received, StartRequested, TypeUnfolded, TypeUnfoldedNext
  <2>8. \A j \in Engines : \A n \in Msgs(fromEng'[j]) :
          n \in Msgs(fromEng[j]) \/ (n.type = "start" /\ n.wave = eng[j].wave)
    <3>1. \A j \in Engines : \A n \in Msgs(fromEng'[j]) :
            \/ n \in Msgs(fromEng[j])
            \/ stale /\ j = i /\ n = [type |-> "start", wave |-> eng[i].wave]
      <4>1. fromEng' = IF stale THEN [fromEng EXCEPT ![i] =
                                 Append(@, [type |-> "start", wave |-> eng[i].wave])]
                       ELSE fromEng
        BY <2>2
      <4> QED BY <1>t, <2>6, <4>1, StartRequested
    <3> QED BY <3>1
  <2>9. \A g \in Fronts, j \in Engines : Msgs(toEng'[g][j]) \subseteq Msgs(toEng[g][j])
    <3>1. Receive(f, i, "add")
      BY <2>2
    <3> QED BY <1>t, <3>1, Received
  <2> QED BY <1>t, <2>2, <2>5, <2>6, <2>7, <2>8, <2>9, WavesKept
<1>2. CASE \E f \in Fronts : RefuseRequest(f, i)
  <2>1. PICK f \in Fronts : Receive(f, i, "add")
             /\ left.aborts > 0 /\ left' = [left EXCEPT !.aborts = left.aborts - 1]
             /\ UNCHANGED <<eng, coord, front, firstReq, start, fromFront, fromEng,
                            toFront, admin>>
    BY <1>2 DEF RefuseRequest
  <2>2. left' \in [requests: Nat, aborts: Nat, pauses: Nat]
    <3>1. left \in [requests: Nat, aborts: Nat, pauses: Nat]
      BY <1>t, TypeUnfolded
    <3> QED BY <2>1, <3>1
  <2>3. TypeOK'
    BY <1>t, <2>1, <2>2, Received, TypeUnfolded, TypeUnfoldedNext
  <2> QED BY <1>t, <2>1, <2>3, Received, WavesKept
<1>3. CASE \E f \in Fronts : AbortRequest(f, i)
  <2>1. PICK f \in Fronts : AbortRequest(f, i)
    BY <1>3
  <2>2. /\ Receive(f, i, "abort")
        /\ UNCHANGED <<coord, front, firstReq, start, fromFront, fromEng, toFront, admin,
                       left>>
    BY <2>1 DEF AbortRequest
  <2>3. eng' \in [Engines -> EngineStates] /\ \A j \in Engines : eng'[j].wave = eng[j].wave
    <3>1. PICK todo \in 0..eng[i].todo :
            EngineMoves(i, eng[i].wave, eng[i].running, todo, eng[i].paused,
                        eng[i].owesReply, "loop")
      BY <1>t, <2>1, EngineSteps
    <3> QED BY <1>t, <3>1, SameWave
  <2>4. TypeOK'
    BY <1>t, <2>2, <2>3, Received, TypeUnfolded, TypeUnfoldedNext
  <2> QED BY <1>t, <2>2, <2>3, <2>4, Received, WavesKept
<1>4. CASE StartWave(i)
  <2> DEFINE m == Head(start[i])
  <2>1. /\ start[i] # <<>> /\ start' = [start EXCEPT ![i] = Tail(@)]
        /\ UNCHANGED <<coord, front, firstReq, toEng, fromFront, fromEng, toFront, admin,
                       left>>
    BY <1>4 DEF StartWave
  <2>2. /\ start' \in [Engines -> Seq(Starts)] /\ m \in Msgs(start[i])
        /\ \A j \in Engines : Msgs(start'[j]) \subseteq Msgs(start[j])
    BY <1>t, <2>1, StartTaken
  <2>3. (IF StartApplies(i, m) THEN m.wave ELSE eng[i].wave) = eng[i].wave
    BY <2>2, NobodyIsAhead
  <2>4. EngineMoves(i, eng[i].wave, StartApplies(i, m) \/ eng[i].running, eng[i].todo,
                    eng[i].paused, eng[i].owesReply, "loop")
    BY <1>t, <1>4, <2>3, EngineSteps
  <2>5. eng' \in [Engines -> EngineStates] /\ \A j \in Engines : eng'[j].wave = eng[j].wave
    BY <1>t, <2>4, EngineMoved
  <2>6. TypeOK'
    BY <1>t, <2>1, <2>2, <2>5, TypeUnfolded, TypeUnfoldedNext
  <2> QED BY <1>t, <2>1, <2>2, <2>5, <2>6, WavesKept
<1>5. CASE EnterPass(i)
  <2>1. UNCHANGED <<coord, front, firstReq, toEng, start, fromFront, fromEng, toFront,
                    admin, left>>
    BY <1>5 DEF EnterPass
  <2>2. eng' \in [Engines -> EngineStates] /\ \A j \in Engines : eng'[j].wave = eng[j].wave
    <3>1. EngineMoves(i, eng[i].wave, eng[i].running, eng[i].todo,
                      eng[i].paused, eng[i].owesReply, "pass")
      BY <1>t, <1>5, EngineSteps
    <3> QED BY <1>t, <3>1, SameWave
  <2>3. TypeOK'
    BY <1>t, <2>1, <2>2, TypeUnfolded, TypeUnfoldedNext
  <2> QED BY <1>t, <2>1, <2>2, <2>3, WavesKept
<1>6. CASE IdleCallback(i)
  <2>1. /\ Answer(i)
        /\ UNCHANGED <<coord, front, firstReq, toEng, start, fromFront, fromEng, toFront,
                       left>>
    BY <1>6 DEF IdleCallback
  <2>2. eng' \in [Engines -> EngineStates] /\ \A j \in Engines : eng'[j].wave = eng[j].wave
    <3>1. EngineMoves(i, eng[i].wave, eng[i].running, eng[i].todo,
                      eng[i].paused, FALSE, "loop")
      BY <1>t, <1>6, EngineSteps
    <3> QED BY <1>t, <3>1, SameWave
  <2>3. TypeOK'
    BY <1>t, <2>1, <2>2, AnswerType, TypeUnfolded, TypeUnfoldedNext
  <2> QED BY <1>t, <2>1, <2>2, <2>3, WavesKept
<1>7. CASE Pause(i)
  <2>1. /\ Receive(Admin, i, "pause") /\ (admin' = admin \/ Answer(i)) /\ Admin \in Fronts
        /\ UNCHANGED <<coord, front, firstReq, start, fromFront, fromEng, toFront, left>>
    BY <1>7, DataParallelAssumption DEF Pause
  <2>2. eng' \in [Engines -> EngineStates] /\ \A j \in Engines : eng'[j].wave = eng[j].wave
    <3>1. EngineMoves(i, eng[i].wave, eng[i].running, eng[i].todo,
                      TRUE, eng[i].running, "loop")
      BY <1>t, <1>7, EngineSteps
    <3> QED BY <1>t, <3>1, SameWave
  <2>3. TypeOK'
    BY <1>t, <2>1, <2>2, AnswerType, Received, TypeUnfolded, TypeUnfoldedNext
  <2> QED BY <1>t, <2>1, <2>2, <2>3, Received, WavesKept
<1>8. CASE Resume(i)
  <2> DEFINE wake == ~eng[i].running /\ eng[i].todo > 0
  <2>1. /\ Receive(Admin, i, "resume") /\ Admin \in Fronts
        /\ UNCHANGED <<coord, front, firstReq, start, fromFront, toFront, admin, left>>
        /\ fromEng' = IF wake THEN [fromEng EXCEPT ![i] =
                                 Append(@, [type |-> "start", wave |-> eng[i].wave])]
                      ELSE fromEng
    BY <1>8, DataParallelAssumption DEF Resume
  <2>2. eng' \in [Engines -> EngineStates] /\ \A j \in Engines : eng'[j].wave = eng[j].wave
    <3>1. EngineMoves(i, eng[i].wave, eng[i].running, eng[i].todo,
                      FALSE, eng[i].owesReply, "loop")
      BY <1>t, <1>8, EngineSteps
    <3> QED BY <1>t, <3>1, SameWave
  <2>3. wake \in BOOLEAN
    OBVIOUS
  <2> HIDE DEF wake
  <2>4. TypeOK'
    BY <1>t, <2>1, <2>2, <2>3, Received, StartRequested, TypeUnfolded, TypeUnfoldedNext
  <2>5. \A j \in Engines : \A n \in Msgs(fromEng'[j]) :
          n \in Msgs(fromEng[j]) \/ (n.type = "start" /\ n.wave = eng[j].wave)
    BY <1>t, <2>1, <2>3, StartRequested
  <2>6. \A g \in Fronts, j \in Engines : Msgs(toEng'[g][j]) \subseteq Msgs(toEng[g][j])
    BY <1>t, <2>1, Received
  <2> QED BY <1>t, <2>1, <2>2, <2>4, <2>5, <2>6, WavesKept
<1> QED BY <1>1, <1>2, <1>3, <1>4, <1>5, <1>6, <1>7, <1>8 DEF EngineStep

LEMMA WavesCompletePass ==
    ASSUME WaveInv, CompletePass
    PROVE  WaveInv'
<1>t. TypeOK
  BY DEF WaveInv
<1>1. UNCHANGED <<coord, front, firstReq, toEng, start, fromFront, fromEng, toFront,
                  admin, left>>
  BY DEF CompletePass
<1>2. eng' \in [Engines -> EngineStates] /\ \A i \in Engines : eng'[i].wave = eng[i].wave
  BY <1>t, PassCompleted
<1>3. TypeOK'
  BY <1>t, <1>1, <1>2, TypeUnfolded, TypeUnfoldedNext
<1> QED BY <1>t, <1>1, <1>2, <1>3, WavesKept

\* The end of a wave: all engines count it, and rank 0 reports the one they have left.
LEMMA WavesCompleteSync ==
    ASSUME WaveInv, CompleteSync
    PROVE  WaveInv'
<1>t. TypeOK /\ WavesAgree /\ MessagesLag
  BY DEF WaveInv
<1> DEFINE more == \E i \in Engines : eng[i].unfinished
           m == [type |-> "complete", wave |-> eng[0].wave]
<1>1. /\ fromEng' = IF more THEN fromEng ELSE [fromEng EXCEPT ![0] = Append(@, m)]
      /\ UNCHANGED <<coord, front, firstReq, toEng, start, fromFront, toFront, admin,
                     left>>
  BY DEF CompleteSync
<1>2. /\ eng' \in [Engines -> EngineStates]
      /\ \A i \in Engines : eng'[i].wave = IF more THEN eng[i].wave ELSE eng[i].wave + 1
  BY <1>t, SyncCompleted
<1>3. /\ 0 \in Engines /\ eng[0].wave \in Nat /\ coord.wave \in Nat
      /\ \A i \in Engines : eng[i].wave = eng[0].wave
      /\ coord.wave <= eng[0].wave
  BY <1>t, CoordType DEF WavesAgree
<1>4. m \in Reports
  BY <1>3 DEF Reports, Waves
<1> HIDE DEF more
<1>5. CASE more
  <2>1. \A i \in Engines : eng'[i].wave = eng[i].wave
    BY <1>2, <1>5
  <2>2. fromEng' = fromEng
    BY <1>1, <1>5
  <2>3. TypeOK'
    BY <1>t, <1>1, <1>2, <2>2, TypeUnfolded, TypeUnfoldedNext
  <2> QED BY <1>1, <2>1, <2>2, <2>3, WavesKept
<1>6. CASE ~more
  <2>1. fromEng' = [fromEng EXCEPT ![0] = Append(@, m)]
    BY <1>1, <1>6
  <2>2. \A i \in Engines : eng'[i].wave = eng[0].wave + 1
    BY <1>2, <1>3, <1>6
  <2>3. /\ fromEng' \in [Engines -> Seq(Reports)]
        /\ \A j \in Engines : Msgs(fromEng'[j]) \subseteq Msgs(fromEng[j]) \union {m}
    <3> HIDE DEF m
    <3> QED BY <1>t, <1>3, <1>4, <2>1, Reported
  <2>4. TypeOK'
    BY <1>t, <1>1, <1>2, <2>3, TypeUnfolded, TypeUnfoldedNext
  <2>5. WavesAgree'
    BY <1>t, <1>1, <1>3, <2>2 DEF WavesAgree
  <2>6. \A j \in Engines : \A r \in Msgs(fromEng'[j]) :
          r.wave <= eng[0].wave + 1 /\ r.wave < eng[0].wave + 1
    BY <1>t, <1>3, <2>3, MsgFields DEF MessagesLag
  <2>7. MessagesLag'
    <3>1. eng'[0].wave = eng[0].wave + 1
      BY <1>3, <2>2
    <3> QED BY <1>t, <1>1, <2>6, <3>1 DEF MessagesLag, Msgs
  <2> QED BY <2>4, <2>5, <2>7 DEF WaveInv
<1> QED BY <1>5, <1>6

LEMMA WavesNext == WaveInv /\ [Next]_vars => WaveInv'
<1> SUFFICES ASSUME WaveInv, [Next]_vars PROVE WaveInv'
  OBVIOUS
<1>1. CASE UNCHANGED vars
  <2>1. TypeOK'
    BY <1>1, TypeUnfolded, TypeUnfoldedNext DEF vars, WaveInv
  <2>2. WavesAgree'
    BY <1>1 DEF vars, WaveInv, WavesAgree
  <2>3. MessagesLag'
    BY <1>1 DEF vars, WaveInv, MessagesLag, Msgs
  <2> QED BY <2>1, <2>2, <2>3 DEF WaveInv
<1>2. CASE CoordinatorStep
  BY <1>2, WavesWaveComplete, WavesFirstReq, WavesStartWave DEF CoordinatorStep
<1>3. CASE SendPause \/ SendResume \/ \E f \in Fronts, i \in Engines : SendAbort(f, i)
  BY <1>3, WavesControlSent
<1> QED BY <1>1, <1>2, <1>3, WavesSendRequest, WavesFrontTask, WavesPublishStats,
           WavesEngineStep, WavesCompletePass, WavesCompleteSync DEF Next

\* Engines, coordinator and front ends never disagree about the waves, however long
\* their messages are under way.
THEOREM WavesAreConsistent == Spec => []WavesConsistent
<1>1. WaveInv => WavesConsistent
  BY DEF WaveInv, WavesConsistent
<1> QED BY <1>1, InitWaves, WavesNext, PTL DEF Spec

-----------------------------------------------------------------------------
(* Nobody waits for an engine that nobody wakes *)

LEMMA InitWake == Init /\ left.pauses = 0 => NobodyPauses /\ WakeInv
<1> SUFFICES ASSUME Init, left.pauses = 0 PROVE NobodyPauses /\ WakeInv
  OBVIOUS
<1>1. /\ \A f \in Fronts, i \in Engines : Msgs(toEng[f][i]) = {}
      /\ \A i \in Engines : Msgs(start[i]) = {} /\ Msgs(fromEng[i]) = {}
      /\ \A f \in Fronts : Msgs(toFront[f]) = {}
  BY MsgsOfEmpty DEF Init
<1>2. /\ \A i \in Engines : /\ ~eng[i].running /\ eng[i].todo = 0 /\ ~eng[i].paused
                            /\ eng[i].phase = "loop" /\ ~eng[i].owesReply
      /\ ~coord.running /\ \A f \in Fronts : ~front[f].running
  BY DEF Init
<1>3. NobodyPauses
  BY <1>1, <1>2 DEF Init, NobodyPauses
<1>4. BusyIsKnown /\ AllAreCalled /\ SyncCounts
  BY <1>2 DEF BusyIsKnown, AllAreCalled, SyncCounts, Busy, Started
<1>5. NewsIsTrue
  BY <1>1, <1>2 DEF NewsIsTrue
<1> QED BY <1>3, <1>4, <1>5 DEF WakeInv

\* While nobody pauses, an engine only takes requests, aborts and START_DP_WAVE.
LEMMA EngineStepWithoutPause ==
    ASSUME TypeOK, NobodyPauses, NEW i \in Engines, EngineStep(i)
    PROVE  \/ StartWave(i) \/ EnterPass(i)
           \/ \E f \in Fronts : AddRequest(f, i) \/ RefuseRequest(f, i) \/ AbortRequest(f, i)
<1>1. ~IdleCallback(i)
  BY DEF NobodyPauses, IdleCallback
<1>2. ASSUME NEW type, type \notin {"add", "abort"} PROVE ~Receive(Admin, i, type)
  BY <1>2, Received, DataParallelAssumption DEF NobodyPauses
<1>3. ~Pause(i) /\ ~Resume(i)
  BY <1>2 DEF Pause, Resume
<1> QED BY <1>1, <1>3 DEF EngineStep

LEMMA NobodyPausesKept ==
    ASSUME TypeOK, NobodyPauses, [Next]_vars
    PROVE  NobodyPauses'
<1> DEFINE Same(i) == eng'[i].paused = eng[i].paused /\ eng'[i].owesReply = eng[i].owesReply
<1>1. ASSUME UNCHANGED admin, left'.pauses = left.pauses, \A i \in Engines : Same(i),
             \A f \in Fronts, i \in Engines : \A m \in Msgs(toEng'[f][i]) :
               m \in Msgs(toEng[f][i]) \/ m.type \in {"add", "abort"}
      PROVE  NobodyPauses'
  BY <1>1 DEF NobodyPauses, Msgs
<1>2. left \in [requests: Nat, aborts: Nat, pauses: Nat]
  BY TypeUnfolded
<1>3. CASE \E f \in Fronts, i \in Engines : SendRequest(f, i)
  <2>1. PICK f \in Fronts, i \in Engines : SendRequest(f, i)
    BY <1>3
  <2> DEFINE m == [type |-> "add", wave |-> front[f].wave]
  <2>2. m \in FrontMessages /\ m.type = "add"
    BY CoordType DEF FrontMessages, Waves
  <2>3. toEng' = [toEng EXCEPT ![f][i] = Append(@, m)] /\ UNCHANGED <<eng, admin>>
    BY <2>1 DEF SendRequest
  <2>4. left' = [left EXCEPT !.requests = left.requests - 1]
    BY <2>1 DEF SendRequest
  <2> HIDE DEF m
  <2>5. \A g \in Fronts, j \in Engines :
          Msgs(toEng'[g][j]) \subseteq Msgs(toEng[g][j]) \union {m}
    BY <2>2, <2>3, SentToEngine
  <2> QED BY <1>1, <1>2, <2>2, <2>3, <2>4, <2>5
<1>4. CASE \E f \in Fronts, i \in Engines : SendAbort(f, i)
  <2>1. PICK f \in Fronts, i \in Engines : SendAbort(f, i)
    BY <1>4
  <2> DEFINE m == [type |-> "abort"]
  <2>2. m \in FrontMessages /\ m.type = "abort"
    BY DEF FrontMessages
  <2>3. toEng' = [toEng EXCEPT ![f][i] = Append(@, m)] /\ UNCHANGED <<eng, admin>>
    BY <2>1 DEF SendAbort
  <2>4. left' = [left EXCEPT !.aborts = left.aborts - 1]
    BY <2>1 DEF SendAbort
  <2> HIDE DEF m
  <2>5. \A g \in Fronts, j \in Engines :
          Msgs(toEng'[g][j]) \subseteq Msgs(toEng[g][j]) \union {m}
    BY <2>2, <2>3, SentToEngine
  <2> QED BY <1>1, <1>2, <2>2, <2>3, <2>4, <2>5
<1>5. ~SendPause /\ ~SendResume
  BY DEF SendPause, SendResume, NobodyPauses
<1>6. CASE CoordinatorStep \/ PublishStats \/ UNCHANGED vars \/ \E f \in Fronts : FrontTask(f)
  <2>1. UNCHANGED <<eng, toEng, admin, left>>
    BY <1>6 DEF CoordinatorStep, PublishStats, vars, FrontTask, CoordinatorWaveComplete,
                CoordinatorFirstReq, CoordinatorStartWave
  <2> QED BY <1>1, <2>1
<1>7. CASE \E i \in Engines : EngineStep(i)
  <2>1. PICK i \in Engines : EngineStep(i)
    BY <1>7
  <2>2. ASSUME NEW wave, NEW running, NEW todo, NEW phase,
               EngineMoves(i, wave, running, todo, eng[i].paused, eng[i].owesReply, phase)
        PROVE  \A j \in Engines : Same(j)
    BY <2>2, EngineMoved
  <2>3. CASE StartWave(i) \/ EnterPass(i)
    <3>1. UNCHANGED <<toEng, admin, left>>
      BY <2>3 DEF StartWave, EnterPass
    <3>2. \A j \in Engines : Same(j)
      BY <2>2, <2>3, EngineSteps
    <3> QED BY <1>1, <3>1, <3>2
  <2>4. ASSUME NEW f \in Fronts, AddRequest(f, i) PROVE NobodyPauses'
    <3>1. UNCHANGED <<admin, left>> /\ Receive(f, i, "add")
      BY <2>4 DEF AddRequest
    <3>2. \A j \in Engines : Same(j)
      BY <2>2, <2>4, EngineSteps
    <3> QED BY <1>1, <3>1, <3>2, Received
  <2>5. ASSUME NEW f \in Fronts, RefuseRequest(f, i) PROVE NobodyPauses'
    <3>1. UNCHANGED <<eng, admin>> /\ Receive(f, i, "add")
      BY <2>5 DEF RefuseRequest
    <3>2. left' = [left EXCEPT !.aborts = left.aborts - 1]
      BY <2>5 DEF RefuseRequest
    <3> QED BY <1>1, <1>2, <3>1, <3>2, Received
  <2>6. ASSUME NEW f \in Fronts, AbortRequest(f, i) PROVE NobodyPauses'
    <3>1. UNCHANGED <<admin, left>> /\ Receive(f, i, "abort")
      BY <2>6 DEF AbortRequest
    <3>2. \A j \in Engines : Same(j)
      BY <2>2, <2>6, EngineSteps
    <3> QED BY <1>1, <3>1, <3>2, Received
  <2> QED BY <2>1, <2>3, <2>4, <2>5, <2>6, EngineStepWithoutPause
<1>8. CASE CompletePass
  <2>1. UNCHANGED <<toEng, admin, left>>
    BY <1>8 DEF CompletePass
  <2> QED BY <1>1, <1>8, <2>1, PassCompleted
<1>9. CASE CompleteSync
  <2>1. UNCHANGED <<toEng, admin, left>>
    BY <1>9 DEF CompleteSync
  <2> QED BY <1>1, <1>9, <2>1, SyncCompleted
<1> QED BY <1>3, <1>4, <1>5, <1>6, <1>7, <1>8, <1>9 DEF Next

\* A step within a wave: what the coordinator knows is not forgotten, an engine that runs
\* runs on, and what is new is true.
LEMMA WakeKept ==
    ASSUME WaveInv, WakeInv, eng'[0].wave = eng[0].wave,
           Started => Started',
           Started \/ Noted => Started' \/ Noted',
           Started \/ Noted \/ Asked => Started' \/ Noted' \/ Asked',
           \A i \in Engines : Busy(i)' => Busy(i) \/ Started' \/ Noted' \/ Asked',
           \A i \in Engines : eng[i].running => eng'[i].running,
           \A i \in Engines : \A m \in Msgs(start'[i]) :
             m \in Msgs(start[i]) \/ (m.wave = eng[0].wave => Started'),
           \A i \in Engines : \A m \in Msgs(fromEng'[i]) :
             m \in Msgs(fromEng[i]) \/ m.type = "complete" \/ eng'[i].running,
           \A f \in Fronts : \A m \in Msgs(toFront'[f]) :
             m \in Msgs(toFront[f]) \/ (m.wave = eng[0].wave /\ m.running => Started'),
           \A f \in Fronts : \/ front'[f] = front[f]
                             \/ front'[f] \in Msgs(toFront[f])
                             \/ front'[f].wave = eng[0].wave => Started' \/ Noted',
           \A f \in Fronts, i \in Engines : \A m \in Msgs(toEng'[f][i]) :
             \/ m \in Msgs(toEng[f][i])
             \/ m.type = "add" /\ m.wave = eng[0].wave => Started' \/ Noted',
           AllAreCalled', SyncCounts'
    PROVE  WakeInv'
<1>1. BusyIsKnown'
  BY DEF WakeInv, BusyIsKnown
<1>2. NewsIsTrue'
  <2>1. \A i \in Engines : \A m \in Msgs(start'[i]) : m.wave = eng[0].wave => Started'
    BY DEF WakeInv, NewsIsTrue
  <2>2. \A i \in Engines : \A m \in Msgs(fromEng'[i]) :
          m.type = "start" /\ m.wave = eng[0].wave => eng'[i].running
    BY DEF WakeInv, NewsIsTrue
  <2>3. \A f \in Fronts : \A m \in Msgs(toFront'[f]) :
          m.wave = eng[0].wave /\ m.running => Started'
    BY DEF WakeInv, NewsIsTrue
  <2>4. \A f \in Fronts :
          front'[f].wave = eng[0].wave /\ front'[f].running => Started' \/ Noted'
    BY DEF WakeInv, NewsIsTrue
  <2>5. \A f \in Fronts, i \in Engines : \A m \in Msgs(toEng'[f][i]) :
          m.type = "add" /\ m.wave = eng[0].wave => Started' \/ Noted'
    BY DEF WakeInv, NewsIsTrue
  <2> QED BY <2>1, <2>2, <2>3, <2>4, <2>5 DEF NewsIsTrue, Msgs
<1> QED BY <1>1, <1>2 DEF WakeInv

LEMMA CalledKept ==
    ASSUME AllAreCalled, Started' => Started,
           \A i \in Engines : /\ eng'[i].wave = eng[i].wave
                              /\ eng[i].running => eng'[i].running
                              /\ Msgs(start[i]) \subseteq Msgs(start'[i])
    PROVE  AllAreCalled'
<1> SUFFICES ASSUME Started, NEW i \in Engines
             PROVE  eng'[i].running \/ \E m \in Msgs(start'[i]) : StartApplies(i, m)'
  BY DEF AllAreCalled, Called, Msgs
<1>1. eng[i].running \/ \E m \in Msgs(start[i]) : StartApplies(i, m)
  BY DEF AllAreCalled, Called
<1>2. \A m \in Msgs(start[i]) : StartApplies(i, m) => StartApplies(i, m)'
  BY DEF StartApplies
<1> QED BY <1>1, <1>2

\* What WaveInv says of the current wave.
LEMMA CurrentWave ==
    ASSUME WaveInv
    PROVE  /\ TypeOK /\ 0 \in Engines
           /\ eng[0].wave \in Nat /\ coord.wave \in Nat /\ coord.running \in BOOLEAN
           /\ coord.wave <= eng[0].wave
           /\ \A i \in Engines : eng[i].wave = eng[0].wave
           /\ \A f \in Fronts : /\ front[f].wave \in Nat /\ front[f].wave <= coord.wave
                                /\ front[f].wave = eng[0].wave => coord.wave = eng[0].wave
           /\ \A f \in Fronts, i \in Engines : \A m \in Msgs(toEng[f][i]) :
                m.type = "add" =>
                  /\ m.wave \in Nat /\ m.wave <= coord.wave
                  /\ m.wave = eng[0].wave => coord.wave = eng[0].wave
           /\ \A i \in Engines : \A m \in Msgs(start[i]) :
                m.wave \in Nat /\ m.wave <= coord.wave
           /\ \A f \in Fronts : \A m \in Msgs(toFront[f]) :
                m.wave \in Nat /\ m.wave <= coord.wave
           /\ \A i \in Engines : \A m \in Msgs(fromEng[i]) :
                /\ m.wave \in Nat /\ m.wave <= eng[0].wave
                /\ m.type = "complete" => m.wave < eng[0].wave
<1>1. TypeOK /\ WavesAgree /\ MessagesLag
  BY DEF WaveInv
<1>2. /\ 0 \in Engines /\ eng[0].wave \in Nat /\ coord.wave \in Nat
      /\ coord.running \in BOOLEAN /\ coord.wave <= eng[0].wave
      /\ \A f \in Fronts : front[f].wave \in Nat
  BY <1>1, CoordType DEF WavesAgree
<1>3. \A i \in Engines : eng[i].wave = eng[0].wave
  BY <1>1, <1>2 DEF WavesAgree
<1>4. \A f \in Fronts : /\ front[f].wave <= coord.wave
                        /\ front[f].wave = eng[0].wave => coord.wave = eng[0].wave
  BY <1>1, <1>2 DEF WavesAgree
<1>5. \A f \in Fronts, i \in Engines : \A m \in Msgs(toEng[f][i]) :
        m.type = "add" =>
          /\ m.wave \in Nat /\ m.wave <= coord.wave
          /\ m.wave = eng[0].wave => coord.wave = eng[0].wave
  BY <1>1, <1>2, MsgFields DEF MessagesLag
<1> QED BY <1>1, <1>2, <1>3, <1>4, <1>5, MsgFields DEF MessagesLag

LEMMA WakeSendRequest ==
    ASSUME WaveInv, WakeInv, NEW f \in Fronts, NEW i \in Engines, SendRequest(f, i)
    PROVE  WakeInv'
<1> DEFINE m == [type |-> "add", wave |-> front[f].wave]
<1>1. UNCHANGED <<eng, coord, front, start, fromFront, fromEng, toFront>>
  BY DEF SendRequest
<1>2. m \in FrontMessages /\ m.type = "add" /\ m.wave = front[f].wave
  BY CurrentWave DEF FrontMessages, Waves
<1>3. /\ toEng' = [toEng EXCEPT ![f][i] = Append(@, m)]
      /\ firstReq' = IF front[f].running THEN firstReq
                     ELSE [firstReq EXCEPT ![f] = Append(@, i)]
  BY DEF SendRequest
<1> HIDE DEF m
<1>4. \A g \in Fronts, j \in Engines :
        Msgs(toEng'[g][j]) \subseteq Msgs(toEng[g][j]) \union {m}
  BY <1>2, <1>3, SentToEngine, CurrentWave
<1>5. /\ ~front[f].running => firstReq'[f] # <<>>
      /\ \A g \in Fronts : firstReq[g] # <<>> => firstReq'[g] # <<>>
  <2>1. firstReq \in [Fronts -> Seq(Engines)] /\ firstReq[f] \in Seq(Engines)
    BY CurrentWave, TypeUnfolded
  <2>2. Append(firstReq[f], i) # <<>>
    BY <2>1, AppendMsgs
  <2> QED BY <1>3, <2>1, <2>2
<1>6. Started' = Started /\ Asked' = Asked /\ (Noted => Noted')
  BY <1>1, <1>5 DEF Started, Asked, Noted, NotesUnderWay, Msgs
<1>7. front[f].wave = eng[0].wave => Started' \/ Noted'
  <2>1. CASE front[f].running
    BY <2>1, <1>6 DEF WakeInv, NewsIsTrue
  <2>2. CASE ~front[f].running
    BY <2>2, <1>1, <1>5, CurrentWave DEF Noted, NotesUnderWay
  <2> QED BY <2>1, <2>2
<1>8. AllAreCalled' /\ SyncCounts'
  BY <1>1, <1>6, CalledKept DEF WakeInv, SyncCounts
<1>9. \A j \in Engines : Busy(j)' = Busy(j)
  BY <1>1 DEF Busy
<1> QED BY <1>1, <1>2, <1>4, <1>6, <1>7, <1>8, <1>9, WakeKept

LEMMA WakeSendAbort ==
    ASSUME WaveInv, WakeInv, NEW f \in Fronts, NEW i \in Engines, SendAbort(f, i)
    PROVE  WakeInv'
<1> DEFINE m == [type |-> "abort"]
<1>1. UNCHANGED <<eng, coord, front, firstReq, start, fromFront, fromEng, toFront>>
  BY DEF SendAbort
<1>2. m \in FrontMessages /\ m.type # "add"
  BY DEF FrontMessages
<1>3. toEng' = [toEng EXCEPT ![f][i] = Append(@, m)]
  BY DEF SendAbort
<1> HIDE DEF m
<1>4. \A g \in Fronts, j \in Engines :
        Msgs(toEng'[g][j]) \subseteq Msgs(toEng[g][j]) \union {m}
  BY <1>2, <1>3, SentToEngine, CurrentWave
<1>6. Started' = Started /\ Asked' = Asked /\ Noted' = Noted
  BY <1>1 DEF Started, Asked, Noted, NotesUnderWay, Msgs
<1>8. AllAreCalled' /\ SyncCounts'
  BY <1>1, <1>6, CalledKept DEF WakeInv, SyncCounts
<1>9. \A j \in Engines : Busy(j)' = Busy(j)
  BY <1>1 DEF Busy
<1> QED BY <1>1, <1>2, <1>4, <1>6, <1>8, <1>9, WakeKept

LEMMA WakeFrontTask ==
    ASSUME WaveInv, WakeInv, NEW f \in Fronts, FrontTask(f)
    PROVE  WakeInv'
<1>1. UNCHANGED <<eng, coord, toEng, start, fromEng>>
  BY DEF FrontTask
<1>2. /\ \A g \in Fronts : Msgs(toFront'[g]) \subseteq Msgs(toFront[g])
      /\ \A g \in Fronts \ {f} : front'[g] = front[g]
      /\ \/ front'[f] \in Msgs(toFront[f])
         \/ front'[f].wave = front[f].wave /\ fromFront'[f] # <<>>
      /\ NotesUnderWay => NotesUnderWay'
  BY FrontTaskDone, CurrentWave DEF NotesUnderWay
<1>3. Started' = Started /\ Asked' = Asked /\ (Noted => Noted')
  BY <1>1, <1>2 DEF Started, Asked, Noted, Msgs
<1>4. \/ front'[f] \in Msgs(toFront[f])
      \/ front'[f].wave = eng[0].wave => Noted'
  BY <1>1, <1>2, CurrentWave DEF Noted, NotesUnderWay
<1>5. AllAreCalled' /\ SyncCounts'
  BY <1>1, <1>3, CalledKept DEF WakeInv, SyncCounts
<1>6. \A j \in Engines : Busy(j)' = Busy(j)
  BY <1>1 DEF Busy
<1> QED BY <1>1, <1>2, <1>3, <1>4, <1>5, <1>6, WakeKept

LEMMA WakeFirstReq ==
    ASSUME WaveInv, WakeInv, NEW f \in Fronts, CoordinatorFirstReq(f)
    PROVE  WakeInv'
<1>1. /\ fromFront[f] # <<>> /\ fromFront' = [fromFront EXCEPT ![f] = Tail(@)]
      /\ UNCHANGED <<eng, front, firstReq, toEng, fromEng>>
  BY DEF CoordinatorFirstReq
<1>2. Asked' = Asked /\ SyncCounts' /\ \A j \in Engines : Busy(j)' = Busy(j)
  BY <1>1 DEF Asked, Busy, WakeInv, SyncCounts, Msgs
<1>3. CASE coord.running
  <2>1. UNCHANGED <<coord, start, toFront>>
    BY <1>3 DEF CoordinatorFirstReq
  <2>2. Started' = Started /\ (Noted => Started)
    BY <1>1, <1>3, <2>1 DEF Started, Noted
  <2>3. AllAreCalled'
    BY <1>1, <2>1, <2>2, CalledKept DEF WakeInv
  <2> QED BY <1>1, <1>2, <2>1, <2>2, <2>3, WakeKept
<1>4. CASE ~coord.running
  <2> DEFINE e == IF Head(fromFront[f]).wave < coord.wave THEN Nobody
                  ELSE Head(fromFront[f]).exclude
             m == [wave |-> coord.wave, exclude |-> e]
  <2>1. coord' = [coord EXCEPT !.running = TRUE] /\ SendStartWave(coord.wave, e)
        /\ PublishToFronts(coord')
    BY <1>4 DEF CoordinatorFirstReq
  <2>2. Head(fromFront[f]) \in Notes
    BY <1>1, NoteTaken, CurrentWave
  <2>3. e \in Excluded /\ \A j \in Engines : e # Index(j)
    BY <2>2 DEF Notes, Excluded, Nobody, Identity, Index
  <2>4. coord' \in States /\ coord'.wave = coord.wave /\ coord'.running
    BY <2>1, CurrentWave, CoordType DEF States
  <2>m. m.wave = coord.wave /\ m.exclude = e
    OBVIOUS
  <2> HIDE DEF e
  <2>5. \A j \in Engines : Msgs(start'[j]) = Msgs(start[j]) \union {m}
    BY <2>1, <2>3, WaveStarted, CurrentWave DEF Waves
  <2>6. \A g \in Fronts : Msgs(toFront'[g]) = Msgs(toFront[g]) \union {coord'}
    BY <2>1, <2>4, Published, CurrentWave
  <2> HIDE DEF m
  <2>7. ~Started /\ (Noted => Started') /\ (coord.wave = eng[0].wave => Started')
    BY <1>1, <1>4, <2>4 DEF Started, Noted
  <2>8. AllAreCalled'
    <3> SUFFICES ASSUME Started', NEW j \in Engines
                 PROVE  \E n \in Msgs(start'[j]) :
                          n.exclude # Index(j) /\ n.wave >= eng'[j].wave
      BY DEF AllAreCalled, Called, StartApplies, Msgs
    <3>1. m.wave = eng'[j].wave /\ eng'[j].wave \in Nat
      BY <1>1, <2>4, <2>m, CurrentWave DEF Started
    <3>2. m.exclude # Index(j) /\ m.wave >= eng'[j].wave
      BY <2>3, <2>m, <3>1
    <3> QED BY <2>5, <3>2
  <2> QED BY <1>1, <1>2, <2>4, <2>m, <2>5, <2>6, <2>7, <2>8, WakeKept
<1> QED BY <1>3, <1>4

LEMMA WakeWaveComplete ==
    ASSUME WaveInv, WakeInv, CoordinatorWaveComplete
    PROVE  WakeInv'
<1> DEFINE m == Head(fromEng[0])
<1>1. /\ fromEng[0] # <<>> /\ m.type = "complete"
      /\ fromEng' = [fromEng EXCEPT ![0] = Tail(@)]
      /\ UNCHANGED <<eng, front, firstReq, toEng, start, fromFront>>
  BY DEF CoordinatorWaveComplete
<1>2. \A j \in Engines : Msgs(fromEng[j]) =
        IF j = 0 THEN Msgs(fromEng'[j]) \union {Head(fromEng[j])} ELSE Msgs(fromEng'[j])
  BY <1>1, ReportTaken, CurrentWave
<1>3. /\ m \in Msgs(fromEng[0])
      /\ \A j \in Engines : \A n \in Msgs(fromEng[j]) :
           n.type = "start" => n \in Msgs(fromEng'[j])
      /\ \A j \in Engines : Msgs(fromEng'[j]) \subseteq Msgs(fromEng[j])
  BY <1>1, <1>2, CurrentWave
<1>4. (Asked => Asked') /\ SyncCounts' /\ \A j \in Engines : Busy(j)' = Busy(j)
  BY <1>1, <1>3 DEF Asked, Busy, WakeInv, SyncCounts, Msgs
<1>5. m.wave \in Nat /\ m.wave < eng[0].wave
  BY <1>1, <1>3, CurrentWave
<1>6. CASE coord.wave <= m.wave
  <2>1. coord' = [wave |-> m.wave + 1, running |-> FALSE] /\ PublishToFronts(coord')
    BY <1>6 DEF CoordinatorWaveComplete
  <2>2. coord' \in States /\ ~coord'.running
    BY <1>5, <2>1 DEF States, Waves
  <2>3. \A g \in Fronts : Msgs(toFront'[g]) = Msgs(toFront[g]) \union {coord'}
    BY <2>1, <2>2, Published, CurrentWave
  <2>4. ~Started /\ ~Noted /\ ~Started'
    BY <1>5, <1>6, <2>2, CurrentWave DEF Started, Noted
  <2>5. AllAreCalled'
    BY <2>4 DEF AllAreCalled
  <2> QED BY <1>1, <1>3, <1>4, <2>2, <2>3, <2>4, <2>5, WakeKept
<1>7. CASE ~(coord.wave <= m.wave)
  <2>1. UNCHANGED <<coord, toFront>>
    BY <1>7 DEF CoordinatorWaveComplete
  <2>2. Started' = Started /\ Noted' = Noted
    BY <1>1, <2>1 DEF Started, Noted, NotesUnderWay
  <2>3. AllAreCalled'
    BY <1>1, <2>2, CalledKept DEF WakeInv
  <2> QED BY <1>1, <1>3, <1>4, <2>1, <2>2, <2>3, WakeKept
<1> QED BY <1>6, <1>7

LEMMA WakeStartWave ==
    ASSUME WaveInv, WakeInv, NEW i \in Engines, CoordinatorStartWave(i)
    PROVE  WakeInv'
<1> DEFINE r == Head(fromEng[i])
<1>1. /\ fromEng[i] # <<>> /\ r.type = "start"
      /\ fromEng' = [fromEng EXCEPT ![i] = Tail(@)]
      /\ UNCHANGED <<eng, front, firstReq, toEng, fromFront>>
  BY DEF CoordinatorStartWave
<1>2. \A j \in Engines : Msgs(fromEng[j]) =
        IF j = i THEN Msgs(fromEng'[j]) \union {Head(fromEng[j])} ELSE Msgs(fromEng'[j])
  BY <1>1, ReportTaken, CurrentWave
<1>3. /\ r \in Msgs(fromEng[i])
      /\ \A j \in Engines : \A n \in Msgs(fromEng[j]) : n = r \/ n \in Msgs(fromEng'[j])
      /\ \A j \in Engines : Msgs(fromEng'[j]) \subseteq Msgs(fromEng[j])
  BY <1>2
<1>4. SyncCounts' /\ \A j \in Engines : Busy(j)' = Busy(j)
  BY <1>1 DEF Busy, WakeInv, SyncCounts
<1>5. /\ r.wave \in Nat /\ r.wave <= eng[0].wave
      /\ r.wave = eng[0].wave => eng[i].running
  BY <1>1, <1>3, CurrentWave DEF WakeInv, NewsIsTrue
<1>6. Asked => Asked' \/ r.wave = eng[0].wave
  BY <1>1, <1>3 DEF Asked, Msgs
<1>7. CASE StartIsNews(r.wave)
  <2> DEFINE m == [wave |-> r.wave, exclude |-> Index(i)]
  <2>1. /\ coord' = [wave |-> r.wave, running |-> TRUE]
        /\ SendStartWave(r.wave, Index(i)) /\ PublishToFronts(coord')
    BY <1>7 DEF CoordinatorStartWave
  <2>2. coord' \in States /\ coord'.wave = r.wave /\ coord'.running /\ Index(i) \in Excluded
    BY <1>5, <2>1 DEF States, Waves, Excluded
  <2>m. m.wave = r.wave /\ m.exclude = Index(i)
    OBVIOUS
  <2>3. \A j \in Engines : Msgs(start'[j]) = Msgs(start[j]) \union {m}
    BY <1>5, <2>1, <2>2, WaveStarted, CurrentWave DEF Waves
  <2> HIDE DEF m
  <2>4. \A g \in Fronts : Msgs(toFront'[g]) = Msgs(toFront[g]) \union {coord'}
    BY <2>1, <2>2, Published, CurrentWave
  <2>5. Started' <=> r.wave = eng[0].wave
    BY <1>1, <2>2 DEF Started
  <2>6. ~Started /\ (Noted => Started')
    BY <1>5, <1>7, <2>5, CurrentWave DEF Started, Noted, StartIsNews
  <2>7. AllAreCalled'
    <3> SUFFICES ASSUME Started', NEW j \in Engines
                 PROVE  \/ eng'[j].running
                        \/ \E n \in Msgs(start'[j]) :
                             n.exclude # Index(j) /\ n.wave >= eng'[j].wave
      BY DEF AllAreCalled, Called, StartApplies, Msgs
    <3>1. CASE j = i
      BY <1>1, <1>5, <2>5, <3>1
    <3>2. CASE j # i
      <4>1. m.wave = eng'[j].wave /\ eng'[j].wave \in Nat
        BY <1>1, <2>5, <2>m, CurrentWave
      <4>2. m.exclude # Index(j)
        BY <2>m, <3>2 DEF Index
      <4>3. m.wave >= eng'[j].wave
        BY <4>1
      <4> QED BY <2>3, <4>2, <4>3
    <3> QED BY <3>1, <3>2
  <2>8. Started \/ Noted \/ Asked => Started' \/ Noted' \/ Asked'
    BY <1>6, <2>5, <2>6
  <2>9. m.wave = eng[0].wave => Started'
    BY <2>5, <2>m
  <2>10. coord'.wave = eng[0].wave => Started'
    BY <2>2, <2>5
  <2> QED BY <1>1, <1>3, <1>4, <2>3, <2>4, <2>6, <2>7, <2>8, <2>9, <2>10, WakeKept
<1>8. CASE ~StartIsNews(r.wave)
  <2>1. UNCHANGED <<coord, start, toFront>>
    BY <1>8 DEF CoordinatorStartWave
  <2>2. Started' = Started /\ Noted' = Noted
    BY <1>1, <2>1 DEF Started, Noted, NotesUnderWay
  <2>3. r.wave = eng[0].wave => Started
    BY <1>5, <1>8, CurrentWave DEF StartIsNews, Started
  <2>4. AllAreCalled'
    BY <1>1, <2>1, <2>2, CalledKept DEF WakeInv
  <2> QED BY <1>1, <1>3, <1>4, <1>6, <2>1, <2>2, <2>3, <2>4, WakeKept
<1> QED BY <1>7, <1>8

LEMMA WakePublishStats ==
    ASSUME WaveInv, WakeInv, PublishStats
    PROVE  WakeInv'
<1>1. /\ PublishToFronts(coord)
      /\ UNCHANGED <<eng, coord, front, firstReq, toEng, start, fromFront, fromEng>>
  BY DEF PublishStats
<1>2. \A g \in Fronts : Msgs(toFront'[g]) = Msgs(toFront[g]) \union {coord}
  BY <1>1, CurrentWave, CoordType, Published
<1>3. Started' = Started /\ Asked' = Asked /\ Noted' = Noted
  BY <1>1 DEF Started, Asked, Noted, NotesUnderWay, Msgs
<1>4. AllAreCalled' /\ SyncCounts'
  BY <1>1, <1>3, CalledKept DEF WakeInv, SyncCounts
<1>5. \A j \in Engines : Busy(j)' = Busy(j)
  BY <1>1 DEF Busy
<1>6. coord.wave = eng[0].wave /\ coord.running => Started'
  BY <1>3 DEF Started
<1> QED BY <1>1, <1>2, <1>3, <1>4, <1>5, <1>6, WakeKept

\* Engine i may take a START_DP_WAVE, but none that makes it run unless it does.
StartsObeyed(i, running) ==
  /\ \A j \in Engines : Msgs(start'[j]) \subseteq Msgs(start[j])
  /\ \A j \in Engines \ {i} : Msgs(start[j]) \subseteq Msgs(start'[j])
  /\ \/ running
     \/ \A m \in Msgs(start[i]) : StartApplies(i, m) => m \in Msgs(start'[i])

LEMMA StartsKept ==
    ASSUME NEW i \in Engines, NEW running, UNCHANGED start PROVE StartsObeyed(i, running)
BY DEF StartsObeyed, Msgs

\* A step of one engine within a wave.
LEMMA WakeEngineMoves ==
    ASSUME WaveInv, WakeInv, NEW i \in Engines,
           NEW running, NEW todo, NEW paused, NEW owes, NEW phase,
           EngineMoves(i, eng[i].wave, running, todo, paused, owes, phase),
           eng[i].running => running,
           UNCHANGED <<coord, front, firstReq, fromFront, toFront>>,
           \A f \in Fronts, j \in Engines : Msgs(toEng'[f][j]) \subseteq Msgs(toEng[f][j]),
           StartsObeyed(i, running),
           \A j \in Engines : Msgs(fromEng[j]) \subseteq Msgs(fromEng'[j]),
           \A j \in Engines : \A m \in Msgs(fromEng'[j]) :
             m \in Msgs(fromEng[j]) \/ (j = i /\ running),
           running \/ todo > 0 \/ phase # "loop" =>
             Busy(i) \/ Started \/ Noted \/ Asked'
    PROVE  WakeInv'
<1>1. /\ \A j \in Engines \ {i} : eng'[j] = eng[j]
      /\ eng'[i].wave = eng[i].wave /\ eng'[i].running = running /\ eng'[i].todo = todo
      /\ eng'[i].phase = phase
  BY EngineMoved, CurrentWave
<1>2. /\ \A j \in Engines : eng'[j].wave = eng[j].wave
      /\ \A j \in Engines : eng[j].running => eng'[j].running
      /\ eng'[0].wave = eng[0].wave
  BY <1>1, CurrentWave
<1>3. Started' = Started /\ Noted' = Noted /\ (Asked => Asked')
  BY <1>2 DEF Started, Noted, NotesUnderWay, Asked, Msgs
<1>4. \A j \in Engines : Busy(j)' => Busy(j) \/ Started' \/ Noted' \/ Asked'
  <2>1. Busy(i)' => running \/ todo > 0 \/ phase # "loop"
    BY <1>1 DEF Busy
  <2>2. \A j \in Engines \ {i} : Busy(j)' = Busy(j)
    BY <1>1 DEF Busy
  <2> QED BY <1>3, <2>1, <2>2
<1>5. AllAreCalled'
  <2> SUFFICES ASSUME Started, NEW j \in Engines
               PROVE  \/ eng'[j].running
                      \/ \E m \in Msgs(start'[j]) :
                           m.exclude # Index(j) /\ m.wave >= eng'[j].wave
    BY <1>3 DEF AllAreCalled, Called, StartApplies, Msgs
  <2>1. eng[j].running \/ \E m \in Msgs(start[j]) : StartApplies(j, m)
    BY DEF WakeInv, AllAreCalled, Called
  <2>2. eng'[j].running \/ \E m \in Msgs(start'[j]) : StartApplies(j, m)
    BY <1>1, <1>2, <2>1 DEF StartsObeyed
  <2> QED BY <1>2, <2>2 DEF StartApplies
<1>6. SyncCounts'
  <2>1. phase # "sync"
    BY DEF EngineMoves
  <2> QED BY <1>1, <2>1 DEF WakeInv, SyncCounts
<1>7. \A j \in Engines : \A m \in Msgs(fromEng'[j]) :
        m \in Msgs(fromEng[j]) \/ eng'[j].running
  BY <1>1
<1>8. \A j \in Engines : Msgs(start'[j]) \subseteq Msgs(start[j])
  BY DEF StartsObeyed
<1> QED BY <1>2, <1>3, <1>4, <1>5, <1>6, <1>7, <1>8, WakeKept

\* A request of an earlier wave starts the next one; one of this wave was announced by
\* the front end that has sent it.
LEMMA WakeAddRequest ==
    ASSUME WaveInv, WakeInv, NobodyPauses, NEW f \in Fronts, NEW i \in Engines,
           AddRequest(f, i)
    PROVE  WakeInv'
<1> DEFINE m == Head(toEng[f][i])
           stale == m.wave < eng[i].wave /\ ~eng[i].running /\ ~eng[i].paused
           running == eng[i].running \/ stale
<1>t. TypeOK /\ eng[i].wave = eng[0].wave
  BY CurrentWave
<1>1. /\ Receive(f, i, "add")
      /\ UNCHANGED <<coord, front, firstReq, start, fromFront, toFront>>
      /\ fromEng' = IF stale THEN [fromEng EXCEPT ![i] =
                               Append(@, [type |-> "start", wave |-> eng[i].wave])]
                    ELSE fromEng
  BY DEF AddRequest
<1>r. Receive(f, i, "add")
  BY <1>1
<1>2. /\ \A g \in Fronts, j \in Engines : Msgs(toEng'[g][j]) \subseteq Msgs(toEng[g][j])
      /\ m \in Msgs(toEng[f][i]) /\ m.type = "add"
  BY <1>t, <1>r, Received
<1>3. m.wave \in Nat /\ m.wave <= eng[i].wave /\ eng[i].wave \in Nat
  BY <1>t, <1>2, <1>r, NobodyIsAhead, AddMessage, EngineFields
<1>4. EngineMoves(i, eng[i].wave, running, eng[i].todo + 1,
                  eng[i].paused, eng[i].owesReply, "loop")
  <2>1. (IF m.wave > eng[i].wave THEN m.wave ELSE eng[i].wave) = eng[i].wave
    BY <1>3
  <2> QED BY <1>t, <2>1, EngineSteps
<1>5. m.wave < eng[i].wave => eng[i].running \/ stale
  BY DEF NobodyPauses
<1>6. m.wave = eng[0].wave => Started \/ Noted
  BY <1>2 DEF WakeInv, NewsIsTrue
<1>7. stale \in BOOLEAN /\ (stale => running) /\ (eng[i].running => running)
  OBVIOUS
<1> HIDE DEF stale, running
<1>8. /\ \A j \in Engines : \A n \in Msgs(fromEng'[j]) :
           n \in Msgs(fromEng[j]) \/ (stale /\ j = i)
      /\ \A j \in Engines : Msgs(fromEng[j]) \subseteq Msgs(fromEng'[j])
      /\ stale => [type |-> "start", wave |-> eng[i].wave] \in Msgs(fromEng'[i])
  <2>1. fromEng' = IF stale THEN [fromEng EXCEPT ![i] =
                               Append(@, [type |-> "start", wave |-> eng[i].wave])]
                   ELSE fromEng
    BY <1>1
  <2> QED BY <1>t, <1>7, <2>1, StartRequested
<1>9. stale => Asked'
  <2>1. eng'[0].wave = eng[0].wave
    <3>1. \A j \in Engines : eng'[j].wave = eng[j].wave
      BY <1>t, <1>4, SameWave
    <3> QED BY <3>1, CurrentWave
  <2>2. stale => \E n \in Msgs(fromEng'[i]) : n.type = "start" /\ n.wave = eng[0].wave
    BY <1>t, <1>8
  <2> QED BY <2>1, <2>2 DEF Asked, Msgs
<1>10. Busy(i) \/ Started \/ Noted \/ Asked'
  <2>1. m.wave < eng[i].wave \/ m.wave = eng[0].wave
    BY <1>t, <1>3
  <2> QED BY <2>1, <1>5, <1>6, <1>9 DEF Busy
<1> QED BY <1>1, <1>2, <1>4, <1>7, <1>8, <1>10, StartsKept, WakeEngineMoves

LEMMA WakeEngineStep ==
    ASSUME WaveInv, WakeInv, NobodyPauses, NEW i \in Engines, EngineStep(i)
    PROVE  WakeInv'
<1>t. TypeOK /\ eng[i].wave = eng[0].wave
  BY CurrentWave
<1>1. ASSUME NEW f \in Fronts, RefuseRequest(f, i) PROVE WakeInv'
  <2>1. /\ Receive(f, i, "add")
        /\ UNCHANGED <<eng, coord, front, firstReq, start, fromFront, fromEng, toFront>>
    BY <1>1 DEF RefuseRequest
  <2>2. \A g \in Fronts, j \in Engines : Msgs(toEng'[g][j]) \subseteq Msgs(toEng[g][j])
    BY <1>t, <2>1, Received
  <2>3. Started' = Started /\ Noted' = Noted /\ Asked' = Asked
    BY <2>1 DEF Started, Noted, NotesUnderWay, Asked, Msgs
  <2>4. AllAreCalled' /\ SyncCounts' /\ \A j \in Engines : Busy(j)' = Busy(j)
    BY <2>1, <2>3, CalledKept DEF WakeInv, SyncCounts, Busy
  <2> QED BY <2>1, <2>2, <2>3, <2>4, WakeKept
<1>2. ASSUME NEW f \in Fronts, AbortRequest(f, i) PROVE WakeInv'
  <2>1. /\ Receive(f, i, "abort")
        /\ UNCHANGED <<coord, front, firstReq, start, fromFront, fromEng, toFront>>
    BY <1>2 DEF AbortRequest
  <2>2. \A g \in Fronts, j \in Engines : Msgs(toEng'[g][j]) \subseteq Msgs(toEng[g][j])
    BY <1>t, <2>1, Received
  <2>3. PICK todo \in 0..eng[i].todo :
          EngineMoves(i, eng[i].wave, eng[i].running, todo, eng[i].paused,
                      eng[i].owesReply, "loop")
    BY <1>t, <1>2, EngineSteps
  <2>4. todo > 0 => eng[i].todo > 0
    BY <1>t, EngineFields
  <2>5. eng[i].running \/ todo > 0 \/ "loop" # "loop" => Busy(i)
    BY <2>4 DEF Busy
  <2> QED BY <2>1, <2>2, <2>3, <2>5, StartsKept, WakeEngineMoves
<1>3. ASSUME StartWave(i) PROVE WakeInv'
  <2> DEFINE m == Head(start[i])
             applies == StartApplies(i, m)
             running == applies \/ eng[i].running
  <2>1. /\ start[i] # <<>> /\ start' = [start EXCEPT ![i] = Tail(@)]
        /\ UNCHANGED <<coord, front, firstReq, toEng, fromFront, fromEng, toFront>>
    BY <1>3 DEF StartWave
  <2>2. \A j \in Engines : Msgs(start[j]) =
          IF j = i THEN Msgs(start'[j]) \union {Head(start[j])} ELSE Msgs(start'[j])
    BY <1>t, <2>1, StartTaken
  <2>3. /\ m \in Msgs(start[i])
        /\ \A j \in Engines : Msgs(start'[j]) \subseteq Msgs(start[j])
        /\ \A j \in Engines \ {i} : Msgs(start[j]) \subseteq Msgs(start'[j])
        /\ \A n \in Msgs(start[i]) : n = m \/ n \in Msgs(start'[i])
    BY <2>2
  <2>4. applies => m.wave = eng[i].wave
    BY <2>3, NobodyIsAhead
  <2>5. EngineMoves(i, eng[i].wave, running, eng[i].todo,
                    eng[i].paused, eng[i].owesReply, "loop")
    <3>1. (IF applies THEN m.wave ELSE eng[i].wave) = eng[i].wave
      BY <2>4
    <3> QED BY <1>t, <1>3, <3>1, EngineSteps
  <2>6. applies => Started
    BY <1>t, <2>3, <2>4 DEF WakeInv, NewsIsTrue
  <2>7. StartsObeyed(i, running)
    BY <2>3 DEF StartsObeyed
  <2>8. running \/ eng[i].todo > 0 \/ "loop" # "loop" => Busy(i) \/ Started
    BY <2>6 DEF Busy
  <2>9. eng[i].running => running
    OBVIOUS
  <2> HIDE DEF running
  <2> QED BY <2>1, <2>5, <2>7, <2>8, <2>9, WakeEngineMoves
<1>4. ASSUME EnterPass(i) PROVE WakeInv'
  <2>1. UNCHANGED <<coord, front, firstReq, toEng, start, fromFront, fromEng, toFront>>
    BY <1>4 DEF EnterPass
  <2>2. /\ HasWork(eng[i])
        /\ EngineMoves(i, eng[i].wave, eng[i].running, eng[i].todo, eng[i].paused,
                       eng[i].owesReply, "pass")
    BY <1>t, <1>4, EngineSteps
  <2>3. Busy(i)
    BY <2>2 DEF HasWork, HasUnfinished, Busy
  <2> QED BY <2>1, <2>2, <2>3, StartsKept, WakeEngineMoves
<1> QED BY <1>t, <1>1, <1>2, <1>3, <1>4, WakeAddRequest, EngineStepWithoutPause

LEMMA WakeCompletePass ==
    ASSUME WaveInv, WakeInv, NobodyPauses, CompletePass
    PROVE  WakeInv'
<1>1. UNCHANGED <<coord, front, firstReq, toEng, start, fromFront, fromEng, toFront>>
  BY DEF CompletePass
<1>2. \A i \in Engines :
        /\ eng[i].phase = "pass" /\ eng'[i].wave = eng[i].wave
        /\ eng[i].running => eng'[i].running
        /\ eng'[i].unfinished <=> eng'[i].todo > 0 /\ ~eng[i].paused
  BY PassCompleted, CurrentWave
<1>3. eng'[0].wave = eng[0].wave
  BY <1>2, CurrentWave
<1>4. Started' = Started /\ Noted' = Noted /\ Asked' = Asked
  BY <1>1, <1>3 DEF Started, Noted, NotesUnderWay, Asked, Msgs
<1>5. AllAreCalled'
  BY <1>1, <1>2, <1>4, CalledKept DEF WakeInv
<1>6. SyncCounts'
  BY <1>2 DEF SyncCounts, NobodyPauses
<1>7. \A i \in Engines : Busy(i)
  BY <1>2 DEF Busy
<1> QED BY <1>1, <1>2, <1>3, <1>4, <1>5, <1>6, <1>7, WakeKept

\* Either the engines go on within the wave, or they all end it without work: then
\* nothing of the next wave can be under way.
LEMMA WakeCompleteSync ==
    ASSUME WaveInv, WakeInv, CompleteSync
    PROVE  WakeInv'
<1> DEFINE more == \E i \in Engines : eng[i].unfinished
           m == [type |-> "complete", wave |-> eng[0].wave]
<1>t. TypeOK /\ 0 \in Engines /\ eng[0].wave \in Nat
  BY CurrentWave
<1>1. /\ fromEng' = IF more THEN fromEng ELSE [fromEng EXCEPT ![0] = Append(@, m)]
      /\ UNCHANGED <<coord, front, firstReq, toEng, start, fromFront, toFront>>
  BY DEF CompleteSync
<1>2. \A i \in Engines :
        /\ eng[i].phase = "sync" /\ eng'[i].phase = "loop"
        /\ eng'[i].wave = IF more THEN eng[i].wave ELSE eng[i].wave + 1
        /\ eng'[i].running = more /\ eng'[i].todo = eng[i].todo
  BY <1>t, SyncCompleted
<1>3. SyncCounts'
  BY <1>2 DEF SyncCounts
<1> HIDE DEF more
<1>4. CASE more
  <2>1. \A i \in Engines : eng'[i].wave = eng[i].wave /\ eng'[i].running
    BY <1>2, <1>4
  <2>2. fromEng' = fromEng /\ eng'[0].wave = eng[0].wave
    BY <1>t, <1>1, <1>4, <2>1
  <2>3. Started' = Started /\ Noted' = Noted /\ Asked' = Asked
    BY <1>1, <2>2 DEF Started, Noted, NotesUnderWay, Asked, Msgs
  <2>4. AllAreCalled'
    BY <1>1, <2>1, <2>3, CalledKept DEF WakeInv
  <2>5. \A i \in Engines : Busy(i)
    BY <1>2 DEF Busy
  <2> QED BY <1>1, <1>3, <2>1, <2>2, <2>3, <2>4, <2>5, WakeKept
<1>5. CASE ~more
  <2>1. \A i \in Engines : ~(eng[i].todo > 0)
    BY <1>2, <1>5 DEF more, WakeInv, SyncCounts
  <2>2. \A i \in Engines : ~Busy(i)'
    BY <1>2, <1>5, <2>1 DEF Busy
  <2>3. eng'[0].wave = eng[0].wave + 1
    BY <1>t, <1>2, <1>5
  <2>4. m \in Reports /\ m.type = "complete"
    BY <1>t DEF Reports, Waves
  <2>5. fromEng' = [fromEng EXCEPT ![0] = Append(@, m)]
    BY <1>1, <1>5
  <2> HIDE DEF m
  <2>6. \A j \in Engines : Msgs(fromEng'[j]) \subseteq Msgs(fromEng[j]) \union {m}
    BY <1>t, <2>4, <2>5, Reported
  <2>7. ~Started'
    BY <1>1, <2>3, CurrentWave DEF Started
  <2>8. NewsIsTrue'
    <3>1. \A i \in Engines : \A n \in Msgs(start[i]) : n.wave # eng'[0].wave
      BY <2>3, CurrentWave
    <3>2. \A i \in Engines : \A n \in Msgs(fromEng'[i]) :
            ~(n.type = "start" /\ n.wave = eng'[0].wave)
      BY <2>3, <2>4, <2>6, CurrentWave
    <3>3. \A f \in Fronts : \A n \in Msgs(toFront[f]) : n.wave # eng'[0].wave
      BY <2>3, CurrentWave
    <3>4. \A f \in Fronts : front[f].wave # eng'[0].wave
      BY <2>3, CurrentWave
    <3>5. \A f \in Fronts, i \in Engines : \A n \in Msgs(toEng[f][i]) :
            ~(n.type = "add" /\ n.wave = eng'[0].wave)
      BY <2>3, CurrentWave
    <3> QED BY <1>1, <3>1, <3>2, <3>3, <3>4, <3>5 DEF NewsIsTrue, Msgs
  <2> QED BY <1>3, <2>2, <2>7, <2>8 DEF WakeInv, BusyIsKnown, AllAreCalled
<1> QED BY <1>4, <1>5

LEMMA WakeNext ==
    ASSUME WaveInv, WakeInv, NobodyPauses, [Next]_vars
    PROVE  WakeInv'
<1>1. CASE UNCHANGED vars
  <2>1. UNCHANGED <<eng, coord, front, firstReq, toEng, start, fromFront, fromEng, toFront>>
    BY <1>1 DEF vars
  <2>2. Started' = Started /\ Noted' = Noted /\ Asked' = Asked
    BY <2>1 DEF Started, Noted, NotesUnderWay, Asked, Msgs
  <2>3. AllAreCalled' /\ SyncCounts' /\ \A j \in Engines : Busy(j)' = Busy(j)
    BY <2>1, <2>2, CalledKept DEF WakeInv, SyncCounts, Busy
  <2> QED BY <2>1, <2>2, <2>3, WakeKept
<1>2. ~SendPause /\ ~SendResume
  BY DEF SendPause, SendResume, NobodyPauses
<1>3. CASE CoordinatorStep
  BY <1>3, WakeWaveComplete, WakeFirstReq, WakeStartWave DEF CoordinatorStep
<1> QED BY <1>1, <1>2, <1>3, WakeSendRequest, WakeSendAbort, WakeFrontTask,
           WakePublishStats, WakeEngineStep, WakeCompletePass, WakeCompleteSync DEF Next

\* Whatever is under way at the time: an engine that others wait for in a forward pass
\* has work, is called, or will be called for.
LEMMA WakeSuffices == WaveInv /\ WakeInv => NobodyWaitsForever
<1> SUFFICES ASSUME WaveInv, WakeInv, NEW i \in Engines, NEW j \in Engines,
                    eng[i].phase = "pass"
             PROVE  SomebodyWakes(j)
  BY DEF NobodyWaitsForever
<1>1. Started \/ Noted \/ Asked
  BY DEF WakeInv, BusyIsKnown, Busy
<1>2. CASE Started
  <2>1. Called(j)
    BY <1>2 DEF WakeInv, AllAreCalled
  <2> QED BY <2>1 DEF Called, SomebodyWakes, HasWork, Msgs
<1>3. CASE Noted
  BY <1>3 DEF Noted, NotesUnderWay, SomebodyWakes
<1>4. CASE Asked
  <2>1. PICK k \in Engines : Msgs(fromEng[k]) # {}
    BY <1>4 DEF Asked
  <2>2. fromEng[k] # <<>>
    BY <2>1, MsgsOfEmpty
  <2> QED BY <2>2 DEF SomebodyWakes
<1> QED BY <1>1, <1>2, <1>3, <1>4

\* As long as no client pauses the engines, no engine waits in a forward pass for one
\* that nobody wakes.
THEOREM NobodyWaits == Spec /\ left.pauses = 0 => []NobodyWaitsForever
<1> DEFINE Inv == WaveInv /\ NobodyPauses /\ WakeInv
<1>1. Init /\ left.pauses = 0 => Inv
  BY InitWaves, InitWake
<1>2. Inv /\ [Next]_vars => Inv'
  BY WavesNext, NobodyPausesKept, WakeNext, CurrentWave
<1>3. Inv => NobodyWaitsForever
  BY WakeSuffices
<1> QED BY <1>1, <1>2, <1>3, PTL DEF Spec
=============================================================================
