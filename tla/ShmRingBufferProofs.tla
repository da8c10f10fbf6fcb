------------------------- MODULE ShmRingBufferProofs ------------------------
(***************************************************************************)
(* Proofs about ShmRingBuffer: for every number of readers and chunks the  *)
(* flags protect the chunks, no reader sleeps through a message, and what  *)
(* the readers get is what an atomic queue would give them.                *)
(***************************************************************************)
EXTENDS ShmRingBuffer, Integers, SequenceTheorems, TLAPS

-----------------------------------------------------------------------------
(* The inductive invariant of FlagsProtectChunks                            *)

\* The writer has taken a chunk and not yet published it.
Writing == writer.pc \in {"write", "reset", "publish"}

\* What the writer is about to do fits what it has sent.
WriterInv ==
  /\ writer.pc = "acquire" \/ Writing => writer.sent < MaxMessages
  /\ writer.pc = "send" => writer.sent \in Large
  /\ writer.pc = "reset" => writer.i <= NReaders
  /\ Writing => ~written[writer.idx]

\* A reader that is to copy a chunk has it published and unread; one that is about
\* to wait would be told of a message in its chunk.
ReaderInv(r) ==
  LET s == reader[r].idx
      unread == written[s] /\ ~readFlag[s][r]
  IN
  /\ reader[r].pc = "writtenFlag" /\ ~reader[r].seen => ~readFlag[s][r]
  /\ reader[r].pc \in {"copy", "mark"} => unread
  /\ \/ reader[r].pc \in {"wait", "poll"}
     \/ reader[r].pc = "writtenFlag" /\ reader[r].seen
     => (unread => ping[r] \/ writer.pc \in {"send", "notify"})

FlagInv == TypeOK /\ WriterInv /\ \A r \in Readers : ReaderInv(r)

-----------------------------------------------------------------------------
(* The inductive invariant of the refinement                                *)

\* How many messages ago the writer published the chunk, if it ever did.
Age(s) == IF s < writer.idx THEN writer.idx - s ELSE writer.idx + MaxChunks - s

\* The message that the chunk holds, if any.
MsgIn(s) == writer.sent + 1 - Age(s)

Stored(m) == IF m \in Large THEN Overflow ELSE m

\* The last MaxChunks messages are in the ring, but for the one that the writer is
\* about to replace.
RingInv ==
  /\ \A s \in Slots : written[s] <=> writer.sent >= Age(s) /\ ~(Writing /\ s = writer.idx)
  /\ \A s \in Slots : written[s] => chunk[s] = Stored(MsgIn(s))
  /\ writer.pc \in {"reset", "publish"} => chunk[writer.idx] = Stored(CurrentMessage)
  /\ \A r \in Readers :
       writer.pc = "publish" \/ (writer.pc = "reset" /\ r < writer.i)
         => ~readFlag[writer.idx][r]

\* Reader r has read the chunks of n messages.
HasRead(r, n) ==
  /\ n \in 0..writer.sent
  /\ \/ n = writer.sent /\ reader[r].idx = writer.idx
     \/ n < writer.sent /\ MsgIn(reader[r].idx) = n + 1
  /\ Writing => MsgIn(writer.idx) <= n
  /\ \A s \in Slots : written[s] => (readFlag[s][r] <=> MsgIn(s) <= n)
  /\ reader[r].pc = "mark" => reader[r].obj = Stored(n + 1)
  /\ reader[r].pc = "recv" => n \in Large

\* The messages whose payload has been sent.
PayloadsSent == IF writer.pc = "send" THEN writer.sent - 1 ELSE writer.sent

\* Of these n messages reader r has got all, but for a large one that it is still
\* waiting for or has given up; the payloads it has not received are in its socket.
HasGot(r, n) ==
  /\ Len(got[r]) <= PayloadsSent
  /\ \A k \in 1..Len(got[r]) : got[r][k] = k
  /\ \/ reader[r].pc # "recv" /\ Len(got[r]) = n
     \/ reader[r].pc = "recv" /\ Len(got[r]) = n - 1
     \/ Timeouts /\ reader[r].pc # "recv" /\ n = MaxMessages /\ Len(got[r]) = n - 1
  /\ \A j, k \in 1..Len(socket[r]) : j < k => socket[r][j] < socket[r][k]
  /\ \A m \in Messages : m \in Large =>
       ((Len(got[r]) < m /\ m <= PayloadsSent)
          <=> \E k \in 1..Len(socket[r]) : socket[r][k] = m)
  /\ \A k \in 1..Len(socket[r]) : socket[r][k] \in Large

QueueInv ==
  /\ RingInv
  /\ \A r \in Readers : \E n \in 0..writer.sent : HasRead(r, n) /\ HasGot(r, n)

-----------------------------------------------------------------------------
(* Flags *)

LEMMA ConfigSpec ==
    ASSUME TypeOK
    PROVE  /\ Large \subseteq Messages /\ Timeouts \in BOOLEAN
           /\ NReaders \in Nat \ {0} /\ MaxChunks \in Nat \ {0} /\ MaxMessages \in Nat
  BY RingAssumption DEF TypeOK, Large, Timeouts

LEMMA InitFlags == Init => FlagInv
<1> SUFFICES ASSUME Init PROVE FlagInv
  OBVIOUS
<1> USE RingAssumption DEF Init
<1>1. TypeOK
  <2>1. \A S : <<>> \in Seq(S)
    OBVIOUS
  <2>2. socket \in [Readers -> Seq(Large)] /\ got \in [Readers -> Seq(Messages)]
    BY <2>1
  <2>3. 0 \in Slots /\ 1 \in 1..NReaders + 1 /\ 0 \in 0..MaxMessages
    BY DEF Slots
  <2> QED BY <2>2, <2>3 DEF TypeOK, WriterState, ReaderState, WriterPc, ReaderPc
<1>2. WriterInv
  BY DEF WriterInv, Writing
<1>3. ASSUME NEW r \in Readers PROVE ReaderInv(r)
  BY DEF ReaderInv, Slots
<1> QED BY <1>1, <1>2, <1>3 DEF FlagInv

\* What the steps of the writer and of a reader do to its state.
WriterMoves(pc, idx, i, n) ==
  writer' = [pc |-> pc, idx |-> idx, i |-> i, sent |-> n]

ReaderMoves(r, pc, idx, seen, obj) ==
  reader' = [reader EXCEPT ![r] = [pc |-> pc, idx |-> idx, seen |-> seen, obj |-> obj]]

LEMMA NextIdxType == \A s \in Slots : NextIdx(s) \in Slots
  BY RingAssumption DEF NextIdx, Slots

LEMMA WriterSteps ==
    ASSUME TypeOK
    PROVE  LET w == writer IN
           /\ BeginEnqueue => WriterMoves("acquire", w.idx, w.i, w.sent)
           /\ AcquireWrite => WriterMoves("write", w.idx, w.i, w.sent)
           /\ WriteTimeout \/ Notify => WriterMoves("idle", w.idx, w.i, w.sent)
           /\ WriteChunk => WriterMoves("reset", w.idx, 1, w.sent)
           /\ ResetReadFlag =>
                WriterMoves(IF w.i = NReaders THEN "publish" ELSE "reset",
                            w.idx, w.i + 1, w.sent)
           /\ Publish =>
                WriterMoves(IF CurrentMessage \in Large THEN "send" ELSE "notify",
                            NextIdx(w.idx), w.i, w.sent + 1)
           /\ SendOverflow => WriterMoves("notify", w.idx, w.i, w.sent)
<1>1. writer \in WriterState
  BY DEF TypeOK
<1>2. /\ writer.i \in Int /\ writer.i + 1 \in Int /\ writer.sent \in Int
      /\ writer.sent + 1 \in Int /\ NextIdx(writer.idx) \in Int /\ writer.idx \in Int
  BY <1>1, RingAssumption, NextIdxType DEF WriterState, Slots
<1>3. ASSUME NEW pc \in WriterPc
      PROVE  /\ writer' = [writer EXCEPT !.pc = pc]
                  => WriterMoves(pc, writer.idx, writer.i, writer.sent)
             /\ writer' = [writer EXCEPT !.pc = pc, !.i = 1]
                  => WriterMoves(pc, writer.idx, 1, writer.sent)
             /\ writer' = [writer EXCEPT !.i = writer.i + 1, !.pc = pc]
                  => WriterMoves(pc, writer.idx, writer.i + 1, writer.sent)
             /\ writer' = [writer EXCEPT !.idx = NextIdx(writer.idx),
                                         !.sent = writer.sent + 1, !.pc = pc]
                  => WriterMoves(pc, NextIdx(writer.idx), writer.i, writer.sent + 1)
  <2> DEFINE Rec == [pc: WriterPc, idx: Int, i: Int, sent: Int]
             j == writer.i + 1
             n == writer.sent + 1
             idx == NextIdx(writer.idx)
  <2>1. writer \in Rec
    BY RingAssumption DEF TypeOK, WriterState, Slots
  <2>2. j \in Int /\ n \in Int /\ idx \in Int
    BY <1>2
  <2> HIDE DEF j, n, idx
  <2>3. ASSUME NEW v \in Rec
        PROVE  /\ [v EXCEPT !.pc = pc] = [pc |-> pc, idx |-> v.idx, i |-> v.i, sent |-> v.sent]
               /\ [v EXCEPT !.i = 1] = [pc |-> v.pc, idx |-> v.idx, i |-> 1, sent |-> v.sent]
               /\ [v EXCEPT !.i = j] = [pc |-> v.pc, idx |-> v.idx, i |-> j, sent |-> v.sent]
               /\ [v EXCEPT !.idx = idx] = [pc |-> v.pc, idx |-> idx, i |-> v.i, sent |-> v.sent]
               /\ [v EXCEPT !.sent = n] = [pc |-> v.pc, idx |-> v.idx, i |-> v.i, sent |-> n]
    BY <2>2
  <2>4. PICK v1 \in Rec : v1 = [writer EXCEPT !.pc = pc]
    BY <2>1
  <2>5. PICK v2 \in Rec : v2 = [writer EXCEPT !.i = j]
    BY <2>1, <2>2
  <2>6. PICK v3 \in Rec : v3 = [writer EXCEPT !.idx = idx]
    BY <2>1, <2>2
  <2>7. PICK v4 \in Rec : v4 = [v3 EXCEPT !.sent = n]
    BY <2>2
  <2>8. v1 = [pc |-> pc, idx |-> writer.idx, i |-> writer.i, sent |-> writer.sent]
    BY <2>1, <2>3, <2>4
  <2>9. [writer EXCEPT !.pc = pc, !.i = 1]
          = [pc |-> pc, idx |-> writer.idx, i |-> 1, sent |-> writer.sent]
    BY <2>3, <2>4, <2>8
  <2>10. [writer EXCEPT !.i = j, !.pc = pc]
           = [pc |-> pc, idx |-> writer.idx, i |-> j, sent |-> writer.sent]
    BY <2>1, <2>3, <2>5
  <2>11. [writer EXCEPT !.idx = idx, !.sent = n, !.pc = pc]
           = [pc |-> pc, idx |-> idx, i |-> writer.i, sent |-> n]
    BY <2>1, <2>3, <2>6, <2>7
  <2> QED BY <2>4, <2>8, <2>9, <2>10, <2>11, Zenon DEF WriterMoves, j, n, idx
<1>4. /\ "idle" \in WriterPc /\ "acquire" \in WriterPc /\ "write" \in WriterPc
      /\ "reset" \in WriterPc /\ "publish" \in WriterPc /\ "send" \in WriterPc
      /\ "notify" \in WriterPc
  BY DEF WriterPc
<1>5. (IF writer.i = NReaders THEN "publish" ELSE "reset") \in WriterPc
  BY <1>4
<1>6. (IF CurrentMessage \in Large THEN "send" ELSE "notify") \in WriterPc
  BY <1>4
<1>7. BeginEnqueue => WriterMoves("acquire", writer.idx, writer.i, writer.sent)
  BY <1>3, <1>4 DEF BeginEnqueue
<1>8. AcquireWrite => WriterMoves("write", writer.idx, writer.i, writer.sent)
  BY <1>3, <1>4 DEF AcquireWrite
<1>9. WriteTimeout \/ Notify => WriterMoves("idle", writer.idx, writer.i, writer.sent)
  BY <1>3, <1>4 DEF WriteTimeout, Notify
<1>10. WriteChunk => WriterMoves("reset", writer.idx, 1, writer.sent)
  BY <1>3, <1>4 DEF WriteChunk
<1>11. ResetReadFlag =>
         WriterMoves(IF writer.i = NReaders THEN "publish" ELSE "reset",
                     writer.idx, writer.i + 1, writer.sent)
  BY <1>3, <1>5 DEF ResetReadFlag
<1>12. Publish =>
         WriterMoves(IF CurrentMessage \in Large THEN "send" ELSE "notify",
                     NextIdx(writer.idx), writer.i, writer.sent + 1)
  BY <1>3, <1>6 DEF Publish
<1>13. SendOverflow => WriterMoves("notify", writer.idx, writer.i, writer.sent)
  BY <1>3, <1>4 DEF SendOverflow
<1> QED BY <1>7, <1>8, <1>9, <1>10, <1>11, <1>12, <1>13

LEMMA ReaderSteps ==
    ASSUME TypeOK, NEW r \in Readers
    PROVE  LET R == reader[r]
               retry == IF stopping[r] THEN "stopped" ELSE "readFlag"
           IN
           /\ BeginDequeue(r) => ReaderMoves(r, "readFlag", R.idx, R.seen, R.obj)
           /\ LoadReadFlag(r) =>
                ReaderMoves(r, "writtenFlag", R.idx, readFlag[R.idx][r], R.obj)
           /\ LoadWrittenFlag(r) =>
                ReaderMoves(r, IF written[R.idx] /\ ~R.seen THEN "copy" ELSE "wait",
                            R.idx, R.seen, R.obj)
           /\ WaitYield(r) \/ PollReturns(r) \/ PollTimeout(r) =>
                ReaderMoves(r, retry, R.idx, R.seen, R.obj)
           /\ WaitPoll(r) => ReaderMoves(r, "poll", R.idx, R.seen, R.obj)
           /\ ReadTimeout(r) \/ ReceiveOverflow(r) \/ ReceiveTimeout(r) =>
                ReaderMoves(r, "idle", R.idx, R.seen, R.obj)
           /\ CopyChunk(r) => ReaderMoves(r, "mark", R.idx, R.seen, chunk[R.idx])
           /\ MarkRead(r) =>
                ReaderMoves(r, IF R.obj = Overflow THEN "recv" ELSE "idle",
                            NextIdx(R.idx), R.seen, R.obj)
<1> DEFINE R == reader[r]
           retry == IF stopping[r] THEN "stopped" ELSE "readFlag"
<1>1. /\ R \in ReaderState /\ NextIdx(R.idx) \in Int
      /\ readFlag[R.idx][r] \in BOOLEAN /\ chunk[R.idx] \in Int
  <2>1. R \in ReaderState
    BY DEF TypeOK
  <2>2. R.idx \in Slots
    BY <2>1 DEF ReaderState
  <2>3. NextIdx(R.idx) \in Int
    BY <2>2, NextIdxType, RingAssumption DEF Slots
  <2>4. readFlag[R.idx][r] \in BOOLEAN
    BY <2>2 DEF TypeOK
  <2>5. chunk[R.idx] \in Int
    BY <2>2, RingAssumption DEF TypeOK, Messages, Overflow
  <2> QED BY <2>1, <2>3, <2>4, <2>5
<1>2. ASSUME NEW pc \in ReaderPc
      PROVE  /\ reader' = [reader EXCEPT ![r].pc = pc]
                  => ReaderMoves(r, pc, R.idx, R.seen, R.obj)
             /\ reader' = [reader EXCEPT ![r].seen = readFlag[R.idx][r], ![r].pc = pc]
                  => ReaderMoves(r, pc, R.idx, readFlag[R.idx][r], R.obj)
             /\ reader' = [reader EXCEPT ![r].obj = chunk[R.idx], ![r].pc = pc]
                  => ReaderMoves(r, pc, R.idx, R.seen, chunk[R.idx])
             /\ reader' = [reader EXCEPT ![r].idx = NextIdx(R.idx), ![r].pc = pc]
                  => ReaderMoves(r, pc, NextIdx(R.idx), R.seen, R.obj)
  <2> DEFINE Rec == [pc: ReaderPc, idx: Int, seen: BOOLEAN, obj: Int]
             seen == readFlag[R.idx][r]
             obj == chunk[R.idx]
             idx == NextIdx(R.idx)
  <2>1. R \in Rec
    BY RingAssumption DEF TypeOK, ReaderState, Slots, Messages, Overflow
  <2>2. seen \in BOOLEAN /\ obj \in Int /\ idx \in Int
    BY <1>1
  <2> HIDE DEF seen, obj, idx
  <2>3. ASSUME NEW v \in Rec
        PROVE  /\ [v EXCEPT !.pc = pc]
                     = [pc |-> pc, idx |-> v.idx, seen |-> v.seen, obj |-> v.obj]
               /\ [v EXCEPT !.seen = seen]
                     = [pc |-> v.pc, idx |-> v.idx, seen |-> seen, obj |-> v.obj]
               /\ [v EXCEPT !.obj = obj]
                     = [pc |-> v.pc, idx |-> v.idx, seen |-> v.seen, obj |-> obj]
               /\ [v EXCEPT !.idx = idx]
                     = [pc |-> v.pc, idx |-> idx, seen |-> v.seen, obj |-> v.obj]
    BY <2>2
  <2>4. PICK v1 \in Rec : v1 = [R EXCEPT !.seen = seen]
    BY <2>1, <2>2
  <2>5. PICK v2 \in Rec : v2 = [R EXCEPT !.obj = obj]
    BY <2>1, <2>2
  <2>6. PICK v3 \in Rec : v3 = [R EXCEPT !.idx = idx]
    BY <2>1, <2>2
  <2>7. [R EXCEPT !.pc = pc]
          = [pc |-> pc, idx |-> R.idx, seen |-> R.seen, obj |-> R.obj]
    BY <2>1, <2>3
  <2>8. [R EXCEPT !.seen = seen, !.pc = pc]
          = [pc |-> pc, idx |-> R.idx, seen |-> seen, obj |-> R.obj]
    BY <2>1, <2>3, <2>4
  <2>9. [R EXCEPT !.obj = obj, !.pc = pc]
          = [pc |-> pc, idx |-> R.idx, seen |-> R.seen, obj |-> obj]
    BY <2>1, <2>3, <2>5
  <2>10. [R EXCEPT !.idx = idx, !.pc = pc]
           = [pc |-> pc, idx |-> idx, seen |-> R.seen, obj |-> R.obj]
    BY <2>1, <2>3, <2>6
  <2>11. /\ [reader EXCEPT ![r].pc = pc] = [reader EXCEPT ![r] = [R EXCEPT !.pc = pc]]
         /\ [reader EXCEPT ![r].seen = seen, ![r].pc = pc]
              = [reader EXCEPT ![r] = [R EXCEPT !.seen = seen, !.pc = pc]]
         /\ [reader EXCEPT ![r].obj = obj, ![r].pc = pc]
              = [reader EXCEPT ![r] = [R EXCEPT !.obj = obj, !.pc = pc]]
         /\ [reader EXCEPT ![r].idx = idx, ![r].pc = pc]
              = [reader EXCEPT ![r] = [R EXCEPT !.idx = idx, !.pc = pc]]
    BY DEF TypeOK
  <2> HIDE DEF R
  <2> QED BY <2>7, <2>8, <2>9, <2>10, <2>11, Zenon DEF ReaderMoves, seen, obj, idx, R
<1>3. /\ "readFlag" \in ReaderPc /\ "writtenFlag" \in ReaderPc /\ "wait" \in ReaderPc
      /\ "poll" \in ReaderPc /\ "copy" \in ReaderPc /\ "mark" \in ReaderPc
      /\ "recv" \in ReaderPc /\ "idle" \in ReaderPc /\ "stopped" \in ReaderPc
  BY DEF ReaderPc
<1>4. retry \in ReaderPc
  BY <1>3
<1>5. (IF written[R.idx] /\ ~R.seen THEN "copy" ELSE "wait") \in ReaderPc
  BY <1>3
<1>6. (IF R.obj = Overflow THEN "recv" ELSE "idle") \in ReaderPc
  BY <1>3
<1>7. BeginDequeue(r) => ReaderMoves(r, "readFlag", R.idx, R.seen, R.obj)
  BY <1>2, <1>3 DEF BeginDequeue, Goto
<1>8. LoadReadFlag(r) => ReaderMoves(r, "writtenFlag", R.idx, readFlag[R.idx][r], R.obj)
  BY <1>2, <1>3 DEF LoadReadFlag
<1>9. LoadWrittenFlag(r) =>
        ReaderMoves(r, IF written[R.idx] /\ ~R.seen THEN "copy" ELSE "wait",
                    R.idx, R.seen, R.obj)
  BY <1>2, <1>5 DEF LoadWrittenFlag, Goto
<1>10. WaitYield(r) \/ PollReturns(r) \/ PollTimeout(r) =>
         ReaderMoves(r, retry, R.idx, R.seen, R.obj)
  BY <1>2, <1>4 DEF WaitYield, PollReturns, PollTimeout, AfterWait, Goto
<1>11. WaitPoll(r) => ReaderMoves(r, "poll", R.idx, R.seen, R.obj)
  BY <1>2, <1>3 DEF WaitPoll, Goto
<1>12. ReadTimeout(r) \/ ReceiveOverflow(r) \/ ReceiveTimeout(r) =>
         ReaderMoves(r, "idle", R.idx, R.seen, R.obj)
  BY <1>2, <1>3 DEF ReadTimeout, ReceiveOverflow, ReceiveTimeout, Goto
<1>13. CopyChunk(r) => ReaderMoves(r, "mark", R.idx, R.seen, chunk[R.idx])
  BY <1>2, <1>3 DEF CopyChunk
<1>14. MarkRead(r) =>
         ReaderMoves(r, IF R.obj = Overflow THEN "recv" ELSE "idle",
                     NextIdx(R.idx), R.seen, R.obj)
  BY <1>2, <1>6 DEF MarkRead
<1> QED BY <1>7, <1>8, <1>9, <1>10, <1>11, <1>12, <1>13, <1>14

\* The steps of readers, one by one.
LEMMA ReaderCases ==
    ASSUME NEW r \in Readers, ReaderStep(r)
    PROVE  \/ BeginDequeue(r) \/ LoadReadFlag(r) \/ LoadWrittenFlag(r)
           \/ WaitYield(r) \/ PollTimeout(r) \/ PollReturns(r)
           \/ WaitPoll(r) \/ ReadTimeout(r) \/ ReceiveTimeout(r)
           \/ CopyChunk(r) \/ MarkRead(r) \/ ReceiveOverflow(r)
  BY Zenon DEF ReaderStep

LEMMA TypeStep == TypeOK /\ WriterInv /\ [Next]_vars => TypeOK'
<1> SUFFICES ASSUME TypeOK, WriterInv, [Next]_vars PROVE TypeOK'
  OBVIOUS
<1> DEFINE MemoryOK == /\ written \in [Slots -> BOOLEAN]
                       /\ readFlag \in [Slots -> [Readers -> BOOLEAN]]
                       /\ chunk \in [Slots -> Messages \union {Overflow}]
                       /\ socket \in [Readers -> Seq(Large)]
                       /\ ping \in [Readers -> BOOLEAN]
           OthersOK == /\ config \in Configs /\ stopping \in [Readers -> BOOLEAN]
                       /\ got \in [Readers -> Seq(Messages)]
<1>a. MemoryOK /\ OthersOK /\ writer \in WriterState /\ reader \in [Readers -> ReaderState]
  BY DEF TypeOK
<1>b. /\ writer.pc \in WriterPc /\ writer.idx \in Slots /\ writer.i \in 1..NReaders + 1
      /\ writer.sent \in 0..MaxMessages
  BY <1>a DEF WriterState
<1>c. \A r \in Readers :
        /\ reader[r].pc \in ReaderPc /\ reader[r].idx \in Slots /\ reader[r].seen \in BOOLEAN
        /\ reader[r].obj \in Messages \union {Overflow}
  BY <1>a DEF ReaderState
<1>d. /\ "idle" \in WriterPc /\ "acquire" \in WriterPc /\ "write" \in WriterPc
      /\ "reset" \in WriterPc /\ "publish" \in WriterPc /\ "send" \in WriterPc
      /\ "notify" \in WriterPc
  BY DEF WriterPc
<1>e. /\ "readFlag" \in ReaderPc /\ "writtenFlag" \in ReaderPc /\ "wait" \in ReaderPc
      /\ "poll" \in ReaderPc /\ "copy" \in ReaderPc /\ "mark" \in ReaderPc
      /\ "recv" \in ReaderPc /\ "idle" \in ReaderPc /\ "stopped" \in ReaderPc
  BY DEF ReaderPc
<1>f. ASSUME NEW pc \in WriterPc, NEW idx \in Slots, NEW i \in 1..NReaders + 1,
             NEW n \in 0..MaxMessages, WriterMoves(pc, idx, i, n)
      PROVE  writer' \in WriterState
  BY <1>f DEF WriterMoves, WriterState
<1>g. ASSUME NEW r \in Readers, NEW pc \in ReaderPc, NEW idx \in Slots,
             NEW seen \in BOOLEAN, NEW obj \in Messages \union {Overflow},
             ReaderMoves(r, pc, idx, seen, obj)
      PROVE  reader' \in [Readers -> ReaderState]
  <2>1. [pc |-> pc, idx |-> idx, seen |-> seen, obj |-> obj] \in ReaderState
    BY DEF ReaderState
  <2> QED BY <1>a, <1>g, <2>1, Zenon DEF ReaderMoves
<1>h. ASSUME MemoryOK', OthersOK', writer' \in WriterState,
             reader' \in [Readers -> ReaderState]
      PROVE  TypeOK'
  BY <1>h, Zenon DEF TypeOK
<1>1. CASE BeginEnqueue
  <2>1. writer' \in WriterState
    BY <1>1, <1>b, <1>d, <1>f, WriterSteps
  <2> QED BY <1>a, <1>1, <1>h, <2>1 DEF BeginEnqueue, shared, Large
<1>2. CASE AcquireWrite
  <2>1. writer' \in WriterState
    BY <1>2, <1>b, <1>d, <1>f, WriterSteps
  <2> QED BY <1>a, <1>b, <1>2, <1>h, <2>1 DEF AcquireWrite, Large
<1>3. CASE WriteTimeout
  <2>1. writer' \in WriterState
    BY <1>3, <1>b, <1>d, <1>f, WriterSteps
  <2> QED BY <1>a, <1>3, <1>h, <2>1 DEF WriteTimeout, shared, Large
<1>4. CASE WriteChunk
  <2>1. writer' \in WriterState
    BY <1>4, <1>b, <1>d, <1>f, WriterSteps, RingAssumption
  <2>2. CurrentMessage \in Messages
    BY <1>4, <1>b, RingAssumption DEF WriteChunk, WriterInv, Writing, CurrentMessage, Messages
  <2> QED BY <1>a, <1>b, <1>4, <1>h, <2>1, <2>2 DEF WriteChunk, Large
<1>5. CASE ResetReadFlag
  <2>1. /\ (IF writer.i = NReaders THEN "publish" ELSE "reset") \in WriterPc
        /\ writer.i \in Readers /\ writer.i + 1 \in 1..NReaders + 1
    BY <1>5, <1>b, <1>d, RingAssumption DEF ResetReadFlag, WriterInv, Readers
  <2>2. writer' \in WriterState
    BY <1>5, <1>b, <1>f, <2>1, WriterSteps
  <2>3. readFlag' \in [Slots -> [Readers -> BOOLEAN]]
    BY <1>a, <1>b, <1>5, <2>1 DEF ResetReadFlag
  <2> QED BY <1>a, <1>5, <1>h, <2>2, <2>3 DEF ResetReadFlag, Large
<1>6. CASE Publish
  <2>1. (IF CurrentMessage \in Large THEN "send" ELSE "notify") \in WriterPc
    BY <1>d
  <2>2. NextIdx(writer.idx) \in Slots /\ writer.sent + 1 \in 0..MaxMessages
    BY <1>b, <1>6, NextIdxType, RingAssumption DEF Publish, WriterInv, Writing
  <2>3. writer' \in WriterState
    BY <1>6, <1>b, <1>f, <2>1, <2>2, WriterSteps
  <2> QED BY <1>a, <1>b, <1>6, <1>h, <2>3 DEF Publish, Large
<1>7. CASE SendOverflow
  <2>1. writer' \in WriterState
    BY <1>7, <1>b, <1>d, <1>f, WriterSteps
  <2>2. writer.sent \in Large
    BY <1>7 DEF SendOverflow, WriterInv
  <2>3. socket' \in [Readers -> Seq(Large)]
    BY <1>a, <1>7, <2>2 DEF SendOverflow
  <2> QED BY <1>a, <1>7, <1>h, <2>1, <2>3 DEF SendOverflow, Large
<1>8. CASE Notify
  <2>1. writer' \in WriterState
    BY <1>8, <1>b, <1>d, <1>f, WriterSteps
  <2> QED BY <1>a, <1>8, <1>h, <2>1 DEF Notify, Large
<1>9. ASSUME NEW r \in Readers, ReaderStep(r) PROVE TypeOK'
  <2> DEFINE R == reader[r]
  <2>1. /\ (IF stopping[r] THEN "stopped" ELSE "readFlag") \in ReaderPc
        /\ (IF written[R.idx] /\ ~R.seen THEN "copy" ELSE "wait") \in ReaderPc
        /\ (IF R.obj = Overflow THEN "recv" ELSE "idle") \in ReaderPc
    BY <1>e
  <2>2. /\ readFlag[R.idx][r] \in BOOLEAN
        /\ chunk[R.idx] \in Messages \union {Overflow}
        /\ NextIdx(R.idx) \in Slots
    BY <1>a, <1>c, NextIdxType
  <2>3. reader' \in [Readers -> ReaderState]
    <3>1. CASE BeginDequeue(r)
      BY <3>1, <1>c, <1>e, <1>g, ReaderSteps
    <3>2. CASE LoadReadFlag(r)
      BY <3>2, <1>c, <1>e, <1>g, <2>2, ReaderSteps
    <3>3. CASE LoadWrittenFlag(r)
      BY <3>3, <1>c, <1>g, <2>1, ReaderSteps
    <3>4. CASE WaitYield(r) \/ PollReturns(r) \/ PollTimeout(r)
      BY <3>4, <1>c, <1>g, <2>1, ReaderSteps
    <3>5. CASE WaitPoll(r)
      BY <3>5, <1>c, <1>e, <1>g, ReaderSteps
    <3>6. CASE ReadTimeout(r) \/ ReceiveOverflow(r) \/ ReceiveTimeout(r)
      BY <3>6, <1>c, <1>e, <1>g, ReaderSteps
    <3>7. CASE CopyChunk(r)
      BY <3>7, <1>c, <1>e, <1>g, <2>2, ReaderSteps
    <3>8. CASE MarkRead(r)
      BY <3>8, <1>c, <1>g, <2>1, <2>2, ReaderSteps
    <3> QED BY <1>9, <3>1, <3>2, <3>3, <3>4, <3>5, <3>6, <3>7, <3>8, ReaderCases
  <2>4. CASE BeginDequeue(r) \/ LoadReadFlag(r) \/ LoadWrittenFlag(r) \/ CopyChunk(r)
    BY <1>a, <1>h, <2>3, <2>4
       DEF BeginDequeue, LoadReadFlag, LoadWrittenFlag, CopyChunk, shared, Large
  <2>5. CASE WaitYield(r) \/ WaitPoll(r) \/ ReadTimeout(r) \/ PollTimeout(r) \/ ReceiveTimeout(r)
    BY <1>a, <1>h, <2>3, <2>5
       DEF WaitYield, WaitPoll, ReadTimeout, PollTimeout, ReceiveTimeout, shared, Large
  <2>6. CASE PollReturns(r)
    BY <1>a, <1>h, <2>3, <2>6 DEF PollReturns, Large
  <2>7. CASE MarkRead(r)
    <3>1. readFlag' \in [Slots -> [Readers -> BOOLEAN]]
      BY <1>a, <1>c, <2>7 DEF MarkRead
    <3>2. got' \in [Readers -> Seq(Messages)]
      <4>1. CASE R.obj = Overflow
        BY <1>a, <2>7, <4>1 DEF MarkRead
      <4>2. CASE R.obj # Overflow
        <5>1. R.obj \in Messages
          BY <1>c, <4>2
        <5>2. got' = [got EXCEPT ![r] = Append(got[r], R.obj)]
          BY <2>7, <4>2 DEF MarkRead
        <5> QED BY <1>a, <5>1, <5>2
      <4> QED BY <4>1, <4>2
    <3> QED BY <1>a, <1>h, <2>3, <2>7, <3>1, <3>2 DEF MarkRead, Large
  <2>8. CASE ReceiveOverflow(r)
    <3>1. Head(socket[r]) \in Messages /\ Tail(socket[r]) \in Seq(Large)
      BY <1>a, <2>8, ConfigSpec DEF ReceiveOverflow
    <3>2. got' \in [Readers -> Seq(Messages)] /\ socket' \in [Readers -> Seq(Large)]
      BY <1>a, <2>8, <3>1 DEF ReceiveOverflow
    <3> QED BY <1>a, <1>h, <2>3, <2>8, <3>2 DEF ReceiveOverflow, Large
  <2> QED BY <1>9, <2>4, <2>5, <2>6, <2>7, <2>8, ReaderCases
<1>10. ASSUME NEW r \in Readers, Shutdown(r) PROVE TypeOK'
  BY <1>a, <1>10, <1>h DEF Shutdown, shared, Large
<1>11. CASE UNCHANGED vars
  BY <1>a, <1>11, <1>h DEF vars, shared, Large
<1> QED BY <1>1, <1>2, <1>3, <1>4, <1>5, <1>6, <1>7, <1>8, <1>9, <1>10, <1>11
        DEF Next, WriterStep

\* The fields after a step.
LEMMA WriterFields ==
    ASSUME NEW pc, NEW idx, NEW i, NEW n, WriterMoves(pc, idx, i, n)
    PROVE  writer'.pc = pc /\ writer'.idx = idx /\ writer'.i = i /\ writer'.sent = n
  BY DEF WriterMoves

LEMMA ReaderFields ==
    ASSUME TypeOK, NEW r \in Readers, NEW pc, NEW idx, NEW seen, NEW obj,
           ReaderMoves(r, pc, idx, seen, obj)
    PROVE  /\ reader'[r].pc = pc /\ reader'[r].idx = idx /\ reader'[r].seen = seen
           /\ reader'[r].obj = obj
           /\ \A q \in Readers \ {r} : reader'[q] = reader[q]
<1>1. reader'[r] = [pc |-> pc, idx |-> idx, seen |-> seen, obj |-> obj]
  BY DEF ReaderMoves, TypeOK
<1> QED BY <1>1 DEF ReaderMoves, TypeOK

\* The memory seen by a process, as functions.
LEMMA Fields ==
    ASSUME TypeOK
    PROVE  /\ writer.pc \in WriterPc /\ writer.idx \in Slots /\ writer.i \in 1..NReaders + 1
           /\ writer.sent \in 0..MaxMessages
           /\ \A r \in Readers : /\ reader[r].pc \in ReaderPc /\ reader[r].idx \in Slots
                                 /\ reader[r].seen \in BOOLEAN
                                 /\ reader[r].obj \in Messages \union {Overflow}
  BY DEF TypeOK, WriterState, ReaderState

LEMMA WriterInvStep == FlagInv /\ [Next]_vars => WriterInv'
<1> SUFFICES ASSUME FlagInv, [Next]_vars PROVE WriterInv'
  OBVIOUS
<1>a. TypeOK /\ WriterInv
  BY DEF FlagInv
<1>b. /\ writer.pc \in WriterPc /\ writer.idx \in Slots /\ writer.i \in 1..NReaders + 1
      /\ writer.sent \in 0..MaxMessages
  BY <1>a, Fields
<1>c. MaxMessages \in Nat /\ NReaders \in Nat \ {0} /\ written \in [Slots -> BOOLEAN]
  BY <1>a, RingAssumption DEF TypeOK
<1>1. CASE BeginEnqueue
  <2>1. WriterMoves("acquire", writer.idx, writer.i, writer.sent)
    BY <1>a, <1>1, WriterSteps
  <2> QED BY <1>1, <2>1, WriterFields DEF BeginEnqueue, WriterInv, Writing
<1>2. CASE AcquireWrite
  <2>1. WriterMoves("write", writer.idx, writer.i, writer.sent)
    BY <1>a, <1>2, WriterSteps
  <2> QED BY <1>a, <1>b, <1>c, <1>2, <2>1, WriterFields DEF AcquireWrite, WriterInv, Writing
<1>3. CASE WriteTimeout \/ Notify
  <2>1. WriterMoves("idle", writer.idx, writer.i, writer.sent)
    BY <1>a, <1>3, WriterSteps
  <2> QED BY <2>1, WriterFields DEF WriterInv, Writing
<1>4. CASE WriteChunk
  <2>1. WriterMoves("reset", writer.idx, 1, writer.sent)
    BY <1>a, <1>4, WriterSteps
  <2> QED BY <1>a, <1>b, <1>c, <1>4, <2>1, WriterFields DEF WriteChunk, WriterInv, Writing
<1>5. CASE ResetReadFlag
  <2>1. WriterMoves(IF writer.i = NReaders THEN "publish" ELSE "reset",
                    writer.idx, writer.i + 1, writer.sent)
    BY <1>a, <1>5, WriterSteps
  <2>2. /\ writer'.pc = (IF writer.i = NReaders THEN "publish" ELSE "reset")
        /\ writer'.idx = writer.idx /\ writer'.i = writer.i + 1 /\ writer'.sent = writer.sent
    BY <2>1, WriterFields
  <2> QED BY <1>a, <1>b, <1>c, <1>5, <2>2 DEF ResetReadFlag, WriterInv, Writing
<1>6. CASE Publish
  <2>1. WriterMoves(IF CurrentMessage \in Large THEN "send" ELSE "notify",
                    NextIdx(writer.idx), writer.i, writer.sent + 1)
    BY <1>a, <1>6, WriterSteps
  <2>2. /\ writer'.pc = (IF CurrentMessage \in Large THEN "send" ELSE "notify")
        /\ writer'.sent = writer.sent + 1
    BY <2>1, WriterFields
  <2>3. config' = config
    BY <1>6 DEF Publish
  <2> QED BY <2>2, <2>3 DEF WriterInv, Writing, CurrentMessage, Large
<1>7. CASE SendOverflow
  <2>1. WriterMoves("notify", writer.idx, writer.i, writer.sent)
    BY <1>a, <1>7, WriterSteps
  <2> QED BY <2>1, WriterFields DEF WriterInv, Writing
<1>8. CASE UNCHANGED <<config, writer, written>>
  BY <1>a, <1>8 DEF WriterInv, Writing, Large
<1>9. ASSUME NEW r \in Readers, ReaderStep(r) \/ Shutdown(r)
      PROVE  UNCHANGED <<config, writer, written>>
  BY <1>9 DEF ReaderStep, BeginDequeue, LoadReadFlag, LoadWrittenFlag, WaitYield, WaitPoll,
     PollReturns, ReadTimeout, PollTimeout, CopyChunk, MarkRead, ReceiveOverflow,
     ReceiveTimeout, Shutdown, shared
<1>10. UNCHANGED vars => UNCHANGED <<config, writer, written>>
  BY DEF vars, shared
<1> QED BY <1>1, <1>2, <1>3, <1>4, <1>5, <1>6, <1>7, <1>8, <1>9, <1>10 DEF Next, WriterStep

\* A step of the writer keeps what holds of a reader.
LEMMA ReaderInvWriterStep ==
    ASSUME FlagInv, BeginEnqueue \/ WriterStep, NEW r \in Readers
    PROVE  ReaderInv(r)'
<1>a. TypeOK /\ WriterInv /\ ReaderInv(r)
  BY DEF FlagInv
<1>b. /\ writer.pc \in WriterPc /\ writer.idx \in Slots /\ writer.i \in 1..NReaders + 1
      /\ reader[r].idx \in Slots
  BY <1>a, Fields
<1>c. /\ written \in [Slots -> BOOLEAN] /\ readFlag \in [Slots -> [Readers -> BOOLEAN]]
      /\ ping \in [Readers -> BOOLEAN]
  BY <1>a DEF TypeOK
<1>1. CASE BeginEnqueue \/ WriteTimeout
  <2>1. writer.pc \notin {"send", "notify"} /\ UNCHANGED <<shared, reader>>
    BY <1>1 DEF BeginEnqueue, WriteTimeout
  <2> QED BY <1>a, <2>1 DEF ReaderInv, shared
<1>2. CASE AcquireWrite
  <2>1. /\ writer.pc \notin {"send", "notify"} /\ UNCHANGED <<readFlag, ping, reader>>
        /\ written' = [written EXCEPT ![writer.idx] = FALSE] /\ CanWrite(writer.idx)
    BY <1>2 DEF AcquireWrite
  <2>2. reader[r].idx = writer.idx => written'[reader[r].idx] = FALSE
    BY <1>b, <1>c, <2>1
  <2>3. reader[r].idx # writer.idx => written'[reader[r].idx] = written[reader[r].idx]
    BY <1>b, <1>c, <2>1
  <2>4. reader[r].pc \in {"copy", "mark"} => reader[r].idx # writer.idx
    BY <1>a, <2>1 DEF ReaderInv, CanWrite, ReadByAll
  <2> QED BY <1>a, <2>1, <2>2, <2>3, <2>4 DEF ReaderInv
<1>3. CASE WriteChunk
  <2>1. writer.pc \notin {"send", "notify"} /\ UNCHANGED <<written, readFlag, ping, reader>>
    BY <1>3 DEF WriteChunk
  <2> QED BY <1>a, <2>1 DEF ReaderInv
<1>4. CASE ResetReadFlag
  <2>1. /\ writer.pc = "reset" /\ UNCHANGED <<written, ping, reader>>
        /\ readFlag' = [readFlag EXCEPT ![writer.idx][writer.i] = FALSE]
    BY <1>4 DEF ResetReadFlag
  <2>2. ~written[writer.idx] /\ writer.i \in Readers
    BY <1>a, <1>b, <2>1, RingAssumption DEF WriterInv, Writing, Readers
  <2>3. reader[r].idx = writer.idx => ~written[reader[r].idx]
    BY <2>2
  <2>4. reader[r].idx # writer.idx => readFlag'[reader[r].idx][r] = readFlag[reader[r].idx][r]
    BY <1>b, <1>c, <2>1
  <2>5. ~readFlag[reader[r].idx][r] => ~readFlag'[reader[r].idx][r]
    BY <1>b, <1>c, <2>1, <2>2
  <2> QED BY <1>a, <2>1, <2>3, <2>4, <2>5 DEF ReaderInv
<1>5. CASE Publish
  <2>1. /\ UNCHANGED <<readFlag, ping, reader>>
        /\ written' = [written EXCEPT ![writer.idx] = TRUE]
        /\ WriterMoves(IF CurrentMessage \in Large THEN "send" ELSE "notify",
                       NextIdx(writer.idx), writer.i, writer.sent + 1)
    BY <1>a, <1>5, WriterSteps DEF Publish
  <2>2. writer'.pc \in {"send", "notify"}
    BY <2>1, WriterFields
  <2>3. written[reader[r].idx] => written'[reader[r].idx]
    BY <1>b, <1>c, <2>1
  <2> QED BY <1>a, <2>1, <2>2, <2>3 DEF ReaderInv
<1>6. CASE SendOverflow
  <2>1. /\ UNCHANGED <<written, readFlag, ping, reader>>
        /\ WriterMoves("notify", writer.idx, writer.i, writer.sent)
    BY <1>a, <1>6, WriterSteps DEF SendOverflow
  <2>2. writer'.pc = "notify"
    BY <2>1, WriterFields
  <2> QED BY <1>a, <2>1, <2>2 DEF ReaderInv
<1>7. CASE Notify
  <2>1. UNCHANGED <<written, readFlag, reader>> /\ ping'[r]
    BY <1>7 DEF Notify
  <2> QED BY <1>a, <2>1 DEF ReaderInv
<1> QED BY <1>1, <1>2, <1>3, <1>4, <1>5, <1>6, <1>7 DEF WriterStep

\* So does a step of a reader, for that reader and for the others.
LEMMA ReaderInvReaderStep ==
    ASSUME FlagInv, NEW r \in Readers, ReaderStep(r), NEW q \in Readers
    PROVE  ReaderInv(q)'
<1> DEFINE R == reader[r]
<1>a. TypeOK /\ WriterInv /\ ReaderInv(r) /\ ReaderInv(q)
  BY DEF FlagInv
<1>b. R.idx \in Slots /\ reader[q].idx \in Slots /\ R.seen \in BOOLEAN
  BY <1>a, Fields
<1>c. /\ written \in [Slots -> BOOLEAN] /\ readFlag \in [Slots -> [Readers -> BOOLEAN]]
      /\ ping \in [Readers -> BOOLEAN]
  BY <1>a DEF TypeOK
<1>1. CASE q # r
  <2>1. reader'[q] = reader[q]
    BY <1>1, <1>a, ReaderCases, ReaderSteps, ReaderFields
  <2>2. UNCHANGED <<writer, written>>
    BY DEF ReaderStep, BeginDequeue, LoadReadFlag, LoadWrittenFlag, WaitYield, WaitPoll,
       PollReturns, ReadTimeout, PollTimeout, CopyChunk, MarkRead, ReceiveOverflow,
       ReceiveTimeout, shared
  <2>3. ping'[q] = ping[q]
    BY <1>1, <1>c DEF ReaderStep, BeginDequeue, LoadReadFlag, LoadWrittenFlag, WaitYield,
       WaitPoll, PollReturns, ReadTimeout, PollTimeout, CopyChunk, MarkRead,
       ReceiveOverflow, ReceiveTimeout, shared
  <2>4. readFlag'[reader[q].idx][q] = readFlag[reader[q].idx][q]
    <3>1. CASE MarkRead(r)
      BY <1>1, <1>b, <1>c, <3>1 DEF MarkRead
    <3>2. CASE ~MarkRead(r)
      BY <3>2 DEF ReaderStep, BeginDequeue, LoadReadFlag, LoadWrittenFlag, WaitYield,
         WaitPoll, PollReturns, ReadTimeout, PollTimeout, CopyChunk,
         ReceiveOverflow, ReceiveTimeout, shared
    <3> QED BY <3>1, <3>2
  <2> QED BY <1>a, <2>1, <2>2, <2>3, <2>4 DEF ReaderInv
<1>2. CASE q = r
  <2>1. CASE BeginDequeue(r) \/ WaitYield(r) \/ PollReturns(r) \/ PollTimeout(r)
    <3>1. reader'[r].pc \in {"readFlag", "stopped"}
      BY <1>a, <2>1, ReaderSteps, ReaderFields
    <3> QED BY <1>2, <3>1 DEF ReaderInv
  <2>2. CASE LoadReadFlag(r)
    <3>1. ReaderMoves(r, "writtenFlag", R.idx, readFlag[R.idx][r], R.obj)
      BY <1>a, <2>2, ReaderSteps
    <3>2. /\ reader'[r].pc = "writtenFlag" /\ reader'[r].idx = R.idx
          /\ reader'[r].seen = readFlag[R.idx][r]
      BY <1>a, <3>1, ReaderFields
    <3>3. UNCHANGED <<shared, writer>>
      BY <2>2 DEF LoadReadFlag
    <3> QED BY <1>2, <3>2, <3>3 DEF ReaderInv, shared
  <2>3. CASE LoadWrittenFlag(r)
    <3>1. /\ R.pc = "writtenFlag"
          /\ reader'[r].pc = (IF written[R.idx] /\ ~R.seen THEN "copy" ELSE "wait")
          /\ reader'[r].idx = R.idx /\ UNCHANGED <<shared, writer>>
      BY <1>a, <2>3, ReaderSteps, ReaderFields DEF LoadWrittenFlag
    <3> QED BY <1>2, <1>a, <3>1 DEF ReaderInv, shared
  <2>4. CASE WaitPoll(r)
    <3>1. /\ R.pc = "wait" /\ reader'[r].pc = "poll" /\ reader'[r].idx = R.idx
          /\ UNCHANGED <<shared, writer>>
      BY <1>a, <2>4, ReaderSteps, ReaderFields DEF WaitPoll
    <3> QED BY <1>2, <1>a, <3>1 DEF ReaderInv, shared
  <2>5. CASE ReadTimeout(r) \/ ReceiveOverflow(r) \/ ReceiveTimeout(r)
    <3>1. reader'[r].pc = "idle"
      BY <1>a, <2>5, ReaderSteps, ReaderFields
    <3> QED BY <1>2, <3>1 DEF ReaderInv
  <2>6. CASE CopyChunk(r)
    <3>1. ReaderMoves(r, "mark", R.idx, R.seen, chunk[R.idx])
      BY <1>a, <2>6, ReaderSteps
    <3>2. reader'[r].pc = "mark" /\ reader'[r].idx = R.idx
      BY <1>a, <3>1, ReaderFields
    <3>3. R.pc = "copy" /\ UNCHANGED shared
      BY <2>6 DEF CopyChunk
    <3> QED BY <1>2, <1>a, <3>2, <3>3 DEF ReaderInv, shared
  <2>7. CASE MarkRead(r)
    <3>1. reader'[r].pc \in {"recv", "idle"}
      BY <1>a, <2>7, ReaderSteps, ReaderFields
    <3> QED BY <1>2, <3>1 DEF ReaderInv
  <2> QED BY <2>1, <2>2, <2>3, <2>4, <2>5, <2>6, <2>7, ReaderCases
<1> QED BY <1>1, <1>2

LEMMA FlagInvStep == FlagInv /\ [Next]_vars => FlagInv'
<1> SUFFICES ASSUME FlagInv, [Next]_vars PROVE FlagInv'
  OBVIOUS
<1>1. TypeOK' /\ WriterInv'
  BY TypeStep, WriterInvStep DEF FlagInv
<1>2. ASSUME NEW q \in Readers PROVE ReaderInv(q)'
  <2>1. CASE BeginEnqueue \/ WriterStep
    BY <2>1, ReaderInvWriterStep
  <2>2. ASSUME NEW r \in Readers, ReaderStep(r) PROVE ReaderInv(q)'
    BY <2>2, ReaderInvReaderStep
  <2>3. ASSUME NEW r \in Readers, Shutdown(r) PROVE ReaderInv(q)'
    BY <2>3 DEF Shutdown, FlagInv, ReaderInv, shared
  <2>4. CASE UNCHANGED vars
    BY <2>4 DEF vars, FlagInv, ReaderInv, shared
  <2> QED BY <2>1, <2>2, <2>3, <2>4 DEF Next
<1> QED BY <1>1, <1>2 DEF FlagInv

LEMMA FlagInvariance == Spec => []FlagInv
  BY InitFlags, FlagInvStep, PTL DEF Spec

\* What the flags of acquire_write and acquire_read are for, for every number of
\* readers, chunks and messages: the writer never touches a chunk that a reader is
\* copying, and no reader sleeps through a message in its chunk.
THEOREM FlagsProtect == Spec => []FlagsProtectChunks
<1>1. FlagInv => FlagsProtectChunks
  <2> SUFFICES ASSUME FlagInv PROVE FlagsProtectChunks
    OBVIOUS
  <2>1. ASSUME NEW r \in Readers, reader[r].pc \in {"copy", "mark"},
               writer.pc \in {"write", "reset", "publish"}, writer.idx = reader[r].idx
        PROVE  FALSE
    BY <2>1 DEF FlagInv, WriterInv, Writing, ReaderInv
  <2>2. NoLostWakeup
    BY DEF FlagInv, ReaderInv, NoLostWakeup
  <2> QED BY <2>1, <2>2 DEF FlagsProtectChunks, FlagInv, NoTornRead
<1> QED BY <1>1, FlagInvariance, PTL

-----------------------------------------------------------------------------
(* The ring *)

\* The slots from the writer's on hold older and older messages, and so backwards.
LEMMA AgeSpec ==
    ASSUME TypeOK
    PROVE  /\ \A s \in Slots : Age(s) \in 1..MaxChunks /\ MsgIn(s) \in Int
           /\ Age(writer.idx) = MaxChunks
           /\ \A s, t \in Slots : Age(s) = Age(t) => s = t
           /\ \A s \in Slots : /\ Age(s) = 1 => NextIdx(s) = writer.idx
                               /\ Age(s) # 1 => Age(NextIdx(s)) = Age(s) - 1
  BY Fields, RingAssumption DEF Age, MsgIn, Slots, NextIdx

\* What the writer leaves in place keeps its message.
LEMMA SameAge ==
    ASSUME writer'.idx = writer.idx, writer'.sent = writer.sent
    PROVE  \A s \in Slots : Age(s)' = Age(s) /\ MsgIn(s)' = MsgIn(s)
  BY DEF Age, MsgIn

LEMMA NextAge ==
    ASSUME TypeOK, writer'.idx = NextIdx(writer.idx), writer'.sent = writer.sent + 1
    PROVE  \A s \in Slots :
             /\ s # writer.idx => Age(s)' = Age(s) + 1 /\ MsgIn(s)' = MsgIn(s)
             /\ s = writer.idx => Age(s)' = 1 /\ MsgIn(s)' = writer.sent + 1
<1> SUFFICES ASSUME NEW s \in Slots
             PROVE  /\ s # writer.idx => Age(s)' = Age(s) + 1 /\ MsgIn(s)' = MsgIn(s)
                    /\ s = writer.idx => Age(s)' = 1 /\ MsgIn(s)' = writer.sent + 1
  OBVIOUS
<1>1. /\ writer.idx \in 0..MaxChunks - 1 /\ s \in 0..MaxChunks - 1
      /\ writer.sent \in Nat /\ MaxChunks \in Nat \ {0}
  BY Fields, RingAssumption DEF Slots
<1>2. s # writer.idx => Age(s)' = Age(s) + 1
  BY <1>1 DEF Age, NextIdx
<1>3. s = writer.idx => Age(s)' = 1
  BY <1>1 DEF Age, NextIdx
<1>4. Age(s) \in Int
  BY <1>1 DEF Age
<1> QED BY <1>1, <1>2, <1>3, <1>4 DEF MsgIn

LEMMA RingInvStep == FlagInv /\ RingInv /\ [Next]_vars => RingInv'
<1> SUFFICES ASSUME FlagInv, RingInv, [Next]_vars PROVE RingInv'
  OBVIOUS
<1>a. TypeOK /\ WriterInv
  BY DEF FlagInv
<1>b. /\ writer.pc \in WriterPc /\ writer.idx \in Slots /\ writer.i \in 1..NReaders + 1
      /\ writer.sent \in Nat /\ NReaders \in Nat \ {0} /\ MaxChunks \in Nat \ {0}
  BY <1>a, Fields, RingAssumption
<1>c. /\ written \in [Slots -> BOOLEAN] /\ readFlag \in [Slots -> [Readers -> BOOLEAN]]
      /\ chunk \in [Slots -> Messages \union {Overflow}]
  BY <1>a DEF TypeOK
<1>d. /\ \A s \in Slots : Age(s) \in 1..MaxChunks /\ MsgIn(s) \in Int
      /\ Age(writer.idx) = MaxChunks
  BY <1>a, AgeSpec
<1>1. CASE BeginEnqueue \/ WriteTimeout
  <2>1. /\ ~Writing /\ UNCHANGED <<config, written, readFlag, chunk>>
        /\ writer'.pc \in {"acquire", "idle"} /\ writer'.idx = writer.idx
        /\ writer'.sent = writer.sent
    BY <1>a, <1>1, WriterSteps, WriterFields DEF BeginEnqueue, WriteTimeout, Writing, shared
  <2> QED BY <2>1, SameAge DEF RingInv, Writing, Stored, Large
<1>2. CASE AcquireWrite
  <2>1. /\ ~Writing /\ UNCHANGED <<config, readFlag, chunk>>
        /\ written' = [written EXCEPT ![writer.idx] = FALSE]
        /\ writer'.pc = "write" /\ writer'.idx = writer.idx /\ writer'.sent = writer.sent
    BY <1>a, <1>2, WriterSteps, WriterFields DEF AcquireWrite, Writing
  <2>2. \A s \in Slots : written'[s] <=> written[s] /\ s # writer.idx
    BY <1>c, <2>1
  <2> QED BY <2>1, <2>2, SameAge DEF RingInv, Writing, Stored, Large
<1>3. CASE WriteChunk
  <2>1. /\ writer.pc = "write" /\ UNCHANGED <<config, written, readFlag>>
        /\ chunk' = [chunk EXCEPT ![writer.idx] = Stored(CurrentMessage)]
        /\ writer'.pc = "reset" /\ writer'.idx = writer.idx /\ writer'.sent = writer.sent
        /\ writer'.i = 1
    BY <1>a, <1>3, WriterSteps, WriterFields DEF WriteChunk, Stored
  <2>2. /\ Writing /\ Writing' /\ CurrentMessage' = CurrentMessage
        /\ \A m : Stored(m)' = Stored(m)
    BY <2>1 DEF Writing, CurrentMessage, Stored, Large
  <2>3. ~written[writer.idx] /\ chunk'[writer.idx] = Stored(CurrentMessage)
    BY <1>a, <1>b, <1>c, <2>1, <2>2 DEF WriterInv
  <2>4. \A s \in Slots : s # writer.idx => chunk'[s] = chunk[s]
    BY <1>c, <2>1
  <2>5. \A s \in Slots : written'[s] => chunk'[s] = Stored(MsgIn(s))'
    BY <2>1, <2>2, <2>3, <2>4, SameAge DEF RingInv
  <2>6. \A s \in Slots : written'[s] <=> writer'.sent >= Age(s)' /\ ~(Writing' /\ s = writer'.idx)
    BY <2>1, <2>2, SameAge DEF RingInv
  <2>7. \A r \in Readers : ~(r < writer'.i)
    BY <2>1 DEF Readers
  <2> QED BY <2>1, <2>2, <2>3, <2>5, <2>6, <2>7 DEF RingInv
<1>4. CASE ResetReadFlag
  <2>1. /\ writer.pc = "reset" /\ UNCHANGED <<config, written, chunk>>
        /\ readFlag' = [readFlag EXCEPT ![writer.idx][writer.i] = FALSE]
        /\ WriterMoves(IF writer.i = NReaders THEN "publish" ELSE "reset",
                       writer.idx, writer.i + 1, writer.sent)
    BY <1>a, <1>4, WriterSteps DEF ResetReadFlag
  <2>2. /\ writer'.pc = (IF writer.i = NReaders THEN "publish" ELSE "reset")
        /\ writer'.idx = writer.idx /\ writer'.sent = writer.sent
        /\ writer'.i = writer.i + 1
    BY <2>1, WriterFields
  <2>3. /\ Writing /\ Writing' /\ CurrentMessage' = CurrentMessage
        /\ \A m : Stored(m)' = Stored(m)
    BY <2>1, <2>2 DEF Writing, CurrentMessage, Stored, Large
  <2>4. \A s \in Slots : /\ written'[s] <=> writer'.sent >= Age(s)' /\ ~(Writing' /\ s = writer'.idx)
                         /\ written'[s] => chunk'[s] = Stored(MsgIn(s))'
    BY <2>1, <2>2, <2>3, SameAge DEF RingInv
  <2>5. ASSUME NEW r \in Readers,
               writer'.pc = "publish" \/ (writer'.pc = "reset" /\ r < writer'.i)
        PROVE  ~readFlag'[writer.idx][r]
    <3>1. r = writer.i \/ r < writer.i
      BY <1>b, <2>2, <2>5 DEF Readers
    <3>2. r = writer.i => ~readFlag'[writer.idx][r]
      BY <1>b, <1>c, <2>1
    <3>3. r < writer.i => ~readFlag'[writer.idx][r]
      BY <1>b, <1>c, <2>1 DEF RingInv, Readers
    <3> QED BY <3>1, <3>2, <3>3
  <2> QED BY <2>1, <2>2, <2>3, <2>4, <2>5 DEF RingInv
<1>5. CASE Publish
  <2>1. /\ writer.pc = "publish" /\ UNCHANGED <<config, readFlag, chunk>>
        /\ written' = [written EXCEPT ![writer.idx] = TRUE]
        /\ WriterMoves(IF CurrentMessage \in Large THEN "send" ELSE "notify",
                       NextIdx(writer.idx), writer.i, writer.sent + 1)
    BY <1>a, <1>5, WriterSteps DEF Publish
  <2>2. /\ writer'.pc \in {"send", "notify"} /\ writer'.idx = NextIdx(writer.idx)
        /\ writer'.sent = writer.sent + 1
    BY <2>1, WriterFields
  <2>3. Writing /\ ~Writing' /\ \A m : Stored(m)' = Stored(m)
    BY <2>1, <2>2 DEF Writing, Stored, Large
  <2>4. ASSUME NEW s \in Slots
        PROVE  /\ written'[s] <=> writer'.sent >= Age(s)'
               /\ written'[s] => chunk'[s] = Stored(MsgIn(s))'
    <3>1. CASE s = writer.idx
      <4>1. written'[s] /\ Age(s)' = 1 /\ MsgIn(s)' = writer.sent + 1
        BY <1>a, <1>b, <1>c, <2>1, <2>2, <3>1, NextAge
      <4>2. chunk'[s] = Stored(CurrentMessage)
        BY <2>1, <3>1 DEF RingInv
      <4> QED BY <1>b, <2>2, <2>3, <4>1, <4>2 DEF CurrentMessage
    <3>2. CASE s # writer.idx
      <4>1. written'[s] = written[s] /\ Age(s)' = Age(s) + 1 /\ MsgIn(s)' = MsgIn(s)
        BY <1>a, <1>c, <2>1, <2>2, <3>2, NextAge
      <4>2. written[s] <=> writer.sent >= Age(s)
        BY <3>2 DEF RingInv
      <4>3. writer.sent + 1 >= Age(s) + 1 <=> writer.sent >= Age(s)
        BY <1>b, <1>d
      <4> QED BY <2>1, <2>2, <2>3, <4>1, <4>2, <4>3 DEF RingInv
    <3> QED BY <3>1, <3>2
  <2> QED BY <2>2, <2>3, <2>4 DEF RingInv
<1>6. CASE SendOverflow \/ Notify
  <2>1. /\ ~Writing /\ UNCHANGED <<config, written, readFlag, chunk>>
        /\ writer'.pc \in {"notify", "idle"} /\ writer'.idx = writer.idx
        /\ writer'.sent = writer.sent
    BY <1>a, <1>6, WriterSteps, WriterFields DEF SendOverflow, Notify, Writing
  <2> QED BY <2>1, SameAge DEF RingInv, Writing, Stored, Large
<1>7. ASSUME NEW r \in Readers, ReaderStep(r) PROVE RingInv'
  <2>1. UNCHANGED <<config, written, chunk, writer>>
    BY <1>7 DEF ReaderStep, BeginDequeue, LoadReadFlag, LoadWrittenFlag, WaitYield, WaitPoll,
       PollReturns, ReadTimeout, PollTimeout, CopyChunk, MarkRead, ReceiveOverflow,
       ReceiveTimeout, shared
  <2>2. ASSUME NEW q \in Readers,
               writer.pc = "publish" \/ (writer.pc = "reset" /\ q < writer.i)
        PROVE  ~readFlag'[writer.idx][q]
    <3>1. ~readFlag[writer.idx][q]
      BY <2>2 DEF RingInv
    <3>2. CASE MarkRead(r)
      <4>1. reader[r].pc = "mark" /\ readFlag' = [readFlag EXCEPT ![reader[r].idx][r] = TRUE]
        BY <3>2 DEF MarkRead
      <4>2. reader[r].idx # writer.idx
        BY <2>2, <4>1 DEF FlagInv, WriterInv, Writing, ReaderInv
      <4>3. readFlag'[writer.idx] = readFlag[writer.idx]
        BY <1>b, <1>c, <4>1, <4>2
      <4> QED BY <3>1, <4>3
    <3>3. CASE ~MarkRead(r)
      BY <1>7, <3>1, <3>3 DEF ReaderStep, BeginDequeue, LoadReadFlag, LoadWrittenFlag,
         WaitYield, WaitPoll, PollReturns, ReadTimeout, PollTimeout, CopyChunk,
         ReceiveOverflow, ReceiveTimeout, shared
    <3> QED BY <3>2, <3>3
  <2>3. \A s \in Slots : Age(s)' = Age(s) /\ MsgIn(s)' = MsgIn(s)
    BY <2>1, SameAge
  <2> QED BY <2>1, <2>2, <2>3 DEF RingInv, Writing, CurrentMessage, Stored, Large
<1>8. CASE UNCHANGED <<config, written, readFlag, chunk, writer>>
  <2>1. \A s \in Slots : Age(s)' = Age(s) /\ MsgIn(s)' = MsgIn(s)
    BY <1>8, SameAge
  <2> QED BY <1>8, <2>1 DEF RingInv, Writing, CurrentMessage, Stored, Large
<1>9. ASSUME NEW r \in Readers, Shutdown(r)
      PROVE  UNCHANGED <<config, written, readFlag, chunk, writer>>
  BY <1>9 DEF Shutdown, shared
<1>10. UNCHANGED vars => UNCHANGED <<config, written, readFlag, chunk, writer>>
  BY DEF vars, shared
<1> QED BY <1>1, <1>2, <1>3, <1>4, <1>5, <1>6, <1>7, <1>8, <1>9, <1>10 DEF Next, WriterStep

-----------------------------------------------------------------------------
(* What a reader has read *)

\* The writer keeps what a reader has read, and publishes what it has not.
LEMMA HasReadWriterStep ==
    ASSUME FlagInv, RingInv, BeginEnqueue \/ WriterStep,
           NEW r \in Readers, NEW n \in Nat, HasRead(r, n)
    PROVE  HasRead(r, n)'
<1>a. TypeOK /\ WriterInv
  BY DEF FlagInv
<1>b. /\ writer.pc \in WriterPc /\ writer.idx \in Slots /\ writer.i \in 1..NReaders + 1
      /\ writer.sent \in Nat /\ MaxChunks \in Nat \ {0} /\ reader[r].idx \in Slots
  BY <1>a, Fields, RingAssumption
<1>c. /\ written \in [Slots -> BOOLEAN] /\ readFlag \in [Slots -> [Readers -> BOOLEAN]]
  BY <1>a DEF TypeOK
<1>d. /\ \A s \in Slots : Age(s) \in 1..MaxChunks /\ MsgIn(s) \in Int
      /\ Age(writer.idx) = MaxChunks
  BY <1>a, AgeSpec
<1>e. UNCHANGED <<config, reader>>
  BY DEF BeginEnqueue, WriterStep, AcquireWrite, WriteTimeout, WriteChunk, ResetReadFlag,
     Publish, SendOverflow, Notify
<1>1. CASE BeginEnqueue \/ WriteTimeout \/ SendOverflow \/ Notify
  <2>1. /\ UNCHANGED <<written, readFlag>> /\ writer'.idx = writer.idx
        /\ writer'.sent = writer.sent /\ writer'.pc \in {"acquire", "idle", "notify"}
    BY <1>a, <1>1, WriterSteps, WriterFields
       DEF BeginEnqueue, WriteTimeout, SendOverflow, Notify, shared
  <2> QED BY <1>e, <1>b, <2>1 DEF HasRead, Writing, MsgIn, Age, Stored, Large
<1>2. CASE AcquireWrite
  <2>1. /\ ~Writing /\ UNCHANGED readFlag /\ CanWrite(writer.idx)
        /\ written' = [written EXCEPT ![writer.idx] = FALSE]
        /\ writer'.idx = writer.idx /\ writer'.sent = writer.sent
    BY <1>a, <1>2, WriterSteps, WriterFields DEF AcquireWrite, Writing
  <2>2. \A s \in Slots : written'[s] => written[s]
    BY <1>c, <2>1
  <2>3. MsgIn(writer.idx) <= n
    <3>1. CASE written[writer.idx]
      BY <1>b, <2>1, <3>1 DEF CanWrite, ReadByAll, HasRead
    <3>2. CASE ~written[writer.idx]
      <4>1. ~(writer.sent >= MaxChunks)
        BY <1>b, <1>d, <2>1, <3>2 DEF RingInv
      <4> QED BY <1>b, <1>d, <4>1 DEF MsgIn
    <3> QED BY <3>1, <3>2
  <2>4. MsgIn(writer.idx)' <= n
    BY <2>1, <2>3 DEF MsgIn, Age
  <2> QED BY <1>e, <1>b, <2>1, <2>2, <2>4 DEF HasRead, MsgIn, Age, Stored, Large
<1>3. CASE WriteChunk
  <2>1. /\ Writing /\ UNCHANGED <<written, readFlag>> /\ writer'.idx = writer.idx
        /\ writer'.sent = writer.sent
    BY <1>a, <1>3, WriterSteps, WriterFields DEF WriteChunk, Writing
  <2>2. MsgIn(writer.idx)' <= n
    BY <2>1 DEF HasRead, MsgIn, Age, Stored, Large
  <2> QED BY <1>e, <1>b, <2>1, <2>2 DEF HasRead, MsgIn, Age, Stored, Large
<1>4. CASE ResetReadFlag
  <2>1. /\ Writing /\ UNCHANGED written
        /\ readFlag' = [readFlag EXCEPT ![writer.idx][writer.i] = FALSE]
        /\ WriterMoves(IF writer.i = NReaders THEN "publish" ELSE "reset",
                       writer.idx, writer.i + 1, writer.sent)
    BY <1>a, <1>4, WriterSteps DEF ResetReadFlag, Writing
  <2>2. writer'.idx = writer.idx /\ writer'.sent = writer.sent
    BY <2>1, WriterFields
  <2>3. MsgIn(writer.idx)' <= n
    BY <2>1, <2>2 DEF HasRead, MsgIn, Age, Stored, Large
  <2>4. ~written[writer.idx]
    BY <1>a, <2>1 DEF WriterInv
  <2>5. \A s \in Slots : written[s] => readFlag'[s] = readFlag[s]
    BY <1>b, <1>c, <2>1, <2>4
  <2> QED BY <1>e, <1>b, <2>1, <2>2, <2>3, <2>5 DEF HasRead, MsgIn, Age, Stored, Large
<1>5. CASE Publish
  <2>1. /\ writer.pc = "publish" /\ Writing /\ UNCHANGED readFlag
        /\ written' = [written EXCEPT ![writer.idx] = TRUE]
        /\ WriterMoves(IF CurrentMessage \in Large THEN "send" ELSE "notify",
                       NextIdx(writer.idx), writer.i, writer.sent + 1)
    BY <1>a, <1>5, WriterSteps DEF Publish, Writing
  <2>2. /\ writer'.pc \in {"send", "notify"} /\ writer'.idx = NextIdx(writer.idx)
        /\ writer'.sent = writer.sent + 1
    BY <2>1, WriterFields
  <2>3. ~Writing'
    BY <2>2 DEF Writing
  <2>4. \A s \in Slots :
           /\ s # writer.idx => written'[s] = written[s] /\ MsgIn(s)' = MsgIn(s)
           /\ s = writer.idx => written'[s] /\ MsgIn(s)' = writer.sent + 1
    BY <1>a, <1>c, <2>1, <2>2, NextAge
  <2>5. n < writer'.sent /\ n \in 0..writer'.sent
    BY <1>b, <2>2 DEF HasRead
  <2>6. MsgIn(reader[r].idx)' = n + 1
    <3> DEFINE t == reader[r].idx
    <3>1. PICK s \in Slots : s = reader[r].idx
      BY <1>b
    <3>2. MsgIn(s)' = n + 1
      <4>1. CASE s = writer.idx
        <5>1. n = writer.sent
          BY <1>b, <2>1, <3>1, <4>1 DEF HasRead
        <5> QED BY <2>4, <4>1, <5>1
      <4>2. CASE s # writer.idx
        BY <2>4, <3>1, <4>2 DEF HasRead
      <4> QED BY <4>1, <4>2
    <3> QED BY <1>e, <3>1, <3>2
  <2>7. \A s \in Slots : written'[s] => (readFlag'[s][r] <=> MsgIn(s)' <= n)
    <3>1. ASSUME NEW s \in Slots, s = writer.idx
          PROVE  ~readFlag'[s][r] /\ ~(MsgIn(s)' <= n)
      <4>1. ~readFlag[writer.idx][r]
        BY <2>1 DEF RingInv
      <4>2. n <= writer.sent
        BY <1>b DEF HasRead
      <4>3. MsgIn(s)' = writer.sent + 1
        BY <2>4, <3>1
      <4>4. ~(MsgIn(s)' <= n)
        BY <1>b, <4>2, <4>3
      <4> QED BY <2>1, <3>1, <4>1, <4>4
    <3>2. ASSUME NEW s \in Slots, s # writer.idx, written'[s]
          PROVE  readFlag'[s][r] <=> MsgIn(s)' <= n
      BY <2>1, <2>4, <3>2 DEF HasRead
    <3> QED BY <3>1, <3>2
  <2>8. /\ reader'[r].pc = "mark" => reader'[r].obj = Stored(n + 1)'
        /\ reader'[r].pc = "recv" => n \in Large'
    BY <1>e DEF HasRead, Stored, Large
  <2> QED BY <2>3, <2>5, <2>6, <2>7, <2>8 DEF HasRead
<1> QED BY <1>1, <1>2, <1>3, <1>4, <1>5 DEF WriterStep

\* Another reader does not touch it either.
LEMMA HasReadOtherStep ==
    ASSUME FlagInv, NEW r \in Readers, NEW q \in Readers \ {r}, ReaderStep(q),
           NEW n \in Nat, HasRead(r, n)
    PROVE  HasRead(r, n)'
<1>1. UNCHANGED <<config, written, writer>>
  BY DEF ReaderStep, BeginDequeue, LoadReadFlag, LoadWrittenFlag, WaitYield, WaitPoll,
     PollReturns, ReadTimeout, PollTimeout, CopyChunk, MarkRead, ReceiveOverflow,
     ReceiveTimeout, shared
<1>2. reader'[r] = reader[r]
  BY ReaderCases, ReaderSteps, ReaderFields DEF FlagInv
<1>3. \A s \in Slots : readFlag'[s][r] = readFlag[s][r]
  <2>1. CASE MarkRead(q)
    BY <2>1, Fields DEF MarkRead, FlagInv, TypeOK
  <2>2. CASE ~MarkRead(q)
    BY <2>2 DEF ReaderStep, BeginDequeue, LoadReadFlag, LoadWrittenFlag,
       WaitYield, WaitPoll, PollReturns, ReadTimeout, PollTimeout, CopyChunk,
       ReceiveOverflow, ReceiveTimeout, shared
  <2> QED BY <2>1, <2>2
<1> QED BY <1>1, <1>2, <1>3, SameAge DEF HasRead, Writing, Stored, Large, MsgIn, Age

\* A step that does not mark a chunk as read leaves what the reader has read, and
\* the copy it makes is of the next message.
LEMMA HasReadOwnStep ==
    ASSUME FlagInv, RingInv, NEW r \in Readers, ReaderStep(r), ~MarkRead(r),
           NEW n \in Nat, HasRead(r, n)
    PROVE  HasRead(r, n)'
<1> DEFINE R == reader[r]
<1>a. TypeOK /\ ReaderInv(r)
  BY DEF FlagInv
<1>b. R.idx \in Slots /\ writer.idx \in Slots /\ writer.sent \in Nat /\ MaxChunks \in Nat \ {0}
  BY <1>a, Fields, RingAssumption
<1>1. UNCHANGED <<config, written, readFlag, writer>>
  BY DEF ReaderStep, BeginDequeue, LoadReadFlag, LoadWrittenFlag, WaitYield, WaitPoll,
     PollReturns, ReadTimeout, PollTimeout, CopyChunk, ReceiveOverflow,
     ReceiveTimeout, shared
<1>2. \A s \in Slots : MsgIn(s)' = MsgIn(s)
  BY <1>1 DEF MsgIn, Age
<1>3. \E pc, seen, obj :
         /\ pc \in ReaderPc
         /\ ReaderMoves(r, pc, R.idx, seen, obj)
         /\ pc # "recv" /\ (pc = "mark" => CopyChunk(r) /\ obj = chunk[R.idx])
  <2>1. CASE BeginDequeue(r) \/ WaitPoll(r) \/ ReadTimeout(r) \/ ReceiveOverflow(r)
             \/ ReceiveTimeout(r)
    BY <1>a, <2>1, ReaderSteps DEF ReaderPc
  <2>2. CASE LoadReadFlag(r)
    BY <1>a, <2>2, ReaderSteps DEF ReaderPc
  <2>3. CASE LoadWrittenFlag(r)
    BY <1>a, <2>3, ReaderSteps DEF ReaderPc
  <2>4. CASE WaitYield(r) \/ PollReturns(r) \/ PollTimeout(r)
    BY <1>a, <2>4, ReaderSteps DEF ReaderPc
  <2>5. CASE CopyChunk(r)
    BY <1>a, <2>5, ReaderSteps DEF ReaderPc
  <2> QED BY <2>1, <2>2, <2>3, <2>4, <2>5, ReaderCases
<1>4. PICK pc, seen, obj :
         /\ pc \in ReaderPc
         /\ ReaderMoves(r, pc, R.idx, seen, obj)
         /\ pc # "recv" /\ (pc = "mark" => CopyChunk(r) /\ obj = chunk[R.idx])
  BY <1>3
<1>5. reader'[r].pc = pc /\ reader'[r].idx = R.idx /\ reader'[r].obj = obj
  BY <1>a, <1>4, ReaderFields
<1>6. pc = "mark" => obj = Stored(n + 1)
  <2> SUFFICES ASSUME pc = "mark" PROVE chunk[R.idx] = Stored(n + 1)
    BY <1>4
  <2>1. written[R.idx] /\ ~readFlag[R.idx][r]
    BY <1>a, <1>4 DEF ReaderInv, CopyChunk
  <2>2. MsgIn(R.idx) > n /\ MsgIn(R.idx) <= writer.sent
    BY <1>a, <1>b, <2>1, AgeSpec DEF HasRead, MsgIn
  <2>3. MsgIn(R.idx) = n + 1
    BY <1>a, <1>b, <2>2, AgeSpec DEF HasRead
  <2> QED BY <1>b, <2>1, <2>3 DEF RingInv
<1>7. Writing' = Writing /\ MsgIn(writer.idx)' = MsgIn(writer.idx)
  BY <1>1 DEF Writing, MsgIn, Age
<1>8. MsgIn(reader[r].idx)' = MsgIn(reader[r].idx)
  BY <1>1, <1>5 DEF MsgIn, Age
<1>9. Stored(n + 1)' = Stored(n + 1) /\ Large' = Large
  BY <1>1 DEF Stored, Large
<1> QED BY <1>1, <1>2, <1>4, <1>5, <1>6, <1>7, <1>8, <1>9 DEF HasRead

\* Marking a chunk as read makes it one more.
LEMMA HasReadMark ==
    ASSUME FlagInv, RingInv, NEW r \in Readers, MarkRead(r), NEW n \in Nat, HasRead(r, n)
    PROVE  n < writer.sent /\ reader[r].obj = Stored(n + 1) /\ HasRead(r, n + 1)'
<1> DEFINE R == reader[r]
<1>a. TypeOK /\ ReaderInv(r)
  BY DEF FlagInv
<1>b. R.idx \in Slots /\ writer.idx \in Slots /\ writer.sent \in Nat /\ MaxChunks \in Nat \ {0}
  BY <1>a, Fields, RingAssumption
<1>c. /\ \A s \in Slots : Age(s) \in 1..MaxChunks /\ MsgIn(s) \in Int
      /\ \A s, t \in Slots : Age(s) = Age(t) => s = t
      /\ \A s \in Slots : /\ Age(s) = 1 => NextIdx(s) = writer.idx
                          /\ Age(s) # 1 => Age(NextIdx(s)) = Age(s) - 1
  BY <1>a, AgeSpec
<1>1. /\ R.pc = "mark" /\ UNCHANGED <<config, written, writer>>
      /\ readFlag' = [readFlag EXCEPT ![R.idx][r] = TRUE]
      /\ ReaderMoves(r, IF R.obj = Overflow THEN "recv" ELSE "idle", NextIdx(R.idx),
                     R.seen, R.obj)
  BY <1>a, ReaderSteps DEF MarkRead
<1>2. written[R.idx] /\ ~readFlag[R.idx][r]
  BY <1>a, <1>1 DEF ReaderInv
<1>3. MsgIn(R.idx) > n /\ MsgIn(R.idx) <= writer.sent
  BY <1>b, <1>c, <1>2 DEF HasRead, MsgIn
<1>4. n < writer.sent /\ MsgIn(R.idx) = n + 1
  BY <1>b, <1>c, <1>3 DEF HasRead
<1>5. R.obj = Stored(n + 1)
  BY <1>1 DEF HasRead
<1>6. /\ reader'[r].pc = (IF R.obj = Overflow THEN "recv" ELSE "idle")
      /\ reader'[r].idx = NextIdx(R.idx)
  BY <1>a, <1>1, ReaderFields
<1>7. /\ \A s \in Slots : MsgIn(s)' = MsgIn(s)
      /\ Writing' = Writing /\ MsgIn(writer.idx)' = MsgIn(writer.idx) /\ Large' = Large
  BY <1>1 DEF MsgIn, Age, Writing, Large
<1>8. reader'[r].pc # "mark" /\ (reader'[r].pc = "recv" => n + 1 \in Large)
  BY <1>5, <1>6 DEF Stored, Overflow
<1>9. \/ n + 1 = writer.sent /\ reader'[r].idx = writer.idx
      \/ n + 1 < writer.sent /\ MsgIn(reader[r].idx)' = n + 2
  <2>1. Age(R.idx) = writer.sent - n
    BY <1>b, <1>c, <1>4 DEF MsgIn
  <2>2. CASE n + 1 = writer.sent
    BY <1>b, <1>c, <1>6, <2>1, <2>2
  <2>3. CASE n + 1 # writer.sent
    <3>1. Age(NextIdx(R.idx)) = writer.sent - n - 1
      BY <1>b, <1>c, <2>1, <2>3
    <3>2. MsgIn(NextIdx(R.idx)) = n + 2
      BY <1>b, <3>1 DEF MsgIn
    <3>3. PICK s \in Slots : s = NextIdx(R.idx)
      BY <1>b, NextIdxType
    <3>4. MsgIn(reader[r].idx)' = MsgIn(s)
      BY <1>1, <1>6, <3>3 DEF MsgIn, Age
    <3> QED BY <1>b, <1>4, <2>3, <3>2, <3>3, <3>4
  <2> QED BY <2>2, <2>3
<1>10. Writing => MsgIn(writer.idx) <= n + 1
  BY <1>b, <1>c DEF HasRead
<1>11. ASSUME NEW s \in Slots, written[s] PROVE readFlag'[s][r] <=> MsgIn(s) <= n + 1
  <2>0. readFlag \in [Slots -> [Readers -> BOOLEAN]]
    BY <1>a DEF TypeOK
  <2>1. CASE s = R.idx
    <3>1. readFlag'[s][r]
      BY <1>b, <1>1, <2>0, <2>1
    <3> QED BY <1>4, <2>1, <3>1
  <2>2. CASE s # R.idx
    <3>1. readFlag'[s][r] = readFlag[s][r]
      BY <1>1, <2>0, <2>2
    <3>2. readFlag[s][r] <=> MsgIn(s) <= n
      BY <1>11 DEF HasRead
    <3>3. MsgIn(s) # MsgIn(R.idx)
      BY <1>b, <1>c, <2>2 DEF MsgIn
    <3>4. MsgIn(s) <= n + 1 <=> MsgIn(s) <= n
      BY <1>c, <1>4, <3>3
    <3> QED BY <3>1, <3>2, <3>4
  <2> QED BY <2>1, <2>2
<1>12. n + 1 \in 0..writer.sent
  BY <1>b, <1>4
<1>13. (n + 1) + 1 = n + 2
  OBVIOUS
<1>14. HasRead(r, n + 1)'
  <2>1. \A s \in Slots : written'[s] => (readFlag'[s][r] <=> MsgIn(s)' <= n + 1)
    BY <1>1, <1>7, <1>11
  <2> QED BY <1>1, <1>7, <1>8, <1>9, <1>10, <1>12, <1>13, <2>1 DEF HasRead
<1> QED BY <1>4, <1>5, <1>14

-----------------------------------------------------------------------------
(* What a reader has got *)

\* Callers that may give up waiting for a payload send a large message only as the
\* last one: a payload that arrives after its reader gave up is taken for that of
\* the next large message, which no atomic queue would do.
LossIsLast == \A c \in Configs : c.timeouts => c.large \subseteq {MaxMessages}

\* Messages that are sent.
LEMMA HasGotWriterStep ==
    ASSUME FlagInv, BeginEnqueue \/ WriterStep, NEW r \in Readers, NEW n \in Nat,
           HasGot(r, n)
    PROVE  HasGot(r, n)'
<1> DEFINE S == socket[r]
<1>a. TypeOK /\ WriterInv
  BY DEF FlagInv
<1>b. /\ writer.sent \in Nat /\ S \in Seq(Messages) /\ Len(S) \in Nat
      /\ got[r] \in Seq(Messages) /\ Len(got[r]) \in Nat /\ Large \subseteq Messages
      /\ MaxMessages \in Nat /\ Messages \subseteq Nat
      /\ \A k \in 1..Len(S) : S[k] \in Nat
  <2>1. S \in Seq(Large) /\ Large \subseteq Messages /\ got[r] \in Seq(Messages)
    BY <1>a, ConfigSpec DEF TypeOK
  <2>2. S \in Seq(Messages)
    BY <2>1, SeqMonotonic
  <2>3. writer.sent \in Nat
    BY <1>a, Fields
  <2>4. MaxMessages \in Nat /\ Messages \subseteq Nat
    BY RingAssumption DEF Messages
  <2>5. /\ Len(S) \in Nat /\ Len(got[r]) \in Nat
        /\ \A k \in 1..Len(S) : S[k] \in Messages
    BY <2>1, <2>2
  <2> QED BY <2>1, <2>2, <2>3, <2>4, <2>5
<1>c. UNCHANGED <<config, reader, got>>
  BY DEF BeginEnqueue, WriterStep, AcquireWrite, WriteTimeout, WriteChunk, ResetReadFlag,
     Publish, SendOverflow, Notify
<1>d. Large' = Large /\ Timeouts' = Timeouts
  BY <1>c DEF Large, Timeouts
<1>1. CASE UNCHANGED <<socket, PayloadsSent>>
  BY <1>1, <1>c, <1>d DEF HasGot
<1>2. CASE BeginEnqueue \/ AcquireWrite \/ WriteTimeout \/ WriteChunk \/ Notify
  <2>1. /\ writer.pc # "send" /\ writer'.pc # "send" /\ writer'.sent = writer.sent
        /\ UNCHANGED socket
    BY <1>a, <1>2, WriterSteps, WriterFields
       DEF BeginEnqueue, AcquireWrite, WriteTimeout, WriteChunk, Notify, shared
  <2> QED BY <1>1, <2>1 DEF PayloadsSent
<1>3. CASE ResetReadFlag
  <2>1. /\ WriterMoves(IF writer.i = NReaders THEN "publish" ELSE "reset",
                       writer.idx, writer.i + 1, writer.sent)
        /\ writer.pc = "reset" /\ UNCHANGED socket
    BY <1>a, <1>3, WriterSteps DEF ResetReadFlag
  <2>2. writer'.pc # "send" /\ writer'.sent = writer.sent
    BY <2>1, WriterFields
  <2> QED BY <1>1, <2>1, <2>2 DEF PayloadsSent
<1>4. CASE Publish
  <2>1. /\ WriterMoves(IF CurrentMessage \in Large THEN "send" ELSE "notify",
                       NextIdx(writer.idx), writer.i, writer.sent + 1)
        /\ writer.pc = "publish" /\ UNCHANGED socket
    BY <1>a, <1>4, WriterSteps DEF Publish
  <2>2. /\ writer'.pc = (IF CurrentMessage \in Large THEN "send" ELSE "notify")
        /\ writer'.sent = writer.sent + 1
    BY <2>1, WriterFields
  <2>3. CASE CurrentMessage \in Large
    BY <1>1, <1>b, <2>1, <2>2, <2>3 DEF PayloadsSent
  <2>4. CASE CurrentMessage \notin Large
    <3>1. PayloadsSent = writer.sent /\ PayloadsSent' = writer.sent + 1
      BY <2>1, <2>2, <2>4 DEF PayloadsSent
    <3>2. \A m \in Messages : m \in Large => (m <= writer.sent + 1 <=> m <= writer.sent)
      BY <1>b, <2>4 DEF CurrentMessage, Messages
    <3> QED BY <1>b, <1>c, <1>d, <2>1, <3>1, <3>2 DEF HasGot
  <2> QED BY <2>3, <2>4
<1>5. CASE SendOverflow
  <2>1. /\ WriterMoves("notify", writer.idx, writer.i, writer.sent) /\ writer.pc = "send"
        /\ socket'[r] = Append(S, writer.sent)
    BY <1>a, <1>5, WriterSteps DEF SendOverflow
  <2>2. writer'.pc = "notify" /\ writer'.sent = writer.sent
    BY <2>1, WriterFields
  <2>3. PayloadsSent = writer.sent - 1 /\ PayloadsSent' = writer.sent /\ writer.sent \in Large
    BY <1>a, <2>1, <2>2 DEF PayloadsSent, WriterInv
  <2>4. PICK T : T = socket'[r]
    OBVIOUS
  <2>5. /\ T \in Seq(Large) /\ Len(T) = Len(S) + 1 /\ T[Len(S) + 1] = writer.sent
        /\ \A k \in 1..Len(S) : T[k] = S[k]
        /\ \A k \in 1..Len(T) : T[k] \in Nat /\ T[k] \in Large
    <3>1. T = Append(S, writer.sent) /\ writer.sent \in Messages
      BY <1>b, <2>1, <2>3, <2>4
    <3>2. /\ Len(T) = Len(S) + 1 /\ T[Len(S) + 1] = writer.sent
          /\ \A k \in 1..Len(S) : T[k] = S[k]
      BY <1>b, <3>1
    <3>3. T \in Seq(Large)
      BY <1>a, <2>1, <2>3, <2>4 DEF TypeOK
    <3>4. \A k \in 1..Len(T) : T[k] \in Large
      BY <3>3
    <3>5. Large \subseteq Nat
      BY <1>b
    <3> QED BY <3>2, <3>3, <3>4, <3>5
  <2>6. ASSUME NEW k \in 1..Len(S) PROVE S[k] \in Large /\ S[k] < writer.sent
    <3>1. S[k] \in Large /\ S[k] \in Messages /\ S[k] \in Nat
      BY <1>b DEF HasGot
    <3>2. S[k] <= PayloadsSent
      BY <3>1 DEF HasGot
    <3> QED BY <1>b, <2>3, <3>1, <3>2
  <2>7. \A j, k \in 1..Len(T) : j < k => T[j] < T[k]
    <3> SUFFICES ASSUME NEW j \in 1..Len(T), NEW k \in 1..Len(T), j < k PROVE T[j] < T[k]
      OBVIOUS
    <3>1. CASE k = Len(S) + 1
      BY <1>b, <2>5, <2>6, <3>1
    <3>2. CASE k # Len(S) + 1
      <4>1. Len(S) \in Nat /\ Len(T) = Len(S) + 1
        BY <1>b, <2>5
      <4>2. j \in 1..Len(S) /\ k \in 1..Len(S)
        BY <3>2, <4>1
      <4>3. T[j] = S[j] /\ T[k] = S[k]
        BY <2>5, <4>2
      <4> QED BY <4>2, <4>3 DEF HasGot
    <3> QED BY <3>1, <3>2
  <2>8. ASSUME NEW m \in Messages, m \in Large
        PROVE  (Len(got[r]) < m /\ m <= writer.sent) <=> \E k \in 1..Len(T) : T[k] = m
    <3>1. (\E k \in 1..Len(T) : T[k] = m) <=> (m = writer.sent \/ \E k \in 1..Len(S) : S[k] = m)
      <4>1. ASSUME NEW k \in 1..Len(T), T[k] = m
            PROVE  m = writer.sent \/ \E l \in 1..Len(S) : S[l] = m
        <5>1. k \in 1..Len(S) \/ k = Len(S) + 1
          BY <1>b, <2>5
        <5>2. CASE k \in 1..Len(S)
          BY <2>5, <4>1, <5>2
        <5>3. CASE k = Len(S) + 1
          BY <2>5, <4>1, <5>3
        <5> QED BY <5>1, <5>2, <5>3
      <4>2. ASSUME NEW k \in 1..Len(S), S[k] = m PROVE \E l \in 1..Len(T) : T[l] = m
        <5>1. k \in 1..Len(T)
          BY <1>b, <2>5
        <5>2. T[k] = m
          BY <2>5, <4>2
        <5> QED BY <5>1, <5>2
      <4>3. Len(S) + 1 \in 1..Len(T)
        BY <1>b, <2>5
      <4> QED BY <2>5, <4>1, <4>2, <4>3
    <3>2. (Len(got[r]) < m /\ m <= writer.sent - 1) <=> \E k \in 1..Len(S) : S[k] = m
      BY <2>3, <2>8 DEF HasGot
    <3>3. Len(got[r]) <= writer.sent - 1
      BY <2>3 DEF HasGot
    <3>4. m \in Nat
      BY <1>b DEF Messages
    <3> QED BY <1>b, <3>1, <3>2, <3>3, <3>4
  <2>9. \A k \in 1..Len(T) : T[k] \in Large
    BY <2>5
  <2>10. Len(got[r]) <= writer.sent
    BY <1>b, <2>3 DEF HasGot
  <2> QED BY <1>c, <1>d, <2>3, <2>4, <2>7, <2>8, <2>9, <2>10 DEF HasGot
<1> QED BY <1>2, <1>3, <1>4, <1>5 DEF WriterStep

\* Another reader has its own socket.
LEMMA HasGotOtherStep ==
    ASSUME FlagInv, NEW r \in Readers, NEW q \in Readers \ {r}, ReaderStep(q),
           NEW n \in Nat, HasGot(r, n)
    PROVE  HasGot(r, n)'
<1>1. UNCHANGED <<config, writer>>
  BY DEF ReaderStep, BeginDequeue, LoadReadFlag, LoadWrittenFlag, WaitYield, WaitPoll,
     PollReturns, ReadTimeout, PollTimeout, CopyChunk, MarkRead, ReceiveOverflow,
     ReceiveTimeout, shared
<1>2. reader'[r] = reader[r]
  BY ReaderCases, ReaderSteps, ReaderFields DEF FlagInv
<1>3. socket'[r] = socket[r] /\ got'[r] = got[r]
  <2>1. CASE MarkRead(q)
    BY <2>1 DEF MarkRead, FlagInv, TypeOK
  <2>2. CASE ReceiveOverflow(q)
    BY <2>2 DEF ReceiveOverflow, FlagInv, TypeOK
  <2>3. CASE ~MarkRead(q) /\ ~ReceiveOverflow(q)
    BY <2>3 DEF ReaderStep, BeginDequeue, LoadReadFlag, LoadWrittenFlag, WaitYield,
       WaitPoll, PollReturns, ReadTimeout, PollTimeout, CopyChunk, ReceiveTimeout, shared
  <2> QED BY <2>1, <2>2, <2>3
<1> QED BY <1>1, <1>2, <1>3 DEF HasGot, PayloadsSent, Large, Timeouts

\* Between the chunks a reader gets nothing, and gives up at most the last message.
LEMMA HasGotOwnStep ==
    ASSUME LossIsLast, FlagInv, NEW r \in Readers, ReaderStep(r), ~MarkRead(r),
           ~ReceiveOverflow(r), NEW n \in Nat, HasRead(r, n), HasGot(r, n)
    PROVE  HasGot(r, n)'
<1> DEFINE R == reader[r]
<1>a. TypeOK
  BY DEF FlagInv
<1>b. UNCHANGED <<config, writer, socket, got>>
  BY DEF ReaderStep, BeginDequeue, LoadReadFlag, LoadWrittenFlag, WaitYield, WaitPoll,
     PollReturns, ReadTimeout, PollTimeout, CopyChunk, ReceiveTimeout, shared
<1>c. Large' = Large /\ Timeouts' = Timeouts /\ PayloadsSent' = PayloadsSent
  BY <1>b DEF Large, Timeouts, PayloadsSent
<1>1. CASE ReceiveTimeout(r)
  <2>1. R.pc = "recv" /\ Timeouts /\ reader'[r].pc # "recv"
    BY <1>a, <1>1, ReaderSteps, ReaderFields DEF ReceiveTimeout
  <2>2. n \in Large
    BY <2>1 DEF HasRead
  <2>3. Large \subseteq {MaxMessages}
    BY <1>a, <2>1 DEF LossIsLast, TypeOK, Large, Timeouts
  <2> QED BY <1>b, <1>c, <2>1, <2>2, <2>3 DEF HasGot
<1>2. CASE ~ReceiveTimeout(r)
  <2>1. R.pc # "recv"
    BY <1>2 DEF ReaderStep, BeginDequeue, LoadReadFlag, LoadWrittenFlag, WaitYield, WaitPoll,
       PollReturns, ReadTimeout, PollTimeout, CopyChunk
  <2>2. reader'[r].pc # "recv"
    <3>1. CASE LoadWrittenFlag(r)
      BY <1>a, <3>1, ReaderSteps, ReaderFields
    <3>2. CASE LoadReadFlag(r)
      BY <1>a, <3>2, ReaderSteps, ReaderFields
    <3>3. CASE CopyChunk(r)
      BY <1>a, <3>3, ReaderSteps, ReaderFields
    <3>4. CASE ~LoadWrittenFlag(r) /\ ~LoadReadFlag(r) /\ ~CopyChunk(r)
      BY <1>a, <1>2, <3>4, ReaderCases, ReaderSteps, ReaderFields
    <3> QED BY <3>1, <3>2, <3>3, <3>4
  <2> QED BY <1>b, <1>c, <2>1, <2>2 DEF HasGot
<1> QED BY <1>1, <1>2

\* A chunk with the message itself: the next one.
LEMMA HasGotMark ==
    ASSUME FlagInv, NEW r \in Readers, MarkRead(r), NEW n \in Nat, n < writer.sent,
           reader[r].obj = Stored(n + 1), HasGot(r, n)
    PROVE  /\ HasGot(r, n + 1)'
           /\ Len(got[r]) = n
           /\ reader[r].obj # Overflow => reader[r].obj = n + 1
<1> DEFINE R == reader[r]
           G == got[r]
<1>a. TypeOK /\ WriterInv
  BY DEF FlagInv
<1>b. /\ writer.sent \in 0..MaxMessages /\ MaxMessages \in Nat /\ G \in Seq(Messages)
      /\ Len(G) \in Nat /\ Messages \subseteq Nat /\ R.obj \in Messages \union {Overflow}
      /\ got \in [Readers -> Seq(Messages)] /\ Messages = 1..MaxMessages
  BY <1>a, Fields, RingAssumption DEF TypeOK, Messages
<1>1. /\ R.pc = "mark" /\ UNCHANGED <<config, writer, socket>>
      /\ got' = (IF R.obj = Overflow THEN got ELSE [got EXCEPT ![r] = Append(@, R.obj)])
      /\ ReaderMoves(r, IF R.obj = Overflow THEN "recv" ELSE "idle", NextIdx(R.idx),
                     R.seen, R.obj)
  BY <1>a, ReaderSteps DEF MarkRead
<1>2. reader'[r].pc = (IF R.obj = Overflow THEN "recv" ELSE "idle")
  BY <1>a, <1>1, ReaderFields
<1>3. Large' = Large /\ Timeouts' = Timeouts /\ PayloadsSent' = PayloadsSent
  BY <1>1 DEF Large, Timeouts, PayloadsSent
<1>4. Len(G) = n
  BY <1>b, <1>1 DEF HasGot
<1>5. R.obj # Overflow => R.obj = n + 1 /\ n + 1 \notin Large
  BY DEF Stored
<1>6. CASE R.obj = Overflow
  <2>1. got' = got /\ reader'[r].pc = "recv"
    BY <1>1, <1>2, <1>6
  <2>2. (n + 1) - 1 = n
    OBVIOUS
  <2>3. HasGot(r, n + 1)'
    BY <1>1, <1>3, <1>4, <2>1, <2>2 DEF HasGot
  <2> QED BY <1>4, <1>6, <2>3
<1>7. CASE R.obj # Overflow
  <2>1. PICK H : H = got'[r]
    OBVIOUS
  <2>2. R.obj = n + 1 /\ n + 1 \in Messages /\ n + 1 \notin Large
    BY <1>b, <1>5, <1>7
  <2>3. H = Append(G, n + 1)
    BY <1>b, <1>1, <1>7, <2>1, <2>2
  <2>4. Len(H) = n + 1 /\ H[n + 1] = n + 1 /\ \A k \in 1..n : H[k] = G[k]
    BY <1>b, <1>4, <2>2, <2>3
  <2>5. \A k \in 1..n + 1 : H[k] = k
    <3>1. \A k \in 1..n : G[k] = k
      BY <1>4 DEF HasGot
    <3>2. \A k \in 1..n + 1 : k = n + 1 \/ k \in 1..n
      OBVIOUS
    <3> QED BY <2>4, <3>1, <3>2
  <2>6. n + 1 <= PayloadsSent
    <3>1. writer.pc = "send" => writer.sent \in Large
      BY <1>a DEF WriterInv
    <3> QED BY <1>b, <2>2, <3>1 DEF PayloadsSent
  <2>7. \A m \in Messages : m \in Large => (n + 1 < m <=> n < m)
    BY <1>b, <2>2
  <2>8. reader'[r].pc # "recv"
    BY <1>2, <1>7
  <2>9. HasGot(r, n + 1)'
    <3>1. \A m \in Messages : m \in Large =>
            ((n + 1 < m /\ m <= PayloadsSent)
               <=> \E k \in 1..Len(socket[r]) : socket[r][k] = m)
      BY <1>4, <2>7 DEF HasGot
    <3>2. /\ \A j, k \in 1..Len(socket[r]) : j < k => socket[r][j] < socket[r][k]
          /\ \A k \in 1..Len(socket[r]) : socket[r][k] \in Large
      BY DEF HasGot
    <3> QED BY <1>1, <1>3, <2>1, <2>4, <2>5, <2>6, <2>8, <3>1, <3>2 DEF HasGot
  <2> QED BY <1>4, <2>2, <2>9
<1> QED BY <1>6, <1>7

\* A large message: the first payload in the socket is that of the chunk.
LEMMA HasGotReceive ==
    ASSUME FlagInv, NEW r \in Readers, ReceiveOverflow(r), NEW n \in Nat, HasRead(r, n),
           HasGot(r, n)
    PROVE  HasGot(r, n)' /\ Len(got[r]) = n - 1 /\ Head(socket[r]) = n
<1> DEFINE S == socket[r]
           G == got[r]
<1>a. TypeOK
  BY DEF FlagInv
<1>b. /\ writer.sent \in Nat /\ S \in Seq(Messages) /\ Len(S) \in Nat \ {0}
      /\ G \in Seq(Messages) /\ Len(G) \in Nat /\ Large \subseteq Messages
      /\ MaxMessages \in Nat /\ Messages \subseteq Nat
      /\ \A k \in 1..Len(S) : S[k] \in Nat
  <2>1. S \in Seq(Large) /\ Large \subseteq Messages /\ G \in Seq(Messages) /\ S # <<>>
    BY <1>a, ConfigSpec DEF TypeOK, ReceiveOverflow
  <2>2. S \in Seq(Messages)
    BY <2>1, SeqMonotonic
  <2>3. writer.sent \in Nat
    BY <1>a, Fields
  <2>4. MaxMessages \in Nat /\ Messages \subseteq Nat
    BY RingAssumption DEF Messages
  <2>5. Len(S) \in Nat \ {0} /\ \A k \in 1..Len(S) : S[k] \in Messages
    BY <2>1, <2>2
  <2>6. G \in Seq(Messages) /\ Len(G) \in Nat
    BY <2>1
  <2> QED BY <2>1, <2>2, <2>3, <2>4, <2>5, <2>6
<1>1. /\ reader[r].pc = "recv" /\ UNCHANGED <<config, writer>>
      /\ got'[r] = Append(G, Head(S)) /\ socket'[r] = Tail(S)
  BY <1>a DEF ReceiveOverflow, TypeOK
<1>2. reader'[r].pc = "idle"
  BY <1>a, ReaderSteps, ReaderFields
<1>3. Large' = Large /\ Timeouts' = Timeouts /\ PayloadsSent' = PayloadsSent
  BY <1>1 DEF Large, Timeouts, PayloadsSent
<1>4. n \in Large /\ n \in Messages /\ Len(G) = n - 1
  BY <1>b, <1>1 DEF HasRead, HasGot
<1>5. Head(S) = S[1]
  BY <1>b
<1>6. /\ \A j, k \in 1..Len(S) : j < k => S[j] < S[k]
      /\ \A k \in 1..Len(S) : S[k] \in Large
      /\ \A m \in Messages : m \in Large =>
           ((n - 1 < m /\ m <= PayloadsSent) <=> \E k \in 1..Len(S) : S[k] = m)
  BY <1>4 DEF HasGot
<1>7. n - 1 < S[1] /\ S[1] <= PayloadsSent
  <2>1. 1 \in 1..Len(S)
    BY <1>b
  <2> QED BY <1>b, <1>6, <2>1
<1>8. PayloadsSent \in Int
  BY <1>b DEF PayloadsSent
<1>9. S[1] = n
  <2>1. n <= PayloadsSent
    BY <1>b, <1>7, <1>8
  <2>2. PICK k \in 1..Len(S) : S[k] = n
    BY <1>4, <1>6, <2>1
  <2>3. S[1] <= S[k]
    BY <1>b, <1>6, <2>2
  <2> QED BY <1>b, <1>7, <2>2, <2>3
<1>10. PICK T : T = Tail(S)
  OBVIOUS
<1>11. Len(T) = Len(S) - 1 /\ \A k \in 1..Len(T) : T[k] = S[k + 1]
  BY <1>b, <1>10
<1>12. \A j, k \in 1..Len(T) : j < k => T[j] < T[k]
  <2> SUFFICES ASSUME NEW j \in 1..Len(T), NEW k \in 1..Len(T), j < k PROVE T[j] < T[k]
    OBVIOUS
  <2>1. j + 1 \in 1..Len(S) /\ k + 1 \in 1..Len(S) /\ j + 1 < k + 1
    BY <1>b, <1>11
  <2> QED BY <1>6, <1>11, <2>1
<1>13. ASSUME NEW m \in Messages, m \in Large
       PROVE  (n < m /\ m <= PayloadsSent) <=> \E k \in 1..Len(T) : T[k] = m
  <2>1. ASSUME n < m, m <= PayloadsSent PROVE \E k \in 1..Len(T) : T[k] = m
    <3>0. n - 1 < m
      BY <1>b, <2>1
    <3>1. PICK k \in 1..Len(S) : S[k] = m
      BY <1>6, <1>13, <2>1, <3>0
    <3>2. k # 1
      BY <1>b, <1>9, <2>1, <3>1
    <3>3. k - 1 \in 1..Len(T) /\ T[k - 1] = m
      BY <1>b, <1>11, <3>1, <3>2
    <3> QED BY <3>3
  <2>2. ASSUME NEW k \in 1..Len(T), T[k] = m PROVE n < m /\ m <= PayloadsSent
    <3>1. k + 1 \in 1..Len(S) /\ 1 \in 1..Len(S) /\ 1 < k + 1 /\ S[k + 1] = m
      BY <1>b, <1>11, <2>2
    <3>2. S[1] < m
      BY <1>6, <3>1
    <3>3. m <= PayloadsSent
      BY <1>6, <1>13, <3>1
    <3> QED BY <1>9, <3>2, <3>3
  <2> QED BY <2>1, <2>2
<1>14. \A k \in 1..Len(T) : T[k] \in Large
  <2> SUFFICES ASSUME NEW k \in 1..Len(T) PROVE T[k] \in Large
    OBVIOUS
  <2>1. k + 1 \in 1..Len(S)
    BY <1>b, <1>11
  <2> QED BY <1>6, <1>11, <2>1
<1>15. PICK H : H = Append(G, n)
  OBVIOUS
<1>16. Len(H) = n /\ \A k \in 1..n : H[k] = k
  <2>1. Len(H) = n /\ H[n] = n /\ \A k \in 1..n - 1 : H[k] = G[k]
    BY <1>b, <1>4, <1>15
  <2>2. \A k \in 1..n - 1 : G[k] = k
    BY <1>4 DEF HasGot
  <2>3. \A k \in 1..n : k = n \/ k \in 1..n - 1
    OBVIOUS
  <2> QED BY <2>1, <2>2, <2>3
<1>17. got'[r] = H /\ socket'[r] = T
  BY <1>1, <1>5, <1>9, <1>10, <1>15
<1>18. n <= PayloadsSent
  BY <1>7, <1>9
<1>19. HasGot(r, n)'
  BY <1>1, <1>2, <1>3, <1>12, <1>13, <1>14, <1>16, <1>17, <1>18 DEF HasGot
<1> QED BY <1>4, <1>5, <1>9, <1>19

LEMMA QueueInvInit == Init => QueueInv
<1> SUFFICES ASSUME Init PROVE QueueInv
  OBVIOUS
<1>a. FlagInv
  BY InitFlags
<1>1. /\ writer.pc = "idle" /\ writer.sent = 0 /\ \A s \in Slots : ~written[s]
      /\ writer.idx = 0
  BY DEF Init
<1>2. \A s \in Slots : Age(s) >= 1
  BY <1>a, AgeSpec, RingAssumption DEF FlagInv
<1>3. RingInv
  BY <1>1, <1>2, AgeSpec, <1>a DEF RingInv, Writing, FlagInv
<1>4. ASSUME NEW r \in Readers PROVE HasRead(r, 0) /\ HasGot(r, 0)
  <2>1. /\ reader[r].pc = "idle" /\ reader[r].idx = 0 /\ got[r] = <<>> /\ socket[r] = <<>>
    BY DEF Init
  <2>2. HasRead(r, 0)
    BY <1>1, <2>1 DEF HasRead, Writing
  <2>3. HasGot(r, 0)
    BY <1>1, <2>1 DEF HasGot, PayloadsSent, Messages
  <2> QED BY <2>2, <2>3
<1> QED BY <1>1, <1>3, <1>4 DEF QueueInv

LEMMA QueueInvStep ==
    ASSUME LossIsLast, FlagInv, QueueInv, [Next]_vars
    PROVE  QueueInv'
<1>a. writer.sent \in Nat
  BY Fields DEF FlagInv
<1>1. RingInv'
  BY RingInvStep DEF QueueInv
<1>2. ASSUME NEW r \in Readers
      PROVE  \E n \in 0..writer'.sent : HasRead(r, n)' /\ HasGot(r, n)'
  <2>1. PICK n \in 0..writer.sent : HasRead(r, n) /\ HasGot(r, n)
    BY DEF QueueInv
  <2>2. n \in Nat /\ RingInv
    BY <1>a DEF QueueInv
  <2>3. CASE BeginEnqueue \/ WriterStep
    <3>1. HasRead(r, n)' /\ HasGot(r, n)'
      BY <2>1, <2>2, <2>3, HasReadWriterStep, HasGotWriterStep
    <3>2. n \in 0..writer'.sent
      BY <3>1 DEF HasRead
    <3> QED BY <3>1, <3>2
  <2>4. ASSUME NEW q \in Readers \ {r}, ReaderStep(q)
        PROVE  \E k \in 0..writer'.sent : HasRead(r, k)' /\ HasGot(r, k)'
    <3>1. HasRead(r, n)' /\ HasGot(r, n)'
      BY <2>1, <2>2, <2>4, HasReadOtherStep, HasGotOtherStep
    <3>2. n \in 0..writer'.sent
      BY <3>1 DEF HasRead
    <3> QED BY <3>1, <3>2
  <2>5. CASE ReaderStep(r)
    <3>1. CASE MarkRead(r)
      <4>1. n < writer.sent /\ reader[r].obj = Stored(n + 1) /\ HasRead(r, n + 1)'
        BY <2>1, <2>2, <3>1, HasReadMark
      <4>2. HasGot(r, n + 1)'
        BY <2>1, <2>2, <3>1, <4>1, HasGotMark
      <4>3. n + 1 \in 0..writer'.sent
        BY <4>1 DEF HasRead
      <4> QED BY <4>1, <4>2, <4>3
    <3>2. CASE ReceiveOverflow(r)
      <4>1. ~MarkRead(r)
        BY <3>2 DEF MarkRead, ReceiveOverflow
      <4>2. HasRead(r, n)' /\ HasGot(r, n)'
        BY <2>1, <2>2, <2>5, <3>2, <4>1, HasReadOwnStep, HasGotReceive
      <4>3. n \in 0..writer'.sent
        BY <4>2 DEF HasRead
      <4> QED BY <4>2, <4>3
    <3>3. CASE ~MarkRead(r) /\ ~ReceiveOverflow(r)
      <4>1. HasRead(r, n)' /\ HasGot(r, n)'
        BY <2>1, <2>2, <2>5, <3>3, HasReadOwnStep, HasGotOwnStep
      <4>2. n \in 0..writer'.sent
        BY <4>1 DEF HasRead
      <4> QED BY <4>1, <4>2
    <3> QED BY <3>1, <3>2, <3>3
  <2>6. CASE UNCHANGED <<config, shared, writer, reader, got>>
    BY <2>1, <2>6 DEF HasRead, HasGot, PayloadsSent, Stored, Large, Timeouts, MsgIn, Age,
       Writing, shared
  <2>7. ASSUME NEW q \in Readers, Shutdown(q)
        PROVE  UNCHANGED <<config, shared, writer, reader, got>>
    BY <2>7 DEF Shutdown
  <2>8. UNCHANGED vars => UNCHANGED <<config, shared, writer, reader, got>>
    BY DEF vars
  <2> QED BY <2>3, <2>4, <2>5, <2>6, <2>7, <2>8 DEF Next
<1> QED BY <1>1, <1>2 DEF QueueInv

-----------------------------------------------------------------------------
(* The refinement *)

LEMMA BroadcastInit == Init => Broadcast!Init
  BY DEF Init, Broadcast!Init

\* A message is sent when the writer sets the written flag, and received when the
\* reader takes it out of its chunk or out of its socket; every other step stutters.
LEMMA BroadcastStep ==
    ASSUME LossIsLast, FlagInv, QueueInv, [Next]_vars
    PROVE  [Broadcast!Next]_<<writer.sent, got>>
<1>a. TypeOK
  BY DEF FlagInv
<1>b. writer.sent \in Nat /\ MaxChunks \in Nat \ {0} /\ writer.idx \in Slots
  BY <1>a, Fields, RingAssumption
<1>c. got \in [Readers -> Seq(Messages)]
  BY <1>a DEF TypeOK
<1>1. CASE UNCHANGED <<writer.sent, got>>
  BY <1>1
<1>2. CASE Publish
  <2>1. /\ writer.pc = "publish" /\ UNCHANGED got
        /\ WriterMoves(IF CurrentMessage \in Large THEN "send" ELSE "notify",
                       NextIdx(writer.idx), writer.i, writer.sent + 1)
    BY <1>a, <1>2, WriterSteps DEF Publish
  <2>2. writer'.sent = writer.sent + 1
    BY <2>1, WriterFields
  <2>3. ASSUME NEW r \in Readers PROVE writer.sent - Len(got[r]) < MaxChunks + 1
    <3>1. PICK n \in 0..writer.sent : HasRead(r, n) /\ HasGot(r, n)
      BY DEF QueueInv
    <3>2. MsgIn(writer.idx) <= n
      BY <2>1, <3>1 DEF HasRead, Writing
    <3>3. MsgIn(writer.idx) = writer.sent + 1 - MaxChunks
      BY <1>a, AgeSpec DEF MsgIn
    <3>4. Len(got[r]) \in Nat /\ (Len(got[r]) = n \/ Len(got[r]) = n - 1)
      BY <1>c, <3>1 DEF HasGot
    <3> QED BY <1>b, <3>2, <3>3, <3>4
  <2> QED BY <2>1, <2>2, <2>3 DEF Broadcast!Next, Broadcast!Enqueue
<1>3. ASSUME NEW r \in Readers, MarkRead(r)
      PROVE  Broadcast!Dequeue(r) \/ UNCHANGED <<writer.sent, got>>
  <2>1. PICK n \in 0..writer.sent : HasRead(r, n) /\ HasGot(r, n)
    BY DEF QueueInv
  <2>2. n \in Nat /\ RingInv
    BY <1>b DEF QueueInv
  <2>3. n < writer.sent /\ reader[r].obj = Stored(n + 1)
    BY <1>3, <2>1, <2>2, HasReadMark
  <2>4. Len(got[r]) = n /\ (reader[r].obj # Overflow => reader[r].obj = n + 1)
    BY <1>3, <2>1, <2>2, <2>3, HasGotMark
  <2>5. CASE reader[r].obj = Overflow
    BY <1>3, <2>5 DEF MarkRead
  <2>6. CASE reader[r].obj # Overflow
    <3>1. /\ got' = [got EXCEPT ![r] = Append(got[r], n + 1)]
          /\ writer'.sent = writer.sent
      BY <1>3, <2>4, <2>6 DEF MarkRead
    <3> QED BY <2>3, <2>4, <3>1 DEF Broadcast!Dequeue
  <2> QED BY <2>5, <2>6
<1>4. ASSUME NEW r \in Readers, ReceiveOverflow(r) PROVE Broadcast!Dequeue(r)
  <2>1. PICK n \in 0..writer.sent : HasRead(r, n) /\ HasGot(r, n)
    BY DEF QueueInv
  <2>2. n \in Nat
    BY <1>b
  <2>3. Len(got[r]) = n - 1 /\ Head(socket[r]) = n
    BY <1>4, <2>1, <2>2, HasGotReceive
  <2>4. /\ got' = [got EXCEPT ![r] = Append(got[r], n)] /\ writer'.sent = writer.sent
    BY <1>4, <2>3 DEF ReceiveOverflow
  <2>5. Len(got[r]) < writer.sent /\ Len(got[r]) + 1 = n
    BY <1>b, <2>1, <2>3
  <2> QED BY <2>4, <2>5 DEF Broadcast!Dequeue
<1>5. CASE BeginEnqueue \/ WriterStep
  <2>1. CASE Publish
    BY <1>2, <2>1
  <2>2. CASE ResetReadFlag
    <3>1. WriterMoves(IF writer.i = NReaders THEN "publish" ELSE "reset",
                      writer.idx, writer.i + 1, writer.sent)
      BY <1>a, <2>2, WriterSteps
    <3>2. writer'.sent = writer.sent
      BY <3>1, WriterFields
    <3> QED BY <1>1, <2>2, <3>2 DEF ResetReadFlag
  <2>3. CASE ~Publish /\ ~ResetReadFlag
    <3>1. writer'.sent = writer.sent
      BY <1>a, <1>5, <2>3, WriterSteps, WriterFields DEF WriterStep
    <3>2. got' = got
      BY <1>5 DEF BeginEnqueue, WriterStep, AcquireWrite, WriteTimeout, WriteChunk,
         ResetReadFlag, Publish, SendOverflow, Notify
    <3> QED BY <1>1, <3>1, <3>2
  <2> QED BY <2>1, <2>2, <2>3
<1>6. ASSUME NEW r \in Readers, ReaderStep(r), ~MarkRead(r), ~ReceiveOverflow(r)
      PROVE  UNCHANGED <<writer.sent, got>>
  BY <1>6 DEF ReaderStep, BeginDequeue, LoadReadFlag, LoadWrittenFlag, WaitYield, WaitPoll,
     PollReturns, ReadTimeout, PollTimeout, CopyChunk, ReceiveTimeout
<1>7. ASSUME NEW r \in Readers, Shutdown(r) PROVE UNCHANGED <<writer.sent, got>>
  BY <1>7 DEF Shutdown
<1>8. UNCHANGED vars => UNCHANGED <<writer.sent, got>>
  BY DEF vars
<1>9. ASSUME NEW r \in Readers, Broadcast!Dequeue(r) PROVE Broadcast!Next
  BY <1>9 DEF Broadcast!Next
<1> QED BY <1>1, <1>3, <1>4, <1>5, <1>6, <1>7, <1>8, <1>9 DEF Next

\* The lock-free ring with its detours through the sockets delivers what an atomic
\* queue would: for every number of readers, chunks and messages, every message once
\* and in order to each reader, and the writer at most one message more ahead than
\* there are chunks (a large message is received after its chunk is released).
THEOREM RingImplementsBroadcast ==
    ASSUME LossIsLast
    PROVE  Spec => ImplementsBroadcast
<1>1. QueueInv /\ FlagInv /\ [Next]_vars => QueueInv'
  BY LossIsLast, QueueInvStep
<1>2. QueueInv /\ FlagInv /\ [Next]_vars => [Broadcast!Next]_<<writer.sent, got>>
  BY LossIsLast, BroadcastStep
<1>3. Spec => []QueueInv
  BY <1>1, QueueInvInit, FlagInvariance, PTL DEF Spec
<1> QED BY <1>2, <1>3, BroadcastInit, FlagInvariance, PTL
        DEF Spec, ImplementsBroadcast, Broadcast!Spec
=============================================================================
