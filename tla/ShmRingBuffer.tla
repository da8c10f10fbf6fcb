--------------------------- MODULE ShmRingBuffer ----------------------------
(***************************************************************************)
(* The broadcast queue between an executor and its worker processes:       *)
(* MessageQueue, ShmRingBuffer and SpinCondition of                        *)
(* distributed/device_communicators/shm_broadcast.py.                      *)
(*                                                                         *)
(* One writer and the local readers share MaxChunks chunks without a lock. *)
(* A chunk has a written flag, set by the writer, and one read flag per    *)
(* reader.  A step is one access to shared memory; the memory fences of    *)
(* the code make the accesses of a process visible in program order.       *)
(* A message that does not fit into a chunk (Large) goes through a socket: *)
(* the chunk only carries a mark.  That the buffers of a message may be    *)
(* unpickled without copying them is not modelled.                         *)
(***************************************************************************)
EXTENDS Naturals, Sequences

CONSTANTS
  NReaders,      \* n_local_reader
  MaxChunks,     \* max_chunks
  MaxMessages,   \* bound on the number of messages
  Configs        \* what may be sent and how: records with the fields below

Readers == 1..NReaders
Messages == 1..MaxMessages
Slots == 0..MaxChunks - 1

ASSUME RingAssumption ==
  /\ NReaders \in Nat \ {0}
  /\ MaxChunks \in Nat \ {0}
  /\ MaxMessages \in Nat
  /\ Configs \subseteq [large : SUBSET Messages, timeouts : BOOLEAN]

VARIABLES
  config,     \* chosen at the start
  written,    \* metadata[i][0]: the chunk holds a message
  readFlag,   \* metadata[i][r]: reader r is done with it
  chunk,      \* data of a chunk: a message, or Overflow
  socket,     \* large messages on their way to a reader
  ping,       \* a notification waits in the reader's socket
  writer,     \* program counter, current_idx, loop index, messages sent
  reader,     \* per reader: program counter, current_idx, loaded flag and data
  stopping,   \* shutdown() was called on the reader's side
  got         \* messages that dequeue() returned (history)

shared == <<written, readFlag, chunk, socket, ping>>
vars == <<config, shared, writer, reader, stopping, got>>

Large == config.large          \* messages that overflow a chunk
Timeouts == config.timeouts    \* do callers pass a timeout?

Overflow == 0

WriterPc == {"idle", "acquire", "write", "reset", "publish", "send", "notify"}
WriterState == [pc: WriterPc, idx: Slots, i: 1..NReaders + 1, sent: 0..MaxMessages]

ReaderPc == {"idle", "readFlag", "writtenFlag", "wait", "poll", "copy", "mark", "recv",
             "stopped"}
ReaderState ==
  [pc: ReaderPc, idx: Slots, seen: BOOLEAN, obj: Messages \union {Overflow}]

TypeOK ==
  /\ config \in Configs
  /\ written \in [Slots -> BOOLEAN]
  /\ readFlag \in [Slots -> [Readers -> BOOLEAN]]
  /\ chunk \in [Slots -> Messages \union {Overflow}]
  /\ socket \in [Readers -> Seq(Large)]
  /\ ping \in [Readers -> BOOLEAN]
  /\ writer \in WriterState
  /\ reader \in [Readers -> ReaderState]
  /\ stopping \in [Readers -> BOOLEAN]
  /\ got \in [Readers -> Seq(Messages)]

\* The metadata section is zeroed when the buffer is created; the data are
\* whatever the shared memory holds.
Init ==
  /\ config \in Configs
  /\ written = [s \in Slots |-> FALSE]
  /\ readFlag = [s \in Slots |-> [r \in Readers |-> FALSE]]
  /\ chunk = [s \in Slots |-> Overflow]
  /\ socket = [r \in Readers |-> <<>>]
  /\ ping = [r \in Readers |-> FALSE]
  /\ writer = [pc |-> "idle", idx |-> 0, i |-> 1, sent |-> 0]
  /\ reader = [r \in Readers |->
                 [pc |-> "idle", idx |-> 0, seen |-> FALSE, obj |-> Overflow]]
  /\ stopping = [r \in Readers |-> FALSE]
  /\ got = [r \in Readers |-> <<>>]

NextIdx(idx) == IF idx + 1 = MaxChunks THEN 0 ELSE idx + 1

-----------------------------------------------------------------------------
(* enqueue and acquire_write *)

CurrentMessage == writer.sent + 1

BeginEnqueue ==
  /\ writer.pc = "idle" /\ writer.sent < MaxMessages
  /\ writer' = [writer EXCEPT !.pc = "acquire"]
  /\ UNCHANGED <<config, shared, reader, stopping, got>>

ReadByAll(s) == \A r \in Readers : readFlag[s][r]

CanWrite_OneReader(s) == ~written[s] \/ \E r \in Readers : readFlag[s][r]

CanWrite(s) == ~written[s] \/ ReadByAll(s)

AcquireWrite ==
  /\ writer.pc = "acquire" /\ CanWrite(writer.idx)
  /\ written' = [written EXCEPT ![writer.idx] = FALSE]
  /\ writer' = [writer EXCEPT !.pc = "write"]
  /\ UNCHANGED <<config, readFlag, chunk, socket, ping, reader, stopping, got>>

\* TimeoutError: the message is not sent.
WriteTimeout ==
  /\ Timeouts
  /\ writer.pc = "acquire" /\ ~CanWrite(writer.idx)
  /\ writer' = [writer EXCEPT !.pc = "idle"]
  /\ UNCHANGED <<config, shared, reader, stopping, got>>

WriteChunk ==
  /\ writer.pc = "write"
  /\ chunk' = [chunk EXCEPT ![writer.idx] =
                 IF CurrentMessage \in Large THEN Overflow ELSE CurrentMessage]
  /\ writer' = [writer EXCEPT !.pc = "reset", !.i = 1]
  /\ UNCHANGED <<config, written, readFlag, socket, ping, reader, stopping, got>>

ResetReadFlag_LastKept ==
  /\ writer.pc = "reset"
  /\ readFlag' = IF writer.i = NReaders THEN readFlag
                  ELSE [readFlag EXCEPT ![writer.idx][writer.i] = FALSE]
  /\ writer' = [writer EXCEPT !.i = @ + 1,
                  !.pc = IF writer.i = NReaders THEN "publish" ELSE "reset"]
  /\ UNCHANGED <<config, written, chunk, socket, ping, reader, stopping, got>>

ResetReadFlag ==
  /\ writer.pc = "reset"
  /\ readFlag' = [readFlag EXCEPT ![writer.idx][writer.i] = FALSE]
  /\ writer' = [writer EXCEPT !.i = @ + 1,
                  !.pc = IF writer.i = NReaders THEN "publish" ELSE "reset"]
  /\ UNCHANGED <<config, written, chunk, socket, ping, reader, stopping, got>>

Publish ==
  /\ writer.pc = "publish"
  /\ written' = [written EXCEPT ![writer.idx] = TRUE]
  /\ writer' = [writer EXCEPT !.idx = NextIdx(@), !.sent = @ + 1,
                  !.pc = IF CurrentMessage \in Large THEN "send" ELSE "notify"]
  /\ UNCHANGED <<config, readFlag, chunk, socket, ping, reader, stopping, got>>

SendOverflow ==
  /\ writer.pc = "send"
  /\ socket' = [r \in Readers |-> Append(socket[r], writer.sent)]
  /\ writer' = [writer EXCEPT !.pc = "notify"]
  /\ UNCHANGED <<config, written, readFlag, chunk, ping, reader, stopping, got>>

\* SpinCondition.notify.  The reader's socket keeps one ping (CONFLATE).
Notify ==
  /\ writer.pc = "notify"
  /\ ping' = [r \in Readers |-> TRUE]
  /\ writer' = [writer EXCEPT !.pc = "idle"]
  /\ UNCHANGED <<config, written, readFlag, chunk, socket, reader, stopping, got>>

-----------------------------------------------------------------------------
(* dequeue and acquire_read *)

Goto(r, pc) == reader' = [reader EXCEPT ![r].pc = pc]

\* The caller asks for the next message.
BeginDequeue(r) ==
  /\ reader[r].pc = "idle"
  /\ Goto(r, "readFlag")
  /\ UNCHANGED <<config, shared, writer, stopping, got>>

LoadReadFlag(r) ==
  /\ reader[r].pc = "readFlag"
  /\ reader' = [reader EXCEPT ![r].seen = readFlag[reader[r].idx][r],
                              ![r].pc = "writtenFlag"]
  /\ UNCHANGED <<config, shared, writer, stopping, got>>

LoadWrittenFlag_AnyFlag(r) ==
  /\ reader[r].pc = "writtenFlag"
  /\ Goto(r, IF written[reader[r].idx] THEN "copy" ELSE "wait")
  /\ UNCHANGED <<config, shared, writer, stopping, got>>

LoadWrittenFlag(r) ==
  /\ reader[r].pc = "writtenFlag"
  /\ Goto(r, IF written[reader[r].idx] /\ ~reader[r].seen
               THEN "copy" ELSE "wait")
  /\ UNCHANGED <<config, shared, writer, stopping, got>>

\* After a wait the loop tries again, unless the reader is being shut down.
AfterWait(r) == Goto(r, IF stopping[r] THEN "stopped" ELSE "readFlag")

\* SpinCondition.wait within busy_loop_s of the last read.
WaitYield(r) ==
  /\ reader[r].pc = "wait"
  /\ AfterWait(r)
  /\ UNCHANGED <<config, shared, writer, stopping, got>>

\* SpinCondition.wait after that: sleep until a socket has something.
WaitPoll(r) ==
  /\ reader[r].pc = "wait"
  /\ Goto(r, "poll")
  /\ UNCHANGED <<config, shared, writer, stopping, got>>

PollReturns_NoCancel(r) ==
  /\ reader[r].pc = "poll"
  /\ ping[r]
  /\ ping' = [ping EXCEPT ![r] = FALSE]
  /\ AfterWait(r)
  /\ UNCHANGED <<config, written, readFlag, chunk, socket, writer, stopping, got>>

PollReturns(r) ==
  /\ reader[r].pc = "poll"
  /\ stopping[r] \/ ping[r]
  /\ ping' = [ping EXCEPT ![r] = @ /\ stopping[r]]
  /\ AfterWait(r)
  /\ UNCHANGED <<config, written, readFlag, chunk, socket, writer, stopping, got>>

\* timeout_ms() raises TimeoutError past the deadline; nothing is consumed.
ReadTimeout(r) ==
  /\ Timeouts
  /\ reader[r].pc = "wait"
  /\ Goto(r, "idle")
  /\ UNCHANGED <<config, shared, writer, stopping, got>>

\* The poll gives up after timeout_ms; the loop then looks once more.
PollTimeout(r) ==
  /\ Timeouts
  /\ reader[r].pc = "poll"
  /\ AfterWait(r)
  /\ UNCHANGED <<config, shared, writer, stopping, got>>

CopyChunk(r) ==
  /\ reader[r].pc = "copy"
  /\ reader' = [reader EXCEPT ![r].obj = chunk[reader[r].idx], ![r].pc = "mark"]
  /\ UNCHANGED <<config, shared, writer, stopping, got>>

MarkRead(r) ==
  LET s == reader[r].idx
      m == reader[r].obj
  IN
  /\ reader[r].pc = "mark"
  /\ readFlag' = [readFlag EXCEPT ![s][r] = TRUE]
  /\ reader' = [reader EXCEPT ![r].idx = NextIdx(@),
                  ![r].pc = IF m = Overflow THEN "recv" ELSE "idle"]
  /\ got' = IF m = Overflow THEN got ELSE [got EXCEPT ![r] = Append(@, m)]
  /\ UNCHANGED <<config, written, chunk, socket, ping, writer, stopping>>

ReceiveOverflow(r) ==
  /\ reader[r].pc = "recv" /\ socket[r] # <<>>
  /\ got' = [got EXCEPT ![r] = Append(@, Head(socket[r]))]
  /\ socket' = [socket EXCEPT ![r] = Tail(@)]
  /\ Goto(r, "idle")
  /\ UNCHANGED <<config, written, readFlag, chunk, ping, writer, stopping>>

\* recv: the socket had nothing within the timeout.  The chunk is already
\* marked as read.
ReceiveTimeout(r) ==
  /\ Timeouts
  /\ reader[r].pc = "recv"
  /\ Goto(r, "idle")
  /\ UNCHANGED <<config, shared, writer, stopping, got>>

\* shutdown(), called by a monitor thread of the reader's process.
Shutdown(r) ==
  /\ ~stopping[r]
  /\ stopping' = [stopping EXCEPT ![r] = TRUE]
  /\ UNCHANGED <<config, shared, writer, reader, got>>

-----------------------------------------------------------------------------
WriterStep ==
  \/ AcquireWrite \/ WriteTimeout \/ WriteChunk \/ ResetReadFlag \/ Publish
  \/ SendOverflow \/ Notify

ReaderStep(r) ==
  \/ BeginDequeue(r) \/ LoadReadFlag(r) \/ LoadWrittenFlag(r)
  \/ WaitYield(r) \/ WaitPoll(r) \/ PollReturns(r)
  \/ ReadTimeout(r) \/ PollTimeout(r)
  \/ CopyChunk(r) \/ MarkRead(r) \/ ReceiveOverflow(r) \/ ReceiveTimeout(r)

Next ==
  \/ BeginEnqueue
  \/ WriterStep
  \/ \E r \in Readers : ReaderStep(r) \/ Shutdown(r)

Spec == Init /\ [][Next]_vars

\* A process that has entered enqueue() keeps running, and so does the loop of
\* a reader.  Nobody has to enqueue, and nobody has to shut down.
FairSpec ==
  /\ Spec
  /\ WF_vars(WriterStep)
  /\ \A r \in Readers : WF_vars(ReaderStep(r))

-----------------------------------------------------------------------------
(* Properties *)

\* The writer never writes the data of a chunk that a reader is reading: between
\* the look at the flags and the setting of its read flag, a reader has the
\* chunk for itself (acquire_write waits for all the read flags).
NoTornRead ==
  \A r \in Readers :
    reader[r].pc \in {"copy", "mark"} =>
      ~(writer.pc \in {"write", "reset", "publish"} /\ writer.idx = reader[r].idx)

\* The lock-free ring delivers what an atomic queue would: each reader gets every
\* message once, in order, whatever the interleaving of flag accesses, wrapping
\* of the ring and detours through the socket.
Broadcast == INSTANCE BroadcastQueue
               WITH sent <- writer.sent, Capacity <- MaxChunks + 1
ImplementsBroadcast == Broadcast!Spec

\* No lost wake-up: a reader that sleeps in poll() although a message is in the
\* ring has a ping waiting, or the writer is about to send it.
NoLostWakeup ==
  \A r \in Readers :
    /\ reader[r].pc = "poll"
    /\ written[reader[r].idx] /\ ~readFlag[reader[r].idx][r]
    => ping[r] \/ writer.pc \in {"send", "notify"}

\* What the flags of acquire_write and acquire_read are for: neither a torn
\* message nor a reader that sleeps through one.
FlagsProtectChunks == TypeOK /\ NoTornRead /\ NoLostWakeup

\* Every message reaches every reader, as long as no reader is shut down (a
\* reader that stops leaves the writer waiting for its flag).  Calls that time
\* out are made again, and lose nothing but large messages.
Delivered ==
  \A r \in Readers, m \in Messages :
    (writer.sent >= m) ~> \/ \E i \in DOMAIN got[r] : got[r][i] = m
                          \/ Timeouts /\ m \in Large
                          \/ \E q \in Readers : stopping[q]

\* shutdown() wakes a reader wherever it waits, also when nobody writes any more
\* and it went to sleep before or after the flag was set.
ShutdownStops ==
  \A r \in Readers : (stopping[r] /\ ~Timeouts) ~> reader[r].pc = "stopped"
=============================================================================
