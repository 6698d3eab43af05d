---------------------------- MODULE StreamingJob ----------------------------
(***************************************************************************)
(* One streaming job of jobs/streaming.py (class _StreamingJob) together   *)
(* with the fetch/cancel paths of StreamingJobManager that drive it and a  *)
(* client that pulls batches with its resume cursor.                       *)
(*                                                                         *)
(* Every compound operation of the code (pump, drain, replay, cancel) runs *)
(* under the job's own lock, so at most one is in progress: op names the   *)
(* loop the lock holder is in, and the loops advance one chunk per step    *)
(* because the producer may block inside any of them.  Responses travel to *)
(* the client through reply, which the transport may lose.                 *)
(***************************************************************************)
EXTENDS Integers, Sequences, FiniteSets

CONSTANTS
  Sizes,            \* the byte sizes a chunk can have (_chunk_size_bytes)
  MaxBufferChunks,  \* Limits.max_stream_buffer_chunks
  MaxBufferBytes,   \* Limits.max_stream_buffer_bytes
  MaxReplayChunks,  \* Limits.max_stream_replay_chunks
  MaxReplayBytes,   \* Limits.max_stream_replay_bytes
  MaxFetchBatch,    \* _MAX_FETCH_BATCH
  MaxFunctions,     \* bound: functions the producer can yield
  MaxLosses         \* bound: responses the transport loses

ASSUME SizesAssumption == Sizes \subseteq Nat
ASSUME LimitsAssumption ==
  /\ MaxBufferChunks \in Nat \ {0}
  /\ MaxBufferBytes  \in Nat \ {0}
  /\ MaxReplayChunks \in Nat \ {0}
  /\ MaxReplayBytes  \in Nat \ {0}
  /\ MaxFetchBatch   \in Nat \ {0}
ASSUME BoundsAssumption == MaxFunctions \in Nat /\ MaxLosses \in Nat

VARIABLES
  state,           \* JobState
  buffer,          \* chunks produced and not yet fetched, oldest first
  bufferedBytes,
  replay,          \* chunks already fetched and still replayable
  replayBytes,
  nextSeq,         \* the seq of the next chunk produced
  cursor,          \* the seq of the next chunk to fetch
  producer,        \* the adapter's generator: live, exhausted or failed
  yielded,         \* functions the generator has yielded
  op,              \* what the holder of the job lock is doing
  left,            \* chunks the fetch in progress may still drain
  out,             \* chunks the fetch in progress has drained
  reply,           \* the response on its way to the client
  clientCursor,    \* the cursor the client will resume from
  received,        \* chunks the client has accepted, duplicates dropped
  verdict,         \* how the client knows the stream ended, or "none"
  losses           \* responses lost so far

jobVars    == <<state, buffer, bufferedBytes, replay, replayBytes, nextSeq, cursor>>
callVars   == <<op, left, out>>
clientVars == <<clientCursor, received, verdict, losses>>
producerVars == <<producer, yielded>>
vars       == <<jobVars, producerVars, callVars, reply, clientVars>>

-----------------------------------------------------------------------------
(* A chunk carries the seq the job stamped on it and, to tell a skipped or *)
(* reordered function from a correct one, the producer's own index fn.     *)
Chunk == [seq : Nat, fn : Nat, size : Sizes]

JobState       == {"running", "paused", "done", "error", "cancelled"}
TerminalStates == {"done", "error", "cancelled"}

(* A response: a StreamFetchResult ("chunks"), one of fetch's two          *)
(* VALIDATION refusals ("too_old", "ahead"), or none on its way.  Its done *)
(* flag is always "state is terminal" and its error always "state is error"*)
Reply == [kind : {"none", "chunks", "too_old", "ahead"}, chunks : Seq(Chunk),
          cursor : Nat, state : JobState]

Refusal(kind, c) ==
  [kind |-> kind, chunks |-> <<>>, cursor |-> c, state |-> "running"]

NoReply == Refusal("none", 0)

IsTerminal == state \in TerminalStates

(* Mutant: the internal state shown to the client. *)
EffectiveStateInternal == state

(* What the client may observe: a finished job is still "running" while    *)
(* chunks of it are undelivered.                                           *)
EffectiveState ==
  IF buffer # <<>> /\ state \in {"done", "error"} THEN "running" ELSE state

EffectiveDone == EffectiveState \in TerminalStates

(* Mutant: the caps tested one too late. *)
BufferFullLate == Len(buffer) > MaxBufferChunks \/ bufferedBytes > MaxBufferBytes

BufferFull == Len(buffer) >= MaxBufferChunks \/ bufferedBytes >= MaxBufferBytes

ReplayOver ==
  /\ Len(replay) > 1
  /\ Len(replay) > MaxReplayChunks \/ replayBytes > MaxReplayBytes

(* Mutant: no cursor is ever too old. *)
ReplayFloorOpen == 0

ReplayFloor == IF replay # <<>> THEN replay[1].seq ELSE cursor

(* chunks without its leading ones older than seq (seqs ascend, so the     *)
(* skipping loop never resumes).                                           *)
SkipBelow(chunks, seq) ==
  IF \E i \in 1 .. Len(chunks) : chunks[i].seq >= seq
  THEN LET first == CHOOSE i \in 1 .. Len(chunks) :
                      /\ chunks[i].seq >= seq
                      /\ \A j \in 1 .. i - 1 : chunks[j].seq < seq
       IN  SubSeq(chunks, first, Len(chunks))
  ELSE <<>>

(* The retained chunks from a given seq on, at most n of them. *)
ReplaySlice(from, n) ==
  LET wanted == SkipBelow(replay, from)
  IN  IF Len(wanted) <= n THEN wanted ELSE SubSeq(wanted, 1, n)

-----------------------------------------------------------------------------
Init ==
  /\ state = "running"
  /\ buffer = <<>> /\ bufferedBytes = 0
  /\ replay = <<>> /\ replayBytes = 0
  /\ nextSeq = 0 /\ cursor = 0
  /\ producer = "live" /\ yielded = 0
  /\ op = "start"                                \* start_job pumps the first batch
  /\ left = 0 /\ out = <<>>
  /\ reply = NoReply
  /\ clientCursor = 0 /\ received = <<>> /\ verdict = "none" /\ losses = 0

-----------------------------------------------------------------------------
(* pump: refill the buffer until it is full or the producer ends.  After   *)
(* it a fetch builds its response; start_job just releases the job lock.   *)
Pumping   == op \in {"start", "pump"}
AfterPump == op' = IF op = "pump" THEN "respond" ELSE "idle"

(* The producer may yield another function (Limits bound the total). *)
CanYield == producer = "live" /\ yielded < MaxFunctions

PumpPull(size) ==
  /\ Pumping /\ ~IsTerminal /\ ~BufferFull /\ CanYield
  /\ yielded' = yielded + 1
  /\ buffer' = Append(buffer, [seq |-> nextSeq, fn |-> yielded, size |-> size])
  /\ bufferedBytes' = bufferedBytes + size
  /\ nextSeq' = nextSeq + 1
  /\ UNCHANGED <<state, replay, replayBytes, cursor, producer, callVars, reply, clientVars>>

(* next() raised: StopIteration ends the job "done", anything else "error". *)
PumpEnd(end) ==
  /\ Pumping /\ ~IsTerminal /\ ~BufferFull /\ producer = "live"
  /\ \/ end = "exhausted" /\ state' = "done"
     \/ end = "failed"    /\ state' = "error"
  /\ producer' = end
  /\ AfterPump
  /\ UNCHANGED <<buffer, bufferedBytes, replay, replayBytes, nextSeq, cursor, yielded,
                 left, out, reply, clientVars>>

PumpPause ==
  /\ Pumping /\ ~IsTerminal /\ BufferFull
  /\ state' = "paused"
  /\ AfterPump
  /\ UNCHANGED <<buffer, bufferedBytes, replay, replayBytes, nextSeq, cursor, producerVars,
                 left, out, reply, clientVars>>

PumpTerminal ==
  /\ Pumping /\ IsTerminal
  /\ AfterPump
  /\ UNCHANGED <<jobVars, producerVars, left, out, reply, clientVars>>

-----------------------------------------------------------------------------
(* fetch, forward path (cursor omitted or equal to the job's): drain up to *)
(* limit chunks into the response, retaining each for replay, then pump.   *)
FetchForward(c, limit) ==
  /\ op = "idle" /\ reply = NoReply
  /\ c = cursor
  /\ op' = "drain" /\ left' = limit /\ out' = <<>>
  /\ UNCHANGED <<jobVars, producerVars, reply, clientVars>>

DrainOne ==
  /\ op = "drain" /\ left > 0 /\ buffer # <<>>
  /\ LET chunk == Head(buffer) IN
       /\ bufferedBytes' = bufferedBytes - chunk.size
       /\ cursor' = chunk.seq + 1
       /\ out' = Append(out, chunk)
       /\ replay' = Append(replay, chunk)
       /\ replayBytes' = replayBytes + chunk.size
  /\ buffer' = Tail(buffer)
  /\ left' = left - 1
  /\ op' = "retain"
  /\ UNCHANGED <<state, nextSeq, producerVars, reply, clientVars>>

(* Mutant: the bytes of an evicted chunk are not given back. *)
RetainEvictKeepsBytes ==
  /\ op = "retain" /\ ReplayOver
  /\ replay' = Tail(replay)
  /\ UNCHANGED <<state, buffer, bufferedBytes, replayBytes, nextSeq, cursor, producerVars,
                 callVars, reply, clientVars>>

(* _retain_for_replay: drop the oldest retained chunk while over a bound. *)
RetainEvict ==
  /\ op = "retain" /\ ReplayOver
  /\ replay' = Tail(replay)
  /\ replayBytes' = replayBytes - Head(replay).size
  /\ UNCHANGED <<state, buffer, bufferedBytes, nextSeq, cursor, producerVars, callVars,
                 reply, clientVars>>

RetainEnd ==
  /\ op = "retain" /\ ~ReplayOver
  /\ op' = "drain"
  /\ UNCHANGED <<jobVars, producerVars, left, out, reply, clientVars>>

(* Mutant: no refill after a drain. *)
DrainEndNoPump ==
  /\ op = "drain" /\ (left = 0 \/ buffer = <<>>)
  /\ state' = IF state = "paused" THEN "running" ELSE state
  /\ op' = "respond"
  /\ UNCHANGED <<buffer, bufferedBytes, replay, replayBytes, nextSeq, cursor, producerVars,
                 left, out, reply, clientVars>>

DrainEnd ==
  /\ op = "drain" /\ (left = 0 \/ buffer = <<>>)
  /\ state' = IF state = "paused" THEN "running" ELSE state
  /\ op' = "pump"
  /\ UNCHANGED <<buffer, bufferedBytes, replay, replayBytes, nextSeq, cursor, producerVars,
                 left, out, reply, clientVars>>

Respond ==
  /\ op = "respond"
  /\ reply' = [kind |-> "chunks", chunks |-> out, cursor |-> cursor,
               state |-> EffectiveState]
  /\ op' = "idle" /\ left' = 0 /\ out' = <<>>
  /\ UNCHANGED <<jobVars, producerVars, clientVars>>

(* fetch, resume path (cursor behind the job's): a read-only look back     *)
(* into the replay window, refused when the window no longer reaches it.   *)
FetchReplay(c, limit) ==
  /\ op = "idle" /\ reply = NoReply
  /\ c < cursor
  /\ \/ c < ReplayFloor /\ reply' = Refusal("too_old", c)
     \/ /\ c >= ReplayFloor
        /\ LET replayed   == ReplaySlice(c, limit)
               nextCursor == IF replayed = <<>> THEN c ELSE replayed[Len(replayed)].seq + 1
               caughtUp   == nextCursor >= cursor
           IN  reply' = [kind |-> "chunks", chunks |-> replayed, cursor |-> nextCursor,
                         state |-> IF caughtUp THEN EffectiveState ELSE "running"]
  /\ UNCHANGED <<jobVars, producerVars, callVars, clientVars>>

(* fetch with a cursor the server never reached. *)
FetchAhead(c) ==
  /\ op = "idle" /\ reply = NoReply
  /\ c > cursor
  /\ reply' = Refusal("ahead", c)
  /\ UNCHANGED <<jobVars, producerVars, callVars, clientVars>>

-----------------------------------------------------------------------------
(* Mutant: a completed job is cancelled. *)
CancelAlways ==
  /\ op = "idle" /\ state # "cancelled"
  /\ state' = "cancelled"
  /\ buffer' = <<>> /\ bufferedBytes' = 0
  /\ replay' = <<>> /\ replayBytes' = 0
  /\ UNCHANGED <<nextSeq, cursor, producerVars, callVars, reply, clientVars>>

(* cancel: a no-op once the client could have seen the end. *)
Cancel ==
  /\ op = "idle" /\ ~EffectiveDone
  /\ state' = "cancelled"
  /\ buffer' = <<>> /\ bufferedBytes' = 0
  /\ replay' = <<>> /\ replayBytes' = 0
  /\ UNCHANGED <<nextSeq, cursor, producerVars, callVars, reply, clientVars>>

(* drain_producer: exhaust the generator of a cancelled job, discarding    *)
(* whatever it still yields, until it stops or raises.                     *)
DrainProducer ==
  /\ op = "idle" /\ state = "cancelled" /\ producer = "live"
  /\ yielded' \in yielded .. MaxFunctions
  /\ producer' \in {"exhausted", "failed"}
  /\ UNCHANGED <<jobVars, callVars, reply, clientVars>>

-----------------------------------------------------------------------------
(* The client: one request at a time, always with a cursor it has reached; *)
(* it drops the chunks it already holds and resumes from the reply.        *)
Receive ==
  /\ reply # NoReply
  /\ \/ /\ reply.kind = "chunks"
        /\ received' = received \o SkipBelow(reply.chunks, clientCursor)
        /\ clientCursor' = IF reply.cursor > clientCursor THEN reply.cursor ELSE clientCursor
        /\ verdict' = IF reply.state \in TerminalStates THEN reply.state ELSE verdict
     \/ /\ reply.kind = "too_old"
        /\ verdict' = IF reply.cursor = clientCursor THEN "restart" ELSE verdict
        /\ UNCHANGED <<received, clientCursor>>
     \/ /\ reply.kind = "ahead"
        /\ UNCHANGED <<received, clientCursor, verdict>>
  /\ reply' = NoReply
  /\ UNCHANGED <<jobVars, producerVars, callVars, losses>>

Lose ==
  /\ reply # NoReply /\ losses < MaxLosses
  /\ losses' = losses + 1
  /\ reply' = NoReply
  /\ UNCHANGED <<jobVars, producerVars, callVars, clientCursor, received, verdict>>

(* The client asks from a cursor it has reached (its own, or an older one  *)
(* when it retries), or from one nobody has reached.                       *)
Fetch(c, limit) == FetchForward(c, limit) \/ FetchReplay(c, limit)

Request ==
  /\ verdict = "none"
  /\ \/ \E c \in 0 .. clientCursor, limit \in 1 .. MaxFetchBatch : Fetch(c, limit)
     \/ FetchAhead(cursor + 1)

Pump ==
  \/ \E size \in Sizes : PumpPull(size)
  \/ \E end \in {"exhausted", "failed"} : PumpEnd(end)
  \/ PumpPause
  \/ PumpTerminal

Drain == DrainOne \/ RetainEvict \/ RetainEnd \/ DrainEnd \/ Respond

Next ==
  \/ Pump
  \/ Drain
  \/ Request
  \/ Cancel
  \/ DrainProducer
  \/ Receive
  \/ Lose

Spec == Init /\ [][Next]_vars

(* The lock holder runs on (a blocked producer is cut by the stream's      *)
(* deadline), a reply that is not lost arrives, and a client that has not  *)
(* seen the end keeps polling from its own cursor.                         *)
Poll == verdict = "none" /\ \E limit \in 1 .. MaxFetchBatch : Fetch(clientCursor, limit)

Fairness ==
  /\ WF_vars(Pump)
  /\ WF_vars(Drain)
  /\ WF_vars(Receive)
  /\ SF_vars(Poll)

FairSpec == Spec /\ Fairness

-----------------------------------------------------------------------------
(* Type invariant of the job, the call in progress and the client. *)
TypeOK ==
  /\ state \in JobState
  /\ buffer \in Seq(Chunk) /\ bufferedBytes \in Int
  /\ replay \in Seq(Chunk) /\ replayBytes \in Int
  /\ nextSeq \in Nat /\ cursor \in Nat
  /\ producer \in {"live", "exhausted", "failed"} /\ yielded \in Nat
  /\ op \in {"start", "idle", "drain", "retain", "pump", "respond"}
  /\ left \in Nat /\ out \in Seq(Chunk)
  /\ reply \in Reply
  /\ clientCursor \in Nat /\ received \in Seq(Chunk) /\ losses \in Nat
  /\ verdict \in TerminalStates \cup {"none", "restart"}

(* The client's chunks are exactly the producer's first functions in       *)
(* order, whatever was lost, retried or replayed: pump and drain stamp a   *)
(* gap-free seq and the replay window never hands out a gap (ADR-040 D7).  *)
GapFree ==
  /\ Len(received) = clientCursor
  /\ \A i \in 1 .. Len(received) : received[i].seq = i - 1 /\ received[i].fn = i - 1

(* effective_state is honest: a client told "done" holds everything the    *)
(* exhausted producer yielded, and one told "error" holds every chunk      *)
(* produced before the failure.                                            *)
HonestEnd ==
  /\ verdict = "done"  => producer = "exhausted" /\ Len(received) = yielded
  /\ verdict = "error" => producer = "failed"    /\ Len(received) = yielded

(* Backpressure: the chunk count never exceeds its cap, and only the chunk *)
(* that filled the buffer may carry it past the byte cap (_buffer_full is  *)
(* tested before a pull, never after).                                     *)
Backpressure ==
  /\ Len(buffer) <= MaxBufferChunks
  /\ buffer # <<>> => bufferedBytes - buffer[Len(buffer)].size < MaxBufferBytes

(* Outside _retain_for_replay the replay window respects both caps, except *)
(* that one chunk larger than the byte cap is kept alone.                  *)
ReplayBounded == op # "retain" => ~ReplayOver

(* What a job holds for a slow client is bounded on both sides of the      *)
(* cursor, however producer, fetches, replays and cancels interleave: the  *)
(* undelivered chunks by _buffer_full, the delivered ones by the eviction  *)
(* loop of _retain_for_replay.                                             *)
WindowsBounded == Backpressure /\ ReplayBounded

(* The bytes a window holds, each told by its function and its place. *)
ChunkBytes(chunk)  == {chunk.fn} \X (1 .. chunk.size)
HeldBytes(chunks)  == UNION {ChunkBytes(chunks[i]) : i \in 1 .. Len(chunks)}
CountsBytes(total, chunks) == IsFiniteSet(HeldBytes(chunks)) /\ total = Cardinality(HeldBytes(chunks))

(* The running byte totals that _buffer_full and _retain_for_replay test   *)
(* are those of the chunks actually held, through every pull, drain,       *)
(* eviction and cancel (buffered_bytes, _replay_bytes).                    *)
BytesExact == CountsBytes(bufferedBytes, buffer) /\ CountsBytes(replayBytes, replay)

(* cancel leaves nothing behind: no chunk is held, and none is produced    *)
(* afterwards (drain_producer discards).                                   *)
CancelledIsEmpty ==
  state = "cancelled" => buffer = <<>> /\ replay = <<>> /\ bufferedBytes = 0

(* JobState: once terminal the job produces nothing more and never runs    *)
(* again, and "cancelled" is final.                                        *)
TerminalIsFinal ==
  [][ IsTerminal => /\ state' \in {state, "cancelled"}
                    /\ nextSeq' = nextSeq ]_<<state, nextSeq>>

(* A client that keeps polling learns how its stream ended, or that it     *)
(* must restart: pausing, losing replies and replaying never strand it.    *)
ClientLearnsEnd == <>(verdict # "none")

-----------------------------------------------------------------------------
(* The inductive invariant behind GapFree, HonestEnd and the refinement.   *)
(* Run(chunks, end): the chunks are the producer's functions up to end.    *)
Run(chunks, end) ==
  /\ Len(chunks) <= end
  /\ \A i \in 1 .. Len(chunks) :
       /\ chunks[i].seq = end - Len(chunks) + i - 1
       /\ chunks[i].fn  = end - Len(chunks) + i - 1

(* The buffer and the replay window meet at the cursor. *)
WindowsMeet ==
  /\ Run(buffer, nextSeq) /\ Run(replay, cursor)
  /\ cursor <= nextSeq
  /\ state # "cancelled" => cursor + Len(buffer) = nextSeq /\ yielded = nextSeq

(* Job state and producer agree. *)
StateMatchesProducer ==
  /\ state \in {"running", "paused"} => producer = "live"
  /\ state = "done"  => producer = "exhausted"
  /\ state = "error" => producer = "failed"

(* The fetch in progress started where the client stands; between fetches  *)
(* the client may be behind, never ahead.                                  *)
CallMatchesClient ==
  /\ clientCursor <= cursor
  /\ op # "idle" => reply = NoReply /\ verdict = "none"
  /\ op \in {"drain", "retain", "pump", "respond"} =>
       Run(out, cursor) /\ clientCursor + Len(out) = cursor

(* A reply on its way continues what the client holds, and a final one is  *)
(* about the state the job really ended in.                                *)
ReplyHonest ==
  reply.kind = "chunks" =>
    /\ Run(reply.chunks, reply.cursor)
    /\ reply.cursor <= cursor
    /\ reply.cursor - Len(reply.chunks) <= clientCursor
    /\ reply.chunks = <<>> => reply.cursor = clientCursor
    /\ reply.state \in TerminalStates =>
                     \/ reply.state = "cancelled" /\ state = "cancelled"
                     \/ /\ reply.state \in {"done", "error"} /\ reply.state = state
                        /\ reply.cursor = nextSeq /\ buffer = <<>>

(* A verdict is about the state the job really ended in. *)
VerdictFinal ==
  /\ verdict # "none" => reply = NoReply
  /\ verdict \in TerminalStates => state = verdict
  /\ verdict \in {"done", "error"} => buffer = <<>> /\ clientCursor = nextSeq

IInv ==
  /\ TypeOK
  /\ WindowsMeet
  /\ StateMatchesProducer
  /\ CallMatchesClient
  /\ ReplyHonest
  /\ VerdictFinal
  /\ GapFree
  /\ CancelledIsEmpty

-----------------------------------------------------------------------------
(* The job implements the stream contract: the client's prefix is what it  *)
(* received, and the job's two buffers and its cursor disappear.           *)
Contract == INSTANCE StreamContract WITH
  produced  <- nextSeq,
  source    <- CASE producer = "live"      -> "open"
                 [] producer = "exhausted" -> "done"
                 [] producer = "failed"    -> "error",
  held      <- clientCursor,
  cancelled <- state = "cancelled"

(* StreamingJob's safety part refines StreamContract step by step: fetch,  *)
(* replay, loss and retry amount to handing the client a longer prefix.    *)
ImplementsContract == Contract!Spec

=============================================================================
