------------------------- MODULE StreamingJobProofs -------------------------
(***************************************************************************)
(* Proofs that the properties of StreamingJob hold for every buffer and    *)
(* replay limit, every stream length and any number of lost replies.       *)
(***************************************************************************)
EXTENDS StreamingJob, FiniteSetTheorems, TLAPS

USE SizesAssumption, LimitsAssumption, BoundsAssumption

(* A refusal, and the absence of a reply, are replies. *)
LEMMA RefusalType ==
  ASSUME NEW kind \in {"none", "too_old", "ahead"}, NEW c \in Nat
  PROVE  Refusal(kind, c) \in Reply
<1>1. <<>> \in Seq(Chunk)
  OBVIOUS
<1> QED
  BY <1>1 DEF Refusal, Reply, JobState

LEMMA NoReplyType == NoReply \in Reply
BY RefusalType DEF NoReply

(* The initial state of a job satisfies the inductive invariant. *)
LEMMA InitIInv == Init => IInv
<1> SUFFICES ASSUME Init PROVE IInv
  OBVIOUS
<1>0. NoReply \in Reply
  BY NoReplyType
<1>1. TypeOK
  <2>1. <<>> \in Seq(Chunk)
    OBVIOUS
  <2> QED
    BY <1>0, <2>1 DEF Init, TypeOK, JobState, TerminalStates
<1>2. WindowsMeet /\ GapFree
  BY DEF Init, WindowsMeet, GapFree, Run
<1>3. StateMatchesProducer /\ CallMatchesClient /\ CancelledIsEmpty
  BY DEF Init, StateMatchesProducer, CallMatchesClient, CancelledIsEmpty
<1>4. ReplyHonest /\ VerdictFinal
  BY DEF Init, ReplyHonest, VerdictFinal, NoReply, Refusal, TerminalStates
<1> QED
  BY <1>1, <1>2, <1>3, <1>4 DEF IInv

(* The fields of a chunk are naturals. *)
LEMMA ChunkFields ==
  ASSUME NEW c \in Chunk
  PROVE  c.seq \in Nat /\ c.fn \in Nat /\ c.size \in Nat
BY DEF Chunk

(* Appending the next function to a run, as pump and drain do, extends it. *)
LEMMA RunAppend ==
  ASSUME NEW S \in Seq(Chunk), NEW end \in Nat, NEW c \in Chunk,
         Run(S, end), c.seq = end, c.fn = end
  PROVE  Append(S, c) \in Seq(Chunk) /\ Run(Append(S, c), end + 1)
<1>1. Append(S, c) \in Seq(Chunk) /\ Len(Append(S, c)) = Len(S) + 1
  OBVIOUS
<1>2. Len(S) \in Nat /\ Len(Append(S, c)) <= end + 1
  BY <1>1 DEF Run
<1>3. ASSUME NEW i \in 1 .. Len(Append(S, c))
      PROVE  /\ Append(S, c)[i].seq = (end + 1) - Len(Append(S, c)) + i - 1
             /\ Append(S, c)[i].fn  = (end + 1) - Len(Append(S, c)) + i - 1
  <2>1. CASE i = Len(S) + 1
    <3>1. Append(S, c)[i] = c
      BY <2>1
    <3> QED
      BY <1>1, <1>2, <2>1, <3>1
  <2>2. CASE i # Len(S) + 1
    <3>1. i \in 1 .. Len(S) /\ Append(S, c)[i] = S[i]
      BY <1>1, <1>2, <2>2
    <3>2. S[i].seq = end - Len(S) + i - 1 /\ S[i].fn = end - Len(S) + i - 1
      BY <3>1 DEF Run
    <3> QED
      BY <1>1, <1>2, <3>1, <3>2
  <2> QED
    BY <2>1, <2>2
<1>4. Run(Append(S, c), end + 1)
  BY <1>2, <1>3, Zenon DEF Run
<1> QED
  BY <1>1, <1>4

(* Dropping the oldest chunk of a run leaves a run with the same end. *)
LEMMA RunTail ==
  ASSUME NEW S \in Seq(Chunk), NEW end \in Nat, Run(S, end), S # <<>>
  PROVE  /\ Tail(S) \in Seq(Chunk) /\ Run(Tail(S), end) /\ Len(Tail(S)) = Len(S) - 1
         /\ Head(S) \in Chunk
         /\ Head(S).seq = end - Len(S) /\ Head(S).fn = end - Len(S)
BY DEF Run

(* Cutting a run: a suffix keeps its end, a prefix of n ends n after the   *)
(* start.                                                                  *)
LEMMA RunSubSeq ==
  ASSUME NEW S \in Seq(Chunk), NEW end \in Nat, Run(S, end),
         NEW a \in 1 .. Len(S), NEW b \in a .. Len(S)
  PROVE  /\ SubSeq(S, a, b) \in Seq(Chunk) /\ Len(SubSeq(S, a, b)) = b - a + 1
         /\ Run(SubSeq(S, a, b), end - Len(S) + b)
BY DEF Run

(* pump appends the next function to the buffer. *)
LEMMA PumpPullIInv ==
  ASSUME IInv, NEW size \in Sizes, PumpPull(size)
  PROVE  IInv'
<1> DEFINE c == [seq |-> nextSeq, fn |-> yielded, size |-> size]
<1> USE DEF IInv
<1>1. c \in Chunk /\ c.seq = nextSeq /\ c.fn = nextSeq
  BY DEF PumpPull, TypeOK, WindowsMeet, Chunk, IsTerminal, TerminalStates
<1>2. buffer' = Append(buffer, c) /\ nextSeq' = nextSeq + 1 /\ yielded' = yielded + 1
  BY DEF PumpPull
<1>3. buffer' \in Seq(Chunk) /\ Run(buffer', nextSeq') /\ Len(buffer') = Len(buffer) + 1
  BY <1>1, <1>2, RunAppend DEF TypeOK, WindowsMeet
<1>4. TypeOK'
  BY <1>2, <1>3 DEF PumpPull, TypeOK, callVars, clientVars
<1>5. WindowsMeet'
  BY <1>2, <1>3 DEF PumpPull, TypeOK, WindowsMeet, IsTerminal, TerminalStates
<1>6. StateMatchesProducer' /\ CallMatchesClient' /\ GapFree' /\ CancelledIsEmpty'
  BY DEF PumpPull, StateMatchesProducer, CallMatchesClient, GapFree, CancelledIsEmpty,
         callVars, clientVars, IsTerminal, TerminalStates
<1>7. ReplyHonest' /\ VerdictFinal'
  BY DEF PumpPull, Pumping, CallMatchesClient, ReplyHonest, VerdictFinal, NoReply, Refusal,
         callVars, clientVars, TerminalStates
<1> QED
  BY <1>4, <1>5, <1>6, <1>7

(* pump stops: the producer ended, the buffer is full, or the job was over. *)
LEMMA PumpStopIInv ==
  ASSUME IInv, PumpPause \/ PumpTerminal \/ \E end \in {"exhausted", "failed"} : PumpEnd(end)
  PROVE  IInv'
<1> USE DEF IInv
<1>1. /\ op' \in {"idle", "respond"} /\ (op' = "respond" => op = "pump")
      /\ UNCHANGED <<buffer, bufferedBytes, replay, replayBytes, nextSeq, cursor, yielded,
                     left, out, reply, clientCursor, received, verdict, losses>>
  BY DEF PumpPause, PumpTerminal, PumpEnd, AfterPump, Pumping, jobVars, producerVars, clientVars
<1>2. /\ state' \in JobState /\ producer' \in {"live", "exhausted", "failed"}
      /\ state' = "cancelled" <=> state = "cancelled"
      /\ StateMatchesProducer'
  BY DEF PumpPause, PumpTerminal, PumpEnd, jobVars, producerVars, JobState, TypeOK,
         StateMatchesProducer, IsTerminal, TerminalStates
<1>3. op # "idle"
  BY DEF PumpPause, PumpTerminal, PumpEnd, Pumping
<1>4. TypeOK'
  BY <1>1, <1>2 DEF TypeOK
<1>5. WindowsMeet' /\ CallMatchesClient' /\ GapFree' /\ CancelledIsEmpty'
  BY <1>1, <1>2 DEF WindowsMeet, CallMatchesClient, GapFree, CancelledIsEmpty
<1>6. ReplyHonest' /\ VerdictFinal'
  BY <1>1, <1>3 DEF CallMatchesClient, ReplyHonest, VerdictFinal, NoReply, Refusal, TerminalStates
<1> QED
  BY <1>2, <1>4, <1>5, <1>6

(* A forward fetch starts only where the client stands. *)
LEMMA FetchForwardIInv ==
  ASSUME IInv, verdict = "none", NEW c \in 0 .. clientCursor, NEW limit \in 1 .. MaxFetchBatch,
         FetchForward(c, limit)
  PROVE  IInv'
<1> USE DEF IInv
<1>1. /\ op' = "drain" /\ left' = limit /\ out' = <<>> /\ c = cursor /\ reply = NoReply
      /\ UNCHANGED <<state, buffer, bufferedBytes, replay, replayBytes, nextSeq, cursor,
                     producer, yielded, reply, clientCursor, received, verdict, losses>>
  BY DEF FetchForward, jobVars, producerVars, clientVars
<1>2. limit \in Nat /\ cursor \in Nat /\ clientCursor = cursor
  BY <1>1 DEF TypeOK, CallMatchesClient
<1>3. <<>> \in Seq(Chunk) /\ Len(<<>>) = 0 /\ Run(<<>>, cursor)
  BY <1>2 DEF Run
<1>4. TypeOK'
  BY <1>1, <1>2, <1>3 DEF TypeOK
<1>5. WindowsMeet' /\ StateMatchesProducer' /\ GapFree' /\ CancelledIsEmpty'
  BY <1>1 DEF WindowsMeet, StateMatchesProducer, GapFree, CancelledIsEmpty
<1>6. CallMatchesClient'
  BY <1>1, <1>2, <1>3 DEF CallMatchesClient
<1>7. ReplyHonest' /\ VerdictFinal'
  BY <1>1 DEF ReplyHonest, VerdictFinal
<1> QED
  BY <1>4, <1>5, <1>6, <1>7

(* drain moves the oldest buffered chunk into the response and the window. *)
LEMMA DrainOneIInv ==
  ASSUME IInv, DrainOne
  PROVE  IInv'
<1> DEFINE c == Head(buffer)
<1> USE DEF IInv
<1>1. /\ op = "drain" /\ op' = "retain" /\ left > 0 /\ left' = left - 1 /\ buffer # <<>>
      /\ bufferedBytes' = bufferedBytes - c.size /\ cursor' = c.seq + 1
      /\ out' = Append(out, c) /\ replay' = Append(replay, c)
      /\ replayBytes' = replayBytes + c.size /\ buffer' = Tail(buffer)
      /\ UNCHANGED <<state, nextSeq, producer, yielded, reply, clientCursor, received, verdict,
                     losses>>
  BY DEF DrainOne, producerVars, clientVars
<1>2. state # "cancelled"
  BY <1>1 DEF CancelledIsEmpty
<1>3. /\ c \in Chunk /\ c.seq = cursor /\ c.fn = cursor
      /\ buffer' \in Seq(Chunk) /\ Run(buffer', nextSeq) /\ Len(buffer') = Len(buffer) - 1
  <2>1. buffer \in Seq(Chunk) /\ buffer # <<>> /\ nextSeq \in Nat /\ cursor \in Nat
        /\ Run(buffer, nextSeq) /\ cursor + Len(buffer) = nextSeq
    BY <1>1, <1>2 DEF TypeOK, WindowsMeet
  <2>2. Tail(buffer) \in Seq(Chunk) /\ Run(Tail(buffer), nextSeq)
        /\ Len(Tail(buffer)) = Len(buffer) - 1
    BY <2>1, RunTail
  <2>3. c = buffer[1] /\ 1 \in 1 .. Len(buffer) /\ c \in Chunk /\ Len(buffer) \in Nat
    BY <2>1
  <2>4. c.seq = nextSeq - Len(buffer) + 1 - 1 /\ c.fn = nextSeq - Len(buffer) + 1 - 1
    BY <2>1, <2>3 DEF Run
  <2>5. c.seq = cursor /\ c.fn = cursor
    BY <2>1, <2>3, <2>4
  <2> QED
    BY <1>1, <2>2, <2>3, <2>5
<1>4. cursor' = cursor + 1 /\ c.size \in Int
  BY <1>1, <1>3, ChunkFields
<1>5. replay' \in Seq(Chunk) /\ Run(replay', cursor')
  <2>1. replay \in Seq(Chunk) /\ cursor \in Nat /\ Run(replay, cursor)
    BY DEF TypeOK, WindowsMeet
  <2> HIDE DEF c, IInv
  <2> QED
    BY <1>1, <1>3, <1>4, <2>1, RunAppend
<1>6. out' \in Seq(Chunk) /\ Run(out', cursor') /\ Len(out') = Len(out) + 1
  <2>1. out \in Seq(Chunk) /\ cursor \in Nat /\ Run(out, cursor)
    BY <1>1 DEF TypeOK, CallMatchesClient
  <2> HIDE DEF c, IInv
  <2>2. Append(out, c) \in Seq(Chunk) /\ Run(Append(out, c), cursor + 1)
    BY <1>3, <2>1, RunAppend
  <2>3. Len(Append(out, c)) = Len(out) + 1
    BY <1>3, <2>1
  <2> QED
    BY <1>1, <1>4, <2>2, <2>3
<1>7. TypeOK'
  <2>1. bufferedBytes' \in Int /\ replayBytes' \in Int
    <3>1. bufferedBytes \in Int /\ replayBytes \in Int
      BY DEF TypeOK
    <3> HIDE DEF c, IInv
    <3> QED
      BY <1>1, <1>4, <3>1
  <2>2. cursor' \in Nat /\ left' \in Nat
    <3>1. cursor \in Nat /\ left \in Nat
      BY DEF TypeOK
    <3> HIDE DEF c, IInv
    <3> QED
      BY <1>1, <1>4, <3>1
  <2> QED
    BY <1>1, <1>3, <1>5, <1>6, <2>1, <2>2 DEF TypeOK
<1>8. WindowsMeet'
  <2>1. cursor' + Len(buffer') = nextSeq /\ cursor' <= nextSeq
    <3>1. /\ cursor + Len(buffer) = nextSeq
          /\ cursor \in Nat /\ nextSeq \in Nat /\ Len(buffer) \in Nat /\ Len(buffer') \in Nat
      BY <1>2, <1>3 DEF WindowsMeet, TypeOK
    <3> HIDE DEF c, IInv
    <3> QED
      BY <1>3, <1>4, <3>1
  <2> QED
    BY <1>1, <1>2, <1>3, <1>5, <2>1 DEF WindowsMeet
<1>9. CallMatchesClient'
  <2>1. /\ clientCursor <= cursor /\ clientCursor + Len(out) = cursor /\ reply = NoReply
        /\ verdict = "none" /\ clientCursor \in Nat /\ cursor \in Nat /\ Len(out) \in Nat
    BY <1>1 DEF CallMatchesClient, TypeOK
  <2>2. clientCursor <= cursor + 1 /\ clientCursor + (Len(out) + 1) = cursor + 1
    BY ONLY <2>1
  <2> QED
    BY ONLY <1>1, <1>4, <1>6, <2>1, <2>2 DEF CallMatchesClient
<1>10. StateMatchesProducer' /\ GapFree' /\ CancelledIsEmpty'
  BY <1>1, <1>2 DEF StateMatchesProducer, GapFree, CancelledIsEmpty
<1>11. ReplyHonest' /\ VerdictFinal'
  BY <1>1 DEF CallMatchesClient, ReplyHonest, VerdictFinal, NoReply, Refusal, TerminalStates
<1> QED
  BY <1>7, <1>8, <1>9, <1>10, <1>11

(* Dropping the oldest retained chunk keeps the window adjacent to the cursor. *)
LEMMA RetainEvictIInv ==
  ASSUME IInv, RetainEvict
  PROVE  IInv'
<1> USE DEF IInv
<1>1. /\ op = "retain" /\ replay # <<>> /\ replay' = Tail(replay)
      /\ replayBytes' = replayBytes - Head(replay).size
      /\ UNCHANGED <<state, buffer, bufferedBytes, nextSeq, cursor, producer, yielded, op, left,
                     out, reply, clientCursor, received, verdict, losses>>
  BY DEF RetainEvict, ReplayOver, producerVars, callVars, clientVars
<1>2. replay' \in Seq(Chunk) /\ Run(replay', cursor) /\ Head(replay).size \in Int
  BY <1>1, RunTail, ChunkFields DEF TypeOK, WindowsMeet
<1>3. TypeOK'
  BY <1>1, <1>2 DEF TypeOK
<1>4. WindowsMeet' /\ StateMatchesProducer' /\ GapFree' /\ CallMatchesClient'
  BY <1>1, <1>2 DEF WindowsMeet, StateMatchesProducer, GapFree, CallMatchesClient
<1>5. CancelledIsEmpty'
  BY <1>1 DEF CancelledIsEmpty
<1>6. ReplyHonest' /\ VerdictFinal'
  BY <1>1 DEF ReplyHonest, VerdictFinal
<1> QED
  BY <1>3, <1>4, <1>5, <1>6

(* The ends of the retain and drain loops only move the lock holder on. *)
LEMMA LoopEndIInv ==
  ASSUME IInv, RetainEnd \/ DrainEnd
  PROVE  IInv'
<1> USE DEF IInv
<1>1. /\ op \in {"drain", "retain"} /\ op' \in {"drain", "pump"}
      /\ UNCHANGED <<buffer, bufferedBytes, replay, replayBytes, nextSeq, cursor, producer,
                     yielded, left, out, reply, clientCursor, received, verdict, losses>>
  BY DEF RetainEnd, DrainEnd, jobVars, producerVars, clientVars
<1>2. /\ state' \in JobState
      /\ (state' = "cancelled") <=> (state = "cancelled")
      /\ StateMatchesProducer'
  BY DEF RetainEnd, DrainEnd, jobVars, producerVars, JobState, TypeOK, StateMatchesProducer
<1>3. TypeOK'
  BY <1>1, <1>2 DEF TypeOK
<1>4. WindowsMeet' /\ GapFree' /\ CancelledIsEmpty' /\ CallMatchesClient'
  BY <1>1, <1>2 DEF WindowsMeet, GapFree, CancelledIsEmpty, CallMatchesClient
<1>5. ReplyHonest' /\ VerdictFinal'
  BY <1>1 DEF CallMatchesClient, ReplyHonest, VerdictFinal, NoReply, Refusal, TerminalStates
<1> QED
  BY <1>2, <1>3, <1>4, <1>5

(* The response of a forward fetch is what it drained. *)
LEMMA RespondIInv ==
  ASSUME IInv, Respond
  PROVE  IInv'
<1> DEFINE r == [kind |-> "chunks", chunks |-> out, cursor |-> cursor, state |-> EffectiveState]
<1> USE DEF IInv
<1>1. /\ op = "respond" /\ op' = "idle" /\ left' = 0 /\ out' = <<>> /\ reply' = r
      /\ UNCHANGED <<state, buffer, bufferedBytes, replay, replayBytes, nextSeq, cursor,
                     producer, yielded, clientCursor, received, verdict, losses>>
  BY DEF Respond, jobVars, producerVars, clientVars
<1>2. EffectiveState \in JobState
  BY DEF EffectiveState, TypeOK, JobState
<1>3. r \in Reply
  BY <1>2 DEF Reply, TypeOK
<1>4. <<>> \in Seq(Chunk)
  OBVIOUS
<1>5. TypeOK'
  BY <1>1, <1>3, <1>4 DEF TypeOK
<1>6. WindowsMeet' /\ StateMatchesProducer' /\ GapFree' /\ CancelledIsEmpty'
  BY <1>1 DEF WindowsMeet, StateMatchesProducer, GapFree, CancelledIsEmpty
<1>7. CallMatchesClient'
  BY <1>1 DEF CallMatchesClient
<1>8. ReplyHonest'
  <2>1. Run(out, cursor) /\ clientCursor + Len(out) = cursor /\ Len(out) \in Nat
    BY <1>1 DEF CallMatchesClient, TypeOK
  <2>2. /\ cursor - Len(out) <= clientCursor
        /\ out = <<>> => cursor = clientCursor
    BY <2>1 DEF TypeOK
  <2>3. ASSUME EffectiveState \in TerminalStates
        PROVE  \/ EffectiveState = "cancelled" /\ state = "cancelled"
               \/ /\ EffectiveState \in {"done", "error"} /\ EffectiveState = state
                  /\ cursor = nextSeq /\ buffer = <<>>
    BY <2>3 DEF EffectiveState, TerminalStates, WindowsMeet, TypeOK, JobState
  <2> QED
    BY <1>1, <2>1, <2>2, <2>3 DEF ReplyHonest, TypeOK
<1>9. VerdictFinal'
  BY <1>1 DEF VerdictFinal, CallMatchesClient, TerminalStates
<1> QED
  BY <1>5, <1>6, <1>7, <1>8, <1>9

(* Skipping the chunks of a run older than q, as replay and a client that  *)
(* drops duplicates do, leaves exactly the run from q on.                  *)
LEMMA SkipBelowRun ==
  ASSUME NEW S \in Seq(Chunk), NEW end \in Nat, Run(S, end), NEW q \in Nat, q >= end - Len(S)
  PROVE  /\ q >= end => SkipBelow(S, q) = <<>>
         /\ q < end => /\ SkipBelow(S, q) \in Seq(Chunk)
                       /\ Run(SkipBelow(S, q), end)
                       /\ Len(SkipBelow(S, q)) = end - q
<1>0. Len(S) \in Nat /\ Len(S) <= end
  BY DEF Run
<1>1. ASSUME NEW i \in 1 .. Len(S)
      PROVE  S[i].seq = end - Len(S) + i - 1
  BY DEF Run
<1>2. CASE q >= end
  <2>1. ~ \E i \in 1 .. Len(S) : S[i].seq >= q
    BY <1>0, <1>1, <1>2
  <2> QED
    BY <1>0, <1>2, <2>1 DEF SkipBelow
<1>3. CASE q < end
  <2> DEFINE k == q - (end - Len(S)) + 1
             P(i) == S[i].seq >= q /\ \A j \in 1 .. i - 1 : S[j].seq < q
  <2>0. k \in 1 .. Len(S) /\ k \in Int /\ q = end - Len(S) + k - 1
    BY <1>0, <1>3
  <2> HIDE DEF k
  <2>1. k \in 1 .. Len(S) /\ P(k)
    <3>1. S[k].seq = q
      BY <1>1, <2>0
    <3>2. ASSUME NEW j \in 1 .. k - 1 PROVE S[j].seq < q
      <4>1. j \in 1 .. Len(S)
        BY <1>0, <2>0
      <4>2. S[j].seq = end - Len(S) + j - 1
        BY <1>1, <4>1
      <4> QED
        BY <1>0, <2>0, <4>2
    <3> QED
      BY <2>0, <3>1, <3>2
  <2>2. ASSUME NEW i \in 1 .. Len(S), P(i) PROVE i = k
    <3>1. S[i].seq = end - Len(S) + i - 1 /\ S[k].seq = q
      BY <1>1, <2>0
    <3>2. i >= k
      BY <1>0, <2>0, <2>2, <3>1
    <3>3. ~ (k \in 1 .. i - 1)
      BY <2>2, <3>1
    <3> QED
      BY <1>0, <2>0, <3>2, <3>3
  <2>3. (CHOOSE i \in 1 .. Len(S) : P(i)) = k
    BY <2>1, <2>2
  <2>4. \E i \in 1 .. Len(S) : S[i].seq >= q
    BY <2>1
  <2>5. SkipBelow(S, q) = SubSeq(S, k, Len(S))
    BY <2>3, <2>4 DEF SkipBelow
  <2>6. /\ SubSeq(S, k, Len(S)) \in Seq(Chunk) /\ Len(SubSeq(S, k, Len(S))) = Len(S) - k + 1
        /\ Run(SubSeq(S, k, Len(S)), end - Len(S) + Len(S))
    BY <1>0, <2>1, RunSubSeq
  <2>7. end - Len(S) + Len(S) = end /\ Len(S) - k + 1 = end - q
    BY <1>0, <2>0
  <2> QED
    BY <1>3, <2>5, <2>6, <2>7
<1> QED
  BY <1>2, <1>3

(* Within the window a replay starts at the requested cursor and ends at   *)
(* the cursor it reports.                                                  *)
LEMMA ReplaySliceRun ==
  ASSUME IInv, NEW c \in Nat, c < cursor, c >= ReplayFloor, NEW n \in Nat, n >= 1
  PROVE  LET S == ReplaySlice(c, n)
         IN  /\ S \in Seq(Chunk) /\ Len(S) >= 1 /\ S[Len(S)].seq \in Nat
             /\ S[Len(S)].seq + 1 \in c + 1 .. cursor
             /\ Run(S, S[Len(S)].seq + 1)
             /\ S[Len(S)].seq + 1 - Len(S) = c
<1> DEFINE W == SkipBelow(replay, c)
<1>1. replay \in Seq(Chunk) /\ cursor \in Nat /\ Run(replay, cursor)
  BY DEF IInv, TypeOK, WindowsMeet
<1>2. replay # <<>> /\ cursor - Len(replay) <= c
  BY <1>1 DEF ReplayFloor, Run
<1>3. W \in Seq(Chunk) /\ Run(W, cursor) /\ Len(W) = cursor - c
  BY <1>1, <1>2, SkipBelowRun
<1> HIDE DEF W
<1>4. CASE Len(W) <= n
  <2>1. ReplaySlice(c, n) = W
    BY <1>4 DEF ReplaySlice, W
  <2>2. W[Len(W)].seq = cursor - 1
    BY <1>1, <1>3 DEF Run
  <2>3. /\ Len(W) >= 1 /\ cursor - 1 \in Nat /\ cursor - 1 + 1 = cursor
        /\ cursor \in c + 1 .. cursor /\ cursor - Len(W) = c
    BY <1>1, <1>3
  <2> QED
    BY <1>1, <1>3, <2>1, <2>2, <2>3, SMTT(30)
<1>5. CASE Len(W) > n
  <2>1. ReplaySlice(c, n) = SubSeq(W, 1, n)
    BY <1>3, <1>5 DEF ReplaySlice, W
  <2> DEFINE V == SubSeq(W, 1, n)
  <2>2. V \in Seq(Chunk) /\ Len(V) = n /\ Run(V, c + n)
    <3>1. 1 \in 1 .. Len(W) /\ n \in 1 .. Len(W)
      BY <1>1, <1>3, <1>5
    <3> QED
      BY <1>1, <1>3, <3>1, RunSubSeq
  <2> HIDE DEF V
  <2>3. V[Len(V)].seq = c + n - 1
    BY <2>2 DEF Run
  <2> QED
    BY <1>1, <1>3, <1>5, <2>1, <2>2, <2>3 DEF V
<1> QED
  BY <1>1, <1>3, <1>4, <1>5

(* A resume is read-only, and what it answers continues the client. *)
LEMMA FetchReplayIInv ==
  ASSUME IInv, verdict = "none", NEW c \in 0 .. clientCursor, NEW limit \in 1 .. MaxFetchBatch,
         FetchReplay(c, limit)
  PROVE  IInv'
<1> DEFINE S  == ReplaySlice(c, limit)
           nc == IF S = <<>> THEN c ELSE S[Len(S)].seq + 1
           st == IF nc >= cursor THEN EffectiveState ELSE "running"
<1>0. c \in Nat /\ clientCursor \in Nat /\ c <= clientCursor /\ limit \in Nat /\ limit >= 1
  BY DEF IInv, TypeOK
<1>1. /\ op = "idle" /\ c < cursor
      /\ UNCHANGED <<state, buffer, bufferedBytes, replay, replayBytes, nextSeq, cursor, producer,
                     yielded, op, left, out, clientCursor, received, verdict, losses>>
  BY DEF FetchReplay, jobVars, producerVars, callVars, clientVars
<1>2. /\ WindowsMeet' /\ StateMatchesProducer' /\ GapFree' /\ CancelledIsEmpty'
      /\ CallMatchesClient' /\ VerdictFinal'
  BY <1>1 DEF IInv, WindowsMeet, StateMatchesProducer, GapFree, CancelledIsEmpty,
              CallMatchesClient, VerdictFinal, TerminalStates
<1>3. SUFFICES reply' \in Reply /\ ReplyHonest'
  BY <1>1, <1>2 DEF IInv, TypeOK
<1>4. CASE reply' = Refusal("too_old", c)
  BY <1>0, <1>4, RefusalType DEF ReplyHonest, Refusal
<1>5. CASE /\ c >= ReplayFloor
           /\ reply' = [kind |-> "chunks", chunks |-> S, cursor |-> nc, state |-> st]
  <2>1. /\ S \in Seq(Chunk) /\ Len(S) >= 1 /\ nc \in c + 1 .. cursor
        /\ Run(S, nc) /\ nc - Len(S) = c
    <3>1. S # <<>> => nc = S[Len(S)].seq + 1
      OBVIOUS
    <3>2. /\ S \in Seq(Chunk) /\ Len(S) >= 1 /\ S[Len(S)].seq \in Nat
          /\ S[Len(S)].seq + 1 \in c + 1 .. cursor
          /\ Run(S, S[Len(S)].seq + 1) /\ S[Len(S)].seq + 1 - Len(S) = c
      BY <1>0, <1>1, <1>5, ReplaySliceRun
    <3>3. S # <<>>
      BY <3>2
    <3>4. nc = S[Len(S)].seq + 1
      BY <3>1, <3>3
    <3> HIDE DEF S, nc
    <3>5. nc \in c + 1 .. cursor
      BY <3>2, <3>4
    <3>6. Run(S, nc)
      BY <3>2, <3>4
    <3>7. nc - Len(S) = c
      BY <3>2, <3>4
    <3> QED
      BY <3>2, <3>5, <3>6, <3>7
  <2>2. st \in JobState
    BY DEF EffectiveState, IInv, TypeOK, JobState
  <2>3. ASSUME st \in TerminalStates
        PROVE  \/ st = "cancelled" /\ state = "cancelled"
               \/ /\ st \in {"done", "error"} /\ st = state /\ nc = nextSeq /\ buffer = <<>>
    <3>1. nc >= cursor /\ st = EffectiveState
      BY <2>3 DEF TerminalStates
    <3>2. nc = cursor
      BY <2>1, <3>1 DEF IInv, TypeOK
    <3>3. state # "cancelled" /\ buffer = <<>> => cursor = nextSeq
      BY DEF IInv, WindowsMeet, TypeOK
    <3> HIDE DEF nc, st
    <3>4. \/ st = "cancelled" /\ state = "cancelled"
          \/ st \in {"done", "error"} /\ st = state /\ buffer = <<>>
      BY <2>3, <3>1 DEF EffectiveState, TerminalStates
    <3> QED
      BY <3>2, <3>3, <3>4
  <2>4. nc \in Nat /\ nc <= cursor /\ nc - Len(S) <= clientCursor /\ S # <<>>
    <3> HIDE DEF S, nc
    <3> QED
      BY <1>0, <2>1 DEF IInv, TypeOK
  <2> HIDE DEF S, nc, st
  <2>5. reply' \in Reply
    BY <1>5, <2>1, <2>2, <2>4 DEF Reply
  <2>6. ReplyHonest'
    BY <1>1, <1>5, <2>1, <2>3, <2>4 DEF ReplyHonest
  <2> QED
    BY <2>5, <2>6
<1> QED
  BY <1>4, <1>5 DEF FetchReplay

(* A cursor nobody reached is refused. *)
LEMMA FetchAheadIInv ==
  ASSUME IInv, verdict = "none", FetchAhead(cursor + 1)
  PROVE  IInv'
<1> USE DEF IInv
<1>1. /\ op = "idle" /\ reply' = Refusal("ahead", cursor + 1)
      /\ UNCHANGED <<state, buffer, bufferedBytes, replay, replayBytes, nextSeq, cursor, producer,
                     yielded, op, left, out, clientCursor, received, verdict, losses>>
  BY DEF FetchAhead, jobVars, producerVars, callVars, clientVars
<1>2. reply' \in Reply
  BY <1>1, RefusalType DEF TypeOK
<1>3. TypeOK'
  BY <1>1, <1>2 DEF TypeOK
<1>4. ReplyHonest'
  BY <1>1 DEF ReplyHonest, Refusal
<1>5. /\ WindowsMeet' /\ StateMatchesProducer' /\ GapFree' /\ CancelledIsEmpty'
      /\ CallMatchesClient' /\ VerdictFinal'
  BY <1>1 DEF WindowsMeet, StateMatchesProducer, GapFree, CancelledIsEmpty,
              CallMatchesClient, VerdictFinal, TerminalStates
<1> QED
  BY <1>3, <1>4, <1>5

(* cancel drops both windows and cannot contradict an end already told. *)
LEMMA CancelIInv ==
  ASSUME IInv, Cancel
  PROVE  IInv'
<1> USE DEF IInv
<1>1. /\ op = "idle" /\ state' = "cancelled" /\ buffer' = <<>> /\ bufferedBytes' = 0
      /\ replay' = <<>> /\ replayBytes' = 0
      /\ UNCHANGED <<nextSeq, cursor, producer, yielded, op, left, out, reply, clientCursor,
                     received, verdict, losses>>
  BY DEF Cancel, producerVars, callVars, clientVars
<1>2. ~ (state \in {"done", "error"} /\ buffer = <<>>)
  BY DEF Cancel, EffectiveDone, EffectiveState, TerminalStates
<1>3. /\ <<>> \in Seq(Chunk) /\ Run(<<>>, nextSeq) /\ Run(<<>>, cursor)
  BY DEF Run, TypeOK
<1>4. TypeOK'
  BY <1>1, <1>3 DEF TypeOK, JobState
<1>5. WindowsMeet' /\ StateMatchesProducer' /\ GapFree' /\ CallMatchesClient' /\ CancelledIsEmpty'
  BY <1>1, <1>3 DEF WindowsMeet, StateMatchesProducer, GapFree, CallMatchesClient, CancelledIsEmpty
<1>6. ReplyHonest'
  BY <1>1, <1>2 DEF ReplyHonest, TerminalStates
<1>7. VerdictFinal'
  BY <1>1, <1>2 DEF VerdictFinal, TerminalStates
<1> QED
  BY <1>4, <1>5, <1>6, <1>7

(* Exhausting the producer of a cancelled job touches nothing else. *)
LEMMA DrainProducerIInv ==
  ASSUME IInv, DrainProducer
  PROVE  IInv'
<1> USE DEF IInv
<1>1. /\ state = "cancelled" /\ yielded' \in Nat /\ producer' \in {"exhausted", "failed"}
      /\ UNCHANGED <<state, buffer, bufferedBytes, replay, replayBytes, nextSeq, cursor, op, left,
                     out, reply, clientCursor, received, verdict, losses>>
  BY DEF DrainProducer, jobVars, callVars, clientVars, TypeOK
<1>2. TypeOK' /\ WindowsMeet' /\ StateMatchesProducer' /\ GapFree'
  BY <1>1 DEF TypeOK, WindowsMeet, StateMatchesProducer, GapFree
<1>3. CallMatchesClient' /\ CancelledIsEmpty' /\ ReplyHonest' /\ VerdictFinal'
  BY <1>1 DEF CallMatchesClient, CancelledIsEmpty, ReplyHonest, VerdictFinal
<1> QED
  BY <1>2, <1>3

(* A lost reply is as if the request had only moved the server on. *)
LEMMA LoseIInv ==
  ASSUME IInv, Lose
  PROVE  IInv'
<1> USE DEF IInv
<1>1. /\ reply' = NoReply /\ losses' = losses + 1
      /\ UNCHANGED <<state, buffer, bufferedBytes, replay, replayBytes, nextSeq, cursor, producer,
                     yielded, op, left, out, clientCursor, received, verdict>>
  BY DEF Lose, jobVars, producerVars, callVars
<1>2. TypeOK'
  BY <1>1, NoReplyType DEF TypeOK
<1>3. WindowsMeet' /\ StateMatchesProducer' /\ GapFree' /\ CallMatchesClient' /\ CancelledIsEmpty'
  BY <1>1 DEF WindowsMeet, StateMatchesProducer, GapFree, CallMatchesClient, CancelledIsEmpty
<1>4. ReplyHonest' /\ VerdictFinal'
  BY <1>1 DEF ReplyHonest, VerdictFinal, NoReply, Refusal
<1> QED
  BY <1>2, <1>3, <1>4

(* Two adjacent runs make one: what the client holds and what a reply adds. *)
LEMMA RunConcat ==
  ASSUME NEW S \in Seq(Chunk), NEW T \in Seq(Chunk), NEW m \in Nat, NEW n \in Nat,
         Len(S) = m, Len(T) = n - m, n >= m, Run(S, m), Run(T, n)
  PROVE  S \o T \in Seq(Chunk) /\ Len(S \o T) = n /\ Run(S \o T, n)
<1>1. S \o T \in Seq(Chunk) /\ Len(S \o T) = n
  OBVIOUS
<1>2. ASSUME NEW i \in 1 .. Len(S \o T)
      PROVE  /\ (S \o T)[i].seq = n - Len(S \o T) + i - 1
             /\ (S \o T)[i].fn  = n - Len(S \o T) + i - 1
  <2>1. CASE i <= m
    <3>1. (S \o T)[i] = S[i] /\ i \in 1 .. Len(S)
      BY <1>1, <2>1
    <3>2. S[i].seq = m - Len(S) + i - 1 /\ S[i].fn = m - Len(S) + i - 1
      BY <3>1 DEF Run
    <3> QED
      BY <1>1, <3>1, <3>2
  <2>2. CASE i > m
    <3>1. (S \o T)[i] = T[i - m] /\ i - m \in 1 .. Len(T)
      BY <1>1, <2>2
    <3>2. T[i - m].seq = n - Len(T) + (i - m) - 1 /\ T[i - m].fn = n - Len(T) + (i - m) - 1
      BY <3>1 DEF Run
    <3> QED
      BY <1>1, <3>1, <3>2
  <2> QED
    BY <2>1, <2>2
<1>3. Len(S \o T) <= n
  BY <1>1
<1>4. Run(S \o T, n)
  BY <1>2, <1>3, Zenon DEF Run
<1> QED
  BY <1>1, <1>4

(* GapFree says that the client's chunks are a run from the very start. *)
LEMMA GapFreeRun ==
  ASSUME TypeOK, GapFree
  PROVE  Len(received) = clientCursor /\ Run(received, clientCursor)
<1>1. Len(received) = clientCursor /\ clientCursor \in Nat
  BY DEF TypeOK, GapFree
<1>2. \A i \in 1 .. Len(received) : clientCursor - Len(received) + i - 1 = i - 1
  BY <1>1
<1> QED
  BY <1>1, <1>2 DEF GapFree, Run

(* The client keeps only what it lacks, which begins where it stands. *)
LEMMA ReceiveIInv ==
  ASSUME IInv, Receive
  PROVE  IInv'
<1> DEFINE K == SkipBelow(reply.chunks, clientCursor)
<1>0. /\ reply \in Reply /\ clientCursor \in Nat /\ cursor \in Nat /\ nextSeq \in Nat
      /\ reply.chunks \in Seq(Chunk) /\ reply.cursor \in Nat /\ reply.state \in JobState
      /\ received \in Seq(Chunk) /\ cursor <= nextSeq /\ clientCursor <= cursor
  BY DEF IInv, TypeOK, Reply, WindowsMeet, CallMatchesClient
<1>1. /\ reply # NoReply /\ reply' = NoReply
      /\ UNCHANGED <<state, buffer, bufferedBytes, replay, replayBytes, nextSeq, cursor, producer,
                     yielded, op, left, out, losses>>
  BY DEF Receive, jobVars, producerVars, callVars
<1>2. op = "idle" /\ verdict = "none"
  BY <1>1 DEF IInv, CallMatchesClient, VerdictFinal
<1>3. WindowsMeet' /\ StateMatchesProducer' /\ CancelledIsEmpty' /\ ReplyHonest'
  BY <1>1 DEF IInv, WindowsMeet, StateMatchesProducer, CancelledIsEmpty, ReplyHonest, NoReply,
              Refusal
<1>4. NoReply \in Reply
  BY NoReplyType
<1>5. CASE reply.kind \in {"too_old", "ahead"}
  <2>1. UNCHANGED <<received, clientCursor>> /\ verdict' \in {"none", "restart"}
    BY <1>2, <1>5 DEF Receive
  <2>2. TypeOK' /\ GapFree' /\ CallMatchesClient' /\ VerdictFinal'
    BY <1>1, <1>2, <1>4, <2>1
       DEF IInv, TypeOK, GapFree, CallMatchesClient, VerdictFinal, TerminalStates
  <2> QED
    BY <1>3, <2>2 DEF IInv
<1>6. CASE reply.kind = "chunks"
  <2>1. /\ received' = received \o K
        /\ clientCursor' = IF reply.cursor > clientCursor THEN reply.cursor ELSE clientCursor
        /\ verdict' = IF reply.state \in TerminalStates THEN reply.state ELSE verdict
    BY <1>6 DEF Receive
  <2>2. /\ Run(reply.chunks, reply.cursor) /\ reply.cursor <= cursor
        /\ reply.cursor - Len(reply.chunks) <= clientCursor
        /\ reply.state \in TerminalStates =>
             \/ reply.state = "cancelled" /\ state = "cancelled"
             \/ /\ reply.state \in {"done", "error"} /\ reply.state = state
                /\ reply.cursor = nextSeq /\ buffer = <<>>
    BY <1>6 DEF IInv, ReplyHonest
  <2>3. /\ reply.cursor <= clientCursor => K = <<>>
        /\ reply.cursor > clientCursor =>
             K \in Seq(Chunk) /\ Run(K, reply.cursor) /\ Len(K) = reply.cursor - clientCursor
    BY <1>0, <2>2, SkipBelowRun
  <2>4. Len(received) = clientCursor /\ Run(received, clientCursor)
    BY GapFreeRun DEF IInv
  <2> HIDE DEF K
  <2>5. /\ received' \in Seq(Chunk) /\ Len(received') = clientCursor'
        /\ Run(received', clientCursor') /\ clientCursor' \in Nat /\ clientCursor' <= cursor
    <3>1. CASE reply.cursor <= clientCursor
      <4>1. clientCursor' = clientCursor /\ received' = received
        BY <1>0, <2>1, <2>3, <3>1
      <4> QED
        BY <1>0, <2>4, <4>1
    <3>2. CASE reply.cursor > clientCursor
      <4>1. clientCursor' = reply.cursor /\ Len(K) = reply.cursor - clientCursor
        BY <2>1, <2>3, <3>2
      <4>2. received \o K \in Seq(Chunk) /\ Len(received \o K) = reply.cursor
            /\ Run(received \o K, reply.cursor)
        <5>1. K \in Seq(Chunk) /\ Run(K, reply.cursor) /\ reply.cursor >= clientCursor
          BY <1>0, <2>3, <3>2
        <5> QED
          BY <1>0, <2>4, <4>1, <5>1, RunConcat
      <4> QED
        BY <1>0, <2>1, <2>2, <4>1, <4>2
    <3> QED
      BY <1>0, <3>1, <3>2
  <2>6. verdict' \in TerminalStates \cup {"none", "restart"}
    BY <1>2, <2>1
  <2>7. TypeOK'
    BY <1>1, <1>4, <2>5, <2>6 DEF IInv, TypeOK
  <2>8. GapFree'
    BY <2>5 DEF GapFree, Run
  <2>9. CallMatchesClient'
    BY <1>1, <1>2, <2>5 DEF CallMatchesClient
  <2>10. VerdictFinal'
    <3>1. reply.cursor = nextSeq => clientCursor' = nextSeq
      BY <1>0, <2>1
    <3> QED
      BY <1>1, <1>2, <2>1, <2>2, <3>1 DEF VerdictFinal, TerminalStates
  <2> QED
    BY <1>3, <2>7, <2>8, <2>9, <2>10 DEF IInv
<1>7. reply.kind # "none"
  BY <1>1 DEF Receive
<1> QED
  BY <1>0, <1>5, <1>6, <1>7 DEF Reply

-----------------------------------------------------------------------------
(* Every step preserves the inductive invariant. *)
LEMMA NextIInv == IInv /\ [Next]_vars => IInv'
<1> SUFFICES ASSUME IInv, [Next]_vars PROVE IInv'
  OBVIOUS
<1>1. CASE Pump
  BY <1>1, PumpPullIInv, PumpStopIInv DEF Pump
<1>2. CASE Drain
  BY <1>2, DrainOneIInv, RetainEvictIInv, LoopEndIInv, RespondIInv DEF Drain
<1>3. CASE Request
  BY <1>3, FetchForwardIInv, FetchReplayIInv, FetchAheadIInv DEF Request, Fetch
<1>4. CASE Cancel \/ DrainProducer \/ Receive \/ Lose
  BY <1>4, CancelIInv, DrainProducerIInv, ReceiveIInv, LoseIInv
<1>5. CASE UNCHANGED vars
  BY <1>5 DEF vars, jobVars, producerVars, callVars, clientVars, IInv, TypeOK, WindowsMeet,
              StateMatchesProducer, CallMatchesClient, ReplyHonest, VerdictFinal, GapFree,
              CancelledIsEmpty, Run
<1> QED
  BY <1>1, <1>2, <1>3, <1>4, <1>5 DEF Next

(* The inductive invariant holds in every state of every stream. *)
THEOREM InvariantHolds == Spec => []IInv
BY InitIInv, NextIInv, PTL DEF Spec

(* TypeOK is an invariant of the streaming job. *)
THEOREM TypeCorrect == Spec => []TypeOK
<1>1. IInv => TypeOK
  BY DEF IInv
<1> QED
  BY <1>1, InvariantHolds, PTL

(* For any limits, losses and retries the client's chunks are the first    *)
(* functions of the producer, in order and without a gap.                  *)
THEOREM GapFreeHolds == Spec => []GapFree
<1>1. IInv => GapFree
  BY DEF IInv
<1> QED
  BY <1>1, InvariantHolds, PTL

(* A client told "done" or "error" holds everything that was produced. *)
THEOREM HonestEndHolds == Spec => []HonestEnd
<1>1. IInv => HonestEnd
  BY DEF IInv, HonestEnd, VerdictFinal, StateMatchesProducer, WindowsMeet, GapFree, TerminalStates
<1> QED
  BY <1>1, InvariantHolds, PTL

-----------------------------------------------------------------------------
(* The step part of the two bounds: a pull happens only below both caps,   *)
(* every other step leaves the buffer alone, shortens it or empties it.    *)
LEMMA BackpressureStep == IInv /\ Backpressure /\ [Next]_vars => Backpressure'
<1> SUFFICES ASSUME IInv, Backpressure, [Next]_vars PROVE Backpressure'
  OBVIOUS
<1>0. buffer \in Seq(Chunk) /\ bufferedBytes \in Int /\ Len(buffer) \in Nat
  BY DEF IInv, TypeOK
<1>1. ASSUME NEW size \in Sizes, PumpPull(size) PROVE Backpressure'
  <2> DEFINE c == [seq |-> nextSeq, fn |-> yielded, size |-> size]
  <2>1. buffer' = Append(buffer, c) /\ bufferedBytes' = bufferedBytes + size /\ ~BufferFull
    BY <1>1 DEF PumpPull
  <2>2. c \in Chunk /\ c.size = size /\ size \in Nat
    BY DEF Chunk, IInv, TypeOK
  <2> HIDE DEF c
  <2>3. Len(buffer') = Len(buffer) + 1 /\ buffer'[Len(buffer')] = c
    BY <1>0, <2>1, <2>2
  <2>4. bufferedBytes' - c.size = bufferedBytes
    BY <1>0, <2>1, <2>2
  <2> QED
    BY <1>0, <2>1, <2>3, <2>4 DEF Backpressure, BufferFull
<1>2. CASE DrainOne
  <2> DEFINE h == Head(buffer)
  <2>1. buffer' = Tail(buffer) /\ bufferedBytes' = bufferedBytes - h.size /\ buffer # <<>>
    BY <1>2 DEF DrainOne
  <2>2. h \in Chunk /\ h.size \in Nat /\ Len(buffer') = Len(buffer) - 1
    BY <1>0, <2>1, ChunkFields
  <2>3. ASSUME buffer' # <<>>
        PROVE  buffer'[Len(buffer')] = buffer[Len(buffer)] /\ buffer[Len(buffer)].size \in Nat
    <3>1. Len(buffer') >= 1 /\ buffer[Len(buffer)] \in Chunk
      BY <1>0, <2>1, <2>2, <2>3
    <3> QED
      BY <1>0, <2>1, <2>2, <3>1, ChunkFields
  <2> HIDE DEF h
  <2>4. /\ Len(buffer) <= MaxBufferChunks
        /\ bufferedBytes - buffer[Len(buffer)].size < MaxBufferBytes
    BY <2>1 DEF Backpressure
  <2>5. MaxBufferChunks \in Nat /\ MaxBufferBytes \in Nat
    BY LimitsAssumption
  <2>6. Len(buffer') <= MaxBufferChunks
    BY <1>0, <2>2, <2>4, <2>5
  <2>7. ASSUME buffer' # <<>>
        PROVE  bufferedBytes' - buffer'[Len(buffer')].size < MaxBufferBytes
    <3> DEFINE z == buffer[Len(buffer)].size
    <3>1. z \in Nat /\ buffer'[Len(buffer')].size = z
      BY <2>3, <2>7
    <3>2. bufferedBytes' = bufferedBytes - h.size /\ h.size \in Nat
      BY <2>1, <2>2
    <3>3. bufferedBytes - z < MaxBufferBytes
      BY <2>4
    <3> HIDE DEF z
    <3> QED
      BY <1>0, <2>5, <3>1, <3>2, <3>3
  <2> QED
    BY <2>6, <2>7 DEF Backpressure
<1>3. CASE UNCHANGED <<buffer, bufferedBytes>>
  BY <1>3 DEF Backpressure
<1>4. CASE buffer' = <<>>
  BY <1>4 DEF Backpressure
<1>5. \/ \E size \in Sizes : PumpPull(size)
      \/ DrainOne
      \/ UNCHANGED <<buffer, bufferedBytes>>
      \/ buffer' = <<>>
  BY DEF Next, Pump, Drain, Request, Fetch, PumpEnd, PumpPause, PumpTerminal, RetainEvict,
         RetainEnd, DrainEnd, Respond, FetchForward, FetchReplay, FetchAhead, Cancel,
         DrainProducer, Receive, Lose, vars, jobVars
<1> QED
  BY <1>1, <1>2, <1>3, <1>4, <1>5

(* Backpressure holds for every pair of caps: pump never overfills. *)
THEOREM BackpressureHolds == Spec => []Backpressure
<1>1. Init => Backpressure
  BY DEF Init, Backpressure
<1> QED
  BY <1>1, BackpressureStep, InvariantHolds, PTL DEF Spec

(* The replay window is within its caps whenever it can be read. *)
THEOREM ReplayBoundedHolds == Spec => []ReplayBounded
<1>1. Init => ReplayBounded
  BY DEF Init, ReplayBounded, ReplayOver
<1>2. ReplayBounded /\ [Next]_vars => ReplayBounded'
  <2> SUFFICES ASSUME ReplayBounded, [Next]_vars PROVE ReplayBounded'
    OBVIOUS
  <2>1. \/ UNCHANGED <<replay, replayBytes>> /\ op # "retain"
        \/ UNCHANGED <<replay, replayBytes>> /\ op' = "retain"
        \/ UNCHANGED <<replay, replayBytes>> /\ ~ReplayOver
        \/ op' = "retain"
        \/ replay' = <<>>
    BY DEF Next, Pump, Drain, Request, Fetch, PumpPull, PumpEnd, PumpPause, PumpTerminal, Pumping,
           DrainOne, RetainEvict, RetainEnd, DrainEnd, Respond, FetchForward, FetchReplay,
           FetchAhead, Cancel, DrainProducer, Receive, Lose, vars, jobVars, callVars
  <2> QED
    BY <2>1 DEF ReplayBounded, ReplayOver
<1> QED
  BY <1>1, <1>2, PTL DEF Spec

(* What a job holds for its client is bounded, for every pair of caps and  *)
(* every producer: the buffer and the replay window together.              *)
THEOREM WindowsBoundedHolds == Spec => []WindowsBounded
<1>1. Backpressure /\ ReplayBounded => WindowsBounded
  BY DEF WindowsBounded
<1> QED
  BY <1>1, BackpressureHolds, ReplayBoundedHolds, PTL

(* After a terminal state the job produces nothing and never runs again. *)
THEOREM TerminalIsFinalHolds == Spec => TerminalIsFinal
<1>1. [Next]_vars => [IsTerminal => /\ state' \in {state, "cancelled"}
                                    /\ nextSeq' = nextSeq]_<<state, nextSeq>>
  BY DEF Next, Pump, Drain, Request, Fetch, PumpPull, PumpEnd, PumpPause, PumpTerminal,
         DrainOne, RetainEvict, RetainEnd, DrainEnd, Respond, FetchForward, FetchReplay,
         FetchAhead, Cancel, DrainProducer, Receive, Lose, vars, jobVars, IsTerminal,
         TerminalStates
<1> QED
  BY <1>1, PTL DEF Spec, TerminalIsFinal

(* One chunk holds as many bytes as its size says. *)
LEMMA ChunkBytesCounted ==
  ASSUME NEW c \in Chunk
  PROVE  IsFiniteSet(ChunkBytes(c)) /\ Cardinality(ChunkBytes(c)) = c.size
<1>1. c.size \in Nat
  BY ChunkFields
<1>2. IsFiniteSet(1 .. c.size) /\ Cardinality(1 .. c.size) = c.size
  <2>1. ASSUME NEW n \in Nat PROVE IsFiniteSet(1 .. n) /\ Cardinality(1 .. n) = n
    <3>1. 1 \in Int /\ n \in Int
      OBVIOUS
    <3>2. IsFiniteSet(1 .. n) /\ Cardinality(1 .. n) = IF 1 > n THEN 0 ELSE n - 1 + 1
      BY ONLY <3>1, FS_Interval
    <3> QED
      BY <3>2
  <2> QED
    BY ONLY <1>1, <2>1
<1>3. IsFiniteSet({c.fn}) /\ Cardinality({c.fn}) = 1
  BY FS_Singleton
<1>4. /\ IsFiniteSet({c.fn} \X (1 .. c.size))
      /\ Cardinality({c.fn} \X (1 .. c.size)) = Cardinality({c.fn}) * Cardinality(1 .. c.size)
  BY ONLY <1>2, <1>3, FS_Product
<1>5. Cardinality({c.fn} \X (1 .. c.size)) = c.size
  BY <1>1, <1>2, <1>3, <1>4
<1> QED
  BY <1>4, <1>5 DEF ChunkBytes

(* A chunk of another function adds its size to the count. *)
LEMMA CountsMore ==
  ASSUME NEW c \in Chunk, NEW B, IsFiniteSet(B), \A x \in B : x[1] # c.fn
  PROVE  /\ IsFiniteSet(B \cup ChunkBytes(c))
         /\ Cardinality(B \cup ChunkBytes(c)) = Cardinality(B) + c.size
<1>1. IsFiniteSet(ChunkBytes(c)) /\ Cardinality(ChunkBytes(c)) = c.size /\ c.size \in Nat
  BY ChunkBytesCounted, ChunkFields
<1>2. \A x \in ChunkBytes(c) : x[1] = c.fn
  BY DEF ChunkBytes
<1>3. B \cap ChunkBytes(c) = {}
  BY <1>2
<1>4. Cardinality(B \cap ChunkBytes(c)) = 0 /\ Cardinality(B) \in Nat
  BY <1>3, FS_EmptySet, FS_CardinalityType
<1>5. /\ IsFiniteSet(B \cup ChunkBytes(c))
      /\ Cardinality(B \cup ChunkBytes(c)) =
           Cardinality(B) + Cardinality(ChunkBytes(c)) - Cardinality(B \cap ChunkBytes(c))
  BY <1>1, FS_Union
<1> QED
  BY <1>1, <1>4, <1>5

(* pump and drain append the next function: its bytes are new. *)
LEMMA CountsAppend ==
  ASSUME NEW S \in Seq(Chunk), NEW end \in Nat, Run(S, end), NEW c \in Chunk, c.fn = end,
         NEW total, CountsBytes(total, S)
  PROVE  CountsBytes(total + c.size, Append(S, c))
<1>1. /\ Len(Append(S, c)) = Len(S) + 1 /\ Len(S) \in Nat /\ Append(S, c)[Len(S) + 1] = c
      /\ \A i \in 1 .. Len(S) : Append(S, c)[i] = S[i]
  OBVIOUS
<1>2. HeldBytes(Append(S, c)) = HeldBytes(S) \cup ChunkBytes(c)
  <2> DEFINE A == Append(S, c)
  <2>1. 1 .. Len(A) = (1 .. Len(S)) \cup {Len(S) + 1}
    BY <1>1
  <2> HIDE DEF A
  <2>2. \A x : x \in HeldBytes(A) <=> \E i \in 1 .. Len(A) : x \in ChunkBytes(A[i])
    BY DEF HeldBytes
  <2>3. \A x : x \in HeldBytes(S) <=> \E i \in 1 .. Len(S) : x \in ChunkBytes(S[i])
    BY DEF HeldBytes
  <2>4. A[Len(S) + 1] = c /\ \A i \in 1 .. Len(S) : A[i] = S[i]
    BY <1>1 DEF A
  <2>5. \A x : x \in HeldBytes(A) <=> x \in HeldBytes(S) \cup ChunkBytes(c)
    BY ONLY <2>1, <2>2, <2>3, <2>4
  <2> QED
    BY <2>5 DEF A
<1>3. \A x \in HeldBytes(S) : x[1] # c.fn
  <2>1. ASSUME NEW i \in 1 .. Len(S), NEW x \in ChunkBytes(S[i]) PROVE x[1] # c.fn
    <3>1. x[1] = S[i].fn
      BY DEF ChunkBytes
    <3>2. S[i].fn = end - Len(S) + i - 1
      BY DEF Run
    <3> QED
      BY <1>1, <3>1, <3>2
  <2> QED
    BY <2>1 DEF HeldBytes
<1>4. /\ IsFiniteSet(HeldBytes(S) \cup ChunkBytes(c))
      /\ Cardinality(HeldBytes(S) \cup ChunkBytes(c)) = Cardinality(HeldBytes(S)) + c.size
  BY <1>3, CountsMore DEF CountsBytes
<1> QED
  BY <1>2, <1>4 DEF CountsBytes

(* The oldest chunk of a window takes its bytes with it. *)
LEMMA CountsTail ==
  ASSUME NEW S \in Seq(Chunk), NEW end \in Nat, Run(S, end), S # <<>>,
         NEW total \in Int, CountsBytes(total, S)
  PROVE  CountsBytes(total - Head(S).size, Tail(S))
<1> DEFINE c == Head(S)
           T == Tail(S)
<1>1. /\ Len(T) = Len(S) - 1 /\ Len(S) \in Nat \ {0} /\ c = S[1] /\ c \in Chunk
      /\ \A i \in 1 .. Len(T) : T[i] = S[i + 1]
  OBVIOUS
<1> HIDE DEF T, c
<1>2. HeldBytes(S) = HeldBytes(T) \cup ChunkBytes(c)
  <2>1. \A x : x \in HeldBytes(S) <=> \E i \in 1 .. Len(S) : x \in ChunkBytes(S[i])
    BY DEF HeldBytes
  <2>2. \A x : x \in HeldBytes(T) <=> \E i \in 1 .. Len(T) : x \in ChunkBytes(T[i])
    BY DEF HeldBytes
  <2>3. ASSUME NEW x \in HeldBytes(S) PROVE x \in HeldBytes(T) \cup ChunkBytes(c)
    <3>1. PICK i \in 1 .. Len(S) : x \in ChunkBytes(S[i])
      BY <2>1, <2>3
    <3>2. CASE i = 1
      BY <1>1, <3>1, <3>2
    <3>3. CASE i # 1
      <4>1. i - 1 \in 1 .. Len(T) /\ T[i - 1] = S[i]
        BY <1>1, <3>3
      <4> QED
        BY <2>2, <3>1, <4>1
    <3> QED
      BY <3>2, <3>3
  <2>4. ASSUME NEW x \in HeldBytes(T) PROVE x \in HeldBytes(S)
    <3>1. PICK i \in 1 .. Len(T) : x \in ChunkBytes(T[i])
      BY <2>2, <2>4
    <3>2. i + 1 \in 1 .. Len(S) /\ T[i] = S[i + 1]
      BY <1>1
    <3> QED
      BY <2>1, <3>1, <3>2
  <2>5. ChunkBytes(c) \subseteq HeldBytes(S)
    BY <1>1, <2>1
  <2> QED
    BY <2>3, <2>4, <2>5
<1>3. \A x \in HeldBytes(T) : x[1] # c.fn
  <2>1. ASSUME NEW i \in 1 .. Len(T), NEW x \in ChunkBytes(T[i]) PROVE x[1] # c.fn
    <3>1. x[1] = S[i + 1].fn /\ i + 1 \in 1 .. Len(S) /\ 1 \in 1 .. Len(S)
      BY <1>1 DEF ChunkBytes
    <3>2. S[i + 1].fn = end - Len(S) + (i + 1) - 1 /\ c.fn = end - Len(S) + 1 - 1
      BY <1>1, <3>1 DEF Run
    <3> QED
      BY <1>1, <3>1, <3>2
  <2> QED
    BY <2>1 DEF HeldBytes
<1>4. IsFiniteSet(HeldBytes(T))
  BY <1>2, FS_Subset DEF CountsBytes
<1>5. Cardinality(HeldBytes(S)) = Cardinality(HeldBytes(T)) + c.size
  BY <1>1, <1>2, <1>3, <1>4, CountsMore
<1>6. Cardinality(HeldBytes(T)) \in Nat /\ c.size \in Nat
  BY <1>1, <1>4, FS_CardinalityType, ChunkFields
<1>7. total - c.size = Cardinality(HeldBytes(T))
  BY <1>5, <1>6 DEF CountsBytes
<1> QED
  BY <1>4, <1>7 DEF CountsBytes, c, T

(* An empty window holds no bytes. *)
LEMMA CountsNone == CountsBytes(0, <<>>)
<1>1. HeldBytes(<<>>) = {}
  BY DEF HeldBytes
<1> QED
  BY <1>1, FS_EmptySet DEF CountsBytes

LEMMA BytesStep == IInv /\ BytesExact /\ [Next]_vars => BytesExact'
<1> SUFFICES ASSUME IInv, BytesExact, [Next]_vars PROVE BytesExact'
  OBVIOUS
<1>0. /\ buffer \in Seq(Chunk) /\ replay \in Seq(Chunk) /\ Run(buffer, nextSeq) /\ Run(replay, cursor)
      /\ nextSeq \in Nat /\ cursor \in Nat /\ bufferedBytes \in Int /\ replayBytes \in Int
  BY DEF IInv, TypeOK, WindowsMeet
<1>b. CountsBytes(bufferedBytes, buffer) /\ CountsBytes(replayBytes, replay)
  BY DEF BytesExact
<1>1. ASSUME NEW size \in Sizes, PumpPull(size) PROVE BytesExact'
  <2> DEFINE c == [seq |-> nextSeq, fn |-> yielded, size |-> size]
  <2>1. /\ buffer' = Append(buffer, c) /\ bufferedBytes' = bufferedBytes + size
        /\ UNCHANGED <<replay, replayBytes>>
    BY <1>1 DEF PumpPull
  <2>2. c \in Chunk /\ c.fn = nextSeq /\ c.size = size
    BY <1>1 DEF PumpPull, IInv, TypeOK, WindowsMeet, Chunk, IsTerminal, TerminalStates
  <2> HIDE DEF c
  <2>3. CountsBytes(bufferedBytes + c.size, Append(buffer, c))
    BY <1>0, <1>b, <2>2, CountsAppend
  <2> QED
    BY <1>b, <2>1, <2>2, <2>3 DEF BytesExact
<1>2. CASE DrainOne
  <2> DEFINE c == Head(buffer)
  <2>1. /\ buffer # <<>> /\ bufferedBytes' = bufferedBytes - c.size /\ buffer' = Tail(buffer)
        /\ replay' = Append(replay, c) /\ replayBytes' = replayBytes + c.size
    BY <1>2 DEF DrainOne
  <2>2. c \in Chunk /\ c.fn = cursor
    <3>1. state # "cancelled"
      BY <2>1 DEF IInv, CancelledIsEmpty
    <3>2. cursor + Len(buffer) = nextSeq
      BY <3>1 DEF IInv, WindowsMeet
    <3>3. c \in Chunk /\ c.fn = nextSeq - Len(buffer) /\ Len(buffer) \in Nat
      BY <1>0, <2>1, RunTail
    <3> QED
      BY <1>0, <3>2, <3>3
  <2>3. CountsBytes(bufferedBytes - c.size, Tail(buffer))
    BY <1>0, <1>b, <2>1, CountsTail
  <2> HIDE DEF c
  <2>4. CountsBytes(replayBytes + c.size, Append(replay, c))
    BY <1>0, <1>b, <2>2, CountsAppend
  <2> QED
    BY <2>1, <2>3, <2>4 DEF BytesExact
<1>3. CASE RetainEvict
  <2>1. /\ replay # <<>> /\ replay' = Tail(replay) /\ replayBytes' = replayBytes - Head(replay).size
        /\ UNCHANGED <<buffer, bufferedBytes>>
    BY <1>3 DEF RetainEvict, ReplayOver
  <2>2. CountsBytes(replayBytes - Head(replay).size, Tail(replay))
    BY <1>0, <1>b, <2>1, CountsTail
  <2> QED
    BY <1>b, <2>1, <2>2 DEF BytesExact
<1>4. CASE Cancel
  BY <1>4, CountsNone DEF Cancel, BytesExact
<1>5. CASE UNCHANGED <<buffer, bufferedBytes, replay, replayBytes>>
  BY <1>b, <1>5 DEF BytesExact
<1>6. \/ \E size \in Sizes : PumpPull(size)
      \/ DrainOne \/ RetainEvict \/ Cancel
      \/ UNCHANGED <<buffer, bufferedBytes, replay, replayBytes>>
  BY DEF Next, Pump, PumpEnd, PumpPause, PumpTerminal, Drain, RetainEnd, DrainEnd, Respond, Request,
         Fetch, FetchForward, FetchReplay, FetchAhead, DrainProducer, Receive, Lose, vars, jobVars
<1> QED
  BY <1>1, <1>2, <1>3, <1>4, <1>5, <1>6

(* buffered_bytes and _replay_bytes are the sizes of what is held, for     *)
(* every stream and every choice of the caps.                              *)
THEOREM BytesExactHolds == Spec => []BytesExact
<1>1. Init => BytesExact
  BY CountsNone DEF Init, BytesExact
<1> QED
  BY <1>1, BytesStep, InvariantHolds, PTL DEF Spec

(* Every step of the job is a step of the stream contract or invisible to  *)
(* it, one action at a time.                                               *)
LEMMA ContractStep ==
  ASSUME IInv, IInv', [Next]_vars
  PROVE  [Contract!Next]_(Contract!vars)
<1> USE DEF Contract!Next, Contract!vars, Contract!Produce, Contract!End, Contract!Cancel,
            Contract!Deliver
<1>0. /\ TypeOK /\ WindowsMeet /\ CallMatchesClient /\ VerdictFinal /\ StateMatchesProducer
      /\ ReplyHonest
  BY DEF IInv
<1>t. /\ nextSeq \in Nat /\ cursor \in Nat /\ clientCursor \in Nat
      /\ clientCursor <= cursor /\ cursor <= nextSeq
  BY <1>0 DEF TypeOK, WindowsMeet, CallMatchesClient
<1>1. CASE \E size \in Sizes : PumpPull(size)
  BY <1>0, <1>1 DEF PumpPull, IsTerminal, TerminalStates, CanYield, clientVars
<1>2. CASE \E end \in {"exhausted", "failed"} : PumpEnd(end)
  BY <1>0, <1>2 DEF PumpEnd, IsTerminal, TerminalStates, clientVars
<1>3. CASE Cancel
  <2>1. verdict \notin {"done", "error"}
    BY <1>0, <1>3 DEF Cancel, EffectiveDone, EffectiveState, TerminalStates, VerdictFinal
  <2> QED
    BY <1>0, <1>3, <2>1 DEF Cancel, EffectiveDone, EffectiveState, TerminalStates, producerVars,
       clientVars
<1>4. CASE DrainProducer
  BY <1>0, <1>4 DEF DrainProducer, jobVars, clientVars
<1>5. CASE Receive
  <2>1. /\ clientCursor' \in clientCursor .. nextSeq
        /\ verdict = "none"
        /\ UNCHANGED <<state, nextSeq, producer, buffer>>
    BY <1>0, <1>t, <1>5 DEF IInv, TypeOK, Receive, CallMatchesClient, VerdictFinal, jobVars, producerVars
  <2>2. verdict' \in {"none", "restart"} \/ verdict' \in TerminalStates
    BY <1>0, <1>5 DEF Receive, VerdictFinal
  <2>3. CASE verdict' \in {"none", "restart"}
    BY <2>1, <2>3
  <2>4. CASE verdict' = "cancelled"
    BY <2>1, <2>4 DEF IInv, VerdictFinal, TerminalStates
  <2>5. CASE verdict' \in {"done", "error"}
    BY <2>1, <2>5 DEF IInv, VerdictFinal, TerminalStates, StateMatchesProducer
  <2> QED
    BY <2>2, <2>3, <2>4, <2>5 DEF TerminalStates
<1>6. \/ \E size \in Sizes : PumpPull(size)
      \/ \E end \in {"exhausted", "failed"} : PumpEnd(end)
      \/ Cancel \/ DrainProducer \/ Receive
      \/ /\ UNCHANGED <<nextSeq, producer, clientCursor, verdict>>
         /\ (state = "cancelled") = (state' = "cancelled")
  BY DEF Next, Pump, Drain, Request, Fetch, PumpPause, PumpTerminal, DrainOne, RetainEvict,
         RetainEnd, DrainEnd, Respond, FetchForward, FetchReplay, FetchAhead, Lose, vars, jobVars,
         producerVars, clientVars, IsTerminal, TerminalStates
<1> QED
  BY <1>1, <1>2, <1>3, <1>4, <1>5, <1>6

(* The job implements the stream contract for every choice of the caps. *)
THEOREM ContractImplemented == Spec => ImplementsContract
<1>1. Init => Contract!Init
  BY DEF Init, Contract!Init
<1> QED
  BY <1>1, ContractStep, InvariantHolds, PTL DEF Spec, ImplementsContract, Contract!Spec

=============================================================================
