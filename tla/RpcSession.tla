----------------------------- MODULE RpcSession -----------------------------
(***************************************************************************)
(* One session of the RPC adapter (ghidra/rpc_client.py, class _Session)   *)
(* and the worker at the other end of its socket (worker/dispatch.py).     *)
(*                                                                         *)
(* A plain call holds the session's lock from its send to its answer.  A   *)
(* stream holds the lock only for its start; afterwards the flag           *)
(* active_stream_id keeps calls and other streams off the socket while     *)
(* the job pulls frames when it likes.  $/cancel is sent without the lock. *)
(* Each direction of the socket is a queue of frames with room for a few;  *)
(* the worker runs ahead of its reader as far as the room allows.          *)
(***************************************************************************)
EXTENDS Naturals, Sequences, FiniteSets

CONSTANTS
  Threads, Loop,     \* the event loop and the analysis threads
  NoThread,
  Requests,          \* the ids uuid4 gives plain calls
  Streams,           \* the ids it gives streams, each the producer of a job
  NoId,
  Functions,         \* per stream: how many functions it covers
  Room               \* bound: frames a direction of the socket holds

ASSUME RpcRoles  == Loop \in Threads /\ NoThread \notin Threads
ASSUME RpcIds    == NoId \notin Requests \cup Streams /\ Requests \cap Streams = {}
ASSUME RpcLimits == Functions \in [Streams -> Nat] /\ Room \in Nat \ {0}

VARIABLES
  session,     \* the adapter's _sessions entry: open or gone
  lock,        \* _Session.lock
  active,      \* _Session.active_stream_id
  toWorker, toServer,   \* the frames on the socket
  worker,      \* idle, call, poll, emit, end or exited
  serving,     \* the id of the request the worker works on
  emitted,     \* chunks it has sent for it
  waiting,     \* per thread: the request it awaits the answer of
  outcome,     \* per id: unused, pending, or how it ended
  nextSeq,     \* per stream: chunks its generator has yielded
  draining,    \* the stream cancel_job is draining on the loop
  jobs, slot,  \* the job table of the session: its jobs, the one in the slot
  cancelled,   \* streams whose job was cancelled
  signalled    \* stream ids some $/cancel named

socketVars  == <<toWorker, toServer>>
workerVars  == <<worker, serving, emitted>>
jobVars     == <<jobs, slot, cancelled>>
adapterVars == <<session, lock, active, waiting, outcome, nextSeq, draining>>
rpcVars     == <<adapterVars, socketVars, workerVars, jobVars, signalled>>

Ids == Requests \cup Streams
Frame(kind, id, seq) == [kind |-> kind, id |-> id, seq |-> seq]

-----------------------------------------------------------------------------
RpcInit ==
  /\ session = "open" /\ lock = NoThread /\ active = NoId
  /\ toWorker = <<>> /\ toServer = <<>>
  /\ worker = "idle" /\ serving = NoId /\ emitted = 0
  /\ waiting = [t \in Threads |-> NoId]
  /\ outcome = [i \in Ids |-> "unused"]
  /\ nextSeq = [j \in Streams |-> 0]
  /\ draining = NoId /\ signalled = {}
  /\ jobs = {} /\ slot = NoId /\ cancelled = {}

(* The worker works on no request. *)
Unserved == serving' = NoId /\ emitted' = 0

(* kill_worker: forget the session, close the socket, kill the process. *)
KillWorker ==
  /\ session' = "gone"
  /\ worker' = "exited" /\ Unserved
  /\ toWorker' = <<>> /\ toServer' = <<>>

KeepWorker == UNCHANGED <<session, socketVars, workerVars>>

Ends(i, how) == outcome' = [outcome EXCEPT ![i] = how]

(* A thread can make a call: it awaits no answer, and the loop drains no   *)
(* cancelled stream.                                                       *)
Free(t) == waiting[t] = NoId /\ (t = Loop => draining = NoId)

-----------------------------------------------------------------------------
(* _call up to the send.  It is refused while a stream owns the socket, or *)
(* when the lock was not got within the deadline.  A session may go while  *)
(* the call waits for the lock: it then finds no one to connect to.        *)
CallRefused(t, r) ==
  /\ Free(t) /\ outcome[r] = "unused"
  /\ session = "gone" \/ lock # NoThread \/ active # NoId
  /\ Ends(r, "refused")
  /\ KeepWorker
  /\ UNCHANGED <<lock, active, waiting, nextSeq, draining, jobVars, signalled>>

CallUnreachable(t, r) ==
  /\ Free(t) /\ outcome[r] = "unused"
  /\ lock = NoThread /\ active = NoId
  /\ worker = "exited"
  /\ Ends(r, "lost")
  /\ KillWorker
  /\ UNCHANGED <<lock, active, waiting, nextSeq, draining, jobVars, signalled>>

CallSend(t, r) ==
  /\ Free(t) /\ outcome[r] = "unused"
  /\ session = "open" /\ lock = NoThread /\ active = NoId
  /\ worker # "exited" /\ Len(toWorker) < Room
  /\ toWorker' = Append(toWorker, Frame("request", r, 0))
  /\ lock' = t
  /\ waiting' = [waiting EXCEPT ![t] = r]
  /\ Ends(r, "pending")
  /\ UNCHANGED <<session, active, toServer, workerVars, nextSeq, draining, jobVars, signalled>>

(* The call of thread t is over, and the finally releases the lock. *)
CallOver(t, how) ==
  /\ Ends(waiting[t], how)
  /\ waiting' = [waiting EXCEPT ![t] = NoId]
  /\ lock' = NoThread
  /\ UNCHANGED <<active, nextSeq, draining, jobVars, signalled>>

(* Mutant: only an answer is expected. *)
CallReadNoProgress(t) ==
  /\ waiting[t] # NoId /\ toServer # <<>>
  /\ LET f == Head(toServer) IN
       IF f.kind # "progress" /\ f.id = waiting[t]
       THEN /\ CallOver(t, f.kind)
            /\ toServer' = Tail(toServer)
            /\ UNCHANGED <<session, toWorker, workerVars>>
       ELSE CallOver(t, "violation") /\ KillWorker

(* Progress frames of this request are relayed and read on; the answer is  *)
(* taken if its id is this request's; any other frame is a violation.      *)
CallRead(t) ==
  /\ waiting[t] # NoId /\ toServer # <<>>
  /\ LET f == Head(toServer) IN
       \/ /\ f.kind = "progress" /\ f.id = waiting[t]
          /\ UNCHANGED <<lock, active, waiting, outcome, nextSeq, draining, jobVars, signalled>>
          /\ toServer' = Tail(toServer)
          /\ UNCHANGED <<session, toWorker, workerVars>>
       \/ /\ f.kind \in {"result", "error"} /\ f.id = waiting[t]
          /\ CallOver(t, f.kind)
          /\ toServer' = Tail(toServer)
          /\ UNCHANGED <<session, toWorker, workerVars>>
       \/ /\ f.id # waiting[t]
          /\ CallOver(t, "violation")
          /\ KillWorker

(* EOF or a closed socket, and the deadline. *)
CallLost(t) ==
  /\ waiting[t] # NoId /\ toServer = <<>> /\ worker = "exited"
  /\ CallOver(t, "lost")
  /\ KillWorker

CallTimeout(t) ==
  /\ waiting[t] # NoId
  /\ CallOver(t, "timeout")
  /\ KillWorker

-----------------------------------------------------------------------------
(* start_job: the slot is free or its job is over, and that job leaves the *)
(* table.                                                                  *)
JobOver(j) == j \in cancelled \/ outcome[j] # "pending"

StartJob(j) ==
  /\ Free(Loop) /\ outcome[j] = "unused"
  /\ slot # NoId => JobOver(slot)
  /\ jobs' = (jobs \ {slot}) \cup {j} /\ slot' = j
  /\ UNCHANGED <<waiting, nextSeq, draining, cancelled, signalled, lock>>

(* _decompile_stream_gen, on the first pull that start_job makes:          *)
(* everything up to setting the flag is under the lock, which it waits     *)
(* for.                                                                    *)
StreamRefused(j) ==
  /\ StartJob(j)
  /\ session = "gone" \/ (lock = NoThread /\ active # NoId)
  /\ Ends(j, "refused")
  /\ KeepWorker
  /\ UNCHANGED active

StreamUnreachable(j) ==
  /\ StartJob(j) /\ lock = NoThread
  /\ active = NoId /\ worker = "exited"
  /\ Ends(j, "lost")
  /\ KillWorker
  /\ UNCHANGED active

StreamSend(j) ==
  /\ StartJob(j) /\ lock = NoThread
  /\ session = "open" /\ active = NoId /\ worker # "exited" /\ Len(toWorker) < Room
  /\ toWorker' = Append(toWorker, Frame("stream", j, 0))
  /\ active' = j
  /\ Ends(j, "pending")
  /\ UNCHANGED <<session, toServer, workerVars>>

(* The loop pulls stream j's generator: for its job while that is not      *)
(* cancelled, or to drain it.                                              *)
Pulling(j) ==
  /\ waiting[Loop] = NoId /\ outcome[j] = "pending"
  /\ draining = j \/ (draining = NoId /\ j \notin cancelled)

(* Mutant: a stream that ends leaves its flag. *)
StreamOverKeepsFlag(j, how) ==
  /\ Ends(j, how)
  /\ draining' = NoId
  /\ UNCHANGED <<lock, active, waiting, nextSeq, jobVars, signalled>>

(* The generator is over.  Its finally clears the flag, unless the session *)
(* is no longer the adapter's.                                             *)
StreamOver(j, how) ==
  /\ Ends(j, how)
  /\ draining' = NoId
  /\ active' = IF session' = "open" /\ active = j THEN NoId ELSE active
  /\ UNCHANGED <<lock, waiting, nextSeq, jobVars, signalled>>

(* _read_stream_chunks, one frame. *)
StreamRead(j) ==
  /\ Pulling(j) /\ toServer # <<>>
  /\ LET f == Head(toServer) IN
       \/ /\ f.kind = "chunk" /\ f.id = j /\ f.seq = nextSeq[j]
          /\ nextSeq' = [nextSeq EXCEPT ![j] = @ + 1]
          /\ toServer' = Tail(toServer)
          /\ UNCHANGED <<session, toWorker, workerVars, lock, active, waiting, outcome, draining,
                         jobVars, signalled>>
       \/ /\ f.kind \in {"result", "error"} /\ f.id = j
          /\ toServer' = Tail(toServer)
          /\ UNCHANGED <<session, toWorker, workerVars>>
          /\ StreamOver(j, f.kind)
       \/ /\ f.id # j \/ (f.kind = "chunk" /\ f.seq # nextSeq[j])
          /\ KillWorker
          /\ StreamOver(j, "violation")

StreamLost(j) ==
  /\ Pulling(j) /\ toServer = <<>> /\ worker = "exited"
  /\ KillWorker
  /\ StreamOver(j, "lost")

StreamTimeout(j) ==
  /\ Pulling(j)
  /\ KillWorker
  /\ StreamOver(j, "timeout")

(* Mutant: the cancelled producer is left where it stands. *)
CancelJobNoDrain(j) ==
  /\ Free(Loop) /\ j \in jobs
  /\ slot' = NoId /\ cancelled' = cancelled \cup {j}
  /\ IF session = "open" /\ active # NoId /\ worker # "exited"
     THEN /\ Len(toWorker) < Room
          /\ toWorker' = Append(toWorker, Frame("cancel", active, 0))
          /\ signalled' = signalled \cup {active}
     ELSE UNCHANGED <<toWorker, signalled>>
  /\ UNCHANGED <<session, lock, active, toServer, workerVars, waiting, outcome, nextSeq, draining, jobs>>

(* cancel_job: the slot is emptied and the job cancelled, _send_cancel     *)
(* names the stream that owns the socket now, and the drain of this job's  *)
(* producer begins.                                                        *)
CancelJob(j) ==
  /\ Free(Loop) /\ j \in jobs
  /\ slot' = NoId /\ cancelled' = cancelled \cup {j}
  /\ IF session = "open" /\ active # NoId /\ worker # "exited"
     THEN /\ Len(toWorker) < Room
          /\ toWorker' = Append(toWorker, Frame("cancel", active, 0))
          /\ signalled' = signalled \cup {active}
     ELSE UNCHANGED <<toWorker, signalled>>
  /\ draining' = IF session = "open" /\ outcome[j] = "pending" THEN j ELSE NoId
  /\ UNCHANGED <<session, lock, active, toServer, workerVars, waiting, outcome, nextSeq, jobs>>

(* The session manager evicts the session: its worker is killed and its    *)
(* jobs are cancelled and discarded.                                       *)
Evicted ==
  /\ session = "open"
  /\ KillWorker
  /\ jobs' = {} /\ slot' = NoId /\ cancelled' = cancelled \cup jobs
  /\ UNCHANGED <<lock, active, waiting, outcome, nextSeq, draining, signalled>>

-----------------------------------------------------------------------------
Send(f) == Len(toServer) < Room /\ toServer' = Append(toServer, f)

(* serve_connection: the next frame is a request of its own.  A $/cancel   *)
(* here belongs to no stream any more and has no id at its top level, so   *)
(* handle_request answers it as an invalid request, with a null id.        *)
WorkerAccept ==
  /\ worker = "idle" /\ toWorker # <<>>
  /\ toWorker' = Tail(toWorker)
  /\ LET f == Head(toWorker) IN
       \/ /\ f.kind \in {"request", "stream"}
          /\ worker' = IF f.kind = "request" THEN "call" ELSE "poll"
          /\ serving' = f.id /\ emitted' = 0
          /\ UNCHANGED toServer
       \/ /\ f.kind = "cancel"
          /\ Send(Frame("error", NoId, 0))
          /\ UNCHANGED workerVars
  /\ UNCHANGED <<adapterVars, jobVars, signalled>>

(* An analysis, which runs on a thread of its own, may report progress     *)
(* before it answers.                                                      *)
WorkerProgress ==
  /\ worker = "call" /\ \E t \in Threads \ {Loop} : waiting[t] = serving
  /\ Send(Frame("progress", serving, 0))
  /\ UNCHANGED <<adapterVars, toWorker, workerVars, jobVars, signalled>>

(* Mutant: the response of a request is not sent. *)
WorkerRespondNothing ==
  /\ worker \in {"call", "emit", "end"}
  /\ worker' = "idle" /\ Unserved
  /\ UNCHANGED <<adapterVars, socketVars, jobVars, signalled>>

(* The one response of a request: a result, or the error it raised. *)
WorkerRespond ==
  /\ worker \in {"call", "emit", "end"}
  /\ \/ worker \in {"call", "end"} /\ Send(Frame("result", serving, 0))
     \/ worker \in {"call", "emit"} /\ Send(Frame("error", serving, 0))
  /\ worker' = "idle" /\ Unserved
  /\ UNCHANGED <<adapterVars, toWorker, jobVars, signalled>>

(* Mutant: the last function is left out. *)
WorkerPollShort ==
  /\ worker = "poll"
  /\ IF emitted + 1 >= Functions[serving] \/ toWorker = <<>>
     THEN /\ worker' = IF emitted + 1 >= Functions[serving] THEN "end" ELSE "emit"
          /\ UNCHANGED toWorker
     ELSE /\ toWorker' = Tail(toWorker)
          /\ worker' = IF Head(toWorker).kind # "cancel" THEN "exited"
                       ELSE IF Head(toWorker).id = serving THEN "end" ELSE "emit"
  /\ UNCHANGED <<adapterVars, toServer, serving, emitted, jobVars, signalled>>

(* Between functions the worker looks for one control frame: $/cancel of   *)
(* this stream ends it, of another is dropped, anything else closes the    *)
(* connection.  After the last function it does not look any more.         *)
WorkerPoll ==
  /\ worker = "poll"
  /\ IF emitted = Functions[serving] \/ toWorker = <<>>
     THEN /\ worker' = IF emitted = Functions[serving] THEN "end" ELSE "emit"
          /\ UNCHANGED toWorker
     ELSE /\ toWorker' = Tail(toWorker)
          /\ worker' = IF Head(toWorker).kind # "cancel" THEN "exited"
                       ELSE IF Head(toWorker).id = serving THEN "end" ELSE "emit"
  /\ UNCHANGED <<adapterVars, toServer, serving, emitted, jobVars, signalled>>

WorkerEmit ==
  /\ worker = "emit"
  /\ Send(Frame("chunk", serving, emitted))
  /\ emitted' = emitted + 1
  /\ worker' = "poll"
  /\ UNCHANGED <<adapterVars, toWorker, serving, jobVars, signalled>>

WorkerCrash ==
  /\ worker # "exited"
  /\ worker' = "exited" /\ Unserved
  /\ UNCHANGED <<adapterVars, socketVars, jobVars, signalled>>

-----------------------------------------------------------------------------
WorkerStep == WorkerAccept \/ WorkerRespond \/ WorkerPoll \/ WorkerEmit
ReadStep(t)   == CallRead(t) \/ CallLost(t)
PullStep(j)   == StreamRead(j) \/ StreamLost(j)

RpcNext ==
  \/ WorkerStep \/ WorkerProgress \/ WorkerCrash
  \/ Evicted
  \/ \E t \in Threads :
       \/ ReadStep(t) \/ CallTimeout(t)
       \/ \E r \in Requests : CallRefused(t, r) \/ CallUnreachable(t, r) \/ CallSend(t, r)
  \/ \E j \in Streams :
       \/ PullStep(j) \/ StreamTimeout(j) \/ CancelJob(j)
       \/ StreamRefused(j) \/ StreamUnreachable(j) \/ StreamSend(j)

RpcSpec == RpcInit /\ [][RpcNext]_rpcVars

(* The worker works, and who waits for a frame reads it.  No deadline is   *)
(* counted on.                                                             *)
RpcFairness ==
  /\ SF_rpcVars(WorkerAccept) /\ SF_rpcVars(WorkerRespond)
  /\ WF_rpcVars(WorkerPoll) /\ SF_rpcVars(WorkerEmit)
  /\ \A t \in Threads : WF_rpcVars(ReadStep(t))
  /\ \A j \in Streams : WF_rpcVars(draining = j /\ PullStep(j))

RpcFairSpec == RpcSpec /\ RpcFairness

-----------------------------------------------------------------------------
Frames == [kind : {"request", "stream", "cancel", "progress", "chunk", "result", "error"},
           id : Ids \cup {NoId}, seq : Nat]

RpcTypeOK ==
  /\ session \in {"open", "gone"} /\ lock \in Threads \cup {NoThread}
  /\ active \in Streams \cup {NoId} /\ draining \in Streams \cup {NoId}
  /\ toWorker \in Seq(Frames) /\ toServer \in Seq(Frames)
  /\ worker \in {"idle", "call", "poll", "emit", "end", "exited"}
  /\ serving \in Ids \cup {NoId} /\ emitted \in Nat
  /\ waiting \in [Threads -> Requests \cup {NoId}]
  /\ outcome \in [Ids -> {"unused", "pending", "refused", "result", "error", "violation", "lost",
                          "timeout"}]
  /\ nextSeq \in [Streams -> Nat] /\ \A j \in Streams : nextSeq[j] <= Functions[j]
  /\ jobs \subseteq Streams /\ slot \in jobs \cup {NoId}
  /\ cancelled \subseteq Streams /\ signalled \subseteq Streams

(* Who reads the socket: the calls that await an answer and the streams    *)
(* that have not ended.                                                    *)
Readers == {i \in Ids : outcome[i] = "pending"}

(* The lock and the flag between them keep the socket to one reader, the   *)
(* handover from a call to a stream and from a cancelled stream to its     *)
(* successor included (rpc_client.py, gap N1 and W1).                      *)
OneReader ==
  session = "open" =>
    /\ \A i, k \in Readers : i = k
    /\ \A i \in Readers : i \in Streams => lock = NoThread

(* The flag names exactly the stream that has not ended: an ended one      *)
(* never leaves the session busy, a running one never leaves it open to    *)
(* calls (V1, the finally of _decompile_stream_gen).                       *)
FlagExact == session = "open" => \A j \in Streams : active = j <=> outcome[j] = "pending"

(* The chunks among the first n frames of q. *)
ChunksIn(q, n) == {m \in 1 .. n : q[m].kind = "chunk"}

(* What is on the way to the server is for its reader: nothing of an       *)
(* earlier request is left, and chunks follow on the ones already read.    *)
(* Only the error with a null id belongs to no one.                        *)
FramesAddressed ==
  session = "open" =>
    \A n \in DOMAIN toServer :
      LET f == toServer[n]
      IN /\ f.id \in Readers \cup {NoId}
         /\ f.id = NoId => f.kind = "error"
         /\ f.kind = "chunk" => f.seq = nextSeq[f.id] + Cardinality(ChunksIn(toServer, n)) - 1

(* The socket has one owner at a time: one reader, the flag that names it  *)
(* when it is a stream, and only frames meant for it, across handovers     *)
(* between calls, streams, cancels and drains.                             *)
SocketOwned == RpcTypeOK /\ OneReader /\ FlagExact /\ FramesAddressed

(* A healthy worker is taken for a hostile one, and killed, only in a      *)
(* session that sent a $/cancel.                                           *)
FaultsExplained == (\E i \in Ids : outcome[i] = "violation") => signalled # {}

(* A stream that ends in a result and that no $/cancel named has delivered *)
(* every function (_read_stream_chunks, "never an ambiguous early done").  *)
CompleteUnlessSignalled ==
  \A j \in Streams : outcome[j] = "result" /\ j \notin signalled => nextSeq[j] = Functions[j]

(* A cancelled job gives the socket back: its stream is drained to its end *)
(* or the session goes (cancel_job and drain_producer, V1).                *)
CancelFrees == active \in cancelled ~> (active \notin cancelled \/ session = "gone")

(* A call that holds the lock to wait for its answer returns, with no help *)
(* from deadlines, even when a reply to an earlier $/cancel is in its way. *)
CallReturns == lock # NoThread ~> lock = NoThread

-----------------------------------------------------------------------------
(* "a $/cancel for a finished id is a worker no-op anyway"                 *)
(* (rpc_client.py, _decompile_stream_gen): whatever is cancelled, and      *)
(* when, no later answer of the worker is taken for a protocol violation.  *)
HealthyKept == \A i \in Ids : outcome[i] # "violation"
-----------------------------------------------------------------------------
(* The inductive invariant.  The lock is held by exactly the thread that   *)
(* awaits an answer, and every unanswered call has that thread.            *)
LockExact ==
  /\ \A t \in Threads :
       /\ waiting[t] # NoId => lock = t /\ outcome[waiting[t]] = "pending"
       /\ lock = t => waiting[t] # NoId
  /\ \A r \in Requests : outcome[r] = "pending" => \E t \in Threads : waiting[t] = r

(* A session that is gone has a dead worker and a closed socket. *)
GoneQuiet == session = "gone" => worker = "exited" /\ toWorker = <<>> /\ toServer = <<>>

(* On the way to the worker is at most the reader's own request, which no  *)
(* frame answers yet, and $/cancel frames.                                 *)
RequestsAddressed ==
  session = "open" =>
    \A n \in DOMAIN toWorker :
      LET f == toWorker[n] IN
        \/ f.kind = "cancel" /\ f.id \in signalled
        \/ /\ f.kind \in {"request", "stream"} /\ f.id \in Readers
           /\ f.kind = "request" => f.id \in Requests
           /\ f.kind = "stream" => f.id \in Streams /\ nextSeq[f.id] = 0
           /\ worker \in {"idle", "exited"}
           /\ \A m \in DOMAIN toWorker : m # n => toWorker[m].kind = "cancel"
           /\ \A m \in DOMAIN toServer : toServer[m].id = NoId

(* The worker works for the reader, has not answered it yet, and ends a    *)
(* stream early only when a $/cancel named it.                             *)
ServesReader ==
  session = "open" =>
    /\ worker = "call" => serving \in Requests
    /\ worker \in {"poll", "emit", "end"} =>
         /\ serving \in Streams /\ emitted <= Functions[serving]
         /\ emitted = nextSeq[serving] + Cardinality(ChunksIn(toServer, Len(toServer)))
    /\ worker = "emit" => emitted < Functions[serving]
    /\ worker = "end" => emitted = Functions[serving] \/ serving \in signalled
    /\ worker \in {"call", "poll", "emit", "end"} =>
         /\ serving \in Readers
         /\ \A n \in DOMAIN toServer :
              toServer[n].kind \in {"result", "error"} => toServer[n].id = NoId

(* An answer is the last frame of its request; a stream's result comes     *)
(* after all of its chunks unless a $/cancel named it; an answer to no one *)
(* is an answer to a $/cancel.                                             *)
AnswersLast ==
  session = "open" =>
    \A n \in DOMAIN toServer :
      LET f == toServer[n] IN
        /\ f.id = NoId => signalled # {}
        /\ f.kind = "chunk" => f.id \in Streams /\ f.seq < Functions[f.id]
        /\ f.kind \in {"result", "error"} /\ f.id # NoId =>
             /\ worker \in {"idle", "exited"}
             /\ \A m \in DOMAIN toServer : m > n => toServer[m].id = NoId
        /\ f.kind = "result" /\ f.id \in Streams \ signalled =>
             nextSeq[f.id] + Cardinality(ChunksIn(toServer, n)) = Functions[f.id]

NothingReadYet == \A j \in Streams : outcome[j] = "unused" => nextSeq[j] = 0

RpcInv ==
  /\ SocketOwned
  /\ LockExact
  /\ GoneQuiet
  /\ RequestsAddressed
  /\ ServesReader
  /\ AnswersLast
  /\ NothingReadYet
  /\ FaultsExplained
  /\ CompleteUnlessSignalled

=============================================================================
