------------------------ MODULE StreamingJobManager ------------------------
(***************************************************************************)
(* The table of streaming jobs (jobs/streaming.py, StreamingJobManager)    *)
(* between the tool calls that use it and the session evictions that       *)
(* empty it.                                                               *)
(*                                                                         *)
(* Two tiers of locks: the manager's re-entrant lock guards the table and  *)
(* is held across the session authorizer, which may evict, flush and so    *)
(* call discard_session from inside; each job's own lock guards its pump.  *)
(* A job is seen here through its state alone (module StreamingJob has the *)
(* rest): live is running or paused, ended is a producer that finished     *)
(* with chunks still to fetch, done is over for the client as well.        *)
(***************************************************************************)
EXTENDS ToolDispatch

CONSTANT Jobs    \* the job ids token_urlsafe can mint

VARIABLES
  jobState,    \* per job id
  jobsOf,      \* per session: the jobs created for it (their session_id)
  table,       \* _jobs: the ids in it
  active,      \* _active_by_session: the session's slot, empty or one id
  jobsLock,    \* the holder of the manager's lock across the authorizer
  jobLock,     \* per job: the holder of its lock
  handle,      \* the job id the streaming call on the loop is about
  sink,        \* per thread: the session discard_session works on
  doomed       \* per thread: jobs it took off the table and has to cancel

jobVars     == <<jobState, jobsOf, table, active>>
jobLockVars == <<jobsLock, jobLock>>
sinkVars    == <<sink, doomed>>
streamVars  == <<jobVars, jobLockVars, handle, sinkVars>>
everything  == <<allVars, streamVars>>

Terminal      == {"ended", "done", "cancelled"}   \* is_terminal
EffectiveDone == {"done", "cancelled"}            \* effective_done

(* A streaming tool authorizes, then takes the manager's lock, authorizes  *)
(* again under it, finds its job, and works on it under the job's lock.    *)
StreamScript == [
  start   |-> <<"guard", "authorize", "take", "jobauth", "start", "lock", "pump",
                "take", "jobauth", "find", "lock", "read", "end">>,
  fetch   |-> <<"guard", "authorize", "take", "jobauth", "find", "lock", "pump", "end">>,
  watch   |-> <<"guard", "authorize", "take", "jobauth", "find", "lock", "read", "end">>,
  cancel  |-> <<"guard", "authorize", "take", "jobauth", "unslot", "lock", "cancel",
                "take", "jobauth", "find", "lock", "read", "end">>]

-----------------------------------------------------------------------------
StreamInit ==
  /\ DispatchInit
  /\ jobState = [j \in Jobs |-> "unused"]
  /\ jobsOf = [s \in Sessions |-> {}]
  /\ table = {}
  /\ active = [s \in Sessions |-> {}]
  /\ jobsLock = NoThread
  /\ jobLock = [j \in Jobs |-> NoThread]
  /\ handle = {}
  /\ sink = [t \in Threads |-> {}]
  /\ doomed = [t \in Threads |-> {}]

(* bound: a start needs an id that was not minted yet *)
CanMint == \E j \in Jobs : jobState[j] = "unused"

BeginStream(tool, s, p, j) ==
  /\ tool = "start" => CanMint
  /\ Begin(Loop, tool, StreamScript[tool], s, p)
  /\ handle' = IF tool = "start" THEN {} ELSE {j}
  /\ UNCHANGED <<jobVars, jobLockVars, sinkVars>>

(* The loop is at this step of a streaming call, and in no method of the   *)
(* session manager.                                                        *)
On(step) == At(Loop, {step}) /\ pc[Loop] = "idle"

TakeJobsLock ==
  /\ On("take") /\ jobsLock \in {NoThread, Loop}
  /\ jobsLock' = Loop
  /\ Advance(Loop)
  /\ UNCHANGED <<vars, writes, call, onLoop, jobVars, jobLock, handle, sinkVars>>

(* The injected authorizer, called with the manager's lock held. *)
AuthorizePass ==
  /\ On("jobauth")
  /\ Authorize(Loop, Session(Loop), Caller(Loop))
  /\ Advance(Loop)
  /\ UNCHANGED <<writes, call, onLoop, streamVars>>

AuthorizeFail ==
  /\ On("jobauth")
  /\ \/ Refuse(Loop, Session(Loop), Caller(Loop))
     \/ ExpireOnAccess(Loop, Session(Loop), Caller(Loop))
  /\ todo' = [todo EXCEPT ![Loop] = <<"release", "end">>]
  /\ UNCHANGED <<writes, call, onLoop, failed, streamVars>>

ReleaseJobsLock ==
  /\ On("release")
  /\ jobsLock' = NoThread
  /\ Advance(Loop)
  /\ UNCHANGED <<vars, writes, call, onLoop, jobVars, jobLock, handle, sinkVars>>

(* start_job, after the authorizer: the slot's job refuses a second one    *)
(* unless it is over; then it leaves the table with the slot.              *)
SlotTaken(s) == \E j \in active[s] : j \in table /\ jobState[j] \notin Terminal

StartJob(j) ==
  /\ On("start")
  /\ LET s == Session(Loop) IN
       IF SlotTaken(s)
       THEN Abort(Loop) /\ UNCHANGED <<jobVars, handle>>
       ELSE /\ jobState[j] = "unused"
            /\ jobState' = [jobState EXCEPT ![j] = "live"]
            /\ jobsOf' = [jobsOf EXCEPT ![s] = @ \cup {j}]
            /\ table' = (table \ active[s]) \cup {j}
            /\ active' = [active EXCEPT ![s] = {j}]
            /\ handle' = {j}
            /\ Advance(Loop)
  /\ jobsLock' = NoThread
  /\ UNCHANGED <<vars, writes, call, onLoop, jobLock, sinkVars>>

(* _authorized_job, after the authorizer: the job must be this session's. *)
Reachable(j, s) == j \in table /\ j \in jobsOf[s]

(* fetch, status and reap_cancelled stop at that; cancel also empties the  *)
(* session's slot.                                                         *)
FindJob(j) ==
  /\ On("find") \/ On("unslot")
  /\ j \in handle
  /\ AdvanceIf(Loop, Reachable(j, Session(Loop)))
  /\ active' = IF On("unslot") /\ Reachable(j, Session(Loop))
               THEN [active EXCEPT ![Session(Loop)] = {}] ELSE active
  /\ jobsLock' = NoThread
  /\ UNCHANGED <<vars, writes, call, onLoop, jobState, jobsOf, table, jobLock,
                 handle, sinkVars>>

LockJob(j) ==
  /\ On("lock") /\ j \in handle
  /\ jobLock[j] = NoThread
  /\ jobLock' = [jobLock EXCEPT ![j] = Loop]
  /\ Advance(Loop)
  /\ UNCHANGED <<vars, writes, call, onLoop, jobVars, jobsLock, handle, sinkVars>>

(* The adapter still holds a socket to the session's worker. *)
Connected(s) == worker[s] = "up" /\ s \notin killFailed

(* What a pump, or a fetch's drain and pump, can make of a job: the        *)
(* producer of a session without a worker ends, and so does one that finds *)
(* another stream on the session's socket.                                 *)
Pumped(j) ==
  LET s == Session(Loop)
      busy == call[Loop].tool = "start" /\ \E k \in jobsOf[s] \ {j} : jobState[k] = "live"
  IN  CASE jobState[j] = "live" /\ busy -> {"done"}
        [] jobState[j] = "live" /\ ~busy /\ Connected(s)  -> {"live", "ended", "done"}
        [] jobState[j] = "live" /\ ~busy /\ ~Connected(s) -> {"ended", "done"}
        [] jobState[j] = "ended" /\ call[Loop].tool = "fetch" -> {"ended", "done"}
        [] OTHER -> {jobState[j]}

Pump(j) ==
  /\ On("pump") /\ j \in handle
  /\ \E state \in Pumped(j) : jobState' = [jobState EXCEPT ![j] = state]
  /\ jobLock' = [jobLock EXCEPT ![j] = NoThread]
  /\ Advance(Loop)
  /\ UNCHANGED <<vars, writes, call, onLoop, jobsOf, table, active, jobsLock,
                 handle, sinkVars>>

(* status, and drain_producer, whose chunks go nowhere. *)
Read(j) ==
  /\ On("read") /\ j \in handle
  /\ jobLock' = [jobLock EXCEPT ![j] = NoThread]
  /\ Advance(Loop)
  /\ UNCHANGED <<vars, writes, call, onLoop, jobVars, jobsLock, handle, sinkVars>>

Cancelled(j) == IF jobState[j] \in EffectiveDone THEN jobState[j] ELSE "cancelled"

(* cancel; the adapter then drains the producer if there is a worker. *)
CancelJob(j) ==
  /\ On("cancel") /\ j \in handle
  /\ jobState' = [jobState EXCEPT ![j] = Cancelled(j)]
  /\ jobLock' = [jobLock EXCEPT ![j] = NoThread]
  /\ todo' = [todo EXCEPT ![Loop] = IF Connected(Session(Loop)) THEN Tail(@) ELSE <<"end">>]
  /\ UNCHANGED <<vars, writes, call, onLoop, failed, jobsOf, table, active,
                 jobsLock, handle, sinkVars>>

-----------------------------------------------------------------------------
(* Mutants: the jobs are dropped and not cancelled; only the slot's job is *)
(* discarded; the manager's lock is not re-entrant.                        *)
DiscardDrops(t) ==
  /\ pc[t] = "notify" /\ sink[t] = {}
  /\ jobsLock \in {NoThread, t}
  /\ \E s \in Sessions :
       /\ batch[t][s] > 0
       /\ sink' = [sink EXCEPT ![t] = {s}]
       /\ table' = table \ jobsOf[s]
       /\ active' = [active EXCEPT ![s] = {}]
  /\ UNCHANGED <<allVars, jobState, jobsOf, jobLockVars, handle, doomed>>

DiscardSlotOnly(t) ==
  /\ pc[t] = "notify" /\ sink[t] = {}
  /\ jobsLock \in {NoThread, t}
  /\ \E s \in Sessions :
       /\ batch[t][s] > 0
       /\ sink' = [sink EXCEPT ![t] = {s}]
       /\ doomed' = [doomed EXCEPT ![t] = table \cap active[s]]
       /\ table' = table \ active[s]
       /\ active' = [active EXCEPT ![s] = {}]
  /\ UNCHANGED <<allVars, jobState, jobsOf, jobLockVars, handle>>

DiscardNotReentrant(t) ==
  /\ pc[t] = "notify" /\ sink[t] = {}
  /\ jobsLock = NoThread
  /\ \E s \in Sessions :
       /\ batch[t][s] > 0
       /\ sink' = [sink EXCEPT ![t] = {s}]
       /\ doomed' = [doomed EXCEPT ![t] = table \cap jobsOf[s]]
       /\ table' = table \ jobsOf[s]
       /\ active' = [active EXCEPT ![s] = {}]
  /\ UNCHANGED <<allVars, jobState, jobsOf, jobLockVars, handle>>

(* discard_session, the on_evict callback of the session manager: empty    *)
(* the table under the manager's lock (free, or held further up this very  *)
(* thread), then cancel each job under its own.                            *)
DiscardTable(t) ==
  /\ pc[t] = "notify" /\ sink[t] = {}
  /\ jobsLock \in {NoThread, t}
  /\ \E s \in Sessions :
       /\ batch[t][s] > 0
       /\ sink' = [sink EXCEPT ![t] = {s}]
       /\ doomed' = [doomed EXCEPT ![t] = table \cap jobsOf[s]]
       /\ table' = table \ jobsOf[s]
       /\ active' = [active EXCEPT ![s] = {}]
  /\ UNCHANGED <<allVars, jobState, jobsOf, jobLockVars, handle>>

DiscardLock(t, j) ==
  /\ j \in doomed[t] /\ jobLock[j] = NoThread
  /\ \A k \in doomed[t] : jobLock[k] # t
  /\ jobLock' = [jobLock EXCEPT ![j] = t]
  /\ UNCHANGED <<allVars, jobVars, jobsLock, handle, sinkVars>>

DiscardCancel(t, j) ==
  /\ j \in doomed[t] /\ jobLock[j] = t
  /\ jobState' = [jobState EXCEPT ![j] = Cancelled(j)]
  /\ jobLock' = [jobLock EXCEPT ![j] = NoThread]
  /\ doomed' = [doomed EXCEPT ![t] = @ \ {j}]
  /\ UNCHANGED <<allVars, jobsOf, table, active, jobsLock, handle, sink>>

DiscardReturn(t) ==
  /\ pc[t] = "notify" /\ doomed[t] = {}
  /\ \E s \in sink[t] : Notify(t) /\ batch'[t][s] < batch[t][s]
  /\ sink' = [sink EXCEPT ![t] = {}]
  /\ UNCHANGED <<dispatchVars, jobVars, jobLockVars, handle, doomed>>

DiscardStep(t) ==
  \/ DiscardTable(t) \/ DiscardReturn(t)
  \/ \E j \in Jobs : DiscardLock(t, j) \/ DiscardCancel(t, j)

-----------------------------------------------------------------------------
StreamStep ==
  \/ TakeJobsLock \/ AuthorizePass \/ AuthorizeFail \/ ReleaseJobsLock
  \/ \E j \in Jobs :
       StartJob(j) \/ FindJob(j) \/ LockJob(j) \/ Pump(j) \/ Read(j) \/ CancelJob(j)

ManagerStep(t) == (Kill(t) \/ Wipe(t) \/ Flush(t)) /\ UNCHANGED dispatchVars

(* The calls of ToolDispatch go on beside the streaming ones, with the     *)
(* callbacks of the session manager being those above.                     *)
StreamNext ==
  \/ StreamStep
  \/ \E t \in Threads : DiscardStep(t)
  \/ \E tool \in DOMAIN StreamScript, s \in Sessions, p \in Principals, j \in Jobs :
       BeginStream(tool, s, p, j)
  \/ /\ \/ \E c \in Slots : CallStep(c)
        \/ \E s \in Sessions, p \in Principals :
             \/ CreateCall(s, p)
             \/ \E tool \in Tools : BeginInline(tool, s, p)
             \/ \E c \in Slots : BeginOffloaded(c, s, p)
        \/ /\ Tick \/ Reap(Reaper) \/ \E s \in Sessions : WorkerDies(s)
           /\ UNCHANGED dispatchVars
        \/ \E t \in Threads : ManagerStep(t)
     /\ UNCHANGED streamVars

StreamSpec == StreamInit /\ [][StreamNext]_everything

(* Threads run on, the locks are not withheld for ever from one that asks, *)
(* and a pump returns: its recv has a deadline.                            *)
StreamFairness ==
  /\ SF_everything(StreamStep)
  /\ \A c \in Slots : SF_everything(CallStep(c) /\ UNCHANGED streamVars)
  /\ \A t \in Threads :
       /\ SF_everything(DiscardStep(t))
       /\ SF_everything(ManagerStep(t) /\ UNCHANGED streamVars)

StreamFairSpec == StreamSpec /\ StreamFairness

-----------------------------------------------------------------------------
(* Type invariant of the job table, its locks and the callbacks. *)
StreamTypeOK ==
  /\ jobState \in [Jobs -> {"unused", "live"} \cup Terminal]
  /\ jobsOf \in [Sessions -> SUBSET Jobs]
  /\ table \in SUBSET Jobs
  /\ active \in [Sessions -> SUBSET Jobs]
  /\ jobsLock \in Threads \cup {NoThread}
  /\ jobLock \in [Jobs -> Threads \cup {NoThread}]
  /\ handle \in SUBSET Jobs
  /\ sink \in [Threads -> SUBSET Sessions]
  /\ doomed \in [Threads -> SUBSET Jobs]
  /\ \A t \in Threads : sink[t] = {} => doomed[t] = {}

(* No call works on a job of another session or for a caller who does not  *)
(* own it (_authorized_job), whatever handle it came with and whatever was *)
(* evicted since the check.                                                *)
JobIsCallers ==
  todo[Loop] # <<>> /\ Head(todo[Loop]) \in {"lock", "pump", "read", "cancel"} =>
    handle \subseteq jobsOf[Session(Loop)] /\ owner[Session(Loop)] = Caller(Loop)

(* The slot never points at a job that cannot be reached or that was       *)
(* cancelled: cancel, discard_session and start_job keep the two tables    *)
(* together across each other's interleavings.                             *)
SlotReachable ==
  \A s \in Sessions : \A j \in active[s] :
    /\ Reachable(j, s) /\ jobState[j] # "cancelled"
    /\ active[s] = {j}

(* A live job off the table is on its way to its cancel: no path drops a   *)
(* producing job without ending it.                                        *)
NoLostJob ==
  \A j \in Jobs : jobState[j] = "live" =>
    j \in table \/ \E t \in Threads : j \in doomed[t]

(* start_job, cancel, reap_cancelled and discard_session account for every *)
(* job between them: the slot and the table stay together, and a producing *)
(* job never leaves both without its cancel.                               *)
JobsAccounted == StreamTypeOK /\ SlotReachable /\ NoLostJob

(* A job in the table when its session is evicted leaves it and produces   *)
(* no more, even when a pump of it is under way (discard_session).         *)
EvictionDiscardsJobs ==
  \A s \in Sessions, j \in Jobs :
    status[s] = "evicted" /\ notified[s] = 0 /\ j \in table \cap jobsOf[s] ~>
      j \notin table /\ jobState[j] \in Terminal

(* The locks of the session manager, the job table and the jobs, and the   *)
(* callbacks between them, never stop a call from returning.               *)
StreamCallsEnd == todo[Loop] # <<>> ~> todo[Loop] = <<>>

-----------------------------------------------------------------------------
(* The inductive invariant.  A call in progress is on a minted session.    *)
JobSteps == {"take", "jobauth", "release", "start", "find", "unslot", "lock", "pump", "read",
             "cancel"}

StreamCalls ==
  [tool : Tools \cup {"analyze"} \cup DOMAIN StreamScript, session : Sessions, caller : Principals]

CallsTyped ==
  /\ todo \in [Slots -> Seq(Steps \cup JobSteps)]
  /\ call \in [Slots -> StreamCalls \cup {NoCall}]
  /\ \A c \in Slots : todo[c] # <<>> =>
       call[c] \in StreamCalls /\ status[Session(c)] # "unused"

(* A job has one session from the moment its id is minted, and one that is *)
(* to be cancelled is off the table for good.                              *)
JobsOwned ==
  /\ \A r, s \in Sessions : \A j \in jobsOf[r] :
       (j \in jobsOf[s] => r = s) /\ jobState[j] # "unused"
  /\ \A t \in Threads : \A j \in doomed[t] : j \notin table /\ jobState[j] # "unused"
  /\ \A j \in handle : handle = {j}

(* What a step on the job relies on holds already, or the step that checks *)
(* it is still ahead of it; and a call that cancels starts nothing.        *)
WorkChecked ==
  \A i \in DOMAIN todo[Loop] :
    /\ todo[Loop][i] \in {"start", "find", "unslot", "lock", "pump", "read", "cancel"} =>
         owner[Session(Loop)] = Caller(Loop) \/ Before(Loop, i, {"jobauth"})
    /\ todo[Loop][i] \in {"lock", "pump", "read", "cancel"} =>
         handle \subseteq jobsOf[Session(Loop)] \/ Before(Loop, i, {"start", "find", "unslot"})
    /\ todo[Loop][i] = "cancel" =>
         /\ (\A s \in Sessions : handle \cap active[s] = {}) \/ Before(Loop, i, {"unslot"})
         /\ \A k \in DOMAIN todo[Loop] : todo[Loop][k] # "start"

StreamInv ==
  /\ TypeOK
  /\ CallsTyped
  /\ JobsAccounted
  /\ JobsOwned
  /\ WorkChecked

-----------------------------------------------------------------------------
(* "Starting a second streaming job on a session whose job is still        *)
(* running/paused fails" (streaming.py, module docstring).                 *)
OneActiveJob ==
  \A s \in Sessions : \A j, k \in jobsOf[s] :
    jobState[j] = "live" /\ jobState[k] = "live" => j = k

=============================================================================
