--------------------------- MODULE SessionManager ---------------------------
(***************************************************************************)
(* The session table of sessions/manager.py: one worker and one store per  *)
(* session, an owner check on every access, TTL and idle expiry, and the   *)
(* eviction pipeline: detach under the lock, kill the worker, wipe the     *)
(* store, run the on_evict callback.                                       *)
(*                                                                         *)
(* The lock is explicit.  A method whose locked section does no I/O is one *)
(* step taken while the lock is free.  An eviction's I/O takes steps of    *)
(* its own: with the lock held when it was started by a call or by         *)
(* shutdown, without it when it was started by the reaper.  A thread that  *)
(* is done with either flushes the queue of callbacks and runs them with   *)
(* the lock free.                                                          *)
(***************************************************************************)
EXTENDS Integers, FiniteSets

CONSTANTS
  Sessions,      \* the session ids token_urlsafe can mint
  Principals,    \* the server-derived caller ids
  NoOne,         \* the owner of an id not minted yet
  Threads,       \* the event loop, offloaded analyses, the reaper
  NoThread,      \* the holder of a free lock
  Ttl, Idle,     \* ttl_s and idle_s, in clock ticks
  MaxSessions,   \* max_sessions
  MaxPerOwner,   \* max_sessions_per_owner
  MaxTime,       \* bound: clock ticks
  MaxInFlight    \* bound: calls marked on one session

ASSUME IdsAssumption  == NoOne \notin Principals /\ NoThread \notin Threads
ASSUME SessionsFinite == IsFiniteSet(Sessions)
ASSUME SessionLimits ==
  /\ Ttl \in Nat \ {0} /\ Idle \in Nat \ {0}
  /\ MaxSessions \in Nat /\ MaxPerOwner \in Nat
ASSUME SessionBounds == MaxTime \in Nat /\ MaxInFlight \in Nat

VARIABLES
  now,            \* the monotonic clock
  status,         \* per id: unused, open (in the table) or evicted
  owner, created, lastUsed, inFlight,   \* fields of _Session
  workerStarted,  \* the sessions whose worker_started flag is set
  pending,        \* _pending_evicted: how often each id is queued
  worker,         \* the worker process: none, up or gone
  store,          \* the project store: absent or present
  lock,           \* the thread in a locked section that does I/O
  pc,             \* per thread: idle, kill, wipe, flush or notify
  works,          \* per thread: the evictions whose I/O it has still to do
  current,        \* per thread: the eviction whose store it wipes next
  batch,          \* per thread: callbacks it has taken off the queue
  notified,       \* per id: how often its on_evict callback ran
  killFailed,     \* ids whose worker survived its kill
  wiped           \* per id: store_wiped as logged, or "no" before that

sessionVars == <<status, owner, created, lastUsed, inFlight, workerStarted>>
ioVars      == <<worker, store, killFailed, wiped>>
threadVars  == <<pc, works, current, batch>>
vars == <<now, sessionVars, pending, ioVars, lock, threadVars, notified>>

-----------------------------------------------------------------------------
Open == {s \in Sessions : status[s] = "open"}
Owned(p) == {s \in Open : owner[s] = p}

TtlExpired(s) == now - created[s] >= Ttl

(* Mutant: a call in flight does not stop the idle clock. *)
IsExpiredInFlight(s) == TtlExpired(s) \/ now - lastUsed[s] >= Idle

(* A call in flight exempts the session from idling, not from its TTL. *)
IsExpired(s) == TtlExpired(s) \/ (inFlight[s] = 0 /\ now - lastUsed[s] >= Idle)

(* Mutant: the owner is not compared. *)
DeniedUnlessOpen(s, p) == status[s] # "open"

(* _get_live_locked: unknown, evicted and foreign ids are refused alike,   *)
(* an expired one is evicted on the spot, a live one has its idle clock    *)
(* refreshed.                                                              *)
Denied(s, p) == status[s] # "open" \/ owner[s] # p

Live(s, p)   == ~Denied(s, p) /\ ~IsExpired(s)
Touch(s)     == lastUsed' = [lastUsed EXCEPT ![s] = now]

(* A thread starts a method: it is in no other one and gets the lock. *)
Enter(t) == pc[t] = "idle" /\ lock = NoThread

(* It leaves a locked section that did no I/O. *)
Return(t) ==
  /\ pc' = [pc EXCEPT ![t] = "flush"]
  /\ UNCHANGED <<lock, works, current, batch>>

(* _detach_for_eviction_locked, for a set of sessions. *)
Detach(D) ==
  /\ status'  = [s \in Sessions |-> IF s \in D THEN "evicted" ELSE status[s]]
  /\ pending' = [s \in Sessions |-> IF s \in D THEN pending[s] + 1 ELSE pending[s]]

(* The I/O of evicting D is now thread t's, holder holding the lock. *)
EvictionWork(t, D, holder) ==
  /\ pc' = [pc EXCEPT ![t] = IF D = {} THEN "flush" ELSE "kill"]
  /\ works' = [works EXCEPT ![t] = D]
  /\ lock' = IF D = {} THEN lock ELSE holder
  /\ UNCHANGED <<current, batch>>

EvictLocked(t, D) == Detach(D) /\ EvictionWork(t, D, t)

-----------------------------------------------------------------------------
Init ==
  /\ now = 0
  /\ status = [s \in Sessions |-> "unused"]
  /\ owner = [s \in Sessions |-> NoOne]
  /\ created = [s \in Sessions |-> 0] /\ lastUsed = [s \in Sessions |-> 0]
  /\ inFlight = [s \in Sessions |-> 0]
  /\ workerStarted = {}
  /\ pending = [s \in Sessions |-> 0]
  /\ worker = [s \in Sessions |-> "none"]
  /\ store = [s \in Sessions |-> "absent"]
  /\ lock = NoThread
  /\ pc = [t \in Threads |-> "idle"]
  /\ works = [t \in Threads |-> {}]
  /\ current = [t \in Threads |-> {}]
  /\ batch = [t \in Threads |-> [s \in Sessions |-> 0]]
  /\ notified = [s \in Sessions |-> 0]
  /\ killFailed = {}
  /\ wiped = [s \in Sessions |-> "no"]

Tick == now < MaxTime /\ now' = now + 1
        /\ UNCHANGED <<sessionVars, pending, ioVars, lock, threadVars, notified>>

-----------------------------------------------------------------------------
(* Mutant: the caps off by one. *)
HasRoomLate(p) == Cardinality(Open) <= MaxSessions /\ Cardinality(Owned(p)) <= MaxPerOwner

(* create: backpressure on the table and on the owner's share of it. *)
HasRoom(p) == Cardinality(Open) < MaxSessions /\ Cardinality(Owned(p)) < MaxPerOwner

Create(t, s, p) ==
  /\ Enter(t) /\ HasRoom(p)
  /\ status[s] = "unused"
  /\ status' = [status EXCEPT ![s] = "open"]
  /\ owner' = [owner EXCEPT ![s] = p]
  /\ created' = [created EXCEPT ![s] = now] /\ Touch(s)
  /\ UNCHANGED <<now, inFlight, workerStarted, pending, ioVars, lock, pc, works,
                 current, batch, notified>>

(* begin_call and end_call: markers, owner-scoped, that check no expiry. *)
BeginCall(t, s, p) ==
  /\ Enter(t)
  /\ IF Denied(s, p)
     THEN UNCHANGED <<inFlight, lastUsed>>
     ELSE /\ inFlight[s] < MaxInFlight
          /\ inFlight' = [inFlight EXCEPT ![s] = @ + 1]
          /\ Touch(s)
  /\ UNCHANGED <<now, status, owner, created, workerStarted, pending, ioVars, lock,
                 threadVars, notified>>

EndCall(t, s, p) ==
  /\ Enter(t)
  /\ IF Denied(s, p)
     THEN UNCHANGED <<inFlight, lastUsed>>
     ELSE /\ inFlight' = [inFlight EXCEPT ![s] = IF @ = 0 THEN 0 ELSE @ - 1]
          /\ Touch(s)
  /\ UNCHANGED <<now, status, owner, created, workerStarted, pending, ioVars, lock,
                 threadVars, notified>>

-----------------------------------------------------------------------------
(* The two ways every method behind _get_live_locked fails. *)
Refuse(t, s, p) ==
  /\ Enter(t) /\ Denied(s, p)
  /\ Return(t)
  /\ UNCHANGED <<now, sessionVars, pending, ioVars, notified>>

ExpireOnAccess(t, s, p) ==
  /\ Enter(t) /\ ~Denied(s, p) /\ IsExpired(s)
  /\ EvictLocked(t, {s})
  /\ UNCHANGED <<now, owner, created, lastUsed, inFlight, workerStarted, ioVars, notified>>

(* authorize.  The consent, record_* and read-back methods add to it only  *)
(* fields that expiry and eviction do not depend on (module ToolDispatch). *)
Authorize(t, s, p) ==
  /\ Enter(t) /\ Live(s, p) /\ Touch(s)
  /\ Return(t)
  /\ UNCHANGED <<now, status, owner, created, inFlight, workerStarted, pending, ioVars,
                 notified>>

(* Mutant: the session is not looked up again before the spawn. *)
EnsureWorkerUnchecked(t, s, p) ==
  /\ Enter(t) /\ status[s] # "unused" /\ owner[s] = p /\ Touch(s)
  /\ s \notin workerStarted
  /\ worker' = [worker EXCEPT ![s] = "up"]
  /\ store' = [store EXCEPT ![s] = "present"]
  /\ workerStarted' = workerStarted \cup {s}
  /\ Return(t)
  /\ UNCHANGED <<now, status, owner, created, inFlight, pending, killFailed, wiped,
                 notified>>

(* ensure_worker: spawn under the lock, then set the flag; a launch that   *)
(* raises leaves both alone.  The launcher has made the directory by then. *)
EnsureWorker(t, s, p) ==
  /\ Enter(t) /\ Live(s, p) /\ Touch(s)
  /\ \/ /\ s \in workerStarted
        /\ Return(t)
        /\ UNCHANGED <<workerStarted, worker, store>>
     \/ /\ s \notin workerStarted
        /\ worker' = [worker EXCEPT ![s] = "up"]
        /\ store' = [store EXCEPT ![s] = "present"]
        /\ workerStarted' = workerStarted \cup {s}
        /\ Return(t)
     \/ /\ s \notin workerStarted
        /\ store' = [store EXCEPT ![s] = "present"]
        /\ Return(t)
        /\ UNCHANGED <<workerStarted, worker>>
  /\ UNCHANGED <<now, status, owner, created, inFlight, pending, killFailed, wiped,
                 notified>>

(* evict on behalf of a caller (session_close). *)
Evict(t, s, p) ==
  /\ Enter(t) /\ Live(s, p) /\ Touch(s)
  /\ EvictLocked(t, {s})
  /\ UNCHANGED <<now, owner, created, inFlight, workerStarted, ioVars, notified>>

(* Mutant: the sweep looks at the idle limit only. *)
ReapableIdle == {s \in Open : inFlight[s] = 0 /\ now - lastUsed[s] >= Idle}

(* reap_expired: detach under the lock, leave the I/O for after it. *)
Reapable == {s \in Open : inFlight[s] = 0 /\ IsExpired(s)}

Reap(t) ==
  /\ Enter(t)
  /\ Detach(Reapable) /\ EvictionWork(t, Reapable, NoThread)
  /\ UNCHANGED <<now, owner, created, lastUsed, inFlight, workerStarted, ioVars, notified>>

(* shutdown: evict every session, one after the other, under the lock. *)
Shutdown(t) ==
  /\ Enter(t)
  /\ EvictLocked(t, Open)
  /\ UNCHANGED <<now, owner, created, lastUsed, inFlight, workerStarted, ioVars, notified>>

-----------------------------------------------------------------------------
(* _run_eviction_io: kill first; a failed kill is logged and the wipe      *)
(* goes ahead.                                                             *)
Kill(t) ==
  /\ pc[t] = "kill"
  /\ \E s \in works[t] :
       /\ works' = [works EXCEPT ![t] = @ \ {s}]
       /\ current' = [current EXCEPT ![t] = {s}]
       /\ \/ /\ worker' = [worker EXCEPT ![s] =
                             IF s \in workerStarted /\ @ = "up" THEN "gone" ELSE @]
             /\ UNCHANGED killFailed
          \/ /\ s \in workerStarted /\ worker[s] = "up"
             /\ killFailed' = killFailed \cup {s}
             /\ UNCHANGED worker
  /\ pc' = [pc EXCEPT ![t] = "wipe"]
  /\ UNCHANGED <<now, sessionVars, pending, store, wiped, lock, batch, notified>>

(* Mutant: the attempt counts as the wipe. *)
WipeByAttempt(t) ==
  /\ pc[t] = "wipe"
  /\ \E s \in current[t] :
       /\ store' \in {store, [store EXCEPT ![s] = "absent"]}
       /\ wiped' = [wiped EXCEPT ![s] = "yes"]
  /\ current' = [current EXCEPT ![t] = {}]
  /\ pc' = [pc EXCEPT ![t] = IF works[t] = {} THEN "flush" ELSE "kill"]
  /\ lock' = IF works[t] = {} /\ lock = t THEN NoThread ELSE lock
  /\ UNCHANGED <<now, sessionVars, pending, worker, killFailed, works, batch, notified>>

(* _wipe_store: what is left on disk, not the attempt, is the verdict. *)
Wipe(t) ==
  /\ pc[t] = "wipe"
  /\ \E s \in current[t] :
       \/ store' = [store EXCEPT ![s] = "absent"] /\ wiped' = [wiped EXCEPT ![s] = "yes"]
       \/ /\ store[s] = "present"
          /\ wiped' = [wiped EXCEPT ![s] = "failed"]
          /\ UNCHANGED store
  /\ current' = [current EXCEPT ![t] = {}]
  /\ pc' = [pc EXCEPT ![t] = IF works[t] = {} THEN "flush" ELSE "kill"]
  /\ lock' = IF works[t] = {} /\ lock = t THEN NoThread ELSE lock
  /\ UNCHANGED <<now, sessionVars, pending, worker, killFailed, works, batch, notified>>

(* Mutants: the queue is cleared before it is read; it is read and left as *)
(* it was.                                                                 *)
FlushDropsQueue(t) ==
  /\ pc[t] = "flush" /\ lock = NoThread
  /\ pending' = [s \in Sessions |-> 0]
  /\ pc' = [pc EXCEPT ![t] = "idle"]
  /\ UNCHANGED <<now, sessionVars, ioVars, lock, works, current, batch, notified>>

FlushKeepsQueue(t) ==
  /\ pc[t] = "flush" /\ lock = NoThread
  /\ batch' = [batch EXCEPT ![t] = pending]
  /\ pc' = [pc EXCEPT ![t] = IF \A s \in Sessions : pending[s] = 0 THEN "idle" ELSE "notify"]
  /\ UNCHANGED <<now, sessionVars, pending, ioVars, lock, works, current, notified>>

(* _flush_evicted: take the whole queue under the lock, then run each      *)
(* callback without it; one that raises is logged and counts as run.       *)
Flush(t) ==
  /\ pc[t] = "flush" /\ lock = NoThread
  /\ batch' = [batch EXCEPT ![t] = pending]
  /\ pending' = [s \in Sessions |-> 0]
  /\ pc' = [pc EXCEPT ![t] = IF \A s \in Sessions : pending[s] = 0 THEN "idle" ELSE "notify"]
  /\ UNCHANGED <<now, sessionVars, ioVars, lock, works, current, notified>>

Notify(t) ==
  /\ pc[t] = "notify"
  /\ \E s \in Sessions :
       /\ batch[t][s] > 0
       /\ batch' = [batch EXCEPT ![t][s] = @ - 1]
       /\ notified' = [notified EXCEPT ![s] = @ + 1]
  /\ pc' = [pc EXCEPT ![t] = IF \A s \in Sessions : batch'[t][s] = 0 THEN "idle" ELSE "notify"]
  /\ UNCHANGED <<now, sessionVars, pending, ioVars, lock, works, current>>

(* A worker dies of its own accord, or the adapter kills it on a timeout;  *)
(* worker_started stays set.                                               *)
WorkerDies(s) ==
  /\ worker[s] = "up"
  /\ worker' = [worker EXCEPT ![s] = "gone"]
  /\ UNCHANGED <<now, sessionVars, pending, store, killFailed, wiped, lock, threadVars, notified>>

-----------------------------------------------------------------------------
Access(t, s, p) ==
  \/ Refuse(t, s, p) \/ ExpireOnAccess(t, s, p)
  \/ Authorize(t, s, p)
  \/ EnsureWorker(t, s, p) \/ Evict(t, s, p)

EvictionStep(t) == Kill(t) \/ Wipe(t) \/ Flush(t) \/ Notify(t)

Next ==
  \/ Tick
  \/ \E s \in Sessions : WorkerDies(s)
  \/ \E t \in Threads :
       \/ Reap(t) \/ Shutdown(t) \/ EvictionStep(t)
       \/ \E p \in Principals :
            \E s \in Sessions :
              Create(t, s, p) \/ BeginCall(t, s, p) \/ EndCall(t, s, p) \/ Access(t, s, p)

Spec == Init /\ [][Next]_vars

-----------------------------------------------------------------------------
(* Type invariant of the table, the queue, the external state and the      *)
(* threads.                                                                *)
TypeOK ==
  /\ now \in Nat
  /\ status \in [Sessions -> {"unused", "open", "evicted"}]
  /\ owner \in [Sessions -> Principals \cup {NoOne}]
  /\ created \in [Sessions -> Nat] /\ lastUsed \in [Sessions -> Nat]
  /\ inFlight \in [Sessions -> Nat]
  /\ workerStarted \in SUBSET Sessions
  /\ pending \in [Sessions -> Nat]
  /\ worker \in [Sessions -> {"none", "up", "gone"}]
  /\ store \in [Sessions -> {"absent", "present"}]
  /\ lock \in Threads \cup {NoThread}
  /\ pc \in [Threads -> {"idle", "kill", "wipe", "flush", "notify"}]
  /\ works \in [Threads -> SUBSET Sessions]
  /\ current \in [Threads -> SUBSET Sessions]
  /\ batch \in [Threads -> [Sessions -> Nat]]
  /\ notified \in [Sessions -> Nat]
  /\ killFailed \in SUBSET Sessions
  /\ wiped \in [Sessions -> {"no", "yes", "failed"}]

(* The evictions of s whose I/O some thread has still to finish. *)
BeingEvicted(s) == \E t \in Threads : s \in works[t] \cup current[t]

(* A worker process is never orphaned (ADR-002): one that runs belongs to  *)
(* a session in the table or to an eviction on its way to the kill, unless *)
(* the kill itself failed.  ensure_worker and every eviction race for it.  *)
NoOrphanWorker ==
  \A s \in Sessions :
    worker[s] = "up" => \/ status[s] = "open" /\ s \in workerStarted
                        \/ \E t \in Threads : s \in works[t]
                        \/ s \in killFailed

(* No store is wiped under a running worker: by the time store_wiped is    *)
(* logged the worker is gone, unless its kill failed; and a store that     *)
(* was logged as wiped is not there.                                       *)
WipedAfterKill ==
  \A s \in Sessions : wiped[s] # "no" =>
    /\ worker[s] = "up" => s \in killFailed
    /\ wiped[s] = "yes" => store[s] = "absent"

(* Once its eviction I/O is done, nothing of a session is left on disk     *)
(* unless a wipe failure was logged, even when its worker never came up.   *)
NoStoreLeft ==
  \A s \in Sessions :
    status[s] = "evicted" /\ ~BeingEvicted(s) => store[s] = "absent" \/ wiped[s] = "failed"

(* The store of an evicted session is dealt with after its worker and for  *)
(* good: never wiped under a worker that was not killed, never logged as   *)
(* wiped while it is there, never forgotten, whatever launch, kill or wipe *)
(* failed on the way (_run_eviction_io, _wipe_store).                      *)
StoreWiped == WipedAfterKill /\ NoStoreLeft

(* on_evict runs at most once per session, never for one still in the      *)
(* table, and is queued, taken or done for every evicted one, whichever    *)
(* threads evict and flush: discard_session never sees a session twice.    *)
NotifiedOnce ==
  \A s \in Sessions :
    /\ status[s] # "evicted" => pending[s] = 0 /\ notified[s] = 0
    /\ status[s] = "evicted" =>
         \/ pending[s] = 1 /\ notified[s] = 0 /\ \A t \in Threads : batch[t][s] = 0
         \/ /\ pending[s] = 0 /\ notified[s] = 0
            /\ \E t \in Threads :
                 batch[t][s] = 1 /\ \A u \in Threads \ {t} : batch[u][s] = 0
         \/ pending[s] = 0 /\ notified[s] = 1 /\ \A t \in Threads : batch[t][s] = 0

(* create's caps hold of the table at all times. *)
WithinCaps ==
  /\ Cardinality(Open) <= MaxSessions
  /\ \A p \in Principals : Cardinality(Owned(p)) <= MaxPerOwner

(* Eviction completes: every evicted session is killed, wiped and has its  *)
(* callback run, whatever other threads do with the lock.                  *)
EvictionCompletes ==
  \A s \in Sessions : status[s] = "evicted" ~> wiped[s] # "no" /\ notified[s] = 1

-----------------------------------------------------------------------------
(* The inductive invariant.  Where a thread stands in the pipeline says    *)
(* what work it still has.                                                 *)
WorkMatchesPc ==
  \A t \in Threads :
    /\ pc[t] \in {"idle", "flush", "notify"} => works[t] = {} /\ current[t] = {}
    /\ pc[t] = "kill" => current[t] = {}
    /\ pc[t] # "notify" => \A s \in Sessions : batch[t][s] = 0
    /\ \A r, s \in current[t] : r = s

(* An eviction is one thread's, it is of a detached session whose store    *)
(* was not yet dealt with, and past its kill the worker is gone.           *)
OneEvictor ==
  /\ \A t \in Threads, s \in Sessions :
       s \in works[t] \/ s \in current[t] => status[s] = "evicted" /\ wiped[s] = "no"
  /\ \A t, u \in Threads, s \in Sessions :
       (s \in works[t] \/ s \in current[t]) /\ (s \in works[u] \/ s \in current[u]) => t = u
  /\ \A t \in Threads, s \in Sessions : s \in current[t] =>
       s \notin works[t] /\ (worker[s] = "up" => s \in killFailed)

(* What a session that was not detached yet cannot have, and the flag that *)
(* has every running worker killed.                                        *)
BeforeEviction ==
  \A s \in Sessions :
    /\ status[s] # "evicted" => wiped[s] = "no" /\ \A t \in Threads : batch[t][s] = 0
    /\ status[s] = "unused" => worker[s] = "none" /\ store[s] = "absent"
    /\ worker[s] = "up" => s \in workerStarted

IInv ==
  /\ TypeOK
  /\ WorkMatchesPc
  /\ OneEvictor
  /\ BeforeEviction
  /\ NoOrphanWorker
  /\ WipedAfterKill
  /\ NoStoreLeft
  /\ NotifiedOnce

=============================================================================
