------------------------- MODULE ToolDispatchProofs -------------------------
(***************************************************************************)
(* The session manager and the dispatcher in front of it, for every number *)
(* of sessions, callers, threads and principals and every limit.           *)
(*                                                                         *)
(* IInv of SessionManager is inductive.  From it: no orphaned worker, no   *)
(* store wiped under a worker or left behind, one callback per eviction.   *)
(*                                                                         *)
(* The dispatcher drives the session manager only through the manager's    *)
(* own operations, and DispatchInv of ToolDispatch is inductive.  From it: *)
(* exact in-flight counts, no RPC without the guards behind it, no session *)
(* taken from under a call.                                                *)
(***************************************************************************)
EXTENDS ToolDispatch, FiniteSetTheorems, TLAPS

-----------------------------------------------------------------------------
(* The session manager. *)

(* The steps that only mark, touch or refuse a session, and time. *)
Quiet ==
  /\ UNCHANGED <<status, workerStarted, worker, store, killFailed, wiped, pending, works,
                 current, batch, notified>>
  /\ \A t \in Threads : pc'[t] = pc[t] \/ (pc[t] = "idle" /\ pc'[t] = "flush")

(* Every eviction starts like this: t takes a set of sessions off the      *)
(* table, and their I/O on itself.                                         *)
StartEviction(t, D) ==
  /\ pc[t] = "idle" /\ D \subseteq Open
  /\ Detach(D)
  /\ pc' = [pc EXCEPT ![t] = IF D = {} THEN "flush" ELSE "kill"]
  /\ works' = [works EXCEPT ![t] = D]
  /\ UNCHANGED <<workerStarted, worker, store, killFailed, wiped, current, batch, notified>>

LEMMA DetachTypes ==
  ASSUME TypeOK, NEW t \in Threads, NEW D \in SUBSET Sessions, NEW holder \in Threads \cup {NoThread},
         Detach(D), EvictionWork(t, D, holder)
  PROVE  /\ status' \in [Sessions -> {"unused", "open", "evicted"}]
         /\ pending' \in [Sessions -> Nat]
         /\ pc' \in [Threads -> {"idle", "kill", "wipe", "flush", "notify"}]
         /\ works' \in [Threads -> SUBSET Sessions]
         /\ lock' \in Threads \cup {NoThread}
         /\ current' = current /\ batch' = batch
<1>1. status' \in [Sessions -> {"unused", "open", "evicted"}] /\ pending' \in [Sessions -> Nat]
  BY DEF TypeOK, Detach
<1>2. pc' \in [Threads -> {"idle", "kill", "wipe", "flush", "notify"}]
  BY DEF TypeOK, EvictionWork
<1>3. works' \in [Threads -> SUBSET Sessions]
  BY DEF TypeOK, EvictionWork
<1> QED
  BY <1>1, <1>2, <1>3 DEF TypeOK, EvictionWork

LEMMA AccessTypes ==
  ASSUME TypeOK, NEW t \in Threads, NEW p \in Principals, NEW s \in Sessions, Access(t, s, p)
  PROVE  TypeOK'
<1>0. /\ [lastUsed EXCEPT ![s] = now] \in [Sessions -> Nat]
      /\ [pc EXCEPT ![t] = "flush"] \in [Threads -> {"idle", "kill", "wipe", "flush", "notify"}]
      /\ {s} \in SUBSET Sessions /\ t \in Threads \cup {NoThread}
  BY DEF TypeOK
<1>1. CASE Refuse(t, s, p)
  BY <1>0, <1>1 DEF TypeOK, Refuse, Return, sessionVars, ioVars
<1>2. CASE Authorize(t, s, p)
  BY <1>0, <1>2 DEF TypeOK, Authorize, Return, Touch, ioVars
<1>3. CASE ExpireOnAccess(t, s, p)
  BY <1>0, <1>3, DetachTypes DEF TypeOK, ExpireOnAccess, EvictLocked, ioVars
<1>4. CASE Evict(t, s, p)
  BY <1>0, <1>4, DetachTypes DEF TypeOK, Evict, EvictLocked, Touch, ioVars
<1>5. CASE EnsureWorker(t, s, p)
  <2>1. /\ worker' \in [Sessions -> {"none", "up", "gone"}]
        /\ store' \in [Sessions -> {"absent", "present"}]
        /\ workerStarted' \in SUBSET Sessions
    <3>1. /\ [worker EXCEPT ![s] = "up"] \in [Sessions -> {"none", "up", "gone"}]
          /\ [store EXCEPT ![s] = "present"] \in [Sessions -> {"absent", "present"}]
          /\ workerStarted \cup {s} \in SUBSET Sessions
      BY DEF TypeOK
    <3>2. worker' = worker \/ worker' = [worker EXCEPT ![s] = "up"]
      BY <1>5 DEF EnsureWorker
    <3>3. store' = store \/ store' = [store EXCEPT ![s] = "present"]
      BY <1>5 DEF EnsureWorker
    <3>4. workerStarted' = workerStarted \/ workerStarted' = workerStarted \cup {s}
      BY <1>5 DEF EnsureWorker
    <3>5. worker' \in [Sessions -> {"none", "up", "gone"}]
      BY <3>1, <3>2 DEF TypeOK
    <3>6. store' \in [Sessions -> {"absent", "present"}]
      BY <3>1, <3>3 DEF TypeOK
    <3>7. workerStarted' \in SUBSET Sessions
      BY <3>1, <3>4 DEF TypeOK
    <3> QED
      BY <3>5, <3>6, <3>7
  <2>2. /\ pc' = [pc EXCEPT ![t] = "flush"] /\ lastUsed' = [lastUsed EXCEPT ![s] = now]
        /\ UNCHANGED <<lock, works, current, batch>>
    BY <1>5 DEF EnsureWorker, Return, Touch
  <2> QED
    BY <1>0, <1>5, <2>1, <2>2 DEF TypeOK, EnsureWorker
<1> QED
  BY <1>1, <1>2, <1>3, <1>4, <1>5 DEF Access

LEMMA TypeStep ==
  ASSUME TypeOK, Next
  PROVE  TypeOK'
<1>1. CASE Tick
  BY <1>1 DEF TypeOK, Tick, sessionVars, ioVars, threadVars
<1>2. CASE \E s \in Sessions : WorkerDies(s)
  BY <1>2 DEF TypeOK, WorkerDies, sessionVars, ioVars, threadVars
<1>3. ASSUME NEW t \in Threads, Reap(t) \/ Shutdown(t)
      PROVE  TypeOK'
  <2>1. Open \in SUBSET Sessions /\ Reapable \in SUBSET Sessions
    BY DEF Open, Reapable
  <2>2. CASE Reap(t)
    BY <2>1, <2>2, DetachTypes DEF TypeOK, Reap, ioVars
  <2>3. CASE Shutdown(t)
    BY <2>1, <2>3, DetachTypes DEF TypeOK, Shutdown, EvictLocked, ioVars
  <2> QED
    BY <1>3, <2>2, <2>3
<1>4. ASSUME NEW t \in Threads, Kill(t)
      PROVE  TypeOK'
  <2>1. PICK s \in works[t] :
          /\ works' = [works EXCEPT ![t] = @ \ {s}]
          /\ current' = [current EXCEPT ![t] = {s}]
          /\ \/ worker' = [worker EXCEPT ![s] =
                             IF s \in workerStarted /\ @ = "up" THEN "gone" ELSE @]
             \/ worker' = worker
          /\ killFailed' \in {killFailed, killFailed \cup {s}}
    BY <1>4 DEF Kill
  <2>2. s \in Sessions
    BY <2>1 DEF TypeOK
  <2>3. works' \in [Threads -> SUBSET Sessions] /\ current' \in [Threads -> SUBSET Sessions]
    BY <2>1, <2>2 DEF TypeOK
  <2>4. worker' \in [Sessions -> {"none", "up", "gone"}]
    BY <2>1, <2>2 DEF TypeOK
  <2>5. killFailed' \in SUBSET Sessions
    BY <2>1, <2>2 DEF TypeOK
  <2> QED
    BY <1>4, <2>3, <2>4, <2>5 DEF TypeOK, Kill, sessionVars
<1>5. ASSUME NEW t \in Threads, Wipe(t)
      PROVE  TypeOK'
  <2>1. /\ store' \in [Sessions -> {"absent", "present"}]
        /\ wiped' \in [Sessions -> {"no", "yes", "failed"}]
    <3>1. PICK s \in current[t] :
            /\ store' = store \/ store' = [store EXCEPT ![s] = "absent"]
            /\ wiped' = [wiped EXCEPT ![s] = "yes"] \/ wiped' = [wiped EXCEPT ![s] = "failed"]
      BY <1>5 DEF Wipe
    <3>2. store' \in [Sessions -> {"absent", "present"}]
      BY <3>1 DEF TypeOK
    <3>3. wiped' \in [Sessions -> {"no", "yes", "failed"}]
      BY <3>1 DEF TypeOK
    <3> QED
      BY <3>2, <3>3
  <2>2. current' \in [Threads -> SUBSET Sessions] /\ lock' \in Threads \cup {NoThread}
    BY <1>5 DEF TypeOK, Wipe
  <2> QED
    BY <1>5, <2>1, <2>2 DEF TypeOK, Wipe, sessionVars
<1>6. ASSUME NEW t \in Threads, Flush(t)
      PROVE  TypeOK'
  BY <1>6 DEF TypeOK, Flush, sessionVars, ioVars
<1>7. ASSUME NEW t \in Threads, Notify(t)
      PROVE  TypeOK'
  <2>1. PICK s \in Sessions : /\ batch[t][s] > 0
                              /\ batch' = [batch EXCEPT ![t][s] = @ - 1]
                              /\ notified' = [notified EXCEPT ![s] = @ + 1]
    BY <1>7 DEF Notify
  <2>2. batch' \in [Threads -> [Sessions -> Nat]]
    <3>1. batch[t][s] - 1 \in Nat
      BY <2>1 DEF TypeOK
    <3>2. [batch[t] EXCEPT ![s] = batch[t][s] - 1] \in [Sessions -> Nat]
      BY <3>1 DEF TypeOK
    <3> QED
      BY <2>1, <3>2 DEF TypeOK
  <2> QED
    BY <1>7, <2>1, <2>2 DEF TypeOK, Notify, sessionVars, ioVars
<1>8. ASSUME NEW t \in Threads, NEW p \in Principals, NEW s \in Sessions, Create(t, s, p)
      PROVE  TypeOK'
  BY <1>8 DEF TypeOK, Create, Touch, ioVars
<1>9. ASSUME NEW t \in Threads, NEW p \in Principals, NEW s \in Sessions,
             BeginCall(t, s, p) \/ EndCall(t, s, p)
      PROVE  TypeOK'
  <2>1. inFlight' \in [Sessions -> Nat] /\ lastUsed' \in [Sessions -> Nat]
    BY <1>9 DEF TypeOK, BeginCall, EndCall, Touch
  <2> QED
    BY <1>9, <2>1 DEF TypeOK, BeginCall, EndCall, ioVars, threadVars
<1> QED
  BY <1>1, <1>2, <1>3, <1>4, <1>5, <1>6, <1>7, <1>8, <1>9, AccessTypes DEF Next, EvictionStep

LEMMA QuietStep ==
  ASSUME IInv, TypeOK', Quiet
  PROVE  IInv'
<1> USE DEF IInv, TypeOK, Quiet
<1>1. WorkMatchesPc'
  BY DEF WorkMatchesPc
<1>2. OneEvictor' /\ BeforeEviction' /\ NoOrphanWorker' /\ WipedAfterKill'
  BY DEF OneEvictor, BeforeEviction, NoOrphanWorker, WipedAfterKill
<1>3. NoStoreLeft' /\ NotifiedOnce'
  BY DEF NoStoreLeft, BeingEvicted, NotifiedOnce
<1> QED
  BY <1>1, <1>2, <1>3

LEMMA StartEvictionStep ==
  ASSUME IInv, TypeOK', NEW t \in Threads, NEW D \in SUBSET Sessions, StartEviction(t, D)
  PROVE  IInv'
<1> USE DEF IInv, TypeOK
<1>0. /\ works[t] = {} /\ current[t] = {}
      /\ \A s \in D : status[s] = "open"
      /\ \A s \in Sessions : s \in D => status'[s] = "evicted"
      /\ \A s \in Sessions : s \notin D => status'[s] = status[s]
      /\ works'[t] = D /\ \A u \in Threads \ {t} : works'[u] = works[u]
      /\ \A u \in Threads \ {t} : pc'[u] = pc[u]
      /\ pc'[t] \in {"flush", "kill"}
      /\ pc'[t] = "flush" => D = {}
  BY DEF StartEviction, WorkMatchesPc, Detach, Open
<1>1. WorkMatchesPc'
  BY <1>0 DEF WorkMatchesPc, StartEviction
<1>2. OneEvictor'
  <2>1. \A u \in Threads, s \in Sessions :
          s \in works'[u] \/ s \in current'[u] =>
            \/ u = t /\ s \in D
            \/ u # t /\ s \notin D /\ (s \in works[u] \/ s \in current[u])
    BY <1>0 DEF OneEvictor, StartEviction
  <2>2. \A s \in D : wiped[s] = "no"
    BY <1>0 DEF BeforeEviction
  <2>3. \A u \in Threads, s \in Sessions :
          s \in works'[u] \/ s \in current'[u] => status'[s] = "evicted" /\ wiped'[s] = "no"
    BY <1>0, <2>1, <2>2 DEF OneEvictor, StartEviction
  <2>4. \A u, v \in Threads, s \in Sessions :
          (s \in works'[u] \/ s \in current'[u]) /\ (s \in works'[v] \/ s \in current'[v]) => u = v
    BY <2>1 DEF OneEvictor
  <2>5. \A u \in Threads, s \in Sessions : s \in current'[u] =>
          s \notin works'[u] /\ (worker'[s] = "up" => s \in killFailed')
    BY <1>0 DEF OneEvictor, StartEviction
  <2> QED
    BY <2>3, <2>4, <2>5 DEF OneEvictor
<1>3. BeforeEviction'
  BY <1>0 DEF BeforeEviction, StartEviction
<1>4. NoOrphanWorker'
  <2> SUFFICES ASSUME NEW s \in Sessions, worker'[s] = "up"
               PROVE  \/ status'[s] = "open" /\ s \in workerStarted'
                      \/ \E u \in Threads : s \in works'[u]
                      \/ s \in killFailed'
    BY DEF NoOrphanWorker
  <2>1. worker[s] = "up"
    BY DEF StartEviction
  <2>2. CASE s \in D
    BY <1>0, <2>2
  <2>3. CASE s \notin D
    BY <1>0, <2>1, <2>3 DEF NoOrphanWorker, StartEviction
  <2> QED
    BY <2>2, <2>3
<1>5. WipedAfterKill'
  BY DEF WipedAfterKill, StartEviction
<1>6. NoStoreLeft'
  <2> SUFFICES ASSUME NEW s \in Sessions, status'[s] = "evicted", ~BeingEvicted(s)'
               PROVE  store'[s] = "absent" \/ wiped'[s] = "failed"
    BY DEF NoStoreLeft
  <2>1. s \notin D
    BY <1>0 DEF BeingEvicted
  <2>2. ~BeingEvicted(s)
    BY <1>0 DEF BeingEvicted, StartEviction
  <2> QED
    BY <1>0, <2>1, <2>2 DEF NoStoreLeft, StartEviction
<1>7. NotifiedOnce'
  <2> SUFFICES ASSUME NEW s \in Sessions
               PROVE  NotifiedOnce!(s)'
    BY DEF NotifiedOnce
  <2>1. CASE s \notin D
    <3>1. status'[s] = status[s] /\ pending'[s] = pending[s]
      BY <2>1 DEF StartEviction, Detach
    <3> QED
      BY <3>1 DEF NotifiedOnce, StartEviction
  <2>2. CASE s \in D
    <3>1. status'[s] = "evicted" /\ pending'[s] = pending[s] + 1 /\ status[s] = "open"
      BY <1>0, <2>2 DEF StartEviction, Detach
    <3>2. pending[s] = 0 /\ notified[s] = 0 /\ \A u \in Threads : batch[u][s] = 0
      BY <3>1 DEF NotifiedOnce, BeforeEviction
    <3> QED
      BY <3>1, <3>2 DEF StartEviction
  <2> QED
    BY <2>1, <2>2
<1> QED
  BY <1>1, <1>2, <1>3, <1>4, <1>5, <1>6, <1>7

(* create mints a fresh id, which has nothing yet. *)
LEMMA CreateStep ==
  ASSUME IInv, TypeOK', NEW t \in Threads, NEW p \in Principals, NEW s \in Sessions,
         Create(t, s, p)
  PROVE  IInv'
<1> USE DEF IInv, TypeOK
<1>0. /\ status[s] = "unused" /\ status'[s] = "open"
      /\ \A r \in Sessions : r # s => status'[r] = status[r]
      /\ UNCHANGED <<workerStarted, pending, worker, store, killFailed, wiped, pc, works, current,
                     batch, notified>>
  BY DEF Create, ioVars
<1>1. WorkMatchesPc' /\ OneEvictor' /\ WipedAfterKill'
  BY <1>0 DEF WorkMatchesPc, OneEvictor, WipedAfterKill
<1>2. BeforeEviction' /\ NoOrphanWorker'
  BY <1>0 DEF BeforeEviction, NoOrphanWorker
<1>3. NoStoreLeft' /\ NotifiedOnce'
  BY <1>0 DEF NoStoreLeft, BeingEvicted, NotifiedOnce
<1> QED
  BY <1>1, <1>2, <1>3

(* ensure_worker spawns only for a session that is in the table. *)
LEMMA EnsureWorkerStep ==
  ASSUME IInv, TypeOK', NEW t \in Threads, NEW p \in Principals, NEW s \in Sessions,
         EnsureWorker(t, s, p)
  PROVE  IInv'
<1> USE DEF IInv, TypeOK
<1>0. /\ status[s] = "open"
      /\ UNCHANGED <<status, pending, killFailed, wiped, works, current, batch, notified>>
      /\ pc' = [pc EXCEPT ![t] = "flush"] /\ pc[t] = "idle"
      /\ \A r \in Sessions : r # s => worker'[r] = worker[r] /\ store'[r] = store[r]
      /\ workerStarted \subseteq workerStarted'
      /\ worker'[s] = worker[s] \/ s \in workerStarted'
  BY DEF EnsureWorker, Live, Denied, Return, Enter
<1>1. WorkMatchesPc'
  BY <1>0 DEF WorkMatchesPc
<1>2. OneEvictor' /\ WipedAfterKill'
  BY <1>0 DEF OneEvictor, WipedAfterKill, BeforeEviction
<1>3. BeforeEviction' /\ NoOrphanWorker'
  BY <1>0 DEF BeforeEviction, NoOrphanWorker
<1>4. NoStoreLeft' /\ NotifiedOnce'
  BY <1>0 DEF NoStoreLeft, BeingEvicted, NotifiedOnce
<1> QED
  BY <1>1, <1>2, <1>3, <1>4

LEMMA WorkerDiesStep ==
  ASSUME IInv, TypeOK', NEW s \in Sessions, WorkerDies(s)
  PROVE  IInv'
<1> USE DEF IInv, TypeOK
<1>0. /\ worker[s] = "up" /\ worker'[s] = "gone"
      /\ \A r \in Sessions : r # s => worker'[r] = worker[r]
      /\ UNCHANGED <<status, workerStarted, pending, store, killFailed, wiped, pc, works, current,
                     batch, notified>>
  BY DEF WorkerDies, sessionVars, threadVars
<1>1. WorkMatchesPc' /\ OneEvictor' /\ WipedAfterKill'
  BY <1>0 DEF WorkMatchesPc, OneEvictor, WipedAfterKill
<1>a. BeforeEviction'
  <2>1. status[s] # "unused"
    BY <1>0 DEF BeforeEviction
  <2> QED
    BY <1>0, <2>1 DEF BeforeEviction
<1>b. NoOrphanWorker'
  <2>1. \A r \in Sessions : worker'[r] = "up" => worker[r] = "up"
    BY <1>0
  <2> QED
    BY <1>0, <2>1 DEF NoOrphanWorker
<1>2. BeforeEviction' /\ NoOrphanWorker'
  BY <1>a, <1>b
<1>3. NoStoreLeft' /\ NotifiedOnce'
  BY <1>0 DEF NoStoreLeft, BeingEvicted, NotifiedOnce
<1> QED
  BY <1>1, <1>2, <1>3

LEMMA KillStep ==
  ASSUME IInv, TypeOK', NEW t \in Threads, Kill(t)
  PROVE  IInv'
<1> USE DEF IInv, TypeOK
<1>0. PICK s \in works[t] :
        /\ works' = [works EXCEPT ![t] = @ \ {s}]
        /\ current' = [current EXCEPT ![t] = {s}]
        /\ \/ /\ worker' = [worker EXCEPT ![s] =
                              IF s \in workerStarted /\ @ = "up" THEN "gone" ELSE @]
              /\ UNCHANGED killFailed
           \/ /\ s \in workerStarted /\ worker[s] = "up"
              /\ killFailed' = killFailed \cup {s}
              /\ UNCHANGED worker
  BY DEF Kill
<1>1. /\ s \in Sessions /\ pc[t] = "kill" /\ current[t] = {}
      /\ works'[t] = works[t] \ {s} /\ current'[t] = {s}
      /\ \A u \in Threads : u # t => works'[u] = works[u] /\ current'[u] = current[u]
      /\ pc' = [pc EXCEPT ![t] = "wipe"]
      /\ UNCHANGED <<status, workerStarted, pending, store, wiped, batch, notified>>
  BY <1>0 DEF Kill, WorkMatchesPc, sessionVars
<1>2. /\ \A r \in Sessions : r # s => worker'[r] = worker[r]
      /\ killFailed \subseteq killFailed'
      /\ worker'[s] = "up" => s \in killFailed'
      /\ \A r \in Sessions : worker'[r] = "up" => worker[r] = "up"
  <2>1. worker[s] = "up" => s \in workerStarted
    BY <1>1 DEF BeforeEviction
  <2> QED
    BY <1>0, <1>1, <2>1
<1>3. WorkMatchesPc'
  BY <1>1 DEF WorkMatchesPc
<1>4. OneEvictor'
  <2>1. \A u \in Threads, r \in Sessions :
          r \in works'[u] \/ r \in current'[u] => r \in works[u] \/ r \in current[u]
    BY <1>0, <1>1
  <2>2. \A u \in Threads, r \in Sessions :
          r \in works'[u] \/ r \in current'[u] => status'[r] = "evicted" /\ wiped'[r] = "no"
    BY <1>1, <2>1 DEF OneEvictor
  <2>3. \A u, v \in Threads, r \in Sessions :
          (r \in works'[u] \/ r \in current'[u]) /\ (r \in works'[v] \/ r \in current'[v]) => u = v
    BY <2>1 DEF OneEvictor
  <2>4. \A u \in Threads, r \in Sessions : r \in current'[u] =>
          r \notin works'[u] /\ (worker'[r] = "up" => r \in killFailed')
    <3>1. ASSUME NEW u \in Threads, NEW r \in Sessions, r \in current'[u], u = t
          PROVE  r \notin works'[u] /\ (worker'[r] = "up" => r \in killFailed')
      BY <1>1, <1>2, <3>1
    <3>2. ASSUME NEW u \in Threads, NEW r \in Sessions, r \in current'[u], u # t
          PROVE  r \notin works'[u] /\ (worker'[r] = "up" => r \in killFailed')
      <4>1. r \in current[u] /\ works'[u] = works[u]
        BY <1>1, <3>2
      <4>2. r \notin works[u] /\ (worker[r] = "up" => r \in killFailed)
        BY <4>1 DEF OneEvictor
      <4> QED
        BY <1>2, <4>1, <4>2
    <3> QED
      BY <3>1, <3>2
  <2> QED
    BY <2>2, <2>3, <2>4 DEF OneEvictor
<1>5. BeforeEviction'
  <2>1. status[s] = "evicted"
    BY <1>0, <1>1 DEF OneEvictor
  <2> QED
    BY <1>1, <1>2, <2>1 DEF BeforeEviction
<1>6. NoOrphanWorker'
  <2> SUFFICES ASSUME NEW r \in Sessions, worker'[r] = "up"
               PROVE  \/ status'[r] = "open" /\ r \in workerStarted'
                      \/ \E u \in Threads : r \in works'[u]
                      \/ r \in killFailed'
    BY DEF NoOrphanWorker
  <2>1. CASE r = s
    BY <1>2, <2>1
  <2>2. CASE r # s
    <3>1. \A u \in Threads : r \in works[u] => r \in works'[u]
      BY <1>1, <2>2
    <3> QED
      BY <1>1, <1>2, <3>1 DEF NoOrphanWorker
  <2> QED
    BY <2>1, <2>2
<1>7. WipedAfterKill'
  BY <1>1, <1>2 DEF WipedAfterKill
<1>8. NoStoreLeft'
  <2>1. \A r \in Sessions : BeingEvicted(r) => BeingEvicted(r)'
    BY <1>0, <1>1 DEF BeingEvicted
  <2> QED
    BY <1>1, <2>1 DEF NoStoreLeft
<1>9. NotifiedOnce'
  BY <1>1 DEF NotifiedOnce
<1> QED
  BY <1>3, <1>4, <1>5, <1>6, <1>7, <1>8, <1>9

LEMMA WipeStep ==
  ASSUME IInv, TypeOK', NEW t \in Threads, Wipe(t)
  PROVE  IInv'
<1> USE DEF IInv, TypeOK
<1>0. PICK s \in current[t] :
        \/ store' = [store EXCEPT ![s] = "absent"] /\ wiped' = [wiped EXCEPT ![s] = "yes"]
        \/ wiped' = [wiped EXCEPT ![s] = "failed"] /\ UNCHANGED store
  BY DEF Wipe
<1>1. /\ s \in Sessions /\ pc[t] = "wipe"
      /\ current'[t] = {} /\ current[t] = {s}
      /\ \A u \in Threads : u # t => current'[u] = current[u] /\ pc'[u] = pc[u]
      /\ pc'[t] \in {"flush", "kill"} /\ (pc'[t] = "flush" => works[t] = {})
      /\ UNCHANGED <<status, workerStarted, pending, worker, killFailed, works, batch, notified>>
  BY <1>0 DEF Wipe, WorkMatchesPc, sessionVars
<1>2. /\ \A r \in Sessions : r # s => store'[r] = store[r] /\ wiped'[r] = wiped[r]
      /\ (store'[s] = "absent" /\ wiped'[s] = "yes") \/ wiped'[s] = "failed"
  BY <1>0, <1>1
<1>3. /\ status[s] = "evicted"
      /\ \A u \in Threads : s \notin works[u] /\ (s \in current[u] => u = t)
      /\ worker[s] = "up" => s \in killFailed
  BY <1>0, <1>1 DEF OneEvictor
<1>4. WorkMatchesPc'
  BY <1>1 DEF WorkMatchesPc
<1>5. OneEvictor'
  <2>1. \A u \in Threads, r \in Sessions : r \in current'[u] => r \in current[u] /\ r # s
    <3>1. ASSUME NEW u \in Threads, NEW r \in Sessions, r \in current'[u]
          PROVE  r \in current[u] /\ r # s
      <4>1. u # t
        BY <1>1, <3>1
      <4> QED
        BY <1>1, <1>3, <3>1, <4>1
    <3> QED
      BY <3>1
  <2>2. \A u \in Threads, r \in Sessions : r \in works'[u] => r \in works[u] /\ r # s
    BY <1>1, <1>3
  <2> QED
    BY <1>1, <1>2, <2>1, <2>2 DEF OneEvictor
<1>6. BeforeEviction' /\ NoOrphanWorker'
  BY <1>1, <1>2, <1>3 DEF BeforeEviction, NoOrphanWorker
<1>7. WipedAfterKill'
  <2> SUFFICES ASSUME NEW r \in Sessions, wiped'[r] # "no"
               PROVE  /\ worker'[r] = "up" => r \in killFailed'
                      /\ wiped'[r] = "yes" => store'[r] = "absent"
    BY DEF WipedAfterKill
  <2>1. CASE r = s
    BY <1>1, <1>2, <1>3, <2>1
  <2>2. CASE r # s
    BY <1>1, <1>2, <2>2 DEF WipedAfterKill
  <2> QED
    BY <2>1, <2>2
<1>8. NoStoreLeft'
  <2>1. \A r \in Sessions : r # s /\ BeingEvicted(r) => BeingEvicted(r)'
    BY <1>1 DEF BeingEvicted
  <2> QED
    BY <1>1, <1>2, <2>1 DEF NoStoreLeft
<1>9. NotifiedOnce'
  BY <1>1 DEF NotifiedOnce
<1> QED
  BY <1>4, <1>5, <1>6, <1>7, <1>8, <1>9

LEMMA FlushStep ==
  ASSUME IInv, TypeOK', NEW t \in Threads, Flush(t)
  PROVE  IInv'
<1> USE DEF IInv, TypeOK
<1>1. /\ pc[t] = "flush" /\ pc'[t] \in {"idle", "notify"}
      /\ \A u \in Threads : u # t => pc'[u] = pc[u] /\ batch'[u] = batch[u]
      /\ \A s \in Sessions : batch'[t][s] = pending[s] /\ pending'[s] = 0 /\ batch[t][s] = 0
      /\ pc'[t] = "idle" => \A s \in Sessions : pending[s] = 0
      /\ UNCHANGED <<status, workerStarted, worker, store, killFailed, wiped, works, current,
                     notified>>
  BY DEF Flush, WorkMatchesPc, sessionVars, ioVars
<1>2. WorkMatchesPc'
  <2> SUFFICES ASSUME NEW u \in Threads
               PROVE  WorkMatchesPc!(u)'
    BY DEF WorkMatchesPc
  <2>1. CASE u = t
    <3>1. works[t] = {} /\ current[t] = {}
      BY <1>1 DEF WorkMatchesPc
    <3>2. pc'[t] # "notify" => \A s \in Sessions : batch'[t][s] = 0
      BY <1>1
    <3> QED
      BY <1>1, <2>1, <3>1, <3>2
  <2>2. CASE u # t
    BY <1>1, <2>2 DEF WorkMatchesPc
  <2> QED
    BY <2>1, <2>2
<1>3. OneEvictor' /\ NoOrphanWorker' /\ WipedAfterKill'
  BY <1>1 DEF OneEvictor, NoOrphanWorker, WipedAfterKill
<1>4. BeforeEviction'
  <2>1. \A s \in Sessions, u \in Threads : status[s] # "evicted" => batch'[u][s] = 0
    BY <1>1 DEF BeforeEviction, NotifiedOnce
  <2> QED
    BY <1>1, <2>1 DEF BeforeEviction
<1>5. NoStoreLeft'
  BY <1>1 DEF NoStoreLeft, BeingEvicted
<1>6. NotifiedOnce'
  <2> SUFFICES ASSUME NEW s \in Sessions
               PROVE  NotifiedOnce!(s)'
    BY DEF NotifiedOnce
  <2>1. CASE status[s] # "evicted"
    BY <1>1, <2>1 DEF NotifiedOnce
  <2>2. CASE status[s] = "evicted" /\ pending[s] = 1
    BY <1>1, <2>2 DEF NotifiedOnce
  <2>3. CASE status[s] = "evicted" /\ pending[s] = 0 /\ notified[s] = 1
    <3>1. \A u \in Threads : batch[u][s] = 0
      BY <2>3 DEF NotifiedOnce
    <3>2. \A u \in Threads : batch'[u][s] = 0
      BY <1>1, <2>3, <3>1
    <3> QED
      BY <1>1, <2>3, <3>2
  <2>4. CASE status[s] = "evicted" /\ pending[s] = 0 /\ notified[s] = 0
    <3>1. PICK u \in Threads : batch[u][s] = 1 /\ \A v \in Threads \ {u} : batch[v][s] = 0
      BY <2>4 DEF NotifiedOnce
    <3>2. u # t
      BY <1>1, <3>1
    <3>3. batch'[u][s] = 1 /\ \A v \in Threads \ {u} : batch'[v][s] = 0
      <4>1. batch'[t][s] = 0
        BY <1>1, <2>4
      <4>2. \A v \in Threads : v # t => batch'[v] = batch[v]
        BY ONLY <1>1
      <4>3. batch'[u][s] = 1
        BY <3>1, <3>2, <4>2
      <4>4. ASSUME NEW v \in Threads \ {u} PROVE batch'[v][s] = 0
        <5>1. CASE v = t
          BY ONLY <4>1, <5>1
        <5>2. CASE v # t
          BY ONLY <3>1, <4>2, <5>2
        <5> QED
          BY ONLY <5>1, <5>2
      <4> QED
        BY ONLY <4>3, <4>4
    <3> QED
      BY <1>1, <2>4, <3>3
  <2> QED
    BY <2>1, <2>2, <2>3, <2>4 DEF NotifiedOnce
<1> QED
  BY <1>2, <1>3, <1>4, <1>5, <1>6

LEMMA NotifyStep ==
  ASSUME IInv, TypeOK', NEW t \in Threads, Notify(t)
  PROVE  IInv'
<1> USE DEF IInv, TypeOK
<1>0. PICK s \in Sessions : /\ batch[t][s] > 0
                            /\ batch' = [batch EXCEPT ![t][s] = @ - 1]
                            /\ notified' = [notified EXCEPT ![s] = @ + 1]
  BY DEF Notify
<1>1. /\ pc[t] = "notify" /\ pc'[t] \in {"idle", "notify"}
      /\ \A u \in Threads : u # t => pc'[u] = pc[u] /\ batch'[u] = batch[u]
      /\ \A r \in Sessions : r # s => batch'[t][r] = batch[t][r] /\ notified'[r] = notified[r]
      /\ batch'[t][s] = batch[t][s] - 1 /\ notified'[s] = notified[s] + 1
      /\ pc'[t] = "idle" => \A r \in Sessions : batch'[t][r] = 0
      /\ UNCHANGED <<status, workerStarted, pending, worker, store, killFailed, wiped, works,
                     current>>
  BY <1>0 DEF Notify, sessionVars, ioVars
<1>2. /\ status[s] = "evicted" /\ batch[t][s] = 1 /\ pending[s] = 0 /\ notified[s] = 0
      /\ \A u \in Threads : u # t => batch[u][s] = 0
  BY <1>0 DEF BeforeEviction, NotifiedOnce
<1>3. WorkMatchesPc'
  BY <1>1 DEF WorkMatchesPc
<1>4. OneEvictor' /\ NoOrphanWorker' /\ WipedAfterKill'
  BY <1>1 DEF OneEvictor, NoOrphanWorker, WipedAfterKill
<1>5. BeforeEviction'
  <2>1. \A r \in Sessions, u \in Threads : r # s => batch'[u][r] = batch[u][r]
    BY <1>1
  <2>2. ASSUME NEW r \in Sessions, NEW u \in Threads, status[r] # "evicted"
        PROVE  batch'[u][r] = 0
    <3>1. r # s
      BY <1>2, <2>2
    <3>2. batch[u][r] = 0
      BY <2>2 DEF BeforeEviction
    <3> QED
      BY <2>1, <3>1, <3>2
  <2> QED
    BY <1>1, <2>2 DEF BeforeEviction
<1>6. NoStoreLeft'
  BY <1>1 DEF NoStoreLeft, BeingEvicted
<1>7. NotifiedOnce'
  <2> SUFFICES ASSUME NEW r \in Sessions
               PROVE  NotifiedOnce!(r)'
    BY DEF NotifiedOnce
  <2>1. CASE r = s
    <3>1. \A u \in Threads : batch'[u][s] = 0
      BY <1>1, <1>2
    <3> QED
      BY <1>1, <1>2, <2>1, <3>1
  <2>2. CASE r # s
    <3>1. \A u \in Threads : batch'[u][r] = batch[u][r]
      BY <1>1, <2>2
    <3> QED
      BY <1>1, <2>2, <3>1 DEF NotifiedOnce
  <2> QED
    BY <2>1, <2>2
<1> QED
  BY <1>3, <1>4, <1>5, <1>6, <1>7

LEMMA InitInvariant == Init => IInv
<1> SUFFICES ASSUME Init PROVE IInv
  OBVIOUS
<1>1. TypeOK
  BY DEF Init, TypeOK
<1>2. WorkMatchesPc /\ OneEvictor /\ BeforeEviction
  BY DEF Init, WorkMatchesPc, OneEvictor, BeforeEviction
<1>3. NoOrphanWorker /\ WipedAfterKill /\ NoStoreLeft /\ NotifiedOnce
  BY DEF Init, NoOrphanWorker, WipedAfterKill, NoStoreLeft, NotifiedOnce
<1> QED
  BY <1>1, <1>2, <1>3 DEF IInv

LEMMA AccessStep ==
  ASSUME IInv, TypeOK', NEW t \in Threads, NEW p \in Principals, NEW s \in Sessions,
         Access(t, s, p)
  PROVE  IInv'
<1>1. CASE Refuse(t, s, p) \/ Authorize(t, s, p)
  <2>1. Quiet
    BY <1>1 DEF Quiet, Refuse, Authorize, Enter, Return, sessionVars, ioVars, IInv, TypeOK
  <2> QED
    BY <2>1, QuietStep
<1>2. CASE ExpireOnAccess(t, s, p) \/ Evict(t, s, p)
  <2>1. StartEviction(t, {s})
    BY <1>2 DEF StartEviction, ExpireOnAccess, Evict, EvictLocked, EvictionWork, Enter, Live,
       Denied, Open, ioVars
  <2>2. {s} \in SUBSET Sessions
    OBVIOUS
  <2> QED
    BY <2>1, <2>2, StartEvictionStep
<1>3. CASE EnsureWorker(t, s, p)
  BY <1>3, EnsureWorkerStep
<1> QED
  BY <1>1, <1>2, <1>3 DEF Access

LEMMA InvariantStep == IInv /\ [Next]_vars => IInv'
<1> SUFFICES ASSUME IInv, [Next]_vars PROVE IInv'
  OBVIOUS
<1>1. CASE UNCHANGED vars
  <2>1. TypeOK'
    BY <1>1 DEF IInv, TypeOK, vars, sessionVars, ioVars, threadVars
  <2>2. Quiet
    BY <1>1 DEF Quiet, vars, sessionVars, ioVars, threadVars
  <2> QED
    BY <2>1, <2>2, QuietStep
<1>2. CASE Next
  <2>0. TypeOK'
    BY <1>2, TypeStep DEF IInv
  <2>1. CASE Tick
    <3>1. Quiet
      BY <2>1 DEF Quiet, Tick, sessionVars, ioVars, threadVars
    <3> QED
      BY <2>0, <3>1, QuietStep
  <2>2. CASE \E s \in Sessions : WorkerDies(s)
    BY <2>0, <2>2, WorkerDiesStep
  <2>3. ASSUME NEW t \in Threads, Reap(t) \/ Shutdown(t)
        PROVE  IInv'
    <3>1. Open \in SUBSET Sessions /\ Reapable \in SUBSET Sessions /\ Reapable \subseteq Open
      BY DEF Open, Reapable
    <3>2. StartEviction(t, Reapable) \/ StartEviction(t, Open)
      BY <2>3, <3>1 DEF StartEviction, Reap, Shutdown, EvictLocked, EvictionWork, Enter, ioVars
    <3> QED
      BY <2>0, <3>1, <3>2, StartEvictionStep
  <2>4. ASSUME NEW t \in Threads, EvictionStep(t)
        PROVE  IInv'
    BY <2>0, <2>4, KillStep, WipeStep, FlushStep, NotifyStep DEF EvictionStep
  <2>5. ASSUME NEW t \in Threads, NEW p \in Principals, NEW s \in Sessions,
               BeginCall(t, s, p) \/ EndCall(t, s, p)
        PROVE  IInv'
    <3>1. Quiet
      BY <2>5 DEF Quiet, BeginCall, EndCall, ioVars, threadVars
    <3> QED
      BY <2>0, <3>1, QuietStep
  <2> QED
    BY <1>2, <2>0, <2>1, <2>2, <2>3, <2>4, <2>5, CreateStep, AccessStep DEF Next
<1> QED
  BY <1>1, <1>2

THEOREM InvariantHolds == Spec => []IInv
  BY InitInvariant, InvariantStep, PTL DEF Spec

(* The table, the queue and the threads stay well typed. *)
THEOREM TypeCorrect == Spec => []TypeOK
<1>1. IInv => TypeOK
  BY DEF IInv
<1> QED
  BY <1>1, InvariantHolds, PTL

(* A running worker has a session or an eviction, unless its kill failed. *)
THEOREM NoOrphanWorkerHolds == Spec => []NoOrphanWorker
<1>1. IInv => NoOrphanWorker
  BY DEF IInv
<1> QED
  BY <1>1, InvariantHolds, PTL

(* The kill precedes the wipe on every eviction path. *)
THEOREM WipedAfterKillHolds == Spec => []WipedAfterKill
<1>1. IInv => WipedAfterKill
  BY DEF IInv
<1> QED
  BY <1>1, InvariantHolds, PTL

(* An eviction that is over left no store, or logged that it did. *)
THEOREM NoStoreLeftHolds == Spec => []NoStoreLeft
<1>1. IInv => NoStoreLeft
  BY DEF IInv
<1> QED
  BY <1>1, InvariantHolds, PTL

(* An evicted session's store is wiped after the kill and not forgotten,   *)
(* for any number of threads evicting and whatever step of it fails.       *)
THEOREM StoreWipedHolds == Spec => []StoreWiped
<1>1. WipedAfterKill /\ NoStoreLeft => StoreWiped
  BY DEF StoreWiped
<1> QED
  BY <1>1, WipedAfterKillHolds, NoStoreLeftHolds, PTL

(* on_evict runs at most once, and never before its session is detached. *)
THEOREM NotifiedOnceHolds == Spec => []NotifiedOnce
<1>1. IInv => NotifiedOnce
  BY DEF IInv
<1> QED
  BY <1>1, InvariantHolds, PTL

-----------------------------------------------------------------------------
(* Only create adds to the table, and never to an owner's share unseen. *)
LEMMA TableGrowth ==
  ASSUME TypeOK, [Next]_vars
  PROVE  \/ \E t \in Threads, s \in Sessions, p \in Principals : Create(t, s, p)
         \/ Open' \subseteq Open /\ owner' = owner
<1>1. ASSUME NEW D \in SUBSET Sessions, Detach(D)
      PROVE  Open' \subseteq Open
  BY <1>1 DEF Detach, Open, TypeOK
<1>2. ASSUME NEW t \in Threads, Reap(t) \/ Shutdown(t)
      PROVE  Open' \subseteq Open /\ owner' = owner
  <2>1. Open \in SUBSET Sessions /\ Reapable \in SUBSET Sessions
    BY DEF Open, Reapable
  <2> QED
    BY <1>1, <1>2, <2>1 DEF Reap, Shutdown, EvictLocked
<1>3. ASSUME NEW t \in Threads, NEW s \in Sessions, NEW p \in Principals, Access(t, s, p)
      PROVE  Open' \subseteq Open /\ owner' = owner
  <2>1. {s} \in SUBSET Sessions
    OBVIOUS
  <2>2. CASE ExpireOnAccess(t, s, p) \/ Evict(t, s, p)
    BY <1>1, <2>1, <2>2 DEF ExpireOnAccess, Evict, EvictLocked
  <2>3. CASE Refuse(t, s, p) \/ Authorize(t, s, p) \/ EnsureWorker(t, s, p)
    BY <2>3 DEF Refuse, Authorize, EnsureWorker, sessionVars, Open
  <2> QED
    BY <1>3, <2>2, <2>3 DEF Access
<1>4. ASSUME status' = status
      PROVE  Open' \subseteq Open
  BY <1>4 DEF Open
<1>5. ASSUME NEW t \in Threads, EvictionStep(t)
      PROVE  Open' \subseteq Open /\ owner' = owner
  BY <1>4, <1>5 DEF EvictionStep, Kill, Wipe, Flush, Notify, sessionVars
<1>6. ASSUME NEW t \in Threads, NEW s \in Sessions, NEW p \in Principals,
             BeginCall(t, s, p) \/ EndCall(t, s, p)
      PROVE  Open' \subseteq Open /\ owner' = owner
  BY <1>4, <1>6 DEF BeginCall, EndCall
<1>7. ASSUME Tick \/ (\E s \in Sessions : WorkerDies(s)) \/ UNCHANGED vars
      PROVE  Open' \subseteq Open /\ owner' = owner
  BY <1>4, <1>7 DEF Tick, WorkerDies, vars, sessionVars
<1> QED
  BY <1>2, <1>3, <1>5, <1>6, <1>7 DEF Next

LEMMA CapsStep ==
  ASSUME TypeOK, WithinCaps, [Next]_vars
  PROVE  WithinCaps'
<1>0. /\ IsFiniteSet(Open) /\ Cardinality(Open) \in Nat
      /\ \A p \in Principals : IsFiniteSet(Owned(p)) /\ Cardinality(Owned(p)) \in Nat
  <2>1. Open \subseteq Sessions /\ \A p \in Principals : Owned(p) \subseteq Sessions
    BY DEF Open, Owned
  <2> QED
    BY <2>1, SessionsFinite, FS_Subset, FS_CardinalityType
<1>1. ASSUME NEW t \in Threads, NEW s \in Sessions, NEW p \in Principals, Create(t, s, p)
      PROVE  WithinCaps'
  <2>1. /\ status[s] = "unused" /\ status' = [status EXCEPT ![s] = "open"]
        /\ owner' = [owner EXCEPT ![s] = p] /\ HasRoom(p)
    BY <1>1 DEF Create
  <2>2. Open' = Open \cup {s} /\ s \notin Open
    BY <2>1 DEF Open, TypeOK
  <2>3. Cardinality(Open') <= MaxSessions
    <3>1. Cardinality(Open') = Cardinality(Open) + 1
      BY <1>0, <2>2, FS_AddElement
    <3> QED
      BY <1>0, <2>1, <3>1, SessionLimits DEF HasRoom
  <2>4. ASSUME NEW q \in Principals
        PROVE  Cardinality(Owned(q)') <= MaxPerOwner
    <3>1. CASE q = p
      <4>1. Owned(q)' = Owned(p) \cup {s} /\ s \notin Owned(p)
        BY <2>1, <2>2, <3>1 DEF Owned, TypeOK
      <4>2. Cardinality(Owned(q)') = Cardinality(Owned(p)) + 1
        BY <1>0, <4>1, FS_AddElement
      <4> QED
        BY <1>0, <2>1, <4>2, SessionLimits DEF HasRoom
    <3>2. CASE q # p
      <4>1. Owned(q)' = Owned(q)
        BY <2>1, <2>2, <3>2 DEF Owned, TypeOK
      <4> QED
        BY <4>1 DEF WithinCaps
    <3> QED
      BY <3>1, <3>2
  <2> QED
    BY <2>3, <2>4 DEF WithinCaps
<1>2. CASE Open' \subseteq Open /\ owner' = owner
  <2>1. Cardinality(Open') <= Cardinality(Open) /\ Cardinality(Open') \in Nat
    BY <1>0, <1>2, FS_Subset, FS_CardinalityType
  <2>2. ASSUME NEW p \in Principals
        PROVE  Cardinality(Owned(p)') <= Cardinality(Owned(p)) /\ Cardinality(Owned(p)') \in Nat
    <3>1. Owned(p)' \subseteq Owned(p)
      BY <1>2 DEF Owned
    <3> QED
      BY <1>0, <3>1, FS_Subset, FS_CardinalityType
  <2> QED
    BY <1>0, <2>1, <2>2, SessionLimits DEF WithinCaps
<1> QED
  BY <1>1, <1>2, TableGrowth

(* The global and the per-owner cap hold, whatever is created and evicted. *)
THEOREM WithinCapsHolds == Spec => []WithinCaps
<1>1. Init => WithinCaps
  <2> SUFFICES ASSUME Init PROVE WithinCaps
    OBVIOUS
  <2>1. Open = {} /\ \A p \in Principals : Owned(p) = {}
    BY DEF Init, Open, Owned
  <2> QED
    BY <2>1, FS_EmptySet, SessionLimits DEF WithinCaps
<1> QED
  BY <1>1, CapsStep, TypeCorrect, PTL DEF Spec

-----------------------------------------------------------------------------
(* The dispatcher. *)

(* What every step but create, begin_call and end_call leaves alone. *)
Steady ==
  /\ UNCHANGED <<owner, inFlight>>
  /\ workerStarted \subseteq workerStarted'
  /\ \A s \in Sessions : status'[s] = status[s] \/ (status[s] = "open" /\ status'[s] = "evicted")

(* The call in c takes a step that is not its last. *)
Move(c) ==
  /\ todo[c] # <<>> /\ Head(todo[c]) # "end"
  /\ \/ todo' = [todo EXCEPT ![c] = Tail(@)] /\ UNCHANGED failed
     \/ todo' = [todo EXCEPT ![c] = <<"end">>] /\ failed' = failed \cup {c}
  /\ onLoop' \in {onLoop, NoThread} /\ UNCHANGED call

(* A guard that lets the call in c pass has seen what it guards. *)
GuardsChecked(c) ==
  todo'[c] # <<"end">> =>
    /\ Head(todo[c]) \in {"guard", "spawn"} =>
         owner[Session(c)] = Caller(c) /\ Session(c) \in workerStarted'
    /\ Head(todo[c]) = "consent" => Consents(Session(c), "consent")
    /\ Head(todo[c]) = "structural" => Consents(Session(c), "structural")

(* Only a consent tool's own step changes a consent. *)
WritesKept(c) ==
  \/ writes' = writes
  \/ /\ Head(todo[c]) \in {"enable", "allow", "disable"}
     /\ writes' \in [Sessions -> {"off", "plain", "structural"}]

(* The manager step a call step takes, if it takes one. *)
ManagerPart(c) ==
  \/ UNCHANGED vars
  \/ \E t \in Threads : Access(t, Session(c), Caller(c))
  \/ WorkerDies(Session(c))

(* A call that has steps left ends with end_call, and no step before the   *)
(* RPC of a script is missing.                                             *)
Scripted(q, tool) ==
  /\ q \in Seq(Steps) /\ Len(q) > 0
  /\ q[Len(q)] = "end" /\ \A i \in 1 .. Len(q) - 1 : q[i] # "end"
  /\ \A i \in 1 .. Len(q) : q[i] \in {"enable", "allow", "disable"} =>
       tool \notin {"annotate", "retype", "analyze"}
  /\ \A i \in 1 .. Len(q) : q[i] = "port" =>
       /\ \E k \in 1 .. i - 1 : q[k] \in {"guard", "spawn"}
       /\ tool = "annotate" => \E k \in 1 .. i - 1 : q[k] = "consent"
       /\ tool = "retype" => \E k \in 1 .. i - 1 : q[k] = "structural"

-----------------------------------------------------------------------------
LEMMA ScriptsScripted ==
  /\ \A tool \in Tools : Scripted(Script[tool], tool)
  /\ Scripted(Offloaded, "analyze")
<1> USE DEF Scripted, Steps, ManagerSteps, LoopSteps
<1>1. Scripted(Script["status"], "status")
  BY DEF Script
<1>2. Scripted(Script["import"], "import")
  BY DEF Script
<1>3. Scripted(Script["analyze"], "analyze")
  BY DEF Script
<1>4. Scripted(Script["read"], "read")
  BY DEF Script
<1>5. Scripted(Script["annotate"], "annotate")
  BY DEF Script
<1>6. Scripted(Script["retype"], "retype")
  BY DEF Script
<1>7. Scripted(Script["enable"], "enable")
  BY DEF Script
<1>8. Scripted(Script["allow"], "allow")
  BY DEF Script
<1>9. Scripted(Script["disable"], "disable")
  BY DEF Script
<1>10. Scripted(Script["close"], "close")
  BY DEF Script
<1>11. DOMAIN Script = {"status", "import", "analyze", "read", "annotate", "retype", "enable",
                        "allow", "disable", "close"}
  BY DEF Script
<1>12. Scripted(Offloaded, "analyze")
  BY DEF Offloaded
<1> HIDE DEF Scripted, Steps, ManagerSteps, LoopSteps
<1> QED
  BY <1>1, <1>2, <1>3, <1>4, <1>5, <1>6, <1>7, <1>8, <1>9, <1>10, <1>11, <1>12, ToolsAssumption
-----------------------------------------------------------------------------
(* The steps of the manager, seen from the calls. *)
LEMMA DetachSteady ==
  ASSUME TypeOK, NEW D \in SUBSET Open, Detach(D)
  PROVE  \A s \in Sessions : status'[s] = status[s] \/ (status[s] = "open" /\ status'[s] = "evicted")
  BY DEF Detach, Open

LEMMA AccessSteady ==
  ASSUME TypeOK, NEW t \in Threads, NEW s \in Sessions, NEW p \in Principals, Access(t, s, p)
  PROVE  Steady
<1>1. CASE Refuse(t, s, p) \/ Authorize(t, s, p) \/ EnsureWorker(t, s, p)
  BY <1>1 DEF Steady, Refuse, Authorize, EnsureWorker, sessionVars
<1>2. CASE ExpireOnAccess(t, s, p) \/ Evict(t, s, p)
  <2>1. {s} \in SUBSET Open /\ Detach({s})
    BY <1>2 DEF ExpireOnAccess, Evict, EvictLocked, Live, Denied, Open
  <2> QED
    BY <1>2, <2>1, DetachSteady DEF Steady, ExpireOnAccess, Evict
<1> QED
  BY <1>1, <1>2 DEF Access

LEMMA BackgroundSteady ==
  ASSUME TypeOK, Background
  PROVE  Steady
<1>1. CASE Tick \/ \E s \in Sessions : WorkerDies(s)
  BY <1>1 DEF Steady, Tick, WorkerDies, sessionVars
<1>2. CASE Reap(Reaper)
  <2>1. Reapable \in SUBSET Open
    BY DEF Reapable
  <2> QED
    BY <1>2, <2>1, DetachSteady DEF Steady, Reap
<1>3. CASE \E t \in Threads : EvictionStep(t)
  BY <1>3 DEF Steady, EvictionStep, Kill, Wipe, Flush, Notify, sessionVars
<1> QED
  BY <1>1, <1>2, <1>3 DEF Background

LEMMA StutterSteady ==
  ASSUME UNCHANGED vars
  PROVE  Steady
BY DEF Steady, vars, sessionVars

(* A call in progress is on one of the Sessions, by one of the Principals, *)
(* and its next step is a known one.                                       *)
LEMMA CallInProgress ==
  ASSUME DispatchTypeOK, NEW c \in Slots, todo[c] # <<>>
  PROVE  /\ Session(c) \in Sessions /\ Caller(c) \in Principals /\ c \in Threads
         /\ Exec(c) \in Threads
         /\ Head(todo[c]) = todo[c][1] /\ Head(todo[c]) \in Steps
         /\ todo[c] \in Seq(Steps) /\ Len(todo[c]) > 0
<1>1. call[c] \in Calls /\ todo[c] \in Seq(Steps)
  BY DEF DispatchTypeOK
<1>2. Session(c) \in Sessions /\ Caller(c) \in Principals
  BY <1>1 DEF Session, Caller, Calls
<1>3. c \in Threads /\ Exec(c) \in Threads
  BY RolesAssumption DEF Slots, Exec
<1>4. Len(todo[c]) > 0 /\ Head(todo[c]) = todo[c][1] /\ Head(todo[c]) \in Steps
  BY <1>1
<1> QED
  BY <1>1, <1>2, <1>3, <1>4

(* Every step of a call but end_call moves it on, through a step of the    *)
(* manager, and past a guard only when that holds.                         *)
LEMMA CallStepMoves ==
  ASSUME TypeOK, DispatchTypeOK, NEW c \in Slots, CallStep(c), ~End(c)
  PROVE  Move(c) /\ ManagerPart(c) /\ GuardsChecked(c) /\ WritesKept(c)
<1>0. todo[c] # <<>>
  BY DEF CallStep, Fail, Pass, RequireWorkerStarted, RequireWriteConsent, SetWrites, Spawn, Close,
         Offload, Port, At
<1>1. /\ Exec(c) \in Threads /\ todo \in [Slots -> Seq(Steps)] /\ Session(c) \in Sessions
      /\ writes \in [Sessions -> {"off", "plain", "structural"}]
  BY <1>0, CallInProgress DEF DispatchTypeOK
<1>2. CASE Fail(c)
  BY <1>0, <1>1, <1>2
     DEF Fail, At, ManagerSteps, Abort, Move, ManagerPart, Access, GuardsChecked, WritesKept
<1>3. CASE Pass(c)
  BY <1>0, <1>1, <1>3
     DEF Pass, At, Advance, Move, ManagerPart, Access, GuardsChecked, WritesKept
<1>4. CASE RequireWorkerStarted(c)
  <2>1. /\ Access(Exec(c), Session(c), Caller(c)) /\ Head(todo[c]) = "guard"
        /\ owner[Session(c)] = Caller(c) /\ workerStarted' = workerStarted
        /\ UNCHANGED <<writes, call, onLoop>>
    BY <1>4 DEF RequireWorkerStarted, Authorize, Live, Denied, At, Access
  <2>2. CASE Session(c) \in workerStarted
    BY <1>0, <1>1, <1>4, <2>1, <2>2
       DEF RequireWorkerStarted, AdvanceIf, Advance, Move, ManagerPart, GuardsChecked, WritesKept
  <2>3. CASE Session(c) \notin workerStarted
    BY <1>0, <1>1, <1>4, <2>1, <2>3
       DEF RequireWorkerStarted, AdvanceIf, Abort, Move, ManagerPart, GuardsChecked, WritesKept
  <2> QED
    BY <2>2, <2>3
<1>5. CASE RequireWriteConsent(c)
  <2>1. /\ Access(Exec(c), Session(c), Caller(c)) /\ Head(todo[c]) \in {"consent", "structural"}
        /\ UNCHANGED <<writes, call, onLoop>>
    BY <1>5 DEF RequireWriteConsent, At, Access
  <2>2. CASE Consents(Session(c), Head(todo[c]))
    <3>1. Advance(c)
      BY <1>5, <2>2 DEF RequireWriteConsent, AdvanceIf
    <3>2. GuardsChecked(c)
      BY <2>1, <2>2 DEF GuardsChecked
    <3> QED
      BY <1>0, <1>1, <2>1, <3>1, <3>2 DEF Advance, Move, ManagerPart, WritesKept
  <2>3. CASE ~Consents(Session(c), Head(todo[c]))
    <3>1. Abort(c)
      BY <1>5, <2>3 DEF RequireWriteConsent, AdvanceIf
    <3>2. GuardsChecked(c)
      BY <1>1, <3>1 DEF GuardsChecked, Abort
    <3> QED
      BY <1>0, <1>1, <2>1, <3>1, <3>2 DEF Abort, Move, ManagerPart, WritesKept
  <2> QED
    BY <2>2, <2>3
<1>6. CASE SetWrites(c)
  <2>1. /\ Access(Exec(c), Session(c), Caller(c))
        /\ Head(todo[c]) \in {"enable", "allow", "disable"}
        /\ UNCHANGED <<call, onLoop>> /\ Advance(c)
    BY <1>6 DEF SetWrites, At, Access
  <2>2. [enable |-> "plain", allow |-> "structural", disable |-> "off"][Head(todo[c])]
          \in {"off", "plain", "structural"}
    BY <2>1
  <2>3. writes' \in [Sessions -> {"off", "plain", "structural"}]
    BY <1>1, <1>6, <2>2 DEF SetWrites
  <2> QED
    BY <1>0, <1>1, <2>1, <2>3 DEF Advance, Move, ManagerPart, GuardsChecked, WritesKept
<1>7. CASE Spawn(c)
  <2>1. /\ Access(Exec(c), Session(c), Caller(c)) /\ Head(todo[c]) = "spawn"
        /\ owner[Session(c)] = Caller(c)
        /\ UNCHANGED <<writes, call, onLoop>>
    BY <1>7 DEF Spawn, EnsureWorker, Live, Denied, At, Access
  <2>2. CASE Session(c) \in workerStarted'
    BY <1>0, <1>1, <1>7, <2>1, <2>2
       DEF Spawn, AdvanceIf, Advance, Move, ManagerPart, GuardsChecked, WritesKept
  <2>3. CASE Session(c) \notin workerStarted'
    BY <1>0, <1>1, <1>7, <2>1, <2>3
       DEF Spawn, AdvanceIf, Abort, Move, ManagerPart, GuardsChecked, WritesKept
  <2> QED
    BY <2>2, <2>3
<1>8. CASE Close(c)
  BY <1>0, <1>1, <1>8
     DEF Close, At, Advance, Move, ManagerPart, Access, GuardsChecked, WritesKept
<1>9. CASE Offload(c)
  BY <1>0, <1>1, <1>9
     DEF Offload, At, Advance, Move, ManagerPart, GuardsChecked, WritesKept
<1>10. CASE Port(c)
  BY <1>0, <1>1, <1>10
     DEF Port, At, Advance, Abort, Move, ManagerPart, GuardsChecked, WritesKept
<1> QED
  BY <1>2, <1>3, <1>4, <1>5, <1>6, <1>7, <1>8, <1>9, <1>10 DEF CallStep
-----------------------------------------------------------------------------
(* What is left of a call that moved on. *)
LEMMA MoveShape ==
  ASSUME DispatchTypeOK, EndLast, NEW c \in Slots, Move(c)
  PROVE  /\ \A d \in Slots : d # c => todo'[d] = todo[d]
         /\ todo' \in [Slots -> Seq(Steps)]
         /\ \A d \in Slots : (todo'[d] = <<>>) <=> (todo[d] = <<>>)
         /\ todo[c] # <<>> /\ todo'[c] # <<>> /\ Len(todo'[c]) > 0
         /\ \/ todo'[c] = <<"end">>
            \/ /\ Len(todo'[c]) = Len(todo[c]) - 1
               /\ \A i \in 1 .. Len(todo'[c]) :
                    i + 1 \in 1 .. Len(todo[c]) /\ todo'[c][i] = todo[c][i + 1]
<1>0. /\ todo[c] \in Seq(Steps) /\ Len(todo[c]) > 0 /\ todo[c][1] # "end" /\ todo[c] # <<>>
      /\ todo \in [Slots -> Seq(Steps)]
  BY CallInProgress DEF Move, DispatchTypeOK
<1>1. Len(todo[c]) > 1
  BY <1>0 DEF EndLast
<1>2. CASE todo' = [todo EXCEPT ![c] = Tail(@)]
  <2>1. /\ todo'[c] = Tail(todo[c]) /\ Tail(todo[c]) \in Seq(Steps)
        /\ Len(Tail(todo[c])) = Len(todo[c]) - 1
        /\ \A i \in 1 .. Len(Tail(todo[c])) :
              i + 1 \in 1 .. Len(todo[c]) /\ Tail(todo[c])[i] = todo[c][i + 1]
    BY <1>0, <1>1, <1>2
  <2>a. Len(todo'[c]) > 0
    BY <1>0, <1>1, <2>1
  <2>2. Len(todo'[c]) > 0 /\ todo'[c] # <<>>
    BY <2>a
  <2>3. todo' \in [Slots -> Seq(Steps)] /\ \A d \in Slots : d # c => todo'[d] = todo[d]
    BY <1>0, <1>2, <2>1
  <2> QED
    BY <1>0, <2>1, <2>2, <2>3
<1>3. CASE todo' = [todo EXCEPT ![c] = <<"end">>]
  <2>1. <<"end">> \in Seq(Steps) /\ <<"end">> # <<>> /\ Len(<<"end">>) > 0
    BY DEF Steps, LoopSteps
  <2>2. todo' \in [Slots -> Seq(Steps)] /\ \A d \in Slots : d # c => todo'[d] = todo[d]
    BY <1>0, <1>3, <2>1
  <2>3. todo'[c] = <<"end">>
    BY <1>0, <1>3
  <2> QED
    BY <1>0, <2>1, <2>2, <2>3
<1> QED
  BY <1>2, <1>3 DEF Move

LEMMA MoveTypes ==
  ASSUME DispatchTypeOK, EndLast, NEW c \in Slots, Move(c), WritesKept(c)
  PROVE  DispatchTypeOK'
<1>1. /\ todo' \in [Slots -> Seq(Steps)] /\ call' = call
      /\ \A d \in Slots : (todo'[d] = <<>>) <=> (todo[d] = <<>>)
      /\ todo[c] # <<>>
  BY MoveShape DEF Move
<1>2. writes' \in [Sessions -> {"off", "plain", "structural"}]
  BY DEF WritesKept, DispatchTypeOK
<1>3. failed' \subseteq {d \in Slots : todo'[d] # <<>>}
  BY <1>1 DEF Move, DispatchTypeOK
<1>4. onLoop' # NoThread => onLoop' \in Slots /\ todo'[onLoop'] # <<>>
  BY <1>1 DEF Move, DispatchTypeOK
<1>5. \A d \in Slots : IF todo'[d] = <<>> THEN call'[d] = NoCall ELSE call'[d] \in Calls
  BY <1>1 DEF DispatchTypeOK
<1>6. call' \in [Slots -> Calls \cup {NoCall}]
  BY <1>1 DEF DispatchTypeOK
<1> QED
  BY <1>1, <1>2, <1>3, <1>4, <1>5, <1>6 DEF DispatchTypeOK

(* A step that is no call's begin or end keeps every mark. *)
LEMMA MarksKept ==
  ASSUME TypeOK, InFlightExact, CallsOnMinted, Steady, DispatchTypeOK', call' = call,
         \A d \in Slots : (todo'[d] = <<>>) <=> (todo[d] = <<>>)
  PROVE  InFlightExact' /\ CallsOnMinted'
<1>1. \A s \in Sessions : Marking(s)' = Marking(s)
  BY DEF Marking, Session, Caller, Steady
<1>2. \A s \in Sessions : status'[s] = "open" => inFlight'[s] = Cardinality(Marking(s)')
  BY <1>1 DEF InFlightExact, Steady
<1>3. \A d \in Slots : todo[d] # <<>> => Session(d) \in Sessions
  BY CallInProgress DEF InFlightExact
<1>4. \A d \in Slots : todo'[d] # <<>> => status'[Session(d)'] # "unused"
  BY <1>3 DEF CallsOnMinted, Steady, Session
<1>5. \A s \in Sessions : status'[s] = "unused" => inFlight'[s] = 0
  BY DEF CallsOnMinted, Steady
<1> QED
  BY <1>2, <1>4, <1>5 DEF InFlightExact, CallsOnMinted

LEMMA MoveScript ==
  ASSUME DispatchTypeOK, EndLast, ToolsInPlace, NEW c \in Slots, Move(c)
  PROVE  EndLast' /\ ToolsInPlace'
<1>1. /\ \A d \in Slots : d # c => todo'[d] = todo[d]
      /\ todo[c] # <<>> /\ todo'[c] # <<>> /\ Len(todo'[c]) > 0 /\ call' = call
      /\ todo[c] \in Seq(Steps) /\ todo'[c] \in Seq(Steps) /\ Len(todo[c]) > 0
      /\ DOMAIN todo[c] = 1 .. Len(todo[c]) /\ DOMAIN todo'[c] = 1 .. Len(todo'[c])
  BY MoveShape, CallInProgress DEF Move
<1>2. CASE todo'[c] = <<"end">>
  <2>1. /\ Len(todo'[c]) = 1 /\ todo'[c][1] = "end"
    BY <1>2
  <2>2. EndLast'
    <3>1. \A i \in 1 .. Len(todo'[c]) - 1 : todo'[c][i] # "end"
      BY <2>1
    <3>2. todo'[c][Len(todo'[c])] = "end"
      BY <2>1
    <3> QED
      BY <1>1, <3>1, <3>2 DEF EndLast
  <2>3. ToolsInPlace'
    BY <1>1, <2>1 DEF ToolsInPlace
  <2> QED
    BY <2>2, <2>3
<1>3. CASE /\ Len(todo'[c]) = Len(todo[c]) - 1
           /\ \A i \in 1 .. Len(todo'[c]) :
                i + 1 \in 1 .. Len(todo[c]) /\ todo'[c][i] = todo[c][i + 1]
  <2>0. Len(todo[c]) \in Nat /\ Len(todo'[c]) \in Nat
    BY <1>1
  <2>1. todo'[c][Len(todo'[c])] = "end"
    <3>1. todo[c][Len(todo[c])] = "end"
      BY <1>1 DEF EndLast
    <3>2. todo'[c][Len(todo'[c])] = todo[c][Len(todo'[c]) + 1]
      BY <1>1, <1>3, <2>0
    <3>3. Len(todo'[c]) + 1 = Len(todo[c])
      BY <1>3, <2>0
    <3> QED
      BY <3>1, <3>2, <3>3
  <2>2. ASSUME NEW i \in 1 .. Len(todo'[c]) - 1
        PROVE  todo'[c][i] # "end"
    <3>1. todo'[c][i] = todo[c][i + 1] /\ i + 1 \in 1 .. Len(todo[c]) - 1
      BY <1>3, <2>0
    <3> QED
      BY <1>1, <3>1 DEF EndLast
  <2>3. EndLast'
    BY <1>1, <2>1, <2>2 DEF EndLast
  <2>4. ToolsInPlace'
    BY <1>1, <1>3 DEF ToolsInPlace
  <2> QED
    BY <2>3, <2>4
<1> QED
  BY <1>2, <1>3, MoveShape
(* A call past a guard has what the guard checked; one before it still     *)
(* has the guard ahead of the RPC.                                         *)
LEMMA MoveGuards ==
  ASSUME DispatchTypeOK, EndLast, ToolsInPlace, GuardAhead, Steady,
         NEW c \in Slots, Move(c), GuardsChecked(c), WritesKept(c)
  PROVE  GuardAhead'
<1>1. /\ \A d \in Slots : d # c => todo'[d] = todo[d]
      /\ todo[c] # <<>> /\ todo'[c] # <<>> /\ call' = call
      /\ todo[c] \in Seq(Steps) /\ todo'[c] \in Seq(Steps) /\ Len(todo[c]) > 0
      /\ DOMAIN todo[c] = 1 .. Len(todo[c]) /\ DOMAIN todo'[c] = 1 .. Len(todo'[c])
      /\ Head(todo[c]) = todo[c][1]
  BY MoveShape, CallInProgress DEF Move
<1>2. \A d \in Slots : Session(d)' = Session(d) /\ Caller(d)' = Caller(d)
  BY <1>1 DEF Session, Caller
<1>3. ASSUME NEW d \in Slots, todo[d] # <<>>, call[d].tool \in {"annotate", "retype"}
      PROVE  writes' = writes
  <2> SUFFICES ASSUME Head(todo[c]) \in {"enable", "allow", "disable"} PROVE FALSE
    BY DEF WritesKept
  <2>1. c = Loop /\ call[c].tool \notin {"annotate", "retype"}
    BY <1>1 DEF ToolsInPlace
  <2>2. d # Loop
    BY <1>3, <2>1
  <2> QED
    BY <1>3, <2>2 DEF ToolsInPlace
<1>4. ASSUME NEW d \in Slots, NEW i \in DOMAIN todo'[d], todo'[d][i] = "port"
      PROVE  /\ \/ owner'[Session(d)'] = Caller(d)' /\ Session(d)' \in workerStarted'
                \/ Before(d, i, {"guard", "spawn"})'
             /\ call'[d].tool = "annotate" =>
                  Consents(Session(d), "consent")' \/ Before(d, i, {"consent"})'
             /\ call'[d].tool = "retype" =>
                  Consents(Session(d), "structural")' \/ Before(d, i, {"structural"})'
  <2>1. CASE d # c
    <3>1. todo'[d] = todo[d] /\ i \in DOMAIN todo[d] /\ todo[d][i] = "port" /\ todo[d] # <<>>
      BY <1>1, <1>4, <2>1
    <3>2. \A steps : Before(d, i, steps)' <=> Before(d, i, steps)
      BY <3>1 DEF Before
    <3>3. \/ owner'[Session(d)'] = Caller(d)' /\ Session(d)' \in workerStarted'
          \/ Before(d, i, {"guard", "spawn"})'
      BY <1>2, <3>1, <3>2 DEF GuardAhead, Steady
    <3>4. call'[d].tool = "annotate" =>
            Consents(Session(d), "consent")' \/ Before(d, i, {"consent"})'
      BY <1>1, <1>2, <1>3, <3>1, <3>2 DEF GuardAhead, Consents
    <3>5. call'[d].tool = "retype" =>
            Consents(Session(d), "structural")' \/ Before(d, i, {"structural"})'
      BY <1>1, <1>2, <1>3, <3>1, <3>2 DEF GuardAhead, Consents
    <3> QED
      BY <3>3, <3>4, <3>5
  <2>2. CASE d = c
    <3>0. todo'[c] # <<"end">>
      BY <1>4, <2>2
    <3>1. /\ Len(todo'[c]) = Len(todo[c]) - 1 /\ i \in 1 .. Len(todo'[c])
          /\ \A j \in 1 .. Len(todo'[c]) :
                j + 1 \in 1 .. Len(todo[c]) /\ todo'[c][j] = todo[c][j + 1]
      BY <1>1, <1>4, <2>2, <3>0, MoveShape
    <3>2. i \in Nat /\ i + 1 \in DOMAIN todo[c] /\ todo[c][i + 1] = "port"
      BY <1>1, <1>4, <2>2, <3>1
    <3>3. ASSUME NEW steps, Before(c, i + 1, steps)
          PROVE  Before(c, i, steps)' \/ Head(todo[c]) \in steps
      <4>1. PICK k \in 1 .. i : todo[c][k] \in steps
        BY <3>2, <3>3 DEF Before
      <4>2. CASE k = 1
        BY <1>1, <4>1, <4>2
      <4>3. CASE k # 1
        <5>1. k - 1 \in 1 .. i - 1 /\ k - 1 \in 1 .. Len(todo'[c]) /\ (k - 1) + 1 = k
          BY <3>1, <3>2, <4>1, <4>3, <1>1
        <5>2. todo'[c][k - 1] = todo[c][k]
          BY <3>1, <5>1
        <5> QED
          BY <4>1, <5>1, <5>2 DEF Before
      <4> QED
        BY <4>2, <4>3
    <3>4. \/ owner[Session(c)] = Caller(c) /\ Session(c) \in workerStarted
          \/ Before(c, i + 1, {"guard", "spawn"})
      BY <3>2 DEF GuardAhead
    <3>5. \/ owner'[Session(d)'] = Caller(d)' /\ Session(d)' \in workerStarted'
          \/ Before(d, i, {"guard", "spawn"})'
      BY <1>2, <2>2, <3>0, <3>3, <3>4 DEF GuardsChecked, Steady
    <3>6. call[c].tool = "annotate" =>
            Consents(Session(c), "consent")' \/ Before(c, i, {"consent"})'
      <4> SUFFICES ASSUME call[c].tool = "annotate" PROVE Consents(Session(c), "consent")'
                                                    \/ Before(c, i, {"consent"})'
        OBVIOUS
      <4>1. Consents(Session(c), "consent") \/ Before(c, i + 1, {"consent"})
        BY <3>2 DEF GuardAhead
      <4>2. Consents(Session(c), "consent")' <=> Consents(Session(c), "consent")
        BY <1>1, <1>2, <1>3 DEF Consents
      <4> QED
        BY <3>0, <3>3, <4>1, <4>2 DEF GuardsChecked
    <3>7. call[c].tool = "retype" =>
            Consents(Session(c), "structural")' \/ Before(c, i, {"structural"})'
      <4> SUFFICES ASSUME call[c].tool = "retype" PROVE Consents(Session(c), "structural")'
                                                    \/ Before(c, i, {"structural"})'
        OBVIOUS
      <4>1. Consents(Session(c), "structural") \/ Before(c, i + 1, {"structural"})
        BY <3>2 DEF GuardAhead
      <4>2. Consents(Session(c), "structural")' <=> Consents(Session(c), "structural")
        BY <1>1, <1>2, <1>3 DEF Consents
      <4> QED
        BY <3>0, <3>3, <4>1, <4>2 DEF GuardsChecked
    <3> QED
      BY <1>1, <2>2, <3>5, <3>6, <3>7
  <2> QED
    BY <2>1, <2>2
<1> QED
  BY <1>4 DEF GuardAhead
(* What the other calls rely on: the owner of a minted session, a worker   *)
(* that was started and a consent that was given.                          *)
Relied ==
  /\ workerStarted \subseteq workerStarted' /\ writes' = writes
  /\ \A s \in Sessions : status[s] # "unused" => owner'[s] = owner[s] /\ status'[s] # "unused"

LEMMA OthersKept ==
  ASSUME DispatchInv, Relied, NEW d \in Slots, todo'[d] = todo[d], call'[d] = call[d]
  PROVE  /\ todo'[d] # <<>> => status'[Session(d)'] # "unused"
         /\ EndLast!(d)' /\ ToolsInPlace!(d)' /\ GuardAhead!(d)'
<1> USE DEF DispatchInv, InFlightExact
<1>1. EndLast!(d)' /\ ToolsInPlace!(d)'
  BY DEF EndLast, ToolsInPlace
<1>2. CASE todo[d] = <<>>
  BY <1>1, <1>2
<1>3. CASE todo[d] # <<>>
  <2>1. /\ Session(d)' = Session(d) /\ Caller(d)' = Caller(d) /\ Session(d) \in Sessions
        /\ status[Session(d)] # "unused"
    BY <1>3, CallInProgress DEF Session, Caller, CallsOnMinted
  <2>2. /\ owner'[Session(d)'] = owner[Session(d)]
        /\ \A step : Consents(Session(d), step)' <=> Consents(Session(d), step)
        /\ \A i, steps : Before(d, i, steps)' <=> Before(d, i, steps)
    BY <2>1 DEF Relied, Consents, Before
  <2>3. GuardAhead!(d)'
    BY <2>1, <2>2 DEF GuardAhead, Relied
  <2> QED
    BY <1>1, <1>3, <2>1, <2>3 DEF Relied
<1> QED
  BY <1>2, <1>3

LEMMA BackgroundStep ==
  ASSUME DispatchInv, TypeOK', Steady, UNCHANGED dispatchVars
  PROVE  DispatchInv'
<1> USE DEF dispatchVars
<1>1. DispatchTypeOK'
  BY DEF DispatchInv, InFlightExact, DispatchTypeOK
<1>2. InFlightExact' /\ CallsOnMinted'
  BY <1>1, MarksKept DEF DispatchInv
<1>3. Relied
  BY DEF Relied, Steady
<1>4. EndLast' /\ ToolsInPlace' /\ GuardAhead'
  BY <1>3, OthersKept DEF EndLast, ToolsInPlace, GuardAhead
<1> QED
  BY <1>2, <1>4 DEF DispatchInv

LEMMA CreateCallStep ==
  ASSUME DispatchInv, TypeOK', NEW s \in Sessions, NEW p \in Principals, CreateCall(s, p)
  PROVE  DispatchInv'
<1> USE DEF dispatchVars
<1>0. /\ UNCHANGED dispatchVars /\ UNCHANGED <<inFlight, workerStarted>>
      /\ status[s] = "unused" /\ status' = [status EXCEPT ![s] = "open"]
      /\ owner' = [owner EXCEPT ![s] = p]
  BY DEF CreateCall, Create
<1>1. DispatchTypeOK'
  BY <1>0 DEF DispatchInv, InFlightExact, DispatchTypeOK
<1>2. Relied
  BY <1>0 DEF Relied, DispatchInv, TypeOK
<1>3. EndLast' /\ ToolsInPlace' /\ GuardAhead'
  BY <1>0, <1>2, OthersKept DEF EndLast, ToolsInPlace, GuardAhead
<1>4. CallsOnMinted'
  <2>1. \A d \in Slots : todo'[d] # <<>> => status'[Session(d)'] # "unused"
    BY <1>0, <1>2, OthersKept
  <2>2. \A r \in Sessions : status'[r] = "unused" => inFlight'[r] = 0
    BY <1>0 DEF DispatchInv, TypeOK, CallsOnMinted
  <2> QED
    BY <2>1, <2>2 DEF CallsOnMinted
<1>5. ASSUME NEW r \in Sessions, status'[r] = "open"
      PROVE  inFlight'[r] = Cardinality(Marking(r)')
  <2>1. CASE r = s
    <3>1. \A d \in Slots : todo[d] # <<>> => Session(d) # s
      BY <1>0 DEF DispatchInv, CallsOnMinted
    <3>2. Marking(s)' = {}
      BY <1>0, <3>1 DEF Marking, Session
    <3>3. inFlight'[s] = 0
      BY <1>0 DEF DispatchInv, CallsOnMinted
    <3> QED
      BY <2>1, <3>2, <3>3, FS_EmptySet
  <2>2. CASE r # s
    <3>1. status[r] = "open" /\ owner'[r] = owner[r]
      BY <1>0, <1>5, <2>2 DEF DispatchInv, TypeOK
    <3>2. Marking(r)' = Marking(r)
      BY <1>0, <3>1 DEF Marking, Session, Caller
    <3> QED
      BY <1>0, <3>1, <3>2 DEF DispatchInv, InFlightExact
  <2> QED
    BY <2>1, <2>2
<1> QED
  BY <1>1, <1>3, <1>4, <1>5 DEF DispatchInv, InFlightExact

LEMMA MarkingFinite ==
  ASSUME NEW s
  PROVE  IsFiniteSet(Marking(s)) /\ Cardinality(Marking(s)) \in Nat
<1>1. Marking(s) \subseteq Threads
  BY DEF Marking, Slots
<1> QED
  BY <1>1, ThreadsFinite, FS_Subset, FS_CardinalityType

(* end_call takes back the mark of its own call and no other. *)
LEMMA EndStep ==
  ASSUME DispatchInv, TypeOK', NEW c \in Slots, End(c)
  PROVE  DispatchInv'
<1>0. /\ todo' = [todo EXCEPT ![c] = <<>>] /\ call' = [call EXCEPT ![c] = NoCall]
      /\ todo[c] # <<>> /\ onLoop' = NoThread /\ failed' = failed \ {c}
      /\ UNCHANGED <<writes, status, owner, workerStarted>>
      /\ EndCall(Loop, Session(c), Caller(c))
  BY DEF End, EndCall, At
<1>1. /\ todo \in [Slots -> Seq(Steps)] /\ call \in [Slots -> Calls \cup {NoCall}]
      /\ Session(c) \in Sessions /\ Caller(c) \in Principals /\ <<>> \in Seq(Steps)
  BY <1>0, CallInProgress DEF DispatchInv, InFlightExact, DispatchTypeOK
<1>2. /\ todo'[c] = <<>> /\ call'[c] = NoCall
      /\ \A d \in Slots : d # c => todo'[d] = todo[d] /\ call'[d] = call[d]
      /\ todo' \in [Slots -> Seq(Steps)] /\ call' \in [Slots -> Calls \cup {NoCall}]
  BY <1>0, <1>1
<1>3. DispatchTypeOK'
  <2>1. failed' \subseteq {d \in Slots : todo'[d] # <<>>}
    BY <1>0, <1>2 DEF DispatchInv, InFlightExact, DispatchTypeOK
  <2> QED
    BY <1>0, <1>2, <2>1 DEF DispatchInv, InFlightExact, DispatchTypeOK
<1>4. Relied
  BY <1>0 DEF Relied
<1>5. EndLast' /\ ToolsInPlace' /\ GuardAhead'
  <2>1. EndLast!(c)' /\ ToolsInPlace!(c)' /\ GuardAhead!(c)'
    BY <1>2
  <2>2. ASSUME NEW d \in Slots PROVE EndLast!(d)' /\ ToolsInPlace!(d)' /\ GuardAhead!(d)'
    <3>1. CASE d = c
      BY <2>1, <3>1
    <3>2. CASE d # c
      BY <1>2, <1>4, <3>2, OthersKept
    <3> QED
      BY <3>1, <3>2
  <2> QED
    BY <2>2 DEF EndLast, ToolsInPlace, GuardAhead
<1>6. CallsOnMinted'
  <2>1. \A d \in Slots : todo'[d] # <<>> => status'[Session(d)'] # "unused"
    BY <1>2, <1>4, OthersKept
  <2>2. status[Session(c)] # "unused"
    BY <1>0 DEF DispatchInv, CallsOnMinted
  <2>3. \A s \in Sessions : s # Session(c) => inFlight'[s] = inFlight[s]
    BY <1>0, <1>1 DEF EndCall, DispatchInv, TypeOK
  <2> QED
    BY <1>0, <2>1, <2>2, <2>3 DEF CallsOnMinted, DispatchInv
<1>7. ASSUME NEW s \in Sessions, status'[s] = "open"
      PROVE  inFlight'[s] = Cardinality(Marking(s)')
  <2>0. inFlight[s] = Cardinality(Marking(s)) /\ status[s] = "open"
    BY <1>0, <1>7 DEF DispatchInv, InFlightExact
  <2>1. Marking(s)' = Marking(s) \ {c}
    BY <1>0, <1>2 DEF Marking, Session, Caller
  <2>2. CASE c \in Marking(s)
    <3>1. s = Session(c) /\ ~Denied(s, Caller(c))
      BY <2>0, <2>2 DEF Marking, Denied
    <3>2. inFlight'[s] = IF inFlight[s] = 0 THEN 0 ELSE inFlight[s] - 1
      BY <1>0, <3>1 DEF EndCall, DispatchInv, TypeOK
    <3>3. Cardinality(Marking(s) \ {c}) = Cardinality(Marking(s)) - 1
      BY <2>2, MarkingFinite, FS_RemoveElement
    <3>4. Cardinality(Marking(s)) # 0
      BY <2>2, MarkingFinite, FS_EmptySet
    <3> QED
      BY <2>0, <2>1, <3>2, <3>3, <3>4, MarkingFinite
  <2>3. CASE c \notin Marking(s)
    <3>1. Marking(s)' = Marking(s)
      BY <2>1, <2>3
    <3>2. s # Session(c) \/ Denied(s, Caller(c))
      BY <1>0, <2>3 DEF Marking, Denied
    <3>3. inFlight'[s] = inFlight[s]
      BY <1>0, <1>1, <3>2 DEF EndCall, DispatchInv, TypeOK
    <3> QED
      BY <2>0, <3>1, <3>3
  <2> QED
    BY <2>2, <2>3
<1> QED
  BY <1>3, <1>5, <1>6, <1>7 DEF DispatchInv, InFlightExact
(* begin_call marks the session exactly when the call is its owner's. *)
LEMMA BeginStep ==
  ASSUME DispatchInv, TypeOK', NEW c \in Slots, NEW tool \in Tools \cup {"analyze"}, NEW script,
         NEW s \in Sessions, NEW p \in Principals, Begin(c, tool, script, s, p),
         Scripted(script, tool), c = Loop \/ tool = "analyze"
  PROVE  DispatchInv'
<1>0. /\ todo' = [todo EXCEPT ![c] = script] /\ todo[c] = <<>> /\ onLoop' = c
      /\ call' = [call EXCEPT ![c] = [tool |-> tool, session |-> s, caller |-> p]]
      /\ UNCHANGED <<writes, failed, status, owner, workerStarted>>
      /\ status[s] # "unused" /\ BeginCall(Loop, s, p)
  BY DEF Begin, BeginCall
<1>1. /\ todo \in [Slots -> Seq(Steps)] /\ call \in [Slots -> Calls \cup {NoCall}]
      /\ [tool |-> tool, session |-> s, caller |-> p] \in Calls
      /\ script \in Seq(Steps) /\ Len(script) > 0 /\ script # <<>>
      /\ DOMAIN script = 1 .. Len(script)
  BY DEF DispatchInv, InFlightExact, DispatchTypeOK, Calls, Scripted
<1>2. /\ todo'[c] = script /\ call'[c] = [tool |-> tool, session |-> s, caller |-> p]
      /\ \A d \in Slots : d # c => todo'[d] = todo[d] /\ call'[d] = call[d]
      /\ todo' \in [Slots -> Seq(Steps)] /\ call' \in [Slots -> Calls \cup {NoCall}]
  BY <1>0, <1>1
<1>3. Session(c)' = s /\ Caller(c)' = p /\ call'[c].tool = tool
  BY <1>2 DEF Session, Caller
<1>4. DispatchTypeOK'
  <2>1. failed' \subseteq {d \in Slots : todo'[d] # <<>>}
    BY <1>0, <1>2 DEF DispatchInv, InFlightExact, DispatchTypeOK
  <2> QED
    BY <1>0, <1>1, <1>2, <2>1 DEF DispatchInv, InFlightExact, DispatchTypeOK
<1>5. Relied
  BY <1>0 DEF Relied
<1>6. EndLast' /\ ToolsInPlace' /\ GuardAhead'
  <2>1. EndLast!(c)'
    BY <1>1, <1>2 DEF Scripted
  <2>2. ToolsInPlace!(c)'
    BY <1>1, <1>2, <1>3 DEF Scripted
  <2>3. GuardAhead!(c)'
    <3>1. ASSUME NEW i \in DOMAIN script, script[i] = "port"
          PROVE  /\ Before(c, i, {"guard", "spawn"})'
                 /\ tool = "annotate" => Before(c, i, {"consent"})'
                 /\ tool = "retype" => Before(c, i, {"structural"})'
      <4>1. i \in 1 .. Len(script) /\ todo'[c] = script
        BY <1>1, <1>2
      <4>2. /\ \E k \in 1 .. i - 1 : script[k] \in {"guard", "spawn"}
            /\ tool = "annotate" => \E k \in 1 .. i - 1 : script[k] = "consent"
            /\ tool = "retype" => \E k \in 1 .. i - 1 : script[k] = "structural"
        BY <3>1, <4>1 DEF Scripted
      <4> QED
        BY <4>1, <4>2 DEF Before
    <3> QED
      BY <1>2, <1>3, <3>1
  <2>4. \A d \in Slots : EndLast!(d)' /\ ToolsInPlace!(d)' /\ GuardAhead!(d)'
    BY <1>2, <1>5, <2>1, <2>2, <2>3, OthersKept
  <2> QED
    BY <2>4 DEF EndLast, ToolsInPlace, GuardAhead
<1>7. CallsOnMinted'
  <2>1. \A d \in Slots : todo'[d] # <<>> => status'[Session(d)'] # "unused"
    BY <1>0, <1>2, <1>3, <1>5, OthersKept
  <2>2. \A r \in Sessions : r # s => inFlight'[r] = inFlight[r]
    BY <1>0 DEF BeginCall, DispatchInv, TypeOK
  <2> QED
    BY <1>0, <2>1, <2>2 DEF CallsOnMinted, DispatchInv
<1>8. ASSUME NEW r \in Sessions, status'[r] = "open"
      PROVE  inFlight'[r] = Cardinality(Marking(r)')
  <2>0. inFlight[r] = Cardinality(Marking(r)) /\ status[r] = "open" /\ c \notin Marking(r)
    BY <1>0, <1>8 DEF DispatchInv, InFlightExact, Marking
  <2>1. CASE r = s /\ owner[s] = p
    <3>1. Marking(r)' = Marking(r) \cup {c}
      BY <1>0, <1>1, <1>2, <1>3, <2>1 DEF Marking, Session, Caller
    <3>2. inFlight'[r] = inFlight[r] + 1
      BY <1>0, <2>0, <2>1 DEF BeginCall, Denied, DispatchInv, TypeOK
    <3>3. Cardinality(Marking(r) \cup {c}) = Cardinality(Marking(r)) + 1
      BY <2>0, MarkingFinite, FS_AddElement
    <3> QED
      BY <2>0, <3>1, <3>2, <3>3
  <2>2. CASE r # s \/ owner[s] # p
    <3>1. Marking(r)' = Marking(r)
      BY <1>0, <1>1, <1>2, <1>3, <2>2 DEF Marking, Session, Caller
    <3>2. inFlight'[r] = inFlight[r]
      BY <1>0, <2>2 DEF BeginCall, Denied, DispatchInv, TypeOK
    <3> QED
      BY <2>0, <3>1, <3>2
  <2> QED
    BY <2>1, <2>2
<1> QED
  BY <1>4, <1>6, <1>7, <1>8 DEF DispatchInv, InFlightExact

LEMMA MoveStep ==
  ASSUME DispatchInv, TypeOK', NEW c \in Slots, CallStep(c), ~End(c)
  PROVE  DispatchInv'
<1>0. Move(c) /\ ManagerPart(c) /\ GuardsChecked(c) /\ WritesKept(c)
  BY CallStepMoves DEF DispatchInv, InFlightExact
<1>1. Steady
  <2>1. Session(c) \in Sessions /\ Caller(c) \in Principals
    BY <1>0, CallInProgress DEF Move, DispatchInv, InFlightExact
  <2>2. CASE WorkerDies(Session(c))
    BY <2>2 DEF Steady, WorkerDies, sessionVars
  <2> QED
    BY <1>0, <2>1, <2>2, AccessSteady, StutterSteady DEF ManagerPart, DispatchInv
<1>2. DispatchTypeOK' /\ EndLast' /\ ToolsInPlace' /\ GuardAhead'
  BY <1>0, <1>1, MoveTypes, MoveScript, MoveGuards DEF DispatchInv, InFlightExact
<1>3. InFlightExact' /\ CallsOnMinted'
  BY <1>0, <1>1, <1>2, MoveShape, MarksKept DEF Move, DispatchInv, InFlightExact
<1> QED
  BY <1>2, <1>3 DEF DispatchInv
-----------------------------------------------------------------------------
(* Every step of the dispatcher is a step of the manager, or none. *)
LEMMA DispatchImplementsStep ==
  ASSUME DispatchInv, [DispatchNext]_allVars
  PROVE  [Next]_vars
<1>0. TypeOK /\ DispatchTypeOK
  BY DEF DispatchInv, InFlightExact
<1>1. CASE UNCHANGED allVars
  BY <1>1 DEF allVars
<1>2. CASE Background
  BY <1>2, RolesAssumption DEF Background, Next
<1>3. ASSUME NEW c \in Slots, CallStep(c), ~End(c)
      PROVE  [Next]_vars
  <2>1. Move(c) /\ ManagerPart(c)
    BY <1>0, <1>3, CallStepMoves
  <2>2. Session(c) \in Sessions /\ Caller(c) \in Principals
    BY <1>0, <2>1, CallInProgress DEF Move
  <2> QED
    BY <2>1, <2>2 DEF ManagerPart, Next
<1>4. ASSUME NEW c \in Slots, End(c)
      PROVE  [Next]_vars
  <2>1. Session(c) \in Sessions /\ Caller(c) \in Principals
    BY <1>0, <1>4, CallInProgress DEF End, At
  <2> QED
    BY <1>4, <2>1, RolesAssumption DEF End, Next
<1>5. ASSUME NEW s \in Sessions, NEW p \in Principals, CreateCall(s, p)
      PROVE  [Next]_vars
  BY <1>5, RolesAssumption DEF CreateCall, Next
<1>6. ASSUME NEW s \in Sessions, NEW p \in Principals,
             NEW c, NEW tool, NEW script, Begin(c, tool, script, s, p)
      PROVE  [Next]_vars
  BY <1>6, RolesAssumption DEF Begin, Next
<1> QED
  BY <1>1, <1>2, <1>3, <1>4, <1>5, <1>6 DEF DispatchNext, BeginInline, BeginOffloaded

LEMMA DispatchInitInvariant == DispatchInit => DispatchInv
<1> SUFFICES ASSUME DispatchInit PROVE DispatchInv
  OBVIOUS
<1>1. TypeOK
  BY InitInvariant DEF DispatchInit, IInv
<1>2. \A c \in Slots : todo[c] = <<>> /\ call[c] = NoCall
  BY DEF DispatchInit
<1>3. DispatchTypeOK
  BY <1>2 DEF DispatchInit, DispatchTypeOK
<1>4. InFlightExact
  <2>1. \A s \in Sessions : status[s] # "open"
    BY DEF DispatchInit, Init
  <2> QED
    BY <1>3, <2>1 DEF InFlightExact
<1>5. CallsOnMinted
  BY <1>2 DEF DispatchInit, Init, CallsOnMinted
<1>6. EndLast /\ ToolsInPlace /\ GuardAhead
  BY <1>2 DEF EndLast, ToolsInPlace, GuardAhead
<1> QED
  BY <1>1, <1>4, <1>5, <1>6 DEF DispatchInv

LEMMA DispatchInvariantStep ==
  ASSUME DispatchInv, [DispatchNext]_allVars
  PROVE  DispatchInv'
<1>0. TypeOK' /\ TypeOK
  <2>1. [Next]_vars
    BY DispatchImplementsStep
  <2>2. CASE UNCHANGED vars
    BY <2>2 DEF DispatchInv, TypeOK, vars, sessionVars, ioVars, threadVars
  <2> QED
    BY <2>1, <2>2, TypeStep DEF DispatchInv
<1>1. CASE UNCHANGED allVars
  BY <1>0, <1>1, StutterSteady, BackgroundStep DEF allVars
<1>2. CASE Background
  <2>1. UNCHANGED dispatchVars
    BY <1>2 DEF Background
  <2> QED
    BY <1>0, <1>2, <2>1, BackgroundSteady, BackgroundStep
<1>3. ASSUME NEW c \in Slots, CallStep(c)
      PROVE  DispatchInv'
  BY <1>0, <1>3, MoveStep, EndStep
<1>4. ASSUME NEW s \in Sessions, NEW p \in Principals, CreateCall(s, p)
      PROVE  DispatchInv'
  BY <1>0, <1>4, CreateCallStep
<1>5. ASSUME NEW s \in Sessions, NEW p \in Principals, NEW tool \in Tools, BeginInline(tool, s, p)
      PROVE  DispatchInv'
  <2>1. Loop \in Slots
    BY RolesAssumption DEF Slots
  <2> QED
    BY <1>0, <1>5, <2>1, ScriptsScripted, BeginStep DEF BeginInline
<1>6. ASSUME NEW s \in Sessions, NEW p \in Principals, NEW c \in Slots, BeginOffloaded(c, s, p)
      PROVE  DispatchInv'
  BY <1>0, <1>6, ScriptsScripted, BeginStep DEF BeginOffloaded
<1> QED
  BY <1>1, <1>2, <1>3, <1>4, <1>5, <1>6 DEF DispatchNext

THEOREM DispatchInvariantHolds == DispatchSpec => []DispatchInv
  BY DispatchInitInvariant, DispatchInvariantStep, PTL DEF DispatchSpec

(* The dispatcher implements the session manager: whatever calls clients   *)
(* make, the table sees its own operations with server-derived callers, so *)
(* all that is proved of Spec holds under dispatch.                        *)
THEOREM DispatchImplementsManager == DispatchSpec => Spec
<1>1. DispatchInit => Init
  BY DEF DispatchInit
<1> QED
  BY <1>1, DispatchImplementsStep, DispatchInvariantHolds, PTL DEF DispatchSpec, Spec

(* No orphaned worker, no store left behind, one callback per eviction and *)
(* the caps, under any interleaving of tool calls with the reaper.         *)
THEOREM ManagerSafeUnderDispatch ==
  DispatchSpec => [](NoOrphanWorker /\ StoreWiped /\ NotifiedOnce /\ WithinCaps)
  BY DispatchImplementsManager, NoOrphanWorkerHolds, StoreWipedHolds, NotifiedOnceHolds,
     WithinCapsHolds, PTL

(* begin_call and end_call stay balanced: the in-flight count of an open   *)
(* session is the number of its owner's calls in progress.                 *)
THEOREM InFlightExactHolds == DispatchSpec => []InFlightExact
<1>1. DispatchInv => InFlightExact
  BY DEF DispatchInv
<1> QED
  BY <1>1, DispatchInvariantHolds, PTL

(* A call whose next step is the RPC passed every guard of its script, and *)
(* what they checked still holds.                                          *)
THEOREM MediatedPortHolds == DispatchSpec => []MediatedPort
<1>1. DispatchInv => MediatedPort
  <2> SUFFICES ASSUME DispatchInv, NEW c \in Slots, todo[c] # <<>>, Head(todo[c]) = "port"
               PROVE  MediatedPort!(c)
    BY DEF MediatedPort
  <2>1. Head(todo[c]) = todo[c][1] /\ 1 \in DOMAIN todo[c]
    BY CallInProgress DEF DispatchInv, InFlightExact
  <2>2. \A steps : ~Before(c, 1, steps)
    BY DEF Before
  <2> QED
    BY <2>1, <2>2 DEF DispatchInv, GuardAhead
<1> QED
  BY <1>1, DispatchInvariantHolds, PTL

(* A session with a call in progress ends by its TTL or by its owner's     *)
(* close: the reaper and the idle clock never take it.                     *)
THEOREM CallKeepsSessionHolds == DispatchSpec => CallKeepsSession
<1>1. ASSUME DispatchInv, [DispatchNext]_allVars, NEW s \in Sessions,
             status[s] = "open", status'[s] = "evicted", Marking(s) # {}
      PROVE  TtlExpired(s) \/ \E c \in Marking(s) : todo[c][1] = "evict"
  <2>0. /\ inFlight[s] = Cardinality(Marking(s)) /\ TypeOK /\ DispatchTypeOK
    BY <1>1 DEF DispatchInv, InFlightExact
  <2>1. inFlight[s] # 0
    BY <1>1, <2>0, MarkingFinite, FS_EmptySet
  <2>2. status' # status
    BY <1>1
  <2>3. CASE UNCHANGED allVars
    BY <2>2, <2>3 DEF allVars, vars, sessionVars
  <2>4. CASE Background
    <3>1. Reap(Reaper)
      BY <2>2, <2>4 DEF Background, Tick, WorkerDies, EvictionStep, Kill, Wipe, Flush, Notify,
                        sessionVars
    <3>2. s \in Reapable
      BY <1>1, <3>1 DEF Reap, Detach
    <3> QED
      BY <2>1, <3>2 DEF Reapable
  <2>5. ASSUME NEW c \in Slots, CallStep(c)
        PROVE  TtlExpired(s) \/ \E d \in Marking(s) : todo[d][1] = "evict"
    <3>1. Fail(c) \/ Close(c)
      BY <2>2, <2>5 DEF CallStep, Pass, RequireWorkerStarted, RequireWriteConsent, SetWrites,
         Spawn, Offload, Port, End, Authorize, EnsureWorker, EndCall, WorkerDies, vars, sessionVars
    <3>2. CASE Fail(c)
      <4>1. ExpireOnAccess(Exec(c), Session(c), Caller(c))
        BY <2>2, <3>2 DEF Fail, Refuse, sessionVars
      <4>2. s = Session(c) /\ IsExpired(s)
        BY <1>1, <4>1 DEF ExpireOnAccess, EvictLocked, Detach
      <4> QED
        BY <2>1, <4>2 DEF IsExpired
    <3>3. CASE Close(c)
      <4>1. /\ Evict(Exec(c), Session(c), Caller(c))
            /\ todo[c] # <<>> /\ Head(todo[c]) = "evict"
        BY <3>3 DEF Close, At
      <4>2. s = Session(c) /\ owner[s] = Caller(c)
        BY <1>1, <4>1 DEF Evict, EvictLocked, Detach, Live, Denied
      <4>3. c \in Marking(s) /\ todo[c][1] = "evict"
        BY <2>0, <4>1, <4>2, CallInProgress DEF Marking
      <4> QED
        BY <4>3
    <3> QED
      BY <3>1, <3>2, <3>3
  <2>6. ASSUME NEW r \in Sessions, NEW p \in Principals, CreateCall(r, p)
        PROVE  FALSE
    BY <1>1, <2>0, <2>6 DEF CreateCall, Create, TypeOK
  <2>7. ASSUME NEW r \in Sessions, NEW p \in Principals,
               NEW c, NEW tool, NEW script, Begin(c, tool, script, r, p)
        PROVE  FALSE
    BY <2>2, <2>7 DEF Begin, BeginCall
  <2> QED
    BY <1>1, <2>3, <2>4, <2>5, <2>6, <2>7 DEF DispatchNext, BeginInline, BeginOffloaded
<1>2. DispatchInv /\ [DispatchNext]_allVars =>
        [ \A s \in Sessions :
            status[s] = "open" /\ status'[s] = "evicted" /\ Marking(s) # {} =>
              \/ TtlExpired(s)
              \/ \E c \in Marking(s) : todo[c][1] = "evict" ]_status
  BY <1>1
<1> QED
  BY <1>2, DispatchInvariantHolds, PTL DEF DispatchSpec, CallKeepsSession

=============================================================================
