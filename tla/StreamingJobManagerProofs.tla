--------------------- MODULE StreamingJobManagerProofs ---------------------
(***************************************************************************)
(* The job table beside the session manager and the dispatcher: the table  *)
(* of sessions still sees only its own operations, and StreamInv of        *)
(* StreamingJobManager is inductive, for any number of sessions, jobs and  *)
(* threads.  From it: no job is lost between start, cancel and eviction,   *)
(* and no call works on a job that is not its caller's.                    *)
(***************************************************************************)
EXTENDS StreamingJobManager, ToolDispatchProofs

AllSteps == Steps \cup JobSteps

(* The call in c takes a step and is not over. *)
Moves(c) ==
  /\ todo[c] # <<>> /\ UNCHANGED call
  /\ \/ todo' = [todo EXCEPT ![c] = Tail(@)]
     \/ todo' = [todo EXCEPT ![c] = <<"end">>]
     \/ todo' = [todo EXCEPT ![c] = <<"release", "end">>]

(* What a minted session keeps. *)
MintedKept ==
  \A s \in Sessions : status[s] # "unused" => status'[s] # "unused" /\ owner'[s] = owner[s]

(* The part of the invariant that is about the jobs. *)
JobPart == JobsAccounted /\ JobsOwned

-----------------------------------------------------------------------------
LEMMA LoopIsSlot == Loop \in Slots
  BY RolesAssumption DEF Slots

LEMMA SteadyKeeps ==
  ASSUME TypeOK, Steady
  PROVE  MintedKept
  BY DEF Steady, MintedKept, TypeOK

LEMMA NextKeepsMinted ==
  ASSUME TypeOK, [Next]_vars
  PROVE  MintedKept
<1>1. ASSUME NEW D \in SUBSET Open, Detach(D), UNCHANGED owner
      PROVE  MintedKept
  BY <1>1, DetachSteady DEF MintedKept
<1>2. CASE UNCHANGED vars
  BY <1>2, StutterSteady, SteadyKeeps
<1>3. CASE Tick \/ \E s \in Sessions : WorkerDies(s)
  BY <1>3 DEF MintedKept, Tick, WorkerDies, sessionVars
<1>4. ASSUME NEW t \in Threads, Reap(t)
      PROVE  MintedKept
  <2>1. Reapable \in SUBSET Open /\ Detach(Reapable) /\ UNCHANGED owner
    BY <1>4 DEF Reapable, Reap
  <2> QED
    BY <1>1, <2>1
<1>5. ASSUME NEW t \in Threads, Shutdown(t)
      PROVE  MintedKept
  <2>1. Open \in SUBSET Open /\ Detach(Open) /\ UNCHANGED owner
    BY <1>5 DEF Shutdown, EvictLocked
  <2> QED
    BY <1>1, <2>1
<1>6. ASSUME NEW t \in Threads, EvictionStep(t)
      PROVE  MintedKept
  BY <1>6 DEF MintedKept, EvictionStep, Kill, Wipe, Flush, Notify, sessionVars
<1>7. ASSUME NEW t \in Threads, NEW p \in Principals, NEW s \in Sessions, Create(t, s, p)
      PROVE  MintedKept
  BY <1>7 DEF MintedKept, Create, TypeOK
<1>8. ASSUME NEW t \in Threads, NEW p \in Principals, NEW s \in Sessions,
             BeginCall(t, s, p) \/ EndCall(t, s, p)
      PROVE  MintedKept
  BY <1>8 DEF MintedKept, BeginCall, EndCall
<1>9. ASSUME NEW t \in Threads, NEW p \in Principals, NEW s \in Sessions, Access(t, s, p)
      PROVE  MintedKept
  BY <1>9, AccessSteady, SteadyKeeps
<1> QED
  BY <1>2, <1>3, <1>4, <1>5, <1>6, <1>7, <1>8, <1>9 DEF Next

(* A call in progress is on one of the Sessions, by one of the Principals. *)
LEMMA CallKnown ==
  ASSUME CallsTyped, NEW c \in Slots, todo[c] # <<>>
  PROVE  /\ Session(c) \in Sessions /\ Caller(c) \in Principals /\ c \in Threads
         /\ Exec(c) \in Threads
         /\ todo[c] \in Seq(AllSteps) /\ Len(todo[c]) > 0
         /\ Head(todo[c]) = todo[c][1] /\ Tail(todo[c]) \in Seq(AllSteps)
<1>1. call[c] \in StreamCalls /\ todo[c] \in Seq(AllSteps)
  BY DEF CallsTyped, AllSteps
<1>2. Session(c) \in Sessions /\ Caller(c) \in Principals
  BY <1>1 DEF Session, Caller, StreamCalls
<1>3. c \in Threads /\ Exec(c) \in Threads
  BY RolesAssumption DEF Slots, Exec
<1> HIDE DEF AllSteps
<1>4. Len(todo[c]) > 0 /\ Head(todo[c]) = todo[c][1] /\ Tail(todo[c]) \in Seq(AllSteps)
  BY <1>1
<1> QED
  BY <1>1, <1>2, <1>3, <1>4

LEMMA MovesTyped ==
  ASSUME CallsTyped, MintedKept, NEW c \in Slots, Moves(c)
  PROVE  CallsTyped'
<1>1. /\ Tail(todo[c]) \in Seq(AllSteps) /\ todo \in [Slots -> Seq(AllSteps)]
      /\ \A d \in Slots : todo[d] # <<>> => Session(d) \in Sessions
  BY CallKnown DEF Moves, CallsTyped, AllSteps
<1>2. "end" \in AllSteps /\ "release" \in AllSteps
  BY DEF AllSteps, Steps, LoopSteps, JobSteps
<1>3. <<"end">> \in Seq(AllSteps) /\ <<"release", "end">> \in Seq(AllSteps)
  BY <1>2
<1>4. todo' \in [Slots -> Seq(AllSteps)]
  BY <1>1, <1>3 DEF Moves
<1>5. \A d \in Slots : todo'[d] # <<>> => todo[d] # <<>>
  BY <1>1 DEF Moves
<1> QED
  BY <1>1, <1>4, <1>5 DEF CallsTyped, Moves, MintedKept, Session, AllSteps

(* A step that leaves the calls alone. *)
LEMMA StillTyped ==
  ASSUME CallsTyped, MintedKept, UNCHANGED <<todo, call>>
  PROVE  CallsTyped'
<1>1. \A d \in Slots : todo[d] # <<>> => Session(d) \in Sessions
  BY CallKnown
<1> QED
  BY <1>1 DEF CallsTyped, MintedKept, Session

-----------------------------------------------------------------------------
(* What the steps of the call on the loop rely on. *)

(* A call that has nothing but its release and its end left. *)
LEMMA WorkOver ==
  ASSUME \A i \in DOMAIN todo'[Loop] : todo'[Loop][i] \in {"end", "release"}
  PROVE  WorkChecked'
  BY DEF WorkChecked

(* The next step is taken; what it has checked holds after it. *)
OwnerChecked ==
  Head(todo[Loop]) = "jobauth" \/ owner[Session(Loop)] = Caller(Loop) =>
    owner'[Session(Loop)] = Caller(Loop)

HandleChecked ==
  Head(todo[Loop]) \in {"start", "find", "unslot"} \/ handle \subseteq jobsOf[Session(Loop)] =>
    handle' \subseteq jobsOf'[Session(Loop)]

SlotChecked ==
  (Head(todo[Loop]) = "unslot" \/ \A s \in Sessions : handle \cap active[s] = {}) =>
    Head(todo[Loop]) = "start" \/ \A s \in Sessions : handle' \cap active'[s] = {}

LEMMA WorkPops ==
  ASSUME CallsTyped, WorkChecked, todo[Loop] # <<>>, todo'[Loop] = Tail(todo[Loop]),
         call'[Loop] = call[Loop], OwnerChecked, HandleChecked, SlotChecked
  PROVE  WorkChecked'
<1>1. /\ todo[Loop] \in Seq(AllSteps) /\ Len(todo[Loop]) > 0 /\ Head(todo[Loop]) = todo[Loop][1]
      /\ 1 \in DOMAIN todo[Loop]
  <2>1. todo[Loop] \in Seq(AllSteps) /\ Len(todo[Loop]) > 0 /\ Head(todo[Loop]) = todo[Loop][1]
    BY LoopIsSlot, CallKnown
  <2> HIDE DEF AllSteps
  <2> QED
    BY <2>1
<1>2. Session(Loop)' = Session(Loop) /\ Caller(Loop)' = Caller(Loop)
  BY DEF Session, Caller
<1>3. \A i \in DOMAIN todo'[Loop] :
        i \in Nat /\ i > 0 /\ i + 1 \in DOMAIN todo[Loop] /\ todo'[Loop][i] = todo[Loop][i + 1]
  <2> HIDE DEF AllSteps
  <2> QED
    BY <1>1
<1>4. ASSUME NEW i \in DOMAIN todo'[Loop], NEW steps, Before(Loop, i + 1, steps),
             Head(todo[Loop]) \notin steps
      PROVE  Before(Loop, i, steps)'
  <2>1. PICK k \in 1 .. (i + 1) - 1 : todo[Loop][k] \in steps
    BY <1>4 DEF Before
  <2>2. k # 1 /\ k - 1 \in 1 .. i - 1
    BY <1>1, <1>3, <1>4, <2>1
  <2>3. i - 1 \in DOMAIN todo'[Loop] \/ i - 1 = 0
    <3> HIDE DEF AllSteps
    <3> QED
      BY <1>1, <1>3
  <2>4. k - 1 \in DOMAIN todo'[Loop]
    <3> HIDE DEF AllSteps
    <3> QED
      BY <1>1, <2>2
  <2>5. todo'[Loop][k - 1] = todo[Loop][k]
    BY <1>3, <2>2, <2>4
  <2> QED
    BY <2>1, <2>2, <2>5 DEF Before
<1> SUFFICES ASSUME NEW i \in DOMAIN todo'[Loop]
             PROVE  WorkChecked!(i)'
  BY DEF WorkChecked
<1>5. i + 1 \in DOMAIN todo[Loop] /\ todo'[Loop][i] = todo[Loop][i + 1]
  BY <1>3
<1>6. WorkChecked!(i + 1)
  BY <1>5 DEF WorkChecked
<1>7. WorkChecked!(i)!1'
  BY <1>2, <1>4, <1>5, <1>6 DEF OwnerChecked
<1>8. WorkChecked!(i)!2'
  BY <1>2, <1>4, <1>5, <1>6 DEF HandleChecked
<1>9. WorkChecked!(i)!3'
  <2> SUFFICES ASSUME todo'[Loop][i] = "cancel"
               PROVE  /\ (\A s \in Sessions : handle' \cap active'[s] = {})
                           \/ Before(Loop, i, {"unslot"})'
                      /\ \A k \in DOMAIN todo'[Loop] : todo'[Loop][k] # "start"
    OBVIOUS
  <2>1. Head(todo[Loop]) # "start" /\ \A k \in DOMAIN todo'[Loop] : todo'[Loop][k] # "start"
    BY <1>1, <1>3, <1>5, <1>6
  <2> QED
    BY <1>4, <1>5, <1>6, <2>1 DEF SlotChecked
<1> QED
  BY <1>7, <1>8, <1>9

(* A step of somebody else. *)
LEMMA WorkStill ==
  ASSUME CallsTyped, WorkChecked, MintedKept, todo'[Loop] = todo[Loop],
         todo[Loop] # <<>> => call'[Loop] = call[Loop],
         UNCHANGED <<handle, jobsOf>>,
         \A s \in Sessions : active'[s] \subseteq active[s]
  PROVE  WorkChecked'
<1>1. CASE todo[Loop] = <<>>
  BY <1>1 DEF WorkChecked
<1>2. CASE todo[Loop] # <<>>
  <2>1. /\ Session(Loop)' = Session(Loop) /\ Caller(Loop)' = Caller(Loop)
        /\ owner'[Session(Loop)] = owner[Session(Loop)]
    BY <1>2, LoopIsSlot, CallKnown DEF Session, Caller, MintedKept, CallsTyped
  <2> SUFFICES ASSUME NEW i \in DOMAIN todo[Loop], WorkChecked!(i)
               PROVE  WorkChecked!(i)'
    BY DEF WorkChecked
  <2>2. \A steps : Before(Loop, i, steps)' <=> Before(Loop, i, steps)
    BY DEF Before
  <2>3. WorkChecked!(i)!1' /\ WorkChecked!(i)!2'
    BY <2>1, <2>2
  <2>4. (\A s \in Sessions : handle \cap active[s] = {}) =>
          \A s \in Sessions : handle' \cap active'[s] = {}
    OBVIOUS
  <2> QED
    BY <2>2, <2>3, <2>4
<1> QED
  BY <1>1, <1>2

(* A step of the call in slot c. *)
LEMMA MovesChecked ==
  ASSUME CallsTyped, WorkChecked, MintedKept, NEW c \in Slots, Moves(c),
         c = Loop => OwnerChecked /\ HandleChecked /\ SlotChecked,
         c # Loop => UNCHANGED <<handle, jobsOf, active>>
  PROVE  WorkChecked'
<1>0. todo \in [Slots -> Seq(AllSteps)] /\ Loop \in Slots
  BY LoopIsSlot DEF CallsTyped, AllSteps
<1>1. CASE c # Loop
  <2>1. todo'[Loop] = todo[Loop] /\ call' = call
    BY <1>0, <1>1 DEF Moves
  <2> QED
    BY <1>1, <2>1, WorkStill
<1>2. CASE c = Loop /\ todo' = [todo EXCEPT ![c] = Tail(@)]
  BY <1>0, <1>2, WorkPops DEF Moves
<1>3. CASE c = Loop /\ todo'[Loop] \in {<<"end">>, <<"release", "end">>}
  <2>1. \A i \in DOMAIN todo'[Loop] : todo'[Loop][i] \in {"end", "release"}
    BY <1>3
  <2> QED
    BY <2>1, WorkOver
<1> QED
  BY <1>0, <1>1, <1>2, <1>3 DEF Moves

(* A step of ToolDispatch: none of its guards and calls is a job step. *)
LEMMA PlainCallStep ==
  ASSUME TypeOK, CallsTyped, NEW c \in Slots, CallStep(c)
  PROVE  /\ [Next]_vars /\ todo[c] # <<>> /\ Head(todo[c]) \notin JobSteps
         /\ \/ Moves(c)
            \/ todo' = [todo EXCEPT ![c] = <<>>] /\ call' = [call EXCEPT ![c] = NoCall]
<1>0. todo[c] # <<>> /\ Head(todo[c]) \notin JobSteps
  BY DEF CallStep, Fail, Pass, RequireWorkerStarted, RequireWriteConsent, SetWrites, Spawn, Close,
         Offload, Port, End, At, ManagerSteps, JobSteps
<1>1. Session(c) \in Sessions /\ Caller(c) \in Principals /\ Exec(c) \in Threads /\ Loop \in Threads
  BY <1>0, CallKnown, RolesAssumption
<1>2. CASE Fail(c) \/ Pass(c) \/ RequireWorkerStarted(c) \/ RequireWriteConsent(c) \/ SetWrites(c)
             \/ Spawn(c) \/ Close(c)
  <2>1. Access(Exec(c), Session(c), Caller(c))
    BY <1>2 DEF Fail, Pass, RequireWorkerStarted, RequireWriteConsent, SetWrites, Spawn, Close, Access
  <2>2. Moves(c)
    BY <1>0, <1>2 DEF Moves, Fail, Pass, RequireWorkerStarted, RequireWriteConsent, SetWrites, Spawn,
                      Close, AdvanceIf, Advance, Abort
  <2> QED
    BY <1>0, <1>1, <2>1, <2>2 DEF Next
<1>3. CASE Offload(c) \/ Port(c)
  <2>1. Moves(c)
    BY <1>0, <1>3 DEF Moves, Offload, Port, Advance, Abort
  <2>2. UNCHANGED vars \/ WorkerDies(Session(c))
    BY <1>3 DEF Offload, Port
  <2> QED
    BY <1>0, <1>1, <2>1, <2>2 DEF Next
<1>4. CASE End(c)
  BY <1>0, <1>1, <1>4 DEF End, Next
<1> QED
  BY <1>2, <1>3, <1>4 DEF CallStep

(* Steps that leave the jobs and the callbacks alone. *)
LEMMA JobsStill ==
  ASSUME JobPart, UNCHANGED <<jobVars, handle, sinkVars>>,
         jobsLock' \in Threads \cup {NoThread}, jobLock' \in [Jobs -> Threads \cup {NoThread}]
  PROVE  JobPart'
<1> USE DEF JobPart, jobVars, sinkVars
<1>1. StreamTypeOK'
  BY DEF JobsAccounted, StreamTypeOK
<1>2. SlotReachable' /\ NoLostJob' /\ JobsOwned'
  BY DEF JobsAccounted, SlotReachable, Reachable, NoLostJob, JobsOwned
<1> QED
  BY <1>1, <1>2 DEF JobsAccounted

(* One job changes its state: it comes to life only by its start, it is    *)
(* cancelled off the slot, and a job that is taken off a thread's hands is *)
(* not producing.                                                          *)
LEMMA OneJobChanges ==
  ASSUME JobPart, NEW j \in Jobs, NEW x \in {"unused", "live"} \cup Terminal,
         jobState' = [jobState EXCEPT ![j] = x],
         jobState[j] # "unused" => x # "unused",
         x = "live" => jobState[j] = "live",
         x = "cancelled" => jobState[j] = "cancelled" \/ \A s \in Sessions : j \notin active[s],
         UNCHANGED <<jobsOf, table, active, handle, sink>>,
         doomed' \in [Threads -> SUBSET Jobs],
         \A t \in Threads : doomed'[t] \subseteq doomed[t],
         \A t \in Threads : \A k \in doomed[t] : k \notin doomed'[t] => k = j /\ x # "live",
         jobsLock' \in Threads \cup {NoThread}, jobLock' \in [Jobs -> Threads \cup {NoThread}]
  PROVE  JobPart'
<1> USE DEF JobPart, JobsAccounted
<1>0. /\ jobState \in [Jobs -> {"unused", "live"} \cup Terminal] /\ jobState'[j] = x
      /\ \A k \in Jobs : k # j => jobState'[k] = jobState[k]
      /\ jobsOf \in [Sessions -> SUBSET Jobs] /\ active \in [Sessions -> SUBSET Jobs]
      /\ doomed \in [Threads -> SUBSET Jobs]
  BY DEF StreamTypeOK
<1>1. StreamTypeOK'
  <2>1. jobState' \in [Jobs -> {"unused", "live"} \cup Terminal]
    BY <1>0
  <2>2. \A t \in Threads : sink'[t] = {} => doomed'[t] = {}
    BY DEF StreamTypeOK
  <2> QED
    BY <2>1, <2>2 DEF StreamTypeOK
<1>2. SlotReachable'
  BY <1>0 DEF SlotReachable, Reachable
<1>3. NoLostJob'
  <2> SUFFICES ASSUME NEW k \in Jobs, jobState'[k] = "live"
               PROVE  k \in table \/ \E t \in Threads : k \in doomed'[t]
    BY DEF NoLostJob
  <2>1. jobState[k] = "live"
    BY <1>0
  <2>2. ASSUME NEW t \in Threads, k \in doomed[t]
        PROVE  k \in doomed'[t]
    BY <1>0, <2>2
  <2> QED
    BY <2>1, <2>2 DEF NoLostJob
<1>4. JobsOwned'
  BY <1>0 DEF JobsOwned
<1> QED
  BY <1>1, <1>2, <1>3, <1>4

LEMMA ManagerTyped ==
  ASSUME TypeOK, [Next]_vars
  PROVE  TypeOK'
<1>1. CASE UNCHANGED vars
  BY <1>1 DEF TypeOK, vars, sessionVars, ioVars, threadVars
<1> QED
  BY <1>1, TypeStep

(* The call on the loop takes a step. *)
LEMMA LoopMoves ==
  ASSUME StreamInv, [Next]_vars, Moves(Loop), OwnerChecked, HandleChecked, SlotChecked, JobPart'
  PROVE  StreamInv'
<1>1. TypeOK' /\ MintedKept
  BY ManagerTyped, NextKeepsMinted DEF StreamInv
<1>2. CallsTyped' /\ WorkChecked'
  BY <1>1, LoopIsSlot, MovesTyped, MovesChecked DEF StreamInv
<1> QED
  BY <1>1, <1>2 DEF StreamInv, JobPart

(* Somebody else takes a step, and the jobs are accounted for after it. *)
LEMMA OthersStep ==
  ASSUME StreamInv, [Next]_vars, UNCHANGED <<todo, call, handle, jobsOf>>,
         \A s \in Sessions : active'[s] \subseteq active[s], JobPart'
  PROVE  StreamInv'
<1>1. TypeOK' /\ MintedKept
  BY ManagerTyped, NextKeepsMinted DEF StreamInv
<1>2. CallsTyped' /\ WorkChecked'
  BY <1>1, StillTyped, WorkStill DEF StreamInv
<1> QED
  BY <1>1, <1>2 DEF StreamInv, JobPart

-----------------------------------------------------------------------------
(* The steps of a streaming call. *)

(* The locks. *)
LEMMA LockSteps ==
  ASSUME StreamInv, TakeJobsLock \/ ReleaseJobsLock \/ \E j \in Jobs : LockJob(j) \/ Read(j)
  PROVE  StreamInv' /\ UNCHANGED vars
<1>0. /\ todo[Loop] # <<>> /\ Head(todo[Loop]) \in {"take", "release", "lock", "read"}
      /\ UNCHANGED <<vars, call, jobVars, handle, sinkVars>> /\ Moves(Loop)
  BY DEF TakeJobsLock, ReleaseJobsLock, LockJob, Read, On, At, Advance, Moves
<1>1. /\ jobsLock' \in Threads \cup {NoThread}
      /\ jobLock' \in [Jobs -> Threads \cup {NoThread}]
  <2>1. /\ jobsLock \in Threads \cup {NoThread} /\ Loop \in Threads
        /\ jobLock \in [Jobs -> Threads \cup {NoThread}]
    BY RolesAssumption DEF StreamInv, JobsAccounted, StreamTypeOK
  <2> QED
    BY <2>1 DEF TakeJobsLock, ReleaseJobsLock, LockJob, Read
<1>2. OwnerChecked /\ HandleChecked /\ SlotChecked
  BY <1>0 DEF OwnerChecked, HandleChecked, SlotChecked, vars, sessionVars, jobVars
<1>3. JobPart'
  BY <1>0, <1>1, JobsStill DEF StreamInv, JobPart
<1> QED
  BY <1>0, <1>2, <1>3, LoopMoves

(* The authorizer under the manager's lock. *)
LEMMA AuthorizeSteps ==
  ASSUME StreamInv, AuthorizePass \/ AuthorizeFail
  PROVE  StreamInv' /\ [Next]_vars
<1>0. /\ todo[Loop] # <<>> /\ Head(todo[Loop]) = "jobauth"
      /\ UNCHANGED <<call, streamVars>> /\ Moves(Loop)
  BY DEF AuthorizePass, AuthorizeFail, On, At, Advance, Moves
<1>1. Session(Loop) \in Sessions /\ Caller(Loop) \in Principals /\ Loop \in Threads
  BY <1>0, LoopIsSlot, CallKnown DEF StreamInv
<1>2. [Next]_vars
  BY <1>1 DEF AuthorizePass, AuthorizeFail, Access, Next
<1>3. HandleChecked /\ SlotChecked
  BY <1>0 DEF HandleChecked, SlotChecked, streamVars, jobVars
<1>4. JobPart'
  BY <1>0, JobsStill DEF StreamInv, JobPart, JobsAccounted, StreamTypeOK, streamVars, jobVars,
                         jobLockVars, sinkVars
<1>5. CASE AuthorizePass
  <2>1. owner'[Session(Loop)] = Caller(Loop)
    BY <1>5 DEF AuthorizePass, Authorize, Live, Denied
  <2> QED
    BY <1>0, <1>2, <1>3, <1>4, <2>1, LoopMoves DEF OwnerChecked
<1>6. CASE AuthorizeFail
  <2>1. TypeOK' /\ MintedKept
    BY <1>2, ManagerTyped, NextKeepsMinted DEF StreamInv
  <2>2. CallsTyped'
    BY <1>0, <2>1, LoopIsSlot, MovesTyped DEF StreamInv
  <2>3. todo'[Loop] = <<"release", "end">>
    BY <1>6, LoopIsSlot DEF AuthorizeFail, StreamInv, CallsTyped
  <2>4. \A i \in DOMAIN todo'[Loop] : todo'[Loop][i] \in {"end", "release"}
    BY <2>3
  <2> QED
    BY <1>2, <1>4, <2>1, <2>2, <2>4, WorkOver DEF StreamInv, JobPart
<1> QED
  BY <1>5, <1>6

(* start_job: the slot's job is over when it leaves the table, and the new *)
(* id was nobody's.                                                        *)
LEMMA StartJobStep ==
  ASSUME StreamInv, NEW j \in Jobs, StartJob(j)
  PROVE  StreamInv' /\ UNCHANGED vars
<1> DEFINE s == Session(Loop)
<1>0. /\ todo[Loop] # <<>> /\ Head(todo[Loop]) = "start" /\ Moves(Loop) /\ UNCHANGED owner
      /\ UNCHANGED <<vars, call, sink, doomed, jobLock>> /\ jobsLock' = NoThread
  BY DEF StartJob, On, At, Advance, Abort, Moves, sinkVars, vars, sessionVars
<1>1. s \in Sessions /\ Loop \in Threads
  BY <1>0, LoopIsSlot, CallKnown DEF StreamInv
<1>2. OwnerChecked /\ SlotChecked
  BY <1>0 DEF OwnerChecked, SlotChecked
<1>3. CASE SlotTaken(s)
  <2>1. UNCHANGED <<jobVars, handle, sinkVars>> /\ todo' = [todo EXCEPT ![Loop] = <<"end">>]
    BY <1>0, <1>3 DEF StartJob, Abort, sinkVars
  <2>2. JobPart'
    BY <1>0, <2>1, JobsStill DEF StreamInv, JobPart, JobsAccounted, StreamTypeOK
  <2>3. TypeOK' /\ MintedKept /\ CallsTyped'
    BY <1>0, ManagerTyped, NextKeepsMinted, LoopIsSlot, MovesTyped DEF StreamInv
  <2>4. todo'[Loop] = <<"end">>
    BY <2>1, LoopIsSlot DEF StreamInv, CallsTyped
  <2>5. \A i \in DOMAIN todo'[Loop] : todo'[Loop][i] \in {"end", "release"}
    BY <2>4
  <2> QED
    BY <1>0, <2>2, <2>3, <2>5, WorkOver DEF StreamInv, JobPart
<1>4. CASE ~SlotTaken(s)
  <2>0. /\ jobState[j] = "unused"
        /\ jobState' = [jobState EXCEPT ![j] = "live"]
        /\ jobsOf' = [jobsOf EXCEPT ![s] = @ \cup {j}]
        /\ table' = (table \ active[s]) \cup {j}
        /\ active' = [active EXCEPT ![s] = {j}]
        /\ handle' = {j}
    BY <1>4 DEF StartJob
  <2>1. /\ StreamTypeOK /\ SlotReachable /\ NoLostJob /\ JobsOwned
    BY DEF StreamInv, JobsAccounted
  <2>2. /\ jobState'[j] = "live" /\ \A k \in Jobs : k # j => jobState'[k] = jobState[k]
        /\ jobsOf'[s] = jobsOf[s] \cup {j} /\ \A r \in Sessions : r # s => jobsOf'[r] = jobsOf[r]
        /\ active'[s] = {j} /\ \A r \in Sessions : r # s => active'[r] = active[r]
        /\ \A r \in Sessions : j \notin jobsOf[r] /\ active[r] \subseteq Jobs
        /\ \A r \in Sessions : jobsOf[r] \subseteq Jobs
    BY <1>1, <2>0, <2>1 DEF StreamTypeOK, JobsOwned
  <2>3. StreamTypeOK'
    <3>1. /\ jobState' \in [Jobs -> {"unused", "live"} \cup Terminal]
          /\ jobsOf' \in [Sessions -> SUBSET Jobs] /\ active' \in [Sessions -> SUBSET Jobs]
          /\ table' \in SUBSET Jobs /\ handle' \in SUBSET Jobs
      BY <1>1, <2>0, <2>1 DEF StreamTypeOK
    <3> QED
      BY <1>0, <2>1, <3>1 DEF StreamTypeOK
  <2>4. SlotReachable'
    <3> SUFFICES ASSUME NEW r \in Sessions, NEW k \in active'[r]
                 PROVE  k \in table' /\ k \in jobsOf'[r] /\ jobState'[k] # "cancelled" /\ active'[r] = {k}
      BY DEF SlotReachable, Reachable
    <3>1. CASE r = s
      BY <2>0, <2>2, <3>1
    <3>2. CASE r # s
      <4>1. /\ k \in active[r] /\ k \in table /\ k \in jobsOf[r] /\ jobState[k] # "cancelled"
            /\ active[r] = {k}
        BY <2>1, <2>2, <3>2 DEF SlotReachable, Reachable
      <4>2. k \notin active[s]
        BY <1>1, <2>1, <3>2, <4>1 DEF SlotReachable, Reachable, JobsOwned
      <4>3. k # j /\ k \in Jobs
        BY <2>2, <4>1
      <4> QED
        BY <2>0, <2>2, <3>2, <4>1, <4>2, <4>3
    <3> QED
      BY <3>1, <3>2
  <2>5. NoLostJob'
    <3> SUFFICES ASSUME NEW k \in Jobs, jobState'[k] = "live", k # j
                 PROVE  k \in table' \/ \E t \in Threads : k \in doomed'[t]
      BY <2>0 DEF NoLostJob
    <3>1. jobState[k] = "live"
      BY <2>2
    <3>2. k \notin active[s]
      BY <1>1, <1>4, <2>1, <3>1 DEF SlotTaken, SlotReachable, Reachable, Terminal
    <3> QED
      BY <1>0, <2>0, <2>1, <3>1, <3>2 DEF NoLostJob
  <2>6. JobsOwned'
    <3>1. ASSUME NEW q \in Sessions, NEW r \in Sessions, NEW k \in jobsOf'[q]
          PROVE  (k \in jobsOf'[r] => q = r) /\ jobState'[k] # "unused"
      <4>1. CASE k = j
        BY <1>1, <2>2, <3>1, <4>1
      <4>2. CASE k # j
        <5>1. k \in jobsOf[q] /\ k \in Jobs /\ (k \in jobsOf'[r] => k \in jobsOf[r])
          BY <1>1, <2>2, <3>1, <4>2
        <5> QED
          BY <2>1, <2>2, <4>2, <5>1 DEF JobsOwned
      <4> QED
        BY <4>1, <4>2
    <3>2. \A t \in Threads : \A k \in doomed'[t] : k \notin table' /\ jobState'[k] # "unused"
      <4> SUFFICES ASSUME NEW t \in Threads, NEW k \in doomed[t]
                   PROVE  k \notin table' /\ jobState'[k] # "unused"
        BY <1>0
      <4>1. k \notin table /\ jobState[k] # "unused" /\ k \in Jobs
        BY <2>1 DEF JobsOwned, StreamTypeOK
      <4> QED
        BY <2>0, <2>2, <4>1
    <3> QED
      BY <2>0, <3>1, <3>2 DEF JobsOwned
  <2>7. HandleChecked
    BY <1>1, <2>0, <2>2 DEF HandleChecked
  <2> QED
    BY <1>0, <1>2, <2>3, <2>4, <2>5, <2>6, <2>7, LoopMoves DEF JobPart, JobsAccounted
<1> QED
  BY <1>3, <1>4

(* _authorized_job, and cancel's emptying of the slot. *)
LEMMA FindJobStep ==
  ASSUME StreamInv, NEW j \in Jobs, FindJob(j)
  PROVE  StreamInv' /\ UNCHANGED vars
<1> DEFINE s == Session(Loop)
<1>0. /\ todo[Loop] # <<>> /\ Head(todo[Loop]) \in {"find", "unslot"} /\ Moves(Loop)
      /\ UNCHANGED owner /\ UNCHANGED <<vars, call, jobState, jobsOf, table, jobLock, handle, sink, doomed>>
      /\ jobsLock' = NoThread /\ j \in handle
      /\ \/ active' = active
         \/ active' = [active EXCEPT ![s] = {}]
      /\ Head(todo[Loop]) = "unslot" /\ Reachable(j, s) => active' = [active EXCEPT ![s] = {}]
      /\ ~Reachable(j, s) => todo' = [todo EXCEPT ![Loop] = <<"end">>]
  BY DEF FindJob, On, At, AdvanceIf, Advance, Abort, Moves, sinkVars, vars, sessionVars
<1>1. s \in Sessions /\ Loop \in Threads
  BY <1>0, LoopIsSlot, CallKnown DEF StreamInv
<1>2. /\ StreamTypeOK /\ SlotReachable /\ NoLostJob /\ JobsOwned
  BY DEF StreamInv, JobsAccounted
<1>3. /\ active' \in [Sessions -> SUBSET Jobs]
      /\ \A r \in Sessions : active'[r] = active[r] \/ active'[r] = {}
  BY <1>0, <1>1, <1>2 DEF StreamTypeOK
<1>4. JobPart'
  <2>1. StreamTypeOK'
    BY <1>0, <1>2, <1>3 DEF StreamTypeOK
  <2>2. SlotReachable'
    BY <1>0, <1>2, <1>3 DEF SlotReachable, Reachable
  <2>3. NoLostJob' /\ JobsOwned'
    BY <1>0, <1>2 DEF NoLostJob, JobsOwned
  <2> QED
    BY <2>1, <2>2, <2>3 DEF JobPart, JobsAccounted
<1>5. CASE Reachable(j, s)
  <2>1. handle = {j} /\ j \in jobsOf[s]
    BY <1>0, <1>2, <1>5 DEF JobsOwned, Reachable
  <2>2. OwnerChecked /\ HandleChecked
    BY <1>0, <2>1 DEF OwnerChecked, HandleChecked
  <2>3. SlotChecked
    <3>1. CASE Head(todo[Loop]) = "unslot"
      <4>1. active'[s] = {}
        BY <1>0, <1>1, <1>2, <1>5, <3>1 DEF StreamTypeOK
      <4>2. \A r \in Sessions : r # s => j \notin active[r]
        BY <1>1, <1>2, <2>1 DEF SlotReachable, Reachable, JobsOwned
      <4> QED
        BY <1>0, <1>3, <2>1, <4>1, <4>2 DEF SlotChecked
    <3>2. CASE Head(todo[Loop]) = "find"
      BY <1>0, <1>3, <3>2 DEF SlotChecked
    <3> QED
      BY <1>0, <3>1, <3>2
  <2> QED
    BY <1>0, <1>4, <2>2, <2>3, LoopMoves
<1>6. CASE ~Reachable(j, s)
  <2>1. TypeOK' /\ MintedKept /\ CallsTyped'
    BY <1>0, ManagerTyped, NextKeepsMinted, LoopIsSlot, MovesTyped DEF StreamInv
  <2>2. todo'[Loop] = <<"end">>
    BY <1>0, <1>6, LoopIsSlot DEF StreamInv, CallsTyped
  <2>3. \A i \in DOMAIN todo'[Loop] : todo'[Loop][i] \in {"end", "release"}
    BY <2>2
  <2> QED
    BY <1>0, <1>4, <2>1, <2>3, WorkOver DEF StreamInv, JobPart
<1> QED
  BY <1>5, <1>6

(* A pump brings no job back to life and cancels none. *)
LEMMA PumpStep ==
  ASSUME StreamInv, NEW j \in Jobs, Pump(j)
  PROVE  StreamInv' /\ UNCHANGED vars
<1>0. /\ todo[Loop] # <<>> /\ Head(todo[Loop]) = "pump" /\ Moves(Loop) /\ UNCHANGED owner
      /\ UNCHANGED <<vars, call, jobsOf, table, active, jobsLock, handle, sink, doomed>>
      /\ jobLock' = [jobLock EXCEPT ![j] = NoThread]
  BY DEF Pump, On, At, Advance, Moves, sinkVars, vars, sessionVars
<1>1. PICK x \in Pumped(j) : jobState' = [jobState EXCEPT ![j] = x]
  BY DEF Pump
<1>2. StreamTypeOK
  BY DEF StreamInv, JobsAccounted
<1>3. jobState[j] \in {"unused", "live"} \cup Terminal
  BY <1>2 DEF StreamTypeOK
<1>4. x = jobState[j] \/ (jobState[j] = "live" /\ x \in {"ended", "done"})
        \/ (jobState[j] = "ended" /\ x = "done")
  BY <1>1 DEF Pumped
<1>5. /\ x \in {"unused", "live"} \cup Terminal
      /\ jobState[j] # "unused" => x # "unused"
      /\ x = "live" => jobState[j] = "live"
      /\ x = "cancelled" => jobState[j] = "cancelled"
  BY <1>3, <1>4 DEF Terminal
<1>6. /\ doomed' \in [Threads -> SUBSET Jobs] /\ \A t \in Threads : doomed'[t] = doomed[t]
      /\ jobsLock' \in Threads \cup {NoThread} /\ jobLock' \in [Jobs -> Threads \cup {NoThread}]
  BY <1>0, <1>2 DEF StreamTypeOK
<1>7. JobPart'
  BY <1>0, <1>1, <1>5, <1>6, OneJobChanges DEF StreamInv, JobPart
<1>8. OwnerChecked /\ HandleChecked /\ SlotChecked
  BY <1>0 DEF OwnerChecked, HandleChecked, SlotChecked
<1> QED
  BY <1>0, <1>7, <1>8, LoopMoves

(* cancel works on a job that left the slot at its unslot step. *)
LEMMA CancelJobStep ==
  ASSUME StreamInv, NEW j \in Jobs, CancelJob(j)
  PROVE  StreamInv' /\ UNCHANGED vars
<1>0. /\ todo[Loop] # <<>> /\ Head(todo[Loop]) = "cancel" /\ Moves(Loop) /\ UNCHANGED owner
      /\ UNCHANGED <<vars, call, jobsOf, table, active, jobsLock, handle, sink, doomed>>
      /\ jobState' = [jobState EXCEPT ![j] = Cancelled(j)]
      /\ jobLock' = [jobLock EXCEPT ![j] = NoThread] /\ j \in handle
  <2>1. todo' = [todo EXCEPT ![Loop] = Tail(@)] \/ todo' = [todo EXCEPT ![Loop] = <<"end">>]
    BY DEF CancelJob
  <2> QED
    BY <2>1 DEF CancelJob, On, At, Moves, sinkVars, vars, sessionVars
<1>1. StreamTypeOK /\ WorkChecked
  BY DEF StreamInv, JobsAccounted
<1>2. /\ Cancelled(j) \in {"unused", "live"} \cup Terminal
      /\ Cancelled(j) # "unused" /\ Cancelled(j) # "live"
  BY DEF Cancelled, EffectiveDone, Terminal
<1>3. \A s \in Sessions : j \notin active[s]
  <2>1. 1 \in DOMAIN todo[Loop] /\ todo[Loop][1] = "cancel"
    <3>1. todo[Loop] \in Seq(AllSteps) /\ Len(todo[Loop]) > 0 /\ Head(todo[Loop]) = todo[Loop][1]
      BY <1>0, LoopIsSlot, CallKnown DEF StreamInv
    <3> HIDE DEF AllSteps
    <3> QED
      BY <1>0, <3>1
  <2>2. ~Before(Loop, 1, {"unslot"})
    BY DEF Before
  <2> QED
    BY <1>0, <1>1, <2>1, <2>2 DEF WorkChecked
<1>4. /\ doomed' \in [Threads -> SUBSET Jobs] /\ \A t \in Threads : doomed'[t] = doomed[t]
      /\ jobsLock' \in Threads \cup {NoThread} /\ jobLock' \in [Jobs -> Threads \cup {NoThread}]
  BY <1>0, <1>1 DEF StreamTypeOK
<1>5. JobPart'
  BY <1>0, <1>2, <1>3, <1>4, OneJobChanges DEF StreamInv, JobPart
<1>6. OwnerChecked /\ HandleChecked /\ SlotChecked
  BY <1>0 DEF OwnerChecked, HandleChecked, SlotChecked
<1> QED
  BY <1>0, <1>5, <1>6, LoopMoves

-----------------------------------------------------------------------------
(* discard_session. *)
LEMMA DiscardTableStep ==
  ASSUME StreamInv, NEW t \in Threads, DiscardTable(t)
  PROVE  StreamInv' /\ UNCHANGED vars
<1>0. PICK s \in Sessions :
        /\ sink' = [sink EXCEPT ![t] = {s}]
        /\ doomed' = [doomed EXCEPT ![t] = table \cap jobsOf[s]]
        /\ table' = table \ jobsOf[s]
        /\ active' = [active EXCEPT ![s] = {}]
  BY DEF DiscardTable
<1>1. /\ UNCHANGED <<vars, todo, call, handle, jobsOf, jobState, jobsLock, jobLock>> /\ sink[t] = {}
  BY DEF DiscardTable, allVars, dispatchVars, jobLockVars
<1>2. /\ StreamTypeOK /\ SlotReachable /\ NoLostJob /\ JobsOwned
  BY DEF StreamInv, JobsAccounted
<1>3. /\ active'[s] = {} /\ \A r \in Sessions : r # s => active'[r] = active[r]
      /\ doomed[t] = {} /\ doomed'[t] = table \cap jobsOf[s]
      /\ \A u \in Threads : u # t => doomed'[u] = doomed[u]
      /\ sink'[t] = {s} /\ \A u \in Threads : u # t => sink'[u] = sink[u]
  BY <1>0, <1>1, <1>2 DEF StreamTypeOK
<1>4. StreamTypeOK'
  <2>1. /\ sink' \in [Threads -> SUBSET Sessions] /\ doomed' \in [Threads -> SUBSET Jobs]
        /\ table' \in SUBSET Jobs /\ active' \in [Sessions -> SUBSET Jobs]
    BY <1>0, <1>2 DEF StreamTypeOK
  <2>2. \A u \in Threads : sink'[u] = {} => doomed'[u] = {}
    BY <1>2, <1>3 DEF StreamTypeOK
  <2> QED
    BY <1>1, <1>2, <2>1, <2>2 DEF StreamTypeOK
<1>5. SlotReachable'
  <2> SUFFICES ASSUME NEW r \in Sessions, NEW k \in active'[r]
               PROVE  k \in table' /\ k \in jobsOf[r] /\ jobState[k] # "cancelled" /\ active'[r] = {k}
    BY <1>1 DEF SlotReachable, Reachable
  <2>1. r # s /\ k \in active[r]
    BY <1>3
  <2>2. k \in table /\ k \in jobsOf[r] /\ jobState[k] # "cancelled" /\ active[r] = {k}
    BY <1>2, <2>1 DEF SlotReachable, Reachable
  <2>3. k \notin jobsOf[s]
    BY <1>2, <2>1, <2>2 DEF JobsOwned
  <2> QED
    BY <1>0, <1>3, <2>1, <2>2, <2>3
<1>6. NoLostJob'
  <2> SUFFICES ASSUME NEW k \in Jobs, jobState[k] = "live"
               PROVE  k \in table' \/ \E u \in Threads : k \in doomed'[u]
    BY <1>1 DEF NoLostJob
  <2>1. CASE k \in table
    BY <1>0, <1>3, <2>1
  <2>2. ASSUME NEW u \in Threads, k \in doomed[u]
        PROVE  k \in doomed'[u]
    BY <1>3, <2>2
  <2> QED
    BY <1>2, <2>1, <2>2 DEF NoLostJob
<1>7. JobsOwned'
  <2>1. ASSUME NEW u \in Threads, NEW k \in doomed'[u]
        PROVE  k \notin table' /\ jobState'[k] # "unused"
    BY <1>0, <1>1, <1>2, <1>3, <2>1 DEF JobsOwned
  <2> QED
    BY <1>1, <1>2, <2>1 DEF JobsOwned
<1>8. \A r \in Sessions : active'[r] \subseteq active[r]
  BY <1>3
<1> QED
  BY <1>1, <1>4, <1>5, <1>6, <1>7, <1>8, OthersStep DEF JobPart, JobsAccounted

(* Each job it took is cancelled off the table, under the job's own lock. *)
LEMMA DiscardJobStep ==
  ASSUME StreamInv, NEW t \in Threads, NEW j \in Jobs, DiscardLock(t, j) \/ DiscardCancel(t, j)
  PROVE  StreamInv' /\ UNCHANGED vars
<1>0. UNCHANGED <<vars, todo, call, handle, jobsOf, table, active, jobsLock, sink>> /\ j \in doomed[t]
  BY DEF DiscardLock, DiscardCancel, allVars, dispatchVars, jobVars, sinkVars
<1>1. /\ StreamTypeOK /\ SlotReachable /\ JobsOwned
  BY DEF StreamInv, JobsAccounted
<1>2. CASE DiscardLock(t, j)
  <2>1. UNCHANGED <<jobVars, sinkVars>> /\ jobLock' = [jobLock EXCEPT ![j] = t]
    BY <1>2 DEF DiscardLock
  <2>2. jobLock' \in [Jobs -> Threads \cup {NoThread}] /\ jobsLock' \in Threads \cup {NoThread}
    BY <1>0, <1>1, <2>1 DEF StreamTypeOK
  <2>3. JobPart'
    BY <1>0, <2>1, <2>2, JobsStill DEF StreamInv, JobPart
  <2> QED
    BY <1>0, <2>3, OthersStep
<1>3. CASE DiscardCancel(t, j)
  <2>1. /\ jobState' = [jobState EXCEPT ![j] = Cancelled(j)]
        /\ jobLock' = [jobLock EXCEPT ![j] = NoThread]
        /\ doomed' = [doomed EXCEPT ![t] = @ \ {j}]
    BY <1>3 DEF DiscardCancel
  <2>2. /\ Cancelled(j) \in {"unused", "live"} \cup Terminal
        /\ Cancelled(j) # "unused" /\ Cancelled(j) # "live"
    BY DEF Cancelled, EffectiveDone, Terminal
  <2>3. \A s \in Sessions : j \notin active[s]
    BY <1>0, <1>1 DEF SlotReachable, Reachable, JobsOwned
  <2>4. /\ doomed' \in [Threads -> SUBSET Jobs]
        /\ \A u \in Threads : doomed'[u] \subseteq doomed[u]
        /\ \A u \in Threads : \A k \in doomed[u] : k \notin doomed'[u] => k = j
        /\ jobsLock' \in Threads \cup {NoThread} /\ jobLock' \in [Jobs -> Threads \cup {NoThread}]
    BY <1>0, <1>1, <2>1 DEF StreamTypeOK
  <2>5. JobPart'
    <3>1. JobPart /\ j \in Jobs
      BY DEF StreamInv, JobPart
    <3>2. UNCHANGED <<jobsOf, table, active, handle, sink>> /\ jobState' = [jobState EXCEPT ![j] = Cancelled(j)]
      BY <1>0, <2>1
    <3> QED
      BY ONLY <3>1, <3>2, <2>2, <2>3, <2>4, OneJobChanges
  <2> QED
    BY <1>0, <2>5, OthersStep
<1> QED
  BY <1>2, <1>3

LEMMA DiscardReturnStep ==
  ASSUME StreamInv, NEW t \in Threads, DiscardReturn(t)
  PROVE  StreamInv' /\ [Next]_vars
<1>0. /\ UNCHANGED <<todo, call, handle, jobState, jobsOf, table, active, jobsLock, jobLock, doomed>>
      /\ sink' = [sink EXCEPT ![t] = {}] /\ doomed[t] = {} /\ Notify(t)
  BY DEF DiscardReturn, dispatchVars, jobVars, jobLockVars
<1>1. [Next]_vars
  BY <1>0 DEF Next, EvictionStep
<1>2. JobPart'
  <2>1. StreamTypeOK'
    BY <1>0 DEF StreamInv, JobsAccounted, StreamTypeOK
  <2>2. SlotReachable' /\ NoLostJob' /\ JobsOwned'
    BY <1>0 DEF StreamInv, JobsAccounted, SlotReachable, Reachable, NoLostJob, JobsOwned
  <2> QED
    BY <2>1, <2>2 DEF JobPart, JobsAccounted
<1> QED
  BY <1>0, <1>1, <1>2, OthersStep

-----------------------------------------------------------------------------
(* A streaming script checks before it works. *)
JobScripted(q) ==
  /\ q \in Seq(AllSteps)
  /\ \A i \in 1 .. Len(q) :
       /\ q[i] \in {"start", "find", "unslot", "lock", "pump", "read", "cancel"} =>
            \E k \in 1 .. i - 1 : q[k] = "jobauth"
       /\ q[i] \in {"lock", "pump", "read", "cancel"} =>
            \E k \in 1 .. i - 1 : q[k] \in {"start", "find", "unslot"}
       /\ q[i] = "cancel" =>
            /\ \E k \in 1 .. i - 1 : q[k] = "unslot"
            /\ \A k \in 1 .. Len(q) : q[k] # "start"

LEMMA ScriptsCheck ==
  /\ \A tool \in DOMAIN StreamScript : JobScripted(StreamScript[tool])
  /\ \A q \in Seq(Steps) : JobScripted(q)
<1> USE DEF JobScripted, AllSteps, Steps, ManagerSteps, LoopSteps, JobSteps
<1>1. JobScripted(StreamScript["start"])
  BY DEF StreamScript
<1>2. JobScripted(StreamScript["fetch"])
  BY DEF StreamScript
<1>3. JobScripted(StreamScript["watch"])
  BY DEF StreamScript
<1>4. JobScripted(StreamScript["cancel"])
  BY DEF StreamScript
<1>5. DOMAIN StreamScript = {"start", "fetch", "watch", "cancel"}
  BY DEF StreamScript
<1> HIDE DEF JobScripted, AllSteps, Steps, ManagerSteps, LoopSteps, JobSteps
<1>6. ASSUME NEW q \in Seq(Steps)
      PROVE  JobScripted(q)
  <2>1. q \in Seq(AllSteps) /\ \A i \in 1 .. Len(q) : q[i] \in Steps
    BY DEF AllSteps
  <2>2. Steps \cap JobSteps = {}
    BY DEF Steps, ManagerSteps, LoopSteps, JobSteps
  <2>3. \A i \in 1 .. Len(q) : q[i] \notin JobSteps
    BY <2>1, <2>2
  <2> QED
    BY <2>1, <2>3 DEF JobScripted, JobSteps
<1> QED
  BY <1>1, <1>2, <1>3, <1>4, <1>5, <1>6

(* begin_call, of a streaming tool or of another. *)
LEMMA StreamBegins ==
  ASSUME StreamInv, NEW c \in Slots, NEW tool \in Tools \cup {"analyze"} \cup DOMAIN StreamScript,
         NEW script, JobScripted(script), NEW s \in Sessions, NEW p \in Principals,
         Begin(c, tool, script, s, p), UNCHANGED <<jobVars, jobLockVars, sinkVars>>,
         handle' \in SUBSET Jobs, \A j \in handle' : handle' = {j},
         c # Loop => UNCHANGED handle
  PROVE  StreamInv' /\ [Next]_vars
<1>0. /\ todo' = [todo EXCEPT ![c] = script] /\ status[s] # "unused"
      /\ call' = [call EXCEPT ![c] = [tool |-> tool, session |-> s, caller |-> p]]
      /\ BeginCall(Loop, s, p)
  BY DEF Begin
<1>1. [Next]_vars
  BY <1>0, RolesAssumption DEF Next
<1>2. TypeOK' /\ MintedKept
  BY <1>1, ManagerTyped, NextKeepsMinted DEF StreamInv
<1>3. /\ todo \in [Slots -> Seq(AllSteps)] /\ call \in [Slots -> StreamCalls \cup {NoCall}]
      /\ \A d \in Slots : todo[d] # <<>> =>
           call[d] \in StreamCalls /\ status[Session(d)] # "unused" /\ Session(d) \in Sessions
  BY CallKnown DEF StreamInv, CallsTyped, AllSteps
<1>4. /\ [tool |-> tool, session |-> s, caller |-> p] \in StreamCalls /\ script \in Seq(AllSteps)
  BY DEF StreamCalls, JobScripted
<1>5. CallsTyped'
  <2>1. todo' \in [Slots -> Seq(AllSteps)] /\ call' \in [Slots -> StreamCalls \cup {NoCall}]
    BY <1>0, <1>3, <1>4
  <2>2. ASSUME NEW d \in Slots, todo'[d] # <<>>
        PROVE  call'[d] \in StreamCalls /\ status'[Session(d)'] # "unused"
    <3>1. CASE d = c
      BY <1>0, <1>2, <1>3, <1>4, <3>1 DEF Session, MintedKept
    <3>2. CASE d # c
      BY <1>0, <1>2, <1>3, <2>2, <3>2 DEF Session, MintedKept
    <3> QED
      BY <3>1, <3>2
  <2> QED
    BY <2>1, <2>2 DEF CallsTyped, AllSteps
<1>6. JobPart'
  <2>1. StreamTypeOK'
    BY DEF StreamInv, JobsAccounted, StreamTypeOK, jobVars, jobLockVars, sinkVars
  <2>2. SlotReachable' /\ NoLostJob' /\ JobsOwned'
    BY DEF StreamInv, JobsAccounted, SlotReachable, Reachable, NoLostJob, JobsOwned, jobVars, sinkVars
  <2> QED
    BY <2>1, <2>2 DEF JobPart, JobsAccounted
<1>7. WorkChecked'
  <2>1. CASE c = Loop
    <3>1. todo'[Loop] = script /\ DOMAIN script = 1 .. Len(script)
      BY <1>0, <1>3, <1>4, <2>1
    <3> SUFFICES ASSUME NEW i \in 1 .. Len(script)
                 PROVE  WorkChecked!(i)'
      BY <3>1 DEF WorkChecked
    <3>2. JobScripted(script)!2!(i)
      BY DEF JobScripted
    <3> QED
      BY <3>1, <3>2 DEF Before
  <2>2. CASE c # Loop
    <3>1. todo'[Loop] = todo[Loop] /\ call'[Loop] = call[Loop]
      BY <1>0, <1>3, <2>2, LoopIsSlot
    <3> QED
      BY <1>2, <2>2, <3>1, WorkStill DEF StreamInv, jobVars
  <2> QED
    BY <2>1, <2>2
<1> QED
  BY <1>1, <1>2, <1>5, <1>6, <1>7 DEF StreamInv, JobPart

(* end_call. *)
LEMMA StreamEnds ==
  ASSUME StreamInv, [Next]_vars, NEW c \in Slots, UNCHANGED streamVars,
         todo' = [todo EXCEPT ![c] = <<>>], call' = [call EXCEPT ![c] = NoCall]
  PROVE  StreamInv'
<1> USE DEF streamVars
<1>2. TypeOK' /\ MintedKept
  BY ManagerTyped, NextKeepsMinted DEF StreamInv
<1>3. /\ todo \in [Slots -> Seq(AllSteps)] /\ call \in [Slots -> StreamCalls \cup {NoCall}]
      /\ \A d \in Slots : todo[d] # <<>> =>
           call[d] \in StreamCalls /\ status[Session(d)] # "unused" /\ Session(d) \in Sessions
      /\ <<>> \in Seq(AllSteps)
  BY CallKnown DEF StreamInv, CallsTyped, AllSteps
<1>4. \A d \in Slots : d # c => todo'[d] = todo[d] /\ call'[d] = call[d]
  BY <1>3
<1>5. todo'[c] = <<>>
  BY <1>3
<1>6. CallsTyped'
  <2>1. todo' \in [Slots -> Seq(AllSteps)] /\ call' \in [Slots -> StreamCalls \cup {NoCall}]
    BY <1>3
  <2>2. ASSUME NEW d \in Slots, todo'[d] # <<>>
        PROVE  call'[d] \in StreamCalls /\ status'[Session(d)'] # "unused"
    BY <1>2, <1>3, <1>4, <1>5, <2>2 DEF Session, MintedKept
  <2> QED
    BY <2>1, <2>2 DEF CallsTyped, AllSteps
<1>7. JobPart'
  BY JobsStill DEF StreamInv, JobPart, JobsAccounted, StreamTypeOK, jobLockVars
<1>8. WorkChecked'
  <2>1. CASE c = Loop
    BY <1>5, <2>1 DEF WorkChecked
  <2>2. CASE c # Loop
    BY <1>2, <1>4, <2>2, LoopIsSlot, WorkStill DEF StreamInv, jobVars
  <2> QED
    BY <2>1, <2>2
<1> QED
  BY <1>2, <1>6, <1>7, <1>8 DEF StreamInv, JobPart

-----------------------------------------------------------------------------
(* A step beside the jobs. *)
LEMMA BesideStep ==
  ASSUME StreamInv, [Next]_vars, UNCHANGED <<dispatchVars, streamVars>>
  PROVE  StreamInv'
<1>1. /\ UNCHANGED <<todo, call, handle, jobsOf, active>>
      /\ UNCHANGED <<jobVars, handle, sinkVars, jobsLock, jobLock>>
  BY DEF dispatchVars, streamVars, jobVars, jobLockVars
<1>2. JobPart'
  BY <1>1, JobsStill DEF StreamInv, JobPart, JobsAccounted, StreamTypeOK
<1> QED
  BY <1>1, <1>2, OthersStep

LEMMA PlainStep ==
  ASSUME StreamInv, NEW c \in Slots, CallStep(c), UNCHANGED streamVars
  PROVE  StreamInv' /\ [Next]_vars
<1>0. /\ TypeOK /\ CallsTyped /\ WorkChecked
  BY DEF StreamInv
<1>1. /\ [Next]_vars /\ todo[c] # <<>> /\ Head(todo[c]) \notin JobSteps
      /\ \/ Moves(c)
         \/ todo' = [todo EXCEPT ![c] = <<>>] /\ call' = [call EXCEPT ![c] = NoCall]
  BY <1>0, PlainCallStep
<1>2. CASE Moves(c)
  <2>1. TypeOK' /\ MintedKept
    BY <1>0, <1>1, ManagerTyped, NextKeepsMinted
  <2>2. CallsTyped'
    BY <1>0, <1>2, <2>1, MovesTyped
  <2>3. UNCHANGED <<handle, jobsOf, active>>
    BY DEF streamVars, jobVars
  <2>4. c = Loop => OwnerChecked /\ HandleChecked /\ SlotChecked
    <3> SUFFICES ASSUME c = Loop PROVE OwnerChecked /\ HandleChecked /\ SlotChecked
      OBVIOUS
    <3>1. owner'[Session(Loop)] = owner[Session(Loop)]
      BY <1>0, <1>1, <2>1, CallKnown DEF MintedKept, CallsTyped
    <3>2. Head(todo[Loop]) \notin {"jobauth", "start", "find", "unslot"}
      BY <1>1 DEF JobSteps
    <3> QED
      BY <2>3, <3>1, <3>2 DEF OwnerChecked, HandleChecked, SlotChecked
  <2>5. WorkChecked'
    BY <1>0, <1>2, <2>1, <2>3, <2>4, MovesChecked
  <2>6. JobPart'
    BY JobsStill DEF StreamInv, JobPart, JobsAccounted, StreamTypeOK, streamVars, jobLockVars
  <2> QED
    BY <1>1, <2>1, <2>2, <2>5, <2>6 DEF StreamInv, JobPart
<1>3. CASE todo' = [todo EXCEPT ![c] = <<>>] /\ call' = [call EXCEPT ![c] = NoCall]
  BY <1>1, <1>3, StreamEnds
<1> QED
  BY <1>1, <1>2, <1>3

LEMMA StreamNextStep ==
  ASSUME StreamInv, [StreamNext]_everything
  PROVE  StreamInv' /\ [Next]_vars
<1>1. CASE UNCHANGED everything
  <2>1. UNCHANGED vars /\ UNCHANGED <<dispatchVars, streamVars>>
    BY <1>1 DEF everything, allVars
  <2> QED
    BY <2>1, BesideStep
<1>2. CASE StreamStep
  BY <1>2, LockSteps, AuthorizeSteps, StartJobStep, FindJobStep, PumpStep, CancelJobStep DEF StreamStep
<1>3. ASSUME NEW t \in Threads, DiscardStep(t)
      PROVE  StreamInv' /\ [Next]_vars
  BY <1>3, DiscardTableStep, DiscardJobStep, DiscardReturnStep DEF DiscardStep
<1>4. ASSUME NEW tool \in DOMAIN StreamScript, NEW s \in Sessions, NEW p \in Principals, NEW j \in Jobs,
             BeginStream(tool, s, p, j)
      PROVE  StreamInv' /\ [Next]_vars
  <2>1. /\ Begin(Loop, tool, StreamScript[tool], s, p) /\ UNCHANGED <<jobVars, jobLockVars, sinkVars>>
        /\ handle' \in {{}, {j}}
    BY <1>4 DEF BeginStream
  <2>2. JobScripted(StreamScript[tool])
    BY ScriptsCheck
  <2> QED
    BY <2>1, <2>2, LoopIsSlot, StreamBegins
<1>5. ASSUME NEW c \in Slots, NEW tool \in Tools \cup {"analyze"}, NEW script \in Seq(Steps),
             NEW s \in Sessions, NEW p \in Principals, Begin(c, tool, script, s, p),
             UNCHANGED streamVars
      PROVE  StreamInv' /\ [Next]_vars
  <2>1. handle' \in SUBSET Jobs /\ \A j \in handle' : handle' = {j}
    BY <1>5 DEF StreamInv, JobsAccounted, StreamTypeOK, JobsOwned, streamVars
  <2>2. JobScripted(script)
    BY ScriptsCheck
  <2> QED
    BY <1>5, <2>1, <2>2, StreamBegins DEF streamVars
<1>6. ASSUME NEW s \in Sessions, NEW p \in Principals, NEW tool \in Tools, BeginInline(tool, s, p),
             UNCHANGED streamVars
      PROVE  StreamInv' /\ [Next]_vars
  <2>1. Script[tool] \in Seq(Steps)
    BY ScriptsScripted DEF Scripted
  <2> QED
    BY <1>5, <1>6, <2>1, LoopIsSlot DEF BeginInline
<1>7. ASSUME NEW s \in Sessions, NEW p \in Principals, NEW c \in Slots, BeginOffloaded(c, s, p),
             UNCHANGED streamVars
      PROVE  StreamInv' /\ [Next]_vars
  <2>1. Offloaded \in Seq(Steps)
    BY ScriptsScripted DEF Scripted
  <2> QED
    BY <1>5, <1>7, <2>1 DEF BeginOffloaded
<1>8. ASSUME NEW s \in Sessions, NEW p \in Principals, CreateCall(s, p), UNCHANGED streamVars
      PROVE  StreamInv' /\ [Next]_vars
  <2>1. [Next]_vars /\ UNCHANGED dispatchVars
    BY <1>8, RolesAssumption DEF CreateCall, Next
  <2> QED
    BY <1>8, <2>1, BesideStep
<1>9. CASE /\ Tick \/ Reap(Reaper) \/ (\E s \in Sessions : WorkerDies(s))
           /\ UNCHANGED <<dispatchVars, streamVars>>
  <2>1. [Next]_vars
    BY <1>9, RolesAssumption DEF Next
  <2> QED
    BY <1>9, <2>1, BesideStep
<1>10. ASSUME NEW t \in Threads, ManagerStep(t), UNCHANGED streamVars
       PROVE  StreamInv' /\ [Next]_vars
  <2>1. [Next]_vars /\ UNCHANGED dispatchVars
    BY <1>10 DEF ManagerStep, EvictionStep, Next
  <2> QED
    BY <1>10, <2>1, BesideStep
<1> QED
  BY <1>1, <1>2, <1>3, <1>4, <1>6, <1>7, <1>8, <1>9, <1>10, PlainStep DEF StreamNext

LEMMA StreamInitInvariant == StreamInit => StreamInv
<1> SUFFICES ASSUME StreamInit PROVE StreamInv
  OBVIOUS
<1>1. TypeOK
  BY InitInvariant DEF StreamInit, DispatchInit, IInv
<1>2. \A c \in Slots : todo[c] = <<>> /\ call[c] = NoCall
  BY DEF StreamInit, DispatchInit
<1>3. CallsTyped
  BY <1>2 DEF StreamInit, DispatchInit, CallsTyped
<1>4. StreamTypeOK
  BY DEF StreamInit, StreamTypeOK
<1>5. SlotReachable /\ NoLostJob /\ JobsOwned
  BY DEF StreamInit, SlotReachable, NoLostJob, JobsOwned
<1>6. WorkChecked
  BY <1>2, LoopIsSlot DEF WorkChecked
<1> QED
  BY <1>1, <1>3, <1>4, <1>5, <1>6 DEF StreamInv, JobsAccounted

-----------------------------------------------------------------------------
(* The job table's invariant, under every interleaving of streaming calls, *)
(* other calls, the reaper and the on_evict callbacks.                     *)
THEOREM StreamInvariantHolds == StreamSpec => []StreamInv
  BY StreamInitInvariant, StreamNextStep, PTL DEF StreamSpec

(* The session manager with streaming jobs on top implements the session   *)
(* manager: discard_session as its callback, the authorizer called under   *)
(* the job manager's lock and the streaming tools add nothing to it.       *)
THEOREM StreamImplementsManager == StreamSpec => Spec
<1>1. StreamInit => Init
  BY DEF StreamInit, DispatchInit
<1>2. ASSUME StreamInv, [StreamNext]_everything
      PROVE  [Next]_vars
  BY <1>2, StreamNextStep
<1> QED
  BY <1>1, <1>2, StreamInvariantHolds, PTL DEF StreamSpec, Spec

(* What the session manager promises it keeps with streaming jobs running. *)
THEOREM ManagerSafeUnderStreaming ==
  StreamSpec => [](NoOrphanWorker /\ StoreWiped /\ NotifiedOnce /\ WithinCaps)
  BY StreamImplementsManager, NoOrphanWorkerHolds, StoreWipedHolds, NotifiedOnceHolds,
     WithinCapsHolds, PTL

(* start_job, cancel and discard_session account for every job: the slot   *)
(* points into the table, and no producing job is off it and forgotten.    *)
THEOREM JobsAccountedHolds == StreamSpec => []JobsAccounted
<1>1. StreamInv => JobsAccounted
  BY DEF StreamInv
<1> QED
  BY <1>1, StreamInvariantHolds, PTL

(* A call works on its own session's job and for the session's owner,      *)
(* however long ago the check was and whatever was evicted since.          *)
THEOREM JobIsCallersHolds == StreamSpec => []JobIsCallers
<1>1. StreamInv => JobIsCallers
  <2> SUFFICES ASSUME StreamInv, todo[Loop] # <<>>,
                      Head(todo[Loop]) \in {"lock", "pump", "read", "cancel"}
               PROVE  handle \subseteq jobsOf[Session(Loop)] /\ owner[Session(Loop)] = Caller(Loop)
    BY DEF JobIsCallers
  <2>1. todo[Loop] \in Seq(AllSteps) /\ Len(todo[Loop]) > 0 /\ Head(todo[Loop]) = todo[Loop][1]
    BY LoopIsSlot, CallKnown DEF StreamInv
  <2>2. 1 \in DOMAIN todo[Loop]
    <3> HIDE DEF AllSteps
    <3> QED
      BY <2>1
  <2>3. \A steps : ~Before(Loop, 1, steps)
    BY DEF Before
  <2> QED
    BY <2>1, <2>2, <2>3 DEF StreamInv, WorkChecked
<1> QED
  BY <1>1, StreamInvariantHolds, PTL

=============================================================================
