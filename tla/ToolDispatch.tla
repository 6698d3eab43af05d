---------------------------- MODULE ToolDispatch ----------------------------
(***************************************************************************)
(* The dispatch of session-scoped tool calls (tools/registry.py: _bind,    *)
(* _bind_analyze and the handlers) on top of the session manager.          *)
(*                                                                         *)
(* A tool call is begin_call, the guards and manager calls its handler     *)
(* makes in order, the RPC to the worker ("port") among them, and, always, *)
(* end_call.  Handlers are synchronous and run on the one event loop; only *)
(* an analysis with a progress token leaves it, for a thread of its own,   *)
(* between its pre-import guard and its end_call.  The reaper is a thread  *)
(* of its own as well.                                                     *)
(***************************************************************************)
EXTENDS SessionManager, Sequences

CONSTANTS
  Loop, Reaper,  \* two of the Threads; the others run analyses
  Tools          \* the tools the clients call

ASSUME RolesAssumption == Loop \in Threads /\ Reaper \in Threads /\ Loop # Reaper
ASSUME ThreadsFinite   == IsFiniteSet(Threads)

VARIABLES
  writes,     \* per session: writes_enabled and allow_structural
  call,       \* per slot: the tool call in progress
  todo,       \* per slot: the steps it has still to take
  onLoop,     \* the slot whose call occupies the event loop
  failed      \* slots whose call has raised

dispatchVars == <<writes, call, todo, onLoop, failed>>
allVars == <<vars, dispatchVars>>

(* A slot is the thread a call's handler runs on. *)
Slots == Threads \ {Reaper}

Script == [
  status   |-> <<"authorize", "end">>,
  import   |-> <<"authorize", "spawn", "port", "record", "end">>,
  analyze  |-> <<"guard", "authorize", "port", "record", "end">>,
  read     |-> <<"guard", "authorize", "port", "end">>,
  annotate |-> <<"guard", "consent", "port", "record", "end">>,
  retype   |-> <<"guard", "structural", "port", "end">>,
  enable   |-> <<"enable", "end">>,
  allow    |-> <<"allow", "end">>,
  disable  |-> <<"disable", "end">>,
  close    |-> <<"evict", "end">>]

Offloaded == <<"guard", "offload", "authorize", "port", "record", "end">>

ASSUME ToolsAssumption == Tools \subseteq DOMAIN Script

NoCall == [tool |-> "none", session |-> "none", caller |-> NoOne]

LoopSteps == {"guard", "offload", "end"}

(* The thread that takes the next step of the call in slot c. *)
Exec(c) == IF Head(todo[c]) \in LoopSteps THEN Loop ELSE c

(* The call in c is at one of these steps, and its thread is free for it. *)
At(c, steps) ==
  /\ todo[c] # <<>> /\ Head(todo[c]) \in steps
  /\ Exec(c) = Loop => onLoop \in {NoThread, c}

Advance(c) == todo' = [todo EXCEPT ![c] = Tail(@)] /\ UNCHANGED failed
Abort(c)   == todo' = [todo EXCEPT ![c] = <<"end">>] /\ failed' = failed \cup {c}
AdvanceIf(c, ok) == IF ok THEN Advance(c) ELSE Abort(c)

(* What the manager's methods are called with. *)
Session(c) == call[c].session
Caller(c)  == call[c].caller

-----------------------------------------------------------------------------
DispatchInit ==
  /\ Init
  /\ writes = [s \in Sessions |-> "off"]
  /\ call = [c \in Slots |-> NoCall]
  /\ todo = [c \in Slots |-> <<>>]
  /\ onLoop = NoThread
  /\ failed = {}

(* session_create has no session id: no marker, no guard. *)
CreateCall(s, p) ==
  /\ onLoop = NoThread
  /\ Create(Loop, s, p)
  /\ UNCHANGED dispatchVars

Begin(c, tool, script, s, p) ==
  /\ todo[c] = <<>> /\ onLoop = NoThread
  /\ status[s] # "unused"
  /\ BeginCall(Loop, s, p)
  /\ call' = [call EXCEPT ![c] = [tool |-> tool, session |-> s, caller |-> p]]
  /\ todo' = [todo EXCEPT ![c] = script]
  /\ onLoop' = c
  /\ UNCHANGED <<writes, failed>>

BeginInline(tool, s, p)  == Begin(Loop, tool, Script[tool], s, p)
BeginOffloaded(c, s, p)  == c # Loop /\ Begin(c, "analyze", Offloaded, s, p)

(* A manager method that goes through _get_live_locked and fails there. *)
ManagerSteps == {"authorize", "record", "guard", "consent", "structural", "enable", "allow",
                 "disable", "spawn", "evict"}

(* Mutant: a refused call tries again. *)
FailRetries(c) ==
  /\ At(c, ManagerSteps)
  /\ Refuse(Exec(c), Session(c), Caller(c)) \/ ExpireOnAccess(Exec(c), Session(c), Caller(c))
  /\ UNCHANGED dispatchVars

Fail(c) ==
  /\ At(c, ManagerSteps)
  /\ Refuse(Exec(c), Session(c), Caller(c)) \/ ExpireOnAccess(Exec(c), Session(c), Caller(c))
  /\ Abort(c)
  /\ UNCHANGED <<writes, call, onLoop>>

Pass(c) ==
  /\ At(c, {"authorize", "record"})
  /\ Authorize(Exec(c), Session(c), Caller(c))
  /\ Advance(c)
  /\ UNCHANGED <<writes, call, onLoop>>

(* Mutant: the pre-import guard lets everything through. *)
RequireWorkerUnchecked(c) ==
  /\ At(c, {"guard"})
  /\ Authorize(Exec(c), Session(c), Caller(c))
  /\ Advance(c)
  /\ UNCHANGED <<writes, call, onLoop>>

RequireWorkerStarted(c) ==
  /\ At(c, {"guard"})
  /\ Authorize(Exec(c), Session(c), Caller(c))
  /\ AdvanceIf(c, Session(c) \in workerStarted)
  /\ UNCHANGED <<writes, call, onLoop>>

Consents(s, step) == writes[s] = "structural" \/ (writes[s] = "plain" /\ step = "consent")

RequireWriteConsent(c) ==
  /\ At(c, {"consent", "structural"})
  /\ Authorize(Exec(c), Session(c), Caller(c))
  /\ AdvanceIf(c, Consents(Session(c), Head(todo[c])))
  /\ UNCHANGED <<writes, call, onLoop>>

(* enable_writes(allow_structural) and disable_writes. *)
SetWrites(c) ==
  /\ At(c, {"enable", "allow", "disable"})
  /\ Authorize(Exec(c), Session(c), Caller(c))
  /\ writes' = [writes EXCEPT ![Session(c)] =
                  [enable |-> "plain", allow |-> "structural", disable |-> "off"][Head(todo[c])]]
  /\ Advance(c)
  /\ UNCHANGED <<call, onLoop>>

Spawn(c) ==
  /\ At(c, {"spawn"})
  /\ EnsureWorker(Exec(c), Session(c), Caller(c))
  /\ AdvanceIf(c, Session(c) \in workerStarted')
  /\ UNCHANGED <<writes, call, onLoop>>

Close(c) ==
  /\ At(c, {"evict"})
  /\ Evict(Exec(c), Session(c), Caller(c))
  /\ Advance(c)
  /\ UNCHANGED <<writes, call, onLoop>>

Offload(c) ==
  /\ At(c, {"offload"}) /\ pc[Loop] = "idle"
  /\ onLoop' = NoThread
  /\ Advance(c)
  /\ UNCHANGED <<vars, writes, call>>

(* The RPC to the worker: it answers, or there is no worker to answer, or  *)
(* the adapter's timeout kills it.                                         *)
Port(c) ==
  /\ At(c, {"port"}) /\ pc[Exec(c)] = "idle"
  /\ LET s == Session(c) IN
       \/ /\ worker[s] = "up" /\ s \notin killFailed
          /\ Advance(c)
          /\ UNCHANGED vars
       \/ /\ worker[s] # "up" \/ s \in killFailed
          /\ Abort(c)
          /\ UNCHANGED vars
       \/ /\ WorkerDies(s)
          /\ Abort(c)
  /\ UNCHANGED <<writes, call, onLoop>>

(* Mutant: end_call is not in a finally. *)
EndOnSuccess(c) ==
  /\ At(c, {"end"})
  /\ pc[c] = "idle"
  /\ IF c \in failed THEN UNCHANGED vars ELSE EndCall(Loop, Session(c), Caller(c))
  /\ todo' = [todo EXCEPT ![c] = <<>>]
  /\ call' = [call EXCEPT ![c] = NoCall]
  /\ onLoop' = NoThread
  /\ failed' = failed \ {c}
  /\ UNCHANGED writes

End(c) ==
  /\ At(c, {"end"})
  /\ pc[c] = "idle"
  /\ EndCall(Loop, Session(c), Caller(c))
  /\ todo' = [todo EXCEPT ![c] = <<>>]
  /\ call' = [call EXCEPT ![c] = NoCall]
  /\ onLoop' = NoThread
  /\ failed' = failed \ {c}
  /\ UNCHANGED writes

CallStep(c) ==
  \/ Fail(c) \/ Pass(c) \/ RequireWorkerStarted(c) \/ RequireWriteConsent(c)
  \/ SetWrites(c) \/ Spawn(c) \/ Close(c) \/ Offload(c) \/ Port(c) \/ End(c)

(* The steps of the manager itself, and the world's. *)
Background ==
  /\ \/ Tick
     \/ \E s \in Sessions : WorkerDies(s)
     \/ Reap(Reaper)
     \/ \E t \in Threads : EvictionStep(t)
  /\ UNCHANGED dispatchVars

DispatchNext ==
  \/ Background
  \/ \E c \in Slots : CallStep(c)
  \/ \E s \in Sessions, p \in Principals :
       \/ CreateCall(s, p)
       \/ \E tool \in Tools : BeginInline(tool, s, p)
       \/ \E c \in Slots : BeginOffloaded(c, s, p)

DispatchSpec == DispatchInit /\ [][DispatchNext]_allVars

(* Threads run, the I/O of an eviction and an RPC end (the latter by its   *)
(* timeout), the lock and the loop are not withheld from a thread that     *)
(* asks again and again, and the sweep comes round for ever: an error in   *)
(* it is logged and never stops the reaper.                                *)
DispatchFairness ==
  /\ \A c \in Slots : SF_allVars(CallStep(c))
  /\ \A t \in Threads : SF_allVars(EvictionStep(t) /\ UNCHANGED dispatchVars)
  /\ SF_allVars(Reap(Reaper) /\ UNCHANGED dispatchVars)

DispatchFairSpec == DispatchSpec /\ DispatchFairness

-----------------------------------------------------------------------------
(* Type invariant of the dispatcher: what a slot holds, and the call that  *)
(* occupies the loop is one in progress.                                   *)
Steps == ManagerSteps \cup LoopSteps \cup {"port"}

Calls == [tool : Tools \cup {"analyze"}, session : Sessions, caller : Principals]

DispatchTypeOK ==
  /\ writes \in [Sessions -> {"off", "plain", "structural"}]
  /\ todo \in [Slots -> Seq(Steps)]
  /\ call \in [Slots -> Calls \cup {NoCall}]
  /\ \A c \in Slots : IF todo[c] = <<>> THEN call[c] = NoCall ELSE call[c] \in Calls
  /\ onLoop # NoThread => onLoop \in Slots /\ todo[onLoop] # <<>>
  /\ failed \subseteq {c \in Slots : todo[c] # <<>>}

(* The calls that marked s in flight and have not cleared the mark. *)
Marking(s) == {c \in Slots : todo[c] # <<>> /\ Session(c) = s /\ Caller(c) = owner[s]}

(* The in-flight counter is exactly the calls in progress: begin_call and  *)
(* end_call stay balanced across errors, foreign callers and evictions, so *)
(* the clamp at zero never hides a call and no mark outlives its call.     *)
InFlightExact ==
  /\ DispatchTypeOK
  /\ \A s \in Sessions : status[s] = "open" => inFlight[s] = Cardinality(Marking(s))

(* A session is never taken from under a call in progress by the reaper or *)
(* for idling (ADR-025): only its TTL, or its owner's session_close, ends  *)
(* it.                                                                     *)
CallKeepsSession ==
  [][ \A s \in Sessions :
        status[s] = "open" /\ status'[s] = "evicted" /\ Marking(s) # {} =>
          \/ TtlExpired(s)
          \/ \E c \in Marking(s) : todo[c][1] = "evict" ]_status

(* What a call that reaches the worker has behind it: it is the owner's,   *)
(* a worker was started for its session, and a write still has the consent *)
(* it was checked for.                                                     *)
MediatedPort ==
  \A c \in Slots :
    todo[c] # <<>> /\ Head(todo[c]) = "port" =>
      /\ owner[Session(c)] = Caller(c)
      /\ Session(c) \in workerStarted
      /\ call[c].tool = "annotate" => Consents(Session(c), "consent")
      /\ call[c].tool = "retype"   => Consents(Session(c), "structural")

(* Every call ends and clears its mark: the loop, the analysis threads,    *)
(* the manager's lock and the callbacks never wait on each other for ever. *)
CallsEnd == \A c \in Slots : todo[c] # <<>> ~> todo[c] = <<>>

(* The TTL caps a session's standing lifetime (ADR-025) even for an owner  *)
(* who never stops calling: marks keep the reaper away only until the call *)
(* after the TTL, which evicts.                                            *)
TtlReclaims ==
  \A s \in Sessions : status[s] = "open" /\ TtlExpired(s) ~> status[s] = "evicted"

-----------------------------------------------------------------------------
(* The inductive invariant.  A call is on a minted session, and a session  *)
(* that is not minted carries no mark.                                     *)
CallsOnMinted ==
  /\ \A c \in Slots : todo[c] # <<>> => status[Session(c)] # "unused"
  /\ \A s \in Sessions : status[s] = "unused" => inFlight[s] = 0

(* Every call has its end_call ahead, last and once. *)
EndLast ==
  \A c \in Slots : todo[c] # <<>> =>
    /\ todo[c][Len(todo[c])] = "end"
    /\ \A i \in 1 .. Len(todo[c]) - 1 : todo[c][i] # "end"

(* Only analyses leave the loop's slot, and only the consent tools change  *)
(* the consent.                                                            *)
ToolsInPlace ==
  \A c \in Slots :
    /\ todo[c] # <<>> /\ c # Loop => call[c].tool = "analyze"
    /\ \A i \in DOMAIN todo[c] : todo[c][i] \in {"enable", "allow", "disable"} =>
         c = Loop /\ call[c].tool \notin {"annotate", "retype"}

(* One of these steps comes before step i of the call in c. *)
Before(c, i, steps) == \E k \in 1 .. i - 1 : todo[c][k] \in steps

(* What the RPC relies on holds already, or the step that checks it is     *)
(* still ahead of the RPC.                                                 *)
GuardAhead ==
  \A c \in Slots : \A i \in DOMAIN todo[c] : todo[c][i] = "port" =>
    /\ \/ owner[Session(c)] = Caller(c) /\ Session(c) \in workerStarted
       \/ Before(c, i, {"guard", "spawn"})
    /\ call[c].tool = "annotate" =>
         Consents(Session(c), "consent") \/ Before(c, i, {"consent"})
    /\ call[c].tool = "retype" =>
         Consents(Session(c), "structural") \/ Before(c, i, {"structural"})

DispatchInv ==
  /\ TypeOK
  /\ InFlightExact
  /\ CallsOnMinted
  /\ EndLast
  /\ ToolsInPlace
  /\ GuardAhead

=============================================================================
