-------------------------- MODULE RpcSessionProofs --------------------------
(***************************************************************************)
(* RpcInv of RpcSession is inductive, for any number of threads, calls and *)
(* streams and any room on the socket.  From it: the socket has one owner, *)
(* a healthy worker is blamed only after a $/cancel, and a stream that was *)
(* not cancelled is complete when it ends.                                 *)
(***************************************************************************)
EXTENDS RpcSession, FiniteSetTheorems, FunctionTheorems, TLAPS

(* RpcInv in two parts: what the adapter and the job table keep, and what  *)
(* is on the wire while the session is open.                               *)
Books ==
  RpcTypeOK /\ LockExact /\ NothingReadYet /\ FaultsExplained /\ CompleteUnlessSignalled

Wire ==
  /\ OneReader /\ FlagExact /\ FramesAddressed
  /\ GoneQuiet /\ RequestsAddressed /\ ServesReader /\ AnswersLast

Outcomes == {"unused", "pending", "refused", "result", "error", "violation", "lost", "timeout"}

-----------------------------------------------------------------------------
(* Counting the chunks on the way. *)
LEMMA ChunksFinite ==
  ASSUME NEW q, NEW n \in Nat
  PROVE  IsFiniteSet(ChunksIn(q, n)) /\ Cardinality(ChunksIn(q, n)) \in Nat
<1>1. ChunksIn(q, n) \subseteq 1 .. n /\ IsFiniteSet(1 .. n)
  BY FS_Interval DEF ChunksIn
<1> QED
  BY <1>1, FS_Subset, FS_CardinalityType

LEMMA ChunksAppend ==
  ASSUME NEW q \in Seq(Frames), NEW f \in Frames
  PROVE  /\ \A n \in 0 .. Len(q) : ChunksIn(Append(q, f), n) = ChunksIn(q, n)
         /\ f.kind # "chunk" => ChunksIn(Append(q, f), Len(q) + 1) = ChunksIn(q, Len(q))
         /\ f.kind = "chunk" => Cardinality(ChunksIn(Append(q, f), Len(q) + 1))
                                  = Cardinality(ChunksIn(q, Len(q))) + 1
<1>0. /\ Len(q) \in Nat /\ Append(q, f)[Len(q) + 1] = f
      /\ \A n \in 1 .. Len(q) : Append(q, f)[n] = q[n]
  OBVIOUS
<1>1. \A n \in 0 .. Len(q) : ChunksIn(Append(q, f), n) = ChunksIn(q, n)
  BY <1>0 DEF ChunksIn
<1>2. f.kind # "chunk" => ChunksIn(Append(q, f), Len(q) + 1) = ChunksIn(q, Len(q))
  BY <1>0 DEF ChunksIn
<1>3. ASSUME f.kind = "chunk"
      PROVE  Cardinality(ChunksIn(Append(q, f), Len(q) + 1)) = Cardinality(ChunksIn(q, Len(q))) + 1
  <2>1. /\ ChunksIn(Append(q, f), Len(q) + 1) = ChunksIn(q, Len(q)) \cup {Len(q) + 1}
        /\ Len(q) + 1 \notin ChunksIn(q, Len(q))
    BY <1>0, <1>3 DEF ChunksIn
  <2> QED
    BY <1>0, <2>1, ChunksFinite, FS_AddElement
<1> QED
  BY <1>1, <1>2, <1>3

LEMMA ChunksTail ==
  ASSUME NEW q \in Seq(Frames), q # <<>>, NEW n \in 0 .. Len(q) - 1
  PROVE  /\ q[1].kind # "chunk" =>
              Cardinality(ChunksIn(Tail(q), n)) = Cardinality(ChunksIn(q, n + 1))
         /\ q[1].kind = "chunk" =>
              Cardinality(ChunksIn(Tail(q), n)) + 1 = Cardinality(ChunksIn(q, n + 1))
<1> DEFINE S == ChunksIn(Tail(q), n)
           T == ChunksIn(q, n + 1) \ {1}
           F == [m \in S |-> m + 1]
<1>0. /\ Len(q) \in Nat /\ Len(q) > 0 /\ n \in Nat
      /\ \A m \in 1 .. n : Tail(q)[m] = q[m + 1]
  OBVIOUS
<1>1. F \in [S -> T]
  BY <1>0 DEF ChunksIn
<1>2. \A a, b \in S : F[a] = F[b] => a = b
  BY <1>0 DEF ChunksIn
<1>3. \A b \in T : \E a \in S : F[a] = b
  <2> SUFFICES ASSUME NEW b \in T PROVE \E a \in S : F[a] = b
    OBVIOUS
  <2>1. b \in 2 .. n + 1 /\ q[b].kind = "chunk"
    BY <1>0 DEF ChunksIn
  <2>2. b - 1 \in 1 .. n /\ (b - 1) + 1 = b
    BY <1>0, <2>1
  <2>3. b - 1 \in S
    BY <1>0, <2>1, <2>2 DEF ChunksIn
  <2>4. F[b - 1] = b
    BY <2>2, <2>3
  <2> QED
    BY <2>3, <2>4
<1>4. Cardinality(T) = Cardinality(S)
  <2>1. IsFiniteSet(S)
    BY <1>0, ChunksFinite
  <2>2. F \in Bijection(S, T)
    BY <1>1, <1>2, <1>3, Fun_IsBij
  <2>3. ExistsBijection(S, T)
    BY <2>2, Fun_ExistsBij
  <2> QED
    BY <2>1, <2>3, FS_Bijection
<1>5. CASE q[1].kind # "chunk"
  <2>1. T = ChunksIn(q, n + 1)
    BY <1>5 DEF ChunksIn
  <2> QED
    BY <1>4, <1>5, <2>1
<1>6. CASE q[1].kind = "chunk"
  <2>1. 1 \in ChunksIn(q, n + 1)
    BY <1>0, <1>6 DEF ChunksIn
  <2>2. IsFiniteSet(ChunksIn(q, n + 1)) /\ Cardinality(ChunksIn(q, n + 1)) \in Nat
    BY <1>0, ChunksFinite
  <2>3. Cardinality(T) = Cardinality(ChunksIn(q, n + 1)) - 1
    BY <2>1, <2>2, FS_RemoveElement
  <2> QED
    BY <1>4, <1>6, <2>2, <2>3
<1> QED
  BY <1>5, <1>6
-----------------------------------------------------------------------------
LEMMA FrameType ==
  ASSUME NEW kind \in {"request", "stream", "cancel", "progress", "chunk", "result", "error"},
         NEW id \in Ids \cup {NoId}, NEW seq \in Nat
  PROVE  /\ Frame(kind, id, seq) \in Frames
         /\ Frame(kind, id, seq).kind = kind /\ Frame(kind, id, seq).id = id
         /\ Frame(kind, id, seq).seq = seq
  BY DEF Frame, Frames

LEMMA EndsOutcome ==
  ASSUME RpcTypeOK, NEW i \in Ids, NEW how \in Outcomes, Ends(i, how)
  PROVE  /\ outcome' \in [Ids -> Outcomes] /\ outcome'[i] = how
         /\ \A k \in Ids : k # i => outcome'[k] = outcome[k]
  BY DEF RpcTypeOK, Ends, Outcomes

(* Who owns the socket, in terms of the lock and the flag. *)
LEMMA OwnerOfSocket ==
  ASSUME RpcInv, session = "open"
  PROVE  /\ \A t \in Threads : waiting[t] # NoId =>
              waiting[t] \in Requests /\ Readers = {waiting[t]} /\ active = NoId
         /\ \A j \in Streams : outcome[j] = "pending" =>
              Readers = {j} /\ active = j /\ lock = NoThread
         /\ lock = NoThread /\ active = NoId => Readers = {}
         /\ active # NoId => active \in Readers
<1> USE DEF RpcInv, SocketOwned
<1>1. ASSUME NEW t \in Threads, waiting[t] # NoId
      PROVE  waiting[t] \in Requests /\ Readers = {waiting[t]} /\ active = NoId
  <2>1. waiting[t] \in Requests /\ waiting[t] \in Readers
    BY <1>1 DEF RpcTypeOK, LockExact, Readers, Ids
  <2>2. Readers = {waiting[t]}
    BY <2>1 DEF OneReader
  <2>3. active = NoId
    BY <2>1, <2>2, RpcIds DEF FlagExact, RpcTypeOK, Readers, Ids
  <2> QED
    BY <2>1, <2>2, <2>3
<1>2. ASSUME NEW j \in Streams, outcome[j] = "pending"
      PROVE  Readers = {j} /\ active = j /\ lock = NoThread
  <2>1. j \in Readers
    BY <1>2 DEF Readers, Ids
  <2>2. Readers = {j} /\ lock = NoThread
    BY <2>1 DEF OneReader
  <2> QED
    BY <1>2, <2>2 DEF FlagExact
<1>3. ASSUME lock = NoThread, active = NoId
      PROVE  Readers = {}
  <2>1. \A t \in Threads : waiting[t] = NoId
    BY <1>3, RpcRoles DEF LockExact
  <2>2. \A r \in Requests : outcome[r] # "pending"
    BY <2>1, RpcIds DEF LockExact, Ids
  <2>3. \A j \in Streams : outcome[j] # "pending"
    BY <1>3, RpcIds DEF FlagExact, Ids
  <2> QED
    BY <2>2, <2>3 DEF Readers, Ids
<1>4. active # NoId => active \in Readers
  BY DEF FlagExact, Readers, Ids, RpcTypeOK
<1> QED
  BY <1>1, <1>2, <1>3, <1>4

(* A frame its reader takes for a violation is an answer to a $/cancel. *)
LEMMA FaultyFrame ==
  ASSUME RpcInv, NEW i \in Readers, toServer # <<>>, Readers = {i},
         \/ Head(toServer).id # i
         \/ Head(toServer).kind = "chunk" /\ Head(toServer).seq # nextSeq[i]
  PROVE  signalled # {}
<1> USE DEF RpcInv, SocketOwned
<1>1. session = "open"
  BY DEF GoneQuiet, RpcTypeOK
<1>2. Head(toServer) = toServer[1] /\ 1 \in DOMAIN toServer
  BY DEF RpcTypeOK
<1>3. CASE Head(toServer).id # i
  <2>1. toServer[1].id = NoId
    BY <1>1, <1>2, <1>3 DEF FramesAddressed
  <2> QED
    BY <1>1, <1>2, <2>1 DEF AnswersLast
<1>4. CASE Head(toServer).id = i /\ Head(toServer).kind = "chunk"
  <2>1. ChunksIn(toServer, 1) = {1}
    BY <1>2, <1>4 DEF ChunksIn
  <2>2. Cardinality(ChunksIn(toServer, 1)) = 1
    BY <2>1, FS_Singleton
  <2>3. i \in Streams /\ nextSeq[i] \in Nat
    BY <1>1, <1>2, <1>4 DEF AnswersLast, RpcTypeOK
  <2>4. toServer[1].seq = nextSeq[i] + 1 - 1
    BY <1>1, <1>2, <1>4, <2>2 DEF FramesAddressed
  <2> QED
    BY <1>2, <1>4, <2>3, <2>4
<1> QED
  BY <1>3, <1>4

-----------------------------------------------------------------------------
(* kill_worker leaves nothing on the wire. *)
LEMMA KillWire ==
  ASSUME KillWorker
  PROVE  /\ Wire'
         /\ session' \in {"open", "gone"} /\ toWorker' \in Seq(Frames) /\ toServer' \in Seq(Frames)
         /\ worker' = "exited" /\ serving' = NoId /\ emitted' = 0
  BY DEF KillWorker, Unserved, Wire, OneReader, FlagExact, FramesAddressed, GoneQuiet,
         RequestsAddressed, ServesReader, AnswersLast

LEMMA CallOverBooks ==
  ASSUME RpcInv, NEW t \in Threads, waiting[t] # NoId, NEW how \in Outcomes \ {"unused", "pending"},
         CallOver(t, how), how = "violation" => signalled # {}
  PROVE  /\ LockExact' /\ NothingReadYet' /\ FaultsExplained' /\ CompleteUnlessSignalled'
         /\ outcome' \in [Ids -> Outcomes] /\ lock' \in Threads \cup {NoThread}
         /\ waiting' \in [Threads -> Requests \cup {NoId}]
<1> DEFINE r == waiting[t]
<1>0. /\ RpcTypeOK /\ LockExact /\ NothingReadYet /\ FaultsExplained /\ CompleteUnlessSignalled
  BY DEF RpcInv, SocketOwned
<1>1. r \in Requests /\ r \in Ids /\ r \notin Streams /\ lock = t
  BY <1>0, RpcIds DEF RpcTypeOK, Ids, LockExact
<1>2. /\ Ends(r, how) /\ waiting' = [waiting EXCEPT ![t] = NoId] /\ lock' = NoThread
      /\ UNCHANGED <<nextSeq, signalled>>
  BY DEF CallOver
<1>3. /\ outcome' \in [Ids -> Outcomes] /\ outcome'[r] = how
      /\ \A k \in Ids : k # r => outcome'[k] = outcome[k]
  BY <1>0, <1>1, <1>2, EndsOutcome
<1>4. /\ waiting' \in [Threads -> Requests \cup {NoId}]
      /\ waiting'[t] = NoId /\ \A u \in Threads : u # t => waiting'[u] = NoId
  BY <1>0, <1>1, <1>2 DEF RpcTypeOK, LockExact
<1>5. LockExact'
  <2>1. \A k \in Requests : outcome'[k] # "pending"
    BY <1>0, <1>1, <1>3, RpcIds DEF LockExact, Ids
  <2> QED
    BY <1>2, <1>4, <2>1, RpcRoles DEF LockExact
<1>6. NothingReadYet'
  BY <1>0, <1>1, <1>2, <1>3 DEF NothingReadYet, Ids
<1>7. FaultsExplained'
  BY <1>0, <1>1, <1>2, <1>3 DEF FaultsExplained
<1>8. CompleteUnlessSignalled'
  BY <1>0, <1>1, <1>2, <1>3 DEF CompleteUnlessSignalled, Ids
<1> QED
  BY <1>2, <1>3, <1>4, <1>5, <1>6, <1>7, <1>8
(* An id that no thread waits for is used up or ends. *)
LEMMA EndsBooks ==
  ASSUME RpcInv, NEW i \in Ids, NEW how \in Outcomes \ {"unused", "pending"}, Ends(i, how),
         i \in Requests => outcome[i] # "pending",
         how = "violation" => signalled # {},
         how = "result" => i \in Streams /\ (i \in signalled \/ nextSeq[i] = Functions[i]),
         UNCHANGED <<lock, waiting, nextSeq, signalled>>
  PROVE  /\ LockExact' /\ NothingReadYet' /\ FaultsExplained' /\ CompleteUnlessSignalled'
         /\ outcome' \in [Ids -> Outcomes]
<1>0. /\ RpcTypeOK /\ LockExact /\ NothingReadYet /\ FaultsExplained /\ CompleteUnlessSignalled
  BY DEF RpcInv, SocketOwned
<1>1. /\ outcome' \in [Ids -> Outcomes] /\ outcome'[i] = how
      /\ \A k \in Ids : k # i => outcome'[k] = outcome[k]
  BY <1>0, EndsOutcome
<1>2. LockExact'
  <2>1. \A t \in Threads : waiting[t] # NoId => waiting[t] \in Requests /\ waiting[t] # i
    BY <1>0 DEF RpcTypeOK, LockExact
  <2>2. \A r \in Requests : outcome'[r] = "pending" => outcome[r] = "pending"
    BY <1>1 DEF Ids
  <2> QED
    BY <1>0, <1>1, <2>1, <2>2 DEF LockExact, Ids
<1>3. NothingReadYet' /\ FaultsExplained'
  BY <1>0, <1>1 DEF NothingReadYet, FaultsExplained, Ids
<1>4. CompleteUnlessSignalled'
  BY <1>0, <1>1 DEF CompleteUnlessSignalled, Ids
<1> QED
  BY <1>1, <1>2, <1>3, <1>4

(* A refusal changes nothing on the wire. *)
LEMMA RefusedWire ==
  ASSUME RpcInv, NEW i \in Ids, outcome[i] = "unused", Ends(i, "refused"), KeepWorker,
         UNCHANGED <<lock, active, nextSeq, signalled>>
  PROVE  Wire'
<1>0. Readers' = Readers /\ \A j \in Streams : outcome'[j] = "pending" <=> outcome[j] = "pending"
  BY EndsOutcome DEF Readers, RpcInv, SocketOwned, Outcomes, Ids
<1>1. UNCHANGED <<session, toWorker, toServer, worker, serving, emitted>>
  BY DEF KeepWorker, socketVars, workerVars
<1>2. OneReader' /\ FlagExact' /\ GoneQuiet'
  BY <1>0, <1>1 DEF RpcInv, SocketOwned, OneReader, FlagExact, GoneQuiet
<1>3. FramesAddressed' /\ AnswersLast'
  <2>1. FramesAddressed'
    BY <1>0, <1>1 DEF RpcInv, SocketOwned, FramesAddressed
  <2>2. AnswersLast'
    BY <1>0, <1>1 DEF RpcInv, SocketOwned, AnswersLast
  <2> QED
    BY <2>1, <2>2
<1>4. RequestsAddressed' /\ ServesReader'
  BY <1>0, <1>1 DEF RpcInv, SocketOwned, RequestsAddressed, ServesReader, ChunksIn
<1> QED
  BY <1>2, <1>3, <1>4 DEF Wire

LEMMA RefusedStep ==
  ASSUME RpcInv, NEW i \in Ids,
         \/ i \in Streams /\ StreamRefused(i)
         \/ \E t \in Threads : CallRefused(t, i)
  PROVE  RpcInv'
<1>0. /\ outcome[i] = "unused" /\ Ends(i, "refused") /\ KeepWorker
      /\ UNCHANGED <<lock, active, waiting, nextSeq, draining, cancelled, signalled>>
      /\ \/ jobs' = jobs /\ slot' = slot
         \/ i \in Streams /\ jobs' = (jobs \ {slot}) \cup {i} /\ slot' = i
  BY DEF StreamRefused, CallRefused, StartJob, jobVars
<1>1. Wire'
  BY <1>0, RefusedWire
<1>2. /\ LockExact' /\ NothingReadYet' /\ FaultsExplained' /\ CompleteUnlessSignalled'
      /\ outcome' \in [Ids -> Outcomes]
  BY <1>0, EndsBooks DEF Outcomes
<1>3. RpcTypeOK'
  BY <1>0, <1>2 DEF RpcInv, SocketOwned, RpcTypeOK, KeepWorker, socketVars, workerVars, Outcomes
<1> QED
  BY <1>1, <1>2, <1>3 DEF Books, RpcInv, SocketOwned, Wire

(* Everything that ends in kill_worker. *)
LEMMA KillStep ==
  ASSUME RpcInv, KillWorker,
         LockExact' /\ NothingReadYet' /\ FaultsExplained' /\ CompleteUnlessSignalled',
         outcome' \in [Ids -> Outcomes], lock' \in Threads \cup {NoThread},
         waiting' \in [Threads -> Requests \cup {NoId}],
         active' \in Streams \cup {NoId}, draining' \in Streams \cup {NoId},
         jobs' \subseteq Streams, slot' \in jobs' \cup {NoId}, cancelled' \subseteq Streams,
         UNCHANGED <<nextSeq, signalled>>
  PROVE  RpcInv'
<1>1. /\ Wire' /\ worker' = "exited" /\ serving' = NoId /\ emitted' = 0
      /\ session' \in {"open", "gone"} /\ toWorker' \in Seq(Frames) /\ toServer' \in Seq(Frames)
  BY KillWire
<1>2. RpcTypeOK'
  BY <1>1 DEF RpcInv, SocketOwned, RpcTypeOK, Outcomes
<1> QED
  BY <1>1, <1>2 DEF Wire, RpcInv, SocketOwned

LEMMA CallKilledStep ==
  ASSUME RpcInv, NEW t \in Threads, waiting[t] # NoId, KillWorker,
         NEW how \in {"lost", "timeout", "violation"}, CallOver(t, how),
         how = "violation" => signalled # {}
  PROVE  RpcInv'
<1>1. how \in Outcomes \ {"unused", "pending"}
  BY DEF Outcomes
<1>2. UNCHANGED <<active, nextSeq, draining, jobs, slot, cancelled, signalled>>
  BY DEF CallOver, jobVars
<1> QED
  BY <1>1, <1>2, CallOverBooks, KillStep DEF RpcInv, SocketOwned, RpcTypeOK

LEMMA StreamKilledStep ==
  ASSUME RpcInv, NEW j \in Streams, KillWorker,
         NEW how \in {"lost", "timeout", "violation"}, StreamOver(j, how),
         how = "violation" => signalled # {}
  PROVE  RpcInv'
<1>1. how \in Outcomes \ {"unused", "pending"} /\ j \in Ids /\ j \notin Requests
  BY RpcIds DEF Outcomes, Ids
<1>2. /\ UNCHANGED <<lock, waiting, nextSeq, jobs, slot, cancelled, signalled>>
      /\ Ends(j, how) /\ draining' = NoId /\ active' \in {active, NoId}
  BY DEF StreamOver, jobVars
<1>3. /\ LockExact' /\ NothingReadYet' /\ FaultsExplained' /\ CompleteUnlessSignalled'
      /\ outcome' \in [Ids -> Outcomes]
  BY <1>1, <1>2, EndsBooks
<1> QED
  BY <1>2, <1>3, KillStep DEF RpcInv, SocketOwned, RpcTypeOK

LEMMA UnreachableStep ==
  ASSUME RpcInv, NEW i \in Ids,
         \/ i \in Streams /\ StreamUnreachable(i)
         \/ \E t \in Threads : CallUnreachable(t, i)
  PROVE  RpcInv'
<1>0. /\ outcome[i] = "unused" /\ Ends(i, "lost") /\ KillWorker
      /\ UNCHANGED <<lock, active, waiting, nextSeq, draining, cancelled, signalled>>
      /\ \/ jobs' = jobs /\ slot' = slot
         \/ i \in Streams /\ jobs' = (jobs \ {slot}) \cup {i} /\ slot' = i
  BY DEF StreamUnreachable, CallUnreachable, StartJob, jobVars
<1>1. /\ LockExact' /\ NothingReadYet' /\ FaultsExplained' /\ CompleteUnlessSignalled'
      /\ outcome' \in [Ids -> Outcomes]
  BY <1>0, EndsBooks DEF Outcomes
<1>2. jobs' \subseteq Streams /\ slot' \in jobs' \cup {NoId}
  BY <1>0 DEF RpcInv, SocketOwned, RpcTypeOK
<1> QED
  BY <1>0, <1>1, <1>2, KillStep DEF RpcInv, SocketOwned, RpcTypeOK

LEMMA EvictedStep ==
  ASSUME RpcInv, Evicted
  PROVE  RpcInv'
<1>1. /\ KillWorker /\ jobs' = {} /\ slot' = NoId /\ cancelled' = cancelled \cup jobs
      /\ UNCHANGED <<lock, active, waiting, outcome, nextSeq, draining, signalled>>
  BY DEF Evicted
<1>2. LockExact' /\ NothingReadYet' /\ FaultsExplained' /\ CompleteUnlessSignalled'
  BY <1>1 DEF RpcInv, LockExact, NothingReadYet, FaultsExplained, CompleteUnlessSignalled
<1>3. outcome' \in [Ids -> Outcomes] /\ cancelled' \subseteq Streams
  BY <1>1 DEF RpcInv, SocketOwned, RpcTypeOK, Outcomes
<1> QED
  BY <1>1, <1>2, <1>3, KillStep DEF RpcInv, SocketOwned, RpcTypeOK
-----------------------------------------------------------------------------
(* Whoever sends finds the socket idle: no reader, no frame to be read, no *)
(* request that the worker has not answered.                               *)
LEMMA SocketIdle ==
  ASSUME RpcInv, session = "open", lock = NoThread, active = NoId
  PROVE  /\ Readers = {} /\ worker \in {"idle", "exited"}
         /\ \A n \in DOMAIN toServer : toServer[n].id = NoId
         /\ \A n \in DOMAIN toWorker : toWorker[n].kind = "cancel"
<1>1. Readers = {}
  BY OwnerOfSocket
<1>2. \A n \in DOMAIN toServer : toServer[n].id = NoId
  BY <1>1 DEF RpcInv, SocketOwned, FramesAddressed
<1>3. \A n \in DOMAIN toWorker : toWorker[n].kind = "cancel"
  BY <1>1 DEF RpcInv, RequestsAddressed
<1>4. worker \in {"idle", "exited"}
  BY <1>1 DEF RpcInv, SocketOwned, RpcTypeOK, ServesReader
<1> QED
  BY <1>1, <1>2, <1>3, <1>4

LEMMA SendWire ==
  ASSUME RpcInv, session = "open", lock = NoThread, active = NoId,
         NEW i \in Ids, outcome[i] = "unused", Ends(i, "pending"),
         NEW kind \in {"request", "stream"}, toWorker' = Append(toWorker, Frame(kind, i, 0)),
         UNCHANGED <<session, toServer, worker, serving, emitted, nextSeq, signalled>>,
         \/ kind = "request" /\ i \in Requests /\ active' = NoId
         \/ kind = "stream" /\ i \in Streams /\ active' = i /\ lock' = NoThread
  PROVE  Wire' /\ toWorker' \in Seq(Frames)
<1> USE DEF RpcInv, SocketOwned
<1>1. /\ Readers = {} /\ worker \in {"idle", "exited"}
      /\ \A n \in DOMAIN toServer : toServer[n].id = NoId
      /\ \A n \in DOMAIN toWorker : toWorker[n].kind = "cancel"
  BY SocketIdle
<1>2. /\ outcome'[i] = "pending" /\ \A k \in Ids : k # i => outcome'[k] = outcome[k]
  BY EndsOutcome DEF Outcomes
<1>3. Readers' = {i}
  BY <1>1, <1>2 DEF Readers
<1>4. /\ toWorker' \in Seq(Frames) /\ DOMAIN toWorker' = 1 .. Len(toWorker) + 1
      /\ DOMAIN toWorker = 1 .. Len(toWorker) /\ Len(toWorker) \in Nat
      /\ \A n \in DOMAIN toWorker : toWorker'[n] = toWorker[n]
      /\ toWorker'[Len(toWorker) + 1].kind = kind /\ toWorker'[Len(toWorker) + 1].id = i
  BY FrameType DEF RpcTypeOK
<1>5. OneReader'
  BY <1>3, RpcIds DEF OneReader
<1>6. FlagExact'
  BY <1>1, <1>2, RpcIds DEF FlagExact, Readers, Ids
<1>7. FramesAddressed'
  BY <1>1 DEF FramesAddressed
<1>8. RequestsAddressed'
  <2> SUFFICES ASSUME NEW n \in DOMAIN toWorker'
               PROVE  RequestsAddressed!2!(n)'
    BY DEF RequestsAddressed
  <2>1. CASE n \in DOMAIN toWorker
    BY <1>1, <1>4, <2>1 DEF RequestsAddressed
  <2>2. CASE n = Len(toWorker) + 1
    <3>1. i \in Streams => nextSeq'[i] = 0
      BY DEF NothingReadYet
    <3>2. \A m \in DOMAIN toWorker' : m # n => toWorker'[m].kind = "cancel"
      BY <1>1, <1>4, <2>2
    <3> QED
      BY <1>1, <1>3, <1>4, <2>2, <3>1, <3>2
  <2> QED
    BY <1>4, <2>1, <2>2
<1>9. ServesReader' /\ GoneQuiet'
  BY <1>1 DEF ServesReader, GoneQuiet
<1>10. AnswersLast'
  BY <1>1 DEF AnswersLast
<1> QED
  BY <1>4, <1>5, <1>6, <1>7, <1>8, <1>9, <1>10 DEF Wire

LEMMA SentBooks ==
  ASSUME RpcInv, NEW i \in Ids, outcome[i] = "unused", Ends(i, "pending"),
         UNCHANGED <<nextSeq, signalled>>
  PROVE  /\ NothingReadYet' /\ FaultsExplained' /\ CompleteUnlessSignalled'
         /\ outcome' \in [Ids -> Outcomes]
<1>1. /\ outcome' \in [Ids -> Outcomes] /\ outcome'[i] = "pending"
      /\ \A k \in Ids : k # i => outcome'[k] = outcome[k]
  BY EndsOutcome DEF Outcomes, RpcInv, SocketOwned
<1> QED
  BY <1>1 DEF RpcInv, NothingReadYet, FaultsExplained, CompleteUnlessSignalled, Ids

LEMMA CallSendStep ==
  ASSUME RpcInv, NEW t \in Threads, NEW r \in Requests, CallSend(t, r)
  PROVE  RpcInv'
<1>0. /\ session = "open" /\ lock = NoThread /\ active = NoId /\ outcome[r] = "unused"
      /\ toWorker' = Append(toWorker, Frame("request", r, 0)) /\ Ends(r, "pending")
      /\ lock' = t /\ waiting' = [waiting EXCEPT ![t] = r]
      /\ UNCHANGED <<session, active, toServer, worker, serving, emitted, nextSeq, draining, jobs,
                     slot, cancelled, signalled>>
  BY DEF CallSend, workerVars, jobVars
<1>1. r \in Ids /\ r # NoId
  BY RpcIds DEF Ids
<1>2. Wire' /\ toWorker' \in Seq(Frames)
  BY <1>0, <1>1, SendWire
<1>3. /\ NothingReadYet' /\ FaultsExplained' /\ CompleteUnlessSignalled'
      /\ outcome' \in [Ids -> Outcomes]
  BY <1>0, <1>1, SentBooks
<1>4. LockExact'
  <2>1. /\ outcome'[r] = "pending" /\ \A k \in Ids : k # r => outcome'[k] = outcome[k]
    BY <1>0, <1>1, EndsOutcome DEF Outcomes, RpcInv, SocketOwned
  <2>2. \A u \in Threads : waiting[u] = NoId
    BY <1>0, RpcRoles DEF RpcInv, LockExact
  <2>3. waiting'[t] = r /\ \A u \in Threads : u # t => waiting'[u] = NoId
    BY <1>0, <2>2 DEF RpcInv, SocketOwned, RpcTypeOK
  <2>4. \A k \in Requests : k # r => outcome'[k] # "pending"
    BY <2>1, <2>2, RpcIds DEF RpcInv, LockExact, Ids
  <2> QED
    BY <1>0, <1>1, <2>1, <2>3, <2>4 DEF LockExact
<1>5. waiting' \in [Threads -> Requests \cup {NoId}]
  BY <1>0 DEF RpcInv, SocketOwned, RpcTypeOK
<1>6. RpcTypeOK'
  BY <1>0, <1>2, <1>3, <1>5 DEF RpcInv, SocketOwned, RpcTypeOK, Outcomes
<1> QED
  BY <1>2, <1>3, <1>4, <1>6 DEF Wire, RpcInv, SocketOwned

LEMMA StreamSendStep ==
  ASSUME RpcInv, NEW j \in Streams, StreamSend(j)
  PROVE  RpcInv'
<1>0. /\ session = "open" /\ lock = NoThread /\ active = NoId /\ outcome[j] = "unused"
      /\ toWorker' = Append(toWorker, Frame("stream", j, 0)) /\ Ends(j, "pending") /\ active' = j
      /\ jobs' = (jobs \ {slot}) \cup {j} /\ slot' = j
      /\ UNCHANGED <<session, lock, waiting, toServer, worker, serving, emitted, nextSeq, draining,
                     cancelled, signalled>>
  BY DEF StreamSend, StartJob, workerVars
<1>1. j \in Ids /\ j # NoId
  BY RpcIds DEF Ids
<1>2. Wire' /\ toWorker' \in Seq(Frames)
  BY <1>0, <1>1, SendWire
<1>3. /\ NothingReadYet' /\ FaultsExplained' /\ CompleteUnlessSignalled'
      /\ outcome' \in [Ids -> Outcomes]
  BY <1>0, <1>1, SentBooks
<1>4. LockExact'
  <2>1. \A r \in Requests : outcome'[r] = outcome[r]
    BY <1>0, <1>1, RpcIds, EndsOutcome DEF Outcomes, RpcInv, SocketOwned, Ids
  <2>2. \A t \in Threads : waiting[t] \in Requests \cup {NoId} /\ waiting'[t] = waiting[t]
    BY <1>0 DEF RpcInv, SocketOwned, RpcTypeOK
  <2>3. LockExact /\ lock' = lock
    BY <1>0 DEF RpcInv, SocketOwned
  <2> QED
    BY ONLY <2>1, <2>2, <2>3 DEF LockExact
<1>5. jobs' \subseteq Streams /\ slot' \in jobs' \cup {NoId}
  BY <1>0 DEF RpcInv, SocketOwned, RpcTypeOK
<1>6. RpcTypeOK'
  BY <1>0, <1>2, <1>3, <1>5 DEF RpcInv, SocketOwned, RpcTypeOK, Outcomes
<1> QED
  BY <1>2, <1>3, <1>4, <1>6 DEF Wire, RpcInv, SocketOwned
-----------------------------------------------------------------------------
(* While a frame for the reader is on the way, no request of it is. *)
LEMMA FrameToRead ==
  ASSUME RpcInv, toServer # <<>>, Head(toServer).id # NoId
  PROVE  /\ session = "open" /\ Head(toServer) = toServer[1] /\ 1 \in DOMAIN toServer
         /\ \A n \in DOMAIN toWorker : toWorker[n].kind = "cancel" /\ toWorker[n].id \in signalled
         /\ Tail(toServer) \in Seq(Frames) /\ Len(toServer) \in Nat /\ Len(toServer) > 0
         /\ DOMAIN toServer = 1 .. Len(toServer) /\ Len(Tail(toServer)) = Len(toServer) - 1
         /\ DOMAIN Tail(toServer) = 1 .. Len(toServer) - 1
         /\ \A n \in DOMAIN Tail(toServer) :
              n + 1 \in DOMAIN toServer /\ Tail(toServer)[n] = toServer[n + 1]
<1>1. session = "open"
  BY DEF RpcInv, SocketOwned, RpcTypeOK, GoneQuiet
<1>2. /\ Head(toServer) = toServer[1] /\ 1 \in DOMAIN toServer
      /\ Tail(toServer) \in Seq(Frames) /\ Len(toServer) \in Nat /\ Len(toServer) > 0
      /\ DOMAIN toServer = 1 .. Len(toServer) /\ Len(Tail(toServer)) = Len(toServer) - 1
      /\ DOMAIN Tail(toServer) = 1 .. Len(toServer) - 1
      /\ \A n \in DOMAIN Tail(toServer) :
           n + 1 \in DOMAIN toServer /\ Tail(toServer)[n] = toServer[n + 1]
  BY DEF RpcInv, SocketOwned, RpcTypeOK
<1>3. \A n \in DOMAIN toWorker : toWorker[n].kind = "cancel" /\ toWorker[n].id \in signalled
  BY <1>1, <1>2 DEF RpcInv, RequestsAddressed
<1> QED
  BY <1>1, <1>2, <1>3

(* A progress frame or the next chunk is taken off the wire. *)
LEMMA TakeWire ==
  ASSUME RpcInv, toServer # <<>>, NEW i \in Ids, Readers = {i}, Head(toServer).id = i,
         toServer' = Tail(toServer),
         \/ Head(toServer).kind = "progress" /\ nextSeq' = nextSeq
         \/ /\ Head(toServer).kind = "chunk" /\ i \in Streams
            /\ nextSeq' = [nextSeq EXCEPT ![i] = @ + 1],
         UNCHANGED <<session, toWorker, worker, serving, emitted, lock, active, outcome, signalled>>
  PROVE  Wire'
<1> USE DEF RpcInv, SocketOwned
<1>0. i # NoId
  BY RpcIds DEF Ids
<1>1. /\ session = "open" /\ Head(toServer) = toServer[1] /\ 1 \in DOMAIN toServer
      /\ \A n \in DOMAIN toWorker : toWorker[n].kind = "cancel" /\ toWorker[n].id \in signalled
      /\ Len(toServer) \in Nat /\ Len(toServer) > 0 /\ DOMAIN toServer = 1 .. Len(toServer)
      /\ DOMAIN toServer' = 1 .. Len(toServer) - 1 /\ Len(toServer') = Len(toServer) - 1
      /\ \A n \in DOMAIN toServer' : n + 1 \in DOMAIN toServer /\ toServer'[n] = toServer[n + 1]
      /\ toServer \in Seq(Frames)
  BY <1>0, FrameToRead DEF RpcTypeOK
<1>2. Readers' = {i} /\ \A j \in Streams : nextSeq[j] \in Nat /\ nextSeq'[j] \in Nat
  BY DEF Readers, RpcTypeOK
<1>3. \A n \in 0 .. Len(toServer) - 1 :
        i \in Streams => nextSeq'[i] + Cardinality(ChunksIn(toServer', n))
                          = nextSeq[i] + Cardinality(ChunksIn(toServer, n + 1))
  <2> SUFFICES ASSUME NEW n \in 0 .. Len(toServer) - 1, i \in Streams
               PROVE  nextSeq'[i] + Cardinality(ChunksIn(toServer', n))
                        = nextSeq[i] + Cardinality(ChunksIn(toServer, n + 1))
    OBVIOUS
  <2>1. n \in Nat /\ n + 1 \in Nat
    BY <1>1
  <2>2. Cardinality(ChunksIn(toServer, n + 1)) \in Nat /\ Cardinality(ChunksIn(toServer', n)) \in Nat
    BY <2>1, ChunksFinite
  <2>3. CASE Head(toServer).kind = "progress" /\ nextSeq' = nextSeq
    BY <1>1, <1>2, <2>2, <2>3, ChunksTail
  <2>4. CASE Head(toServer).kind = "chunk" /\ nextSeq' = [nextSeq EXCEPT ![i] = @ + 1]
    <3>1. Cardinality(ChunksIn(toServer', n)) + 1 = Cardinality(ChunksIn(toServer, n + 1))
      BY <1>1, <2>4, ChunksTail
    <3>2. nextSeq'[i] = nextSeq[i] + 1
      BY <2>4 DEF RpcTypeOK
    <3>3. \A a, b, c, d \in Nat : b + 1 = c /\ d = a + 1 => d + b = a + c
      OBVIOUS
    <3>4. nextSeq[i] \in Nat /\ nextSeq'[i] \in Nat
      BY <1>2
    <3> QED
      BY ONLY <2>2, <3>1, <3>2, <3>3, <3>4
  <2> QED
    BY <2>3, <2>4
<1>4. OneReader' /\ FlagExact' /\ GoneQuiet'
  BY <1>1, <1>2 DEF OneReader, FlagExact, GoneQuiet
<1>5. ASSUME NEW n \in DOMAIN toServer'
      PROVE  FramesAddressed!2!(n)'
  <2>1. n + 1 \in DOMAIN toServer /\ toServer'[n] = toServer[n + 1] /\ n \in 0 .. Len(toServer) - 1
    BY <1>1, <1>5
  <2>2. toServer[n + 1].kind = "chunk" => i \in Streams /\ toServer[n + 1].id = i
    BY <1>1, <2>1 DEF FramesAddressed, AnswersLast
  <2>3. toServer[n + 1].kind = "chunk" =>
          toServer[n + 1].seq = nextSeq[i] + Cardinality(ChunksIn(toServer, n + 1)) - 1
    BY <1>1, <2>1, <2>2 DEF FramesAddressed
  <2>4. toServer[n + 1].kind = "chunk" =>
          toServer[n + 1].seq = nextSeq'[i] + Cardinality(ChunksIn(toServer', n)) - 1
    <3> SUFFICES ASSUME toServer[n + 1].kind = "chunk"
                 PROVE  toServer[n + 1].seq = nextSeq'[i] + Cardinality(ChunksIn(toServer', n)) - 1
      OBVIOUS
    <3> DEFINE read == nextSeq[i]
               left == Cardinality(ChunksIn(toServer, n + 1))
               read1 == nextSeq'[i]
               left1 == Cardinality(ChunksIn(toServer', n))
               seq == toServer[n + 1].seq
    <3>1. read1 + left1 = read + left
      BY <1>3, <2>1, <2>2
    <3>2. left \in Nat /\ left1 \in Nat
      BY <1>1, <2>1, ChunksFinite
    <3>3. read \in Nat /\ read1 \in Nat
      BY <1>2, <2>2
    <3>4. seq = read + left - 1
      BY <2>3
    <3> HIDE DEF read, left, read1, left1, seq
    <3>5. seq = read1 + left1 - 1
      BY <3>1, <3>2, <3>3, <3>4
    <3> QED
      BY <3>5 DEF read1, left1, seq
  <2>5. toServer[n + 1].id \in {i, NoId} /\ (toServer[n + 1].id = NoId => toServer[n + 1].kind = "error")
    BY <1>1, <2>1 DEF FramesAddressed
  <2> QED
    BY <1>2, <2>1, <2>2, <2>4, <2>5
<1>6. FramesAddressed'
  BY <1>5 DEF FramesAddressed
<1>7. RequestsAddressed'
  BY <1>1 DEF RequestsAddressed
<1>8. ServesReader'
  <2>1. worker \in {"poll", "emit", "end"} =>
          /\ serving \in Streams /\ emitted <= Functions[serving] /\ serving = i
          /\ emitted = nextSeq'[serving] + Cardinality(ChunksIn(toServer', Len(toServer')))
    <3> SUFFICES ASSUME worker \in {"poll", "emit", "end"}
                 PROVE  /\ serving \in Streams /\ emitted <= Functions[serving] /\ serving = i
                        /\ emitted = nextSeq'[serving] + Cardinality(ChunksIn(toServer', Len(toServer')))
      OBVIOUS
    <3>1. /\ serving \in Streams /\ emitted <= Functions[serving] /\ serving = i
          /\ emitted = nextSeq[serving] + Cardinality(ChunksIn(toServer, Len(toServer)))
      BY <1>1 DEF ServesReader
    <3>2. Len(toServer') \in 0 .. Len(toServer) - 1 /\ Len(toServer') + 1 = Len(toServer)
      BY <1>1
    <3> QED
      BY <1>3, <3>1, <3>2
  <2>2. worker \in {"call", "poll", "emit", "end"} =>
          /\ serving \in Readers'
          /\ \A n \in DOMAIN toServer' :
               toServer'[n].kind \in {"result", "error"} => toServer'[n].id = NoId
    BY <1>1, <1>2 DEF ServesReader
  <2> QED
    BY <1>1, <2>1, <2>2 DEF ServesReader
<1>9. ASSUME NEW n \in DOMAIN toServer'
      PROVE  AnswersLast!2!(n)'
  <2>1. n + 1 \in DOMAIN toServer /\ toServer'[n] = toServer[n + 1] /\ n \in 0 .. Len(toServer) - 1
    BY <1>1, <1>9
  <2>2. \A m \in DOMAIN toServer' : m > n => m + 1 > n + 1
    BY <1>1, <2>1
  <2>3. toServer[n + 1].id \in {i, NoId}
    BY <1>1, <2>1 DEF FramesAddressed
  <2>4. ASSUME toServer[n + 1].kind = "result", toServer[n + 1].id \in Streams \ signalled
        PROVE  nextSeq'[toServer[n + 1].id] + Cardinality(ChunksIn(toServer', n))
                 = Functions[toServer[n + 1].id]
    <3>1. toServer[n + 1].id = i
      BY <2>3, <2>4, RpcIds DEF Ids
    <3>2. nextSeq[i] + Cardinality(ChunksIn(toServer, n + 1)) = Functions[i]
      BY <1>1, <2>1, <2>4, <3>1 DEF AnswersLast
    <3> QED
      BY <1>3, <2>1, <2>4, <3>1, <3>2
  <2> QED
    BY <1>1, <2>1, <2>2, <2>4 DEF AnswersLast
<1>10. AnswersLast'
  BY <1>9 DEF AnswersLast
<1> QED
  BY <1>4, <1>6, <1>7, <1>8, <1>10 DEF Wire
(* The answer is taken off the wire: what is left was addressed to no one, *)
(* and the socket is free.                                                 *)
LEMMA AnswerWire ==
  ASSUME RpcInv, toServer # <<>>, NEW i \in Ids, Readers = {i}, Head(toServer).id = i,
         NEW how \in {"result", "error"}, Head(toServer).kind = how, Ends(i, how),
         toServer' = Tail(toServer), active' = NoId,
         UNCHANGED <<session, toWorker, worker, serving, emitted, nextSeq, signalled>>
  PROVE  Wire'
<1> USE DEF RpcInv, SocketOwned
<1>0. i # NoId
  BY RpcIds DEF Ids
<1>1. /\ session = "open" /\ Head(toServer) = toServer[1] /\ 1 \in DOMAIN toServer
      /\ \A n \in DOMAIN toWorker : toWorker[n].kind = "cancel" /\ toWorker[n].id \in signalled
      /\ \A n \in DOMAIN toServer' :
           n \in Nat /\ n > 0 /\ n + 1 \in DOMAIN toServer /\ toServer'[n] = toServer[n + 1]
  BY <1>0, FrameToRead
<1>2. /\ worker \in {"idle", "exited"}
      /\ \A m \in DOMAIN toServer : m > 1 => toServer[m].id = NoId
  BY <1>0, <1>1 DEF AnswersLast
<1>3. \A n \in DOMAIN toServer' : toServer'[n].id = NoId /\ toServer'[n].kind = "error"
  <2> SUFFICES ASSUME NEW n \in DOMAIN toServer'
               PROVE  toServer'[n].id = NoId /\ toServer'[n].kind = "error"
    OBVIOUS
  <2>1. n + 1 \in DOMAIN toServer /\ n + 1 > 1 /\ toServer'[n] = toServer[n + 1]
    BY <1>1
  <2> QED
    BY <1>1, <1>2, <2>1 DEF FramesAddressed
<1>4. Readers' = {} /\ \A j \in Streams : outcome'[j] # "pending"
  <2>1. outcome'[i] = how /\ \A k \in Ids : k # i => outcome'[k] = outcome[k]
    BY EndsOutcome DEF Outcomes
  <2>2. \A k \in Ids : outcome'[k] # "pending"
    BY <2>1 DEF Readers
  <2> QED
    BY <2>2 DEF Readers, Ids
<1>5. OneReader' /\ GoneQuiet'
  BY <1>1, <1>4 DEF OneReader, GoneQuiet
<1>6. FlagExact'
  BY <1>4, RpcIds DEF FlagExact, Ids
<1>7. FramesAddressed'
  BY <1>3 DEF FramesAddressed
<1>8. RequestsAddressed' /\ ServesReader'
  BY <1>1, <1>2 DEF RequestsAddressed, ServesReader
<1>9. AnswersLast'
  <2>1. \A n \in DOMAIN toServer' : signalled # {}
    BY <1>1, <1>3 DEF AnswersLast
  <2> QED
    BY <1>3, <2>1, RpcIds DEF AnswersLast, Ids
<1> QED
  BY <1>5, <1>6, <1>7, <1>8, <1>9 DEF Wire

LEMMA CallReadStep ==
  ASSUME RpcInv, NEW t \in Threads, CallRead(t)
  PROVE  RpcInv'
<1> DEFINE f == Head(toServer)
<1>0. /\ waiting[t] # NoId /\ toServer # <<>> /\ session = "open"
  BY DEF CallRead, RpcInv, SocketOwned, RpcTypeOK, GoneQuiet
<1>1. waiting[t] \in Requests /\ waiting[t] \in Ids /\ Readers = {waiting[t]} /\ active = NoId
  BY <1>0, OwnerOfSocket DEF Ids
<1>2. CASE /\ f.kind = "progress" /\ f.id = waiting[t]
           /\ UNCHANGED <<lock, active, waiting, outcome, nextSeq, draining, jobVars, signalled>>
           /\ toServer' = Tail(toServer)
           /\ UNCHANGED <<session, toWorker, workerVars>>
  <2>1. UNCHANGED <<worker, serving, emitted, jobs, slot, cancelled>>
    BY <1>2 DEF workerVars, jobVars
  <2>2. Wire'
    BY <1>0, <1>1, <1>2, <2>1, TakeWire
  <2>3. toServer' \in Seq(Frames)
    BY <1>0, <1>2 DEF RpcInv, SocketOwned, RpcTypeOK
  <2>4. RpcTypeOK'
    BY <1>2, <2>1, <2>3 DEF RpcInv, SocketOwned, RpcTypeOK
  <2>5. LockExact' /\ NothingReadYet' /\ FaultsExplained' /\ CompleteUnlessSignalled'
    BY <1>2 DEF RpcInv, LockExact, NothingReadYet, FaultsExplained, CompleteUnlessSignalled
  <2> QED
    BY <2>2, <2>4, <2>5 DEF Wire, RpcInv, SocketOwned
<1>3. CASE /\ f.kind \in {"result", "error"} /\ f.id = waiting[t]
           /\ CallOver(t, f.kind)
           /\ toServer' = Tail(toServer)
           /\ UNCHANGED <<session, toWorker, workerVars>>
  <2>1. /\ UNCHANGED <<worker, serving, emitted, jobs, slot, cancelled>>
        /\ UNCHANGED <<active, nextSeq, draining, signalled>>
        /\ Ends(waiting[t], f.kind)
    BY <1>3 DEF workerVars, jobVars, CallOver
  <2>2. Wire'
    BY <1>0, <1>1, <1>3, <2>1, AnswerWire
  <2>3. toServer' \in Seq(Frames)
    BY <1>0, <1>3 DEF RpcInv, SocketOwned, RpcTypeOK
  <2>4. /\ LockExact' /\ NothingReadYet' /\ FaultsExplained' /\ CompleteUnlessSignalled'
        /\ outcome' \in [Ids -> Outcomes] /\ lock' \in Threads \cup {NoThread}
        /\ waiting' \in [Threads -> Requests \cup {NoId}]
    <3>1. f.kind \in Outcomes \ {"unused", "pending"}
      BY <1>3 DEF Outcomes
    <3> QED
      BY <1>0, <1>3, <3>1, CallOverBooks
  <2>5. RpcTypeOK'
    BY <1>3, <2>1, <2>3, <2>4 DEF RpcInv, SocketOwned, RpcTypeOK, Outcomes
  <2> QED
    BY <2>2, <2>4, <2>5 DEF Wire, RpcInv, SocketOwned
<1>4. CASE f.id # waiting[t] /\ CallOver(t, "violation") /\ KillWorker
  <2>1. signalled # {}
    BY <1>0, <1>1, <1>4, FaultyFrame
  <2> QED
    BY <1>0, <1>4, <2>1, CallKilledStep
<1> QED
  BY <1>2, <1>3, <1>4 DEF CallRead

LEMMA StreamReadStep ==
  ASSUME RpcInv, NEW j \in Streams, StreamRead(j)
  PROVE  RpcInv'
<1> DEFINE f == Head(toServer)
<1>0. /\ outcome[j] = "pending" /\ toServer # <<>> /\ session = "open" /\ j \in Ids /\ j \notin Requests
  BY RpcIds DEF StreamRead, Pulling, RpcInv, SocketOwned, RpcTypeOK, GoneQuiet, Ids
<1>1. Readers = {j} /\ active = j
  BY <1>0, OwnerOfSocket
<1>a. Head(toServer) = toServer[1] /\ 1 \in DOMAIN toServer /\ Tail(toServer) \in Seq(Frames)
  BY <1>0 DEF RpcInv, SocketOwned, RpcTypeOK
<1>2. CASE /\ f.kind = "chunk" /\ f.id = j /\ f.seq = nextSeq[j]
           /\ nextSeq' = [nextSeq EXCEPT ![j] = @ + 1]
           /\ toServer' = Tail(toServer)
           /\ UNCHANGED <<session, toWorker, workerVars, lock, active, waiting, outcome, draining,
                          jobVars, signalled>>
  <2>1. UNCHANGED <<worker, serving, emitted, jobs, slot, cancelled>>
    BY <1>2 DEF workerVars, jobVars
  <2>2. Wire'
    BY <1>0, <1>1, <1>2, <2>1, TakeWire
  <2>3. nextSeq[j] < Functions[j] /\ nextSeq[j] \in Nat /\ Functions[j] \in Nat
    <3>1. AnswersLast /\ nextSeq[j] \in Nat /\ Functions[j] \in Nat
      BY RpcLimits DEF RpcInv, SocketOwned, RpcTypeOK
    <3> QED
      BY <1>0, <1>a, <1>2, <3>1 DEF AnswersLast
  <2>4. /\ nextSeq' \in [Streams -> Nat] /\ nextSeq'[j] = nextSeq[j] + 1
        /\ \A k \in Streams : k # j => nextSeq'[k] = nextSeq[k]
    BY <1>2, <2>3 DEF RpcInv, SocketOwned, RpcTypeOK
  <2>5. \A k \in Streams : nextSeq'[k] <= Functions[k]
    BY <2>3, <2>4 DEF RpcInv, SocketOwned, RpcTypeOK
  <2>6. RpcTypeOK'
    BY <1>a, <1>2, <2>1, <2>4, <2>5 DEF RpcInv, SocketOwned, RpcTypeOK
  <2>7. LockExact' /\ NothingReadYet' /\ FaultsExplained' /\ CompleteUnlessSignalled'
    BY <1>0, <1>2, <2>4
       DEF RpcInv, LockExact, NothingReadYet, FaultsExplained, CompleteUnlessSignalled
  <2> QED
    BY <2>2, <2>6, <2>7 DEF Wire, RpcInv, SocketOwned
<1>3. CASE /\ f.kind \in {"result", "error"} /\ f.id = j
           /\ toServer' = Tail(toServer)
           /\ UNCHANGED <<session, toWorker, workerVars>>
           /\ StreamOver(j, f.kind)
  <2>1. /\ UNCHANGED <<worker, serving, emitted, jobs, slot, cancelled>>
        /\ UNCHANGED <<lock, waiting, nextSeq, signalled>>
        /\ active' = NoId /\ draining' = NoId /\ Ends(j, f.kind)
    BY <1>0, <1>1, <1>3 DEF workerVars, jobVars, StreamOver
  <2>2. Wire'
    BY <1>0, <1>1, <1>3, <2>1, AnswerWire
  <2>3. f.kind = "result" => j \in signalled \/ nextSeq[j] = Functions[j]
    <3> SUFFICES ASSUME f.kind = "result", j \notin signalled PROVE nextSeq[j] = Functions[j]
      OBVIOUS
    <3>1. nextSeq[j] + Cardinality(ChunksIn(toServer, 1)) = Functions[j] /\ nextSeq[j] \in Nat
      BY <1>0, <1>a, <1>3 DEF RpcInv, AnswersLast, SocketOwned, RpcTypeOK
    <3>2. ChunksIn(toServer, 1) = {}
      BY <1>a DEF ChunksIn
    <3>3. Cardinality(ChunksIn(toServer, 1)) = 0
      BY <3>2, FS_EmptySet
    <3> QED
      BY <3>1, <3>3
  <2>4. /\ LockExact' /\ NothingReadYet' /\ FaultsExplained' /\ CompleteUnlessSignalled'
        /\ outcome' \in [Ids -> Outcomes]
    <3>1. f.kind \in Outcomes \ {"unused", "pending"} /\ f.kind # "violation"
      BY <1>3 DEF Outcomes
    <3> QED
      BY <1>0, <2>1, <2>3, <3>1, EndsBooks
  <2>5. RpcTypeOK'
    BY <1>a, <1>3, <2>1, <2>4 DEF RpcInv, SocketOwned, RpcTypeOK, Outcomes
  <2> QED
    BY <2>2, <2>4, <2>5 DEF Wire, RpcInv, SocketOwned
<1>4. CASE /\ f.id # j \/ (f.kind = "chunk" /\ f.seq # nextSeq[j])
           /\ KillWorker
           /\ StreamOver(j, "violation")
  <2>1. signalled # {}
    BY <1>0, <1>1, <1>4, FaultyFrame
  <2> QED
    BY <1>4, <2>1, StreamKilledStep
<1> QED
  BY <1>2, <1>3, <1>4 DEF StreamRead
-----------------------------------------------------------------------------
(* cancel_job puts at most a $/cancel on the wire. *)
LEMMA CancelJobStep ==
  ASSUME RpcInv, NEW j \in Streams, CancelJob(j)
  PROVE  RpcInv'
<1> USE DEF RpcInv, SocketOwned
<1>0. /\ slot' = NoId /\ cancelled' = cancelled \cup {j} /\ draining' \in {j, NoId}
      /\ UNCHANGED <<session, lock, active, toServer, worker, serving, emitted, waiting, outcome,
                     nextSeq, jobs>>
  BY DEF CancelJob, workerVars
<1>1. CASE UNCHANGED <<toWorker, signalled>>
  <2>1. RpcTypeOK'
    BY <1>0, <1>1 DEF RpcTypeOK
  <2>2. OneReader' /\ FlagExact' /\ GoneQuiet' /\ Readers' = Readers
    BY <1>0, <1>1 DEF OneReader, FlagExact, GoneQuiet, Readers
  <2>3. FramesAddressed'
    BY <1>0, <1>1, <2>2 DEF FramesAddressed
  <2>4. RequestsAddressed' /\ ServesReader'
    BY <1>0, <1>1, <2>2 DEF RequestsAddressed, ServesReader
  <2>5. AnswersLast'
    BY <1>0, <1>1 DEF AnswersLast
  <2>6. LockExact' /\ NothingReadYet' /\ FaultsExplained' /\ CompleteUnlessSignalled'
    BY <1>0, <1>1 DEF LockExact, NothingReadYet, FaultsExplained, CompleteUnlessSignalled
  <2> QED
    BY <2>1, <2>2, <2>3, <2>4, <2>5, <2>6
<1>2. CASE /\ session = "open" /\ active # NoId
           /\ toWorker' = Append(toWorker, Frame("cancel", active, 0))
           /\ signalled' = signalled \cup {active}
  <2>0. active \in Streams /\ active \in Ids
    BY <1>2 DEF RpcTypeOK, Ids
  <2>a. /\ Frame("cancel", active, 0) \in Frames
        /\ Frame("cancel", active, 0).kind = "cancel" /\ Frame("cancel", active, 0).id = active
    BY <2>0, FrameType
  <2>1. /\ toWorker' \in Seq(Frames) /\ DOMAIN toWorker' = 1 .. Len(toWorker) + 1
        /\ DOMAIN toWorker = 1 .. Len(toWorker) /\ Len(toWorker) \in Nat
        /\ \A n \in DOMAIN toWorker : toWorker'[n] = toWorker[n]
        /\ toWorker'[Len(toWorker) + 1].kind = "cancel" /\ toWorker'[Len(toWorker) + 1].id = active
    BY <1>2, <2>a DEF RpcTypeOK
  <2>2. RpcTypeOK'
    BY <1>0, <1>2, <2>0, <2>1 DEF RpcTypeOK
  <2>3. OneReader' /\ FlagExact' /\ GoneQuiet' /\ Readers' = Readers
    BY <1>0, <1>2 DEF OneReader, FlagExact, GoneQuiet, Readers
  <2>4. FramesAddressed'
    BY <1>0, <2>3 DEF FramesAddressed
  <2>5. ASSUME NEW n \in DOMAIN toWorker'
        PROVE  RequestsAddressed!2!(n)'
    <3>1. CASE n = Len(toWorker) + 1
      BY <1>2, <2>1, <3>1
    <3>2. CASE n \in DOMAIN toWorker
      <4>1. CASE toWorker[n].kind = "cancel"
        BY <1>2, <2>1, <3>2, <4>1 DEF RequestsAddressed
      <4>2. CASE toWorker[n].kind # "cancel"
        <5>1. \A m \in DOMAIN toWorker' : m # n => toWorker'[m].kind = "cancel"
          BY <1>2, <2>1, <3>2, <4>2 DEF RequestsAddressed
        <5> QED
          BY <1>0, <1>2, <2>1, <2>3, <3>2, <4>2, <5>1 DEF RequestsAddressed
      <4> QED
        BY <4>1, <4>2
    <3> QED
      BY <2>1, <3>1, <3>2
  <2>6. RequestsAddressed'
    BY <2>5 DEF RequestsAddressed
  <2>7. ServesReader'
    BY <1>0, <1>2, <2>3 DEF ServesReader
  <2>8. AnswersLast'
    BY <1>0, <1>2 DEF AnswersLast
  <2>9. LockExact' /\ NothingReadYet' /\ FaultsExplained' /\ CompleteUnlessSignalled'
    BY <1>0, <1>2 DEF LockExact, NothingReadYet, FaultsExplained, CompleteUnlessSignalled
  <2> QED
    BY <2>2, <2>3, <2>4, <2>6, <2>7, <2>8, <2>9
<1> QED
  BY <1>1, <1>2 DEF CancelJob

-----------------------------------------------------------------------------
(* A step of the worker leaves the adapter's books alone. *)
LEMMA WorkerBooks ==
  ASSUME RpcInv, UNCHANGED <<adapterVars, jobVars, signalled>>,
         toWorker' \in Seq(Frames), toServer' \in Seq(Frames),
         worker' \in {"idle", "call", "poll", "emit", "end", "exited"},
         serving' \in Ids \cup {NoId}, emitted' \in Nat
  PROVE  /\ Books' /\ OneReader' /\ FlagExact' /\ Readers' = Readers
         /\ UNCHANGED <<session, lock, active, outcome, nextSeq, signalled>>
<1> USE DEF RpcInv, SocketOwned
<1>1. UNCHANGED <<session, lock, active, waiting, outcome, nextSeq, draining, jobs, slot, cancelled,
                  signalled>>
  BY DEF adapterVars, jobVars
<1>2. RpcTypeOK'
  BY <1>1 DEF RpcTypeOK
<1>3. LockExact' /\ NothingReadYet' /\ FaultsExplained' /\ CompleteUnlessSignalled'
  BY <1>1 DEF LockExact, NothingReadYet, FaultsExplained, CompleteUnlessSignalled
<1>4. OneReader' /\ FlagExact' /\ Readers' = Readers
  BY <1>1 DEF OneReader, FlagExact, Readers
<1> QED
  BY <1>1, <1>2, <1>3, <1>4 DEF Books

LEMMA WorkerCrashStep ==
  ASSUME RpcInv, WorkerCrash
  PROVE  RpcInv'
<1> USE DEF RpcInv, SocketOwned
<1>1. /\ worker' = "exited" /\ serving' = NoId /\ emitted' = 0 /\ UNCHANGED <<toWorker, toServer>>
      /\ UNCHANGED <<adapterVars, jobVars, signalled>>
  BY DEF WorkerCrash, Unserved, socketVars
<1>2. /\ Books' /\ OneReader' /\ FlagExact' /\ Readers' = Readers
      /\ UNCHANGED <<session, lock, active, outcome, nextSeq, signalled>>
  BY <1>1, WorkerBooks DEF RpcTypeOK
<1>3. FramesAddressed'
  BY <1>1, <1>2 DEF FramesAddressed
<1>4. GoneQuiet' /\ ServesReader'
  BY <1>1, <1>2 DEF GoneQuiet, ServesReader
<1>5. RequestsAddressed'
  BY <1>1, <1>2 DEF RequestsAddressed
<1>6. AnswersLast'
  BY <1>1, <1>2 DEF AnswersLast
<1> QED
  BY <1>2, <1>3, <1>4, <1>5, <1>6 DEF Wire, Books

(* The worker at work has taken the reader's request off the wire. *)
LEMMA AtWork ==
  ASSUME RpcInv, worker \in {"call", "poll", "emit", "end"}
  PROVE  /\ session = "open" /\ serving \in Readers /\ serving \in Ids
         /\ \A n \in DOMAIN toWorker : toWorker[n].kind = "cancel" /\ toWorker[n].id \in signalled
         /\ \A n \in DOMAIN toServer :
              toServer[n].kind \in {"result", "error"} => toServer[n].id = NoId
<1> USE DEF RpcInv, SocketOwned
<1>1. session = "open"
  BY DEF GoneQuiet, RpcTypeOK
<1> QED
  BY <1>1 DEF ServesReader, RequestsAddressed, Readers

LEMMA WorkerPollStep ==
  ASSUME RpcInv, WorkerPoll
  PROVE  RpcInv'
<1> USE DEF RpcInv, SocketOwned
<1>0. /\ worker = "poll" /\ UNCHANGED <<toServer, serving, emitted>>
      /\ UNCHANGED <<adapterVars, jobVars, signalled>>
  BY DEF WorkerPoll
<1>1. /\ session = "open" /\ serving \in Readers
      /\ \A n \in DOMAIN toWorker : toWorker[n].kind = "cancel" /\ toWorker[n].id \in signalled
      /\ \A n \in DOMAIN toServer :
           toServer[n].kind \in {"result", "error"} => toServer[n].id = NoId
  BY <1>0, AtWork
<1>2. /\ serving \in Streams /\ emitted <= Functions[serving]
      /\ emitted = nextSeq[serving] + Cardinality(ChunksIn(toServer, Len(toServer)))
      /\ emitted \in Nat /\ Functions[serving] \in Nat
  BY <1>0, <1>1, RpcLimits DEF ServesReader, RpcTypeOK
<1>3. /\ toWorker' \in Seq(Frames)
      /\ \A n \in DOMAIN toWorker' : toWorker'[n].kind = "cancel" /\ toWorker'[n].id \in signalled
      /\ worker' \in {"end", "emit"}
      /\ worker' = "end" => emitted = Functions[serving] \/ serving \in signalled
      /\ worker' = "emit" => emitted < Functions[serving]
  <2>1. CASE emitted = Functions[serving] \/ toWorker = <<>>
    BY <1>0, <1>1, <1>2, <2>1 DEF WorkerPoll, RpcTypeOK
  <2>2. CASE emitted # Functions[serving] /\ toWorker # <<>>
    <3>1. /\ toWorker' = Tail(toWorker)
          /\ worker' = IF Head(toWorker).kind # "cancel" THEN "exited"
                        ELSE IF Head(toWorker).id = serving THEN "end" ELSE "emit"
      BY <2>2 DEF WorkerPoll
    <3>2. /\ Head(toWorker) = toWorker[1] /\ 1 \in DOMAIN toWorker /\ toWorker' \in Seq(Frames)
          /\ \A n \in DOMAIN toWorker' : n + 1 \in DOMAIN toWorker /\ toWorker'[n] = toWorker[n + 1]
      BY <2>2, <3>1 DEF RpcTypeOK
    <3>3. Head(toWorker).kind = "cancel" /\ Head(toWorker).id \in signalled
      BY <1>1, <3>2
    <3>4. \A n \in DOMAIN toWorker' : toWorker'[n].kind = "cancel" /\ toWorker'[n].id \in signalled
      BY <1>1, <3>2
    <3>5. emitted < Functions[serving]
      BY <1>2, <2>2
    <3> QED
      BY <3>1, <3>2, <3>3, <3>4, <3>5
  <2> QED
    BY <2>1, <2>2
<1>4. /\ Books' /\ OneReader' /\ FlagExact' /\ Readers' = Readers
      /\ UNCHANGED <<session, lock, active, outcome, nextSeq, signalled>>
  BY <1>0, <1>3, WorkerBooks DEF RpcTypeOK
<1>5. FramesAddressed'
  BY <1>0, <1>4 DEF FramesAddressed
<1>6. GoneQuiet' /\ RequestsAddressed'
  BY <1>1, <1>3, <1>4 DEF GoneQuiet, RequestsAddressed
<1>7. ServesReader'
  BY <1>0, <1>1, <1>2, <1>3, <1>4 DEF ServesReader
<1>8. AnswersLast'
  BY <1>0, <1>1, <1>4 DEF AnswersLast
<1> QED
  BY <1>4, <1>5, <1>6, <1>7, <1>8 DEF Wire, Books
LEMMA SentFrame ==
  ASSUME RpcTypeOK, NEW f \in Frames, Send(f)
  PROVE  /\ toServer' \in Seq(Frames) /\ DOMAIN toServer' = 1 .. Len(toServer) + 1
         /\ DOMAIN toServer = 1 .. Len(toServer) /\ Len(toServer) \in Nat
         /\ Len(toServer') = Len(toServer) + 1
         /\ toServer'[Len(toServer) + 1] = f
         /\ \A n \in DOMAIN toServer :
              toServer'[n] = toServer[n] /\ ChunksIn(toServer', n) = ChunksIn(toServer, n)
         /\ f.kind # "chunk" =>
              ChunksIn(toServer', Len(toServer) + 1) = ChunksIn(toServer, Len(toServer))
         /\ f.kind = "chunk" =>
              Cardinality(ChunksIn(toServer', Len(toServer) + 1))
                = Cardinality(ChunksIn(toServer, Len(toServer))) + 1
<1>1. toServer' = Append(toServer, f) /\ toServer \in Seq(Frames) /\ Len(toServer) \in Nat
  BY DEF Send, RpcTypeOK
<1>2. /\ toServer' \in Seq(Frames) /\ DOMAIN toServer' = 1 .. Len(toServer) + 1
      /\ DOMAIN toServer = 1 .. Len(toServer) /\ Len(toServer') = Len(toServer) + 1
      /\ toServer'[Len(toServer) + 1] = f
      /\ \A n \in DOMAIN toServer : toServer'[n] = toServer[n] /\ n \in 0 .. Len(toServer)
  BY <1>1
<1> QED
  BY <1>1, <1>2, ChunksAppend

(* The worker sends a frame to the reader, or its error to no one. *)
LEMMA SentWire ==
  ASSUME RpcInv, session = "open", NEW f \in Frames, Send(f), Readers' = Readers,
         UNCHANGED <<session, nextSeq, signalled>>,
         f.id \in Readers \cup {NoId}, f.id = NoId => f.kind = "error" /\ signalled # {},
         f.kind = "chunk" =>
           /\ f.id \in Streams /\ f.seq < Functions[f.id]
           /\ f.seq = nextSeq[f.id] + Cardinality(ChunksIn(toServer, Len(toServer))),
         f.kind \in {"result", "error"} /\ f.id # NoId => worker' \in {"idle", "exited"},
         f.id # NoId =>
           \A n \in DOMAIN toServer : toServer[n].kind \in {"result", "error"} => toServer[n].id = NoId,
         f.kind = "result" /\ f.id \in Streams \ signalled =>
           nextSeq[f.id] + Cardinality(ChunksIn(toServer, Len(toServer))) = Functions[f.id],
         \/ f.id # NoId
         \/ worker' = worker
  PROVE  FramesAddressed' /\ AnswersLast'
<1> USE DEF RpcInv, SocketOwned
<1>1. /\ toServer' \in Seq(Frames) /\ DOMAIN toServer' = 1 .. Len(toServer) + 1
      /\ DOMAIN toServer = 1 .. Len(toServer) /\ Len(toServer) \in Nat
      /\ toServer'[Len(toServer) + 1] = f
      /\ \A n \in DOMAIN toServer :
           toServer'[n] = toServer[n] /\ ChunksIn(toServer', n) = ChunksIn(toServer, n)
      /\ f.kind # "chunk" =>
           ChunksIn(toServer', Len(toServer) + 1) = ChunksIn(toServer, Len(toServer))
      /\ f.kind = "chunk" =>
           Cardinality(ChunksIn(toServer', Len(toServer) + 1))
             = Cardinality(ChunksIn(toServer, Len(toServer))) + 1
  BY SentFrame
<1>2. ASSUME NEW n \in DOMAIN toServer'
      PROVE  FramesAddressed!2!(n)'
  <2>1. CASE n \in DOMAIN toServer
    BY <1>1, <2>1 DEF FramesAddressed
  <2>2. CASE n = Len(toServer) + 1
    <3>1. ASSUME f.kind = "chunk"
          PROVE  f.seq = nextSeq[f.id] + Cardinality(ChunksIn(toServer', n)) - 1
      <4> DEFINE k == Cardinality(ChunksIn(toServer, Len(toServer)))
                 k1 == Cardinality(ChunksIn(toServer', n))
                 read == nextSeq[f.id]
      <4>1. k1 = k + 1 /\ k \in Nat /\ f.seq = read + k
        BY <1>1, <2>2, <3>1, ChunksFinite
      <4> HIDE DEF k, k1
      <4>2. f.seq = read + (k1 - 1)
        BY <4>1
      <4> QED
        BY <4>2 DEF k1
    <3> QED
      BY <1>1, <2>2, <3>1
  <2> QED
    BY <1>1, <2>1, <2>2
<1>3. FramesAddressed'
  BY <1>2 DEF FramesAddressed
<1>4. ASSUME NEW n \in DOMAIN toServer'
      PROVE  AnswersLast!2!(n)'
  <2>1. CASE n \in DOMAIN toServer
    <3>1. ASSUME toServer[n].kind \in {"result", "error"}, toServer[n].id # NoId
          PROVE  /\ f.id = NoId /\ worker' \in {"idle", "exited"}
                 /\ \A m \in DOMAIN toServer' : m > n => toServer'[m].id = NoId
      <4>1. f.id = NoId
        BY <2>1, <3>1
      <4>2. worker \in {"idle", "exited"} /\ \A m \in DOMAIN toServer : m > n => toServer[m].id = NoId
        BY <2>1, <3>1 DEF AnswersLast
      <4> QED
        BY <1>1, <4>1, <4>2
    <3> QED
      BY <1>1, <2>1, <3>1 DEF AnswersLast
  <2>2. CASE n = Len(toServer) + 1
    <3>1. \A m \in DOMAIN toServer' : ~(m > n)
      BY <1>1, <2>2
    <3> QED
      BY <1>1, <2>2, <3>1
  <2> QED
    BY <1>1, <2>1, <2>2
<1>5. AnswersLast'
  BY <1>4 DEF AnswersLast
<1> QED
  BY <1>3, <1>5

LEMMA WorkerProgressStep ==
  ASSUME RpcInv, WorkerProgress
  PROVE  RpcInv'
<1> USE DEF RpcInv, SocketOwned
<1> DEFINE f == Frame("progress", serving, 0)
<1>0. /\ worker = "call" /\ Send(f) /\ UNCHANGED <<toWorker, worker, serving, emitted>>
      /\ UNCHANGED <<adapterVars, jobVars, signalled>>
  BY DEF WorkerProgress, workerVars
<1>1. /\ session = "open" /\ serving \in Readers /\ serving \in Ids
      /\ \A n \in DOMAIN toWorker : toWorker[n].kind = "cancel" /\ toWorker[n].id \in signalled
      /\ \A n \in DOMAIN toServer :
           toServer[n].kind \in {"result", "error"} => toServer[n].id = NoId
  BY <1>0, AtWork
<1>2. f \in Frames /\ f.kind = "progress" /\ f.id = serving /\ f.id # NoId
  BY <1>1, FrameType, RpcIds DEF Ids
<1> HIDE DEF f
<1>3. /\ toServer' \in Seq(Frames) /\ DOMAIN toServer' = 1 .. Len(toServer) + 1
      /\ DOMAIN toServer = 1 .. Len(toServer) /\ Len(toServer) \in Nat
      /\ toServer'[Len(toServer) + 1] = f
      /\ \A n \in DOMAIN toServer : toServer'[n] = toServer[n]
  BY <1>0, <1>2, SentFrame
<1>4. /\ Books' /\ OneReader' /\ FlagExact' /\ Readers' = Readers
      /\ UNCHANGED <<session, lock, active, outcome, nextSeq, signalled>>
  BY <1>0, <1>3, WorkerBooks DEF RpcTypeOK
<1>5. FramesAddressed' /\ AnswersLast'
  BY <1>0, <1>1, <1>2, <1>4, SentWire
<1>6. GoneQuiet' /\ RequestsAddressed'
  BY <1>0, <1>1, <1>4 DEF GoneQuiet, RequestsAddressed
<1>7. ServesReader'
  <2>1. \A n \in DOMAIN toServer' :
          toServer'[n].kind \in {"result", "error"} => toServer'[n].id = NoId
    BY <1>1, <1>2, <1>3
  <2> QED
    BY <1>0, <1>1, <1>4, <2>1 DEF ServesReader
<1> QED
  BY <1>4, <1>5, <1>6, <1>7 DEF Wire, Books

LEMMA WorkerEmitStep ==
  ASSUME RpcInv, WorkerEmit
  PROVE  RpcInv'
<1> USE DEF RpcInv, SocketOwned
<1> DEFINE f == Frame("chunk", serving, emitted)
<1>0. /\ worker = "emit" /\ Send(f) /\ emitted' = emitted + 1 /\ worker' = "poll"
      /\ UNCHANGED <<toWorker, serving>> /\ UNCHANGED <<adapterVars, jobVars, signalled>>
  BY DEF WorkerEmit
<1>1. /\ session = "open" /\ serving \in Readers /\ serving \in Ids
      /\ \A n \in DOMAIN toWorker : toWorker[n].kind = "cancel" /\ toWorker[n].id \in signalled
      /\ \A n \in DOMAIN toServer :
           toServer[n].kind \in {"result", "error"} => toServer[n].id = NoId
  BY <1>0, AtWork
<1>2. /\ serving \in Streams /\ emitted < Functions[serving] /\ emitted \in Nat
      /\ emitted = nextSeq[serving] + Cardinality(ChunksIn(toServer, Len(toServer)))
      /\ nextSeq[serving] \in Nat /\ Functions[serving] \in Nat
  BY <1>0, <1>1, RpcLimits DEF ServesReader, RpcTypeOK
<1>3. f \in Frames /\ f.kind = "chunk" /\ f.id = serving /\ f.id # NoId /\ f.seq = emitted
  BY <1>1, <1>2, FrameType, RpcIds DEF Ids
<1> HIDE DEF f
<1>4. /\ toServer' \in Seq(Frames) /\ DOMAIN toServer' = 1 .. Len(toServer) + 1
      /\ DOMAIN toServer = 1 .. Len(toServer) /\ Len(toServer) \in Nat
      /\ Len(toServer') = Len(toServer) + 1 /\ toServer'[Len(toServer) + 1] = f
      /\ \A n \in DOMAIN toServer : toServer'[n] = toServer[n]
      /\ Cardinality(ChunksIn(toServer', Len(toServer')))
           = Cardinality(ChunksIn(toServer, Len(toServer))) + 1
  BY <1>0, <1>3, SentFrame
<1>5. /\ Books' /\ OneReader' /\ FlagExact' /\ Readers' = Readers
      /\ UNCHANGED <<session, lock, active, outcome, nextSeq, signalled>>
  BY <1>0, <1>2, <1>4, WorkerBooks DEF RpcTypeOK
<1>6. FramesAddressed' /\ AnswersLast'
  BY <1>0, <1>1, <1>2, <1>3, <1>5, SentWire
<1>7. GoneQuiet' /\ RequestsAddressed'
  BY <1>0, <1>1, <1>5 DEF GoneQuiet, RequestsAddressed
<1>8. ServesReader'
  <2>1. \A n \in DOMAIN toServer' :
          toServer'[n].kind \in {"result", "error"} => toServer'[n].id = NoId
    BY <1>1, <1>3, <1>4
  <2>2. emitted' <= Functions[serving]
    BY <1>0, <1>2
  <2>3. emitted' = nextSeq[serving] + Cardinality(ChunksIn(toServer', Len(toServer')))
    <3> DEFINE k == Cardinality(ChunksIn(toServer, Len(toServer)))
               k1 == Cardinality(ChunksIn(toServer', Len(toServer')))
               read == nextSeq[serving]
    <3>1. k \in Nat /\ k1 = k + 1 /\ read \in Nat /\ emitted = read + k
      BY <1>2, <1>4, ChunksFinite
    <3> HIDE DEF k, k1, read
    <3>2. emitted' = read + k1
      BY <1>0, <3>1
    <3> QED
      BY <3>2 DEF k1, read
  <2> QED
    BY <1>0, <1>1, <1>2, <1>5, <2>1, <2>2, <2>3 DEF ServesReader
<1> QED
  BY <1>5, <1>6, <1>7, <1>8 DEF Wire, Books
LEMMA WorkerRespondStep ==
  ASSUME RpcInv, WorkerRespond
  PROVE  RpcInv'
<1> USE DEF RpcInv, SocketOwned
<1>0. /\ worker \in {"call", "emit", "end"} /\ worker' = "idle" /\ serving' = NoId /\ emitted' = 0
      /\ UNCHANGED toWorker /\ UNCHANGED <<adapterVars, jobVars, signalled>>
  BY DEF WorkerRespond, Unserved
<1>1. /\ session = "open" /\ serving \in Readers /\ serving \in Ids /\ serving # NoId
      /\ \A n \in DOMAIN toWorker : toWorker[n].kind = "cancel" /\ toWorker[n].id \in signalled
      /\ \A n \in DOMAIN toServer :
           toServer[n].kind \in {"result", "error"} => toServer[n].id = NoId
  BY <1>0, AtWork, RpcIds DEF Ids
<1>2. PICK f \in Frames :
        /\ Send(f) /\ f.id = serving /\ f.kind \in {"result", "error"}
        /\ f.kind = "result" => worker \in {"call", "end"}
  <2>1. /\ Frame("result", serving, 0) \in Frames /\ Frame("result", serving, 0).id = serving
        /\ Frame("result", serving, 0).kind = "result"
    BY <1>1, FrameType
  <2>2. /\ Frame("error", serving, 0) \in Frames /\ Frame("error", serving, 0).id = serving
        /\ Frame("error", serving, 0).kind = "error"
    BY <1>1, FrameType
  <2>3. CASE worker \in {"call", "end"} /\ Send(Frame("result", serving, 0))
    BY <2>1, <2>3
  <2>4. CASE worker \in {"call", "emit"} /\ Send(Frame("error", serving, 0))
    BY <2>2, <2>4
  <2> QED
    BY <2>3, <2>4 DEF WorkerRespond
<1>3. toServer' \in Seq(Frames)
  BY <1>2, SentFrame
<1>4. /\ Books' /\ OneReader' /\ FlagExact' /\ Readers' = Readers
      /\ UNCHANGED <<session, lock, active, outcome, nextSeq, signalled>>
  BY <1>0, <1>3, WorkerBooks DEF RpcTypeOK
<1>5. ASSUME f.kind = "result", f.id \in Streams \ signalled
      PROVE  nextSeq[f.id] + Cardinality(ChunksIn(toServer, Len(toServer))) = Functions[f.id]
  <2>1. worker = "end"
    BY <1>1, <1>2, <1>5, RpcIds DEF ServesReader
  <2> QED
    BY <1>1, <1>2, <1>5, <2>1 DEF ServesReader
<1>6. FramesAddressed' /\ AnswersLast'
  BY <1>0, <1>1, <1>2, <1>4, <1>5, SentWire
<1>7. GoneQuiet' /\ RequestsAddressed'
  BY <1>0, <1>1, <1>4 DEF GoneQuiet, RequestsAddressed
<1>8. ServesReader'
  BY <1>0 DEF ServesReader
<1> QED
  BY <1>4, <1>6, <1>7, <1>8 DEF Wire, Books

LEMMA WorkerAcceptStep ==
  ASSUME RpcInv, WorkerAccept
  PROVE  RpcInv'
<1> USE DEF RpcInv, SocketOwned
<1> DEFINE f == Head(toWorker)
<1>0. /\ worker = "idle" /\ toWorker # <<>> /\ toWorker' = Tail(toWorker) /\ session = "open"
      /\ UNCHANGED <<adapterVars, jobVars, signalled>>
  BY DEF WorkerAccept, GoneQuiet, RpcTypeOK
<1>1. /\ f = toWorker[1] /\ 1 \in DOMAIN toWorker /\ f \in Frames /\ toWorker' \in Seq(Frames)
      /\ \A n \in DOMAIN toWorker' :
           n \in Nat /\ n > 0 /\ n + 1 \in DOMAIN toWorker /\ toWorker'[n] = toWorker[n + 1]
  BY <1>0 DEF RpcTypeOK
<1>2. CASE /\ f.kind \in {"request", "stream"}
           /\ worker' = IF f.kind = "request" THEN "call" ELSE "poll"
           /\ serving' = f.id /\ emitted' = 0 /\ UNCHANGED toServer
  <2>1. /\ f.id \in Readers
        /\ f.kind = "request" => f.id \in Requests
        /\ f.kind = "stream" => f.id \in Streams /\ nextSeq[f.id] = 0
        /\ \A m \in DOMAIN toWorker : m # 1 => toWorker[m].kind = "cancel"
        /\ \A m \in DOMAIN toServer : toServer[m].id = NoId
    BY <1>0, <1>1, <1>2 DEF RequestsAddressed
  <2>2. f.id \in Ids
    BY <1>0, <1>1, <1>2 DEF RequestsAddressed, Readers
  <2>3. /\ Books' /\ OneReader' /\ FlagExact' /\ Readers' = Readers
        /\ UNCHANGED <<session, lock, active, outcome, nextSeq, signalled>>
    BY <1>0, <1>1, <1>2, <2>2, WorkerBooks DEF RpcTypeOK
  <2>4. FramesAddressed'
    BY <1>2, <2>3 DEF FramesAddressed
  <2>5. \A n \in DOMAIN toWorker' : toWorker'[n].kind = "cancel" /\ toWorker'[n].id \in signalled
    <3> SUFFICES ASSUME NEW n \in DOMAIN toWorker'
                 PROVE  toWorker'[n].kind = "cancel" /\ toWorker'[n].id \in signalled
      OBVIOUS
    <3>1. n + 1 \in DOMAIN toWorker /\ n + 1 # 1 /\ toWorker'[n] = toWorker[n + 1]
      BY <1>1
    <3>2. toWorker[n + 1].kind = "cancel"
      BY <2>1, <3>1
    <3> QED
      BY <1>0, <3>1, <3>2 DEF RequestsAddressed
  <2>6. GoneQuiet' /\ RequestsAddressed'
    BY <1>0, <2>3, <2>5 DEF GoneQuiet, RequestsAddressed
  <2>7. ServesReader'
    <3>1. Cardinality(ChunksIn(toServer, Len(toServer))) = 0
      <4>1. \A m \in 1 .. Len(toServer) : toServer[m].kind = "error"
        BY <1>0, <2>1 DEF FramesAddressed, RpcTypeOK
      <4>2. ChunksIn(toServer, Len(toServer)) = {}
        BY <4>1 DEF ChunksIn
      <4> QED
        BY <4>2, FS_EmptySet
    <3>2. ASSUME f.kind = "stream"
          PROVE  /\ serving' \in Streams /\ emitted' <= Functions[serving']
                 /\ emitted' = nextSeq'[serving'] + Cardinality(ChunksIn(toServer', Len(toServer')))
      <4>1. f.id \in Streams /\ nextSeq[f.id] = 0 /\ Functions[f.id] \in Nat
        BY <2>1, <3>2, RpcLimits
      <4> QED
        BY <1>2, <2>3, <3>1, <4>1
    <3>3. /\ worker' \in {"call", "poll"} /\ serving' \in Readers'
          /\ worker' = "call" => f.kind = "request" /\ serving' \in Requests
          /\ worker' = "poll" => f.kind = "stream"
      <4>1. f.kind = "request" => worker' = "call"
        BY <1>2
      <4>2. f.kind # "request" => worker' = "poll" /\ f.kind = "stream"
        BY <1>2
      <4>3. serving' = f.id
        BY <1>2
      <4> QED
        BY <2>1, <2>3, <4>1, <4>2, <4>3
    <3>4. \A n \in DOMAIN toServer' : toServer'[n].id = NoId
      BY <1>2, <2>1
    <3> HIDE DEF f
    <3> QED
      BY <3>2, <3>3, <3>4 DEF ServesReader
  <2>8. AnswersLast'
    BY <1>0, <1>2, <2>1, <2>3, RpcIds DEF AnswersLast, FramesAddressed, Ids
  <2> QED
    BY <2>3, <2>4, <2>6, <2>7, <2>8 DEF Wire, Books
<1>3. CASE /\ f.kind = "cancel" /\ Send(Frame("error", NoId, 0)) /\ UNCHANGED workerVars
  <2> DEFINE e == Frame("error", NoId, 0)
  <2>1. e \in Frames /\ e.kind = "error" /\ e.id = NoId
    BY FrameType
  <2> HIDE DEF e
  <2>0. Send(e) /\ UNCHANGED <<worker, serving, emitted>>
    BY <1>3 DEF e, workerVars
  <2>2. /\ toServer' \in Seq(Frames) /\ DOMAIN toServer' = 1 .. Len(toServer) + 1
        /\ DOMAIN toServer = 1 .. Len(toServer)
        /\ toServer'[Len(toServer) + 1] = e
        /\ \A n \in DOMAIN toServer : toServer'[n] = toServer[n]
    BY <2>0, <2>1, SentFrame
  <2>3. signalled # {}
    BY <1>0, <1>1, <1>3 DEF RequestsAddressed
  <2>4. /\ Books' /\ OneReader' /\ FlagExact' /\ Readers' = Readers
        /\ UNCHANGED <<session, lock, active, outcome, nextSeq, signalled>>
    BY <1>0, <1>1, <2>0, <2>2, WorkerBooks DEF RpcTypeOK
  <2>5. FramesAddressed' /\ AnswersLast'
    <3>1. NoId \notin Streams
      BY RpcIds
    <3> QED
      BY <1>0, <2>0, <2>1, <2>3, <2>4, <3>1, SentWire
  <2>6. ASSUME NEW n \in DOMAIN toWorker'
        PROVE  RequestsAddressed!2!(n)'
    <3>1. n + 1 \in DOMAIN toWorker /\ toWorker'[n] = toWorker[n + 1]
      BY <1>1
    <3>2. CASE toWorker[n + 1].kind = "cancel"
      BY <1>0, <2>4, <3>1, <3>2 DEF RequestsAddressed
    <3>3. CASE toWorker[n + 1].kind # "cancel"
      <4>1. \A m \in DOMAIN toWorker' : m # n => toWorker'[m].kind = "cancel"
        <5> SUFFICES ASSUME NEW m \in DOMAIN toWorker', m # n
                     PROVE  toWorker'[m].kind = "cancel"
          OBVIOUS
        <5>1. m + 1 \in DOMAIN toWorker /\ m + 1 # n + 1 /\ toWorker'[m] = toWorker[m + 1]
          BY <1>1
        <5> QED
          BY <1>0, <3>1, <3>3, <5>1 DEF RequestsAddressed
      <4>2. \A m \in DOMAIN toServer' : toServer'[m].id = NoId
        BY <1>0, <2>1, <2>2, <3>1, <3>3 DEF RequestsAddressed
      <4> QED
        BY <1>0, <2>0, <2>4, <3>1, <3>3, <4>1, <4>2 DEF RequestsAddressed
    <3> QED
      BY <3>2, <3>3
  <2>7. GoneQuiet' /\ RequestsAddressed'
    BY <1>0, <2>4, <2>6 DEF GoneQuiet, RequestsAddressed
  <2>8. ServesReader'
    BY <1>0, <2>0 DEF ServesReader
  <2> QED
    BY <2>4, <2>5, <2>7, <2>8 DEF Wire, Books
<1> QED
  BY <1>2, <1>3 DEF WorkerAccept

-----------------------------------------------------------------------------
LEMMA RpcInitInvariant == RpcInit => RpcInv
<1> SUFFICES ASSUME RpcInit PROVE RpcInv
  OBVIOUS
<1>1. RpcTypeOK
  BY RpcLimits DEF RpcInit, RpcTypeOK
<1>2. \A i \in Ids : outcome[i] = "unused"
  BY DEF RpcInit
<1>3. OneReader /\ FlagExact /\ FramesAddressed
  BY <1>2, RpcIds DEF RpcInit, OneReader, FlagExact, FramesAddressed, Readers, Ids
<1>4. LockExact /\ NothingReadYet
  BY <1>2, RpcRoles DEF RpcInit, LockExact, NothingReadYet, Ids
<1>5. GoneQuiet /\ RequestsAddressed /\ ServesReader /\ AnswersLast
  BY DEF RpcInit, GoneQuiet, RequestsAddressed, ServesReader, AnswersLast
<1>6. FaultsExplained /\ CompleteUnlessSignalled
  BY <1>2 DEF FaultsExplained, CompleteUnlessSignalled, Ids
<1> QED
  BY <1>1, <1>3, <1>4, <1>5, <1>6 DEF RpcInv, SocketOwned

LEMMA RpcStutter ==
  ASSUME RpcInv, UNCHANGED rpcVars
  PROVE  RpcInv'
<1> USE DEF RpcInv, SocketOwned
<1>1. /\ UNCHANGED <<adapterVars, jobVars, signalled>>
      /\ UNCHANGED <<toWorker, toServer, worker, serving, emitted>>
  BY DEF rpcVars, socketVars, workerVars
<1>2. /\ Books' /\ OneReader' /\ FlagExact' /\ Readers' = Readers
      /\ UNCHANGED <<session, lock, active, outcome, nextSeq, signalled>>
  BY <1>1, WorkerBooks DEF RpcTypeOK
<1>3. FramesAddressed'
  BY <1>1, <1>2 DEF FramesAddressed
<1>4. GoneQuiet' /\ ServesReader'
  BY <1>1, <1>2 DEF GoneQuiet, ServesReader
<1>5. RequestsAddressed'
  BY <1>1, <1>2 DEF RequestsAddressed
<1>6. AnswersLast'
  BY <1>1, <1>2 DEF AnswersLast
<1> QED
  BY <1>2, <1>3, <1>4, <1>5, <1>6 DEF Wire, Books

LEMMA RpcInvariantStep == RpcInv /\ [RpcNext]_rpcVars => RpcInv'
<1> SUFFICES ASSUME RpcInv, [RpcNext]_rpcVars PROVE RpcInv'
  OBVIOUS
<1>1. CASE WorkerStep \/ WorkerProgress \/ WorkerCrash
  BY <1>1, WorkerAcceptStep, WorkerRespondStep, WorkerPollStep, WorkerEmitStep, WorkerProgressStep,
     WorkerCrashStep DEF WorkerStep
<1>2. ASSUME NEW t \in Threads, ReadStep(t) \/ CallTimeout(t)
      PROVE  RpcInv'
  <2>1. CASE CallRead(t)
    BY <2>1, CallReadStep
  <2>2. CASE CallLost(t)
    BY <2>2, CallKilledStep DEF CallLost
  <2>3. CASE CallTimeout(t)
    BY <2>3, CallKilledStep DEF CallTimeout
  <2> QED
    BY <1>2, <2>1, <2>2, <2>3 DEF ReadStep
<1>3. ASSUME NEW t \in Threads, NEW r \in Requests,
             CallRefused(t, r) \/ CallUnreachable(t, r) \/ CallSend(t, r)
      PROVE  RpcInv'
  <2>1. r \in Ids
    BY DEF Ids
  <2> QED
    BY <1>3, <2>1, RefusedStep, UnreachableStep, CallSendStep
<1>4. ASSUME NEW j \in Streams, PullStep(j) \/ StreamTimeout(j)
      PROVE  RpcInv'
  <2>1. CASE StreamRead(j)
    BY <2>1, StreamReadStep
  <2>2. CASE StreamLost(j)
    BY <2>2, StreamKilledStep DEF StreamLost
  <2>3. CASE StreamTimeout(j)
    BY <2>3, StreamKilledStep DEF StreamTimeout
  <2> QED
    BY <1>4, <2>1, <2>2, <2>3 DEF PullStep
<1>5. ASSUME NEW j \in Streams,
             CancelJob(j) \/ StreamRefused(j) \/ StreamUnreachable(j) \/ StreamSend(j)
      PROVE  RpcInv'
  <2>1. j \in Ids
    BY DEF Ids
  <2> QED
    BY <1>5, <2>1, CancelJobStep, RefusedStep, UnreachableStep, StreamSendStep
<1> QED
  BY <1>1, <1>2, <1>3, <1>4, <1>5, EvictedStep, RpcStutter DEF RpcNext

THEOREM RpcInvariantHolds == RpcSpec => []RpcInv
  BY RpcInitInvariant, RpcInvariantStep, PTL DEF RpcSpec

(* One reader at a time, the flag that names it when it is a stream, and   *)
(* only its own frames on the way, across every handover.                  *)
THEOREM SocketOwnedHolds == RpcSpec => []SocketOwned
<1>1. RpcInv => SocketOwned
  BY DEF RpcInv
<1> QED
  BY <1>1, RpcInvariantHolds, PTL

(* The adapter calls a worker hostile only in a session in which it sent a *)
(* $/cancel itself.                                                        *)
THEOREM FaultsExplainedHolds == RpcSpec => []FaultsExplained
<1>1. RpcInv => FaultsExplained
  BY DEF RpcInv
<1> QED
  BY <1>1, RpcInvariantHolds, PTL

(* A stream that no $/cancel named ends in a result only after every one   *)
(* of its functions was delivered.                                         *)
THEOREM CompleteUnlessSignalledHolds == RpcSpec => []CompleteUnlessSignalled
<1>1. RpcInv => CompleteUnlessSignalled
  BY DEF RpcInv
<1> QED
  BY <1>1, RpcInvariantHolds, PTL

=============================================================================
