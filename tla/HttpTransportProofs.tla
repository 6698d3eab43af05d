------------------------ MODULE HttpTransportProofs ------------------------
(***************************************************************************)
(* The HTTP transport, for any number of requests, users, clients and      *)
(* probes: the readiness answer is computed at most once per window and    *)
(* never served staler than its window, whatever the callers'              *)
(* interleaving; a tool runs only as the sender of its request; and no     *)
(* client is admitted beyond its rate.                                     *)
(***************************************************************************)
EXTENDS HttpFront, CachedReadiness, RateLimiter,
        FiniteSetTheorems, SequenceTheorems, TLAPS

-----------------------------------------------------------------------------
(* CachedReadiness. *)

CallerRecord == [at : Places, seen : Nat \cup {Never}, checked : Nat, result : Nat]

(* The caller c takes its step to this place with this check and result. *)
Steps(c, place, saw, check, result) ==
  /\ caller' \in [Probes -> CallerRecord]
  /\ caller'[c].at = place /\ caller'[c].seen = saw
  /\ caller'[c].checked = check /\ caller'[c].result = result
  /\ \A d \in Probes : d # c => caller'[d] = caller[d]

LEMMA CallerSteps ==
  ASSUME ReadyTypeOK, NEW c \in Probes, NEW next \in CallerRecord,
         caller' = [caller EXCEPT ![c] = next]
  PROVE  Steps(c, next.at, next.seen, next.checked, next.result)
<1>1. caller \in [Probes -> CallerRecord]
  BY DEF ReadyTypeOK, CallerRecord
<1> HIDE DEF CallerRecord
<1> QED
  BY <1>1 DEF Steps

(* What the actions do to their caller. *)
LEMMA ActionsStep ==
  ASSUME ReadyTypeOK, NEW c \in Probes
  PROVE  LET m == caller[c] IN
         /\ Look(c) => Steps(c, "look", stamp, m.checked, m.result)
         /\ CheckClock(c) =>
              Steps(c, IF IsFresh(m.seen) THEN "read" ELSE "wait", m.seen, time, m.result)
         /\ ReadValue(c) => Steps(c, "answer", m.seen, m.checked, value)
         /\ LockAndCheck(c) =>
              IF IsFresh(stamp) THEN Steps(c, "answer", m.seen, time, value)
                                ELSE Steps(c, "predicate", m.seen, m.checked, m.result)
         /\ CallPredicate(c) => Steps(c, "computing", m.seen, m.checked, m.result)
         /\ StoreValue(c) => Steps(c, "stored", m.seen, m.checked, Len(asked))
         /\ StoreStamp(c) => Steps(c, "answer", m.seen, time, m.result)
         /\ Answered(c) => Steps(c, "idle", Never, 0, 0)
<1>0. /\ caller[c] \in CallerRecord /\ time \in Nat /\ value \in Nat /\ stamp \in Nat \cup {Never}
      /\ Len(asked) \in Nat
  BY DEF ReadyTypeOK, CallerRecord
<1>1. ASSUME Look(c)
      PROVE  Steps(c, "look", stamp, caller[c].checked, caller[c].result)
  <2> DEFINE next == [caller[c] EXCEPT !.at = "look", !.seen = stamp]
  <2>1. /\ next \in CallerRecord /\ next.at = "look"
        /\ next.seen = stamp /\ next.checked = caller[c].checked /\ next.result = caller[c].result
    BY <1>0 DEF CallerRecord, Places
  <2>2. caller' = [caller EXCEPT ![c] = next]
    BY <1>1 DEF Look
  <2> HIDE DEF next
  <2> QED
    BY <2>1, <2>2, CallerSteps
<1>2. ASSUME CheckClock(c)
      PROVE  Steps(c, IF IsFresh(caller[c].seen) THEN "read" ELSE "wait", caller[c].seen, time, caller[c].result)
  <2> DEFINE next == [caller[c] EXCEPT !.at = IF IsFresh(caller[c].seen) THEN "read" ELSE "wait", !.checked = time]
  <2>1. /\ next \in CallerRecord /\ next.at = (IF IsFresh(caller[c].seen) THEN "read" ELSE "wait")
        /\ next.seen = caller[c].seen /\ next.checked = time /\ next.result = caller[c].result
    BY <1>0 DEF CallerRecord, Places
  <2>2. caller' = [caller EXCEPT ![c] = next]
    BY <1>2 DEF CheckClock
  <2> HIDE DEF next
  <2> QED
    BY <2>1, <2>2, CallerSteps
<1>3. ASSUME ReadValue(c)
      PROVE  Steps(c, "answer", caller[c].seen, caller[c].checked, value)
  <2> DEFINE next == [caller[c] EXCEPT !.at = "answer", !.result = value]
  <2>1. /\ next \in CallerRecord /\ next.at = "answer"
        /\ next.seen = caller[c].seen /\ next.checked = caller[c].checked /\ next.result = value
    BY <1>0 DEF CallerRecord, Places
  <2>2. caller' = [caller EXCEPT ![c] = next]
    BY <1>3 DEF ReadValue
  <2> HIDE DEF next
  <2> QED
    BY <2>1, <2>2, CallerSteps
<1>4. ASSUME LockAndCheck(c), IsFresh(stamp)
      PROVE  Steps(c, "answer", caller[c].seen, time, value)
  <2> DEFINE next == [caller[c] EXCEPT !.at = "answer", !.result = value, !.checked = time]
  <2>1. /\ next \in CallerRecord /\ next.at = "answer"
        /\ next.seen = caller[c].seen /\ next.checked = time /\ next.result = value
    BY <1>0 DEF CallerRecord, Places
  <2>2. caller' = [caller EXCEPT ![c] = next]
    BY <1>4 DEF LockAndCheck
  <2> HIDE DEF next
  <2> QED
    BY <2>1, <2>2, CallerSteps
<1>5. ASSUME LockAndCheck(c), ~IsFresh(stamp)
      PROVE  Steps(c, "predicate", caller[c].seen, caller[c].checked, caller[c].result)
  <2> DEFINE next == [caller[c] EXCEPT !.at = "predicate"]
  <2>1. /\ next \in CallerRecord /\ next.at = "predicate"
        /\ next.seen = caller[c].seen /\ next.checked = caller[c].checked /\ next.result = caller[c].result
    BY <1>0 DEF CallerRecord, Places
  <2>2. caller' = [caller EXCEPT ![c] = next]
    BY <1>5 DEF LockAndCheck
  <2> HIDE DEF next
  <2> QED
    BY <2>1, <2>2, CallerSteps
<1>6. ASSUME CallPredicate(c)
      PROVE  Steps(c, "computing", caller[c].seen, caller[c].checked, caller[c].result)
  <2> DEFINE next == [caller[c] EXCEPT !.at = "computing"]
  <2>1. /\ next \in CallerRecord /\ next.at = "computing"
        /\ next.seen = caller[c].seen /\ next.checked = caller[c].checked /\ next.result = caller[c].result
    BY <1>0 DEF CallerRecord, Places
  <2>2. caller' = [caller EXCEPT ![c] = next]
    BY <1>6 DEF CallPredicate
  <2> HIDE DEF next
  <2> QED
    BY <2>1, <2>2, CallerSteps
<1>7. ASSUME StoreValue(c)
      PROVE  Steps(c, "stored", caller[c].seen, caller[c].checked, Len(asked))
  <2> DEFINE next == [caller[c] EXCEPT !.at = "stored", !.result = Len(asked)]
  <2>1. /\ next \in CallerRecord /\ next.at = "stored"
        /\ next.seen = caller[c].seen /\ next.checked = caller[c].checked /\ next.result = Len(asked)
    BY <1>0 DEF CallerRecord, Places
  <2>2. caller' = [caller EXCEPT ![c] = next]
    BY <1>7 DEF StoreValue
  <2> HIDE DEF next
  <2> QED
    BY <2>1, <2>2, CallerSteps
<1>8. ASSUME StoreStamp(c)
      PROVE  Steps(c, "answer", caller[c].seen, time, caller[c].result)
  <2> DEFINE next == [caller[c] EXCEPT !.at = "answer", !.checked = time]
  <2>1. /\ next \in CallerRecord /\ next.at = "answer"
        /\ next.seen = caller[c].seen /\ next.checked = time /\ next.result = caller[c].result
    BY <1>0 DEF CallerRecord, Places
  <2>2. caller' = [caller EXCEPT ![c] = next]
    BY <1>8 DEF StoreStamp
  <2> HIDE DEF next
  <2> QED
    BY <2>1, <2>2, CallerSteps
<1>9. ASSUME Answered(c)
      PROVE  Steps(c, "idle", Never, 0, 0)
  <2> DEFINE next == [at |-> "idle", seen |-> Never, checked |-> 0, result |-> 0]
  <2>1. /\ next \in CallerRecord /\ next.at = "idle"
        /\ next.seen = Never /\ next.checked = 0 /\ next.result = 0
    BY <1>0 DEF CallerRecord, Places
  <2>2. caller' = [caller EXCEPT ![c] = next]
    BY <1>9 DEF Answered
  <2> HIDE DEF next
  <2> QED
    BY <2>1, <2>2, CallerSteps
<1> QED
  BY <1>1, <1>2, <1>3, <1>4, <1>5, <1>6, <1>7, <1>8, <1>9

Busy == {"predicate", "computing", "stored"}

(* A caller that neither holds the lock nor gets it: what it may carry. *)
LEMMA QuietCaller ==
  ASSUME ReadyInv, NEW c \in Probes, NEW place \in Places \ Busy, NEW saw, NEW check, NEW result,
         Steps(c, place, saw, check, result), caller[c].at \notin Busy,
         UNCHANGED <<time, value, stamp, holder, asked, stamped>>,
         check <= time,
         place \in {"look", "read"} /\ saw # Never =>
           \E k \in 1 .. Len(stamped) : stamped[k] = saw,
         place = "read" => saw # Never /\ check < saw + Ttl,
         place = "answer" => /\ result <= Len(asked) /\ result > 0
                             /\ result <= Len(stamped) => check < stamped[result] + Ttl
  PROVE  ReadyInv'
<1> USE DEF Steps, At
<1>1. ReadyTypeOK'
  BY DEF ReadyInv, ReadyTypeOK, CallerRecord
<1>2. \A d \in Probes : \A b \in Busy : At(d, b)' <=> At(d, b)
  BY DEF Busy
<1>3. HolderComputes'
  BY <1>2 DEF ReadyInv, HolderComputes, Busy
<1>4. ValueAhead'
  <2>1. StampDue' <=> StampDue
    BY <1>2 DEF StampDue, Busy
  <2>2. (\E d \in Probes : At(d, "stored")') <=> \E d \in Probes : At(d, "stored")
    BY <1>2 DEF Busy
  <2>3. \A d \in Probes : At(d, "stored")' \/ At(d, "predicate")' => d # c
    BY DEF Busy
  <2>4. \A d \in Probes : At(d, "stored")' => caller'[d].result = Len(stamped) + 1
    BY <2>3 DEF ReadyInv, ValueAhead
  <2>5. \A d \in Probes : At(d, "predicate")' => ~IsFresh(stamp)'
    BY <2>3 DEF ReadyInv, ValueAhead, IsFresh
  <2> QED
    BY <2>1, <2>2, <2>4, <2>5 DEF ReadyInv, ValueAhead
<1>5. StampsOrdered'
  BY DEF ReadyInv, StampsOrdered
<1>6. SeenStamped'
  BY DEF ReadyInv, SeenStamped
<1>7. ReadinessHonest'
  BY DEF ReadyInv, ReadinessHonest
<1> QED
  BY <1>1, <1>3, <1>4, <1>5, <1>6, <1>7 DEF ReadyInv

LEMMA TickReady ==
  ASSUME ReadyInv, ReadyTick
  PROVE  ReadyInv'
<1>0. time' = time + 1 /\ UNCHANGED <<value, stamp, holder, caller, asked, stamped>> /\ time \in Nat
  BY DEF ReadyTick, ReadyInv, ReadyTypeOK
<1>1. ReadyTypeOK' /\ HolderComputes' /\ ReadinessHonest'
  BY <1>0 DEF ReadyInv, ReadyTypeOK, HolderComputes, ReadinessHonest, At
<1>2. ~IsFresh(stamp) => ~IsFresh(stamp)'
  BY <1>0, ReadinessConstants DEF IsFresh, ReadyInv, ReadyTypeOK, Never
<1>3. ValueAhead'
  BY <1>0, <1>2 DEF ReadyInv, ValueAhead, StampDue, At
<1>4. StampsOrdered'
  <2>1. \A k \in 1 .. Len(stamped) : stamped[k] \in Nat
    BY DEF ReadyInv, ReadyTypeOK
  <2> QED
    BY <1>0, <2>1 DEF ReadyInv, StampsOrdered
<1>5. SeenStamped'
  <2>1. \A c \in Probes : caller[c].checked \in Nat
    BY DEF ReadyInv, ReadyTypeOK
  <2> QED
    BY <1>0, <2>1 DEF ReadyInv, SeenStamped, At
<1> QED
  BY <1>1, <1>3, <1>4, <1>5 DEF ReadyInv

(* The callers that do not compute. *)
LEMMA QuietSteps ==
  ASSUME ReadyInv, NEW c \in Probes,
         Look(c) \/ CheckClock(c) \/ ReadValue(c) \/ Answered(c) \/ (LockAndCheck(c) /\ IsFresh(stamp))
  PROVE  ReadyInv'
<1> USE DEF Busy, Places
<1>0. /\ ReadyTypeOK /\ caller[c].checked \in Nat /\ caller[c].checked <= time /\ time \in Nat
      /\ Len(stamped) \in Nat /\ Len(asked) \in Nat /\ Ttl \in Nat \ {0}
      /\ \A k \in 1 .. Len(stamped) : stamped[k] \in Nat /\ stamped[k] <= time
  <2>1. ReadyTypeOK /\ time \in Nat /\ Len(stamped) \in Nat /\ Len(asked) \in Nat
    BY DEF ReadyInv, ReadyTypeOK
  <2>2. caller[c].checked \in Nat /\ caller[c].checked <= time
    BY <2>1 DEF ReadyInv, SeenStamped, ReadyTypeOK
  <2>3. \A k \in 1 .. Len(stamped) : stamped[k] \in Nat /\ stamped[k] <= time
    <3>1. \A k \in 1 .. Len(stamped) : stamped[k] <= time
      BY DEF ReadyInv, StampsOrdered
    <3>2. stamped \in Seq(Nat)
      BY <2>1 DEF ReadyTypeOK
    <3>3. \A k \in 1 .. Len(stamped) : stamped[k] \in Nat
      BY ONLY <3>2
    <3> QED
      BY <3>1, <3>3
  <2> QED
    BY <2>1, <2>2, <2>3, ReadinessConstants
<1>1. CASE Look(c)
  <2>1. /\ Steps(c, "look", stamp, caller[c].checked, caller[c].result) /\ caller[c].at = "idle"
        /\ UNCHANGED <<time, value, stamp, holder, asked, stamped>>
    BY <1>0, <1>1, ActionsStep DEF Look, At
  <2>2. stamp # Never => \E k \in 1 .. Len(stamped) : stamped[k] = stamp
    BY <1>0 DEF ReadyInv, StampsOrdered
  <2> QED
    BY <1>0, <2>1, <2>2, QuietCaller
<1>2. CASE CheckClock(c)
  <2> DEFINE place == IF IsFresh(caller[c].seen) THEN "read" ELSE "wait"
  <2>1. /\ Steps(c, place, caller[c].seen, time, caller[c].result) /\ caller[c].at = "look"
        /\ UNCHANGED <<time, value, stamp, holder, asked, stamped>> /\ place \in Places \ Busy
    BY <1>0, <1>2, ActionsStep DEF CheckClock, At
  <2>2. caller[c].seen # Never => \E k \in 1 .. Len(stamped) : stamped[k] = caller[c].seen
    BY <2>1 DEF ReadyInv, SeenStamped
  <2>3. place = "read" => caller[c].seen # Never /\ time < caller[c].seen + Ttl
    BY <1>0, <2>2 DEF IsFresh
  <2>4. time <= time /\ place # "answer"
    BY <1>0
  <2> HIDE DEF place
  <2> QED
    BY <2>1, <2>2, <2>3, <2>4, QuietCaller
<1>3. CASE ReadValue(c)
  <2>1. /\ Steps(c, "answer", caller[c].seen, caller[c].checked, value) /\ caller[c].at = "read"
        /\ UNCHANGED <<time, value, stamp, holder, asked, stamped>>
    BY <1>0, <1>3, ActionsStep DEF ReadValue, At
  <2>2. PICK k \in 1 .. Len(stamped) : stamped[k] = caller[c].seen
    BY <2>1 DEF ReadyInv, SeenStamped, At
  <2>3. caller[c].checked < caller[c].seen + Ttl
    BY <2>1 DEF ReadyInv, SeenStamped, At
  <2>4. value \in {Len(stamped), Len(stamped) + 1} /\ value <= Len(asked)
    BY <1>0 DEF ReadyInv, ValueAhead, StampDue, At
  <2>5. value > 0
    BY <1>0, <2>2, <2>4
  <2>6. value <= Len(stamped) => caller[c].checked < stamped[value] + Ttl
    <3> SUFFICES ASSUME value = Len(stamped)
                 PROVE  caller[c].checked < stamped[value] + Ttl
      BY <1>0, <2>4
    <3>1. stamped[k] <= stamped[value] /\ stamped[value] \in Nat
      BY <1>0, <2>2 DEF ReadyInv, StampsOrdered
    <3> QED
      BY <1>0, <2>2, <2>3, <3>1
  <2> QED
    BY <1>0, <2>1, <2>4, <2>5, <2>6, QuietCaller
<1>4. CASE Answered(c)
  <2>1. /\ Steps(c, "idle", Never, 0, 0) /\ caller[c].at = "answer"
        /\ UNCHANGED <<time, value, stamp, holder, asked, stamped>>
    BY <1>0, <1>4, ActionsStep DEF Answered, At
  <2> QED
    BY <1>0, <2>1, QuietCaller
<1>5. CASE LockAndCheck(c) /\ IsFresh(stamp)
  <2>1. /\ Steps(c, "answer", caller[c].seen, time, value) /\ caller[c].at = "wait"
        /\ UNCHANGED <<time, value, stamp, holder, asked, stamped>> /\ holder = "none"
    BY <1>0, <1>5, ActionsStep DEF LockAndCheck, At
  <2>2. \A d \in Probes : caller[d].at \notin Busy
    BY <2>1, ReadinessConstants DEF ReadyInv, HolderComputes
  <2>3. value = Len(stamped) /\ Len(asked) = Len(stamped)
    BY <2>2 DEF ReadyInv, ValueAhead, StampDue, At
  <2>4. Len(stamped) # 0 /\ stamp = stamped[Len(stamped)]
    BY <1>5 DEF IsFresh, ReadyInv, StampsOrdered
  <2>5. time < stamped[value] + Ttl
    BY <1>0, <1>5, <2>3, <2>4 DEF IsFresh
  <2> QED
    BY <1>0, <2>1, <2>3, <2>4, <2>5, QuietCaller
<1> QED
  BY <1>1, <1>2, <1>3, <1>4, <1>5

(* The caller that computes is the only one that holds the lock. *)
LEMMA HolderAlone ==
  ASSUME ReadyInv, NEW c \in Probes, caller[c].at \in Busy
  PROVE  holder = c /\ \A d \in Probes : d # c => caller[d].at \notin Busy
  BY DEF ReadyInv, HolderComputes, Busy

LEMMA LockReady ==
  ASSUME ReadyInv, NEW c \in Probes, LockAndCheck(c), ~IsFresh(stamp)
  PROVE  ReadyInv'
<1> USE DEF Busy, At
<1>0. /\ Steps(c, "predicate", caller[c].seen, caller[c].checked, caller[c].result)
      /\ caller[c].at = "wait" /\ holder = "none" /\ holder' = c
      /\ UNCHANGED <<time, value, stamp, asked, stamped>>
  BY ActionsStep DEF LockAndCheck, ReadyInv
<1>1. \A d \in Probes : caller[d].at \notin Busy
  BY <1>0, ReadinessConstants DEF ReadyInv, HolderComputes
<1>2. ReadyTypeOK' /\ HolderComputes'
  BY <1>0, <1>1 DEF ReadyInv, ReadyTypeOK, HolderComputes, Steps, CallerRecord
<1>3. ValueAhead'
  <2>1. ~StampDue' /\ ~StampDue /\ \A d \in Probes : caller[d].at # "stored" /\ caller'[d].at # "stored"
    BY <1>0, <1>1 DEF StampDue, Steps
  <2>2. ~IsFresh(stamp)'
    BY <1>0 DEF IsFresh
  <2> QED
    BY <1>0, <2>1, <2>2 DEF ReadyInv, ValueAhead
<1>4. StampsOrdered' /\ SeenStamped' /\ ReadinessHonest'
  BY <1>0 DEF ReadyInv, StampsOrdered, SeenStamped, ReadinessHonest, Steps
<1> QED
  BY <1>2, <1>3, <1>4 DEF ReadyInv

(* A predicate call starts at least Ttl after the last stamp. *)
LEMMA PredicateReady ==
  ASSUME ReadyInv, NEW c \in Probes, CallPredicate(c)
  PROVE  ReadyInv'
<1> USE DEF Busy, At
<1>0. /\ Steps(c, "computing", caller[c].seen, caller[c].checked, caller[c].result)
      /\ caller[c].at = "predicate" /\ asked' = Append(asked, time)
      /\ UNCHANGED <<time, value, stamp, holder, stamped>>
  BY ActionsStep DEF CallPredicate, ReadyInv
<1>1. holder = c /\ \A d \in Probes : d # c => caller[d].at \notin Busy
  BY <1>0, HolderAlone
<1>2. /\ asked \in Seq(Nat) /\ time \in Nat /\ Len(asked') = Len(asked) + 1 /\ asked' \in Seq(Nat)
      /\ asked'[Len(asked) + 1] = time /\ \A k \in 1 .. Len(asked) : asked'[k] = asked[k]
      /\ Len(asked) \in Nat /\ Len(stamped) \in Nat
  BY <1>0 DEF ReadyInv, ReadyTypeOK
<1>3. ~StampDue /\ StampDue' /\ \A d \in Probes : caller[d].at # "stored" /\ caller'[d].at # "stored"
  BY <1>0, <1>1 DEF StampDue, Steps
<1>4. Len(asked) = Len(stamped) /\ ~IsFresh(stamp) /\ value = Len(stamped)
  BY <1>0, <1>3 DEF ReadyInv, ValueAhead
<1>5. ReadyTypeOK' /\ HolderComputes'
  BY <1>0, <1>1, <1>2 DEF ReadyInv, ReadyTypeOK, HolderComputes, Steps, CallerRecord
<1>6. ValueAhead'
  <2>1. \A d \in Probes : caller'[d].at # "predicate"
    BY <1>0, <1>1 DEF Steps
  <2> QED
    BY <1>0, <1>2, <1>3, <1>4, <2>1 DEF ValueAhead
<1>7. StampsOrdered' /\ SeenStamped'
  <2>1. StampsOrdered'
    BY <1>0 DEF ReadyInv, StampsOrdered
  <2> SUFFICES ASSUME NEW d \in Probes, SeenStamped!(d)
               PROVE  SeenStamped!(d)'
    BY <2>1 DEF ReadyInv, SeenStamped
  <2>2. CASE d = c
    BY <1>0, <2>2 DEF Steps
  <2>3. CASE d # c
    <3>1. caller'[d] = caller[d] /\ caller[d].result \in Nat
      BY <1>0, <2>3 DEF Steps, ReadyInv, ReadyTypeOK
    <3> QED
      BY <1>0, <1>2, <3>1
  <2> QED
    BY <2>2, <2>3
<1>8. ReadinessHonest'
  <2>1. ASSUME NEW k \in 1 .. Len(asked') - 1
        PROVE  k <= Len(stamped) /\ asked'[k + 1] - stamped[k] >= Ttl
    <3>1. CASE k = Len(asked)
      <4>0. k \in 1 .. Len(stamped) /\ k = Len(stamped) /\ stamped # << >>
        BY <1>2, <1>4, <2>1, <3>1
      <4>1. stamp = stamped[k] /\ stamp # Never
        <5>1. StampsOrdered /\ stamped \in Seq(Nat)
          BY DEF ReadyInv, ReadyTypeOK
        <5> QED
          BY <4>0, <5>1 DEF StampsOrdered, Never
      <4>2. time - stamp >= Ttl
        <5>1. stamp \in Nat
          BY <4>0, <4>1 DEF ReadyInv, ReadyTypeOK
        <5>2. ~(time - stamp < Ttl)
          BY <1>4, <4>1 DEF IsFresh
        <5> QED
          BY <1>2, <5>1, <5>2, ReadinessConstants
      <4>3. asked'[k + 1] = time /\ k <= Len(stamped)
        BY <1>2, <3>1, <4>0
      <4> QED
        BY <4>1, <4>2, <4>3
    <3>2. CASE k # Len(asked)
      <4>0. k \in 1 .. Len(asked) - 1 /\ k + 1 \in 1 .. Len(asked)
        BY <1>2, <2>1, <3>2
      <4>1. k \in 1 .. Len(asked) - 1 /\ asked'[k + 1] = asked[k + 1]
        BY <1>2, <4>0
      <4> QED
        BY <4>1 DEF ReadyInv, ReadinessHonest
    <3> QED
      BY <3>1, <3>2
  <2>2. \A d \in Probes : caller'[d].at = "answer" => d # c /\ caller'[d] = caller[d]
    BY <1>0 DEF Steps
  <2> QED
    BY <1>0, <2>1, <2>2 DEF ReadyInv, ReadinessHonest
<1> QED
  BY <1>5, <1>6, <1>7, <1>8 DEF ReadyInv

LEMMA ValueReady ==
  ASSUME ReadyInv, NEW c \in Probes, StoreValue(c)
  PROVE  ReadyInv'
<1> USE DEF Busy, At
<1>0. /\ Steps(c, "stored", caller[c].seen, caller[c].checked, Len(asked))
      /\ caller[c].at = "computing" /\ value' = Len(asked)
      /\ UNCHANGED <<time, stamp, holder, asked, stamped>>
  BY ActionsStep DEF StoreValue, ReadyInv
<1>1. holder = c /\ \A d \in Probes : d # c => caller[d].at \notin Busy
  BY <1>0, HolderAlone
<1>2. StampDue /\ StampDue' /\ Len(asked) \in Nat /\ caller'[c].at = "stored"
  BY <1>0 DEF StampDue, Steps, ReadyInv, ReadyTypeOK
<1>3. Len(asked) = Len(stamped) + 1
  BY <1>2 DEF ReadyInv, ValueAhead
<1>4. ReadyTypeOK' /\ HolderComputes'
  BY <1>0, <1>1, <1>2 DEF ReadyInv, ReadyTypeOK, HolderComputes, Steps, CallerRecord
<1>5. ValueAhead'
  <2>1. \A d \in Probes : caller'[d].at # "predicate" /\ (caller'[d].at = "stored" => d = c)
    BY <1>0, <1>1 DEF Steps
  <2>2. caller'[c].result = Len(stamped) + 1
    BY <1>0, <1>3 DEF Steps
  <2> QED
    BY <1>0, <1>2, <1>3, <2>1, <2>2 DEF ValueAhead
<1>6. StampsOrdered' /\ SeenStamped' /\ ReadinessHonest'
  BY <1>0 DEF ReadyInv, StampsOrdered, SeenStamped, ReadinessHonest, Steps
<1> QED
  BY <1>4, <1>5, <1>6 DEF ReadyInv

LEMMA StampReady ==
  ASSUME ReadyInv, NEW c \in Probes, StoreStamp(c)
  PROVE  ReadyInv'
<1> USE DEF Busy, At
<1>0. /\ Steps(c, "answer", caller[c].seen, time, caller[c].result)
      /\ caller[c].at = "stored" /\ stamp' = time /\ stamped' = Append(stamped, time)
      /\ holder' = "none" /\ UNCHANGED <<time, value, asked>>
  BY ActionsStep DEF StoreStamp, ReadyInv
<1>1. holder = c /\ \A d \in Probes : d # c => caller[d].at \notin Busy
  BY <1>0, HolderAlone
<1>2. /\ stamped \in Seq(Nat) /\ time \in Nat /\ Len(stamped') = Len(stamped) + 1
      /\ stamped' \in Seq(Nat) /\ Len(stamped) \in Nat /\ Ttl \in Nat \ {0}
      /\ stamped'[Len(stamped) + 1] = time /\ \A k \in 1 .. Len(stamped) : stamped'[k] = stamped[k]
      /\ \A k \in 1 .. Len(stamped) : stamped[k] \in Nat
  BY <1>0, ReadinessConstants DEF ReadyInv, ReadyTypeOK
<1>3. StampDue /\ ~StampDue' /\ \A d \in Probes : caller'[d].at \notin Busy
  BY <1>0, <1>1 DEF StampDue, Steps
<1>4. /\ Len(asked) = Len(stamped) + 1 /\ value = Len(stamped) + 1
      /\ caller[c].result = Len(stamped) + 1
  BY <1>0, <1>3 DEF ReadyInv, ValueAhead
<1>5. ReadyTypeOK' /\ HolderComputes'
  BY <1>0, <1>2, <1>3, ReadinessConstants
     DEF ReadyInv, ReadyTypeOK, HolderComputes, Steps, CallerRecord
<1>6. ValueAhead'
  BY <1>0, <1>2, <1>3, <1>4 DEF ValueAhead
<1>7. StampsOrdered'
  <2>0. \A k \in 1 .. Len(stamped) : stamped[k] <= time
    BY DEF ReadyInv, StampsOrdered
  <2>1. ASSUME NEW k \in 1 .. Len(stamped') PROVE stamped'[k] <= time
    <3>1. CASE k = Len(stamped) + 1
      BY <1>2, <3>1
    <3>2. CASE k # Len(stamped) + 1
      <4>1. k \in 1 .. Len(stamped)
        BY <1>2, <3>2
      <4> QED
        BY <1>2, <2>0, <4>1
    <3> QED
      BY <3>1, <3>2
  <2>2. ASSUME NEW j \in 1 .. Len(stamped'), NEW k \in 1 .. Len(stamped'), j <= k
        PROVE  stamped'[j] <= stamped'[k]
    <3>1. CASE k = Len(stamped) + 1
      BY <1>2, <2>1, <3>1
    <3>2. CASE k # Len(stamped) + 1
      <4>1. j \in 1 .. Len(stamped) /\ k \in 1 .. Len(stamped)
        BY <1>2, <2>2, <3>2
      <4> QED
        BY <1>2, <2>2, <4>1 DEF ReadyInv, StampsOrdered
    <3> QED
      BY <3>1, <3>2
  <2> QED
    <3>1. Len(stamped') # 0 /\ stamp' = stamped'[Len(stamped')]
      BY <1>0, <1>2
    <3> QED
      BY <1>0, <2>1, <2>2, <3>1 DEF StampsOrdered
<1>8. SeenStamped'
  <2> SUFFICES ASSUME NEW d \in Probes
               PROVE  SeenStamped!(d)'
    BY DEF SeenStamped
  <2>1. CASE d = c
    BY <1>0, <1>2, <1>4, <2>1 DEF Steps
  <2>2. CASE d # c
    <3>1. SeenStamped!(d) /\ caller'[d] = caller[d]
      BY <1>0, <2>2 DEF ReadyInv, SeenStamped, Steps
    <3> QED
      BY <1>0, <1>2, <3>1
  <2> QED
    BY <2>1, <2>2
<1>9. ReadinessHonest'
  <2>1. ASSUME NEW k \in 1 .. Len(asked) - 1
        PROVE  k <= Len(stamped') /\ asked'[k + 1] - stamped'[k] >= Ttl
    <3>1. k <= Len(stamped) /\ asked[k + 1] - stamped[k] >= Ttl /\ k \in 1 .. Len(stamped)
      BY <1>2, <1>4 DEF ReadyInv, ReadinessHonest
    <3> QED
      BY <1>0, <1>2, <3>1
  <2>2. ASSUME NEW d \in Probes, caller'[d].at = "answer"
        PROVE  /\ caller'[d].result > 0
               /\ caller'[d].result <= Len(stamped') =>
                    caller'[d].checked < stamped'[caller'[d].result] + Ttl
    <3>1. CASE d = c
      BY <1>0, <1>2, <1>4, <3>1 DEF Steps
    <3>2. CASE d # c
      <4>1. /\ caller'[d] = caller[d] /\ caller[d].at = "answer"
            /\ caller[d].result > 0 /\ caller[d].result \in Nat /\ caller[d].checked \in Nat
            /\ caller[d].result <= Len(stamped) =>
                 caller[d].checked < stamped[caller[d].result] + Ttl
            /\ caller[d].checked <= time /\ caller[d].result <= Len(stamped) + 1
        BY <1>0, <1>4, <2>2, <3>2 DEF ReadyInv, ReadyTypeOK, ReadinessHonest, SeenStamped, Steps
      <4>2. CASE caller[d].result = Len(stamped) + 1
        BY <1>2, <4>1, <4>2
      <4>3. CASE caller[d].result # Len(stamped) + 1
        BY <1>2, <4>1, <4>3
      <4> QED
        BY <4>2, <4>3
    <3> QED
      BY <3>1, <3>2
  <2> QED
    BY <1>0, <2>1, <2>2 DEF ReadinessHonest
<1> QED
  BY <1>5, <1>6, <1>7, <1>8, <1>9 DEF ReadyInv

LEMMA ReadyInitInvariant == ReadyInit => ReadyInv
<1> SUFFICES ASSUME ReadyInit PROVE ReadyInv
  OBVIOUS
<1> USE DEF ReadyInit, ReadyIdle, At
<1>1. /\ \A c \in Probes : /\ caller[c].at = "idle" /\ caller[c].seen = Never
                           /\ caller[c].checked = 0 /\ caller[c].result = 0
      /\ Len(asked) = 0 /\ Len(stamped) = 0
  OBVIOUS
<1>2. ReadyTypeOK
  BY DEF ReadyTypeOK, Places
<1>3. HolderComputes
  BY <1>1, ReadinessConstants DEF HolderComputes
<1>4. ValueAhead /\ StampsOrdered
  BY <1>1 DEF ValueAhead, StampDue, StampsOrdered
<1>5. SeenStamped /\ ReadinessHonest
  BY <1>1 DEF SeenStamped, ReadinessHonest
<1> QED
  BY <1>2, <1>3, <1>4, <1>5 DEF ReadyInv

(* However many callers of the readiness answer interleave: one predicate  *)
(* call per window, and every answer within the window of its stamp.       *)
THEOREM ReadyInvariantHolds == ReadySpec => []ReadyInv
<1>1. ReadyInv /\ [ReadyNext]_readyVars => ReadyInv'
  <2> SUFFICES ASSUME ReadyInv, [ReadyNext]_readyVars PROVE ReadyInv'
    OBVIOUS
  <2>1. CASE UNCHANGED readyVars
    BY <2>1 DEF readyVars, ReadyInv, ReadyTypeOK, HolderComputes, ValueAhead, StampDue, StampsOrdered,
                SeenStamped, ReadinessHonest, At, IsFresh
  <2>2. ASSUME NEW c \in Probes, LockAndCheck(c) PROVE ReadyInv'
    BY <2>2, LockReady, QuietSteps
  <2> QED
    BY <2>1, <2>2, TickReady, QuietSteps, PredicateReady, ValueReady, StampReady DEF ReadyNext
<1> QED
  BY <1>1, ReadyInitInvariant, PTL DEF ReadySpec

(* The readiness cache keeps its two promises: "at most ONE call per       *)
(* window" and no answer from a value whose window was over.               *)
THEOREM ReadinessHonestHolds == ReadySpec => []ReadinessHonest
<1>1. ReadyInv => ReadinessHonest
  BY DEF ReadyInv
<1> QED
  BY <1>1, ReadyInvariantHolds, PTL

-----------------------------------------------------------------------------
(* HttpFront. *)

Fields == {"at", "kind", "size", "tool", "sender", "cred", "principal", "status"}

LEMMA RequestFields == DOMAIN NoRequest = Fields
  BY DEF NoRequest, Fields

(* One request moves. *)
LEMMA RequestMoves ==
  ASSUME HttpTypeOK, NEW r \in Requests, NEW next, DOMAIN next = Fields,
         http' = [http EXCEPT ![r] = next], UNCHANGED mode
  PROVE  HttpTypeOK' /\ http'[r] = next /\ \A q \in Requests : q # r => http'[q] = http[q]
  BY RequestFields DEF HttpTypeOK

(* It goes to another layer, or is answered: nothing else of it changes. *)
LEMMA LayerMoves ==
  ASSUME HttpTypeOK, NEW r \in Requests, NEW place,
         Goes(r, place) \/ (place = "answered" /\ \E status : Answers(r, status))
  PROVE  /\ HttpTypeOK' /\ UNCHANGED mode
         /\ \A q \in Requests : q # r => http'[q] = http[q]
         /\ http'[r].at = place
         /\ http'[r].kind = http[r].kind /\ http'[r].tool = http[r].tool
         /\ http'[r].sender = http[r].sender /\ http'[r].cred = http[r].cred
         /\ http'[r].principal = http[r].principal
<1>0. DOMAIN http[r] = Fields
  BY RequestFields DEF HttpTypeOK
<1>1. CASE Goes(r, place)
  <2> DEFINE next == [http[r] EXCEPT !.at = place]
  <2>1. http' = [http EXCEPT ![r] = next] /\ UNCHANGED mode
    BY <1>1 DEF Goes
  <2>2. /\ DOMAIN next = Fields /\ next.at = place /\ next.kind = http[r].kind
        /\ next.tool = http[r].tool /\ next.sender = http[r].sender /\ next.cred = http[r].cred
        /\ next.principal = http[r].principal
    BY <1>0 DEF Fields
  <2> HIDE DEF next
  <2> QED
    BY <2>1, <2>2, RequestMoves
<1>2. ASSUME NEW status, Answers(r, status), place = "answered"
      PROVE  /\ HttpTypeOK' /\ UNCHANGED mode
             /\ \A q \in Requests : q # r => http'[q] = http[q]
             /\ http'[r].at = place
             /\ http'[r].kind = http[r].kind /\ http'[r].tool = http[r].tool
             /\ http'[r].sender = http[r].sender /\ http'[r].cred = http[r].cred
             /\ http'[r].principal = http[r].principal
  <2> DEFINE next == [http[r] EXCEPT !.at = "answered", !.status = status]
  <2>1. http' = [http EXCEPT ![r] = next] /\ UNCHANGED mode
    BY <1>2 DEF Answers
  <2>2. /\ DOMAIN next = Fields /\ next.at = place /\ next.kind = http[r].kind
        /\ next.tool = http[r].tool /\ next.sender = http[r].sender /\ next.cred = http[r].cred
        /\ next.principal = http[r].principal
    BY <1>0, <1>2 DEF Fields
  <2> HIDE DEF next
  <2> QED
    BY <2>1, <2>2, RequestMoves
<1> QED
  BY <1>1, <1>2

(* What a sender can present, by the fields the authenticators look at. *)
OwnToken(who) == IF who = "bearer" THEN "static" ELSE who

ShowsOnlyOwn(cred, who) ==
  /\ cred.scheme = "bearer" => cred.token \in {OwnToken(who), "forged", "nonascii", "jwt"}
  /\ cred.valid => cred.sub \in {who, "none", "empty"}
  /\ cred.cert \in {who, "none", "unsafe"}
  /\ cred.secret = "right" => cred.identity \in {who, "none", "unsafe"}

LEMMA PresentableFields ==
  ASSUME NEW who \in Users \cup {"bearer"}, NEW cred \in Presentable(who)
  PROVE  ShowsOnlyOwn(cred, who)
<1>1. CASE cred = NoCredential
  BY <1>1 DEF ShowsOnlyOwn, NoCredential
<1>2. ASSUME NEW s \in {"bearer", "basic"}, NEW t \in {OwnToken(who), "forged", "nonascii"},
             cred = Authorization(s, t)
      PROVE  ShowsOnlyOwn(cred, who)
  <2>1. cred.token = t /\ ~cred.valid /\ cred.cert = "none" /\ cred.secret = "none"
    BY <1>2 DEF NoCredential, Authorization
  <2> QED
    BY <2>1 DEF ShowsOnlyOwn
<1>3. ASSUME NEW id \in {who, "none", "empty"}, NEW g \in SUBSET {WriteScope}, cred = Jwt(id, g)
      PROVE  ShowsOnlyOwn(cred, who)
  BY <1>3 DEF ShowsOnlyOwn, NoCredential, Authorization, Jwt
<1>4. ASSUME NEW id \in Users, cred = UnverifiedJwt(id)
      PROVE  ShowsOnlyOwn(cred, who)
  BY <1>4 DEF ShowsOnlyOwn, NoCredential, Authorization, Jwt, UnverifiedJwt
<1>5. ASSUME NEW c \in {who, "none", "unsafe"}, NEW id \in Users, cred = PeerCert(c, id)
      PROVE  ShowsOnlyOwn(cred, who)
  BY <1>5 DEF ShowsOnlyOwn, NoCredential, PeerCert
<1>6. ASSUME NEW id \in {who, "none", "unsafe"}, cred = Forwarded("right", id)
      PROVE  ShowsOnlyOwn(cred, who)
  BY <1>6 DEF ShowsOnlyOwn, NoCredential, Forwarded
<1>7. ASSUME NEW id \in Users, cred = Forwarded("wrong", id)
      PROVE  ShowsOnlyOwn(cred, who)
  BY <1>7 DEF ShowsOnlyOwn, NoCredential, Forwarded
<1>8. \/ cred \in {NoCredential}
      \/ cred \in {Authorization(s, t) : s \in {"bearer", "basic"},
                                         t \in {OwnToken(who), "forged", "nonascii"}}
      \/ cred \in {Jwt(id, g) : id \in {who, "none", "empty"}, g \in SUBSET {WriteScope}}
      \/ cred \in {UnverifiedJwt(id) : id \in Users}
      \/ cred \in {PeerCert(c, id) : c \in {who, "none", "unsafe"}, id \in Users}
      \/ cred \in {Forwarded("right", id) : id \in {who, "none", "unsafe"}}
      \/ cred \in {Forwarded("wrong", id) : id \in Users}
  BY DEF Presentable, OwnToken
<1>9. CASE cred \in {Authorization(s, t) : s \in {"bearer", "basic"},
                                         t \in {OwnToken(who), "forged", "nonascii"}}
  <2>1. PICK s \in {"bearer", "basic"}, t \in {OwnToken(who), "forged", "nonascii"} :
               cred = Authorization(s, t)
    BY <1>9
  <2> QED
    BY <1>2, <2>1
<1>10. CASE cred \in {Jwt(id, g) : id \in {who, "none", "empty"}, g \in SUBSET {WriteScope}}
  <2>1. PICK id \in {who, "none", "empty"}, g \in SUBSET {WriteScope} : cred = Jwt(id, g)
    BY <1>10
  <2> QED
    BY <1>3, <2>1
<1>11. CASE cred \in {PeerCert(c, id) : c \in {who, "none", "unsafe"}, id \in Users}
  <2>1. PICK c \in {who, "none", "unsafe"}, id \in Users : cred = PeerCert(c, id)
    BY <1>11
  <2> QED
    BY <1>5, <2>1
<1> QED
  BY <1>1, <1>4, <1>6, <1>7, <1>8, <1>9, <1>10, <1>11

(* An authenticator of any mode rejects a request, or takes it for its     *)
(* sender's.                                                               *)
LEMMA AuthenticatorSound ==
  ASSUME mode \in Modes, NEW r \in Requests, Sent(r), NEW fetched \in BOOLEAN
  PROVE  LET principal == Authenticator(http[r].cred, fetched)
         IN principal = Rejected \/ IsPrincipalOf(principal, http[r].sender, http[r].cred)
<1> DEFINE cred == http[r].cred
           who == http[r].sender
<1>1. CASE mode = "none"
  BY <1>1 DEF Authenticator, NullAuthenticator, Principal, IsPrincipalOf
<1>2. CASE mode # "none" /\ who = "none" /\ cred = NoCredential
  <2>1. cred.scheme = "none" /\ cred.cert = "none" /\ cred.secret = "none"
    BY <1>2 DEF NoCredential
  <2> QED
    BY <1>2, <2>1 DEF Modes, Authenticator, MultiTokenBearerAuthenticator, MtlsAuthenticator,
                      ReverseProxyMtlsAuthenticator, OAuthResourceAuthenticator
<1>3. CASE mode # "none" /\ who \in Users \cup {"bearer"} /\ cred \in Presentable(who)
  <2> HIDE DEF cred, who
  <2>0. ShowsOnlyOwn(cred, who)
    BY <1>3, PresentableFields
  <2>1. CASE mode = "bearer"
    <3>1. CASE cred.scheme = "bearer" /\ cred.token # "nonascii" /\ cred.token \in DOMAIN Tokens
      <4>1. cred.token \in Users \cup {"static"}
        BY <3>1 DEF Tokens
      <4>2. cred.token = OwnToken(who)
        BY <2>0, <3>1, <4>1, UsersAssumption DEF ShowsOnlyOwn
      <4>3. Tokens[cred.token] = who
        BY <1>3, <4>1, <4>2, UsersAssumption DEF Tokens, OwnToken
      <4> QED
        BY <2>1, <3>1, <4>3
        DEF Authenticator, MultiTokenBearerAuthenticator, Principal, IsPrincipalOf, cred, who
    <3>2. CASE ~(cred.scheme = "bearer" /\ cred.token # "nonascii" /\ cred.token \in DOMAIN Tokens)
      BY <2>1, <3>2 DEF Authenticator, MultiTokenBearerAuthenticator, cred
    <3> QED
      BY <3>1, <3>2
  <2>2. CASE mode = "mtls"
    BY <2>0, <2>2 DEF ShowsOnlyOwn, Authenticator, MtlsAuthenticator, ValidPrincipalId, Principal,
                      IsPrincipalOf, cred, who
  <2>3. CASE mode = "mtls-proxy"
    BY <2>0, <2>3 DEF ShowsOnlyOwn, Authenticator, ReverseProxyMtlsAuthenticator, ValidPrincipalId,
                      Principal, IsPrincipalOf, cred, who
  <2>4. CASE mode = "oauth"
    BY <2>0, <2>4 DEF ShowsOnlyOwn, Authenticator, OAuthResourceAuthenticator,
                      CapabilitiesFromClaims, IsPrincipalOf, cred, who
  <2> QED
    BY <1>3, <2>1, <2>2, <2>3, <2>4 DEF Modes
<1> QED
  BY <1>1, <1>2, <1>3 DEF Sent

(* A request whose record has not changed is as it was. *)
LEMMA OthersKept ==
  ASSUME NEW q \in Requests, RequestOK(q), http'[q] = http[q], UNCHANGED mode
  PROVE  RequestOK(q)'
  BY DEF RequestOK, Sent, IsPrincipalOf

(* A request that only changed its layer. *)
LEMMA MovedKept ==
  ASSUME HttpInv, NEW r \in Requests, NEW place,
         Goes(r, place) \/ (place = "answered" /\ \E status : Answers(r, status)),
         place # "idle",
         place = "runs" =>
           http[r].principal # Rejected /\ http[r].tool \in http[r].principal.capabilities
  PROVE  HttpInv'
<1>1. /\ HttpTypeOK' /\ UNCHANGED mode
      /\ \A q \in Requests : q # r => http'[q] = http[q]
      /\ http'[r].at = place
      /\ http'[r].tool = http[r].tool
      /\ http'[r].sender = http[r].sender /\ http'[r].cred = http[r].cred
      /\ http'[r].principal = http[r].principal
  BY LayerMoves DEF HttpInv
<1>2. RequestOK(r)'
  BY <1>1 DEF HttpInv, RequestOK, Sent, IsPrincipalOf
<1> QED
  BY <1>1, <1>2, OthersKept DEF HttpInv

(* A request whose record is replaced. *)
LEMMA ReplacedKept ==
  ASSUME HttpInv, NEW r \in Requests, NEW next, DOMAIN next = Fields,
         http' = [http EXCEPT ![r] = next], UNCHANGED mode,
         \/ next.sender = "none" /\ next.cred = NoCredential
         \/ next.sender \in Users \cup {"bearer"} /\ next.cred \in Presentable(next.sender),
         next.principal = Rejected \/ IsPrincipalOf(next.principal, next.sender, next.cred),
         next.at = "idle" => next.principal = Rejected,
         next.at # "runs"
  PROVE  HttpInv'
<1>1. HttpTypeOK' /\ http'[r] = next /\ \A q \in Requests : q # r => http'[q] = http[q]
  BY RequestMoves DEF HttpInv
<1>2. RequestOK(r)'
  BY <1>1 DEF RequestOK, Sent, IsPrincipalOf
<1> QED
  BY <1>1, <1>2, OthersKept DEF HttpInv

LEMMA ArriveKeeps ==
  ASSUME HttpInv, NEW r \in Requests, Arrive(r)
  PROVE  HttpInv'
<1>0. DOMAIN http[r] = Fields /\ Sent(r) /\ http[r].principal = Rejected /\ UNCHANGED mode
  BY RequestFields DEF HttpInv, HttpTypeOK, RequestOK, Arrive
<1>1. ASSUME NEW kind, http' = [http EXCEPT ![r] = [@ EXCEPT !.at = "health", !.kind = kind]]
      PROVE  HttpInv'
  <2> DEFINE next == [http[r] EXCEPT !.at = "health", !.kind = kind]
  <2>1. http' = [http EXCEPT ![r] = next]
    BY <1>1
  <2>2. /\ DOMAIN next = Fields /\ next.at = "health" /\ next.sender = http[r].sender
        /\ next.cred = http[r].cred /\ next.principal = http[r].principal
    BY <1>0 DEF Fields
  <2> HIDE DEF next
  <2> QED
    BY <1>0, <2>1, <2>2, ReplacedKept DEF Sent
<1>2. ASSUME NEW size,
             http' = [http EXCEPT ![r] =
                        [@ EXCEPT !.at = "health", !.kind = "call", !.size = size, !.tool = "read"]]
      PROVE  HttpInv'
  <2> DEFINE next == [http[r] EXCEPT !.at = "health", !.kind = "call", !.size = size, !.tool = "read"]
  <2>1. http' = [http EXCEPT ![r] = next]
    BY <1>2
  <2>2. /\ DOMAIN next = Fields /\ next.at = "health" /\ next.sender = http[r].sender
        /\ next.cred = http[r].cred /\ next.principal = http[r].principal
    BY <1>0 DEF Fields
  <2> HIDE DEF next
  <2> QED
    BY <1>0, <2>1, <2>2, ReplacedKept DEF Sent
<1>3. ASSUME NEW who \in Users \cup {"bearer"}, NEW tool, NEW cred \in Presentable(who),
             http' = [http EXCEPT ![r] =
                        [@ EXCEPT !.at = "health", !.kind = "call", !.tool = tool,
                                  !.sender = who, !.cred = cred]]
      PROVE  HttpInv'
  <2> DEFINE next == [http[r] EXCEPT !.at = "health", !.kind = "call", !.tool = tool,
                                     !.sender = who, !.cred = cred]
  <2>1. http' = [http EXCEPT ![r] = next]
    BY <1>3
  <2>2. /\ DOMAIN next = Fields /\ next.at = "health" /\ next.sender = who
        /\ next.cred = cred /\ next.principal = http[r].principal
    BY <1>0 DEF Fields
  <2> HIDE DEF next
  <2> QED
    BY <1>0, <2>1, <2>2, ReplacedKept
<1> QED
  BY <1>1, <1>2, <1>3 DEF Arrive

LEMMA AuthenticateKeeps ==
  ASSUME HttpInv, NEW r \in Requests, Authenticate(r)
  PROVE  HttpInv'
<1>0. DOMAIN http[r] = Fields /\ Sent(r) /\ mode \in Modes
  BY RequestFields DEF HttpInv, HttpTypeOK, RequestOK
<1>1. CASE Goes(r, "application") \/ \E status : Answers(r, status)
  BY <1>1, MovedKept
<1>2. ASSUME NEW fetched \in BOOLEAN, NEW principal,
             principal = Authenticator(http[r].cred, fetched), principal # Rejected,
             http' = [http EXCEPT ![r] =
                        [@ EXCEPT !.at = "application", !.principal = principal]],
             UNCHANGED mode
      PROVE  HttpInv'
  <2> DEFINE next == [http[r] EXCEPT !.at = "application", !.principal = principal]
  <2>1. http' = [http EXCEPT ![r] = next] /\ UNCHANGED mode
    BY <1>2
  <2>2. /\ DOMAIN next = Fields /\ next.at = "application" /\ next.sender = http[r].sender
        /\ next.cred = http[r].cred /\ next.principal = principal
    BY <1>0 DEF Fields
  <2>3. IsPrincipalOf(principal, http[r].sender, http[r].cred)
    BY <1>0, <1>2, AuthenticatorSound
  <2> HIDE DEF next
  <2>4. /\ \/ next.sender = "none" /\ next.cred = NoCredential
           \/ next.sender \in Users \cup {"bearer"} /\ next.cred \in Presentable(next.sender)
        /\ IsPrincipalOf(next.principal, next.sender, next.cred)
        /\ next.at # "idle" /\ next.at # "runs"
    BY <1>0, <2>2, <2>3 DEF Sent
  <2> QED
    BY ONLY HttpInv, r \in Requests, <2>1, <2>2, <2>4, ReplacedKept
<1>3. CASE http[r].kind = "preflight"
  BY <1>1, <1>3 DEF Authenticate
<1>4. CASE http[r].kind # "preflight"
  <2>1. CASE Answers(r, 500)
    BY <1>1, <2>1
  <2>2. ASSUME NEW fetched \in BOOLEAN, Bind(r, Authenticator(http[r].cred, fetched))
        PROVE  HttpInv'
    <3> DEFINE principal == Authenticator(http[r].cred, fetched)
    <3>1. CASE principal = Rejected
      BY <1>1, <2>2, <3>1 DEF Bind
    <3>2. CASE principal # Rejected
      BY <1>2, <2>2, <3>2 DEF Bind
    <3> QED
      BY <3>1, <3>2
  <2> QED
    BY <1>4, <2>1, <2>2 DEF Authenticate
<1> QED
  BY <1>3, <1>4

LEMMA ApplicationKeeps ==
  ASSUME HttpInv, NEW r \in Requests, Application(r)
  PROVE  HttpInv'
<1>1. CASE \E status : Answers(r, status)
  BY <1>1, MovedKept
<1>2. CASE /\ http[r].principal # Rejected /\ http[r].tool \in http[r].principal.capabilities
           /\ Goes(r, "runs")
  BY <1>2, MovedKept
<1> QED
  BY <1>1, <1>2 DEF Application

LEMMA RequestOverKeeps ==
  ASSUME HttpInv, NEW r \in Requests, RequestOver(r)
  PROVE  HttpInv'
<1>1. /\ DOMAIN NoRequest = Fields /\ NoRequest.at = "idle" /\ NoRequest.sender = "none"
      /\ NoRequest.cred = NoCredential /\ NoRequest.principal = Rejected
  BY RequestFields DEF NoRequest
<1>2. http' = [http EXCEPT ![r] = NoRequest] /\ UNCHANGED mode
  BY DEF RequestOver
<1> QED
  BY <1>1, <1>2, ReplacedKept

LEMMA HttpInvInit == HttpInit => HttpInv
<1> SUFFICES ASSUME HttpInit
             PROVE  HttpInv
  OBVIOUS
<1>1. /\ NoRequest.at = "idle" /\ NoRequest.sender = "none"
      /\ NoRequest.cred = NoCredential /\ NoRequest.principal = Rejected
  BY DEF NoRequest
<1> QED
  BY <1>1 DEF HttpInit, HttpInv, HttpTypeOK, RequestOK, Sent

LEMMA HttpInvStep == HttpInv /\ [HttpNext]_httpVars => HttpInv'
<1> SUFFICES ASSUME HttpInv, [HttpNext]_httpVars
             PROVE  HttpInv'
  OBVIOUS
<1>1. ASSUME NEW r \in Requests, Arrive(r)
      PROVE  HttpInv'
  BY <1>1, ArriveKeeps
<1>2. ASSUME NEW r \in Requests, Health(r)
      PROVE  HttpInv'
  <2>1. Goes(r, "size") \/ \E status : Answers(r, status)
    BY <1>2 DEF Health
  <2> QED
    BY <2>1, MovedKept
<1>3. ASSUME NEW r \in Requests, Cors(r) \/ ToolReturns(r)
      PROVE  HttpInv'
  <2>1. \E status : Answers(r, status)
    BY <1>3 DEF Cors, ToolReturns
  <2> QED
    BY <2>1, MovedKept
<1>4. ASSUME NEW r \in Requests, SizeLimit(r)
      PROVE  HttpInv'
  <2>1. Goes(r, "rate") \/ \E status : Answers(r, status)
    BY <1>4 DEF SizeLimit
  <2> QED
    BY <2>1, MovedKept
<1>5. ASSUME NEW r \in Requests, RateLimit(r)
      PROVE  HttpInv'
  <2>1. Goes(r, "authenticate") \/ \E status : Answers(r, status)
    BY <1>5 DEF RateLimit
  <2> QED
    BY <2>1, MovedKept
<1>6. ASSUME NEW r \in Requests, Authenticate(r)
      PROVE  HttpInv'
  BY <1>6, AuthenticateKeeps
<1>7. ASSUME NEW r \in Requests, Application(r)
      PROVE  HttpInv'
  BY <1>7, ApplicationKeeps
<1>8. ASSUME NEW r \in Requests, RequestOver(r)
      PROVE  HttpInv'
  BY <1>8, RequestOverKeeps
<1>9. CASE UNCHANGED httpVars
  BY <1>9 DEF httpVars, HttpInv, HttpTypeOK, RequestOK, Sent, IsPrincipalOf
<1> QED
  BY <1>1, <1>2, <1>3, <1>4, <1>5, <1>6, <1>7, <1>8, <1>9 DEF HttpNext

(* Every request carries a credential its sender can present and, once     *)
(* authenticated, that sender's principal: the middleware's order and the  *)
(* authenticators of server/auth.py keep it, in every mode.                *)
THEOREM HttpInvariantHolds == HttpSpec => []HttpInv
  BY HttpInvInit, HttpInvStep, PTL DEF HttpSpec

(* A tool runs only as the person who sent the request, and a mutating one *)
(* for an OAuth sender only with the write scope: for any users, any       *)
(* number of requests in flight and every auth_mode.                       *)
THEOREM ServedAsSenderHolds == HttpSpec => []ServedAsSender
<1>1. HttpInv => ServedAsSender
  BY DEF HttpInv, RequestOK, IsPrincipalOf, ServedAsSender
<1> QED
  BY <1>1, HttpInvariantHolds, PTL

-----------------------------------------------------------------------------
(* RateLimiter.  Counting in a history. *)

LEMMA TimesSame ==
  ASSUME NEW what, NEW c, NEW d, NEW e, NEW i \in Int, NEW j \in Int,
         \A k \in i..j : d[k] = e[k]
  PROVE  Times(what, c, d, i, j) = Times(what, c, e, i, j)
<1>1. Met(what, c, d, i, j) = Met(what, c, e, i, j)
  BY DEF Met
<1> QED BY <1>1 DEF Times

LEMMA MetFinite ==
  ASSUME NEW what, NEW c, NEW d, NEW i \in Int, NEW j \in Int
  PROVE  IsFiniteSet(Met(what, c, d, i, j))
<1>1. IsFiniteSet(i..j)
  BY FS_Interval
<1>2. Met(what, c, d, i, j) \subseteq i..j
  BY DEF Met
<1> QED BY <1>1, <1>2, FS_Subset

LEMMA TimesNat ==
  ASSUME NEW what, NEW c, NEW d, NEW i \in Int, NEW j \in Int
  PROVE  Times(what, c, d, i, j) \in Nat
  BY MetFinite, FS_CardinalityType DEF Times

LEMMA TimesNone ==
  ASSUME NEW what, NEW c, NEW d, NEW i \in Int, NEW j \in Int, j < i
  PROVE  Times(what, c, d, i, j) = 0
<1>1. Met(what, c, d, i, j) = {}
  BY DEF Met
<1> QED BY <1>1, FS_EmptySet DEF Times

(* One more entry counts one more, or none. *)
LEMMA TimesCounts ==
  ASSUME NEW what, NEW c, NEW d, NEW i \in Int, NEW j \in Int, NEW m \in Int,
         m = j + 1, i <= m, d[m].client = c, d[m].what = what
  PROVE  Times(what, c, d, i, m) = Times(what, c, d, i, j) + 1
<1>1. Met(what, c, d, i, m) = Met(what, c, d, i, j) \cup {m}
  BY DEF Met
<1>2. m \notin Met(what, c, d, i, j)
  BY DEF Met
<1>3. IsFiniteSet(Met(what, c, d, i, j))
  BY MetFinite
<1> QED BY <1>1, <1>2, <1>3, FS_AddElement DEF Times

LEMMA TimesSkips ==
  ASSUME NEW what, NEW c, NEW d, NEW i \in Int, NEW j \in Int, NEW m \in Int,
         m = j + 1, ~(d[m].client = c /\ d[m].what = what)
  PROVE  Times(what, c, d, i, m) = Times(what, c, d, i, j)
<1>1. Met(what, c, d, i, m) = Met(what, c, d, i, j)
  BY DEF Met
<1> QED BY <1>1 DEF Times

(* The history d grows by the entry x to e, and no entry is later. *)
Grows(d, e, x) ==
  /\ Len(d) \in Nat /\ Len(e) = Len(d) + 1
  /\ DOMAIN d = 1..Len(d) /\ DOMAIN e = 1..Len(e)
  /\ e[Len(e)] = x
  /\ \A k \in 1..Len(d) : e[k] = d[k]
  /\ x.at \in Nat /\ \A k \in 1..Len(e) : e[k].at \in Nat /\ e[k].at <= x.at

LEMMA SinceNat ==
  ASSUME NEW d, NEW e, NEW x, Grows(d, e, x), NEW what, NEW c, NEW i \in 1..Len(e)
  PROVE  Since(what, c, d, i) \in Nat /\ Since(what, c, e, i) \in Nat
<1>1. i \in Int /\ Len(d) \in Int /\ Len(e) \in Int
  BY DEF Grows
<1>2. Since(what, c, d, i) \in Nat
  BY <1>1, TimesNat DEF Since
<1>3. Since(what, c, e, i) \in Nat
  BY <1>1, TimesNat DEF Since
<1> QED BY <1>2, <1>3

LEMMA SinceSame ==
  ASSUME NEW d, NEW e, NEW x, Grows(d, e, x), NEW what, NEW c, NEW i \in 1..Len(e)
  PROVE  Times(what, c, e, i, Len(d)) = Since(what, c, d, i)
<1>1. i \in Int /\ Len(d) \in Int /\ \A k \in i..Len(d) : e[k] = d[k]
  BY DEF Grows
<1> QED BY <1>1, TimesSame DEF Since

LEMMA SinceCounts ==
  ASSUME NEW d, NEW e, NEW x, Grows(d, e, x), NEW c, NEW i \in 1..Len(e), x.client = c
  PROVE  Since(x.what, c, e, i) = Since(x.what, c, d, i) + 1
<1> DEFINE n == Len(d)
           m == Len(e)
<1>1. n \in Int /\ m \in Int /\ m = n + 1 /\ i \in Int /\ i <= m /\ e[m] = x
  BY DEF Grows
<1>2. Times(x.what, c, e, i, n) = Since(x.what, c, d, i)
  BY SinceSame
<1>3. Since(x.what, c, e, i) = Times(x.what, c, e, i, m)
  BY DEF Since
<1> HIDE DEF n, m
<1>4. Times(x.what, c, e, i, m) = Times(x.what, c, e, i, n) + 1
  <2>1. e[m].client = c /\ e[m].what = x.what
    BY <1>1
  <2> QED BY ONLY <1>1, <2>1, TimesCounts
<1> QED BY <1>2, <1>3, <1>4

LEMMA SinceSkips ==
  ASSUME NEW d, NEW e, NEW x, Grows(d, e, x), NEW what, NEW c, NEW i \in 1..Len(e),
         x.client # c \/ x.what # what
  PROVE  Since(what, c, e, i) = Since(what, c, d, i)
<1> DEFINE n == Len(d)
           m == Len(e)
<1>1. n \in Int /\ m \in Int /\ m = n + 1 /\ i \in Int /\ i <= m /\ e[m] = x
  BY DEF Grows
<1>2. Times(what, c, e, i, n) = Since(what, c, d, i)
  BY SinceSame
<1>3. Since(what, c, e, i) = Times(what, c, e, i, m)
  BY DEF Since
<1> HIDE DEF n, m
<1>4. Times(what, c, e, i, m) = Times(what, c, e, i, n)
  BY <1>1, TimesSkips
<1> QED BY <1>2, <1>3, <1>4

LEMMA SinceNew ==
  ASSUME NEW d, NEW e, NEW x, Grows(d, e, x), NEW what, NEW c
  PROVE  Since(what, c, d, Len(e)) = 0
<1>1. Len(e) \in Int /\ Len(d) \in Int /\ Len(d) < Len(e)
  BY DEF Grows
<1> QED BY <1>1, TimesNone DEF Since

-----------------------------------------------------------------------------
(* Arithmetic of the budget. *)

LEMMA BurstsNat ==
  ASSUME NEW n \in Nat
  PROVE  /\ Bursts(n) \in Nat /\ Burst <= Bursts(n)
         /\ Bursts(n + 1) = Bursts(n) + Burst
  BY RateConstants DEF Bursts

LEMMA EarnsInt ==
  ASSUME NEW s \in Int
  PROVE  Earns(s) \in Int /\ (s >= 0 => Earns(s) >= 0)
  BY RateConstants DEF Earns

LEMMA EarnsMore ==
  ASSUME NEW s \in Int, NEW t \in Int, s <= t
  PROVE  Earns(s) <= Earns(t)
  BY RateConstants DEF Earns

LEMMA EarnsSplit ==
  ASSUME NEW s \in Int, NEW t \in Int, NEW u \in Int
  PROVE  Earns(t - u) = Earns(s - u) + Earns(t - s)
  BY RateConstants DEF Earns

LEMMA SpendEarned ==
  ASSUME NEW a \in Int, NEW b \in Int, NEW g \in Int, NEW p \in Int, NEW t \in Int, NEW u \in Int,
         u <= t + p, a + t <= b + g
  PROVE  a + u <= b + (g + p)
  OBVIOUS

LEMMA EvictionPays ==
  ASSUME NEW a \in Int, NEW b \in Int, NEW g \in Int, NEW h \in Int, NEW t \in Int, NEW u \in Int,
         t >= 0, g <= h, a + t <= b + g
  PROVE  a + u <= (b + u) + h
  OBVIOUS

-----------------------------------------------------------------------------
(* What is earned, step by step. *)

(* What has been earned since the i-th decision. *)
Balanced(c, d, tokens, last, i) ==
  \/ Since("admitted", c, d, i) = 0
  \/ Since("admitted", c, d, i) + tokens
       <= Bursts(Since("evicted", c, d, i)) + Earns(last - d[i].at)

LEMMA EarnedParts ==
  ASSUME NEW c, NEW d, NEW t, NEW l
  PROVE  Earned(c, d, t, l) <=>
           /\ \A i \in 1..Len(d) : Balanced(c, d, t, l, i)
           /\ Since("admitted", c, d, 1) + t >= Burst
  BY DEF Earned, Balanced

(* A decision that does not admit the client leaves what it has earned. *)
LEMMA EarnedOther ==
  ASSUME NEW d, NEW e, NEW x, Grows(d, e, x), NEW c, NEW t \in 0..Burst, NEW l \in Nat,
         x.client # c \/ x.what # "admitted", Earned(c, d, t, l)
  PROVE  Earned(c, e, t, l)
<1>0. Len(d) \in Nat /\ Len(e) = Len(d) + 1 /\ 1 \in 1..Len(e) /\ Len(e) \in 1..Len(e)
  BY DEF Grows
<1>1. \A i \in 1..Len(e) : Since("admitted", c, e, i) = Since("admitted", c, d, i)
  BY SinceSkips
<1>2. ASSUME NEW i \in 1..Len(d), Since("admitted", c, d, i) # 0
      PROVE  Balanced(c, e, t, l, i)
  <2>1. i \in 1..Len(e) /\ e[i] = d[i] /\ d[i].at \in Nat
    BY <1>0 DEF Grows
  <2>2. Since("admitted", c, d, i) + t <= Bursts(Since("evicted", c, d, i)) + Earns(l - d[i].at)
    BY <1>2 DEF Earned
  <2>3. Earns(l - d[i].at) \in Int
    <3>1. l - d[i].at \in Int
      BY <2>1
    <3> QED BY <3>1, EarnsInt
  <2> DEFINE a == Since("admitted", c, d, i)
             v == Since("evicted", c, d, i)
             w == Since("evicted", c, e, i)
  <2>4. a \in Nat /\ v \in Nat /\ w \in Nat
    BY <2>1, SinceNat
  <2>5. w = v \/ w = v + 1
    <3>1. CASE x.client = c /\ x.what = "evicted"
      BY <2>1, <3>1, SinceCounts
    <3>2. CASE x.client # c \/ x.what # "evicted"
      BY <2>1, <3>2, SinceSkips
    <3> QED BY <3>1, <3>2
  <2>6. Bursts(v) \in Nat /\ Bursts(w) \in Nat /\ Bursts(v) <= Bursts(w)
    <3> HIDE DEF v, w
    <3>1. Bursts(v) \in Nat /\ Bursts(v + 1) = Bursts(v) + Burst
      BY <2>4, BurstsNat
    <3>2. CASE w = v
      BY <3>1, <3>2
    <3>3. CASE w = v + 1
      BY <3>1, <3>3, RateConstants
    <3> QED BY <2>5, <3>2, <3>3
  <2>7. Since("admitted", c, e, i) = a
    BY <1>1, <2>1
  <2>8. a + t <= Bursts(w) + Earns(l - e[i].at)
    <3> HIDE DEF v, w, a
    <3>1. a + t <= Bursts(v) + Earns(l - d[i].at)
      BY <2>2 DEF a, v
    <3> QED BY <2>1, <2>3, <2>4, <2>6, <3>1
  <2> QED BY <2>7, <2>8 DEF Balanced
<1>3. ASSUME NEW i \in 1..Len(e), Since("admitted", c, d, i) = 0
      PROVE  Balanced(c, e, t, l, i)
  BY <1>1, <1>3 DEF Balanced
<1>4. Since("admitted", c, d, Len(e)) = 0
  BY SinceNew
<1>5. \A i \in 1..Len(e) : Balanced(c, e, t, l, i)
  BY <1>0, <1>2, <1>3, <1>4
<1>6. Since("admitted", c, e, 1) + t >= Burst
  BY <1>0, <1>1 DEF Earned
<1> QED BY <1>5, <1>6, EarnedParts

(* An admission spends a token that was earned. *)
LEMMA EarnedAdmitted ==
  ASSUME NEW d, NEW e, NEW x, Grows(d, e, x), NEW c, NEW t \in 1..Burst,
         x.client = c, x.what = "admitted", Earned(c, d, t, x.at)
  PROVE  Earned(c, e, t - 1, x.at)
<1>0. Len(d) \in Nat /\ Len(e) = Len(d) + 1 /\ 1 \in 1..Len(e) /\ x.at \in Nat
  BY DEF Grows
<1>1. \A i \in 1..Len(e) : Since("admitted", c, e, i) = Since("admitted", c, d, i) + 1
  BY SinceCounts
<1>2. \A i \in 1..Len(e) : Since("evicted", c, e, i) = Since("evicted", c, d, i)
  BY SinceSkips
<1>3. ASSUME NEW i \in 1..Len(e)
      PROVE  Balanced(c, e, t - 1, x.at, i)
  <2> DEFINE a == Since("admitted", c, d, i)
             b == Bursts(Since("evicted", c, d, i))
             g == Earns(x.at - e[i].at)
  <2>1. a \in Nat /\ Since("evicted", c, d, i) \in Nat
    BY SinceNat
  <2>2. b \in Nat /\ Burst <= b
    BY <2>1, BurstsNat
  <2>3. g \in Int /\ g >= 0
    <3>1. x.at - e[i].at \in Int /\ x.at - e[i].at >= 0
      BY DEF Grows
    <3> QED BY <3>1, EarnsInt
  <2>4. a + t <= b + g
    <3>1. CASE a = 0
      <4> HIDE DEF a, b, g
      <4> QED BY <2>2, <2>3, <3>1, RateConstants
    <3>2. CASE a # 0
      <4>1. i \in 1..Len(d)
        BY <1>0, <3>2, SinceNew
      <4>2. e[i] = d[i]
        BY <4>1 DEF Grows
      <4> QED BY <3>2, <4>1, <4>2 DEF Earned
    <3> QED BY <3>1, <3>2
  <2>5. (a + 1) + (t - 1) <= b + g
    <3> HIDE DEF a, b, g
    <3> QED BY <2>1, <2>2, <2>3, <2>4
  <2> QED BY <1>1, <1>2, <2>5 DEF Balanced
<1>4. Since("admitted", c, e, 1) + (t - 1) >= Burst
  <2>1. Since("admitted", c, d, 1) + t >= Burst
    BY DEF Earned
  <2>2. Since("admitted", c, d, 1) \in Nat
    BY <1>0, SinceNat
  <2> QED BY <1>0, <1>1, <2>1, <2>2, RateConstants
<1> QED BY <1>3, <1>4, EarnedParts

(* An eviction gives the client another burst. *)
LEMMA EarnedEvicted ==
  ASSUME NEW d, NEW e, NEW x, Grows(d, e, x), NEW c, NEW t \in 0..Burst, NEW last \in Nat,
         last <= x.at, x.client = c, x.what = "evicted", Earned(c, d, t, last)
  PROVE  Earned(c, e, Burst, x.at)
<1>0. Len(d) \in Nat /\ Len(e) = Len(d) + 1 /\ 1 \in 1..Len(e) /\ x.at \in Nat
  BY DEF Grows
<1>1. \A i \in 1..Len(e) : Since("admitted", c, e, i) = Since("admitted", c, d, i)
  BY SinceSkips
<1>2. \A i \in 1..Len(e) : Since("evicted", c, e, i) = Since("evicted", c, d, i) + 1
  BY SinceCounts
<1>3. ASSUME NEW i \in 1..Len(e)
      PROVE  Balanced(c, e, Burst, x.at, i)
  <2> DEFINE a == Since("admitted", c, d, i)
             v == Since("evicted", c, d, i)
             g == Earns(last - d[i].at)
             h == Earns(x.at - d[i].at)
  <2>1. CASE a = 0
    BY <1>1, <2>1 DEF Balanced
  <2>2. CASE a # 0
    <3>1. i \in 1..Len(d)
      BY <1>0, <2>2, SinceNew
    <3>2. e[i] = d[i] /\ d[i].at \in Nat
      BY <3>1 DEF Grows
    <3>3. a \in Nat /\ v \in Nat
      BY SinceNat
    <3>4. Bursts(v) \in Nat /\ Bursts(v + 1) = Bursts(v) + Burst
      BY <3>3, BurstsNat
    <3>5. g \in Int /\ h \in Int /\ g <= h
      <4>1. \A l, y, z \in Nat : l <= y => l - z \in Int /\ y - z \in Int /\ l - z <= y - z
        OBVIOUS
      <4>2. last - d[i].at \in Int /\ x.at - d[i].at \in Int /\ last - d[i].at <= x.at - d[i].at
        BY <1>0, <3>2, <4>1
      <4> QED BY <4>2, EarnsInt, EarnsMore
    <3>6. a + t <= Bursts(v) + g
      BY <2>2, <3>1 DEF Earned
    <3>7. a + Burst <= Bursts(v + 1) + h
      <4>1. a \in Int /\ Bursts(v) \in Int /\ g \in Int /\ h \in Int /\ g <= h
        BY <3>3, <3>4, <3>5
      <4>2. t \in Int /\ t >= 0 /\ Burst \in Int
        BY RateConstants
      <4> HIDE DEF a, v, g, h
      <4>3. a + Burst <= (Bursts(v) + Burst) + h
        BY <4>1, <4>2, <3>6, EvictionPays
      <4> QED BY <3>4, <4>3
    <3> QED BY <1>1, <1>2, <3>2, <3>7 DEF Balanced
  <2> QED BY <2>1, <2>2
<1>4. Since("admitted", c, e, 1) + Burst >= Burst
  <2>1. Since("admitted", c, e, 1) \in Nat
    BY <1>0, SinceNat
  <2> QED BY <2>1, RateConstants
<1> QED BY <1>3, <1>4, EarnedParts

(* Time earns tokens, up to a burst. *)
LEMMA EarnedRefilled ==
  ASSUME NEW d, Len(d) \in Nat, \A i \in 1..Len(d) : d[i].at \in Nat,
         NEW c, NEW t \in 0..Burst, NEW last \in Nat, NEW l \in Nat,
         last <= l, Earned(c, d, t, last),
         NEW u, u = IF t + Earns(l - last) > Burst THEN Burst ELSE t + Earns(l - last)
  PROVE  u \in 0..Burst /\ Earned(c, d, u, l)
<1>1. Earns(l - last) \in Int /\ Earns(l - last) >= 0
  <2>1. l - last \in Int /\ l - last >= 0
    OBVIOUS
  <2> QED BY <2>1, EarnsInt
<1>2. u \in 0..Burst /\ u <= t + Earns(l - last) /\ u >= t
  BY <1>1, RateConstants
<1>3. ASSUME NEW i \in 1..Len(d)
      PROVE  Balanced(c, d, u, l, i)
  <2> DEFINE a == Since("admitted", c, d, i)
             b == Bursts(Since("evicted", c, d, i))
             g == Earns(last - d[i].at)
             h == Earns(l - d[i].at)
             p == Earns(l - last)
  <2>1. a \in Nat /\ Since("evicted", c, d, i) \in Nat
    <3>1. i \in Int /\ Len(d) \in Int
      OBVIOUS
    <3> QED BY <3>1, TimesNat DEF Since
  <2>2. b \in Nat
    BY <2>1, BurstsNat
  <2>3. d[i].at \in Int /\ last - d[i].at \in Int
    OBVIOUS
  <2>4. h = g + p /\ g \in Int
    <3>1. last \in Int /\ l \in Int
      OBVIOUS
    <3>2. h = g + p
      BY <2>3, <3>1, EarnsSplit
    <3>3. g \in Int
      BY <2>3, EarnsInt
    <3> QED BY <3>2, <3>3
  <2>5. a = 0 \/ a + t <= b + g
    BY DEF Earned
  <2>6. a = 0 \/ a + u <= b + h
    <3>1. p \in Int /\ u <= t + p
      BY <1>1, <1>2
    <3>2. u \in Int /\ t \in Int
      BY <1>2
    <3>3. a \in Int /\ b \in Int /\ g \in Int /\ h = g + p
      BY <2>1, <2>2, <2>4
    <3> HIDE DEF a, b, g, h, p
    <3>4. CASE a + t <= b + g
      BY <3>1, <3>2, <3>3, <3>4, SpendEarned
    <3> QED BY <2>5, <3>4
  <2> QED BY <2>6 DEF Balanced
<1>4. Since("admitted", c, d, 1) + u >= Burst
  <2>1. Since("admitted", c, d, 1) + t >= Burst
    BY DEF Earned
  <2>2. Since("admitted", c, d, 1) \in Nat
    <3>1. 1 \in Int /\ Len(d) \in Int
      OBVIOUS
    <3> QED BY <3>1, TimesNat DEF Since
  <2> QED BY <1>2, <2>1, <2>2, RateConstants
<1> QED BY <1>2, <1>3, <1>4, EarnedParts

(* What is earned bounds what was admitted up to the newest decision. *)
LEMMA EarnedAtRate ==
  ASSUME NEW d, NEW e, NEW x, Grows(d, e, x), NEW c, AtRate(c, d),
         NEW t \in 0..Burst, NEW l \in Nat, l <= x.at, Earned(c, e, t, l),
         x.client = c /\ x.what = "refused" => t = 0
  PROVE  AtRate(c, e)
<1>0. /\ Len(d) \in Nat /\ Len(e) = Len(d) + 1 /\ x.at \in Nat /\ e[Len(e)] = x
      /\ DOMAIN d = 1..Len(d) /\ DOMAIN e = 1..Len(e)
  BY DEF Grows
<1>1. \A i \in 1..Len(d) : e[i] = d[i]
  BY DEF Grows
<1>2. ASSUME NEW i \in 1..Len(e), NEW j \in 1..Len(d), NEW what
      PROVE  Times(what, c, e, i, j) = Times(what, c, d, i, j)
  <2>1. i \in Int /\ j \in Int /\ \A k \in i..j : e[k] = d[k]
    BY <1>0, <1>1
  <2> QED BY <2>1, TimesSame
<1>3. ASSUME NEW i \in 1..Len(e)
      PROVE  Times("admitted", c, e, i, Len(e))
               <= Bursts(Times("evicted", c, e, i, Len(e))) + Earns(x.at - e[i].at)
  <2> DEFINE a == Since("admitted", c, e, i)
             b == Bursts(Since("evicted", c, e, i))
             g == Earns(l - e[i].at)
             h == Earns(x.at - e[i].at)
  <2>1. a \in Nat /\ Since("evicted", c, e, i) \in Nat
    BY SinceNat
  <2>2. b \in Nat
    BY <2>1, BurstsNat
  <2>3. g \in Int /\ h \in Int /\ g <= h /\ h >= 0
    <3>1. /\ l - e[i].at \in Int /\ x.at - e[i].at \in Int
          /\ l - e[i].at <= x.at - e[i].at /\ x.at - e[i].at >= 0
      BY <1>0 DEF Grows
    <3> QED BY <3>1, EarnsInt, EarnsMore
  <2>4. a = 0 \/ a + t <= b + g
    BY DEF Earned
  <2>5. a <= b + h
    <3> HIDE DEF a, b, g, h
    <3> QED BY <2>1, <2>2, <2>3, <2>4
  <2> QED BY <2>5 DEF Since
<1>4. ASSUME NEW i \in 1..Len(e), NEW j \in 1..Len(e), i <= j
      PROVE  Times("admitted", c, e, i, j)
               <= Bursts(Times("evicted", c, e, i, j)) + Earns(e[j].at - e[i].at)
  <2>1. CASE j = Len(e)
    BY <1>0, <1>3, <2>1
  <2>2. CASE j \in 1..Len(d)
    <3>1. i \in 1..Len(d)
      BY <1>0, <1>4, <2>2
    <3>2. Times("admitted", c, d, i, j)
            <= Bursts(Times("evicted", c, d, i, j)) + Earns(d[j].at - d[i].at)
      BY <1>0, <1>4, <2>2, <3>1 DEF AtRate
    <3> QED BY <1>1, <1>2, <2>2, <3>1, <3>2
  <2> QED BY <1>0, <2>1, <2>2
<1>5. ASSUME NEW j \in 1..Len(e), e[j].client = c, e[j].what = "refused"
      PROVE  Times("admitted", c, e, 1, j) >= Burst
  <2>1. CASE j = Len(e)
    <3>1. Since("admitted", c, e, 1) + t >= Burst /\ t = 0
      BY <1>0, <1>5, <2>1 DEF Earned
    <3>2. Since("admitted", c, e, 1) \in Nat
      BY <1>0, SinceNat
    <3> QED BY <2>1, <3>1, <3>2 DEF Since
  <2>2. CASE j \in 1..Len(d)
    <3>1. Times("admitted", c, d, 1, j) >= Burst
      BY <1>0, <1>1, <1>5, <2>2 DEF AtRate
    <3>2. Times("admitted", c, e, 1, j) = Times("admitted", c, d, 1, j)
      BY <1>0, <1>2, <2>2
    <3> QED BY <3>1, <3>2
  <2> QED BY <1>0, <2>1, <2>2
<1> QED BY <1>0, <1>4, <1>5 DEF AtRate

-----------------------------------------------------------------------------
(* The table of buckets. *)

Distinct(bs) == \A i, j \in DOMAIN bs : bs[i].key = bs[j].key => i = j
Fresh(c, when) == [key |-> c, tokens |-> Burst, last |-> when]
BucketIn(bs, when, c) ==
  IF \E i \in DOMAIN bs : bs[i].key = c
  THEN bs[CHOOSE i \in DOMAIN bs : bs[i].key = c] ELSE Fresh(c, when)

LEMMA InFound ==
  ASSUME NEW bs, Distinct(bs), NEW i \in DOMAIN bs, NEW when
  PROVE  BucketIn(bs, when, bs[i].key) = bs[i]
  BY DEF BucketIn, Distinct

LEMMA InNone ==
  ASSUME NEW bs, NEW c, NEW when, \A i \in DOMAIN bs : bs[i].key # c
  PROVE  BucketIn(bs, when, c) = Fresh(c, when)
  BY DEF BucketIn

LEMMA InTyped ==
  ASSUME NEW bs \in Seq(BucketRecord), Distinct(bs), NEW when \in Nat, NEW c \in Clients,
         \A i \in DOMAIN bs : bs[i].last <= when
  PROVE  LET b == BucketIn(bs, when, c)
         IN b.key = c /\ b.tokens \in 0..Burst /\ b.last \in Nat /\ b.last <= when
<1>1. CASE \E i \in DOMAIN bs : bs[i].key = c
  <2>1. PICK i \in DOMAIN bs : bs[i].key = c
    BY <1>1
  <2>2. bs[i] \in BucketRecord
    OBVIOUS
  <2> QED BY <2>1, <2>2, InFound DEF BucketRecord
<1>2. CASE \A i \in DOMAIN bs : bs[i].key # c
  BY <1>2, InNone, RateConstants DEF Fresh
<1> QED BY <1>1, <1>2

(* The table o is bs without its bucket for key. *)
Rest(bs, o, key) ==
  /\ o \in Seq(BucketRecord) /\ Distinct(o)
  /\ \A k \in DOMAIN o : o[k].key # key /\ \E m \in DOMAIN bs : o[k] = bs[m]
  /\ \A m \in DOMAIN bs : bs[m].key # key => \E k \in DOMAIN o : o[k] = bs[m]

LEMMA RemovalLeavesRest ==
  ASSUME NEW bs \in Seq(BucketRecord), Distinct(bs), NEW i \in DOMAIN bs,
         NEW o, o = RemoveAt(bs, i)
  PROVE  Rest(bs, o, bs[i].key)
<1>1. Len(bs) \in Nat /\ DOMAIN bs = 1..Len(bs) /\ i \in 1..Len(bs)
  OBVIOUS
<1> DEFINE p == SubSeq(bs, 1, i - 1)
           q == SubSeq(bs, i + 1, Len(bs))
<1>2. p \in Seq(BucketRecord) /\ Len(p) = i - 1 /\ \A k \in 1..i - 1 : p[k] = bs[k]
  BY <1>1
<1>3. q \in Seq(BucketRecord) /\ Len(q) = Len(bs) - i /\ \A k \in 1..Len(bs) - i : q[k] = bs[k + i]
  BY <1>1
<1>4. o = p \o q
  BY DEF RemoveAt
<1> HIDE DEF p, q
<1>4a. /\ o \in Seq(BucketRecord) /\ Len(o) = Len(p) + Len(q)
      /\ \A k \in 1..Len(p) + Len(q) : o[k] = IF k <= Len(p) THEN p[k] ELSE q[k - Len(p)]
  <2>1. p \o q \in Seq(BucketRecord)
    BY <1>2, <1>3, ConcatProperties
  <2>2. Len(p \o q) = Len(p) + Len(q)
    BY <1>2, <1>3, ConcatProperties
  <2>3. \A k \in 1..Len(p) + Len(q) : (p \o q)[k] = IF k <= Len(p) THEN p[k] ELSE q[k - Len(p)]
    BY <1>2, <1>3, ConcatProperties
  <2> QED BY <1>4, <2>1, <2>2, <2>3
<1>5. o \in Seq(BucketRecord) /\ Len(o) = Len(bs) - 1 /\ DOMAIN o = 1..Len(bs) - 1
  BY <1>1, <1>2, <1>3, <1>4a
<1>6. \A k \in 1..i - 1 : o[k] = bs[k]
  BY <1>1, <1>2, <1>3, <1>4a
<1>7. ASSUME NEW k \in i..Len(bs) - 1 PROVE o[k] = bs[k + 1]
  <2>0. /\ k \in 1..Len(p) + Len(q) /\ ~(k <= Len(p)) /\ k - Len(p) = k - (i - 1)
        /\ k - (i - 1) \in 1..Len(bs) - i
    BY <1>1, <1>2, <1>3
  <2>1. o[k] = q[k - (i - 1)] /\ k - (i - 1) \in 1..Len(bs) - i
    BY <1>4a, <2>0
  <2>2. q[k - (i - 1)] = bs[(k - (i - 1)) + i]
    BY <1>3, <2>1
  <2> QED BY <1>1, <2>1, <2>2
<1>8. Distinct(o)
  <2> DEFINE place(k) == IF k < i THEN k ELSE k + 1
  <2>1. \A k \in DOMAIN o : place(k) \in DOMAIN bs /\ o[k] = bs[place(k)]
    BY <1>1, <1>5, <1>6, <1>7
  <2>2. \A k, m \in DOMAIN o : place(k) = place(m) => k = m
    BY <1>1, <1>5
  <2> HIDE DEF place
  <2> QED BY <2>1, <2>2 DEF Distinct
<1>9. ASSUME NEW k \in DOMAIN o
      PROVE  o[k].key # bs[i].key /\ \E m \in DOMAIN bs : o[k] = bs[m]
  <2>1. CASE k < i
    BY <1>1, <1>5, <1>6, <2>1 DEF Distinct
  <2>2. CASE k >= i
    <3>1. k + 1 \in DOMAIN bs /\ k + 1 # i /\ o[k] = bs[k + 1]
      BY <1>1, <1>5, <1>7, <2>2
    <3> QED BY <3>1 DEF Distinct
  <2> QED BY <1>1, <1>5, <2>1, <2>2
<1>10. ASSUME NEW m \in DOMAIN bs, bs[m].key # bs[i].key
       PROVE  \E k \in DOMAIN o : o[k] = bs[m]
  <2>1. CASE m < i
    BY <1>1, <1>5, <1>6, <2>1
  <2>2. CASE m > i
    <3>1. m - 1 \in DOMAIN o /\ o[m - 1] = bs[m]
      BY <1>1, <1>5, <1>7, <2>2
    <3> QED BY <3>1
  <2> QED BY <1>1, <1>10, <2>1, <2>2
<1> QED BY <1>5, <1>8, <1>9, <1>10 DEF Rest

LEMMA NothingToRemove ==
  ASSUME NEW bs \in Seq(BucketRecord), Distinct(bs), NEW key, \A i \in DOMAIN bs : bs[i].key # key
  PROVE  Rest(bs, bs, key)
  BY DEF Rest

(* The table nb is bs with used in place of its bucket, and nobody in gone. *)
Replaced(bs, nb, used, gone) ==
  /\ nb \in Seq(BucketRecord) /\ Distinct(nb)
  /\ used.key \notin gone /\ \E k \in DOMAIN nb : nb[k] = used
  /\ \A k \in DOMAIN nb :
       \/ nb[k] = used
       \/ nb[k].key # used.key /\ nb[k].key \notin gone /\ \E m \in DOMAIN bs : nb[k] = bs[m]
  /\ \A m \in DOMAIN bs :
       bs[m].key # used.key /\ bs[m].key \notin gone => \E k \in DOMAIN nb : nb[k] = bs[m]

LEMMA AppendReplaces ==
  ASSUME NEW bs, NEW o, NEW used \in BucketRecord, Rest(bs, o, used.key),
         NEW nb, nb = Append(o, used)
  PROVE  Replaced(bs, nb, used, {})
<1>1. o \in Seq(BucketRecord) /\ Len(o) \in Nat /\ DOMAIN o = 1..Len(o)
  BY DEF Rest
<1>2. nb \in Seq(BucketRecord) /\ Len(nb) = Len(o) + 1 /\ DOMAIN nb = 1..Len(o) + 1
  BY <1>1
<1>3. nb[Len(o) + 1] = used /\ \A k \in 1..Len(o) : nb[k] = o[k]
  BY <1>1
<1>4. Distinct(nb)
  BY <1>1, <1>2, <1>3 DEF Rest, Distinct
<1>5. ASSUME NEW k \in DOMAIN nb
      PROVE  nb[k] = used \/ (nb[k].key # used.key /\ \E m \in DOMAIN bs : nb[k] = bs[m])
  BY <1>1, <1>2, <1>3 DEF Rest
<1>6. ASSUME NEW m \in DOMAIN bs, bs[m].key # used.key
      PROVE  \E k \in DOMAIN nb : nb[k] = bs[m]
  <2>1. PICK k \in DOMAIN o : o[k] = bs[m]
    BY <1>6 DEF Rest
  <2>2. k \in DOMAIN nb /\ nb[k] = bs[m]
    BY <1>1, <1>2, <1>3, <2>1
  <2> QED BY <2>2
<1>7. \E k \in DOMAIN nb : nb[k] = used
  BY <1>1, <1>2, <1>3
<1> QED BY <1>2, <1>4, <1>5, <1>6, <1>7 DEF Replaced

LEMMA TailReplaces ==
  ASSUME NEW bs, NEW o, NEW used \in BucketRecord, Rest(bs, o, used.key),
         NEW kept, kept = Append(o, used), Len(kept) > 1, NEW nb, nb = Tail(kept)
  PROVE  /\ Replaced(bs, nb, used, {Head(kept).key})
         /\ Head(kept).key # used.key /\ Head(kept).key \in Clients
<1>1. /\ o \in Seq(BucketRecord) /\ Len(o) \in Nat /\ DOMAIN o = 1..Len(o)
      /\ Len(kept) = Len(o) + 1 /\ kept \in Seq(BucketRecord)
  BY DEF Rest
<1>2. Len(o) >= 1 /\ 1 \in DOMAIN o
  BY <1>1
<1>3. kept[Len(o) + 1] = used /\ \A k \in 1..Len(o) : kept[k] = o[k]
  BY <1>1
<1>4. Head(kept) = o[1]
  BY <1>1, <1>2, <1>3
<1>5. nb \in Seq(BucketRecord) /\ Len(nb) = Len(o) /\ DOMAIN nb = 1..Len(o)
  BY <1>1, <1>2
<1>6. \A k \in 1..Len(o) : nb[k] = kept[k + 1]
  BY <1>1, <1>2
<1>7. nb[Len(o)] = used
  BY <1>1, <1>2, <1>3, <1>6
<1>8. \A k \in 1..Len(o) - 1 : nb[k] = o[k + 1]
  BY <1>1, <1>2, <1>3, <1>6
<1>9. \A k \in 1..Len(o) - 1 : k + 1 \in DOMAIN o /\ k + 1 # 1
  BY <1>1
<1>10. Distinct(nb)
  BY <1>1, <1>5, <1>7, <1>8, <1>9 DEF Rest, Distinct
<1>11. o[1].key # used.key /\ o[1].key \in Clients
  <2>1. o[1] \in BucketRecord
    BY <1>1, <1>2
  <2>2. o[1].key # used.key
    BY <1>2 DEF Rest
  <2> QED BY <2>1, <2>2 DEF BucketRecord
<1>12. ASSUME NEW k \in DOMAIN nb
       PROVE  \/ nb[k] = used
              \/ nb[k].key # used.key /\ nb[k].key # o[1].key /\ \E m \in DOMAIN bs : nb[k] = bs[m]
  <2>1. CASE k = Len(o)
    BY <1>7, <2>1
  <2>2. CASE k \in 1..Len(o) - 1
    BY <1>2, <1>8, <1>9, <2>2 DEF Rest, Distinct
  <2> QED BY <1>1, <1>5, <2>1, <2>2
<1>13. ASSUME NEW m \in DOMAIN bs, bs[m].key # used.key, bs[m].key # o[1].key
       PROVE  \E k \in DOMAIN nb : nb[k] = bs[m]
  <2>1. PICK k \in DOMAIN o : o[k] = bs[m]
    BY <1>13 DEF Rest
  <2>2. k # 1
    BY <1>13, <2>1
  <2>3. k - 1 \in DOMAIN nb /\ nb[k - 1] = bs[m]
    BY <1>1, <1>5, <1>8, <2>1, <2>2
  <2> QED BY <2>3
<1>14. \E k \in DOMAIN nb : nb[k] = used
  BY <1>2, <1>5, <1>7
<1>15. used.key \notin {Head(kept).key}
  BY <1>4, <1>11
<1>16. \A k \in DOMAIN nb :
         \/ nb[k] = used
         \/ nb[k].key # used.key /\ nb[k].key \notin {Head(kept).key} /\ \E m \in DOMAIN bs : nb[k] = bs[m]
  BY <1>4, <1>12
<1>17. \A m \in DOMAIN bs : bs[m].key # used.key /\ bs[m].key \notin {Head(kept).key} =>
          \E k \in DOMAIN nb : nb[k] = bs[m]
  BY <1>4, <1>13
<1>18. Replaced(bs, nb, used, {Head(kept).key})
  BY ONLY <1>5, <1>10, <1>14, <1>15, <1>16, <1>17 DEF Replaced
<1> QED BY <1>4, <1>11, <1>18

(* Who finds what in the new table. *)
LEMMA ReplacedLookups ==
  ASSUME NEW bs, Distinct(bs), NEW nb, NEW used, NEW gone, NEW when, Replaced(bs, nb, used, gone)
  PROVE  /\ BucketIn(nb, when, used.key) = used
         /\ \A c : c # used.key /\ c \notin gone => BucketIn(nb, when, c) = BucketIn(bs, when, c)
         /\ \A c \in gone : BucketIn(nb, when, c) = Fresh(c, when)
<1>1. Distinct(nb)
  BY DEF Replaced
<1>2. BucketIn(nb, when, used.key) = used
  <2>1. PICK k \in DOMAIN nb : nb[k] = used
    BY DEF Replaced
  <2> QED BY <1>1, <2>1, InFound
<1>3. ASSUME NEW c, c # used.key, c \notin gone
      PROVE  BucketIn(nb, when, c) = BucketIn(bs, when, c)
  <2>1. CASE \E m \in DOMAIN bs : bs[m].key = c
    <3>1. PICK m \in DOMAIN bs : bs[m].key = c
      BY <2>1
    <3>2. PICK k \in DOMAIN nb : nb[k] = bs[m]
      BY <1>3, <3>1 DEF Replaced
    <3>3. BucketIn(bs, when, c) = bs[m]
      BY <3>1, InFound
    <3>4. BucketIn(nb, when, c) = nb[k]
      BY <1>1, <3>1, <3>2, InFound
    <3> QED BY <3>2, <3>3, <3>4
  <2>2. CASE \A m \in DOMAIN bs : bs[m].key # c
    <3>1. \A k \in DOMAIN nb : nb[k].key # c
      BY <1>3, <2>2 DEF Replaced
    <3> QED BY <2>2, <3>1, InNone
  <2> QED BY <2>1, <2>2
<1>4. ASSUME NEW c \in gone
      PROVE  BucketIn(nb, when, c) = Fresh(c, when)
  <2>1. \A k \in DOMAIN nb : nb[k].key # c
    BY DEF Replaced
  <2> QED BY <2>1, InNone
<1> QED BY <1>2, <1>3, <1>4

-----------------------------------------------------------------------------
(* The limiter. *)

LEMMA EntryGrows ==
  ASSUME NEW d \in Seq(Decision), NEW x \in Decision, \A i \in DOMAIN d : d[i].at <= x.at,
         NEW e, e = d \o <<x>>
  PROVE  e \in Seq(Decision) /\ Grows(d, e, x)
<1>1. Len(d) \in Nat /\ DOMAIN d = 1..Len(d)
  OBVIOUS
<1>2. e \in Seq(Decision) /\ Len(e) = Len(d) + 1 /\ DOMAIN e = 1..Len(e)
  OBVIOUS
<1>3. e[Len(e)] = x /\ \A k \in 1..Len(d) : e[k] = d[k]
  BY <1>1, <1>2
<1>4. \A y \in Decision : y.at \in Nat
  BY DEF Decision
<1>5. ASSUME NEW k \in 1..Len(e) PROVE e[k].at \in Nat /\ e[k].at <= x.at
  <2>1. e[k] \in Decision
    BY <1>2
  <2>2. CASE k = Len(e)
    BY <1>3, <1>4, <2>2
  <2>3. CASE k \in 1..Len(d)
    BY <1>1, <1>3, <1>4, <2>1, <2>3
  <2> QED BY <1>1, <1>2, <2>2, <2>3
<1> QED BY <1>1, <1>2, <1>3, <1>4, <1>5 DEF Grows

(* Every client's account is in order, in a history and a table. *)
Accounts(d, bs, when) ==
  \A c \in Clients : /\ AtRate(c, d)
                     /\ Earned(c, d, BucketIn(bs, when, c).tokens, BucketIn(bs, when, c).last)

TableOK(bs, when) ==
  /\ bs \in Seq(BucketRecord) /\ Distinct(bs)
  /\ \A i \in DOMAIN bs : bs[i].last <= when

HistoryOK(d, when) == d \in Seq(Decision) /\ \A i \in DOMAIN d : d[i].at <= when

LEMMA StampsNat ==
  ASSUME NEW d, NEW when, HistoryOK(d, when)
  PROVE  Len(d) \in Nat /\ \A i \in 1..Len(d) : d[i].at \in Nat
<1>1. Len(d) \in Nat /\ \A i \in 1..Len(d) : d[i] \in Decision
  BY DEF HistoryOK
<1>2. \A y \in Decision : y.at \in Nat
  BY DEF Decision
<1> QED BY <1>1, <1>2

LEMMA InvParts ==
  RateInv <=> /\ now \in Nat /\ TableOK(buckets, now) /\ HistoryOK(decided, now)
              /\ Accounts(decided, buckets, now)
<1>1. \A c : Bucket(c) = BucketIn(buckets, now, c)
  BY DEF Bucket, Known, Place, BucketIn, Fresh
<1>2. AllEarned /\ AdmittedAtRate <=> Accounts(decided, buckets, now)
  BY <1>1 DEF AllEarned, AdmittedAtRate, Accounts
<1> QED BY <1>2 DEF RateInv, RateTypeOK, OneBucketEach, NotAhead, TableOK, HistoryOK, Distinct

LEMMA InvPartsNext ==
  RateInv' <=> /\ now' \in Nat /\ TableOK(buckets', now') /\ HistoryOK(decided', now')
               /\ Accounts(decided', buckets', now')
<1>1. \A c : Bucket(c)' = BucketIn(buckets', now', c)
  BY DEF Bucket, Known, Place, BucketIn, Fresh
<1>2. AllEarned' /\ AdmittedAtRate' <=> Accounts(decided', buckets', now')
  BY <1>1 DEF AllEarned, AdmittedAtRate, Accounts
<1> QED BY <1>2 DEF RateInv, RateTypeOK, OneBucketEach, NotAhead, TableOK, HistoryOK, Distinct

LEMMA RateInitial == RateInit => RateInv
<1> SUFFICES ASSUME RateInit PROVE RateInv
  OBVIOUS
<1>1. now = 0 /\ buckets = <<>> /\ decided = <<>>
  BY DEF RateInit
<1>2. TableOK(buckets, now) /\ HistoryOK(decided, now)
  BY <1>1 DEF TableOK, HistoryOK, Distinct
<1>3. ASSUME NEW c \in Clients
      PROVE  /\ AtRate(c, decided)
             /\ Earned(c, decided, BucketIn(buckets, now, c).tokens, BucketIn(buckets, now, c).last)
  <2>1. BucketIn(buckets, now, c) = Fresh(c, now)
    BY <1>1, InNone
  <2>2. Since("admitted", c, decided, 1) = 0
    <3>1. Len(decided) \in Int /\ Len(decided) < 1
      BY <1>1
    <3> QED BY <3>1, TimesNone DEF Since
  <2>3. Earned(c, decided, Burst, now)
    BY <1>1, <2>2, RateConstants DEF Earned
  <2>4. AtRate(c, decided)
    BY <1>1 DEF AtRate
  <2> QED BY <2>1, <2>3, <2>4 DEF Fresh
<1> QED BY <1>1, <1>2, <1>3, InvParts DEF Accounts

LEMMA TickKeeps == RateInv /\ RateTick => RateInv'
<1> SUFFICES ASSUME RateInv, RateTick PROVE RateInv'
  OBVIOUS
<1>1. now \in Nat /\ TableOK(buckets, now) /\ HistoryOK(decided, now) /\ Accounts(decided, buckets, now)
  BY InvParts
<1>2. now' = now + 1 /\ buckets' = buckets /\ decided' = decided
  BY DEF RateTick
<1>3. now' \in Nat /\ TableOK(buckets, now') /\ HistoryOK(decided, now')
  <2>1. \A b \in BucketRecord : b.last \in Nat
    BY DEF BucketRecord
  <2>2. \A y \in Decision : y.at \in Nat
    BY DEF Decision
  <2> QED BY <1>1, <1>2, <2>1, <2>2 DEF TableOK, HistoryOK
<1>4. ASSUME NEW c \in Clients
      PROVE  Earned(c, decided, BucketIn(buckets, now', c).tokens, BucketIn(buckets, now', c).last)
  <2>1. Earned(c, decided, BucketIn(buckets, now, c).tokens, BucketIn(buckets, now, c).last)
    BY <1>1 DEF Accounts
  <2>2. CASE \E i \in DOMAIN buckets : buckets[i].key = c
    BY <2>1, <2>2, InFound, <1>1 DEF TableOK
  <2>3. CASE \A i \in DOMAIN buckets : buckets[i].key # c
    <3>1. Earned(c, decided, Burst, now)
      BY <2>1, <2>3, InNone DEF Fresh
    <3>2. Len(decided) \in Nat /\ \A i \in 1..Len(decided) : decided[i].at \in Nat
      BY <1>1, StampsNat
    <3>3. Burst = IF Burst + Earns(now' - now) > Burst THEN Burst ELSE Burst + Earns(now' - now)
      <4>1. now' - now \in Int /\ now' - now >= 0
        BY <1>1, <1>2
      <4>2. Earns(now' - now) \in Int /\ Earns(now' - now) >= 0
        BY <4>1, EarnsInt
      <4> QED BY <4>2, RateConstants
    <3>4. Burst \in 0..Burst /\ now <= now'
      BY <1>1, <1>2, RateConstants
    <3>5. Earned(c, decided, Burst, now')
      BY <1>1, <1>3, <3>1, <3>2, <3>3, <3>4, EarnedRefilled
    <3> QED BY <2>3, <3>5, InNone DEF Fresh
  <2> QED BY <2>2, <2>3
<1> QED BY <1>1, <1>2, <1>3, <1>4, InvPartsNext DEF Accounts

(* One decision, on the client key at the time t, whose bucket becomes used. *)
LEMMA DecisionKeeps ==
  ASSUME NEW d, NEW e, NEW x, Grows(d, e, x), NEW c, AtRate(c, d),
         NEW t \in 0..Burst, Earned(c, d, t, x.at), x.client = c,
         x.what = IF t >= 1 THEN "admitted" ELSE "refused",
         NEW u, u = IF t >= 1 THEN t - 1 ELSE t
  PROVE  u \in 0..Burst /\ Earned(c, e, u, x.at) /\ AtRate(c, e)
<1>0. x.at \in Nat /\ u \in 0..Burst
  BY RateConstants DEF Grows
<1>1. CASE t >= 1
  <2>1. t \in 1..Burst
    BY <1>1
  <2>2. Earned(c, e, t - 1, x.at)
    BY <1>1, <2>1, EarnedAdmitted
  <2> QED BY <1>0, <1>1, <2>2, EarnedAtRate
<1>2. CASE t = 0
  <2>1. Earned(c, e, t, x.at)
    BY <1>0, <1>2, EarnedOther
  <2> QED BY <1>0, <1>2, <2>1, EarnedAtRate
<1> QED BY <1>1, <1>2, RateConstants

LEMMA AllowKeeps ==
  ASSUME RateInv, NEW key \in Clients, Allow(key)
  PROVE  RateInv'
<1>1. now \in Nat /\ TableOK(buckets, now) /\ HistoryOK(decided, now) /\ Accounts(decided, buckets, now)
  BY InvParts
<1> DEFINE others == IF Known(key) THEN RemoveAt(buckets, Place(key)) ELSE buckets
           used   == Used(key)
           kept   == Append(others, used)
           t      == Refilled(Bucket(key))
           x      == [client |-> key, at |-> now, what |-> IF t >= 1 THEN "admitted" ELSE "refused"]
           e      == decided \o <<x>>
           y      == [client |-> Head(kept).key, at |-> now, what |-> "evicted"]
<1>2. now' = now
  BY DEF Allow
<1>3. Bucket(key) = BucketIn(buckets, now, key)
  BY DEF Bucket, Known, Place, BucketIn, Fresh
<1>4. /\ Earned(key, decided, t, now) /\ t \in 0..Burst
  <2> DEFINE b == Bucket(key)
  <2>1. b.key = key /\ b.tokens \in 0..Burst /\ b.last \in Nat /\ b.last <= now
    BY <1>1, <1>3, InTyped DEF TableOK
  <2>2. Earned(key, decided, b.tokens, b.last)
    BY <1>1, <1>3 DEF Accounts
  <2>3. Len(decided) \in Nat /\ \A i \in 1..Len(decided) : decided[i].at \in Nat
    BY <1>1, StampsNat
  <2>4. t = IF b.tokens + Earns(now - b.last) > Burst THEN Burst ELSE b.tokens + Earns(now - b.last)
    BY DEF Refilled
  <2> HIDE DEF b, t
  <2> QED BY <1>1, <2>1, <2>2, <2>3, <2>4, EarnedRefilled
<1>5. used.key = key /\ used.last = now /\ used.tokens = IF t >= 1 THEN t - 1 ELSE t
  BY DEF Used
<1>6. used \in BucketRecord
  <2>1. used = [key |-> key, tokens |-> IF t >= 1 THEN t - 1 ELSE t, last |-> now]
    BY DEF Used
  <2>2. (IF t >= 1 THEN t - 1 ELSE t) \in 0..Burst
    BY <1>4, RateConstants
  <2> HIDE DEF used, t
  <2> QED BY <1>1, <2>1, <2>2 DEF BucketRecord
<1>7. Rest(buckets, others, key)
  <2>1. CASE Known(key)
    <3>1. Place(key) \in DOMAIN buckets /\ buckets[Place(key)].key = key
      BY <2>1 DEF Known, Place
    <3> QED BY <1>1, <2>1, <3>1, RemovalLeavesRest DEF TableOK
  <2>2. CASE ~Known(key)
    BY <1>1, <2>2, NothingToRemove DEF TableOK, Known
  <2> QED BY <2>1, <2>2
<1>8. x \in Decision /\ x.client = key /\ x.at = now
      /\ x.what = IF t >= 1 THEN "admitted" ELSE "refused"
  BY <1>1 DEF Decision
<1>9. \/ Len(kept) <= MaxBuckets /\ buckets' = kept /\ decided' = e
      \/ Len(kept) > MaxBuckets /\ buckets' = Tail(kept) /\ decided' = e \o <<y>>
  <2>1. Len(kept) \in Nat /\ MaxBuckets \in Nat
    <3> HIDE DEF others, used
    <3> QED BY <1>6, <1>7, RateConstants DEF Rest
  <2>2. e \in Seq(Decision)
    <3> HIDE DEF x
    <3> QED BY <1>1, <1>8 DEF HistoryOK
  <2>3. e \o <<>> = e
    <3> HIDE DEF e
    <3> QED BY <2>2
  <2>4. CASE Len(kept) > MaxBuckets
    <3>1. buckets' = Tail(kept) /\ decided' = e \o <<y>>
      BY <2>4 DEF Allow
    <3> QED BY <2>4, <3>1
  <2>5. CASE ~(Len(kept) > MaxBuckets)
    <3>1. buckets' = kept /\ decided' = e \o <<>>
      BY <2>5 DEF Allow
    <3>2. Len(kept) <= MaxBuckets
      BY <2>1, <2>5
    <3> QED BY <2>3, <3>1, <3>2
  <2> QED BY <2>4, <2>5
<1> HIDE DEF others, used, kept, t, x, e, y
<1>10. e \in Seq(Decision) /\ Grows(decided, e, x)
  BY <1>1, <1>8, EntryGrows DEF e, HistoryOK
<1>11. /\ used.tokens \in 0..Burst
       /\ Earned(key, e, used.tokens, used.last) /\ AtRate(key, e)
  <2>1. AtRate(key, decided)
    BY <1>1 DEF Accounts
  <2> QED BY <1>4, <1>5, <1>8, <1>10, <2>1, DecisionKeeps
<1>12. ASSUME NEW c \in Clients, c # key
       PROVE  LET b == BucketIn(buckets, now, c) IN
              /\ b.tokens \in 0..Burst /\ b.last \in Nat /\ b.last <= now
              /\ Earned(c, e, b.tokens, b.last) /\ AtRate(c, e)
  <2> DEFINE b == BucketIn(buckets, now, c)
  <2>1. b.tokens \in 0..Burst /\ b.last \in Nat /\ b.last <= now
    BY <1>1, InTyped DEF TableOK
  <2>2. Earned(c, decided, b.tokens, b.last) /\ AtRate(c, decided)
    BY <1>1 DEF Accounts
  <2> HIDE DEF b
  <2>3. Earned(c, e, b.tokens, b.last)
    BY <1>8, <1>10, <1>12, <2>1, <2>2, EarnedOther
  <2>4. AtRate(c, e)
    BY <1>8, <1>10, <1>12, <2>1, <2>2, <2>3, EarnedAtRate
  <2> QED BY <2>1, <2>3, <2>4 DEF b
<1>13. ASSUME NEW bs, NEW gone, Replaced(buckets, bs, used, gone)
       PROVE  TableOK(bs, now)
  BY <1>1, <1>5, <1>13 DEF TableOK, Replaced
<1>14. HistoryOK(e, now)
  BY <1>8, <1>10 DEF HistoryOK, Grows
<1>15. CASE Len(kept) <= MaxBuckets /\ buckets' = kept /\ decided' = e
  <2>1. Replaced(buckets, kept, used, {})
    BY <1>5, <1>6, <1>7, AppendReplaces DEF kept
  <2>2. ASSUME NEW c \in Clients
        PROVE  /\ AtRate(c, e)
               /\ Earned(c, e, BucketIn(kept, now, c).tokens, BucketIn(kept, now, c).last)
    <3>1. CASE c = key
      <4>1. BucketIn(kept, now, key) = used
        BY <1>1, <1>5, <2>1, ReplacedLookups DEF TableOK
      <4> QED BY <1>11, <3>1, <4>1
    <3>2. CASE c # key
      <4>1. BucketIn(kept, now, c) = BucketIn(buckets, now, c)
        BY <1>1, <1>5, <2>1, <3>2, ReplacedLookups DEF TableOK
      <4> QED BY <1>12, <3>2, <4>1
    <3> QED BY <3>1, <3>2
  <2> QED BY <1>1, <1>2, <1>13, <1>14, <1>15, <2>1, <2>2, InvPartsNext DEF Accounts
<1>16. CASE Len(kept) > MaxBuckets /\ buckets' = Tail(kept) /\ decided' = e \o <<y>>
  <2> DEFINE v  == Head(kept).key
             f  == e \o <<y>>
             bs == Tail(kept)
  <2>1. Len(kept) > 1
    <3>1. Len(kept) \in Nat
      BY <1>6, <1>7 DEF Rest, kept
    <3> QED BY <1>16, <3>1, RateConstants
  <2>2. Replaced(buckets, bs, used, {v}) /\ v # key /\ v \in Clients
    BY <1>5, <1>6, <1>7, <2>1, TailReplaces DEF kept
  <2>3. y \in Decision /\ y.client = v /\ y.at = now /\ y.what = "evicted"
    BY <1>1, <2>2 DEF y, Decision
  <2> HIDE DEF v, bs
  <2>4. f \in Seq(Decision) /\ Grows(e, f, y)
    BY <1>10, <1>14, <2>3, EntryGrows DEF HistoryOK
  <2> HIDE DEF f
  <2>5. HistoryOK(f, now)
    BY <2>3, <2>4 DEF HistoryOK, Grows
  <2>6. ASSUME NEW c \in Clients
        PROVE  /\ AtRate(c, f)
               /\ Earned(c, f, BucketIn(bs, now, c).tokens, BucketIn(bs, now, c).last)
    <3>1. CASE c = key
      <4>1. BucketIn(bs, now, key) = used
        BY <1>1, <1>5, <2>2, ReplacedLookups DEF TableOK
      <4>2. Earned(key, f, used.tokens, used.last)
        BY <1>1, <1>5, <1>11, <2>3, <2>4, EarnedOther
      <4>3. AtRate(key, f)
        BY <1>1, <1>5, <1>11, <2>3, <2>4, <4>2, EarnedAtRate
      <4> QED BY <3>1, <4>1, <4>2, <4>3
    <3>2. CASE c # key /\ c # v
      <4> DEFINE b == BucketIn(buckets, now, c)
      <4>1. BucketIn(bs, now, c) = b
        BY <1>1, <1>5, <2>2, <3>2, ReplacedLookups DEF TableOK
      <4>2. /\ b.tokens \in 0..Burst /\ b.last \in Nat /\ b.last <= now
            /\ Earned(c, e, b.tokens, b.last) /\ AtRate(c, e)
        BY <1>12, <3>2
      <4> HIDE DEF b
      <4>3. Earned(c, f, b.tokens, b.last)
        BY <2>3, <2>4, <3>2, <4>2, EarnedOther
      <4>4. AtRate(c, f)
        BY <2>3, <2>4, <4>2, <4>3, EarnedAtRate
      <4> QED BY <4>1, <4>3, <4>4
    <3>3. CASE c = v
      <4> DEFINE b == BucketIn(buckets, now, c)
      <4>1. BucketIn(bs, now, c) = Fresh(c, now)
        BY <1>1, <2>2, <3>3, ReplacedLookups DEF TableOK
      <4>2. /\ b.tokens \in 0..Burst /\ b.last \in Nat /\ b.last <= now
            /\ Earned(c, e, b.tokens, b.last) /\ AtRate(c, e)
        BY <1>12, <2>2, <3>3
      <4> HIDE DEF b
      <4>3. Earned(c, f, Burst, now)
        BY <2>3, <2>4, <3>3, <4>2, EarnedEvicted
      <4>4. AtRate(c, f)
        BY <1>1, <2>3, <2>4, <4>2, <4>3, EarnedAtRate, RateConstants
      <4> QED BY <4>1, <4>3, <4>4 DEF Fresh
    <3> QED BY <3>1, <3>2, <3>3
  <2>7. buckets' = bs /\ decided' = f
    BY <1>16 DEF bs, f
  <2> QED BY <1>1, <1>2, <1>13, <2>2, <2>5, <2>6, <2>7, InvPartsNext DEF Accounts
<1> QED BY <1>9, <1>15, <1>16

LEMMA RateStep == RateInv /\ [RateNext]_rateVars => RateInv'
<1> SUFFICES ASSUME RateInv, [RateNext]_rateVars PROVE RateInv'
  OBVIOUS
<1>1. CASE UNCHANGED rateVars
  <2>1. now' = now /\ buckets' = buckets /\ decided' = decided
    BY <1>1 DEF rateVars
  <2> QED BY <2>1, InvParts, InvPartsNext
<1> QED BY <1>1, TickKeeps, AllowKeeps DEF RateNext

(* For every burst, rate and size of the table, whatever the order of      *)
(* requests, _allow admits a client in any stretch of time at most its     *)
(* bursts and what the rate earns, and refuses it only when they are used. *)
THEOREM AdmittedAtRateHolds == RateSpec => []AdmittedAtRate
<1>1. RateInv => AdmittedAtRate
  BY DEF RateInv
<1> QED BY RateInitial, RateStep, <1>1, PTL DEF RateSpec

=============================================================================
