--------------------------- MODULE CachedReadiness ---------------------------
(***************************************************************************)
(* The readiness answer of /readyz (server/http_middleware.py,             *)
(* CachedReadiness): the session manager's has_capacity, memoised for a    *)
(* short time.  Probes read the stamp, the clock and the value one after  *)
(* the other with no lock; a caller that finds the value stale takes the   *)
(* lock, looks again and computes it, the value first and its stamp after. *)
(* Every step is an action, so that callers of a threaded server           *)
(* interleave at every step; has_capacity may take time (it takes the      *)
(* session manager's lock).  A value is the number of the predicate call   *)
(* it came from; 0 is the "not ready" the cache starts with.               *)
(***************************************************************************)
EXTENDS Integers, Sequences

CONSTANTS
  Probes,
  Ttl,         \* readiness_cache_ttl_s
  LastTime     \* bound: the clock

ASSUME ReadinessConstants ==
  Ttl \in Nat \ {0} /\ LastTime \in Nat /\ "none" \notin Probes

Never == -1   \* _computed_at = None

VARIABLES
  time,
  value,      \* _value
  stamp,      \* _computed_at
  holder,     \* the caller that holds _lock, or "none"
  caller,     \* per caller: where it is, the stamp it saw, its result
  asked,      \* history: the time of every predicate call
  stamped     \* history: the time every call's value was stamped

readyVars == <<time, value, stamp, holder, caller, asked, stamped>>

ReadyIdle ==
  /\ time = 0 /\ value = 0 /\ stamp = Never /\ holder = "none"
  /\ caller = [c \in Probes |-> [at |-> "idle", seen |-> Never, checked |-> 0, result |-> 0]]
  /\ asked = <<>> /\ stamped = <<>>

ReadyInit == ReadyIdle

IsFresh(computedAt) == computedAt # Never /\ time - computedAt < Ttl

ReadyTick ==
  /\ time < LastTime
  /\ time' = time + 1
  /\ UNCHANGED <<value, stamp, holder, caller, asked, stamped>>

At(c, place) == caller[c].at = place

(* The stamp is read, as the argument of _is_fresh. *)
Look(c) ==
  /\ At(c, "idle")
  /\ caller' = [caller EXCEPT ![c] = [@ EXCEPT !.at = "look", !.seen = stamp]]
  /\ UNCHANGED <<time, value, stamp, holder, asked, stamped>>

(* Then the clock. *)
CheckClock(c) ==
  /\ At(c, "look")
  /\ caller' = [caller EXCEPT ![c] = [@ EXCEPT !.at = IF IsFresh(caller[c].seen) THEN "read" ELSE "wait",
                                              !.checked = time]]
  /\ UNCHANGED <<time, value, stamp, holder, asked, stamped>>

(* Then, if it was fresh, the value. *)
ReadValue(c) ==
  /\ At(c, "read")
  /\ caller' = [caller EXCEPT ![c] = [@ EXCEPT !.at = "answer", !.result = value]]
  /\ UNCHANGED <<time, value, stamp, holder, asked, stamped>>

(* Mutant: a caller that got the lock computes without looking again. *)
LockAndTrust(c) ==
  /\ At(c, "wait") /\ holder = "none"
  /\ holder' = c
  /\ caller' = [caller EXCEPT ![c] = [@ EXCEPT !.at = "predicate"]]
  /\ UNCHANGED <<time, value, stamp, asked, stamped>>

(* The lock, and the second look under it: nobody else writes meanwhile. *)
LockAndCheck(c) ==
  /\ At(c, "wait") /\ holder = "none"
  /\ IF IsFresh(stamp)
     THEN /\ caller' = [caller EXCEPT ![c] = [@ EXCEPT !.at = "answer", !.result = value,
                                                       !.checked = time]]
          /\ UNCHANGED holder
     ELSE /\ holder' = c
          /\ caller' = [caller EXCEPT ![c] = [@ EXCEPT !.at = "predicate"]]
  /\ UNCHANGED <<time, value, stamp, asked, stamped>>

(* has_capacity is called, and returns later. *)
CallPredicate(c) ==
  /\ At(c, "predicate")
  /\ asked' = Append(asked, time)
  /\ caller' = [caller EXCEPT ![c].at = "computing"]
  /\ UNCHANGED <<time, value, stamp, holder, stamped>>

StoreValue(c) ==
  /\ At(c, "computing")
  /\ value' = Len(asked)
  /\ caller' = [caller EXCEPT ![c] = [@ EXCEPT !.at = "stored", !.result = Len(asked)]]
  /\ UNCHANGED <<time, stamp, holder, asked, stamped>>

(* The stamp is of the time the value was stored; the lock is released. *)
StoreStamp(c) ==
  /\ At(c, "stored")
  /\ stamp' = time
  /\ stamped' = Append(stamped, time)
  /\ holder' = "none"
  /\ caller' = [caller EXCEPT ![c] = [@ EXCEPT !.at = "answer", !.checked = time]]
  /\ UNCHANGED <<time, value, asked>>

(* The answer is sent and the caller asks again. *)
Answered(c) ==
  /\ At(c, "answer")
  /\ caller' = [caller EXCEPT ![c] = [at |-> "idle", seen |-> Never, checked |-> 0, result |-> 0]]
  /\ UNCHANGED <<time, value, stamp, holder, asked, stamped>>

ReadyNext ==
  \/ ReadyTick
  \/ \E c \in Probes :
       \/ Look(c) \/ CheckClock(c) \/ ReadValue(c) \/ LockAndCheck(c) \/ CallPredicate(c)
       \/ StoreValue(c) \/ StoreStamp(c) \/ Answered(c)

ReadySpec == ReadyInit /\ [][ReadyNext]_readyVars

-----------------------------------------------------------------------------
(* "At most ONE call per window", and "a value up to ttl_s stale": however *)
(* many callers race, a predicate call starts at least Ttl after the one   *)
(* before it was stamped, and never while one is running; and no caller    *)
(* answers with the initial value or with one whose stamp was Ttl old when *)
(* the caller checked it.                                                  *)
ReadinessHonest ==
  /\ \A k \in 1 .. Len(asked) - 1 : k <= Len(stamped) /\ asked[k + 1] - stamped[k] >= Ttl
  /\ \A c \in Probes : At(c, "answer") =>
       /\ caller[c].result > 0
       /\ caller[c].result <= Len(stamped) => caller[c].checked < stamped[caller[c].result] + Ttl

-----------------------------------------------------------------------------
(* The inductive invariant. *)
Places == {"idle", "look", "read", "wait", "predicate", "computing", "stored", "answer"}

ReadyTypeOK ==
  /\ time \in Nat /\ value \in Nat
  /\ stamp \in Nat \cup {Never}
  /\ holder \in Probes \cup {"none"}
  /\ caller \in [Probes -> [at : Places, seen : Nat \cup {Never}, checked : Nat, result : Nat]]
  /\ asked \in Seq(Nat) /\ stamped \in Seq(Nat)

(* The lock is held by the one caller that computes. *)
HolderComputes ==
  \A c \in Probes : holder = c <=> caller[c].at \in {"predicate", "computing", "stored"}

(* How far the holder is says how far the value is ahead of its stamp. *)
StampDue == \E c \in Probes : caller[c].at \in {"computing", "stored"}

ValueAhead ==
  /\ Len(asked) = IF StampDue THEN Len(stamped) + 1 ELSE Len(stamped)
  /\ value = IF \E c \in Probes : At(c, "stored") THEN Len(stamped) + 1 ELSE Len(stamped)
  /\ \A c \in Probes : At(c, "stored") => caller[c].result = Len(stamped) + 1
  /\ \A c \in Probes : At(c, "predicate") => ~IsFresh(stamp)

(* Stamps are of the past and in order; the cache holds the last one. *)
StampsOrdered ==
  /\ stamp = IF Len(stamped) = 0 THEN Never ELSE stamped[Len(stamped)]
  /\ \A k \in 1 .. Len(stamped) : stamped[k] <= time
  /\ \A j, k \in 1 .. Len(stamped) : j <= k => stamped[j] <= stamped[k]

(* What a caller saw was once the stamp, fresh when it checked it; what it *)
(* answers was computed.                                                   *)
SeenStamped ==
  \A c \in Probes :
    /\ caller[c].checked <= time
    /\ caller[c].at \in {"look", "read"} /\ caller[c].seen # Never =>
         \E k \in 1 .. Len(stamped) : stamped[k] = caller[c].seen
    /\ At(c, "read") => caller[c].seen # Never /\ caller[c].checked < caller[c].seen + Ttl
    /\ At(c, "answer") => caller[c].result <= Len(asked)

ReadyInv ==
  /\ ReadyTypeOK
  /\ HolderComputes
  /\ ValueAhead
  /\ StampsOrdered
  /\ SeenStamped
  /\ ReadinessHonest

=============================================================================
