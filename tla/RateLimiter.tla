----------------------------- MODULE RateLimiter -----------------------------
(***************************************************************************)
(* The per-client token bucket of the HTTP transport                       *)
(* (server/http_middleware.py, RateLimitMiddleware).  _allow runs under    *)
(* its lock, so a decision is one action.  The buckets are an OrderedDict  *)
(* kept in order of use and bounded: a client beyond the bound pushes the  *)
(* least recently seen one out, who then starts over with a full bucket.   *)
(* Tokens are whole because the clock ticks in units of 1/rate.            *)
(***************************************************************************)
EXTENDS Integers, Sequences, FiniteSets, SequencesExt

CONSTANTS
  Clients,       \* client hosts
  MaxBuckets,    \* _MAX_RATE_LIMIT_BUCKETS
  Burst,         \* rate_burst
  Rate,          \* rate_per_second
  MaxTime,       \* bound: the clock
  MaxDecisions   \* bound: requests decided

ASSUME RateConstants ==
  /\ {MaxBuckets, Burst, Rate} \subseteq Nat \ {0}
  /\ {MaxTime, MaxDecisions} \subseteq Nat

VARIABLES
  now,       \* the injected clock
  buckets,   \* the buckets, least recently used first: key, tokens, last
  decided    \* history: what was decided, in order, and who was evicted

rateVars == <<now, buckets, decided>>

RateInit == now = 0 /\ buckets = <<>> /\ decided = <<>>

RateIdle == RateInit

RateTick ==
  /\ now < MaxTime
  /\ now' = now + 1
  /\ UNCHANGED <<buckets, decided>>

(* The client's bucket, or a full one. *)
Known(key) == \E i \in DOMAIN buckets : buckets[i].key = key
Place(key) == CHOOSE i \in DOMAIN buckets : buckets[i].key = key

Bucket(key) ==
  IF Known(key) THEN buckets[Place(key)] ELSE [key |-> key, tokens |-> Burst, last |-> now]

Earns(time) == Rate * time

(* Mutant: the refill is not held to the burst. *)
RefilledUnbounded(b) == b.tokens + Earns(now - b.last)

Refilled(b) ==
  LET tokens == b.tokens + Earns(now - b.last)
  IN IF tokens > Burst THEN Burst ELSE tokens

(* A token is spent if there is one. *)
Used(key) ==
  LET tokens == Refilled(Bucket(key))
  IN [key |-> key, tokens |-> IF tokens >= 1 THEN tokens - 1 ELSE tokens, last |-> now]

(* Refill, spend, move to the recent end, evict. *)
Allow(key) ==
  LET others == IF Known(key) THEN RemoveAt(buckets, Place(key)) ELSE buckets
      kept   == Append(others, Used(key))
      over   == Len(kept) > MaxBuckets
      what   == IF Refilled(Bucket(key)) >= 1 THEN "admitted" ELSE "refused"
  IN /\ Len(decided) < MaxDecisions
     /\ buckets' = IF over THEN Tail(kept) ELSE kept
     /\ decided' = decided \o <<[client |-> key, at |-> now, what |-> what]>>
                     \o IF over THEN <<[client |-> Head(kept).key, at |-> now, what |-> "evicted"]>>
                                ELSE <<>>
     /\ UNCHANGED now

RateNext == RateTick \/ \E key \in Clients : Allow(key)

RateSpec == RateInit /\ [][RateNext]_rateVars

-----------------------------------------------------------------------------
(* When a client met this decision in a history, from its i-th entry to    *)
(* its j-th, and how often.                                                *)
Met(what, c, history, i, j) == {k \in i..j : history[k].client = c /\ history[k].what = what}
Times(what, c, history, i, j) == Cardinality(Met(what, c, history, i, j))
Since(what, c, history, i) == Times(what, c, history, i, Len(history))

(* The bursts a client has, with one more for every eviction. *)
Bursts(evictions) == Burst * (1 + evictions)

AtRate(c, history) ==
  \A i, j \in DOMAIN history :
    /\ i <= j =>
         Times("admitted", c, history, i, j)
           <= Bursts(Times("evicted", c, history, i, j)) + Earns(history[j].at - history[i].at)
    /\ history[j].client = c /\ history[j].what = "refused" =>
         Times("admitted", c, history, 1, j) >= Burst

(* Whatever the order of requests and evictions, a client is admitted in   *)
(* any stretch of time at most its burst and what the rate earns in that   *)
(* time, plus another burst for every eviction of its bucket: waiting does *)
(* not save more than a burst, and no other client's traffic changes its   *)
(* bucket but by evicting it.  And a client refused has really used them.  *)
AdmittedAtRate == \A c \in Clients : AtRate(c, decided)

-----------------------------------------------------------------------------
(* The inductive invariant. *)

BucketRecord == [key : Clients, tokens : 0..Burst, last : Nat]
Decision     == [client : Clients, at : Nat, what : {"admitted", "refused", "evicted"}]

RateTypeOK == now \in Nat /\ buckets \in Seq(BucketRecord) /\ decided \in Seq(Decision)

(* One bucket per client; no time stamp is in the future. *)
OneBucketEach == \A i, j \in DOMAIN buckets : buckets[i].key = buckets[j].key => i = j
NotAhead ==
  /\ \A i \in DOMAIN buckets : buckets[i].last <= now
  /\ \A i \in DOMAIN decided : decided[i].at <= now

(* What a client was admitted since some decision and what is left in its  *)
(* bucket was earned by then; and what it was not admitted is still there. *)
Earned(c, history, tokens, last) ==
  /\ \A i \in 1..Len(history) :
       \/ Since("admitted", c, history, i) = 0
       \/ Since("admitted", c, history, i) + tokens
            <= Bursts(Since("evicted", c, history, i)) + Earns(last - history[i].at)
  /\ Since("admitted", c, history, 1) + tokens >= Burst

AllEarned == \A c \in Clients : Earned(c, decided, Bucket(c).tokens, Bucket(c).last)

RateInv == RateTypeOK /\ OneBucketEach /\ NotAhead /\ AllEarned /\ AdmittedAtRate

=============================================================================
