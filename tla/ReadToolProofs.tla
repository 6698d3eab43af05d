---------------------------- MODULE ReadToolProofs ----------------------------
(***************************************************************************)
(* No read tool gives a wrong answer, for any program, tool, page size,    *)
(* budget and failing method.  The walk of the pages keeps ReadInv: what   *)
(* the client has is a start of Found, the rows the pages are cut from.    *)
(* The rest says what Found is: a page is a slice of its listing, a scan's *)
(* rows are the hits of its sources, and one sequence is inside another    *)
(* when its items are there in the same order.  Last, the analysis order   *)
(* of a call graph is exact.                                               *)
(***************************************************************************)
EXTENDS ReadTools, CallGraph, WellFoundedInduction, SequenceTheorems, FiniteSetTheorems, TLAPS

-----------------------------------------------------------------------------
(* Numbers, stacks and loops. *)

(* A non-empty set of naturals has a least element. *)
LEMMA LeastNat ==
  ASSUME NEW T \in SUBSET Nat, T # {}
  PROVE  \E x \in T : \A y \in T : x <= y
<1>1. PICK R : R = OpToRel(<, Nat)
  OBVIOUS
<1>2. IsWellFoundedOn(R, Nat)
  BY <1>1, NatLessThanWellFounded
<1>3. PICK x \in T : \A y \in T : ~(<<y, x>> \in R)
  BY <1>2, WFMin
<1>4. \A a, b \in Nat : a < b => <<a, b>> \in R
  BY <1>1 DEF OpToRel
<1>5. \A y \in T : ~(y < x)
  BY <1>3, <1>4
<1> QED BY <1>5

(* What taking the top off a stack leaves, and what it takes. *)
LEMMA Popped ==
  ASSUME NEW E, NEW s \in Seq(E), s # <<>>
  PROVE  /\ Front(s) \in Seq(E) /\ Len(s) \in Nat \ {0} /\ Len(Front(s)) = Len(s) - 1
         /\ DOMAIN s = 1..Len(s) /\ DOMAIN Front(s) = 1..Len(s) - 1
         /\ \A j \in 1..Len(s) - 1 : Front(s)[j] = s[j]
         /\ Last(s) = s[Len(s)] /\ Last(s) \in E
<1>1. Len(s) \in Nat \ {0} /\ DOMAIN s = 1..Len(s)
  OBVIOUS
<1>2. Front(s) = [j \in 1..Len(s) - 1 |-> s[j]]
  BY <1>1 DEF Front
<1>3. \A j \in 1..Len(s) - 1 : s[j] \in E
  BY <1>1
<1>4. Front(s) \in Seq(E) /\ Len(Front(s)) = Len(s) - 1
  BY <1>1, <1>2, <1>3
<1>5. Last(s) = s[Len(s)] /\ Last(s) \in E
  BY <1>1 DEF Last
<1> QED BY <1>1, <1>2, <1>4, <1>5

(* The same, of a stack given a new top. *)
LEMMA Pushed ==
  ASSUME NEW E, NEW s \in Seq(E), NEW e \in E
  PROVE  /\ Append(s, e) \in Seq(E) /\ Len(s) \in Nat /\ Len(Append(s, e)) = Len(s) + 1
         /\ DOMAIN s = 1..Len(s) /\ DOMAIN Append(s, e) = 1..Len(s) + 1
         /\ \A j \in 1..Len(s) : Append(s, e)[j] = s[j]
         /\ Append(s, e)[Len(s) + 1] = e
  OBVIOUS

(* What holds at the start and passes from each number to the next holds of *)
(* every number up to the last.                                             *)
LEMMA UpTo ==
  ASSUME NEW last \in Nat, NEW H, 0 \in H, \A n \in 1..last : n - 1 \in H => n \in H
  PROVE  \A n \in 0..last : n \in H
<1>1. PICK T : T = {n \in 0..last : n \notin H}
  OBVIOUS
<1>2. ASSUME T # {}
      PROVE  FALSE
  <2>0. T \in SUBSET Nat
    BY <1>1
  <2>1. PICK x \in T : \A y \in T : x <= y
    BY <2>0, <1>2, LeastNat
  <2>2. x \in 1..last /\ x - 1 \in 0..last /\ ~(x <= x - 1)
    BY <1>1, <2>1
  <2>3. x - 1 \in H
    BY <1>1, <2>1, <2>2
  <2> QED BY <1>1, <2>1, <2>2, <2>3
<1> QED BY <1>1, <1>2

(* A loop that runs a fixed number of turns has a run. *)
RunOf(w, S, base, last, turn) ==
  /\ w \in [0..last -> S] /\ w[0] = base
  /\ \A n \in 1..last : w[n] = turn[<<n, w[n - 1]>>]

LEMMA Iterates ==
  ASSUME NEW S, NEW base \in S, NEW last \in Nat, NEW turn \in [(1..last) \X S -> S]
  PROVE  \E w : RunOf(w, S, base, last, turn)
<1>1. PICK H : H = {n \in 0..last : \E w \in [0..n -> S] :
                      w[0] = base /\ \A m \in 1..n : w[m] = turn[<<m, w[m - 1]>>]}
  OBVIOUS
<1>2. 0 \in H
  <2>1. PICK w : w = [n \in 0..0 |-> base]
    OBVIOUS
  <2>2. w \in [0..0 -> S] /\ w[0] = base /\ 0 \in 0..last /\ 1..0 = {}
    BY <2>1
  <2> QED BY <1>1, <2>2
<1>3. ASSUME NEW n \in 1..last, n - 1 \in H
      PROVE  n \in H
  <2>1. PICK w \in [0..n - 1 -> S] : w[0] = base /\ \A m \in 1..n - 1 : w[m] = turn[<<m, w[m - 1]>>]
    BY <1>1, <1>3
  <2>2. PICK v : v = [m \in 0..n |-> IF m = n THEN turn[<<n, w[n - 1]>>] ELSE w[m]]
    OBVIOUS
  <2>3. /\ n \in 0..n /\ 0 \in 0..n /\ n # 0 /\ n - 1 \in 0..n - 1 /\ n - 1 \in 0..n /\ n - 1 # n
        /\ \A m \in 0..n : m = n \/ m \in 0..n - 1
        /\ \A m \in 1..n : m = n \/ m \in 1..n - 1
        /\ \A m \in 1..n - 1 : m \in 0..n /\ m # n /\ m - 1 \in 0..n /\ m - 1 # n
    OBVIOUS
  <2>4. turn[<<n, w[n - 1]>>] \in S
    BY <2>1, <2>3
  <2>5. v \in [0..n -> S]
    BY <2>1, <2>2, <2>3, <2>4
  <2>6. v[0] = base
    BY <2>1, <2>2, <2>3
  <2>7. \A m \in 1..n : v[m] = turn[<<m, v[m - 1]>>]
    <3>1. v[n] = turn[<<n, v[n - 1]>>]
      BY <2>2, <2>3
    <3>2. \A m \in 1..n - 1 : v[m] = turn[<<m, v[m - 1]>>]
      BY <2>1, <2>2, <2>3
    <3> QED BY <2>3, <3>1, <3>2
  <2> QED BY <1>1, <2>5, <2>6, <2>7
<1>4. last \in 0..last
  OBVIOUS
<1>5. last \in H
  BY <1>2, <1>3, <1>4, UpTo
<1> QED BY <1>1, <1>5 DEF RunOf

-----------------------------------------------------------------------------
(* Cuts and pages of a listing. *)

(* The first items of a listing. *)
LEMMA CutIs ==
  ASSUME NEW S, NEW items \in Seq(S), NEW n \in Nat
  PROVE  /\ Cut(items, n) \in Seq(S) /\ Len(Cut(items, n)) = Lesser(n, Len(items))
         /\ DOMAIN Cut(items, n) = 1..Lesser(n, Len(items)) /\ Lesser(n, Len(items)) \in Nat
         /\ \A i \in 1..Lesser(n, Len(items)) : i \in 1..Len(items) /\ Cut(items, n)[i] = items[i]
<1>1. PICK m : m = Lesser(n, Len(items))
  OBVIOUS
<1>2. m \in Nat /\ m <= Len(items) /\ m <= n
  BY <1>1 DEF Lesser
<1>3. PICK c : c = SubSeq(items, 1, m)
  OBVIOUS
<1>4. c \in Seq(S) /\ Len(c) = m /\ \A i \in 1..m : c[i] = items[i]
  BY <1>2, <1>3
<1>5. c = Cut(items, n)
  BY <1>1, <1>3 DEF Cut
<1> QED BY <1>1, <1>2, <1>4, <1>5

(* A page of a listing. *)
PageLength(o, l, length) == IF length <= o THEN 0 ELSE IF o + l <= length THEN l ELSE length - o

LEMMA SliceIs ==
  ASSUME NEW S, NEW items \in Seq(S), NEW a, a.offset \in Nat, a.limit \in Nat
  PROVE  /\ Slice(items, a) \in Seq(S) /\ Len(Slice(items, a)) = PageLength(a.offset, a.limit, Len(items))
         /\ \A i \in 1..Len(Slice(items, a)) :
              a.offset + i \in 1..Len(items) /\ Slice(items, a)[i] = items[a.offset + i]
<1>0. PICK o \in Nat, l \in Nat : o = a.offset /\ l = a.limit
  OBVIOUS
<1>1. PICK m : m = Lesser(o + l, Len(items))
  OBVIOUS
<1>2. /\ m \in Nat /\ m <= Len(items) /\ Len(items) \in Nat
      /\ m >= o => PageLength(o, l, Len(items)) = m - o
      /\ m < o => PageLength(o, l, Len(items)) = 0
  BY <1>1 DEF Lesser, PageLength
<1>3. PICK c : c = SubSeq(items, o + 1, m)
  OBVIOUS
<1>4. Slice(items, a) = c
  BY <1>0, <1>1, <1>3 DEF Slice
<1>5. CASE m >= o
  <2>1. c \in Seq(S) /\ Len(c) = m - o /\ \A i \in 1..m - o : c[i] = items[o + i]
    BY <1>2, <1>3, <1>5
  <2>2. PageLength(a.offset, a.limit, Len(items)) = m - o
    BY <1>0, <1>2, <1>5
  <2>3. \A i \in 1..m - o : o + i \in 1..Len(items)
    BY <1>2, <1>5
  <2> QED BY ONLY <2>1, <2>2, <2>3, <1>0, <1>4
<1>6. CASE m < o
  <2>1. c = <<>>
    BY <1>2, <1>3, <1>6
  <2>2. c \in Seq(S) /\ Len(c) = 0
    BY <2>1
  <2> QED BY <2>2, <1>0, <1>2, <1>4, <1>6
<1> QED BY <1>2, <1>5, <1>6

(* One sequence after another. *)
LEMMA JoinedIs ==
  ASSUME NEW S, NEW s \in Seq(S), NEW t \in Seq(S)
  PROVE  /\ s \o t \in Seq(S) /\ Len(s \o t) = Len(s) + Len(t) /\ Len(s) \in Nat /\ Len(t) \in Nat
         /\ \A i \in 1..Len(s) : (s \o t)[i] = s[i]
         /\ \A i \in 1..Len(t) : (s \o t)[Len(s) + i] = t[i]
  OBVIOUS

(* What was given before a page and the page. *)
LEMMA CutMore ==
  ASSUME NEW S, NEW items \in Seq(S), NEW a, NEW o \in Nat, NEW l \in Nat, a.offset = o, a.limit = l
  PROVE  Cut(items, o) \o Slice(items, a) = Cut(items, o + l)
<1>11. PICK e \in Nat : e = o + l
  OBVIOUS
<1>12. PICK length \in Nat : length = Len(items)
  OBVIOUS
<1>1. e = o + l /\ length = Len(items)
  BY <1>11, <1>12
<1>2. PICK c, d, p : c = Cut(items, o) /\ d = Cut(items, e) /\ p = Slice(items, a)
  OBVIOUS
<1>3. PICK k, m : k = Lesser(o, length) /\ m = Lesser(e, length)
  OBVIOUS
<1>4. /\ c \in Seq(S) /\ Len(c) = k /\ \A i \in 1..k : c[i] = items[i]
      /\ d \in Seq(S) /\ Len(d) = m /\ \A i \in 1..m : d[i] = items[i]
  <2>1. /\ c \in Seq(S) /\ Len(c) = Lesser(o, Len(items))
        /\ \A i \in 1..Lesser(o, Len(items)) : i \in 1..Len(items) /\ c[i] = items[i]
    BY ONLY <1>2, items \in Seq(S), o \in Nat, CutIs, Zenon
  <2>2. /\ d \in Seq(S) /\ Len(d) = Lesser(e, Len(items))
        /\ \A i \in 1..Lesser(e, Len(items)) : i \in 1..Len(items) /\ d[i] = items[i]
    BY ONLY <1>2, items \in Seq(S), e \in Nat, CutIs, Zenon
  <2> QED BY <2>1, <2>2, <1>1, <1>3
<1>5. k \in Nat /\ m \in Nat /\ k <= m /\ PageLength(o, l, length) = m - k /\ (k < m => k = o)
  <2>1. CASE length <= o
    <3>1. k = length /\ m = length /\ PageLength(o, l, length) = 0
      BY <2>1, <1>1, <1>3 DEF Lesser, PageLength
    <3> QED BY <3>1
  <2>2. CASE ~(length <= o) /\ e <= length
    <3>1. k = o /\ m = e /\ PageLength(o, l, length) = l
      BY <2>2, <1>1, <1>3 DEF Lesser, PageLength
    <3> QED BY <3>1, <1>1
  <2>3. CASE ~(length <= o) /\ ~(e <= length)
    <3>1. k = o /\ m = length /\ PageLength(o, l, length) = length - o
      BY <2>3, <1>1, <1>3 DEF Lesser, PageLength
    <3> QED BY <3>1, <2>3
  <2> QED BY <2>1, <2>2, <2>3
<1>6. p \in Seq(S) /\ Len(p) = m - k /\ \A i \in 1..Len(p) : p[i] = items[o + i]
  <2>1. /\ p \in Seq(S) /\ Len(p) = PageLength(a.offset, a.limit, Len(items))
        /\ \A i \in 1..Len(p) : a.offset + i \in 1..Len(items) /\ p[i] = items[a.offset + i]
    <3>1. items \in Seq(S) /\ a.offset \in Nat /\ a.limit \in Nat /\ p = Slice(items, a)
      BY <1>2
    <3> QED BY ONLY <3>1, SliceIs
  <2> QED BY <2>1, <1>1, <1>5
<1>7. PICK q : q = c \o p
  OBVIOUS
<1>8. /\ q \in Seq(S) /\ Len(q) = m
      /\ \A i \in 1..k : q[i] = c[i]
      /\ \A i \in 1..m - k : q[k + i] = p[i]
  <2>1. /\ c \o p \in Seq(S) /\ Len(c \o p) = Len(c) + Len(p)
        /\ \A i \in 1..Len(c) : (c \o p)[i] = c[i]
        /\ \A i \in 1..Len(p) : (c \o p)[Len(c) + i] = p[i]
    <3>1. c \in Seq(S) /\ p \in Seq(S)
      BY <1>4, <1>6
    <3> QED BY ONLY <3>1, JoinedIs
  <2>2. Len(c) = k /\ Len(p) = m - k /\ k + (m - k) = m
    BY <1>4, <1>5, <1>6
  <2> QED BY ONLY <2>1, <2>2, <1>7
<1>9. ASSUME NEW i \in 1..m
      PROVE  q[i] = d[i]
  <2>1. CASE i <= k
    <3>1. i \in 1..k
      BY <2>1, <1>5
    <3> QED BY <3>1, <1>4, <1>8
  <2>2. CASE i > k
    <3>1. i - k \in 1..m - k /\ k = o /\ k + (i - k) = i
      BY <2>2, <1>5
    <3>2. i - k \in 1..Len(p)
      BY <3>1, <1>6
    <3>3. p[i - k] = items[i]
      BY <3>1, <3>2, <1>6
    <3>4. q[i] = p[i - k]
      BY <3>1, <1>8
    <3>5. d[i] = items[i]
      BY <1>4
    <3> QED BY ONLY <3>3, <3>4, <3>5
  <2> QED BY <2>1, <2>2, <1>5
<1>10. q = d
  BY <1>4, <1>8, <1>9
<1> QED BY <1>1, <1>2, <1>7, <1>10

(* A listing cut at its ends, and one item more. *)
LEMMA CutEnds ==
  ASSUME NEW S, NEW items \in Seq(S)
  PROVE  Cut(items, 0) = <<>> /\ Cut(items, Len(items)) = items
<1>1. Len(items) \in Nat /\ Lesser(0, Len(items)) = 0 /\ Lesser(Len(items), Len(items)) = Len(items)
  BY DEF Lesser
<1> QED BY <1>1 DEF Cut

LEMMA CutGrows ==
  ASSUME NEW S, NEW items \in Seq(S), NEW n \in 1..Len(items)
  PROVE  Cut(items, n) = Append(Cut(items, n - 1), items[n])
<1>0. Len(items) \in Nat /\ n \in Nat /\ n - 1 \in Nat /\ n <= Len(items)
  OBVIOUS
<1>1. Lesser(n, Len(items)) = n /\ Lesser(n - 1, Len(items)) = n - 1
  BY <1>0 DEF Lesser
<1>2. PICK c, d : c = Cut(items, n) /\ d = Cut(items, n - 1)
  OBVIOUS
<1>3. c \in Seq(S) /\ Len(c) = n /\ \A i \in 1..n : c[i] = items[i]
  BY <1>0, <1>1, <1>2, CutIs
<1>4. d \in Seq(S) /\ Len(d) = n - 1 /\ \A i \in 1..n - 1 : d[i] = items[i]
  BY <1>0, <1>1, <1>2, CutIs
<1>5. items[n] \in S
  BY <1>0
<1>6. /\ Append(d, items[n]) \in Seq(S) /\ Len(Append(d, items[n])) = n
      /\ \A i \in 1..n - 1 : Append(d, items[n])[i] = d[i]
      /\ Append(d, items[n])[n] = items[n]
  BY <1>4, <1>5, <1>0, Pushed
<1>7. \A i \in 1..n : i = n \/ i \in 1..n - 1
  BY <1>0
<1>8. \A i \in 1..n : Append(d, items[n])[i] = c[i]
  BY <1>3, <1>4, <1>6, <1>7
<1>9. c = Append(d, items[n])
  BY <1>3, <1>6, <1>8
<1> QED BY <1>2, <1>9

(* The loop of a listing: what it holds after n items, and one more. *)
ListedSoFar(items, a, n) ==
  [kind |-> "ok", rows |-> Slice(Cut(items, n), a), total |-> n, truncated |-> a.offset + a.limit < n]

LEMMA ListedMore ==
  ASSUME NEW S, NEW items \in Seq(S), NEW n \in 1..Len(items),
         NEW a, a.offset \in Nat, a.limit \in Nat
  PROVE  ListItem(ListedSoFar(items, a, n - 1), items[n], a) = ListedSoFar(items, a, n)
<1>0. Len(items) \in Nat /\ n \in Nat /\ n - 1 \in Nat /\ n <= Len(items) /\ n - 1 + 1 = n
  OBVIOUS
<1>14. a.offset \in Nat /\ a.limit \in Nat
  OBVIOUS
<1>15. PICK n1 \in Nat : n1 = n - 1
  BY <1>0
<1>1. PICK c, d : c = Cut(items, n) /\ d = Cut(items, n1)
  OBVIOUS
<1>2. PICK r, q : r = Slice(c, a) /\ q = Slice(d, a)
  OBVIOUS
<1>3. Lesser(n, Len(items)) = n /\ Lesser(n1, Len(items)) = n1
  BY <1>0, <1>15 DEF Lesser
<1>4. /\ c \in Seq(S) /\ Len(c) = n /\ \A i \in 1..n : c[i] = items[i]
      /\ d \in Seq(S) /\ Len(d) = n1 /\ \A i \in 1..n1 : d[i] = items[i]
  <2>1. /\ c \in Seq(S) /\ Len(c) = Lesser(n, Len(items))
        /\ \A i \in 1..Lesser(n, Len(items)) : i \in 1..Len(items) /\ c[i] = items[i]
    BY ONLY <1>0, <1>1, items \in Seq(S), CutIs, Zenon
  <2>2. /\ d \in Seq(S) /\ Len(d) = Lesser(n1, Len(items))
        /\ \A i \in 1..Lesser(n1, Len(items)) : i \in 1..Len(items) /\ d[i] = items[i]
    BY ONLY <1>1, items \in Seq(S), n1 \in Nat, CutIs, Zenon
  <2> QED BY <2>1, <2>2, <1>3
<1>16. /\ r \in Seq(S) /\ Len(r) = PageLength(a.offset, a.limit, n)
       /\ \A i \in 1..Len(r) : r[i] = items[a.offset + i]
  <2>0. c \in Seq(S) /\ a.offset \in Nat /\ a.limit \in Nat /\ r = Slice(c, a)
    BY <1>2, <1>4
  <2>1. /\ r \in Seq(S) /\ Len(r) = PageLength(a.offset, a.limit, Len(c))
        /\ \A i \in 1..Len(r) : a.offset + i \in 1..Len(c) /\ r[i] = c[a.offset + i]
    <3>1. /\ Slice(c, a) \in Seq(S) /\ Len(Slice(c, a)) = PageLength(a.offset, a.limit, Len(c))
          /\ \A i \in 1..Len(Slice(c, a)) :
               a.offset + i \in 1..Len(c) /\ Slice(c, a)[i] = c[a.offset + i]
      BY ONLY <2>0, SliceIs, SMTT(30)
    <3> QED BY ONLY <3>1, <2>0, Zenon
  <2> QED BY <2>1, <1>4
<1>17. /\ q \in Seq(S) /\ Len(q) = PageLength(a.offset, a.limit, n1)
       /\ \A i \in 1..Len(q) : q[i] = items[a.offset + i]
  <2>0. d \in Seq(S) /\ a.offset \in Nat /\ a.limit \in Nat /\ q = Slice(d, a)
    BY <1>2, <1>4
  <2>1. /\ q \in Seq(S) /\ Len(q) = PageLength(a.offset, a.limit, Len(d))
        /\ \A i \in 1..Len(q) : a.offset + i \in 1..Len(d) /\ q[i] = d[a.offset + i]
    <3>1. /\ Slice(d, a) \in Seq(S) /\ Len(Slice(d, a)) = PageLength(a.offset, a.limit, Len(d))
          /\ \A i \in 1..Len(Slice(d, a)) :
               a.offset + i \in 1..Len(d) /\ Slice(d, a)[i] = d[a.offset + i]
      BY ONLY <2>0, SliceIs, SMTT(30)
    <3> QED BY ONLY <3>1, <2>0, Zenon
  <2> QED BY <2>1, <1>4
<1>18. PICK o \in Nat, l \in Nat : o = a.offset /\ l = a.limit
  OBVIOUS
<1>5. r \in Seq(S) /\ Len(r) = PageLength(o, l, n) /\ \A i \in 1..Len(r) : r[i] = items[o + i]
  BY <1>16, <1>18
<1>6. q \in Seq(S) /\ Len(q) = PageLength(o, l, n1) /\ \A i \in 1..Len(q) : q[i] = items[o + i]
  BY <1>17, <1>18
<1>7. items[n] \in S
  BY <1>0, <1>15
<1>8. PICK acc : acc = ListedSoFar(items, a, n1)
  OBVIOUS
<1>9. acc = [kind |-> "ok", rows |-> q, total |-> n1, truncated |-> o + l < n1]
  BY <1>1, <1>2, <1>8, <1>18 DEF ListedSoFar
<1>10. ListedSoFar(items, a, n) = [kind |-> "ok", rows |-> r, total |-> n, truncated |-> o + l < n]
  BY <1>1, <1>2, <1>18 DEF ListedSoFar
<1>11. CASE n1 < o
  <2>1. ListItem(acc, items[n], a) = [kind |-> "ok", rows |-> q, total |-> n, truncated |-> o + l < n1]
    BY <1>0, <1>15, <1>9, <1>11, <1>18 DEF ListItem
  <2>2. Len(r) = 0 /\ Len(q) = 0
    BY <1>0, <1>15, <1>5, <1>6, <1>11 DEF PageLength
  <2>3. r = q
    BY <2>2, <1>5, <1>6
  <2>4. (o + l < n1) = FALSE /\ (o + l < n) = FALSE
    BY <1>0, <1>15, <1>11
  <2> QED BY <2>1, <2>3, <2>4, <1>8, <1>10, <1>15
<1>12. CASE ~(n1 < o) /\ n1 >= o + l
  <2>1. Len(q) = l /\ Len(r) = l
    BY <1>0, <1>15, <1>5, <1>6, <1>12 DEF PageLength
  <2>2. ListItem(acc, items[n], a) = [kind |-> "ok", rows |-> q, total |-> n, truncated |-> TRUE]
    <3>1. ~(acc.total < a.offset) /\ Len(acc.rows) >= a.limit
      BY <2>1, <1>0, <1>15, <1>9, <1>12, <1>18
    <3>2. ListItem(acc, items[n], a) = [acc EXCEPT !.total = @ + 1, !.truncated = TRUE]
      BY ONLY <3>1, Zenon DEF ListItem
    <3> QED BY ONLY <3>2, <1>9, <1>0, <1>15
  <2>3. r = q
    <3>1. r \in Seq(S) /\ q \in Seq(S) /\ Len(r) = Len(q)
      BY <2>1, <1>5, <1>6
    <3>2. \A i \in 1..Len(q) : r[i] = q[i]
      BY ONLY <3>1, <1>5, <1>6
    <3> QED BY ONLY <3>1, <3>2
  <2>4. (o + l < n) = TRUE
    BY <1>0, <1>15, <1>12
  <2> QED BY <2>2, <2>3, <2>4, <1>8, <1>10, <1>15
<1>13. CASE ~(n1 < o) /\ n1 < o + l
  <2>1. Len(q) = n1 - o /\ Len(r) = n - o /\ Len(q) < l /\ Len(q) \in Nat
    <3>1. PageLength(o, l, n1) = n1 - o
      BY ONLY <1>0, <1>15, <1>13, o \in Nat, l \in Nat DEF PageLength
    <3>2. PageLength(o, l, n) = n - o
      BY ONLY <1>0, <1>15, <1>13, o \in Nat, l \in Nat DEF PageLength
    <3>3. Len(q) = n1 - o /\ Len(r) = n - o
      BY ONLY <3>1, <3>2, <1>5, <1>6
    <3> QED BY ONLY <3>3, <1>0, <1>15, <1>13, o \in Nat, l \in Nat
  <2>2. ListItem(acc, items[n], a)
          = [kind |-> "ok", rows |-> Append(q, items[n]), total |-> n, truncated |-> o + l < n1]
    <3>1. ~(acc.total < a.offset) /\ ~(Len(acc.rows) >= a.limit)
      BY <2>1, <1>0, <1>15, <1>9, <1>13, <1>18
    <3>2. ListItem(acc, items[n], a) = [acc EXCEPT !.total = @ + 1, !.rows = Append(@, items[n])]
      BY ONLY <3>1, Zenon DEF ListItem
    <3> QED BY ONLY <3>2, <1>9, <1>0, <1>15
  <2>3. PICK p : p = Append(q, items[n])
    OBVIOUS
  <2>4. /\ p \in Seq(S) /\ Len(p) = n - o /\ \A i \in 1..Len(q) : p[i] = q[i]
        /\ p[Len(q) + 1] = items[n]
    <3>1. /\ p \in Seq(S) /\ Len(p) = Len(q) + 1 /\ \A i \in 1..Len(q) : p[i] = q[i]
          /\ p[Len(q) + 1] = items[n]
      <4>1. q \in Seq(S)
        BY <1>6
      <4> QED BY ONLY <4>1, <2>3, <1>7, Pushed
    <3>2. Len(q) + 1 = n - o
      BY ONLY <2>1, <1>0, <1>15, o \in Nat
    <3> QED BY ONLY <3>1, <3>2
  <2>5. \A i \in 1..n - o : p[i] = r[i]
    <3> SUFFICES ASSUME NEW i \in 1..n - o PROVE p[i] = r[i]
      OBVIOUS
    <3>1. r[i] = items[o + i]
      BY <2>1, <1>5
    <3>2. CASE i = n - o
      <4>1. i = Len(q) + 1 /\ o + i = n
        BY ONLY <3>2, <2>1, <1>0, <1>15, o \in Nat
      <4> QED BY <4>1, <3>1, <2>4
    <3>3. CASE i # n - o
      <4>1. i \in 1..Len(q)
        BY ONLY <3>3, <2>1, <1>0, <1>15, i \in 1..n - o, o \in Nat
      <4> QED BY <4>1, <3>1, <2>4, <1>6
    <3> QED BY <3>2, <3>3
  <2>6. p = r
    <3>1. p \in Seq(S) /\ r \in Seq(S) /\ Len(p) = n - o /\ Len(r) = n - o
      BY <2>1, <2>4, <1>5
    <3> QED BY ONLY <3>1, <2>5
  <2>7. (o + l < n1) = FALSE /\ (o + l < n) = FALSE
    BY <1>0, <1>15, <1>13
  <2> QED BY <2>2, <2>3, <2>6, <2>7, <1>8, <1>10, <1>15
<1> QED BY <1>0, <1>15, <1>11, <1>12, <1>13

(* The loop gives the page of the listing, and says when there is more. *)
LEMMA ListedIs ==
  ASSUME NEW S, NEW items \in Seq(S), NEW a, a.offset \in Nat, a.limit \in Nat
  PROVE  Listed(items, a) = Sliced(items, a)
<1>1. PICK last : last = Len(items)
  OBVIOUS
<1>2. last \in Nat /\ 0 \in 0..last /\ last \in 0..last
  BY <1>1
<1>3. PICK w : w = [n \in 0..last |-> ListedSoFar(items, a, n)]
  OBVIOUS
<1>4. w[0] = Answer(<<>>, 0, FALSE)
  <2>1. Slice(<<>>, a) = <<>>
    <3>1. PICK e : e = <<>>
      OBVIOUS
    <3>2. e \in Seq(S) /\ Len(e) = 0
      BY <3>1
    <3>3. PICK p : p = Slice(e, a)
      OBVIOUS
    <3>6. a.offset \in Nat /\ a.limit \in Nat
      OBVIOUS
    <3>4. p \in Seq(S) /\ Len(p) = PageLength(a.offset, a.limit, Len(e))
      BY ONLY <3>6, <3>2, <3>3, SliceIs
    <3>5. p = <<>>
      BY <3>2, <3>4 DEF PageLength
    <3> QED BY <3>1, <3>3, <3>5
  <2>2. (a.offset + a.limit < 0) = FALSE
    OBVIOUS
  <2> QED BY <2>1, <2>2, <1>2, <1>3, CutEnds DEF ListedSoFar, Answer
<1>5. \A n \in 1..last : n \in 0..last /\ n - 1 \in 0..last /\ n # 0
  BY <1>2
<1>6. \A n \in 1..last : w[n] = ListItem(w[n - 1], items[n], a)
  BY <1>1, <1>3, <1>5, ListedMore
<1>7. \A n \in 0..last : n = 0 \/ n \in 1..last
  BY <1>2
<1>8. w = [n \in 0..last |-> IF n = 0 THEN Answer(<<>>, 0, FALSE) ELSE ListItem(w[n - 1], items[n], a)]
  <2>1. \A n \in 0..last : w[n] = IF n = 0 THEN Answer(<<>>, 0, FALSE) ELSE ListItem(w[n - 1], items[n], a)
    BY <1>4, <1>5, <1>6, <1>7
  <2> QED BY <2>1, <1>3
<1>9. PICK v : v = CHOOSE u : u = [n \in 0..last |->
                      IF n = 0 THEN Answer(<<>>, 0, FALSE) ELSE ListItem(u[n - 1], items[n], a)]
  OBVIOUS
<1>10. v = [n \in 0..last |-> IF n = 0 THEN Answer(<<>>, 0, FALSE) ELSE ListItem(v[n - 1], items[n], a)]
  BY <1>8, <1>9
<1>11. Listed(items, a) = v[last]
  BY <1>1, <1>9 DEF Listed
<1>12. \A n \in 0..last : v[n] = w[n]
  <2>1. PICK H : H = {n \in 0..last : v[n] = w[n]}
    OBVIOUS
  <2>2. 0 \in H
    BY <2>1, <1>2, <1>4, <1>10
  <2>3. ASSUME NEW n \in 1..last, n - 1 \in H
        PROVE  n \in H
    <3>1. v[n] = ListItem(v[n - 1], items[n], a)
      BY <1>5, <1>10
    <3> QED BY <2>1, <2>3, <3>1, <1>5, <1>6
  <2>4. \A n \in 0..last : n \in H
    BY <2>2, <2>3, <1>2, UpTo
  <2> QED BY <2>1, <2>4
<1>13. Listed(items, a) = ListedSoFar(items, a, last)
  BY <1>2, <1>3, <1>11, <1>12
<1> QED BY <1>1, <1>13, CutEnds DEF ListedSoFar, Sliced, Answer

-----------------------------------------------------------------------------
(* Sequences inside others, and what a filter keeps of them. *)

(* One sequence inside another: its items, in the same order. *)
Places(s, t) ==
  {f \in [1..Len(s) -> 1..Len(t)] :
     /\ \A i \in 1..Len(s) : s[i] = t[f[i]]
     /\ \A i, j \in 1..Len(s) : i < j => f[i] < f[j]}

Inside(s, t) == Places(s, t) # {}

LEMMA InsideSelf ==
  ASSUME NEW S, NEW s \in Seq(S)
  PROVE  Inside(s, s)
<1>1. PICK f : f = [i \in 1..Len(s) |-> i]
  OBVIOUS
<1>2. f \in Places(s, s)
  BY <1>1 DEF Places
<1> QED BY <1>2 DEF Inside

LEMMA InsideThrough ==
  ASSUME NEW S, NEW s \in Seq(S), NEW t \in Seq(S), NEW u \in Seq(S), Inside(s, t), Inside(t, u)
  PROVE  Inside(s, u)
<1>0. Len(s) \in Nat /\ Len(t) \in Nat /\ Len(u) \in Nat
  OBVIOUS
<1>1. PICK f : f \in Places(s, t)
  BY DEF Inside
<1>2. PICK g : g \in Places(t, u)
  BY DEF Inside
<1>3. f \in [1..Len(s) -> 1..Len(t)] /\ g \in [1..Len(t) -> 1..Len(u)]
  BY <1>1, <1>2 DEF Places
<1>4. PICK h : h = [i \in 1..Len(s) |-> g[f[i]]]
  OBVIOUS
<1>5. \A i \in 1..Len(s) : f[i] \in 1..Len(t) /\ h[i] = g[f[i]] /\ s[i] = t[f[i]] /\ t[f[i]] = u[g[f[i]]]
  BY <1>1, <1>2, <1>3, <1>4 DEF Places
<1>6. \A i, j \in 1..Len(s) : i < j => h[i] < h[j]
  BY <1>1, <1>2, <1>5 DEF Places
<1>7. h \in [1..Len(s) -> 1..Len(u)]
  BY <1>3, <1>4
<1>8. h \in Places(s, u)
  BY <1>5, <1>6, <1>7 DEF Places
<1> QED BY <1>8 DEF Inside

(* A start of a sequence is inside it. *)
LEMMA CutInside ==
  ASSUME NEW S, NEW items \in Seq(S), NEW n \in Nat
  PROVE  Inside(Cut(items, n), items)
<1>1. PICK c : c = Cut(items, n)
  OBVIOUS
<1>2. PICK m \in Nat : m = Lesser(n, Len(items))
  BY DEF Lesser
<1>3. c \in Seq(S) /\ Len(c) = m /\ \A i \in 1..m : i \in 1..Len(items) /\ c[i] = items[i]
  BY <1>1, <1>2, CutIs
<1>4. PICK f : f = [i \in 1..m |-> i]
  OBVIOUS
<1>5. f \in Places(c, items)
  BY <1>3, <1>4 DEF Places
<1> QED BY <1>1, <1>5 DEF Inside

(* The places of one sequence in another are no fewer than its items. *)
LEMMA PlacesGrow ==
  ASSUME NEW s, NEW t, Len(s) \in Nat, Len(t) \in Nat, NEW f \in Places(s, t)
  PROVE  \A i \in 1..Len(s) : f[i] >= i
<1>1. f \in [1..Len(s) -> 1..Len(t)] /\ \A i, j \in 1..Len(s) : i < j => f[i] < f[j]
  BY DEF Places
<1>2. PICK H : H = {n \in 0..Len(s) : n = 0 \/ f[n] >= n}
  OBVIOUS
<1>3. 0 \in H
  BY <1>2
<1>4. ASSUME NEW n \in 1..Len(s), n - 1 \in H
      PROVE  n \in H
  <2>1. CASE n = 1
    BY <2>1, <1>1, <1>2
  <2>2. CASE n # 1
    <3>1. n - 1 \in 1..Len(s) /\ n - 1 < n /\ n - 1 # 0
      BY <2>2
    <3>2. f[n - 1] >= n - 1 /\ f[n - 1] < f[n] /\ f[n] \in Nat /\ f[n - 1] \in Nat
      BY <3>1, <1>1, <1>2, <1>4
    <3> QED BY <3>2, <1>2
  <2> QED BY <2>1, <2>2
<1>5. \A n \in 0..Len(s) : n \in H
  BY <1>3, <1>4, UpTo
<1> QED BY <1>2, <1>5

(* Two sequences each inside the other are one. *)
LEMMA InsideEach ==
  ASSUME NEW S, NEW s \in Seq(S), NEW t \in Seq(S), Inside(s, t), Inside(t, s)
  PROVE  s = t
<1>0. Len(s) \in Nat /\ Len(t) \in Nat
  OBVIOUS
<1>1. PICK f : f \in Places(s, t)
  BY DEF Inside
<1>2. PICK g : g \in Places(t, s)
  BY DEF Inside
<1>3. f \in [1..Len(s) -> 1..Len(t)] /\ g \in [1..Len(t) -> 1..Len(s)]
  BY <1>1, <1>2 DEF Places
<1>4. \A i \in 1..Len(s) : f[i] >= i
  BY <1>0, <1>1, PlacesGrow
<1>5. \A i \in 1..Len(t) : g[i] >= i
  BY <1>0, <1>2, PlacesGrow
<1>6. Len(s) <= Len(t)
  <2>1. CASE Len(s) = 0
    BY <2>1, <1>0
  <2>2. CASE Len(s) # 0
    <3>1. Len(s) \in 1..Len(s)
      BY <2>2, <1>0
    <3>2. f[Len(s)] \in 1..Len(t) /\ f[Len(s)] >= Len(s)
      BY <3>1, <1>3, <1>4
    <3> QED BY ONLY <3>2, <1>0
  <2> QED BY <2>1, <2>2
<1>7. Len(t) <= Len(s)
  <2>1. CASE Len(t) = 0
    BY <2>1, <1>0
  <2>2. CASE Len(t) # 0
    <3>1. Len(t) \in 1..Len(t)
      BY <2>2, <1>0
    <3>2. g[Len(t)] \in 1..Len(s) /\ g[Len(t)] >= Len(t)
      BY <3>1, <1>3, <1>5
    <3> QED BY ONLY <3>2, <1>0
  <2> QED BY <2>1, <2>2
<1>8. PICK n \in Nat : n = Len(s)
  BY <1>0
<1>9. Len(t) = n
  BY <1>0, <1>6, <1>7, <1>8
<1>10. PICK H : H = {m \in 0..n : m = n \/ f[n - m] = n - m}
  OBVIOUS
<1>11. \A i, j \in 1..n : i < j => f[i] < f[j]
  BY <1>1, <1>8 DEF Places
<1>12. \A i \in 1..n : f[i] \in 1..n /\ f[i] >= i
  BY <1>3, <1>4, <1>8, <1>9
<1>13. 0 \in H
  <2>1. CASE n = 0
    BY <2>1, <1>10
  <2>2. CASE n # 0
    <3>1. n \in 1..n /\ n - 0 = n
      BY <2>2
    <3>2. f[n] = n
      BY <3>1, <1>12
    <3> QED BY <3>1, <3>2, <1>10
  <2> QED BY <2>1, <2>2
<1>14. ASSUME NEW m \in 1..n, m - 1 \in H
       PROVE  m \in H
  <2>1. CASE m = n
    BY <2>1, <1>10
  <2>2. CASE m # n
    <3>1. PICK i, j : i = n - m /\ j = n - (m - 1)
      OBVIOUS
    <3>2. i \in 1..n /\ j \in 1..n /\ i < j /\ j = i + 1 /\ m - 1 # n
      BY <2>2, <3>1
    <3>3. f[j] = j
      BY <3>1, <3>2, <1>10, <1>14
    <3>4. f[i] < f[j] /\ f[i] >= i /\ f[i] \in Nat
      BY <3>2, <1>11, <1>12
    <3>5. f[i] = i
      BY <3>2, <3>3, <3>4
    <3> QED BY <3>1, <3>5, <1>10
  <2> QED BY <2>1, <2>2
<1>15. \A m \in 0..n : m \in H
  BY <1>13, <1>14, UpTo
<1>16. ASSUME NEW i \in 1..n
       PROVE  s[i] = t[i]
  <2>1. PICK m : m = n - i
    OBVIOUS
  <2>2. m \in 0..n /\ m # n /\ n - m = i
    BY <2>1
  <2>3. f[i] = i
    BY <2>2, <1>10, <1>15
  <2>4. s[i] = t[f[i]]
    BY <1>1, <1>8 DEF Places
  <2> QED BY <2>3, <2>4
<1> QED BY <1>8, <1>9, <1>16

(* Sequences inside others, one after another. *)
JoinedPlaces(f, g, k, l, m) == [i \in 1..k + l |-> IF i <= k THEN f[i] ELSE m + g[i - k]]

LEMMA PlacesJoined ==
  ASSUME NEW S, NEW s \in Seq(S), NEW t \in Seq(S), NEW u \in Seq(S), NEW v \in Seq(S),
         NEW f \in Places(s, u), NEW g \in Places(t, v)
  PROVE  JoinedPlaces(f, g, Len(s), Len(t), Len(u)) \in Places(s \o t, u \o v)
<1>3. PICK k \in Nat, l \in Nat, m \in Nat, n \in Nat : k = Len(s) /\ l = Len(t) /\ m = Len(u) /\ n = Len(v)
  OBVIOUS
<1>4. /\ f \in [1..k -> 1..m] /\ \A i \in 1..k : s[i] = u[f[i]]
      /\ \A i, j \in 1..k : i < j => f[i] < f[j]
  BY <1>3 DEF Places
<1>5. /\ g \in [1..l -> 1..n] /\ \A i \in 1..l : t[i] = v[g[i]]
      /\ \A i, j \in 1..l : i < j => g[i] < g[j]
  BY <1>3 DEF Places
<1>6. PICK a, b : a = s \o t /\ b = u \o v
  OBVIOUS
<1>7. a \in Seq(S) /\ Len(a) = k + l /\ (\A i \in 1..k : a[i] = s[i]) /\ \A i \in 1..l : a[k + i] = t[i]
  BY <1>3, <1>6, JoinedIs
<1>8. b \in Seq(S) /\ Len(b) = m + n /\ (\A i \in 1..m : b[i] = u[i]) /\ \A i \in 1..n : b[m + i] = v[i]
  BY <1>3, <1>6, JoinedIs
<1>9. PICK h : h = JoinedPlaces(f, g, k, l, m)
  OBVIOUS
<1>17. h = [i \in 1..k + l |-> IF i <= k THEN f[i] ELSE m + g[i - k]]
  BY <1>9 DEF JoinedPlaces
<1>10. \A i \in 1..k : i \in 1..k + l /\ h[i] = f[i] /\ f[i] \in 1..m
  BY <1>4, <1>17
<1>11. ASSUME NEW i \in 1..k + l, ~(i <= k)
       PROVE  i - k \in 1..l /\ h[i] = m + g[i - k] /\ g[i - k] \in 1..n /\ k + (i - k) = i
  <2>1. i - k \in 1..l /\ k + (i - k) = i
    BY <1>11
  <2> QED BY <2>1, <1>11, <1>5, <1>17
<1>12. \A i \in 1..k + l : i \in 1..k \/ ~(i <= k)
  OBVIOUS
<1>13. ASSUME NEW i \in 1..k + l
       PROVE  h[i] \in 1..m + n /\ a[i] = b[h[i]]
  <2>1. CASE i \in 1..k
    <3>1. f[i] \in 1..m /\ h[i] = f[i] /\ a[i] = s[i] /\ s[i] = u[f[i]]
      BY <2>1, <1>4, <1>7, <1>10
    <3>2. b[f[i]] = u[f[i]]
      BY <3>1, <1>8
    <3>3. f[i] \in 1..m + n
      BY ONLY <3>1, m \in Nat, n \in Nat
    <3> QED BY ONLY <3>1, <3>2, <3>3
  <2>2. CASE ~(i <= k)
    <3>1. PICK j : j = i - k
      OBVIOUS
    <3>2. j \in 1..l /\ h[i] = m + g[j] /\ g[j] \in 1..n /\ k + j = i
      BY <2>2, <3>1, <1>11
    <3>3. a[i] = t[j] /\ t[j] = v[g[j]] /\ b[m + g[j]] = v[g[j]]
      BY <3>2, <1>5, <1>7, <1>8
    <3> QED BY <3>2, <3>3
  <2> QED BY <2>1, <2>2, <1>12
<1>14. ASSUME NEW i \in 1..k + l, NEW j \in 1..k + l, i < j
       PROVE  h[i] < h[j]
  <2>1. CASE j \in 1..k
    <3>1. i \in 1..k
      BY <2>1, <1>14
    <3> QED BY <2>1, <3>1, <1>4, <1>10, <1>14
  <2>2. CASE i \in 1..k /\ ~(j <= k)
    <3>1. h[i] \in 1..m
      BY <2>2, <1>10
    <3>2. h[j] = m + g[j - k] /\ g[j - k] \in 1..n
      BY <2>2, <1>11
    <3>3. PICK x, y : x = h[i] /\ y = g[j - k]
      OBVIOUS
    <3> QED BY ONLY <3>1, <3>2, <3>3, m \in Nat, n \in Nat
  <2>3. CASE ~(i <= k) /\ ~(j <= k)
    <3>1. i - k \in 1..l /\ j - k \in 1..l /\ i - k < j - k
      BY <2>3, <1>11, <1>14
    <3>2. g[i - k] < g[j - k]
      BY <3>1, <1>5
    <3> QED BY <2>3, <3>2, <1>11
  <2> QED BY <2>1, <2>2, <2>3, <1>12, <1>14
<1>15. h \in [1..k + l -> 1..m + n]
  BY <1>17, <1>13
<1>16. h \in Places(a, b)
  BY <1>7, <1>8, <1>13, <1>14, <1>15 DEF Places
<1> QED BY <1>3, <1>6, <1>9, <1>16

LEMMA InsideJoined ==
  ASSUME NEW S, NEW s \in Seq(S), NEW t \in Seq(S), NEW u \in Seq(S), NEW v \in Seq(S),
         Inside(s, u), Inside(t, v)
  PROVE  Inside(s \o t, u \o v)
<1>1. PICK f : f \in Places(s, u)
  BY DEF Inside
<1>2. PICK g : g \in Places(t, v)
  BY DEF Inside
<1> QED BY <1>1, <1>2, PlacesJoined DEF Inside

(* Of two sequences inside a third, the one that has no other places is    *)
(* inside the one that has them.                                           *)
LEMMA InsideWider ==
  ASSUME NEW S, NEW s \in Seq(S), NEW t \in Seq(S), NEW u \in Seq(S),
         NEW f \in Places(s, u), NEW g \in Places(t, u),
         \A i \in 1..Len(s) : \E j \in 1..Len(t) : g[j] = f[i]
  PROVE  Inside(s, t)
<1>0. Len(s) \in Nat /\ Len(t) \in Nat /\ Len(u) \in Nat
  OBVIOUS
<1>1. PICK h : h = [i \in 1..Len(s) |-> CHOOSE j \in 1..Len(t) : g[j] = f[i]]
  OBVIOUS
<1>2. \A i \in 1..Len(s) : h[i] \in 1..Len(t) /\ g[h[i]] = f[i]
  BY <1>1
<1>3. /\ f \in [1..Len(s) -> 1..Len(u)] /\ \A i \in 1..Len(s) : s[i] = u[f[i]]
      /\ \A i, j \in 1..Len(s) : i < j => f[i] < f[j]
  BY DEF Places
<1>4. /\ g \in [1..Len(t) -> 1..Len(u)] /\ \A i \in 1..Len(t) : t[i] = u[g[i]]
      /\ \A i, j \in 1..Len(t) : i < j => g[i] < g[j]
  BY DEF Places
<1>5. ASSUME NEW i \in 1..Len(s), NEW j \in 1..Len(s), i < j
      PROVE  h[i] < h[j]
  <2>1. f[i] < f[j] /\ f[i] \in Nat /\ f[j] \in Nat
    <3>1. f[i] < f[j]
      BY <1>3, <1>5
    <3>2. f[i] \in 1..Len(u) /\ f[j] \in 1..Len(u)
      BY <1>3
    <3> QED BY <3>1, <3>2
  <2>2. h[i] \in 1..Len(t) /\ h[j] \in 1..Len(t) /\ g[h[i]] < g[h[j]]
    BY <2>1, <1>2
  <2>3. g[h[i]] \in Nat /\ g[h[j]] \in Nat
    BY <2>1, <1>2
  <2>4. h[j] < h[i] => g[h[j]] < g[h[i]]
    BY <2>2, <1>4
  <2>5. h[i] = h[j] => g[h[i]] = g[h[j]]
    OBVIOUS
  <2>6. PICK x, y : x = h[i] /\ y = h[j]
    OBVIOUS
  <2>7. PICK a, b : a = g[h[i]] /\ b = g[h[j]]
    OBVIOUS
  <2> QED BY ONLY <1>0, <2>2, <2>3, <2>4, <2>5, <2>6, <2>7
<1>6. h \in [1..Len(s) -> 1..Len(t)]
  BY <1>1, <1>2
<1>7. h \in Places(s, t)
  <2>1. \A i \in 1..Len(s) : s[i] = t[h[i]]
    <3> SUFFICES ASSUME NEW i \in 1..Len(s) PROVE s[i] = t[h[i]]
      OBVIOUS
    <3>1. h[i] \in 1..Len(t) /\ g[h[i]] = f[i] /\ s[i] = u[f[i]]
      BY <1>2, <1>3
    <3>2. t[h[i]] = u[g[h[i]]]
      BY <3>1, <1>4
    <3> QED BY ONLY <3>1, <3>2
  <2> QED BY <2>1, <1>5, <1>6 DEF Places
<1> QED BY <1>7 DEF Inside

(* The items at some places, and no others. *)
Chosen(s, items, T) ==
  \E f \in Places(s, items) :
     /\ \A i \in 1..Len(s) : f[i] \in T
     /\ \A x \in T : \E i \in 1..Len(s) : f[i] = x

LEMMA ChosenMore ==
  ASSUME NEW S, NEW items \in Seq(S), NEW s \in Seq(S), NEW n \in 1..Len(items),
         NEW T, Chosen(s, items, T), \A x \in T : x < n
  PROVE  Chosen(Append(s, items[n]), items, T \cup {n})
<1>1. PICK f \in Places(s, items) :
        (\A i \in 1..Len(s) : f[i] \in T) /\ \A x \in T : \E i \in 1..Len(s) : f[i] = x
  BY DEF Chosen
<1>2. PICK k \in Nat : k = Len(s)
  OBVIOUS
<1>3. /\ f \in [1..k -> 1..Len(items)] /\ \A i \in 1..k : s[i] = items[f[i]]
      /\ \A i, j \in 1..k : i < j => f[i] < f[j]
  BY <1>1, <1>2 DEF Places
<1>4. items[n] \in S
  OBVIOUS
<1>5. PICK t : t = Append(s, items[n])
  OBVIOUS
<1>6. t \in Seq(S) /\ Len(t) = k + 1 /\ (\A i \in 1..k : t[i] = s[i]) /\ t[k + 1] = items[n]
  BY <1>2, <1>4, <1>5, Pushed
<1>7. PICK g : g = [i \in 1..k + 1 |-> IF i = k + 1 THEN n ELSE f[i]]
  OBVIOUS
<1>8. /\ k + 1 \in 1..k + 1 /\ \A i \in 1..k : i \in 1..k + 1 /\ i # k + 1 /\ i < k + 1
      /\ \A i \in 1..k + 1 : i = k + 1 \/ i \in 1..k
  OBVIOUS
<1>9. g[k + 1] = n /\ \A i \in 1..k : g[i] = f[i]
  BY <1>7, <1>8
<1>10. g \in [1..k + 1 -> 1..Len(items)]
  <2>1. \A i \in 1..k + 1 : g[i] \in 1..Len(items)
    BY <1>3, <1>8, <1>9
  <2> QED BY <2>1, <1>7
<1>11. \A i \in 1..k + 1 : t[i] = items[g[i]]
  BY <1>3, <1>6, <1>8, <1>9
<1>12. ASSUME NEW i \in 1..k + 1, NEW j \in 1..k + 1, i < j
       PROVE  g[i] < g[j]
  <2>1. CASE j \in 1..k
    <3>1. i \in 1..k
      BY <2>1, <1>12
    <3> QED BY <2>1, <3>1, <1>3, <1>9, <1>12
  <2>2. CASE j = k + 1
    <3>1. i \in 1..k
      BY <2>2, <1>12
    <3> QED BY <2>2, <3>1, <1>1, <1>2, <1>9
  <2> QED BY <2>1, <2>2, <1>8
<1>13. g \in Places(t, items)
  BY <1>6, <1>10, <1>11, <1>12 DEF Places
<1>14. \A i \in 1..Len(t) : g[i] \in T \cup {n}
  <2>1. \A i \in 1..k : f[i] \in T
    BY <1>1, <1>2
  <2> QED BY ONLY <2>1, <1>6, <1>8, <1>9
<1>15. \A x \in T \cup {n} : \E i \in 1..Len(t) : g[i] = x
  <2>1. \A x \in T : \E i \in 1..k : f[i] = x
    BY <1>1, <1>2
  <2> QED BY ONLY <2>1, <1>6, <1>8, <1>9
<1> QED BY <1>5, <1>13, <1>14, <1>15 DEF Chosen

(* The loop that picks gives what is at the places. *)
LEMMA PickedIs ==
  ASSUME NEW S, NEW items \in Seq(S), NEW places
  PROVE  Picked(items, places) \in Seq(S) /\ Chosen(Picked(items, places), items, places \cap 1..Len(items))
<1>1. PICK last \in Nat : last = Len(items)
  OBVIOUS
<1>2. PICK turn : turn = [p \in (1..last) \X Seq(S) |->
                            IF p[1] \in places THEN Append(p[2], items[p[1]]) ELSE p[2]]
  OBVIOUS
<1>3. turn \in [(1..last) \X Seq(S) -> Seq(S)]
  <2>1. \A p \in (1..last) \X Seq(S) : p[1] \in 1..last /\ p[2] \in Seq(S) /\ items[p[1]] \in S
    BY <1>1
  <2> QED BY <1>2, <2>1, Pushed
<1>4. <<>> \in Seq(S)
  OBVIOUS
<1>5. PICK w : RunOf(w, Seq(S), <<>>, last, turn)
  BY <1>3, <1>4, Iterates
<1>6. \A n \in 1..last : n \in 0..last /\ n - 1 \in 0..last /\ n # 0
  OBVIOUS
<1>7. \A n \in 0..last : n = 0 \/ n \in 1..last
  OBVIOUS
<1>8. \A n \in 1..last : w[n] = IF n \in places THEN Append(w[n - 1], items[n]) ELSE w[n - 1]
  <2>1. \A n \in 1..last : w[n] = turn[<<n, w[n - 1]>>] /\ w[n - 1] \in Seq(S)
    BY <1>5, <1>6 DEF RunOf
  <2> QED BY <2>1, <1>2
<1>9. w[0] = <<>> /\ w \in [0..last -> Seq(S)]
  BY <1>5 DEF RunOf
<1>10. w = [n \in 0..last |-> IF n = 0 THEN <<>>
                              ELSE IF n \in places THEN Append(w[n - 1], items[n]) ELSE w[n - 1]]
  <2>1. \A n \in 0..last : w[n] = IF n = 0 THEN <<>>
                                  ELSE IF n \in places THEN Append(w[n - 1], items[n]) ELSE w[n - 1]
    BY <1>6, <1>7, <1>8, <1>9
  <2> QED BY <2>1, <1>9
<1>11. PICK v : v = CHOOSE u : u = [n \in 0..last |->
                       IF n = 0 THEN <<>>
                       ELSE IF n \in places THEN Append(u[n - 1], items[n]) ELSE u[n - 1]]
  OBVIOUS
<1>12. v = [n \in 0..last |-> IF n = 0 THEN <<>>
                              ELSE IF n \in places THEN Append(v[n - 1], items[n]) ELSE v[n - 1]]
  BY <1>10, <1>11
<1>13. Picked(items, places) = v[last]
  BY <1>1, <1>11 DEF Picked
<1>14. PICK H : H = {n \in 0..last : v[n] \in Seq(S) /\ Chosen(v[n], items, places \cap 1..n)}
  OBVIOUS
<1>15. 0 \in H
  <2>1. v[0] = <<>> /\ places \cap 1..0 = {} /\ 0 \in 0..last
    BY <1>12
  <2>2. PICK e : e = <<>>
    OBVIOUS
  <2>3. e \in Seq(S) /\ Len(e) = 0 /\ 1..Len(e) = {}
    BY <2>2
  <2>4. PICK f : f = [i \in 1..Len(e) |-> i]
    OBVIOUS
  <2>5. f \in [1..Len(e) -> 1..Len(items)]
    BY <2>3, <2>4
  <2>6. f \in Places(e, items)
    BY <2>3, <2>5 DEF Places
  <2>7. Chosen(e, items, {})
    BY <2>3, <2>6 DEF Chosen
  <2>8. v[0] \in Seq(S) /\ Chosen(v[0], items, places \cap 1..0)
    BY ONLY <2>1, <2>2, <2>3, <2>7
  <2> QED BY ONLY <2>1, <2>8, <1>14
<1>16. ASSUME NEW n \in 1..last, n - 1 \in H
       PROVE  n \in H
  <2>1. v[n - 1] \in Seq(S) /\ Chosen(v[n - 1], items, places \cap 1..n - 1)
    BY <1>14, <1>16
  <2>2. v[n] = IF n \in places THEN Append(v[n - 1], items[n]) ELSE v[n - 1]
    BY <1>6, <1>12
  <2>3. n \in 0..last /\ n \in 1..Len(items) /\ items[n] \in S
    BY <1>1
  <2>4. CASE n \in places
    <3>1. v[n] = Append(v[n - 1], items[n])
      BY <2>2, <2>4
    <3>2. places \cap 1..n = (places \cap 1..n - 1) \cup {n} /\ \A x \in places \cap 1..n - 1 : x < n
      BY <2>4
    <3>3. Chosen(v[n], items, places \cap 1..n)
      <4>1. PICK T : T = places \cap 1..n - 1
        OBVIOUS
      <4>2. PICK s : s = v[n - 1]
        OBVIOUS
      <4>3. s \in Seq(S) /\ Chosen(s, items, T) /\ \A x \in T : x < n
        BY <4>1, <4>2, <3>2, <2>1
      <4>4. Chosen(Append(s, items[n]), items, T \cup {n})
        BY ONLY <4>3, <2>3, items \in Seq(S), ChosenMore
      <4> QED BY <4>1, <4>2, <4>4, <3>1, <3>2
    <3>4. v[n] \in Seq(S)
      BY <3>1, <2>1, <2>3
    <3> QED BY <3>3, <3>4, <2>3, <1>14
  <2>5. CASE n \notin places
    <3>1. v[n] = v[n - 1]
      BY <2>2, <2>5
    <3>2. places \cap 1..n = places \cap 1..n - 1
      BY <2>5
    <3> QED BY <3>1, <3>2, <2>1, <2>3, <1>14
  <2> QED BY <2>4, <2>5
<1>17. \A n \in 0..last : n \in H
  BY <1>15, <1>16, UpTo
<1>18. last \in H
  BY <1>17
<1> QED BY <1>1, <1>13, <1>14, <1>18

(* What a filter keeps. *)
LEMMA KeptIs ==
  ASSUME NEW items \in Seq(Item)
  PROVE  /\ Kept(items) \in Seq(Item)
         /\ Chosen(Kept(items), items, {x \in 1..Len(items) : items[x].hit})
<1>1. PICK T : T = {x \in DOMAIN items : items[x].hit}
  OBVIOUS
<1>2. T \cap 1..Len(items) = {x \in 1..Len(items) : items[x].hit}
  BY <1>1
<1>3. Kept(items) = Picked(items, T)
  BY <1>1 DEF Kept
<1>4. Picked(items, T) \in Seq(Item) /\ Chosen(Picked(items, T), items, T \cap 1..Len(items))
  BY PickedIs
<1> QED BY <1>2, <1>3, <1>4

LEMMA ChosenInside ==
  ASSUME NEW S, NEW s \in Seq(S), NEW items \in Seq(S), NEW T, Chosen(s, items, T)
  PROVE  Inside(s, items)
BY DEF Chosen, Inside

(* A part of a listing that leaves out no hit. *)
Covers(s, t) ==
  \E f \in Places(s, t) : \A x \in 1..Len(t) : t[x].hit => \E i \in 1..Len(s) : f[i] = x

LEMMA CoversInside == ASSUME NEW s, NEW t, Covers(s, t) PROVE Inside(s, t)
BY DEF Covers, Inside

LEMMA CoversSelf ==
  ASSUME NEW S, NEW s \in Seq(S)
  PROVE  Covers(s, s)
<1>1. PICK f : f = [i \in 1..Len(s) |-> i]
  OBVIOUS
<1>2. f \in Places(s, s) /\ \A x \in 1..Len(s) : f[x] = x
  BY <1>1 DEF Places
<1> QED BY <1>2 DEF Covers

LEMMA CoversJoined ==
  ASSUME NEW S, NEW s \in Seq(S), NEW t \in Seq(S), NEW u \in Seq(S), NEW v \in Seq(S),
         Covers(s, u), Covers(t, v)
  PROVE  Covers(s \o t, u \o v)
<1>1. PICK f \in Places(s, u) : \A x \in 1..Len(u) : u[x].hit => \E i \in 1..Len(s) : f[i] = x
  BY DEF Covers
<1>2. PICK g \in Places(t, v) : \A x \in 1..Len(v) : v[x].hit => \E i \in 1..Len(t) : g[i] = x
  BY DEF Covers
<1>3. PICK k \in Nat, l \in Nat, m \in Nat, n \in Nat : k = Len(s) /\ l = Len(t) /\ m = Len(u) /\ n = Len(v)
  OBVIOUS
<1>4. PICK h : h = JoinedPlaces(f, g, k, l, m)
  OBVIOUS
<1>5. PICK a, b : a = s \o t /\ b = u \o v
  OBVIOUS
<1>6. h \in Places(a, b)
  BY <1>1, <1>2, <1>3, <1>4, <1>5, PlacesJoined
<1>7. Len(a) = k + l
  BY <1>3, <1>5, JoinedIs
<1>8. Len(b) = m + n /\ (\A i \in 1..m : b[i] = u[i]) /\ \A i \in 1..n : b[m + i] = v[i]
  BY <1>3, <1>5, JoinedIs
<1>9. h = [i \in 1..k + l |-> IF i <= k THEN f[i] ELSE m + g[i - k]]
  BY <1>4 DEF JoinedPlaces
<1>10. ASSUME NEW x \in 1..m + n, b[x].hit
       PROVE  \E i \in 1..k + l : h[i] = x
  <2>1. CASE x <= m
    <3>1. x \in 1..m
      BY <2>1, <1>10
    <3>2. u[x].hit
      BY <3>1, <1>8, <1>10
    <3>3. PICK i \in 1..k : f[i] = x
      BY <3>1, <3>2, <1>1, <1>3
    <3>4. i \in 1..k + l /\ h[i] = x
      BY <3>3, <1>9
    <3> QED BY <3>4
  <2>2. CASE ~(x <= m)
    <3>1. PICK y : y = x - m
      OBVIOUS
    <3>2. y \in 1..n /\ m + y = x
      BY <2>2, <3>1, <1>10
    <3>3. v[y].hit
      BY <3>2, <1>8, <1>10
    <3>4. PICK i \in 1..l : g[i] = y
      BY <3>2, <3>3, <1>2, <1>3
    <3>5. k + i \in 1..k + l /\ ~(k + i <= k) /\ (k + i) - k = i
      OBVIOUS
    <3>6. h[k + i] = m + g[i]
      BY <3>5, <1>9
    <3> QED BY <3>2, <3>4, <3>5, <3>6
  <2> QED BY <2>1, <2>2
<1> QED BY <1>3, <1>5, <1>6, <1>7, <1>8, <1>10 DEF Covers

(* The hits of a part are hits of the whole, and all of them if it covers it. *)
LEMMA KeptInside ==
  ASSUME NEW s \in Seq(Item), NEW t \in Seq(Item), Inside(s, t)
  PROVE  Inside(Kept(s), Kept(t)) /\ (Covers(s, t) => Kept(s) = Kept(t))
<1>1. PICK a \in Seq(Item), b \in Seq(Item) : a = Kept(s) /\ b = Kept(t)
  BY KeptIs
<1>2. ASSUME NEW f \in Places(s, t)
      PROVE  \E p \in Places(a, t) :
               /\ \A i \in 1..Len(a) : t[p[i]].hit
               /\ \A j \in 1..Len(s) : s[j].hit => \E i \in 1..Len(a) : p[i] = f[j]
  <2>1. Chosen(a, s, {x \in 1..Len(s) : s[x].hit})
    BY <1>1, KeptIs
  <2>2. PICK g \in Places(a, s) :
          /\ \A i \in 1..Len(a) : g[i] \in {x \in 1..Len(s) : s[x].hit}
          /\ \A x \in {x \in 1..Len(s) : s[x].hit} : \E i \in 1..Len(a) : g[i] = x
    BY <2>1 DEF Chosen
  <2>3. PICK p : p = [i \in 1..Len(a) |-> f[g[i]]]
    OBVIOUS
  <2>4. /\ f \in [1..Len(s) -> 1..Len(t)] /\ \A i \in 1..Len(s) : s[i] = t[f[i]]
        /\ \A i, j \in 1..Len(s) : i < j => f[i] < f[j]
    BY DEF Places
  <2>5. /\ g \in [1..Len(a) -> 1..Len(s)] /\ \A i \in 1..Len(a) : a[i] = s[g[i]]
        /\ \A i, j \in 1..Len(a) : i < j => g[i] < g[j]
    BY DEF Places
  <2>6. \A i \in 1..Len(a) : g[i] \in 1..Len(s) /\ p[i] = f[g[i]] /\ f[g[i]] \in 1..Len(t)
    BY <2>3, <2>4, <2>5
  <2>7. p \in [1..Len(a) -> 1..Len(t)]
    BY <2>3, <2>6
  <2>8. \A i \in 1..Len(a) : a[i] = t[p[i]]
    BY <2>4, <2>5, <2>6
  <2>9. \A i, j \in 1..Len(a) : i < j => p[i] < p[j]
    BY <2>4, <2>5, <2>6
  <2>10. p \in Places(a, t)
    BY <2>7, <2>8, <2>9 DEF Places
  <2>11. \A i \in 1..Len(a) : t[p[i]].hit
    BY ONLY <2>2, <2>4, <2>6
  <2>12. \A j \in 1..Len(s) : s[j].hit => \E i \in 1..Len(a) : p[i] = f[j]
    BY <2>2, <2>6
  <2> QED BY <2>10, <2>11, <2>12
<1>3. PICK h \in Places(b, t) :
        /\ \A i \in 1..Len(b) : h[i] \in {x \in 1..Len(t) : t[x].hit}
        /\ \A x \in {x \in 1..Len(t) : t[x].hit} : \E i \in 1..Len(b) : h[i] = x
  <2>1. Chosen(b, t, {x \in 1..Len(t) : t[x].hit})
    BY <1>1, KeptIs
  <2> QED BY <2>1 DEF Chosen
<1>4. Inside(a, b)
  <2>1. PICK f : f \in Places(s, t)
    BY DEF Inside
  <2>2. PICK p \in Places(a, t) : \A i \in 1..Len(a) : t[p[i]].hit
    BY <2>1, <1>2
  <2>3. \A i \in 1..Len(a) : p[i] \in 1..Len(t)
    BY <2>2 DEF Places
  <2>4. \A i \in 1..Len(a) : \E j \in 1..Len(b) : h[j] = p[i]
    BY <2>2, <2>3, <1>3
  <2> QED BY <2>2, <2>4, <1>3, InsideWider
<1>5. ASSUME Covers(s, t)
      PROVE  Inside(b, a)
  <2>1. PICK f \in Places(s, t) : \A x \in 1..Len(t) : t[x].hit => \E i \in 1..Len(s) : f[i] = x
    BY <1>5 DEF Covers
  <2>2. PICK p \in Places(a, t) : \A j \in 1..Len(s) : s[j].hit => \E i \in 1..Len(a) : p[i] = f[j]
    BY <2>1, <1>2
  <2>3. ASSUME NEW i \in 1..Len(b)
        PROVE  \E j \in 1..Len(a) : p[j] = h[i]
    <3>1. h[i] \in 1..Len(t) /\ t[h[i]].hit
      BY <1>3
    <3>2. PICK j \in 1..Len(s) : f[j] = h[i]
      BY <3>1, <2>1
    <3>3. s[j] = t[f[j]]
      BY <2>1 DEF Places
    <3>4. s[j].hit
      BY <3>1, <3>2, <3>3
    <3> QED BY <3>2, <3>4, <2>2
  <2> QED BY <2>2, <2>3, <1>3, InsideWider
<1> QED BY <1>1, <1>4, <1>5, InsideEach

LEMMA KeptWithin ==
  ASSUME NEW s \in Seq(Item)
  PROVE  Kept(s) \in Seq(Item) /\ Inside(Kept(s), s)
BY KeptIs, ChosenInside

(* Lists of one, two and three put together. *)
FlatOf(q, w) == w = [i \in 1..Len(q) |-> IF i = 1 THEN q[i] ELSE w[i - 1] \o q[i]]

LEMMA FlatIs ==
  ASSUME NEW q, Len(q) \in Nat \ {0}, NEW w, FlatOf(q, w)
  PROVE  \E v : FlatOf(q, v) /\ FlattenSeq(q) = v[Len(q)]
<1>1. PICK v : v = CHOOSE u : u = [i \in 1..Len(q) |-> IF i = 1 THEN q[i] ELSE u[i - 1] \o q[i]]
  OBVIOUS
<1>2. FlatOf(q, v)
  BY <1>1 DEF FlatOf
<1>3. FlattenSeq(q) = v[Len(q)]
  BY <1>1 DEF FlattenSeq
<1> QED BY <1>2, <1>3

LEMMA FlatOne ==
  ASSUME NEW q, Len(q) = 1
  PROVE  FlattenSeq(q) = q[1]
<1>1. PICK w : w = [i \in 1..1 |-> q[i]]
  OBVIOUS
<1>2. FlatOf(q, w)
  BY <1>1 DEF FlatOf
<1>0. Len(q) \in Nat \ {0}
  OBVIOUS
<1>3. PICK v : FlatOf(q, v) /\ FlattenSeq(q) = v[Len(q)]
  BY ONLY <1>0, <1>2, FlatIs
<1> QED BY <1>3 DEF FlatOf

LEMMA FlatTwo ==
  ASSUME NEW q, Len(q) = 2
  PROVE  FlattenSeq(q) = q[1] \o q[2]
<1>1. PICK w : w = [i \in 1..2 |-> IF i = 1 THEN q[1] ELSE q[1] \o q[2]]
  OBVIOUS
<1>2. \A i \in 1..2 : i = 1 \/ (i = 2 /\ i - 1 \in 1..2 /\ i - 1 = 1)
  OBVIOUS
<1>3. w[1] = q[1] /\ w[2] = q[1] \o q[2]
  BY <1>1
<1>4. \A i \in 1..2 : w[i] = IF i = 1 THEN q[i] ELSE w[i - 1] \o q[i]
  BY <1>2, <1>3
<1>5. FlatOf(q, w)
  BY <1>1, <1>4 DEF FlatOf
<1>0. Len(q) \in Nat \ {0}
  OBVIOUS
<1>6. PICK v : FlatOf(q, v) /\ FlattenSeq(q) = v[Len(q)]
  BY ONLY <1>0, <1>5, FlatIs
<1>7. v[1] = q[1] /\ v[2] = v[1] \o q[2]
  <2>1. \A i \in 1..2 : v[i] = IF i = 1 THEN q[i] ELSE v[i - 1] \o q[i]
    BY <1>6 DEF FlatOf
  <2>2. v[1] = IF 1 = 1 THEN q[1] ELSE v[1 - 1] \o q[1]
    BY <2>1
  <2>3. v[2] = IF 2 = 1 THEN q[2] ELSE v[2 - 1] \o q[2]
    BY <2>1
  <2>12. 2 - 1 = 1 /\ 2 # 1
    OBVIOUS
  <2> QED BY ONLY <2>2, <2>3, <2>12, Zenon
<1> QED BY <1>6, <1>7

LEMMA FlatThree ==
  ASSUME NEW q, Len(q) = 3
  PROVE  FlattenSeq(q) = (q[1] \o q[2]) \o q[3]
<1>1. PICK w : w = [i \in 1..3 |-> IF i = 1 THEN q[1]
                                  ELSE IF i = 2 THEN q[1] \o q[2] ELSE (q[1] \o q[2]) \o q[3]]
  OBVIOUS
<1>2. \A i \in 1..3 : i = 1 \/ (i = 2 /\ i - 1 = 1) \/ (i = 3 /\ i - 1 = 2)
  OBVIOUS
<1>3. w[1] = q[1] /\ w[2] = q[1] \o q[2] /\ w[3] = (q[1] \o q[2]) \o q[3]
  BY <1>1
<1>4. \A i \in 1..3 : w[i] = IF i = 1 THEN q[i] ELSE w[i - 1] \o q[i]
  BY <1>2, <1>3
<1>5. FlatOf(q, w)
  BY <1>1, <1>4 DEF FlatOf
<1>0. Len(q) \in Nat \ {0}
  OBVIOUS
<1>6. PICK v : FlatOf(q, v) /\ FlattenSeq(q) = v[Len(q)]
  BY ONLY <1>0, <1>5, FlatIs
<1>7. v[1] = q[1] /\ v[2] = v[1] \o q[2] /\ v[3] = v[2] \o q[3]
  <2>1. \A i \in 1..3 : v[i] = IF i = 1 THEN q[i] ELSE v[i - 1] \o q[i]
    BY <1>6 DEF FlatOf
  <2>2. v[1] = IF 1 = 1 THEN q[1] ELSE v[1 - 1] \o q[1]
    BY <2>1
  <2>3. v[2] = IF 2 = 1 THEN q[2] ELSE v[2 - 1] \o q[2]
    BY <2>1
  <2>12. 2 - 1 = 1 /\ 2 # 1
    OBVIOUS
  <2>4. v[3] = IF 3 = 1 THEN q[3] ELSE v[3 - 1] \o q[3]
    BY <2>1
  <2>13. 3 - 1 = 2 /\ 3 # 1
    OBVIOUS
  <2> QED BY ONLY <2>2, <2>3, <2>4, <2>12, <2>13, Zenon
<1> QED BY <1>6, <1>7

-----------------------------------------------------------------------------
(* The listings of a tool. *)

(* The listings a tool reads, one after another. *)
All == FlattenSeq([i \in DOMAIN Sources(tool) |-> program[Sources(tool)[i]]])

LEMMA AllOne ==
  ASSUME AnyProgram, NEW a, Sources(tool) = <<a>>
  PROVE  program[a] \in Seq(Item) /\ All = program[a]
<1>1. PICK s : s = <<a>>
  OBVIOUS
<1>2. DOMAIN s = 1..1 /\ s[1] = a
  BY <1>1
<1>3. a \in ToSet(s)
  BY <1>2 DEF ToSet
<1>4. program[a] \in Seq(Item)
  BY <1>1, <1>3 DEF AnyProgram
<1>5. PICK q : q = [i \in DOMAIN s |-> program[s[i]]]
  OBVIOUS
<1>6. Len(q) = 1 /\ q[1] = program[a]
  BY <1>2, <1>5
<1>7. FlattenSeq(q) = q[1]
  BY <1>6, FlatOne
<1> QED BY <1>1, <1>4, <1>5, <1>6, <1>7 DEF All

LEMMA AllTwo ==
  ASSUME AnyProgram, NEW a, NEW b, Sources(tool) = <<a, b>>
  PROVE  program[a] \in Seq(Item) /\ program[b] \in Seq(Item) /\ All = program[a] \o program[b]
<1>1. PICK s : s = <<a, b>>
  OBVIOUS
<1>2. DOMAIN s = 1..2 /\ s[1] = a /\ s[2] = b /\ 1 \in 1..2 /\ 2 \in 1..2
  BY <1>1
<1>3. a \in ToSet(s) /\ b \in ToSet(s)
  BY <1>2 DEF ToSet
<1>4. program[a] \in Seq(Item) /\ program[b] \in Seq(Item)
  BY <1>1, <1>3 DEF AnyProgram
<1>5. PICK q : q = [i \in DOMAIN s |-> program[s[i]]]
  OBVIOUS
<1>6. Len(q) = 2 /\ q[1] = program[a] /\ q[2] = program[b]
  BY <1>2, <1>5
<1>7. FlattenSeq(q) = q[1] \o q[2]
  BY <1>6, FlatTwo
<1> QED BY <1>1, <1>4, <1>5, <1>6, <1>7 DEF All

LEMMA AllThree ==
  ASSUME AnyProgram, NEW a, NEW b, NEW c, Sources(tool) = <<a, b, c>>
  PROVE  /\ program[a] \in Seq(Item) /\ program[b] \in Seq(Item) /\ program[c] \in Seq(Item)
         /\ All = (program[a] \o program[b]) \o program[c]
<1>1. PICK s : s = <<a, b, c>>
  OBVIOUS
<1>2. DOMAIN s = 1..3 /\ s[1] = a /\ s[2] = b /\ s[3] = c /\ 1 \in 1..3 /\ 2 \in 1..3 /\ 3 \in 1..3
  BY <1>1
<1>3. a \in ToSet(s) /\ b \in ToSet(s) /\ c \in ToSet(s)
  BY <1>2 DEF ToSet
<1>4. program[a] \in Seq(Item) /\ program[b] \in Seq(Item) /\ program[c] \in Seq(Item)
  BY <1>1, <1>3 DEF AnyProgram
<1>5. PICK q : q = [i \in DOMAIN s |-> program[s[i]]]
  OBVIOUS
<1>6. Len(q) = 3 /\ q[1] = program[a] /\ q[2] = program[b] /\ q[3] = program[c]
  BY <1>2, <1>5
<1>7. FlattenSeq(q) = (q[1] \o q[2]) \o q[3]
  BY <1>6, FlatThree
<1> QED BY <1>1, <1>4, <1>5, <1>6, <1>7 DEF All

(* No item is in a listing twice, nor in two of a tool's listings. *)
LEMMA ListingOnce ==
  ASSUME AnyProgram, NEW k \in ToSet(Sources(tool))
  PROVE  /\ program[k] \in Seq(Item) /\ \A i, j \in 1..Len(program[k]) : program[k][i] = program[k][j] => i = j
         /\ \A i \in 1..Len(program[k]) : program[k][i].kind = k
<1>1. /\ program[k] \in Seq(Item)
      /\ \A i \in DOMAIN program[k] : program[k][i].kind = k /\ program[k][i].n = i
  BY DEF AnyProgram
<1>2. DOMAIN program[k] = 1..Len(program[k])
  BY <1>1
<1> QED BY <1>1, <1>2

(* Two sequences with nothing in common, one after the other. *)
Once(s) == \A i, j \in 1..Len(s) : s[i] = s[j] => i = j

LEMMA OnceJoined ==
  ASSUME NEW s \in Seq(Item), NEW t \in Seq(Item), Once(s), Once(t),
         NEW K, \A i \in 1..Len(s) : s[i].kind \in K, \A i \in 1..Len(t) : t[i].kind \notin K
  PROVE  Once(s \o t)
<1>1. PICK k \in Nat, l \in Nat : k = Len(s) /\ l = Len(t)
  OBVIOUS
<1>2. PICK a : a = s \o t
  OBVIOUS
<1>3. Len(a) = k + l /\ (\A i \in 1..k : a[i] = s[i]) /\ \A i \in 1..l : a[k + i] = t[i]
  BY <1>1, <1>2, JoinedIs
<1>4. \A i \in 1..k + l : i \in 1..k \/ (i - k \in 1..l /\ k + (i - k) = i)
  OBVIOUS
<1>5. ASSUME NEW i \in 1..k + l, NEW j \in 1..k + l, a[i] = a[j]
      PROVE  i = j
  <2>1. CASE i \in 1..k /\ j \in 1..k
    BY <2>1, <1>1, <1>3, <1>5 DEF Once
  <2>2. CASE i \in 1..k /\ j - k \in 1..l /\ k + (j - k) = j
    <3>1. a[i] = s[i] /\ a[j] = t[j - k]
      BY <2>2, <1>3
    <3>2. s[i].kind \in K /\ t[j - k].kind \notin K
      BY <2>2, <1>1
    <3> QED BY <3>1, <3>2, <1>5
  <2>3. CASE i - k \in 1..l /\ k + (i - k) = i /\ j \in 1..k
    <3>1. a[j] = s[j] /\ a[i] = t[i - k]
      BY <2>3, <1>3
    <3>2. s[j].kind \in K /\ t[i - k].kind \notin K
      BY <2>3, <1>1
    <3> QED BY <3>1, <3>2, <1>5
  <2>4. CASE i - k \in 1..l /\ k + (i - k) = i /\ j - k \in 1..l /\ k + (j - k) = j
    <3>1. a[i] = t[i - k] /\ a[j] = t[j - k]
      BY <2>4, <1>3
    <3>2. i - k = j - k
      BY <2>4, <3>1, <1>1, <1>5 DEF Once
    <3> QED BY <2>4, <3>2
  <2> QED BY <2>1, <2>2, <2>3, <2>4, <1>4
<1> QED BY <1>2, <1>3, <1>5 DEF Once

LEMMA KindsJoined ==
  ASSUME NEW s \in Seq(Item), NEW t \in Seq(Item), NEW K, NEW M,
         \A i \in 1..Len(s) : s[i].kind \in K, \A i \in 1..Len(t) : t[i].kind \in M
  PROVE  \A i \in 1..Len(s \o t) : (s \o t)[i].kind \in K \cup M
<1>1. PICK k \in Nat, l \in Nat : k = Len(s) /\ l = Len(t)
  OBVIOUS
<1>2. PICK a : a = s \o t
  OBVIOUS
<1>3. Len(a) = k + l /\ (\A i \in 1..k : a[i] = s[i]) /\ \A i \in 1..l : a[k + i] = t[i]
  BY <1>1, <1>2, JoinedIs
<1>4. \A i \in 1..k + l : i \in 1..k \/ (i - k \in 1..l /\ k + (i - k) = i)
  OBVIOUS
<1>5. ASSUME NEW i \in 1..k + l
      PROVE  a[i].kind \in K \cup M
  <2>1. CASE i \in 1..k
    <3>1. a[i] = s[i] /\ s[i].kind \in K
      BY <2>1, <1>1, <1>3
    <3> QED BY <3>1
  <2>2. CASE i - k \in 1..l /\ k + (i - k) = i
    <3>1. a[i] = t[i - k] /\ t[i - k].kind \in M
      BY <2>2, <1>1, <1>3
    <3> QED BY <3>1
  <2> QED BY <2>1, <2>2, <1>4
<1> QED BY <1>2, <1>3, <1>5

(* The kinds of item a tool reads are one, two or three, all different. *)
LEMMA SourcesAre ==
  \/ \E a : Sources(tool) = <<a>>
  \/ \E a, b : a # b /\ Sources(tool) = <<a, b>>
  \/ \E a, b, c : a # b /\ a # c /\ b # c /\ Sources(tool) = <<a, b, c>>
<1>1. CASE tool = "crypto_detect"
  <2>1. Sources(tool) = <<"imports", "strings", "opcodes">>
    BY <1>1 DEF Sources, CodeTools
  <2> QED BY <2>1
<1>2. CASE tool = "capability_scan"
  <2>1. Sources(tool) = <<"imports", "exports", "strings">>
    BY <1>2 DEF Sources, CodeTools
  <2> QED BY <2>1
<1>3. CASE tool = "secret_scan"
  <2>1. Sources(tool) = <<"strings", "blocks">>
    BY <1>3 DEF Sources, CodeTools
  <2> QED BY <2>1
<1>4. CASE tool \notin {"crypto_detect", "capability_scan", "secret_scan"}
  <2>1. \E a : Sources(tool) = <<a>>
    BY <1>4 DEF Sources, CodeTools
  <2> QED BY <2>1
<1> QED BY <1>1, <1>2, <1>3, <1>4

LEMMA AllOnce ==
  ASSUME AnyProgram
  PROVE  All \in Seq(Item) /\ Once(All)
<1>1. ASSUME NEW k \in ToSet(Sources(tool))
      PROVE  /\ program[k] \in Seq(Item) /\ Once(program[k])
             /\ \A i \in 1..Len(program[k]) : program[k][i].kind \in {k}
  BY <1>1, ListingOnce DEF Once
<1>2. ASSUME NEW a, Sources(tool) = <<a>>
      PROVE  All \in Seq(Item) /\ Once(All)
  <2>1. a \in ToSet(Sources(tool))
    BY <1>2 DEF ToSet
  <2> QED BY <2>1, <1>1, <1>2, AllOne
<1>3. ASSUME NEW a, NEW b, a # b, Sources(tool) = <<a, b>>
      PROVE  All \in Seq(Item) /\ Once(All)
  <2>1. a \in ToSet(Sources(tool)) /\ b \in ToSet(Sources(tool))
    BY <1>3 DEF ToSet
  <2>2. PICK s, t : s = program[a] /\ t = program[b]
    OBVIOUS
  <2>3. /\ s \in Seq(Item) /\ Once(s) /\ \A i \in 1..Len(s) : s[i].kind \in {a}
        /\ t \in Seq(Item) /\ Once(t) /\ \A i \in 1..Len(t) : t[i].kind \notin {a}
    BY <2>1, <2>2, <1>1, <1>3
  <2>4. s \o t \in Seq(Item) /\ Once(s \o t)
    <3>1. PICK K : K = {a}
      OBVIOUS
    <3>2. (\A i \in 1..Len(s) : s[i].kind \in K) /\ \A i \in 1..Len(t) : t[i].kind \notin K
      BY <2>3, <3>1
    <3>3. Once(s \o t)
      BY ONLY <3>2, <2>3, OnceJoined
    <3> QED BY <2>3, <3>3
  <2> QED BY <2>2, <2>4, <1>3, AllTwo
<1>4. ASSUME NEW a, NEW b, NEW c, a # b, a # c, b # c, Sources(tool) = <<a, b, c>>
      PROVE  All \in Seq(Item) /\ Once(All)
  <2>1. a \in ToSet(Sources(tool)) /\ b \in ToSet(Sources(tool)) /\ c \in ToSet(Sources(tool))
    BY <1>4 DEF ToSet
  <2>2. PICK s, t, u : s = program[a] /\ t = program[b] /\ u = program[c]
    OBVIOUS
  <2>3. /\ s \in Seq(Item) /\ Once(s) /\ \A i \in 1..Len(s) : s[i].kind \in {a}
        /\ t \in Seq(Item) /\ Once(t) /\ \A i \in 1..Len(t) : t[i].kind \in {b}
        /\ u \in Seq(Item) /\ Once(u) /\ \A i \in 1..Len(u) : u[i].kind \in {c}
    BY <2>1, <2>2, <1>1
  <2>4. /\ \A i \in 1..Len(t) : t[i].kind \notin {a}
        /\ \A i \in 1..Len(u) : u[i].kind \notin {a} \cup {b}
    BY <2>3, <1>4
  <2>5. PICK d : d = s \o t
    OBVIOUS
  <2>6. d \in Seq(Item) /\ Once(d) /\ \A i \in 1..Len(d) : d[i].kind \in {a} \cup {b}
    <3>1. PICK K, M : K = {a} /\ M = {b}
      OBVIOUS
    <3>2. /\ \A i \in 1..Len(s) : s[i].kind \in K
          /\ \A i \in 1..Len(t) : t[i].kind \notin K
          /\ \A i \in 1..Len(t) : t[i].kind \in M
      BY <2>3, <2>4, <3>1
    <3>3. Once(d)
      BY ONLY <3>2, <2>3, <2>5, OnceJoined
    <3>4. \A i \in 1..Len(d) : d[i].kind \in K \cup M
      BY ONLY <3>2, <2>3, <2>5, KindsJoined
    <3>5. d \in Seq(Item)
      BY <2>3, <2>5
    <3> QED BY <3>1, <3>3, <3>4, <3>5
  <2>7. d \o u \in Seq(Item) /\ Once(d \o u)
    <3>1. PICK K : K = {a} \cup {b}
      OBVIOUS
    <3>2. (\A i \in 1..Len(d) : d[i].kind \in K) /\ \A i \in 1..Len(u) : u[i].kind \notin K
      BY <2>4, <2>6, <3>1
    <3>3. Once(d \o u)
      BY ONLY <3>2, <2>3, <2>6, OnceJoined
    <3> QED BY <2>3, <2>6, <3>3
  <2> QED BY <2>2, <2>5, <2>7, <1>4, AllThree
<1> QED BY <1>2, <1>3, <1>4, SourcesAre

(* What the program holds for a call. *)
LEMMA WantedIs ==
  ASSUME AnyProgram, NEW all, all = All
  PROVE  /\ tool \in Filtered => Wanted = Kept(all)
         /\ tool = "read_bytes" => Wanted = Cut(all, ReadLength)
         /\ tool \notin Filtered /\ tool # "read_bytes" => Wanted = all
BY DEF Wanted, All, Filtered, ScanTools

LEMMA OnceInside ==
  ASSUME NEW s \in Seq(Item), NEW t \in Seq(Item), Inside(s, t), Once(t)
  PROVE  Once(s)
<1>1. PICK f : f \in Places(s, t)
  BY DEF Inside
<1>2. f \in [1..Len(s) -> 1..Len(t)] /\ Len(s) \in Nat /\ Len(t) \in Nat
  BY <1>1 DEF Places
<1>3. /\ \A i \in 1..Len(s) : s[i] = t[f[i]]
      /\ \A i, j \in 1..Len(s) : i < j => f[i] < f[j]
  BY <1>1 DEF Places
<1>4. ASSUME NEW i \in 1..Len(s), NEW j \in 1..Len(s), s[i] = s[j]
      PROVE  i = j
  <2>1. f[i] \in 1..Len(t) /\ f[j] \in 1..Len(t) /\ t[f[i]] = t[f[j]]
    BY <1>2, <1>3, <1>4
  <2>2. f[i] = f[j]
    BY <2>1 DEF Once
  <2>3. ~(f[i] < f[j]) /\ ~(f[j] < f[i])
    BY <2>1, <2>2
  <2>4. ~(i < j) /\ ~(j < i)
    BY <2>3, <1>3
  <2> QED BY <2>4
<1> QED BY <1>4 DEF Once

LEMMA WantedOnce ==
  ASSUME AnyProgram, ReadLength \in Nat
  PROVE  Wanted \in Seq(Item) /\ Once(Wanted)
<1>1. PICK all : all = All
  OBVIOUS
<1>2. all \in Seq(Item) /\ Once(all)
  BY <1>1, AllOnce
<1>3. Kept(all) \in Seq(Item) /\ Inside(Kept(all), all)
  BY <1>2, KeptWithin
<1>4. Cut(all, ReadLength) \in Seq(Item) /\ Inside(Cut(all, ReadLength), all)
  BY <1>2, CutIs, CutInside
<1>5. Once(Kept(all)) /\ Once(Cut(all, ReadLength))
  BY <1>2, <1>3, <1>4, OnceInside
<1> QED BY <1>1, <1>2, <1>3, <1>4, <1>5, WantedIs

(* Items given in their order, none of them twice. *)
LEMMA HonestInside ==
  ASSUME NEW s \in Seq(Item), NEW t \in Seq(Item), Inside(s, t), Once(t)
  PROVE  /\ IsInjective(s) /\ ToSet(s) \subseteq ToSet(t)
         /\ \A i, j \in DOMAIN s : i < j =>
              (CHOOSE k \in DOMAIN t : t[k] = s[i]) < (CHOOSE k \in DOMAIN t : t[k] = s[j])
<1>1. PICK f : f \in Places(s, t)
  BY DEF Inside
<1>2. f \in [1..Len(s) -> 1..Len(t)] /\ DOMAIN s = 1..Len(s) /\ DOMAIN t = 1..Len(t)
  BY <1>1 DEF Places
<1>3. /\ \A i \in 1..Len(s) : s[i] = t[f[i]]
      /\ \A i, j \in 1..Len(s) : i < j => f[i] < f[j]
  BY <1>1 DEF Places
<1>4. IsInjective(s)
  BY <1>2, OnceInside DEF Once, IsInjective
<1>5. ToSet(s) \subseteq ToSet(t)
  BY <1>2, <1>3 DEF ToSet
<1>6. ASSUME NEW i \in 1..Len(s)
      PROVE  (CHOOSE k \in DOMAIN t : t[k] = s[i]) = f[i]
  <2>1. f[i] \in DOMAIN t /\ t[f[i]] = s[i]
    BY <1>2, <1>3
  <2>2. PICK x : x = CHOOSE k \in DOMAIN t : t[k] = s[i]
    OBVIOUS
  <2>3. x \in DOMAIN t /\ t[x] = s[i]
    BY <2>1, <2>2
  <2>4. x = f[i]
    BY <2>1, <2>3, <1>2 DEF Once
  <2> QED BY <2>2, <2>4
<1>7. ASSUME NEW i \in DOMAIN s, NEW j \in DOMAIN s, i < j
      PROVE  (CHOOSE k \in DOMAIN t : t[k] = s[i]) < (CHOOSE k \in DOMAIN t : t[k] = s[j])
  <2>1. PICK x, y : x = (CHOOSE k \in DOMAIN t : t[k] = s[i]) /\ y = (CHOOSE k \in DOMAIN t : t[k] = s[j])
    OBVIOUS
  <2>2. i \in 1..Len(s) /\ j \in 1..Len(s)
    BY <1>2
  <2>3. x = f[i]
    BY <2>1, <2>2, <1>6, Zenon
  <2>4. y = f[j]
    BY <2>1, <2>2, <1>6, Zenon
  <2>5. x < y
    BY <2>2, <2>3, <2>4, <1>3, <1>7
  <2> QED BY <2>1, <2>5
<1> QED BY <1>4, <1>5, <1>7

-----------------------------------------------------------------------------
(* Requests and their replies. *)

(* What a page asks for is what the worker gives it. *)
LEMMA ClampedPage ==
  ASSUME NEW m, m # "read_bytes", NEW a \in [offset : Nat, limit : 1..MaxResults], MaxResults \in Nat
  PROVE  Clamped(m, a) = a
<1>1. ClampCount(a.limit) = a.limit
  BY DEF ClampCount, Greater, Lesser
<1> QED BY <1>1 DEF Clamped

LEMMA ClampedRead ==
  ASSUME ReadConstants, NEW a, a = [offset |-> 0, limit |-> ReadLength]
  PROVE  Clamped("read_bytes", a) = a
<1>1. ReadLength \in Nat /\ ReadLength >= 1 /\ MaxRead \in Nat /\ ReadLength <= MaxRead
  BY DEF ReadConstants
<1>2. ClampRead(ReadLength) = ReadLength
  BY <1>1 DEF ClampRead, Greater, Lesser
<1> QED BY <1>2 DEF Clamped

(* The pages that are read in one go. *)
LEMMA OncePages ==
  ASSUME ReadConstants
  PROVE  /\ MaxResults \in Nat /\ MaxOps \in Nat /\ StringBudget \in Nat /\ ReadLength \in Nat
         /\ MatchBudget \in Nat /\ IdentifyBudget \in Nat /\ MaxBlocks \in Nat
         /\ [offset |-> 0, limit |-> MaxOps] \in [offset : Nat, limit : 1..MaxResults]
         /\ [offset |-> 0, limit |-> MatchBudget] \in [offset : Nat, limit : 1..MaxResults]
         /\ [offset |-> 0, limit |-> IdentifyBudget] \in [offset : Nat, limit : 1..MaxResults]
         /\ Wide \in [offset : Nat, limit : 1..MaxResults]
         /\ MatchBudget < MaxResults
<1>1. /\ MaxResults \in Nat \ {0} /\ MaxOps \in Nat \ {0} /\ StringBudget \in Nat \ {0}
      /\ MatchBudget \in Nat \ {0} /\ MaxBlocks \in Nat \ {0} /\ ReadLength \in Nat \ {0}
      /\ IdentifyBudget \in Nat \ {0} /\ IdentifyBudget <= MaxResults
      /\ StringBudget <= MaxResults /\ MatchBudget < MaxResults /\ MaxOps <= MaxResults
  BY DEF ReadConstants
<1>2. /\ IdentifyBudget \in 1..MaxResults /\ MaxOps \in 1..MaxResults
      /\ MatchBudget \in 1..MaxResults /\ StringBudget \in 1..MaxResults
  BY <1>1
<1> QED BY <1>1, <1>2 DEF Wide

(* A failure, in whatever way, gives no row. *)
Fails(x) == x.kind # "ok" /\ x.rows = <<>>

LEMMA RequestIs ==
  ASSUME NEW m, NEW a, Clamped(m, a) = a
  PROVE  /\ Fails(Request(m, a)) \/ Request(m, a) = Backend(m, program, a)
         /\ m \in Resolving /\ arg = "unknown" => Fails(Request(m, a))
<1>1. /\ Fails(Failed("unknown_method")) /\ Fails(Failed("worker_unavailable"))
      /\ Fails(Failed("not_found")) /\ Fails(Failed("analysis_failed"))
  BY DEF Fails, Failed, None
<1> QED BY <1>1 DEF Request

LEMMA FailClosedIs ==
  ASSUME NEW m, NEW x, NEW needs
  PROVE  /\ Fails(FailClosed(m, x, needs)) \/ FailClosed(m, x, needs) = x
         /\ Fails(x) => Fails(FailClosed(m, x, needs))
<1>1. Fails(Failed("worker_unavailable"))
  BY DEF Fails, Failed, None
<1> QED BY <1>1 DEF FailClosed

(* What the adapter makes of the reply to one request. *)
Relayed(x, m, a) ==
  /\ Fails(x) \/ x = Backend(m, program, a)
  /\ m \in Resolving /\ arg = "unknown" => Fails(x)

LEMMA RelayedAsked ==
  ASSUME NEW m, NEW a, Clamped(m, a) = a, NEW needs
  PROVE  Relayed(FailClosed(m, Request(m, a), needs), m, a) /\ Relayed(Request(m, a), m, a)
<1>1. PICK x : x = Request(m, a)
  OBVIOUS
<1>2. /\ Fails(x) \/ x = Backend(m, program, a)
      /\ m \in Resolving /\ arg = "unknown" => Fails(x)
  BY <1>1, RequestIs
<1>3. /\ Fails(FailClosed(m, x, needs)) \/ FailClosed(m, x, needs) = x
      /\ Fails(x) => Fails(FailClosed(m, x, needs))
  BY FailClosedIs
<1> QED BY <1>1, <1>2, <1>3 DEF Relayed

LEMMA RelayedIs ==
  ASSUME ReadConstants, NEW m, m # "read_bytes", NEW a \in [offset : Nat, limit : 1..MaxResults], NEW needs
  PROVE  Relayed(FailClosed(m, Request(m, a), needs), m, a) /\ Relayed(Request(m, a), m, a)
<1>1. Clamped(m, a) = a
  BY OncePages, ClampedPage
<1> QED BY <1>1, RelayedAsked

(* The backend's method of each request. *)
LEMMA BackendIs ==
  ASSUME NEW p, NEW a
  PROVE  /\ Backend("xrefs_to", p, a) = GhXrefs(p, a)
         /\ Backend("xrefs_from", p, a) = GhXrefs(p, a)
         /\ Backend("list_functions", p, a) = GhListFunctions(p, a)
         /\ Backend("list_strings", p, a) = GhListStrings(p, a)
         /\ Backend("list_symbols", p, a) = GhListSymbols(p, a)
         /\ Backend("list_data", p, a) = GhListData(p, a)
         /\ Backend("list_data_types", p, a) = GhListDataTypes(p, a)
         /\ Backend("get_comments", p, a) = GhGetComments(p, a)
         /\ Backend("search_bytes", p, a) = GhSearchBytes(p, a)
         /\ Backend("search_strings", p, a) = GhSearchStrings(p, a)
         /\ Backend("imports", p, a) = GhImports(p, a)
         /\ Backend("exports", p, a) = GhExports(p, a)
         /\ Backend("ramdisk_list", p, a) = GhRamdiskList(p, a)
         /\ Backend("list_cache_components", p, a) = GhListCacheComponents(p, a)
         /\ Backend("disassemble", p, a) = GhDisassemble(p, a)
         /\ Backend("get_pcode", p, a) = GhGetPcode(p, a)
         /\ Backend("get_high_pcode", p, a) = GhGetHighPcode(p, a)
         /\ Backend("basic_blocks", p, a) = GhBasicBlocks(p, a)
         /\ Backend("referenced_strings", p, a) = GhReferencedStrings(p, a)
         /\ Backend("crypto_instructions", p, a) = GhCryptoInstructions(p, a)
         /\ Backend("identify_functions", p, a) = GhIdentifyFunctions(p, a)
         /\ Backend("memory_map", p, a) = GhMemoryMap(p, a)
         /\ Backend("stack_frame", p, a) = GhStackFrame(p, a)
         /\ Backend("read_bytes", p, a) = GhReadBytes(p, a)
         /\ Backend("decompile_function", p, a) = GhDecompile(p, a)
         /\ Backend("get_function", p, a) = GhGetFunction(p, a)
         /\ Backend("get_symbol", p, a) = GhGetSymbol(p, a)
         /\ Backend("get_data_type", p, a) = GhGetDataType(p, a)
         /\ Backend("function_hash", p, a) = GhFunctionHash(p, a)
         /\ Backend("bsim_similarity", p, a) = GhBsimSimilarity(p, a)
         /\ Backend("program_fingerprint", p, a) = GhProgramFingerprint(p, a)
         /\ Backend("program_metadata", p, a) = GhProgramMetadata(p, a)
         /\ Backend("coverage", p, a) = GhCoverage(p, a)
         /\ Backend("demangle", p, a) = GhDemangle(p, a)
BY DEF Backend

(* The one request behind most tools. *)
LEMMA PortIs ==
  ASSUME ReadConstants, ReadTyped
  PROVE  /\ tool \in DOMAIN ListingTools => Relayed(Port, ListingTools[tool], page)
         /\ tool \in DOMAIN SearchTools => Relayed(Port, SearchTools[tool], page)
         /\ tool \in DOMAIN SymbolTools => Relayed(Port, SymbolTools[tool], page)
         /\ tool \in DOMAIN CodeTools => Relayed(Port, CodeTools[tool], [offset |-> 0, limit |-> MaxOps])
         /\ tool \in DOMAIN SingleTools /\ tool # "read_bytes" =>
              Relayed(Port, tool, [offset |-> 0, limit |-> MaxOps])
         /\ tool = "read_bytes" => Relayed(Port, "read_bytes", [offset |-> 0, limit |-> ReadLength])
         /\ tool \in ScanTools => Port = Scan(ScanSources)
         /\ tool = "identify_functions" => Port = IdentifyFunctions
<1>1. page \in [offset : Nat, limit : 1..MaxResults]
  BY DEF ReadTyped
<1>2. [offset |-> 0, limit |-> MaxOps] \in [offset : Nat, limit : 1..MaxResults]
  BY OncePages
<1>3. /\ DOMAIN ListingTools = {"list_functions", "xrefs_to", "xrefs_from", "list_strings", "ramdisk_list",
                                "list_cache_components", "list_symbols", "list_data", "get_comments"}
      /\ DOMAIN SearchTools = {"list_data_types", "search_bytes", "search_strings"}
      /\ DOMAIN SymbolTools = {"list_imports", "list_exports"}
      /\ DOMAIN CodeTools = {"disassemble", "get_pcode", "get_high_pcode", "basic_blocks"}
      /\ DOMAIN SingleTools = {"decompile_function", "stack_frame", "function_hash", "program_fingerprint",
                               "bsim_similarity", "get_function", "get_symbol", "get_data_type", "memory_map",
                               "read_bytes", "demangle", "program_metadata", "coverage"}
  BY DEF ListingTools, SearchTools, SymbolTools, CodeTools, SingleTools
<1>4. CASE tool \in DOMAIN ListingTools
  <2>1. tool \notin DOMAIN SearchTools /\ tool \notin DOMAIN SymbolTools /\ tool \notin DOMAIN CodeTools
        /\ tool \notin DOMAIN SingleTools /\ tool \notin ScanTools /\ tool # "identify_functions"
    BY <1>3, <1>4 DEF ScanTools
  <2>2. Port = FailClosed(ListingTools[tool], Request(ListingTools[tool], page), {"row", "key"})
    BY <1>4 DEF Port, BuildListing
  <2>3. ListingTools[tool] # "read_bytes" /\ tool # "read_bytes"
    BY <1>3, <1>4 DEF ListingTools
  <2> QED BY <1>1, <2>1, <2>2, <2>3, RelayedIs
<1>5. CASE tool \in DOMAIN SearchTools
  <2>1. tool \notin DOMAIN ListingTools /\ tool \notin DOMAIN SymbolTools /\ tool \notin DOMAIN CodeTools
        /\ tool \notin DOMAIN SingleTools /\ tool \notin ScanTools /\ tool # "identify_functions"
    BY <1>3, <1>5 DEF ScanTools
  <2>2. Port = FailClosed(SearchTools[tool], Request(SearchTools[tool], page), {"row", "key"})
    BY <1>5, <2>1 DEF Port, BuildSearch
  <2>3. SearchTools[tool] # "read_bytes" /\ tool # "read_bytes"
    BY <1>3, <1>5 DEF SearchTools
  <2> QED BY <1>1, <2>1, <2>2, <2>3, RelayedIs
<1>6. CASE tool \in DOMAIN SymbolTools
  <2>1. tool \notin DOMAIN ListingTools /\ tool \notin DOMAIN SearchTools /\ tool \notin DOMAIN CodeTools
        /\ tool \notin DOMAIN SingleTools /\ tool \notin ScanTools /\ tool # "identify_functions"
    BY <1>3, <1>6 DEF ScanTools
  <2>2. Port = FailClosed(SymbolTools[tool], Request(SymbolTools[tool], page), {"row", "key"})
    BY <1>6, <2>1 DEF Port, BuildSymbols
  <2>3. SymbolTools[tool] # "read_bytes" /\ tool # "read_bytes"
    BY <1>3, <1>6 DEF SymbolTools
  <2> QED BY <1>1, <2>1, <2>2, <2>3, RelayedIs
<1>7. CASE tool \in DOMAIN CodeTools
  <2>1. tool \notin DOMAIN ListingTools /\ tool \notin DOMAIN SearchTools /\ tool \notin DOMAIN SymbolTools
        /\ tool \notin DOMAIN SingleTools /\ tool \notin ScanTools /\ tool # "identify_functions"
    BY <1>3, <1>7 DEF ScanTools
  <2>2. Port = FailClosed(CodeTools[tool], Request(CodeTools[tool], AtOnce), {"row"})
    BY <1>7, <2>1 DEF Port, BuildCode
  <2>4. AtOnce = [offset |-> 0, limit |-> MaxOps]
    BY <1>3, <1>7 DEF AtOnce
  <2>3. CodeTools[tool] # "read_bytes" /\ tool # "read_bytes"
    BY <1>3, <1>7 DEF CodeTools
  <2> QED BY <1>2, <2>1, <2>2, <2>3, <2>4, RelayedIs
<1>8. CASE tool \in DOMAIN SingleTools
  <2>1. tool \notin DOMAIN ListingTools /\ tool \notin DOMAIN SearchTools /\ tool \notin DOMAIN SymbolTools
        /\ tool \notin DOMAIN CodeTools /\ tool \notin ScanTools /\ tool # "identify_functions"
    BY <1>3, <1>8 DEF ScanTools
  <2>2. Port = FailClosed(tool, Request(tool, AtOnce), {"row", "key"})
    BY <1>8, <2>1 DEF Port, BuildSingle
  <2>3. CASE tool = "read_bytes"
    <3>1. AtOnce = [offset |-> 0, limit |-> ReadLength]
      BY <2>3 DEF AtOnce
    <3>2. Clamped("read_bytes", AtOnce) = AtOnce
      BY <3>1, ClampedRead
    <3>3. Relayed(Port, "read_bytes", AtOnce)
      BY <2>2, <2>3, <3>2, RelayedAsked
    <3> QED BY <2>1, <2>3, <3>1, <3>3
  <2>4. CASE tool # "read_bytes"
    <3>1. AtOnce = [offset |-> 0, limit |-> MaxOps]
      BY <2>4 DEF AtOnce
    <3> QED BY <1>2, <2>1, <2>2, <2>4, <3>1, RelayedIs
  <2> QED BY <2>3, <2>4
<1>9. CASE tool \in ScanTools \cup {"identify_functions"}
  <2>1. tool # "read_bytes" /\ tool \notin DOMAIN ListingTools /\ tool \notin DOMAIN SearchTools /\ tool \notin DOMAIN SymbolTools
        /\ tool \notin DOMAIN CodeTools /\ tool \notin DOMAIN SingleTools
    BY <1>3, <1>9 DEF ScanTools
  <2>2. tool \in ScanTools => Port = Scan(ScanSources)
    BY <2>1 DEF Port
  <2>3. tool = "identify_functions" => Port = IdentifyFunctions
    BY <2>1 DEF Port, ScanTools
  <2> QED BY <2>1, <2>2, <2>3
<1>10. tool = "read_bytes" => tool \in DOMAIN SingleTools
  BY <1>3
<1> QED BY ONLY <1>4, <1>5, <1>6, <1>7, <1>8, <1>9, <1>10

-----------------------------------------------------------------------------
(* The tools that are paged. *)

(* A tool that asks for one page of one listing gives that page, or fails. *)
PageOf(items) == Fails(Port) \/ Port = Sliced(items, page)

LEMMA PageListed ==
  ASSUME ReadConstants, ReadTyped, NEW m, Relayed(Port, m, page), NEW items \in Seq(Item),
         Backend(m, program, page) = Listed(items, page) \/ Backend(m, program, page) = Sliced(items, page)
  PROVE  PageOf(items)
<1>1. page.offset \in Nat /\ page.limit \in Nat
  BY OncePages DEF ReadTyped
<1>2. Listed(items, page) = Sliced(items, page)
  BY <1>1, ListedIs
<1> QED BY <1>2 DEF Relayed, PageOf

LEMMA PagedOne ==
  ASSUME ReadConstants, ReadTyped,
         tool \in DOMAIN ListingTools \cup DOMAIN SearchTools \cup DOMAIN SymbolTools
  PROVE  /\ tool = "search_bytes" => Found = Cut(Wanted, MaxResults)
         /\ tool # "search_bytes" => Found = Wanted
         /\ PageOf(Found)
<1>1. AnyProgram
  BY DEF ReadTyped
<1>2. PICK all : all = All
  OBVIOUS
<1>3. tool \notin ScanTools
  BY DEF ListingTools, SearchTools, SymbolTools, ScanTools
<1>4. Found = IF tool = "search_bytes" THEN Cut(Wanted, MaxResults) ELSE Wanted
  BY <1>3 DEF Found
<1>5. tool # "read_bytes" /\ tool \in Filtered <=> tool \in
        {"list_functions", "list_symbols", "list_data_types", "search_strings", "search_bytes"}
  BY <1>3 DEF Filtered, ListingTools, SearchTools, SymbolTools

<1>6. CASE tool = "list_functions"
  <2>1. Sources(tool) = <<"functions">>
    BY <1>6 DEF Sources, CodeTools
  <2>2. program["functions"] \in Seq(Item) /\ all = program["functions"]
    BY <1>1, <1>2, <2>1, AllOne
  <2>3. Wanted = Kept(program["functions"]) /\ Found = Kept(program["functions"])
    BY <1>1, <1>2, <1>4, <1>5, <1>6, <2>2, WantedIs
  <2>4. Found \in Seq(Item)
    BY <2>2, <2>3, KeptIs
  <2>5. Backend("list_functions", program, page) = Listed(Kept(program["functions"]), page)
    BY BackendIs DEF GhListFunctions
  <2>6. Relayed(Port, "list_functions", page)
    BY <1>6, PortIs DEF ListingTools
  <2> QED BY <2>3, <2>4, <2>5, <2>6, <1>4, PageListed
<1>7. CASE tool = "xrefs_to"
  <2>1. Sources(tool) = <<"references">>
    BY <1>7 DEF Sources, CodeTools
  <2>2. program["references"] \in Seq(Item) /\ all = program["references"]
    BY <1>1, <1>2, <2>1, AllOne
  <2>3. Wanted = program["references"] /\ Found = program["references"]
    BY <1>1, <1>2, <1>4, <1>5, <1>7, <2>2, WantedIs
  <2>4. Found \in Seq(Item)
    BY <2>2, <2>3
  <2>5. Backend("xrefs_to", program, page) = Listed(program["references"], page)
    BY BackendIs DEF GhXrefs
  <2>6. Relayed(Port, "xrefs_to", page)
    BY <1>7, PortIs DEF ListingTools
  <2> QED BY <2>3, <2>4, <2>5, <2>6, <1>4, PageListed
<1>8. CASE tool = "xrefs_from"
  <2>1. Sources(tool) = <<"references">>
    BY <1>8 DEF Sources, CodeTools
  <2>2. program["references"] \in Seq(Item) /\ all = program["references"]
    BY <1>1, <1>2, <2>1, AllOne
  <2>3. Wanted = program["references"] /\ Found = program["references"]
    BY <1>1, <1>2, <1>4, <1>5, <1>8, <2>2, WantedIs
  <2>4. Found \in Seq(Item)
    BY <2>2, <2>3
  <2>5. Backend("xrefs_from", program, page) = Listed(program["references"], page)
    BY BackendIs DEF GhXrefs
  <2>6. Relayed(Port, "xrefs_from", page)
    BY <1>8, PortIs DEF ListingTools
  <2> QED BY <2>3, <2>4, <2>5, <2>6, <1>4, PageListed
<1>9. CASE tool = "list_strings"
  <2>1. Sources(tool) = <<"strings">>
    BY <1>9 DEF Sources, CodeTools
  <2>2. program["strings"] \in Seq(Item) /\ all = program["strings"]
    BY <1>1, <1>2, <2>1, AllOne
  <2>3. Wanted = program["strings"] /\ Found = program["strings"]
    BY <1>1, <1>2, <1>4, <1>5, <1>9, <2>2, WantedIs
  <2>4. Found \in Seq(Item)
    BY <2>2, <2>3
  <2>5. Backend("list_strings", program, page) = Listed(program["strings"], page)
    BY BackendIs DEF GhListStrings
  <2>6. Relayed(Port, "list_strings", page)
    BY <1>9, PortIs DEF ListingTools
  <2> QED BY <2>3, <2>4, <2>5, <2>6, <1>4, PageListed
<1>10. CASE tool = "ramdisk_list"
  <2>1. Sources(tool) = <<"members">>
    BY <1>10 DEF Sources, CodeTools
  <2>2. program["members"] \in Seq(Item) /\ all = program["members"]
    BY <1>1, <1>2, <2>1, AllOne
  <2>3. Wanted = program["members"] /\ Found = program["members"]
    BY <1>1, <1>2, <1>4, <1>5, <1>10, <2>2, WantedIs
  <2>4. Found \in Seq(Item)
    BY <2>2, <2>3
  <2>5. Backend("ramdisk_list", program, page) = Sliced(program["members"], page)
    BY BackendIs DEF GhRamdiskList
  <2>6. Relayed(Port, "ramdisk_list", page)
    BY <1>10, PortIs DEF ListingTools
  <2> QED BY <2>3, <2>4, <2>5, <2>6, <1>4, PageListed
<1>11. CASE tool = "list_cache_components"
  <2>1. Sources(tool) = <<"components">>
    BY <1>11 DEF Sources, CodeTools
  <2>2. program["components"] \in Seq(Item) /\ all = program["components"]
    BY <1>1, <1>2, <2>1, AllOne
  <2>3. Wanted = program["components"] /\ Found = program["components"]
    BY <1>1, <1>2, <1>4, <1>5, <1>11, <2>2, WantedIs
  <2>4. Found \in Seq(Item)
    BY <2>2, <2>3
  <2>5. Backend("list_cache_components", program, page) = Sliced(program["components"], page)
    BY BackendIs DEF GhListCacheComponents
  <2>6. Relayed(Port, "list_cache_components", page)
    BY <1>11, PortIs DEF ListingTools
  <2> QED BY <2>3, <2>4, <2>5, <2>6, <1>4, PageListed
<1>12. CASE tool = "list_symbols"
  <2>1. Sources(tool) = <<"symbols">>
    BY <1>12 DEF Sources, CodeTools
  <2>2. program["symbols"] \in Seq(Item) /\ all = program["symbols"]
    BY <1>1, <1>2, <2>1, AllOne
  <2>3. Wanted = Kept(program["symbols"]) /\ Found = Kept(program["symbols"])
    BY <1>1, <1>2, <1>4, <1>5, <1>12, <2>2, WantedIs
  <2>4. Found \in Seq(Item)
    BY <2>2, <2>3, KeptIs
  <2>5. Backend("list_symbols", program, page) = Listed(Kept(program["symbols"]), page)
    BY BackendIs DEF GhListSymbols
  <2>6. Relayed(Port, "list_symbols", page)
    BY <1>12, PortIs DEF ListingTools
  <2> QED BY <2>3, <2>4, <2>5, <2>6, <1>4, PageListed
<1>13. CASE tool = "list_data"
  <2>1. Sources(tool) = <<"data">>
    BY <1>13 DEF Sources, CodeTools
  <2>2. program["data"] \in Seq(Item) /\ all = program["data"]
    BY <1>1, <1>2, <2>1, AllOne
  <2>3. Wanted = program["data"] /\ Found = program["data"]
    BY <1>1, <1>2, <1>4, <1>5, <1>13, <2>2, WantedIs
  <2>4. Found \in Seq(Item)
    BY <2>2, <2>3
  <2>5. Backend("list_data", program, page) = Listed(program["data"], page)
    BY BackendIs DEF GhListData
  <2>6. Relayed(Port, "list_data", page)
    BY <1>13, PortIs DEF ListingTools
  <2> QED BY <2>3, <2>4, <2>5, <2>6, <1>4, PageListed
<1>14. CASE tool = "get_comments"
  <2>1. Sources(tool) = <<"comments">>
    BY <1>14 DEF Sources, CodeTools
  <2>2. program["comments"] \in Seq(Item) /\ all = program["comments"]
    BY <1>1, <1>2, <2>1, AllOne
  <2>3. Wanted = program["comments"] /\ Found = program["comments"]
    BY <1>1, <1>2, <1>4, <1>5, <1>14, <2>2, WantedIs
  <2>4. Found \in Seq(Item)
    BY <2>2, <2>3
  <2>5. Backend("get_comments", program, page) = Listed(program["comments"], page)
    BY BackendIs DEF GhGetComments
  <2>6. Relayed(Port, "get_comments", page)
    BY <1>14, PortIs DEF ListingTools
  <2> QED BY <2>3, <2>4, <2>5, <2>6, <1>4, PageListed
<1>15. CASE tool = "list_data_types"
  <2>1. Sources(tool) = <<"types">>
    BY <1>15 DEF Sources, CodeTools
  <2>2. program["types"] \in Seq(Item) /\ all = program["types"]
    BY <1>1, <1>2, <2>1, AllOne
  <2>3. Wanted = Kept(program["types"]) /\ Found = Kept(program["types"])
    BY <1>1, <1>2, <1>4, <1>5, <1>15, <2>2, WantedIs
  <2>4. Found \in Seq(Item)
    BY <2>2, <2>3, KeptIs
  <2>5. Backend("list_data_types", program, page) = Listed(Kept(program["types"]), page)
    BY BackendIs DEF GhListDataTypes
  <2>6. Relayed(Port, "list_data_types", page)
    BY <1>15, PortIs DEF SearchTools
  <2> QED BY <2>3, <2>4, <2>5, <2>6, <1>4, PageListed
<1>16. CASE tool = "search_bytes"
  <2>1. Sources(tool) = <<"matches">>
    BY <1>16 DEF Sources, CodeTools
  <2>2. program["matches"] \in Seq(Item) /\ all = program["matches"]
    BY <1>1, <1>2, <2>1, AllOne
  <2>3. Wanted = Kept(program["matches"]) /\ Found = Cut(Kept(program["matches"]), MaxResults)
    BY <1>1, <1>2, <1>4, <1>5, <1>16, <2>2, WantedIs
  <2>4. Found \in Seq(Item)
    BY <2>2, <2>3, KeptIs, OncePages, CutIs
  <2>5. Backend("search_bytes", program, page) = Listed(Cut(Kept(program["matches"]), MaxResults), page)
    BY BackendIs DEF GhSearchBytes
  <2>6. Relayed(Port, "search_bytes", page)
    BY <1>16, PortIs DEF SearchTools
  <2> QED BY <2>3, <2>4, <2>5, <2>6, <1>4, PageListed
<1>17. CASE tool = "search_strings"
  <2>1. Sources(tool) = <<"strings">>
    BY <1>17 DEF Sources, CodeTools
  <2>2. program["strings"] \in Seq(Item) /\ all = program["strings"]
    BY <1>1, <1>2, <2>1, AllOne
  <2>3. Wanted = Kept(program["strings"]) /\ Found = Kept(program["strings"])
    BY <1>1, <1>2, <1>4, <1>5, <1>17, <2>2, WantedIs
  <2>4. Found \in Seq(Item)
    BY <2>2, <2>3, KeptIs
  <2>5. Backend("search_strings", program, page) = Listed(Kept(program["strings"]), page)
    BY BackendIs DEF GhSearchStrings
  <2>6. Relayed(Port, "search_strings", page)
    BY <1>17, PortIs DEF SearchTools
  <2> QED BY <2>3, <2>4, <2>5, <2>6, <1>4, PageListed
<1>18. CASE tool = "list_imports"
  <2>1. Sources(tool) = <<"imports">>
    BY <1>18 DEF Sources, CodeTools
  <2>2. program["imports"] \in Seq(Item) /\ all = program["imports"]
    BY <1>1, <1>2, <2>1, AllOne
  <2>3. Wanted = program["imports"] /\ Found = program["imports"]
    BY <1>1, <1>2, <1>4, <1>5, <1>18, <2>2, WantedIs
  <2>4. Found \in Seq(Item)
    BY <2>2, <2>3
  <2>5. Backend("imports", program, page) = Listed(program["imports"], page)
    BY BackendIs DEF GhImports
  <2>6. Relayed(Port, "imports", page)
    BY <1>18, PortIs DEF SymbolTools
  <2> QED BY <2>3, <2>4, <2>5, <2>6, <1>4, PageListed
<1>19. CASE tool = "list_exports"
  <2>1. Sources(tool) = <<"exports">>
    BY <1>19 DEF Sources, CodeTools
  <2>2. program["exports"] \in Seq(Item) /\ all = program["exports"]
    BY <1>1, <1>2, <2>1, AllOne
  <2>3. Wanted = program["exports"] /\ Found = program["exports"]
    BY <1>1, <1>2, <1>4, <1>5, <1>19, <2>2, WantedIs
  <2>4. Found \in Seq(Item)
    BY <2>2, <2>3
  <2>5. Backend("exports", program, page) = Listed(program["exports"], page)
    BY BackendIs DEF GhExports
  <2>6. Relayed(Port, "exports", page)
    BY <1>19, PortIs DEF SymbolTools
  <2> QED BY <2>3, <2>4, <2>5, <2>6, <1>4, PageListed
<1>20. tool \in {"list_functions", "xrefs_to", "xrefs_from", "list_strings", "ramdisk_list",
                 "list_cache_components", "list_symbols", "list_data", "get_comments",
                 "list_data_types", "search_bytes", "search_strings", "list_imports",
                 "list_exports"}
  BY DEF ListingTools, SearchTools, SymbolTools
<1> QED BY <1>20, <1>6, <1>7, <1>8, <1>9, <1>10, <1>11, <1>12, <1>13, <1>14, <1>15, <1>16, <1>17, <1>18, <1>19

(* What a scan is given of a listing: items of it in their order, and when *)
(* it is not told of a cut, every hit.                                     *)
Sourced(x, items) ==
  /\ x.rows \in Seq(Item) /\ Inside(x.rows, items)
  /\ Fails(x) \/ x.kind = "ok"
  /\ x.kind = "ok" /\ ~x.truncated => Covers(x.rows, items)

LEMMA CutWhole ==
  ASSUME NEW S, NEW items \in Seq(S), NEW n \in Nat, Len(items) <= n
  PROVE  Cut(items, n) = items
<1>1. Lesser(n, Len(items)) = Len(items)
  BY DEF Lesser
<1> QED BY <1>1 DEF Cut

LEMMA CutTwice ==
  ASSUME NEW S, NEW items \in Seq(S), NEW n \in Nat, NEW m \in Nat, n <= m
  PROVE  /\ Cut(Cut(items, m), n) = Cut(items, n)
         /\ Len(Cut(items, m)) <= n => Len(items) <= n \/ n = m
<1>1. PICK c, d, e : c = Cut(items, m) /\ d = Cut(c, n) /\ e = Cut(items, n)
  OBVIOUS
<1>2. c \in Seq(S) /\ Len(c) = Lesser(m, Len(items)) /\ \A i \in 1..Lesser(m, Len(items)) : c[i] = items[i]
  BY <1>1, CutIs
<1>3. d \in Seq(S) /\ Len(d) = Lesser(n, Len(c)) /\ \A i \in 1..Lesser(n, Len(c)) : d[i] = c[i]
  BY <1>1, <1>2, CutIs
<1>4. e \in Seq(S) /\ Len(e) = Lesser(n, Len(items)) /\ \A i \in 1..Lesser(n, Len(items)) : e[i] = items[i]
  BY <1>1, CutIs
<1>5. PICK k \in Nat, l \in Nat : k = Lesser(n, Len(items)) /\ l = Lesser(m, Len(items))
  BY DEF Lesser
<1>6. k <= l /\ Lesser(n, l) = k
  BY <1>5 DEF Lesser
<1>7. Len(d) = k /\ \A i \in 1..k : d[i] = items[i]
  <2>1. Len(c) = l /\ Len(d) = k /\ \A i \in 1..k : d[i] = c[i]
    BY <1>2, <1>3, <1>5, <1>6
  <2>2. \A i \in 1..k : i \in 1..l
    BY <1>6
  <2> QED BY <2>1, <2>2, <1>2, <1>5
<1>8. d = e
  BY <1>3, <1>4, <1>5, <1>7
<1>9. l <= n => Len(items) <= n \/ n = m
  BY <1>5 DEF Lesser
<1> QED BY <1>1, <1>2, <1>5, <1>8, <1>9

(* The first page of a listing. *)
LEMMA FirstSlice ==
  ASSUME NEW S, NEW items \in Seq(S), NEW n \in Nat
  PROVE  Slice(items, [offset |-> 0, limit |-> n]) = Cut(items, n)
<1>1. PICK a : a = [offset |-> 0, limit |-> n]
  OBVIOUS
<1>2. a.offset = 0 /\ a.limit = n /\ 0 + n = n /\ 0 \in Nat
  BY <1>1
<1>3. PICK s : s = Slice(items, a)
  OBVIOUS
<1>4. s \in Seq(S)
  BY <1>2, <1>3, SliceIs
<1>5. Cut(items, 0) \o s = Cut(items, 0 + n)
  BY <1>2, <1>3, CutMore
<1>6. <<>> \o s = s
  BY <1>4
<1> QED BY <1>1, <1>2, <1>3, <1>5, <1>6, CutEnds

LEMMA StartSourced ==
  ASSUME NEW whole \in Seq(Item), NEW items \in Seq(Item), Covers(items, whole), NEW n \in Nat,
         NEW x, x.kind = "ok", x.rows = Cut(items, n), ~x.truncated => Len(items) <= n
  PROVE  Sourced(x, whole)
<1>1. PICK c : c = Cut(items, n)
  OBVIOUS
<1>2. c \in Seq(Item) /\ Inside(c, items)
  BY <1>1, CutIs, CutInside
<1>3. Inside(items, whole)
  BY CoversInside
<1>4. Inside(c, whole)
  BY <1>2, <1>3, InsideThrough
<1>5. ~x.truncated => c = items
  BY <1>1, CutWhole
<1> QED BY <1>1, <1>2, <1>4, <1>5 DEF Sourced

LEMMA FailedSourced ==
  ASSUME NEW items \in Seq(Item), NEW x, Fails(x)
  PROVE  Sourced(x, items)
<1>1. PICK e : e = <<>>
  OBVIOUS
<1>2. e \in Seq(Item) /\ e = Cut(items, 0)
  BY <1>1, CutEnds
<1>3. Inside(e, items)
  BY <1>2, CutInside
<1> QED BY <1>1, <1>2, <1>3 DEF Sourced, Fails

LEMMA KeptCovers ==
  ASSUME NEW s \in Seq(Item)
  PROVE  Kept(s) \in Seq(Item) /\ Covers(Kept(s), s)
<1>1. Kept(s) \in Seq(Item) /\ Chosen(Kept(s), s, {x \in 1..Len(s) : s[x].hit})
  BY KeptIs
<1>2. Covers(Kept(s), s)
  BY <1>1 DEF Chosen, Covers
<1> QED BY <1>1, <1>2

(* The sources of the scans, one by one. *)
LEMMA PageSourced ==
  ASSUME ReadConstants, NEW whole \in Seq(Item), NEW items \in Seq(Item), Covers(items, whole),
         NEW n \in Nat, NEW m, NEW x, Relayed(x, m, [offset |-> 0, limit |-> n]),
         Backend(m, program, [offset |-> 0, limit |-> n]) = Listed(items, [offset |-> 0, limit |-> n])
  PROVE  Sourced(x, whole)
<1>1. PICK a : a = [offset |-> 0, limit |-> n]
  OBVIOUS
<1>2. CASE Fails(x)
  BY <1>2, FailedSourced
<1>3. CASE x = Listed(items, a)
  <2>1. a.offset \in Nat /\ a.limit \in Nat /\ a.offset = 0 /\ a.limit = n /\ 0 + n = n
    BY <1>1
  <2>2. x = Sliced(items, a)
    BY <2>1, <1>3, ListedIs
  <2>3. x.kind = "ok" /\ x.rows = Slice(items, a) /\ x.truncated = (0 + n < Len(items))
    BY <2>1, <2>2 DEF Sliced, Answer
  <2>4. x.rows = Cut(items, n)
    BY <2>3, <1>1, FirstSlice
  <2>5. ~x.truncated => Len(items) <= n
    <3>1. ~(Len(items) <= n) => (0 + n < Len(items)) = TRUE
      BY <2>1
    <3> QED BY <3>1, <2>3, Zenon
  <2> QED BY <2>3, <2>4, <2>5, StartSourced
<1> QED BY <1>1, <1>2, <1>3 DEF Relayed

LEMMA StringsSourced ==
  ASSUME ReadConstants, NEW items \in Seq(Item), items = program["strings"]
  PROVE  Sourced(Strings, items)
<1>1. PICK a : a = [offset |-> 0, limit |-> StringBudget]
  OBVIOUS
<1>2. a = Wide
  BY <1>1 DEF Wide
<1>3. Relayed(Strings, "list_strings", a)
  BY <1>2, OncePages, RelayedIs DEF Strings, BuildListing
<1>4. Backend("list_strings", program, a) = Listed(items, a)
  BY BackendIs DEF GhListStrings
<1>5. StringBudget \in Nat /\ Covers(items, items)
  BY OncePages, CoversSelf
<1> QED BY <1>1, <1>3, <1>4, <1>5, PageSourced

LEMMA ImportsSourced ==
  ASSUME ReadConstants, NEW items \in Seq(Item), items = program["imports"]
  PROVE  Sourced(Imports, items)
<1>1. PICK a : a = [offset |-> 0, limit |-> StringBudget]
  OBVIOUS
<1>2. a = Wide
  BY <1>1 DEF Wide
<1>3. Relayed(Imports, "imports", a)
  BY <1>2, OncePages, RelayedIs DEF Imports, BuildSymbols
<1>4. Backend("imports", program, a) = Listed(items, a)
  BY BackendIs DEF GhImports
<1>5. StringBudget \in Nat /\ Covers(items, items)
  BY OncePages, CoversSelf
<1> QED BY <1>1, <1>3, <1>4, <1>5, PageSourced

LEMMA ExportsSourced ==
  ASSUME ReadConstants, NEW items \in Seq(Item), items = program["exports"]
  PROVE  Sourced(BuildSymbols("exports", Request("exports", Wide)), items)
<1>1. PICK a : a = [offset |-> 0, limit |-> StringBudget]
  OBVIOUS
<1>2. a = Wide
  BY <1>1 DEF Wide
<1>3. PICK x : x = BuildSymbols("exports", Request("exports", Wide))
  OBVIOUS
<1>4. Relayed(x, "exports", a)
  BY <1>2, <1>3, OncePages, RelayedIs DEF BuildSymbols
<1>5. Backend("exports", program, a) = Listed(items, a)
  BY BackendIs DEF GhExports
<1>6. StringBudget \in Nat /\ Covers(items, items)
  BY OncePages, CoversSelf
<1> QED BY <1>1, <1>3, <1>4, <1>5, <1>6, PageSourced

LEMMA MatchesSourced ==
  ASSUME ReadConstants, NEW items \in Seq(Item), items = program["matches"]
  PROVE  Sourced(BuildSearch("search_bytes",
                   Request("search_bytes", [offset |-> 0, limit |-> MatchBudget])), items)
<1>1. PICK a : a = [offset |-> 0, limit |-> MatchBudget]
  OBVIOUS
<1>2. PICK x : x = BuildSearch("search_bytes", Request("search_bytes", a))
  OBVIOUS
<1>3. Relayed(x, "search_bytes", a)
  BY <1>1, <1>2, OncePages, RelayedIs DEF BuildSearch
<1>4. PICK k : k = Kept(items)
  OBVIOUS
<1>5. k \in Seq(Item) /\ Covers(k, items)
  BY <1>4, KeptCovers
<1>6. PICK c : c = Cut(k, MaxResults)
  OBVIOUS
<1>7. c \in Seq(Item)
  BY <1>5, <1>6, OncePages, CutIs
<1>8. Backend("search_bytes", program, a) = Listed(c, a)
  BY <1>4, <1>6, BackendIs DEF GhSearchBytes
<1>9. CASE Fails(x)
  BY <1>1, <1>2, <1>9, FailedSourced
<1>10. CASE x = Listed(c, a)
  <2>1. a.offset \in Nat /\ a.limit \in Nat /\ a.offset = 0 /\ a.limit = MatchBudget /\ MatchBudget \in Nat
        /\ MaxResults \in Nat /\ MatchBudget < MaxResults
    BY <1>1, OncePages
  <2>2. x = Sliced(c, a)
    BY <2>1, <1>7, <1>10, ListedIs
  <2>3. x.kind = "ok" /\ x.rows = Slice(c, a) /\ x.truncated = (0 + MatchBudget < Len(c))
    BY <2>1, <2>2 DEF Sliced, Answer
  <2>4. x.rows = Cut(c, MatchBudget)
    BY <2>1, <2>3, <1>1, <1>7, FirstSlice
  <2>5. x.rows = Cut(k, MatchBudget)
    BY <2>1, <2>4, <1>5, <1>6, CutTwice
  <2>6. Len(c) <= MatchBudget => Len(k) <= MatchBudget
    <3>1. Len(c) <= MatchBudget => Len(k) <= MatchBudget \/ MatchBudget = MaxResults
      <4>1. k \in Seq(Item) /\ MatchBudget \in Nat /\ MaxResults \in Nat /\ MatchBudget <= MaxResults
        BY <2>1, <1>5
      <4> QED BY ONLY <4>1, <1>6, CutTwice
    <3> QED BY ONLY <3>1, <2>1
  <2>7. ~x.truncated => Len(c) <= MatchBudget
    <3>1. ~(Len(c) <= MatchBudget) => (0 + MatchBudget < Len(c)) = TRUE
      BY <2>1, <1>7
    <3> QED BY <3>1, <2>3, Zenon
  <2>8. ~x.truncated => Len(k) <= MatchBudget
    BY <2>6, <2>7
  <2>9. Sourced(x, items)
    BY <2>1, <2>3, <2>5, <2>8, <1>5, StartSourced
  <2> QED BY <2>9, <1>1, <1>2
<1> QED BY <1>3, <1>8, <1>9, <1>10 DEF Relayed

LEMMA OpcodesSourced ==
  ASSUME ReadConstants, NEW items \in Seq(Item), items = program["opcodes"]
  PROVE  Sourced(Request("crypto_instructions", Wide), items)
<1>1. PICK x : x = Request("crypto_instructions", Wide)
  OBVIOUS
<1>2. Relayed(x, "crypto_instructions", Wide)
  BY <1>1, OncePages, RelayedIs
<1>3. PICK k : k = Kept(items)
  OBVIOUS
<1>4. k \in Seq(Item) /\ Covers(k, items)
  BY <1>3, KeptCovers
<1>5. Backend("crypto_instructions", program, Wide) = Capped(k, StringBudget)
  BY <1>3, BackendIs DEF GhCryptoInstructions, Wide
<1>6. CASE Fails(x)
  BY <1>1, <1>6, FailedSourced
<1>7. CASE x = Capped(k, StringBudget)
  <2>1. x.kind = "ok" /\ x.rows = Cut(k, StringBudget) /\ x.truncated = (Len(k) > StringBudget)
    BY <1>7 DEF Capped, Answer
  <2>2. ~x.truncated => Len(k) <= StringBudget
    <3>1. ~(Len(k) <= StringBudget) => (Len(k) > StringBudget) = TRUE
      BY <1>4, OncePages
    <3> QED BY <3>1, <2>1, Zenon
  <2>3. Sourced(x, items)
    BY <2>1, <2>2, <1>4, OncePages, StartSourced
  <2> QED BY <2>3, <1>1
<1> QED BY <1>2, <1>5, <1>6, <1>7 DEF Relayed

LEMMA BlocksSourced ==
  ASSUME ReadConstants, NEW items \in Seq(Item), items = program["blocks"],
         \A i \in 1..Len(items) : items[i].hit => items[i].initialized
  PROVE  Sourced(SecretByteMagic, items)
<1>1. PICK x : x = BuildSingle("memory_map", Request("memory_map", Wide))
  OBVIOUS
<1>2. Relayed(x, "memory_map", Wide)
  BY <1>1, OncePages, RelayedIs DEF BuildSingle
<1>3. Backend("memory_map", program, Wide) = Answer(items, Len(items), FALSE)
  BY BackendIs DEF GhMemoryMap
<1>4. CASE Fails(x)
  <2>1. SecretByteMagic = x
    BY <1>1, <1>4 DEF SecretByteMagic, Fails
  <2> QED BY <2>1, <1>4, FailedSourced
<1>5. CASE x = Answer(items, Len(items), FALSE)
  <2>1. x.kind = "ok" /\ x.rows = items
    BY <1>5 DEF Answer
  <2>2. PICK T : T = {i \in DOMAIN items : items[i].initialized}
    OBVIOUS
  <2>3. PICK live : live = Picked(items, T)
    OBVIOUS
  <2>4. SecretByteMagic = Answer(Cut(live, MaxBlocks), Len(live), Len(live) > MaxBlocks)
    BY <1>1, <2>1, <2>2, <2>3 DEF SecretByteMagic
  <2>5. live \in Seq(Item) /\ Chosen(live, items, T \cap 1..Len(items))
    BY <2>3, PickedIs
  <2>6. \A i \in 1..Len(items) : items[i].hit => i \in T \cap 1..Len(items)
    BY <2>2
  <2>7. Covers(live, items)
    BY <2>5, <2>6 DEF Chosen, Covers
  <2>8. PICK y : y = Answer(Cut(live, MaxBlocks), Len(live), Len(live) > MaxBlocks)
    OBVIOUS
  <2>9. y.kind = "ok" /\ y.rows = Cut(live, MaxBlocks) /\ y.truncated = (Len(live) > MaxBlocks)
    BY <2>8 DEF Answer
  <2>10. ~y.truncated => Len(live) <= MaxBlocks
    <3>1. ~(Len(live) <= MaxBlocks) => (Len(live) > MaxBlocks) = TRUE
      BY <2>5, OncePages
    <3> QED BY <3>1, <2>9, Zenon
  <2>11. Sourced(y, items)
    BY <2>5, <2>7, <2>9, <2>10, OncePages, StartSourced
  <2> QED BY <2>4, <2>8, <2>11
<1> QED BY <1>2, <1>3, <1>4, <1>5 DEF Relayed

(* A page of a scan, and what it takes for it to be the last. *)
LEMMA ScanIs ==
  ASSUME ReadConstants, ReadTyped, NEW sources,
         \A i \in DOMAIN sources : Fails(sources[i]) \/ sources[i].kind = "ok"
  PROVE  \/ Fails(Scan(sources))
         \/ /\ Scan(sources).kind = "ok" /\ Scan(sources).rows = Slice(Hits(sources), page)
            /\ ~Scan(sources).truncated =>
                 /\ ~(page.offset + page.limit < Len(Hits(sources)))
                 /\ \A i \in DOMAIN sources : sources[i].kind = "ok" /\ ~sources[i].truncated
<1>1. CASE \E i \in DOMAIN sources : sources[i].kind # "ok"
  <2>1. PICK i : i = CHOOSE j \in DOMAIN sources : sources[j].kind # "ok"
    OBVIOUS
  <2>2. i \in DOMAIN sources /\ sources[i].kind # "ok"
    BY <1>1, <2>1
  <2>3. Scan(sources) = sources[i]
    BY <1>1, <2>1 DEF Scan
  <2> QED BY <2>2, <2>3 DEF Fails
<1>2. CASE ~\E i \in DOMAIN sources : sources[i].kind # "ok"
  <2>1. PICK hits : hits = Hits(sources)
    OBVIOUS
  <2>2. PICK more : more = (\/ page.offset + page.limit < Len(hits)
                            \/ \E i \in DOMAIN sources : sources[i].truncated)
    OBVIOUS
  <2>3. Scan(sources) = [kind |-> "ok", rows |-> Slice(hits, page), total |-> Len(hits), truncated |-> more]
    BY <1>2, <2>1, <2>2 DEF Scan, Sliced, Answer
  <2>4. Scan(sources).kind = "ok" /\ Scan(sources).rows = Slice(hits, page) /\ Scan(sources).truncated = more
    BY <2>3
  <2>5. ~more => ~(page.offset + page.limit < Len(hits)) /\ \A i \in DOMAIN sources : ~sources[i].truncated
    BY <2>2, Zenon
  <2> QED BY <1>2, <2>1, <2>4, <2>5, Zenon
<1> QED BY <1>1, <1>2

(* What a scan finds, in one, two or three listings. *)
ScanAnswer ==
  /\ Found \in Seq(Item) /\ Inside(Found, Wanted)
  /\ \/ Fails(Port)
     \/ /\ Port.kind = "ok" /\ Port.rows = Slice(Found, page)
        /\ ~Port.truncated => ~(page.offset + page.limit < Len(Found)) /\ Found = Wanted

LEMMA ScanFinds ==
  ASSUME ReadConstants, ReadTyped, tool \in ScanTools, NEW sources, sources = ScanSources,
         \A i \in DOMAIN sources : Fails(sources[i]) \/ sources[i].kind = "ok",
         NEW rows \in Seq(Item), Hits(sources) = Kept(rows),
         NEW all \in Seq(Item), all = All, Inside(rows, all),
         (\A i \in DOMAIN sources : sources[i].kind = "ok" /\ ~sources[i].truncated) => Covers(rows, all)
  PROVE  ScanAnswer
<1>1. Wanted = Kept(all)
  BY WantedIs DEF ReadTyped, Filtered
<1>2. Found = Kept(rows)
  BY DEF Found
<1>3. Found \in Seq(Item) /\ Inside(Found, Wanted) /\ (Covers(rows, all) => Found = Wanted)
  BY <1>1, <1>2, KeptIs, KeptInside
<1>4. Port = Scan(sources)
  BY PortIs
<1>5. \/ Fails(Scan(sources))
      \/ /\ Scan(sources).kind = "ok" /\ Scan(sources).rows = Slice(Hits(sources), page)
         /\ ~Scan(sources).truncated =>
              /\ ~(page.offset + page.limit < Len(Hits(sources)))
              /\ \A i \in DOMAIN sources : sources[i].kind = "ok" /\ ~sources[i].truncated
  BY ScanIs
<1> QED BY ONLY <1>2, <1>3, <1>4, <1>5, Hits(sources) = Kept(rows), Zenon,
          (\A i \in DOMAIN sources : sources[i].kind = "ok" /\ ~sources[i].truncated) => Covers(rows, all)
          DEF ScanAnswer

LEMMA ScanOne ==
  ASSUME ReadConstants, ReadTyped, tool \in ScanTools, NEW x, ScanSources = <<x>>,
         NEW a, Sources(tool) = <<a>>, Sourced(x, program[a])
  PROVE  ScanAnswer
<1>1. AnyProgram
  BY DEF ReadTyped
<1>2. program[a] \in Seq(Item) /\ All = program[a]
  BY <1>1, AllOne
<1>3. PICK sources : sources = <<x>>
  OBVIOUS
<1>4. DOMAIN sources = 1..1 /\ sources[1] = x /\ 1 \in 1..1
  BY <1>3
<1>5. PICK q : q = [i \in DOMAIN sources |-> sources[i].rows]
  OBVIOUS
<1>6. Len(q) = 1 /\ q[1] = x.rows
  BY <1>4, <1>5
<1>7. FlattenSeq(q) = x.rows
  BY <1>6, FlatOne
<1>8. Hits(sources) = Kept(x.rows)
  BY <1>5, <1>7 DEF Hits
<1>9. \A i \in DOMAIN sources : sources[i] = x
  BY <1>4
<1>10. \A i \in DOMAIN sources : Fails(sources[i]) \/ sources[i].kind = "ok"
  BY <1>9 DEF Sourced
<1>11. PICK all, rows : all = All /\ rows = x.rows
  OBVIOUS
<1>12. rows \in Seq(Item) /\ Inside(rows, all) /\ (x.kind = "ok" /\ ~x.truncated => Covers(rows, all))
  BY <1>2, <1>11 DEF Sourced
<1>13. (\A i \in DOMAIN sources : sources[i].kind = "ok" /\ ~sources[i].truncated) => Covers(rows, all)
  BY <1>4, <1>12
<1>14. all \in Seq(Item) /\ sources = ScanSources /\ Hits(sources) = Kept(rows)
  BY <1>2, <1>3, <1>8, <1>11
<1> QED BY <1>10, <1>11, <1>12, <1>13, <1>14, ScanFinds

LEMMA ScanTwo ==
  ASSUME ReadConstants, ReadTyped, tool \in ScanTools, NEW x, NEW y, ScanSources = <<x, y>>,
         NEW a, NEW b, Sources(tool) = <<a, b>>, Sourced(x, program[a]), Sourced(y, program[b])
  PROVE  ScanAnswer
<1>1. AnyProgram
  BY DEF ReadTyped
<1>2. program[a] \in Seq(Item) /\ program[b] \in Seq(Item) /\ All = program[a] \o program[b]
  BY <1>1, AllTwo
<1>3. PICK sources : sources = <<x, y>>
  OBVIOUS
<1>4. DOMAIN sources = 1..2 /\ sources[1] = x /\ sources[2] = y /\ 1 \in 1..2 /\ 2 \in 1..2
  BY <1>3
<1>5. PICK q : q = [i \in DOMAIN sources |-> sources[i].rows]
  OBVIOUS
<1>6. Len(q) = 2 /\ q[1] = x.rows /\ q[2] = y.rows
  BY <1>4, <1>5
<1>7. FlattenSeq(q) = x.rows \o y.rows
  BY <1>6, FlatTwo
<1>8. Hits(sources) = Kept(x.rows \o y.rows)
  BY <1>5, <1>7 DEF Hits
<1>9. \A i \in DOMAIN sources : sources[i] = x \/ sources[i] = y
  BY <1>4
<1>10. \A i \in DOMAIN sources : Fails(sources[i]) \/ sources[i].kind = "ok"
  BY <1>9 DEF Sourced
<1>11. PICK all, rows, r, s, t, u : /\ all = All /\ rows = x.rows \o y.rows
                                    /\ r = x.rows /\ s = y.rows /\ t = program[a] /\ u = program[b]
  OBVIOUS
<1>15. /\ r \in Seq(Item) /\ s \in Seq(Item) /\ t \in Seq(Item) /\ u \in Seq(Item)
       /\ rows = r \o s /\ all = t \o u /\ Inside(r, t) /\ Inside(s, u)
       /\ (x.kind = "ok" /\ ~x.truncated => Covers(r, t)) /\ (y.kind = "ok" /\ ~y.truncated => Covers(s, u))
  BY <1>2, <1>11 DEF Sourced
<1>16. Inside(rows, all)
  BY ONLY <1>15, InsideJoined
<1>17. Covers(r, t) /\ Covers(s, u) => Covers(rows, all)
  BY ONLY <1>15, CoversJoined
<1>13. (\A i \in DOMAIN sources : sources[i].kind = "ok" /\ ~sources[i].truncated) => Covers(rows, all)
  BY <1>4, <1>15, <1>17
<1>14. all \in Seq(Item) /\ rows \in Seq(Item) /\ sources = ScanSources /\ Hits(sources) = Kept(rows)
  BY <1>3, <1>8, <1>11, <1>15
<1> QED BY <1>10, <1>11, <1>16, <1>13, <1>14, ScanFinds

LEMMA ScanThree ==
  ASSUME ReadConstants, ReadTyped, tool \in ScanTools, NEW x, NEW y, NEW z, ScanSources = <<x, y, z>>,
         NEW a, NEW b, NEW c, Sources(tool) = <<a, b, c>>,
         Sourced(x, program[a]), Sourced(y, program[b]), Sourced(z, program[c])
  PROVE  ScanAnswer
<1>1. AnyProgram
  BY DEF ReadTyped
<1>2. /\ program[a] \in Seq(Item) /\ program[b] \in Seq(Item) /\ program[c] \in Seq(Item)
      /\ All = (program[a] \o program[b]) \o program[c]
  BY <1>1, AllThree
<1>3. PICK sources : sources = <<x, y, z>>
  OBVIOUS
<1>4. /\ DOMAIN sources = 1..3 /\ sources[1] = x /\ sources[2] = y /\ sources[3] = z
      /\ 1 \in 1..3 /\ 2 \in 1..3 /\ 3 \in 1..3
  BY <1>3
<1>5. PICK q : q = [i \in DOMAIN sources |-> sources[i].rows]
  OBVIOUS
<1>6. Len(q) = 3 /\ q[1] = x.rows /\ q[2] = y.rows /\ q[3] = z.rows
  BY <1>4, <1>5
<1>7. FlattenSeq(q) = (x.rows \o y.rows) \o z.rows
  BY <1>6, FlatThree
<1>8. Hits(sources) = Kept((x.rows \o y.rows) \o z.rows)
  BY <1>5, <1>7 DEF Hits
<1>9. \A i \in DOMAIN sources : sources[i] = x \/ sources[i] = y \/ sources[i] = z
  BY <1>4
<1>10. \A i \in DOMAIN sources : Fails(sources[i]) \/ sources[i].kind = "ok"
  BY <1>9 DEF Sourced
<1>11. PICK all, rows, r, s, t, u, v, w :
         /\ all = All /\ rows = (x.rows \o y.rows) \o z.rows
         /\ r = x.rows /\ s = y.rows /\ v = z.rows /\ t = program[a] /\ u = program[b] /\ w = program[c]
  OBVIOUS
<1>15. /\ r \in Seq(Item) /\ s \in Seq(Item) /\ v \in Seq(Item)
       /\ t \in Seq(Item) /\ u \in Seq(Item) /\ w \in Seq(Item)
       /\ rows = (r \o s) \o v /\ all = (t \o u) \o w /\ Inside(r, t) /\ Inside(s, u) /\ Inside(v, w)
       /\ (x.kind = "ok" /\ ~x.truncated => Covers(r, t)) /\ (y.kind = "ok" /\ ~y.truncated => Covers(s, u))
       /\ (z.kind = "ok" /\ ~z.truncated => Covers(v, w))
  BY <1>2, <1>11 DEF Sourced
<1>18. PICK d, e : d = r \o s /\ e = t \o u
  OBVIOUS
<1>19. d \in Seq(Item) /\ e \in Seq(Item) /\ Inside(d, e) /\ (Covers(r, t) /\ Covers(s, u) => Covers(d, e))
  <2>1. Inside(d, e)
    BY ONLY <1>15, <1>18, InsideJoined
  <2>2. Covers(r, t) /\ Covers(s, u) => Covers(d, e)
    BY ONLY <1>15, <1>18, CoversJoined
  <2>3. d \in Seq(Item) /\ e \in Seq(Item)
    BY ONLY <1>15, <1>18
  <2> QED BY <2>1, <2>2, <2>3
<1>20. rows = d \o v /\ all = e \o w
  BY <1>15, <1>18
<1>16. Inside(rows, all)
  BY ONLY <1>15, <1>19, <1>20, InsideJoined
<1>17. Covers(d, e) /\ Covers(v, w) => Covers(rows, all)
  BY ONLY <1>15, <1>19, <1>20, CoversJoined
<1>13. (\A i \in DOMAIN sources : sources[i].kind = "ok" /\ ~sources[i].truncated) => Covers(rows, all)
  BY <1>4, <1>15, <1>17, <1>19
<1>14. all \in Seq(Item) /\ rows \in Seq(Item) /\ sources = ScanSources /\ Hits(sources) = Kept(rows)
  <2>1. rows \in Seq(Item) /\ all \in Seq(Item)
    BY ONLY <1>15, <1>19, <1>20
  <2> QED BY <2>1, <1>3, <1>8, <1>11
<1> QED BY <1>10, <1>11, <1>16, <1>13, <1>14, ScanFinds

LEMMA PagedScan ==
  ASSUME ReadConstants, ReadTyped, tool \in ScanTools
  PROVE  ScanAnswer
<1>1. AnyProgram
  BY DEF ReadTyped
<1>2. CASE tool = "ioc_scan"
  <2>1. Sources(tool) = <<"strings">> /\ ScanSources = <<Strings>>
    BY <1>2 DEF Sources, CodeTools, ScanSources, IocScan
  <2>2. program["strings"] \in Seq(Item)
    BY <1>1, <2>1, AllOne
  <2>3. Sourced(Strings, program["strings"])
    BY <2>2, StringsSourced
  <2> QED BY <2>1, <2>3, ScanOne
<1>3. CASE tool = "crypto_constant_scan"
  <2>1. PICK x : x = BuildSearch("search_bytes", Request("search_bytes", [offset |-> 0, limit |-> MatchBudget]))
    OBVIOUS
  <2>2. Sources(tool) = <<"matches">>
    BY <1>3 DEF Sources, CodeTools
  <2>3. ScanSources = <<x>>
    BY <1>3, <2>1 DEF ScanSources, CryptoConstantScan
  <2>4. program["matches"] \in Seq(Item)
    BY <1>1, <2>2, AllOne
  <2>5. Sourced(x, program["matches"])
    BY <2>1, <2>4, MatchesSourced
  <2> QED BY <2>2, <2>3, <2>5, ScanOne
<1>4. CASE tool = "crypto_detect"
  <2>1. PICK z : z = Request("crypto_instructions", Wide)
    OBVIOUS
  <2>2. Sources(tool) = <<"imports", "strings", "opcodes">>
    BY <1>4 DEF Sources, CodeTools
  <2>3. ScanSources = <<Imports, Strings, z>>
    BY <1>4, <2>1 DEF ScanSources, CryptoDetect
  <2>4. program["imports"] \in Seq(Item) /\ program["strings"] \in Seq(Item) /\ program["opcodes"] \in Seq(Item)
    BY <1>1, <2>2, AllThree
  <2>5. Sourced(Imports, program["imports"]) /\ Sourced(Strings, program["strings"])
    BY <2>4, ImportsSourced, StringsSourced
  <2>6. Sourced(z, program["opcodes"])
    BY <2>1, <2>4, OpcodesSourced
  <2> QED BY <2>2, <2>3, <2>5, <2>6, ScanThree
<1>5. CASE tool = "capability_scan"
  <2>1. PICK y : y = BuildSymbols("exports", Request("exports", Wide))
    OBVIOUS
  <2>2. Sources(tool) = <<"imports", "exports", "strings">>
    BY <1>5 DEF Sources, CodeTools
  <2>3. ScanSources = <<Imports, y, Strings>>
    BY <1>5, <2>1 DEF ScanSources, CapabilityScan
  <2>4. program["imports"] \in Seq(Item) /\ program["exports"] \in Seq(Item) /\ program["strings"] \in Seq(Item)
    BY <1>1, <2>2, AllThree
  <2>5. Sourced(Imports, program["imports"]) /\ Sourced(Strings, program["strings"])
    BY <2>4, ImportsSourced, StringsSourced
  <2>6. Sourced(y, program["exports"])
    BY <2>1, <2>4, ExportsSourced
  <2> QED BY <2>2, <2>3, <2>5, <2>6, ScanThree
<1>6. CASE tool = "secret_scan"
  <2>1. Sources(tool) = <<"strings", "blocks">> /\ ScanSources = <<Strings, SecretByteMagic>>
    BY <1>6 DEF Sources, CodeTools, ScanSources, SecretScan
  <2>2. program["strings"] \in Seq(Item) /\ program["blocks"] \in Seq(Item)
    BY <1>1, <2>1, AllTwo
  <2>3. \A i \in 1..Len(program["blocks"]) : program["blocks"][i].hit => program["blocks"][i].initialized
    <3>1. PICK s : s = <<"strings", "blocks">>
      OBVIOUS
    <3>2. 2 \in DOMAIN s /\ s[2] = "blocks"
      BY <3>1
    <3>3. "blocks" \in ToSet(Sources(tool))
      BY <2>1, <3>1, <3>2 DEF ToSet
    <3> QED BY <1>1, <2>2, <3>3 DEF AnyProgram
  <2>4. Sourced(Strings, program["strings"]) /\ Sourced(SecretByteMagic, program["blocks"])
    BY <2>2, <2>3, StringsSourced, BlocksSourced
  <2> QED BY <2>1, <2>4, ScanTwo
<1> QED BY <1>2, <1>3, <1>4, <1>5, <1>6 DEF ScanTools

-----------------------------------------------------------------------------
(* The tools that are not. *)

(* A tool that is not paged gives a start of what the program holds, and   *)
(* all of it unless it says truncated.                                     *)
OnceAnswer ==
  \/ Fails(Port)
  \/ /\ Port.kind = "ok" /\ \E n \in Nat : Port.rows = Cut(Wanted, n)
     /\ ~Port.truncated => Port.rows = Wanted

LEMMA StartAnswer ==
  ASSUME NEW items \in Seq(Item), Wanted = items, NEW n \in Nat,
         Port.kind = "ok", Port.rows = Cut(items, n), ~Port.truncated => Len(items) <= n
  PROVE  OnceAnswer
BY CutWhole DEF OnceAnswer

LEMMA CappedAnswer ==
  ASSUME NEW items \in Seq(Item), Wanted = items, NEW n \in Nat, Port = Capped(items, n)
  PROVE  OnceAnswer
<1>1. Port.kind = "ok" /\ Port.rows = Cut(items, n) /\ Port.truncated = (Len(items) > n)
  BY DEF Capped, Answer
<1>2. ~Port.truncated => Len(items) <= n
  <2>1. ~(Len(items) <= n) => (Len(items) > n) = TRUE
    OBVIOUS
  <2> QED BY <2>1, <1>1, Zenon
<1> QED BY <1>1, <1>2, StartAnswer

LEMMA WholeAnswer ==
  ASSUME NEW items \in Seq(Item), Wanted = items, NEW n, Port = Answer(items, n, FALSE)
  PROVE  OnceAnswer
<1>1. Port.kind = "ok" /\ Port.rows = items
  BY DEF Answer
<1>2. Len(items) \in Nat /\ Cut(items, Len(items)) = items
  BY CutEnds
<1> QED BY <1>1, <1>2 DEF OnceAnswer

(* The bytes up to the first that cannot be read, or all. *)
LEMMA BytesRead ==
  ASSUME NEW p, NEW items \in Seq(Item), items = p.bytes, NEW n \in Nat
  PROVE  \E read \in Nat :
           GhReadBytes(p, [offset |-> 0, limit |-> n])
             = Answer(Cut(items, Lesser(read, n)), Lesser(read, n), read < n)
<1>1. PICK bad : bad = {i \in DOMAIN items : ~items[i].initialized}
  OBVIOUS
<1>7. PICK least : least = CHOOSE i \in bad : \A j \in bad : i <= j
  OBVIOUS
<1>2. PICK read : read = IF bad = {} THEN Len(items) ELSE least - 1
  OBVIOUS
<1>3. read \in Nat
  <2>1. CASE bad = {}
    BY <2>1, <1>2
  <2>2. CASE bad # {}
    <3>1. bad \subseteq 1..Len(items) /\ bad \in SUBSET Nat
      BY <1>1
    <3>2. \E i \in bad : \A j \in bad : i <= j
      BY <2>2, <3>1, LeastNat
    <3>4. least \in bad
      BY <3>2, <1>7
    <3>5. read = least - 1 /\ least \in 1..Len(items)
      BY <2>2, <3>1, <3>4, <1>2
    <3> QED BY <3>5
  <2> QED BY <2>1, <2>2
<1>4. PICK a : a = [offset |-> 0, limit |-> n]
  OBVIOUS
<1>5. a.limit = n
  BY <1>4
<1>6. GhReadBytes(p, a) = Answer(Cut(items, Lesser(read, n)), Lesser(read, n), read < n)
  BY <1>1, <1>2, <1>5, <1>7 DEF GhReadBytes
<1> QED BY <1>3, <1>4, <1>6

LEMMA OneShot ==
  ASSUME ReadConstants, ReadTyped, tool \in DOMAIN CodeTools \cup DOMAIN SingleTools \cup {"identify_functions"}
  PROVE  OnceAnswer
<1>1. AnyProgram
  BY DEF ReadTyped
<1>2. PICK all : all = All
  OBVIOUS
<1>3. tool \notin Filtered
  BY DEF CodeTools, SingleTools, Filtered, ScanTools
<1>4. PICK a : a = [offset |-> 0, limit |-> MaxOps]
  OBVIOUS
<1>5. a.limit = MaxOps /\ MaxOps \in Nat
  BY <1>4, OncePages
<1>6. CASE tool = "disassemble"
  <2>1. Sources(tool) = <<"instructions">>
    BY <1>6 DEF Sources, CodeTools
  <2>2. program["instructions"] \in Seq(Item) /\ all = program["instructions"]
    BY <1>1, <1>2, <2>1, AllOne
  <2>3. Wanted = program["instructions"]
    BY <1>1, <1>2, <1>3, <1>6, <2>2, WantedIs
  <2>4. Backend("disassemble", program, a) = Capped(program["instructions"], MaxOps)
    BY <1>5, BackendIs DEF GhDisassemble
  <2>5. Relayed(Port, "disassemble", a)
    BY <1>6, <1>4, PortIs DEF CodeTools
  <2>6. Fails(Port) \/ Port = Capped(program["instructions"], MaxOps)
    BY <2>4, <2>5 DEF Relayed
  <2> QED BY <2>2, <2>3, <2>6, <1>5, CappedAnswer DEF OnceAnswer
<1>7. CASE tool = "get_pcode"
  <2>1. Sources(tool) = <<"instructions">>
    BY <1>7 DEF Sources, CodeTools
  <2>2. program["instructions"] \in Seq(Item) /\ all = program["instructions"]
    BY <1>1, <1>2, <2>1, AllOne
  <2>3. Wanted = program["instructions"]
    BY <1>1, <1>2, <1>3, <1>7, <2>2, WantedIs
  <2>4. Backend("get_pcode", program, a) = Capped(program["instructions"], MaxOps)
    BY <1>5, BackendIs DEF GhGetPcode
  <2>5. Relayed(Port, "get_pcode", a)
    BY <1>7, <1>4, PortIs DEF CodeTools
  <2>6. Fails(Port) \/ Port = Capped(program["instructions"], MaxOps)
    BY <2>4, <2>5 DEF Relayed
  <2> QED BY <2>2, <2>3, <2>6, <1>5, CappedAnswer DEF OnceAnswer
<1>8. CASE tool = "get_high_pcode"
  <2>1. Sources(tool) = <<"instructions">>
    BY <1>8 DEF Sources, CodeTools
  <2>2. program["instructions"] \in Seq(Item) /\ all = program["instructions"]
    BY <1>1, <1>2, <2>1, AllOne
  <2>3. Wanted = program["instructions"]
    BY <1>1, <1>2, <1>3, <1>8, <2>2, WantedIs
  <2>4. Backend("get_high_pcode", program, a) = Capped(program["instructions"], MaxOps)
    BY <1>5, BackendIs DEF GhGetHighPcode
  <2>5. Relayed(Port, "get_high_pcode", a)
    BY <1>8, <1>4, PortIs DEF CodeTools
  <2>6. Fails(Port) \/ Port = Capped(program["instructions"], MaxOps)
    BY <2>4, <2>5 DEF Relayed
  <2> QED BY <2>2, <2>3, <2>6, <1>5, CappedAnswer DEF OnceAnswer
<1>9. CASE tool = "basic_blocks"
  <2>1. Sources(tool) = <<"instructions">>
    BY <1>9 DEF Sources, CodeTools
  <2>2. program["instructions"] \in Seq(Item) /\ all = program["instructions"]
    BY <1>1, <1>2, <2>1, AllOne
  <2>3. Wanted = program["instructions"]
    BY <1>1, <1>2, <1>3, <1>9, <2>2, WantedIs
  <2>4. Backend("basic_blocks", program, a) = Capped(program["instructions"], MaxOps)
    BY <1>5, BackendIs DEF GhBasicBlocks
  <2>5. Relayed(Port, "basic_blocks", a)
    BY <1>9, <1>4, PortIs DEF CodeTools
  <2>6. Fails(Port) \/ Port = Capped(program["instructions"], MaxOps)
    BY <2>4, <2>5 DEF Relayed
  <2> QED BY <2>2, <2>3, <2>6, <1>5, CappedAnswer DEF OnceAnswer
<1>10. CASE tool = "stack_frame"
  <2>1. Sources(tool) = <<"slots">>
    BY <1>10 DEF Sources, CodeTools
  <2>2. program["slots"] \in Seq(Item) /\ all = program["slots"]
    BY <1>1, <1>2, <2>1, AllOne
  <2>3. Wanted = program["slots"]
    BY <1>1, <1>2, <1>3, <1>10, <2>2, WantedIs
  <2>4. Backend("stack_frame", program, a) = Answer(program["slots"], Len(program["slots"]), FALSE)
    BY <1>5, BackendIs DEF GhStackFrame
  <2>5. Relayed(Port, "stack_frame", a)
    BY <1>10, <1>4, PortIs DEF SingleTools
  <2>6. Fails(Port) \/ Port = Answer(program["slots"], Len(program["slots"]), FALSE)
    BY <2>4, <2>5 DEF Relayed
  <2> QED BY <2>2, <2>3, <2>6, <1>5, WholeAnswer DEF OnceAnswer
<1>11. CASE tool = "memory_map"
  <2>1. Sources(tool) = <<"blocks">>
    BY <1>11 DEF Sources, CodeTools
  <2>2. program["blocks"] \in Seq(Item) /\ all = program["blocks"]
    BY <1>1, <1>2, <2>1, AllOne
  <2>3. Wanted = program["blocks"]
    BY <1>1, <1>2, <1>3, <1>11, <2>2, WantedIs
  <2>4. Backend("memory_map", program, a) = Answer(program["blocks"], Len(program["blocks"]), FALSE)
    BY <1>5, BackendIs DEF GhMemoryMap
  <2>5. Relayed(Port, "memory_map", a)
    BY <1>11, <1>4, PortIs DEF SingleTools
  <2>6. Fails(Port) \/ Port = Answer(program["blocks"], Len(program["blocks"]), FALSE)
    BY <2>4, <2>5 DEF Relayed
  <2> QED BY <2>2, <2>3, <2>6, <1>5, WholeAnswer DEF OnceAnswer
<1>12. CASE tool = "decompile_function"
  <2>1. Sources(tool) = <<"subject">>
    BY <1>12 DEF Sources, CodeTools
  <2>2. program["subject"] \in Seq(Item) /\ all = program["subject"]
    BY <1>1, <1>2, <2>1, AllOne
  <2>3. Wanted = program["subject"]
    BY <1>1, <1>2, <1>3, <1>12, <2>2, WantedIs
  <2>4. Backend("decompile_function", program, a) = Answer(program["subject"], 1, FALSE)
    BY <1>5, BackendIs DEF GhDecompile
  <2>5. Relayed(Port, "decompile_function", a)
    BY <1>12, <1>4, PortIs DEF SingleTools
  <2>6. Fails(Port) \/ Port = Answer(program["subject"], 1, FALSE)
    BY <2>4, <2>5 DEF Relayed
  <2> QED BY <2>2, <2>3, <2>6, <1>5, WholeAnswer DEF OnceAnswer
<1>13. CASE tool = "get_function"
  <2>1. Sources(tool) = <<"subject">>
    BY <1>13 DEF Sources, CodeTools
  <2>2. program["subject"] \in Seq(Item) /\ all = program["subject"]
    BY <1>1, <1>2, <2>1, AllOne
  <2>3. Wanted = program["subject"]
    BY <1>1, <1>2, <1>3, <1>13, <2>2, WantedIs
  <2>4. Backend("get_function", program, a) = Answer(program["subject"], 1, FALSE)
    BY <1>5, BackendIs DEF GhGetFunction
  <2>5. Relayed(Port, "get_function", a)
    BY <1>13, <1>4, PortIs DEF SingleTools
  <2>6. Fails(Port) \/ Port = Answer(program["subject"], 1, FALSE)
    BY <2>4, <2>5 DEF Relayed
  <2> QED BY <2>2, <2>3, <2>6, <1>5, WholeAnswer DEF OnceAnswer
<1>14. CASE tool = "get_symbol"
  <2>1. Sources(tool) = <<"subject">>
    BY <1>14 DEF Sources, CodeTools
  <2>2. program["subject"] \in Seq(Item) /\ all = program["subject"]
    BY <1>1, <1>2, <2>1, AllOne
  <2>3. Wanted = program["subject"]
    BY <1>1, <1>2, <1>3, <1>14, <2>2, WantedIs
  <2>4. Backend("get_symbol", program, a) = Answer(program["subject"], 1, FALSE)
    BY <1>5, BackendIs DEF GhGetSymbol
  <2>5. Relayed(Port, "get_symbol", a)
    BY <1>14, <1>4, PortIs DEF SingleTools
  <2>6. Fails(Port) \/ Port = Answer(program["subject"], 1, FALSE)
    BY <2>4, <2>5 DEF Relayed
  <2> QED BY <2>2, <2>3, <2>6, <1>5, WholeAnswer DEF OnceAnswer
<1>15. CASE tool = "get_data_type"
  <2>1. Sources(tool) = <<"subject">>
    BY <1>15 DEF Sources, CodeTools
  <2>2. program["subject"] \in Seq(Item) /\ all = program["subject"]
    BY <1>1, <1>2, <2>1, AllOne
  <2>3. Wanted = program["subject"]
    BY <1>1, <1>2, <1>3, <1>15, <2>2, WantedIs
  <2>4. Backend("get_data_type", program, a) = Answer(program["subject"], 1, FALSE)
    BY <1>5, BackendIs DEF GhGetDataType
  <2>5. Relayed(Port, "get_data_type", a)
    BY <1>15, <1>4, PortIs DEF SingleTools
  <2>6. Fails(Port) \/ Port = Answer(program["subject"], 1, FALSE)
    BY <2>4, <2>5 DEF Relayed
  <2> QED BY <2>2, <2>3, <2>6, <1>5, WholeAnswer DEF OnceAnswer
<1>16. CASE tool = "function_hash"
  <2>1. Sources(tool) = <<"subject">>
    BY <1>16 DEF Sources, CodeTools
  <2>2. program["subject"] \in Seq(Item) /\ all = program["subject"]
    BY <1>1, <1>2, <2>1, AllOne
  <2>3. Wanted = program["subject"]
    BY <1>1, <1>2, <1>3, <1>16, <2>2, WantedIs
  <2>4. Backend("function_hash", program, a) = Answer(program["subject"], 1, FALSE)
    BY <1>5, BackendIs DEF GhFunctionHash
  <2>5. Relayed(Port, "function_hash", a)
    BY <1>16, <1>4, PortIs DEF SingleTools
  <2>6. Fails(Port) \/ Port = Answer(program["subject"], 1, FALSE)
    BY <2>4, <2>5 DEF Relayed
  <2> QED BY <2>2, <2>3, <2>6, <1>5, WholeAnswer DEF OnceAnswer
<1>17. CASE tool = "bsim_similarity"
  <2>1. Sources(tool) = <<"subject">>
    BY <1>17 DEF Sources, CodeTools
  <2>2. program["subject"] \in Seq(Item) /\ all = program["subject"]
    BY <1>1, <1>2, <2>1, AllOne
  <2>3. Wanted = program["subject"]
    BY <1>1, <1>2, <1>3, <1>17, <2>2, WantedIs
  <2>4. Backend("bsim_similarity", program, a) = Answer(program["subject"], 1, FALSE)
    BY <1>5, BackendIs DEF GhBsimSimilarity
  <2>5. Relayed(Port, "bsim_similarity", a)
    BY <1>17, <1>4, PortIs DEF SingleTools
  <2>6. Fails(Port) \/ Port = Answer(program["subject"], 1, FALSE)
    BY <2>4, <2>5 DEF Relayed
  <2> QED BY <2>2, <2>3, <2>6, <1>5, WholeAnswer DEF OnceAnswer
<1>18. CASE tool = "program_fingerprint"
  <2>1. Sources(tool) = <<"subject">>
    BY <1>18 DEF Sources, CodeTools
  <2>2. program["subject"] \in Seq(Item) /\ all = program["subject"]
    BY <1>1, <1>2, <2>1, AllOne
  <2>3. Wanted = program["subject"]
    BY <1>1, <1>2, <1>3, <1>18, <2>2, WantedIs
  <2>4. Backend("program_fingerprint", program, a) = Answer(program["subject"], 1, FALSE)
    BY <1>5, BackendIs DEF GhProgramFingerprint
  <2>5. Relayed(Port, "program_fingerprint", a)
    BY <1>18, <1>4, PortIs DEF SingleTools
  <2>6. Fails(Port) \/ Port = Answer(program["subject"], 1, FALSE)
    BY <2>4, <2>5 DEF Relayed
  <2> QED BY <2>2, <2>3, <2>6, <1>5, WholeAnswer DEF OnceAnswer
<1>19. CASE tool = "program_metadata"
  <2>1. Sources(tool) = <<"subject">>
    BY <1>19 DEF Sources, CodeTools
  <2>2. program["subject"] \in Seq(Item) /\ all = program["subject"]
    BY <1>1, <1>2, <2>1, AllOne
  <2>3. Wanted = program["subject"]
    BY <1>1, <1>2, <1>3, <1>19, <2>2, WantedIs
  <2>4. Backend("program_metadata", program, a) = Answer(program["subject"], 1, FALSE)
    BY <1>5, BackendIs DEF GhProgramMetadata
  <2>5. Relayed(Port, "program_metadata", a)
    BY <1>19, <1>4, PortIs DEF SingleTools
  <2>6. Fails(Port) \/ Port = Answer(program["subject"], 1, FALSE)
    BY <2>4, <2>5 DEF Relayed
  <2> QED BY <2>2, <2>3, <2>6, <1>5, WholeAnswer DEF OnceAnswer
<1>20. CASE tool = "coverage"
  <2>1. Sources(tool) = <<"subject">>
    BY <1>20 DEF Sources, CodeTools
  <2>2. program["subject"] \in Seq(Item) /\ all = program["subject"]
    BY <1>1, <1>2, <2>1, AllOne
  <2>3. Wanted = program["subject"]
    BY <1>1, <1>2, <1>3, <1>20, <2>2, WantedIs
  <2>4. Backend("coverage", program, a) = Answer(program["subject"], 1, FALSE)
    BY <1>5, BackendIs DEF GhCoverage
  <2>5. Relayed(Port, "coverage", a)
    BY <1>20, <1>4, PortIs DEF SingleTools
  <2>6. Fails(Port) \/ Port = Answer(program["subject"], 1, FALSE)
    BY <2>4, <2>5 DEF Relayed
  <2> QED BY <2>2, <2>3, <2>6, <1>5, WholeAnswer DEF OnceAnswer
<1>21. CASE tool = "demangle"
  <2>1. Sources(tool) = <<"subject">>
    BY <1>21 DEF Sources, CodeTools
  <2>2. program["subject"] \in Seq(Item) /\ all = program["subject"]
    BY <1>1, <1>2, <2>1, AllOne
  <2>3. Wanted = program["subject"]
    BY <1>1, <1>2, <1>3, <1>21, <2>2, WantedIs
  <2>4. Backend("demangle", program, a) = Answer(program["subject"], 1, FALSE)
    BY <1>5, BackendIs DEF GhDemangle
  <2>5. Relayed(Port, "demangle", a)
    BY <1>21, <1>4, PortIs DEF SingleTools
  <2>6. Fails(Port) \/ Port = Answer(program["subject"], 1, FALSE)
    BY <2>4, <2>5 DEF Relayed
  <2> QED BY <2>2, <2>3, <2>6, <1>5, WholeAnswer DEF OnceAnswer
<1>22. CASE tool = "read_bytes"
  <2>1. Sources(tool) = <<"bytes">>
    BY <1>22 DEF Sources, CodeTools
  <2>2. program["bytes"] \in Seq(Item) /\ all = program["bytes"]
    BY <1>1, <1>2, <2>1, AllOne
  <2>3. PICK items : items = program["bytes"]
    OBVIOUS
  <2>4. items \in Seq(Item) /\ Wanted = Cut(items, ReadLength)
    BY <1>1, <1>2, <1>22, <2>2, <2>3, WantedIs
  <2> DEFINE b == [offset |-> 0, limit |-> ReadLength]
  <2>0. ReadLength \in Nat
    BY OncePages
  <2>5. Relayed(Port, "read_bytes", b)
    BY <1>22, PortIs
  <2>6. Backend("read_bytes", program, b) = GhReadBytes(program, b)
    BY BackendIs
  <2>7. PICK read \in Nat :
          GhReadBytes(program, b) = Answer(Cut(items, Lesser(read, ReadLength)), Lesser(read, ReadLength),
              read < ReadLength)
    BY ONLY <2>0, <2>3, <2>4, BytesRead
  <2>8. CASE Fails(Port)
    BY <2>8 DEF OnceAnswer
  <2>9. CASE Port = GhReadBytes(program, b)
    <3>1. PICK m \in Nat : m = Lesser(read, ReadLength)
      BY OncePages DEF Lesser
    <3>2. m <= ReadLength /\ (~(read < ReadLength) => m = ReadLength)
      BY <3>1, OncePages DEF Lesser
    <3>3. Port.kind = "ok" /\ Port.rows = Cut(items, m) /\ Port.truncated = (read < ReadLength)
      BY <2>7, <2>9, <3>1 DEF Answer
    <3>4. Cut(Wanted, m) = Cut(items, m)
      BY <2>4, <3>2, OncePages, CutTwice
    <3>5. ~Port.truncated => m = ReadLength
      <4>1. read < ReadLength => (read < ReadLength) = TRUE
        OBVIOUS
      <4> QED BY <4>1, <3>2, <3>3, Zenon
    <3> QED BY <2>4, <3>3, <3>4, <3>5 DEF OnceAnswer
  <2> QED BY <2>5, <2>6, <2>8, <2>9 DEF Relayed
<1>23. CASE tool = "identify_functions"
  <2>1. Sources(tool) = <<"identified">>
    BY <1>23 DEF Sources, CodeTools
  <2>2. program["identified"] \in Seq(Item) /\ all = program["identified"]
    BY <1>1, <1>2, <2>1, AllOne
  <2>3. PICK items : items = program["identified"]
    OBVIOUS
  <2>4. items \in Seq(Item) /\ Wanted = items
    BY <1>1, <1>2, <1>3, <1>23, <2>2, <2>3, WantedIs
  <2>5. PICK b : b = [offset |-> 0, limit |-> IdentifyBudget]
    OBVIOUS
  <2>6. PICK x : x = BuildSearch("identify_functions", Request("identify_functions", b))
    OBVIOUS
  <2>7. Relayed(x, "identify_functions", b)
    BY <2>5, <2>6, OncePages, RelayedIs DEF BuildSearch
  <2>8. Port = IdentifyFunctions
    BY <1>23, PortIs
  <2>9. CASE Fails(x)
    <3>1. IdentifyFunctions = x
      BY <2>5, <2>6, <2>9 DEF IdentifyFunctions, Fails
    <3> QED BY <2>8, <2>9, <3>1 DEF OnceAnswer
  <2>10. CASE x = Backend("identify_functions", program, b)
    <3>1. b.limit = IdentifyBudget /\ IdentifyBudget \in Nat
      BY <2>5, OncePages
    <3>2. x = [Capped(items, IdentifyBudget) EXCEPT !.truncated = Len(items) >= IdentifyBudget]
      BY <2>3, <2>10, <3>1, BackendIs DEF GhIdentifyFunctions
    <3>3. x.kind = "ok" /\ x.rows = Cut(items, IdentifyBudget) /\ x.truncated = (Len(items) >= IdentifyBudget)
      BY <3>2 DEF Capped, Answer
    <3>4. PICK rows : rows = x.rows
      OBVIOUS
    <3>5. rows \in Seq(Item) /\ Len(rows) \in Nat
      <4>1. Cut(items, IdentifyBudget) \in Seq(Item)
        BY <2>4, <3>1, CutIs
      <4> QED BY <4>1, <3>3, <3>4
    <3>6. PICK l \in Nat : l = page.limit
      BY OncePages DEF ReadTyped
    <3>7. PICK y : y = Answer(Cut(rows, l), Len(Cut(rows, l)), x.truncated \/ Len(rows) > l)
      OBVIOUS
    <3>8. IdentifyFunctions = y
      BY <2>5, <2>6, <3>3, <3>4, <3>6, <3>7 DEF IdentifyFunctions
    <3>9. y.kind = "ok" /\ y.rows = Cut(rows, l) /\ y.truncated = (x.truncated \/ Len(rows) > l)
      BY <3>7 DEF Answer
    <3>10. PICK m \in Nat : m = Lesser(l, IdentifyBudget)
      BY <3>1 DEF Lesser
    <3>11. y.rows = Cut(items, m)
      <4>1. CASE l <= IdentifyBudget
        <5>1. m = l
          BY <4>1, <3>10 DEF Lesser
        <5> QED BY <4>1, <5>1, <2>4, <3>1, <3>3, <3>4, <3>9, CutTwice
      <4>2. CASE ~(l <= IdentifyBudget)
        <5>1. m = IdentifyBudget
          BY <4>2, <3>10 DEF Lesser
        <5>2. Len(rows) <= l
          <6>1. Len(rows) = Lesser(IdentifyBudget, Len(items)) /\ Len(items) \in Nat
            BY <2>4, <3>1, <3>3, <3>4, CutIs
          <6> QED BY <6>1, <4>2, <3>1 DEF Lesser
        <5>3. Cut(rows, l) = rows
          BY <5>2, <3>5, CutWhole
        <5> QED BY <5>1, <5>3, <3>3, <3>4, <3>9
      <4> QED BY <4>1, <4>2
    <3>12. ~y.truncated => Len(items) <= m
      <4>1. ~y.truncated => ~(Len(items) >= IdentifyBudget) /\ ~(Len(rows) > l)
        <5>1. (Len(items) >= IdentifyBudget => (Len(items) >= IdentifyBudget) = TRUE)
              /\ (Len(rows) > l => (Len(rows) > l) = TRUE)
          OBVIOUS
        <5> QED BY <5>1, <3>3, <3>9, Zenon
      <4>2. ASSUME ~(Len(items) >= IdentifyBudget), ~(Len(rows) > l)
            PROVE  Len(items) <= m
        <5>1. rows = items
          BY <4>2, <2>4, <3>1, <3>3, <3>4, CutWhole
        <5> QED BY <4>2, <5>1, <2>4, <3>1, <3>10 DEF Lesser
      <4> QED BY <4>1, <4>2
    <3> QED BY <2>4, <2>8, <3>8, <3>9, <3>11, <3>12, StartAnswer
  <2> QED BY <2>7, <2>9, <2>10 DEF Relayed
<1>24. tool \in {"disassemble", "get_pcode", "get_high_pcode", "basic_blocks", "stack_frame",
                 "memory_map", "decompile_function", "get_function", "get_symbol", "get_data_type",
                 "function_hash", "bsim_similarity", "program_fingerprint", "program_metadata",
                 "coverage", "demangle", "read_bytes", "identify_functions"}
  BY DEF CodeTools, SingleTools
<1> QED BY <1>24, <1>6, <1>7, <1>8, <1>9, <1>10, <1>11, <1>12, <1>13, <1>14, <1>15, <1>16, <1>17,
           <1>18, <1>19, <1>20, <1>21, <1>22, <1>23

(* A name the program does not have is not answered. *)
LEMMA UnknownFails ==
  ASSUME ReadConstants, ReadTyped, arg = "unknown"
  PROVE  Fails(Port)
<1>0. tool \in DOMAIN CodeHandlers \/ tool \in DOMAIN DataHandlers \/ tool \in DOMAIN ScanHandlers
  BY DEF ReadTyped, Tools, Paged, ListingTools, SearchTools, SymbolTools, ScanTools, CodeTools, SingleTools,
         CodeHandlers, DataHandlers, ScanHandlers
<1>6. Takes(tool) \in {"none", "filter", "pattern", "name"}
  BY <1>0 DEF Takes, CodeHandlers, DataHandlers, ScanHandlers
<1>1. Takes(tool) = "name"
  BY <1>6 DEF ReadTyped, Args
<1>2. tool \in {"decompile_function", "disassemble", "get_pcode", "get_high_pcode", "stack_frame",
                "basic_blocks", "function_hash", "bsim_similarity", "get_function", "xrefs_to",
                "xrefs_from", "get_symbol", "get_data_type"}
  BY <1>0, <1>1 DEF Takes, CodeHandlers, DataHandlers, ScanHandlers
<1>3. CASE tool \in {"disassemble", "get_pcode", "get_high_pcode", "basic_blocks"}
  <2>1. tool \in DOMAIN CodeTools /\ CodeTools[tool] = tool
    BY <1>3 DEF CodeTools
  <2>2. tool \in Resolving
    BY <1>3 DEF Resolving
  <2> QED BY <2>1, <2>2, PortIs DEF Relayed
<1>4. CASE tool \in {"xrefs_to", "xrefs_from"}
  <2>1. tool \in DOMAIN ListingTools /\ ListingTools[tool] = tool
    BY <1>4 DEF ListingTools
  <2>2. tool \in Resolving
    BY <1>4 DEF Resolving
  <2> QED BY <2>1, <2>2, PortIs DEF Relayed
<1>5. CASE tool \notin {"disassemble", "get_pcode", "get_high_pcode", "basic_blocks", "xrefs_to", "xrefs_from"}
  <2>1. tool \in DOMAIN SingleTools
    BY <1>2, <1>5 DEF SingleTools
  <2>2. tool \in Resolving
    BY <1>2, <1>5 DEF Resolving
  <2> QED BY <2>1, <2>2, PortIs DEF Relayed
<1> QED BY <1>3, <1>4, <1>5

-----------------------------------------------------------------------------
(* The walk. *)

(* What the pages are cut from is in the program, in its order. *)
LEMMA FoundIs ==
  ASSUME ReadConstants, ReadTyped
  PROVE  /\ Found \in Seq(Item) /\ Wanted \in Seq(Item) /\ Once(Wanted) /\ Inside(Found, Wanted)
         /\ tool \notin Paged => Found = Wanted
<1>1. Wanted \in Seq(Item) /\ Once(Wanted)
  BY OncePages, WantedOnce DEF ReadTyped
<1>2. Inside(Wanted, Wanted) /\ Inside(Cut(Wanted, MaxResults), Wanted) /\ Cut(Wanted, MaxResults) \in Seq(Item)
  BY <1>1, OncePages, InsideSelf, CutInside, CutIs
<1>3. CASE tool \in ScanTools
  BY <1>1, <1>3, PagedScan DEF ScanAnswer, Paged
<1>4. CASE tool \notin ScanTools
  <2>1. Found = IF tool = "search_bytes" THEN Cut(Wanted, MaxResults) ELSE Wanted
    BY <1>4 DEF Found
  <2>2. "search_bytes" \in Paged
    BY DEF Paged, SearchTools
  <2> QED BY <1>1, <1>2, <2>1, <2>2
<1> QED BY <1>3, <1>4

(* A page of a tool that is paged. *)
LEMMA PagedPort ==
  ASSUME ReadConstants, ReadTyped, tool \in Paged
  PROVE  \/ Fails(Port)
         \/ /\ Port.kind = "ok" /\ Port.rows = Slice(Found, page)
            /\ ~Port.truncated =>
                 /\ Len(Found) <= page.offset + page.limit
                 /\ Found = Wanted \/ (tool = "search_bytes" /\ Len(Found) = MaxResults)
<1>1. Found \in Seq(Item) /\ Wanted \in Seq(Item)
  BY FoundIs
<1>2. page.offset \in Nat /\ page.limit \in Nat /\ MaxResults \in Nat
  BY OncePages DEF ReadTyped
<1>3. CASE tool \in ScanTools
  <2>1. ~(page.offset + page.limit < Len(Found)) => Len(Found) <= page.offset + page.limit
    BY <1>1, <1>2
  <2> QED BY <1>3, <2>1, PagedScan DEF ScanAnswer
<1>4. CASE tool \in DOMAIN ListingTools \cup DOMAIN SearchTools \cup DOMAIN SymbolTools
  <2>1. /\ tool = "search_bytes" => Found = Cut(Wanted, MaxResults)
        /\ tool # "search_bytes" => Found = Wanted
        /\ Fails(Port) \/ Port = Sliced(Found, page)
    BY <1>4, PagedOne DEF PageOf
  <2>2. Found = Wanted \/ (tool = "search_bytes" /\ Len(Found) = MaxResults)
    <3>1. CASE tool # "search_bytes"
      BY <2>1, <3>1
    <3>2. CASE tool = "search_bytes" /\ Len(Wanted) <= MaxResults
      BY <2>1, <3>2, <1>1, <1>2, CutWhole
    <3>3. CASE tool = "search_bytes" /\ ~(Len(Wanted) <= MaxResults)
      <4>1. Len(Found) = Lesser(MaxResults, Len(Wanted)) /\ Len(Wanted) \in Nat
        <5>1. Found = Cut(Wanted, MaxResults)
          BY ONLY <2>1, <3>3
        <5>2. Len(Cut(Wanted, MaxResults)) = Lesser(MaxResults, Len(Wanted))
          BY ONLY <1>1, <1>2, CutIs
        <5> QED BY ONLY <5>1, <5>2, <1>1
      <4>2. Lesser(MaxResults, Len(Wanted)) = MaxResults
        BY ONLY <4>1, <3>3, <1>2 DEF Lesser
      <4> QED BY <3>3, <4>1, <4>2
    <3> QED BY <3>1, <3>2, <3>3
  <2>3. CASE Port = Sliced(Found, page)
    <3>1. Port.kind = "ok" /\ Port.rows = Slice(Found, page)
          /\ Port.truncated = (page.offset + page.limit < Len(Found))
      BY <2>3 DEF Sliced, Answer
    <3>2. ~(Len(Found) <= page.offset + page.limit) => (page.offset + page.limit < Len(Found)) = TRUE
      BY <1>1, <1>2
    <3>3. ~Port.truncated => Len(Found) <= page.offset + page.limit
      BY <3>1, <3>2, Zenon
    <3> QED BY <2>2, <3>1, <3>3
  <2> QED BY <2>1, <2>3
<1> QED BY <1>3, <1>4 DEF Paged

(* The handler: what it answers, and for which arguments. *)
LEMMA HandleIs ==
  ASSUME ReadConstants, ReadTyped
  PROVE  \/ Fails(Handle)
         \/ Handle = Port /\ arg \in {"good", "absent"}
<1>1. arg \in {"good", "bad", "unknown", "absent"}
  <2>1. tool \in DOMAIN CodeHandlers \/ tool \in DOMAIN DataHandlers \/ tool \in DOMAIN ScanHandlers
    BY DEF ReadTyped, Tools, Paged, ListingTools, SearchTools, SymbolTools, ScanTools, CodeTools, SingleTools,
           CodeHandlers, DataHandlers, ScanHandlers
  <2>2. Takes(tool) \in {"none", "filter", "pattern", "name"}
    BY <2>1 DEF Takes, CodeHandlers, DataHandlers, ScanHandlers
  <2> QED BY <2>2 DEF ReadTyped, Args
<1>2. Fails(Failed("failed_precondition")) /\ Fails(Failed("validation"))
  BY DEF Fails, Failed, None
<1>3. arg = "unknown" => Fails(Port)
  BY UnknownFails
<1> QED BY <1>1, <1>2, <1>3 DEF Handle

(* A step that changes neither the call nor the program. *)
LEMMA SameFound ==
  ASSUME UNCHANGED <<tool, arg, program, fault>>
  PROVE  Found' = Found /\ Wanted' = Wanted
<1>1. Wanted' = Wanted
  BY DEF Wanted
<1>2. Strings' = Strings /\ Imports' = Imports
  BY DEF Strings, Imports, BuildListing, BuildSymbols, FailClosed, Request
<1>3. CryptoConstantScan' = CryptoConstantScan
  BY DEF CryptoConstantScan, BuildSearch, FailClosed, Request
<1>4. CryptoDetect' = CryptoDetect
  BY <1>2 DEF CryptoDetect, Request
<1>5. CapabilityScan' = CapabilityScan
  BY <1>2 DEF CapabilityScan, BuildSymbols, FailClosed, Request
<1>6. SecretByteMagic' = SecretByteMagic
  BY DEF SecretByteMagic, BuildSingle, FailClosed, Request
<1>7. ScanSources' = ScanSources
  BY <1>2, <1>3, <1>4, <1>5, <1>6 DEF ScanSources, IocScan, SecretScan
<1> QED BY <1>1, <1>7 DEF Found

LEMMA SameTyped ==
  ASSUME ReadTyped, UNCHANGED <<tool, arg, program, fault>>, page' \in [offset : Nat, limit : 1..MaxResults]
  PROVE  ReadTyped'
<1>1. AnyProgram'
  BY DEF ReadTyped, AnyProgram
<1> QED BY <1>1 DEF ReadTyped

LEMMA CutAt ==
  ASSUME NEW S, NEW items \in Seq(S), NEW n \in Nat
  PROVE  \E m \in 0..Len(items) : Cut(items, n) = Cut(items, m)
<1>1. PICK m : m = Lesser(n, Len(items))
  OBVIOUS
<1>2. m \in 0..Len(items) /\ Lesser(m, Len(items)) = m
  BY <1>1 DEF Lesser
<1> QED BY <1>1, <1>2 DEF Cut

(* The model-checked calls are among them. *)
LEMMA CheckedIsAny == ReadConstants /\ ReadInit => ReadAny
<1> SUFFICES ASSUME ReadConstants, ReadInit PROVE ReadAny
  OBVIOUS
<1>1. PICK f \in [ToSet(Sources(tool)) ->
                     IF Sources(tool) = <<"subject">> THEN {<<TRUE>>} ELSE Listings(MaxItems)] :
        program = [k \in DOMAIN f |-> Items(k, f[k])]
  BY DEF ReadInit
<1>2. ToSet(Sources(tool)) \subseteq UNION {ToSet(Sources(t)) : t \in Tools}
  <2>1. tool \in Tools
    BY DEF ReadInit
  <2> QED BY ONLY <2>1
<1>3. ASSUME NEW k \in ToSet(Sources(tool))
      PROVE  \E n \in Nat : f[k] \in [1..n -> BOOLEAN]
  <2>1. CASE f[k] = <<TRUE>>
    <3>1. \A t \in BOOLEAN : f[k] = <<t>> => f[k] \in [1..1 -> BOOLEAN]
      OBVIOUS
    <3>2. 1 \in Nat
      OBVIOUS
    <3> QED BY ONLY <2>1, <3>1, <3>2, Zenon
  <2>2. CASE f[k] \in Listings(MaxItems)
    <3>1. PICK n \in 0..MaxItems : \E missed \in SUBSET (1..n) : f[k] = [i \in 1..n |-> i \notin missed]
      BY ONLY <2>2, Zenon DEF Listings
    <3> QED BY <3>1 DEF ReadConstants
  <2> QED BY <1>1, <2>1, <2>2
<1>4. ASSUME NEW k \in ToSet(Sources(tool))
      PROVE  /\ program[k] \in Seq(Item)
             /\ \A i \in DOMAIN program[k] :
                  /\ program[k][i].kind = k /\ program[k][i].n = i
                  /\ program[k][i].hit => program[k][i].initialized
  <2>1. PICK n \in Nat : f[k] \in [1..n -> BOOLEAN]
    BY <1>3
  <2>2. program[k] = [i \in 1..n |-> [kind |-> k, n |-> i, hit |-> f[k][i], initialized |-> f[k][i]]]
    BY <1>1, <2>1 DEF Items
  <2>3. \A i \in 1..n : [kind |-> k, n |-> i, hit |-> f[k][i], initialized |-> f[k][i]] \in Item
    BY <1>2, <2>1 DEF Item
  <2>4. program[k] \in [1..n -> Item]
    BY ONLY <2>2, <2>3
  <2>5. program[k] \in Seq(Item)
    BY ONLY <2>1, <2>4, SeqDef
  <2> QED BY <2>2, <2>5
<1>5. AnyProgram
  BY <1>1, <1>4 DEF AnyProgram
<1>6. "none" \in AnyMethod /\ Methods(tool) \subseteq AnyMethod
  <2>1. tool \in Tools
    BY DEF ReadInit
  <2> QED BY ONLY <2>1 DEF AnyMethod
<1>7. fault \in [method : AnyMethod, kind : {"none", "down", "raises", "row", "key"}]
  <2>1. fault \in {[method |-> "none", kind |-> "none"]}
                   \cup [method : Methods(tool), kind : {"down", "raises", "row", "key"}]
    BY DEF ReadInit
  <2>2. CASE fault = [method |-> "none", kind |-> "none"]
    BY ONLY <1>6, <2>2
  <2>3. CASE fault \in [method : Methods(tool), kind : {"down", "raises", "row", "key"}]
    BY ONLY <1>6, <2>3
  <2> QED BY ONLY <2>1, <2>2, <2>3
<1>8. page \in [offset : {0}, limit : 1..MaxResults]
  BY DEF ReadInit, ReadConstants
<1> QED BY <1>5, <1>7, <1>8 DEF ReadInit, ReadAny

LEMMA ReadStart == ReadConstants /\ ReadAny => ReadInv
<1> SUFFICES ASSUME ReadConstants, ReadAny PROVE ReadInv
  OBVIOUS
<1>1. ReadTyped
  BY DEF ReadAny, ReadTyped
<1>2. Found \in Seq(Item)
  BY <1>1, FoundIs
<1>3. Cut(Found, 0) = <<>> /\ 0 \in 0..Len(Found)
  BY <1>2, CutEnds
<1>4. got = <<>> /\ reply.kind # "ok" /\ page.offset + 0 = 0
  BY DEF ReadAny, None
<1> QED BY <1>1, <1>3, <1>4 DEF ReadInv

LEMMA ToolCallKeeps == ReadConstants /\ ReadInv /\ ToolCall => ReadInv'
<1> SUFFICES ASSUME ReadConstants, ReadInv, ToolCall PROVE ReadInv'
  OBVIOUS
<1>1. ReadTyped /\ UNCHANGED <<tool, arg, program, fault, page>>
      /\ reply' = Handle /\ got' = got \o Handle.rows /\ reply.kind # "ok"
  BY DEF ReadInv, ToolCall, None
<1>2. ReadTyped'
  BY <1>1, SameTyped DEF ReadTyped
<1>3. PICK found \in Seq(Item) : found = Found
  BY <1>1, FoundIs
<1>4. Found' = found /\ Wanted' = Wanted
  BY <1>1, <1>3, SameFound
<1>5. page.offset \in Nat /\ page.limit \in Nat
  BY <1>1, OncePages DEF ReadTyped
<1>6. PICK n \in 0..Len(found) : got = Cut(found, n)
  BY <1>3 DEF ReadInv
<1>7. got \in Seq(Item)
  BY <1>6, CutIs
<1>8. tool \in Paged => got = Cut(found, page.offset)
  BY <1>1, <1>3, <1>5 DEF ReadInv
<1>9. tool \notin Paged => got = <<>> /\ found = Wanted
  BY <1>1, <1>3, FoundIs DEF ReadInv
<1>10. CASE Fails(Handle)
  <2>1. got' = got /\ reply'.kind # "ok"
    BY <1>1, <1>7, <1>10 DEF Fails
  <2>2. tool \in Paged => got = Cut(found, page.offset + 0)
    BY <1>5, <1>8
  <2> QED BY <1>1, <1>2, <1>4, <1>6, <1>9, <2>1, <2>2 DEF ReadInv
<1>11. CASE Handle = Port /\ arg \in {"good", "absent"} /\ ~Fails(Port) /\ tool \in Paged
  <2>1. /\ Port.kind = "ok" /\ Port.rows = Slice(found, page)
        /\ ~Port.truncated =>
             /\ Len(found) <= page.offset + page.limit
             /\ found = Wanted \/ (tool = "search_bytes" /\ Len(found) = MaxResults)
    BY <1>1, <1>3, <1>11, PagedPort
  <2>2. Cut(found, page.offset) \o Slice(found, page) = Cut(found, page.offset + page.limit)
    <3>1. PICK o \in Nat, l \in Nat : page.offset = o /\ page.limit = l
      BY <1>5
    <3>2. Cut(found, o) \o Slice(found, page) = Cut(found, o + l)
      BY ONLY <3>1, found \in Seq(Item), CutMore
    <3> QED BY ONLY <3>1, <3>2
  <2>3. got' = Cut(found, page.offset + page.limit)
    BY <1>1, <1>8, <1>11, <2>1, <2>2
  <2>4. PICK m \in 0..Len(found) : got' = Cut(found, m)
    <3>1. PICK o \in Nat : o = page.offset + page.limit
      BY ONLY <1>5
    <3>2. \E m \in 0..Len(found) : Cut(found, o) = Cut(found, m)
      BY ONLY found \in Seq(Item), o \in Nat, CutAt
    <3> QED BY <3>1, <3>2, <2>3
  <2>5. ~Port.truncated => got' = found
    <3>1. PICK o \in Nat : o = page.offset + page.limit
      BY ONLY <1>5
    <3>2. Len(found) <= o => Cut(found, o) = found
      BY ONLY <3>1, found \in Seq(Item), CutWhole
    <3> QED BY <3>1, <3>2, <2>1, <2>3
  <2>6. reply' = Port /\ reply'.kind = "ok" /\ tool' \in Paged' /\ arg' \in {"good", "absent"} /\ page' = page
    BY <1>1, <1>11, <2>1 DEF Paged
  <2>7. ~reply'.truncated => got' = Wanted' \/ (tool' = "search_bytes" /\ Len(got') = MaxResults)
    BY <1>1, <1>4, <2>1, <2>5, <2>6
  <2> QED BY <1>2, <1>4, <2>3, <2>4, <2>6, <2>7 DEF ReadInv
<1>12. CASE Handle = Port /\ arg \in {"good", "absent"} /\ ~Fails(Port) /\ tool \notin Paged
  <2>1. /\ Port.kind = "ok" /\ \E m \in Nat : Port.rows = Cut(found, m)
        /\ ~Port.truncated => Port.rows = Wanted
    <3>1. tool \in DOMAIN CodeTools \cup DOMAIN SingleTools \cup {"identify_functions"}
      BY <1>1, <1>12 DEF ReadTyped, Tools
    <3> QED BY <1>1, <1>9, <1>12, <3>1, OneShot DEF OnceAnswer
  <2>2. PICK m \in 0..Len(found) : Port.rows = Cut(found, m)
    <3>1. PICK o \in Nat : Port.rows = Cut(found, o)
      BY <2>1
    <3>2. \E m \in 0..Len(found) : Cut(found, o) = Cut(found, m)
      BY ONLY found \in Seq(Item), o \in Nat, CutAt
    <3> QED BY ONLY <3>1, <3>2
  <2>3. Port.rows \in Seq(Item)
    BY <2>2, CutIs
  <2>4. got' = Port.rows
    BY <1>1, <1>9, <1>12, <2>3
  <2>5. reply' = Port /\ reply'.kind = "ok" /\ tool' \notin Paged' /\ arg' \in {"good", "absent"}
    BY <1>1, <1>12, <2>1 DEF Paged
  <2>6. ~reply'.truncated => got' = Wanted'
    BY <1>4, <2>1, <2>4, <2>5
  <2> QED BY <1>2, <1>4, <2>2, <2>4, <2>5, <2>6 DEF ReadInv
<1> QED BY <1>1, <1>10, <1>11, <1>12, HandleIs

LEMMA NextPageKeeps == ReadConstants /\ ReadInv /\ NextPage => ReadInv'
<1> SUFFICES ASSUME ReadConstants, ReadInv, NextPage PROVE ReadInv'
  OBVIOUS
<1>1. /\ ReadTyped /\ UNCHANGED <<tool, arg, program, fault, got>> /\ tool \in Paged
      /\ reply.kind = "ok" /\ reply' = None /\ page' = [page EXCEPT !.offset = page.offset + page.limit]
  BY DEF ReadInv, NextPage
<1>2. page \in [offset : Nat, limit : 1..MaxResults] /\ page.offset \in Nat /\ page.limit \in Nat
  BY <1>1, OncePages DEF ReadTyped
<1>3. /\ page' \in [offset : Nat, limit : 1..MaxResults]
      /\ page'.offset = page.offset + page.limit /\ page.offset + page.limit + 0 = page.offset + page.limit
  BY <1>1, <1>2
<1>4. ReadTyped'
  BY <1>1, <1>3, SameTyped
<1>5. Found' = Found /\ Wanted' = Wanted
  BY <1>1, SameFound
<1>6. reply'.kind # "ok" /\ tool' \in Paged'
  BY <1>1 DEF None, Paged
<1>7. got' = Cut(Found', page'.offset + 0)
  BY <1>1, <1>3, <1>5 DEF ReadInv
<1>8. \E n \in 0..Len(Found') : got' = Cut(Found', n)
  BY <1>1, <1>5 DEF ReadInv
<1> QED BY <1>4, <1>6, <1>7, <1>8 DEF ReadInv

LEMMA ReadStep == ReadConstants /\ ReadInv /\ [ReadNext]_readVars => ReadInv'
<1> SUFFICES ASSUME ReadConstants, ReadInv, [ReadNext]_readVars PROVE ReadInv'
  OBVIOUS
<1>1. CASE ToolCall
  BY <1>1, ToolCallKeeps
<1>2. CASE NextPage
  BY <1>2, NextPageKeeps
<1>3. ASSUME UNCHANGED <<tool, arg, program, fault, page, got>>,
             reply' = reply \/ (reply.kind # "ok" /\ reply'.kind # "ok")
      PROVE  ReadInv'
  <2>1. ReadTyped'
    BY <1>3, SameTyped DEF ReadInv, ReadTyped
  <2>2. Found' = Found /\ Wanted' = Wanted /\ Paged' = Paged
    BY <1>3, SameFound DEF Paged
  <2> QED BY <1>3, <2>1, <2>2 DEF ReadInv
<1>4. CASE Import
  BY <1>3, <1>4 DEF Import, None
<1>5. CASE UNCHANGED readVars
  BY <1>3, <1>5 DEF readVars
<1> QED BY <1>1, <1>2, <1>4, <1>5 DEF ReadNext

LEMMA ReadHonest == ReadConstants /\ ReadInv => AnswersAreHonest
<1> SUFFICES ASSUME ReadConstants, ReadInv PROVE AnswersAreHonest
  OBVIOUS
<1>1. ReadTyped
  BY DEF ReadInv
<1>2. PICK found \in Seq(Item), wanted \in Seq(Item) :
        found = Found /\ wanted = Wanted /\ Once(wanted) /\ Inside(found, wanted)
  BY <1>1, FoundIs
<1>3. PICK n \in 0..Len(found) : got = Cut(found, n)
  BY <1>2 DEF ReadInv
<1>4. got \in Seq(Item) /\ Inside(got, found)
  BY <1>3, CutIs, CutInside
<1>5. Inside(got, wanted)
  BY <1>2, <1>4, InsideThrough
<1>6. /\ IsInjective(got) /\ ToSet(got) \subseteq ToSet(wanted)
      /\ \A i, j \in DOMAIN got : i < j =>
           (CHOOSE k \in DOMAIN wanted : wanted[k] = got[i]) < (CHOOSE k \in DOMAIN wanted : wanted[k] = got[j])
  BY <1>2, <1>4, <1>5, HonestInside
<1> QED BY <1>2, <1>6, Zenon DEF ReadInv, AnswersAreHonest

(* Whatever tool is called on whatever program, with whatever failing and   *)
(* however many pages, no answer is a wrong one: the rows are items of the  *)
(* program in their order, each once, and all of them when the reply does   *)
(* not say truncated.                                                       *)
THEOREM AnswersAreHonestHolds == ReadSpec => []AnswersAreHonest
<1>1. ReadAny => ReadInv
  BY ReadConstants, ReadStart
<1>2. ReadInv /\ [ReadNext]_readVars => ReadInv'
  BY ReadConstants, ReadStep
<1>3. ReadInv => AnswersAreHonest
  BY ReadConstants, ReadHonest
<1> QED BY <1>1, <1>2, <1>3, PTL DEF ReadSpec

-----------------------------------------------------------------------------
(* The order of a call graph.  The search for components keeps TarjanInv,  *)
(* a lemma for each way a turn of its loop can go; they speak of an        *)
(* adjacency adj and of the search's state before (w) and after (v).       *)

CallsNodes(adj) == DOMAIN adj \subseteq Nat /\ \A f \in DOMAIN adj : adj[f] \subseteq DOMAIN adj

(* Reachability: reflexive, transitive, over calls, and inside what is closed. *)
LEMMA ReachesSelf ==
  ASSUME NEW adj, NEW f \in DOMAIN adj
  PROVE  f \in Reaches(adj, f)
  BY DEF Reaches

LEMMA ReachesOn ==
  ASSUME NEW adj, NEW f, NEW g \in Reaches(adj, f), NEW h \in Reaches(adj, g)
  PROVE  h \in Reaches(adj, f)
  BY DEF Reaches

LEMMA ReachesCallee ==
  ASSUME NEW adj, NEW f \in DOMAIN adj, NEW g \in adj[f], g \in DOMAIN adj
  PROVE  g \in Reaches(adj, f)
  BY DEF Reaches, Closed

LEMMA ReachesInside ==
  ASSUME NEW adj, NEW S \in SUBSET DOMAIN adj, Closed(adj, S), NEW f \in S
  PROVE  Reaches(adj, f) \subseteq S
  BY DEF Reaches

(* What f reaches beside itself, it reaches through a callee. *)
LEMMA ReachesThrough ==
  ASSUME NEW adj, CallsNodes(adj), NEW f \in DOMAIN adj, NEW g \in Reaches(adj, f), g # f
  PROVE  \E h \in adj[f] : g \in Reaches(adj, h)
<1> DEFINE S == {x \in DOMAIN adj : x = f \/ \E h \in adj[f] : x \in Reaches(adj, h)}
<1>1. ASSUME NEW x \in S, NEW y \in adj[x]
      PROVE  y \in S
  <2>1. y \in DOMAIN adj /\ x \in DOMAIN adj
    BY <1>1 DEF CallsNodes
  <2>2. CASE x = f
    BY <2>1, <2>2, ReachesSelf
  <2>3. CASE x # f
    <3>1. PICK h \in adj[f] : x \in Reaches(adj, h)
      BY <2>3
    <3>2. y \in Reaches(adj, x)
      BY <2>1, <1>1, ReachesCallee
    <3>3. y \in Reaches(adj, h)
      BY <3>1, <3>2, ReachesOn
    <3> QED BY <2>1, <3>1, <3>3
  <2> QED BY <2>2, <2>3
<1>2. Closed(adj, S)
  BY <1>1 DEF Closed
<1>3. g \in S
  BY <1>2, ReachesInside
<1> QED BY <1>3

(* What the types say of the two stacks. *)
LEMMA StackFacts ==
  ASSUME NEW adj, NEW t, TarjanTypes(adj, t)
  PROVE  /\ Len(t.work) \in Nat /\ DOMAIN t.work = 1..Len(t.work)
         /\ Len(t.stack) \in Nat /\ DOMAIN t.stack = 1..Len(t.stack)
         /\ \A j \in DOMAIN t.work : NodeAtWork(t, j) \in DOMAIN adj /\ t.work[j].looked \subseteq DOMAIN adj
         /\ \A i \in DOMAIN t.stack : t.stack[i] \in DOMAIN adj
         /\ \A f \in DOMAIN t.index : f \in DOMAIN adj /\ t.index[f] \in Nat /\ t.low[f] \in Nat
<1>1. /\ t.work \in Seq(WorkEntry(adj)) /\ t.stack \in Seq(DOMAIN adj)
      /\ DOMAIN t.index \subseteq DOMAIN adj
      /\ t.index \in [DOMAIN t.index -> Nat] /\ t.low \in [DOMAIN t.index -> Nat]
  BY DEF TarjanTypes
<1>2. \A j \in DOMAIN t.work : t.work[j] \in WorkEntry(adj)
  BY <1>1
<1>3. \A j \in DOMAIN t.work : NodeAtWork(t, j) \in DOMAIN adj /\ t.work[j].looked \subseteq DOMAIN adj
  BY <1>2 DEF NodeAtWork, WorkEntry
<1> QED BY <1>1, <1>3

(* Two places of the stack are in the order of their indexes. *)
LEMMA StackPlaces ==
  ASSUME NEW adj, NEW t, TarjanTypes(adj, t), StackOrdered(t), NEW i \in DOMAIN t.stack, NEW k \in DOMAIN t.stack
  PROVE  /\ i <= k <=> t.index[t.stack[i]] <= t.index[t.stack[k]]
         /\ t.stack[i] = t.stack[k] => i = k
<1>1. i \in Nat /\ k \in Nat /\ t.index[t.stack[i]] \in Nat /\ t.index[t.stack[k]] \in Nat
  BY StackFacts DEF StackOrdered, Indexed
<1>2. /\ i < k => t.index[t.stack[i]] < t.index[t.stack[k]]
      /\ k < i => t.index[t.stack[k]] < t.index[t.stack[i]]
  BY DEF StackOrdered
<1> QED BY <1>1, <1>2

(* The top of the work stack, once grey, is the last of the grey ones. *)
LEMMA TopIsLast ==
  ASSUME NEW adj, NEW t, TurnInv(adj, t), t.work # <<>>, GreyAt(t, Len(t.work)), NEW f, f = NodeAtWork(t, Len(t.work))
  PROVE  /\ Len(t.work) \in DOMAIN t.work /\ f \in DOMAIN adj /\ Indexed(t, f) /\ OnStack(t, f)
         /\ \A j \in DOMAIN t.work : GreyAt(t, j) /\ (j # Len(t.work) => NodeAtWork(t, j) # f)
         /\ \A j \in DOMAIN t.work : j # Len(t.work) => t.index[NodeAtWork(t, j)] < t.index[f]
<1>1. TarjanTypes(adj, t) /\ WorkOrdered(adj, t)
  BY DEF TurnInv
<1>2. Len(t.work) \in Nat \ {0} /\ DOMAIN t.work = 1..Len(t.work)
  BY <1>1, StackFacts DEF TarjanTypes
<1>3. \A j \in DOMAIN t.work : GreyAt(t, j)
  BY <1>1, <1>2 DEF WorkOrdered
<1>4. \A j \in DOMAIN t.work : j # Len(t.work) => t.index[NodeAtWork(t, j)] < t.index[f]
  BY <1>1, <1>2, <1>3 DEF WorkOrdered
<1>5. f \in DOMAIN adj /\ Indexed(t, f) /\ OnStack(t, f) /\ t.index[f] \in Nat
  BY <1>1, <1>2, <1>3, StackFacts DEF WorkOrdered, GreyAt, Indexed
<1> QED BY <1>2, <1>3, <1>4, <1>5

AtTop(adj, w, n, f) ==
  /\ n \in Nat \ {0} /\ DOMAIN w.work = 1..n /\ n \in 1..n /\ f \in DOMAIN adj /\ f \in DOMAIN w.index
  /\ \A j \in 1..n : GreyAt(w, j) /\ (j # n => NodeAtWork(w, j) # f)
  /\ \A j \in 1..n : NodeAtWork(w, j) \in DOMAIN w.index
  /\ \A x \in DOMAIN w.index : w.index[x] \in Nat /\ w.low[x] \in Nat
  /\ \A j \in 1..n : j # n => w.index[NodeAtWork(w, j)] < w.index[f]
  /\ OnStack(w, f)

LEMMA TopFacts ==
  ASSUME NEW adj, NEW t, TurnInv(adj, t), t.work # <<>>, NEW n, n = Len(t.work), NEW f, f = NodeAtWork(t, n), GreyAt(t, n)
  PROVE  AtTop(adj, t, n, f)
<1>1. /\ n \in DOMAIN t.work /\ f \in DOMAIN adj /\ f \in DOMAIN t.index /\ OnStack(t, f)
      /\ \A j \in DOMAIN t.work : GreyAt(t, j) /\ (j # n => NodeAtWork(t, j) # f)
      /\ \A j \in DOMAIN t.work : j # n => t.index[NodeAtWork(t, j)] < t.index[f]
  BY TopIsLast DEF Indexed
<1>2. /\ DOMAIN t.work = 1..n /\ n \in Nat
      /\ \A x \in DOMAIN t.index : t.index[x] \in Nat /\ t.low[x] \in Nat
  <2>1. TarjanTypes(adj, t)
    BY DEF TurnInv
  <2> QED BY <2>1, StackFacts
<1>3. \A j \in DOMAIN t.work : NodeAtWork(t, j) \in DOMAIN t.index
  BY <1>1 DEF GreyAt, Indexed
<1>4. n # 0
  BY <1>1, <1>2
<1> QED BY <1>1, <1>2, <1>3, <1>4 DEF AtTop

(* A turn that enters the node on top. *)
LEMMA TarjanEnters ==
  ASSUME NEW adj, NEW w, NEW v, CallsNodes(adj), TurnInv(adj, w), w.work # <<>>,
         NEW n, n = Len(w.work), NEW f, f = NodeAtWork(w, n), ~GreyAt(w, n), w.work[n].looked = {},
         v = Enter(w, f)
  PROVE  TurnInv(adj, v) /\ GreyAt(v, n) /\ v.work = w.work
<1>0. PICK p : p = Len(w.stack)
  OBVIOUS
<1>1. /\ TarjanTypes(adj, w) /\ StackOrdered(w) /\ WorkOrdered(adj, w) /\ Partition(w) /\ FinishedSeen(w)
      /\ SccsExact(adj, w) /\ GreyReaches(adj, w) /\ BackToGrey(adj, w) /\ LookedSeen(w) /\ BlackDone(adj, w)
      /\ LowReached(adj, w) /\ LowCovers(adj, w) /\ RootsLeft(adj, w)
  BY DEF TurnInv
<1>2. /\ n \in Nat \ {0} /\ DOMAIN w.work = 1..n /\ p \in Nat /\ DOMAIN w.stack = 1..p
      /\ \A j \in DOMAIN w.work : NodeAtWork(w, j) \in DOMAIN adj /\ w.work[j].looked \subseteq DOMAIN adj
      /\ \A i \in DOMAIN w.stack : w.stack[i] \in DOMAIN adj
      /\ \A x \in DOMAIN w.index : x \in DOMAIN adj /\ w.index[x] \in Nat /\ w.low[x] \in Nat
  <2>1. w.work \in Seq(WorkEntry(adj))
    BY <1>1 DEF TarjanTypes
  <2>2. n # 0
    BY <2>1
  <2> QED BY <1>0, <1>1, <2>2, StackFacts
<1>3. f \in DOMAIN adj /\ f \notin DOMAIN w.index
  BY <1>2 DEF GreyAt, Indexed
<1>4. /\ v.work = w.work /\ v.roots = w.roots /\ v.sccs = w.sccs /\ v.counter = w.counter + 1
      /\ v.stack = Append(w.stack, f) /\ v.index = Put(w.index, f, w.counter) /\ v.low = Put(w.low, f, w.counter)
      /\ DOMAIN v = DOMAIN w
  BY <1>1 DEF Enter, TarjanTypes
<1>5. /\ DOMAIN v.index = DOMAIN w.index \cup {f} /\ v.index[f] = w.counter /\ v.low[f] = w.counter
      /\ \A x \in DOMAIN w.index : v.index[x] = w.index[x] /\ v.low[x] = w.low[x] /\ x # f
      /\ v.index \in [DOMAIN v.index -> Nat] /\ v.low \in [DOMAIN v.index -> Nat]
  BY <1>1, <1>3, <1>4 DEF Put, TarjanTypes
<1>6. /\ v.stack \in Seq(DOMAIN adj) /\ DOMAIN v.stack = 1..p + 1 /\ v.stack[p + 1] = f
      /\ \A i \in 1..p : v.stack[i] = w.stack[i]
  <2>1. w.stack \in Seq(DOMAIN adj)
    BY <1>1 DEF TarjanTypes
  <2> QED BY <1>0, <1>3, <1>4, <2>1, Pushed
<1>7. \A x : Indexed(v, x) <=> Indexed(w, x) \/ x = f
  BY <1>5 DEF Indexed
<1>8. \A x : OnStack(v, x) <=> OnStack(w, x) \/ x = f
  <2>1. \A i : i \in 1..p + 1 <=> i \in 1..p \/ i = p + 1
    BY <1>2
  <2> QED BY <1>2, <1>6, <2>1 DEF OnStack
<1>9. \A j \in DOMAIN w.work : NodeAtWork(v, j) = NodeAtWork(w, j)
  BY <1>4 DEF NodeAtWork
<1>10. \A j \in 1..n : GreyAt(v, j) /\ (j < n => GreyAt(w, j) /\ Indexed(w, NodeAtWork(w, j)) /\ NodeAtWork(w, j) # f)
  BY <1>1, <1>2, <1>3, <1>7, <1>9 DEF WorkOrdered, GreyAt, Indexed
<1>11. \A i \in 1..p : w.stack[i] \in DOMAIN w.index /\ w.stack[i] # f
  BY <1>1, <1>2, <1>3 DEF StackOrdered, Indexed
<1>22. /\ \A i \in 1..p + 1 : i = p + 1 \/ i \in 1..p
       /\ \A i \in 1..p : v.index[v.stack[i]] = w.index[w.stack[i]] /\ i \in 1..p + 1
  BY <1>2, <1>5, <1>6, <1>11
<1>12. w.counter \in Nat /\ \A x \in DOMAIN w.index : w.index[x] < w.counter
  BY <1>1 DEF TarjanTypes, StackOrdered
<1>13. TarjanTypes(adj, v)
  BY <1>1, <1>3, <1>4, <1>5, <1>6, <1>12 DEF TarjanTypes
<1>14. StackOrdered(v)
  <2>1. \A i \in DOMAIN v.stack : Indexed(v, v.stack[i])
    BY <1>5, <1>6, <1>22, <1>11 DEF Indexed
  <2>2. \A x \in DOMAIN v.index : v.index[x] < v.counter
    BY <1>2, <1>4, <1>5, <1>12
  <2>3. ASSUME NEW i \in DOMAIN v.stack, NEW j \in DOMAIN v.stack, i < j
        PROVE  v.index[v.stack[i]] < v.index[v.stack[j]]
    <3>1. i \in 1..p /\ v.index[v.stack[i]] = w.index[w.stack[i]] /\ w.stack[i] \in DOMAIN w.index
      <4>1. i # p + 1
        BY <2>3, <1>2, <1>6
      <4> QED BY <4>1, <1>6, <1>11, <1>22
    <3>2. CASE j = p + 1
      BY <3>1, <3>2, <1>5, <1>6, <1>12
    <3>3. CASE j # p + 1
      <4>1. j \in 1..p /\ v.index[v.stack[j]] = w.index[w.stack[j]]
        <5>1. j \in 1..p
          BY <3>3, <1>6, <1>22
        <5> QED BY <5>1, <1>6, <1>22
      <4>2. w.index[w.stack[i]] < w.index[w.stack[j]]
        BY <2>3, <3>1, <4>1, <1>1, <1>2 DEF StackOrdered
      <4> QED BY <3>1, <4>1, <4>2
    <3> QED BY <3>2, <3>3
  <2> QED BY <2>1, <2>2, <2>3 DEF StackOrdered
<1>15. WorkOrdered(adj, v)
  <2>1. \A j \in DOMAIN v.work : v.work[j].looked \subseteq Normalize(adj, NodeAtWork(v, j))
    BY <1>1, <1>4, <1>9 DEF WorkOrdered
  <2>2. \A j \in DOMAIN v.work : j < Len(v.work) => GreyAt(v, j) /\ v.work[j].looked # {}
    BY <1>1, <1>2, <1>4, <1>10 DEF WorkOrdered
  <2>3. \A j \in DOMAIN v.work : GreyAt(v, j) => OnStack(v, NodeAtWork(v, j))
    BY <1>1, <1>2, <1>4, <1>8, <1>9, <1>10 DEF WorkOrdered
  <2>4. \A i, j \in DOMAIN v.work :
          i < j /\ GreyAt(v, j) => v.index[NodeAtWork(v, i)] < v.index[NodeAtWork(v, j)]
    <3> SUFFICES ASSUME NEW i \in 1..n, NEW j \in 1..n, i < j
                 PROVE  v.index[NodeAtWork(w, i)] < v.index[NodeAtWork(w, j)]
      BY <1>2, <1>4, <1>9
    <3>1. i < n /\ NodeAtWork(w, i) \in DOMAIN w.index /\ v.index[NodeAtWork(w, i)] = w.index[NodeAtWork(w, i)]
      BY <1>2, <1>5, <1>10 DEF Indexed
    <3>2. CASE j = n
      BY <3>1, <3>2, <1>5, <1>12
    <3>3. CASE j # n
      <4>1. GreyAt(w, j) /\ v.index[NodeAtWork(w, j)] = w.index[NodeAtWork(w, j)]
        BY <3>3, <1>2, <1>5, <1>10 DEF Indexed
      <4>2. w.index[NodeAtWork(w, i)] < w.index[NodeAtWork(w, j)]
        BY <4>1, <1>1, <1>2 DEF WorkOrdered
      <4> QED BY <3>1, <4>1, <4>2
    <3> QED BY <3>2, <3>3
  <2>5. \A j \in DOMAIN v.work : j > 1 /\ ~GreyAt(v, j) => NodeAtWork(v, j) \in adj[NodeAtWork(v, j - 1)]
    BY <1>2, <1>4, <1>10
  <2> QED BY <2>1, <2>2, <2>3, <2>4, <2>5 DEF WorkOrdered
<1>16. Partition(v) /\ FinishedSeen(v) /\ SccsExact(adj, v)
  <2>1. \A x : Finished(v, x) <=> Finished(w, x)
    BY <1>4 DEF Finished
  <2>2. ~Finished(w, f)
    BY <1>1, <1>3 DEF FinishedSeen, Finished
  <2>3. Partition(v)
    BY <1>1, <1>5, <1>8, <2>1, <2>2 DEF Partition
  <2>4. FinishedSeen(v)
    BY <1>1, <1>4, <1>5 DEF FinishedSeen
  <2>5. SccsExact(adj, v)
    BY <1>1, <1>4 DEF SccsExact
  <2> QED BY <2>3, <2>4, <2>5
<1>17. GreyReaches(adj, v)
  <2> SUFFICES ASSUME NEW j \in 1..n, NEW i \in 1..p + 1, v.index[NodeAtWork(w, j)] <= v.index[v.stack[i]]
               PROVE  v.stack[i] \in Reaches(adj, NodeAtWork(w, j))
    <3>1. DOMAIN v.work = 1..n /\ DOMAIN v.stack = 1..p + 1 /\ \A j \in 1..n : NodeAtWork(v, j) = NodeAtWork(w, j)
      BY <1>2, <1>4, <1>6, <1>9
    <3> QED BY <3>1 DEF GreyReaches
  <2>1. CASE i # p + 1
    <3>1. i \in 1..p /\ v.stack[i] = w.stack[i] /\ v.index[v.stack[i]] = w.index[w.stack[i]]
      BY <2>1, <1>2, <1>5, <1>6, <1>11
    <3>2. j < n
      BY <3>1, <1>2, <1>5, <1>11, <1>12
    <3>3. GreyAt(w, j) /\ w.index[NodeAtWork(w, j)] <= w.index[w.stack[i]]
      BY <3>1, <3>2, <1>5, <1>10 DEF Indexed
    <3> QED BY <3>1, <3>3, <1>1, <1>2 DEF GreyReaches
  <2>2. CASE i = p + 1 /\ j = n
    BY <2>2, <1>3, <1>6, ReachesSelf
  <2>3. CASE i = p + 1 /\ j # n
    <3>1. /\ n - 1 \in 1..n /\ n - 1 < n /\ j <= n - 1 /\ j < n
          /\ f \in adj[NodeAtWork(w, n - 1)] /\ NodeAtWork(w, n - 1) \in DOMAIN adj
      <4>1. n \in DOMAIN w.work /\ n > 1 /\ n - 1 \in 1..n /\ n - 1 < n /\ j <= n - 1 /\ j < n
        BY <2>3, <1>2
      <4>2. f \in adj[NodeAtWork(w, n - 1)]
        BY <4>1, <1>1 DEF WorkOrdered
      <4> QED BY <4>1, <4>2, <1>2
    <3>2. f \in Reaches(adj, NodeAtWork(w, n - 1))
      BY <3>1, <1>3, ReachesCallee
    <3>3. GreyAt(w, n - 1) /\ GreyAt(w, j) /\ w.index[NodeAtWork(w, n - 1)] \in Nat
      BY <3>1, <1>2, <1>10 DEF Indexed
    <3>4. PICK k \in 1..p : w.stack[k] = NodeAtWork(w, n - 1)
      BY <3>1, <3>3, <1>1, <1>2 DEF WorkOrdered, OnStack
    <3>5. w.index[NodeAtWork(w, j)] <= w.index[NodeAtWork(w, n - 1)]
      <4>1. CASE j = n - 1
        BY <4>1, <3>3
      <4>2. CASE j # n - 1
        <5>1. j \in DOMAIN w.work /\ n - 1 \in DOMAIN w.work /\ j < n - 1
          BY <4>2, <3>1, <1>2
        <5>2. w.index[NodeAtWork(w, j)] < w.index[NodeAtWork(w, n - 1)]
          BY <5>1, <3>3, <1>1 DEF WorkOrdered
        <5>3. w.index[NodeAtWork(w, j)] \in Nat
          BY <3>3, <1>2 DEF GreyAt, Indexed
        <5> QED BY <5>2, <5>3, <3>3
      <4> QED BY <4>1, <4>2
    <3>6. NodeAtWork(w, n - 1) \in Reaches(adj, NodeAtWork(w, j))
      BY <3>1, <3>3, <3>4, <3>5, <1>1, <1>2 DEF GreyReaches
    <3> QED BY <3>2, <3>6, <2>3, <1>6, ReachesOn
  <2> QED BY <2>1, <2>2, <2>3
<1>18. BackToGrey(adj, v)
  <2> SUFFICES ASSUME NEW i \in 1..p + 1
               PROVE  \E j \in 1..n : v.index[NodeAtWork(w, j)] <= v.index[v.stack[i]]
                                      /\ NodeAtWork(w, j) \in Reaches(adj, v.stack[i])
    BY <1>2, <1>4, <1>6, <1>9, <1>10 DEF BackToGrey
  <2>1. CASE i # p + 1
    <3>1. i \in 1..p /\ v.stack[i] = w.stack[i] /\ v.index[v.stack[i]] = w.index[w.stack[i]]
      <4>1. i \in 1..p
        BY ONLY <2>1, <1>2, i \in 1..p + 1
      <4>2. v.stack[i] = w.stack[i]
        BY ONLY <4>1, <1>6
      <4> QED BY ONLY <4>1, <4>2, <1>22
    <3>2. PICK j \in 1..n : GreyAt(w, j) /\ w.index[NodeAtWork(w, j)] <= w.index[w.stack[i]]
                            /\ NodeAtWork(w, j) \in Reaches(adj, w.stack[i])
      BY <3>1, <1>1, <1>2 DEF BackToGrey
    <3>3. v.index[NodeAtWork(w, j)] = w.index[NodeAtWork(w, j)]
      BY <3>2, <1>5 DEF GreyAt, Indexed
    <3> QED BY <3>1, <3>2, <3>3
  <2>2. CASE i = p + 1
    BY <2>2, <1>2, <1>3, <1>5, <1>6, <1>12, ReachesSelf
  <2> QED BY <2>1, <2>2
<1>19. LookedSeen(v) /\ BlackDone(adj, v) /\ RootsLeft(adj, v)
  <2>1. \A x : Grey(v, x) <=> Grey(w, x)
    BY <1>4, <1>9 DEF Grey
  <2>2. LookedSeen(v)
    <3>1. LookedSeen(w)
      BY <1>1
    <3> QED BY ONLY <3>1, <1>4, <1>7, <1>9 DEF LookedSeen
  <2>3. Grey(w, f)
    BY <1>2 DEF Grey
  <2>4. BlackDone(adj, v)
    BY <1>1, <1>5, <2>1, <2>3 DEF BlackDone
  <2>5. RootsLeft(adj, v)
    BY <1>1, <1>4, <1>7, <2>1 DEF RootsLeft
  <2> QED BY <2>2, <2>4, <2>5
<1>20. LowReached(adj, v)
  <2> SUFFICES ASSUME NEW j \in DOMAIN v.work
               PROVE  /\ v.low[NodeAtWork(v, j)] <= v.index[NodeAtWork(v, j)]
                      /\ \E i \in DOMAIN v.stack : v.index[v.stack[i]] = v.low[NodeAtWork(v, j)]
                                                   /\ v.stack[i] \in Reaches(adj, NodeAtWork(v, j))
    BY DEF LowReached
  <2>3. j \in 1..n /\ NodeAtWork(v, j) = NodeAtWork(w, j) /\ DOMAIN v.stack = 1..p + 1
    BY <1>2, <1>4, <1>6, <1>9
  <2>1. CASE j = n
    <3>1. p + 1 \in 1..p + 1 /\ w.counter <= w.counter
      BY <1>2, <1>12
    <3>2. f \in Reaches(adj, f)
      BY <1>3, ReachesSelf
    <3> QED BY <2>1, <2>3, <3>1, <3>2, <1>5, <1>6
  <2>2. CASE j # n
    <3>1. GreyAt(w, j) /\ v.low[NodeAtWork(w, j)] = w.low[NodeAtWork(w, j)]
          /\ v.index[NodeAtWork(w, j)] = w.index[NodeAtWork(w, j)]
      BY <2>2, <2>3, <1>2, <1>5, <1>10 DEF Indexed
    <3>2. PICK i \in 1..p : w.index[w.stack[i]] = w.low[NodeAtWork(w, j)] /\ w.stack[i] \in Reaches(adj, NodeAtWork(w, j))
      BY <2>3, <3>1, <1>1, <1>2 DEF LowReached
    <3>3. v.stack[i] = w.stack[i] /\ v.index[w.stack[i]] = w.index[w.stack[i]] /\ i \in 1..p + 1
      BY <1>2, <1>5, <1>6, <1>11
    <3>4. w.low[NodeAtWork(w, j)] <= w.index[NodeAtWork(w, j)]
      BY <2>3, <3>1, <1>1, <1>2 DEF LowReached
    <3> QED BY <2>3, <3>1, <3>2, <3>3, <3>4
  <2> QED BY <2>1, <2>2
<1>21. LowCovers(adj, v)
  <2> SUFFICES ASSUME NEW j \in DOMAIN v.work, NEW i \in DOMAIN v.stack, NEW k \in DOMAIN v.stack,
                      Owns(v, j, i), v.stack[k] \in adj[v.stack[i]],
                      v.stack[i] = NodeAtWork(v, j) => v.stack[k] \in v.work[j].looked
               PROVE  v.low[NodeAtWork(v, j)] <= v.index[v.stack[k]]
    BY DEF LowCovers
  <2>0. /\ j \in 1..n /\ i \in 1..p + 1 /\ k \in 1..p + 1 /\ NodeAtWork(v, j) = NodeAtWork(w, j)
        /\ v.work[j].looked = w.work[j].looked
    BY <1>2, <1>4, <1>6, <1>9
  <2>1. i # p + 1
    <3>1. ASSUME i = p + 1 PROVE FALSE
      <4>1. v.index[NodeAtWork(v, n)] <= v.index[v.stack[i]] /\ GreyAt(v, n) /\ n \in DOMAIN v.work
        <5>1. n \in 1..n /\ n \in DOMAIN v.work
          BY <1>2, <1>4
        <5>2. NodeAtWork(v, n) = f /\ v.stack[i] = f
          BY <5>1, <3>1, <1>2, <1>6, <1>9
        <5>3. v.index[f] <= v.index[f]
          BY <1>5, <1>12
        <5> QED BY <5>1, <5>2, <5>3, <1>10
      <4>2. j = n
        BY <2>0, <4>1, <1>2 DEF Owns
      <4> QED BY <2>0, <3>1, <4>2, <1>6
    <3> QED BY <2>0, <3>1
  <2>2. i \in 1..p /\ v.stack[i] = w.stack[i] /\ v.index[v.stack[i]] = w.index[w.stack[i]] /\ w.stack[i] \in DOMAIN w.index
    BY <2>0, <2>1, <1>6, <1>11, <1>22
  <2>3. v.index[NodeAtWork(w, j)] <= w.index[w.stack[i]]
    BY <2>0, <2>2, <1>2, <1>9 DEF Owns
  <2>4. j < n
    BY <2>0, <2>2, <2>3, <1>2, <1>5, <1>12
  <2>5. /\ GreyAt(w, j) /\ v.index[NodeAtWork(w, j)] = w.index[NodeAtWork(w, j)]
        /\ v.low[NodeAtWork(w, j)] = w.low[NodeAtWork(w, j)] /\ NodeAtWork(w, j) \in DOMAIN w.index
    BY <2>0, <2>4, <1>5, <1>10 DEF Indexed
  <2>6. ASSUME NEW m \in 1..n, GreyAt(w, m), w.index[NodeAtWork(w, m)] <= w.index[w.stack[i]]
        PROVE  m <= j
    <3>1. m \in DOMAIN v.work /\ GreyAt(v, m) /\ NodeAtWork(v, m) = NodeAtWork(w, m)
      BY <1>2, <1>4, <1>9, <1>10
    <3>2. v.index[NodeAtWork(w, m)] = w.index[NodeAtWork(w, m)]
      BY <2>0, <2>6, <1>5 DEF GreyAt, Indexed
    <3> QED BY <2>0, <2>2, <2>6, <3>1, <3>2 DEF Owns
  <2>7. Owns(w, j, i)
    BY <2>0, <2>3, <2>5, <2>6, <1>2 DEF Owns
  <2>8. w.low[NodeAtWork(w, j)] <= w.index[NodeAtWork(w, j)]
    BY <2>0, <2>5, <1>1, <1>2 DEF LowReached
  <2>9. CASE k = p + 1
    BY <2>0, <2>5, <2>8, <2>9, <1>2, <1>5, <1>6, <1>12
  <2>10. CASE k # p + 1
    <3>1. k \in 1..p /\ v.stack[k] = w.stack[k] /\ v.index[v.stack[k]] = w.index[w.stack[k]]
      BY <2>0, <2>10, <1>6, <1>22
    <3>2. w.low[NodeAtWork(w, j)] <= w.index[w.stack[k]]
      BY <2>0, <3>1, <2>2, <2>7, <1>1, <1>2 DEF LowCovers
    <3> QED BY <2>0, <3>1, <3>2, <2>5
  <2> QED BY <2>0, <2>9, <2>10
<1> QED BY <1>4, <1>2, <1>10, <1>13, <1>14, <1>15, <1>16, <1>17, <1>18, <1>19, <1>20, <1>21 DEF TurnInv

(* What looking at a callee changes of the work stack. *)
Marked(w, work, n, c) == work = [w.work EXCEPT ![n].looked = @ \cup {c}]
MarkedAt(adj, w, work, n, c) ==
  /\ work \in Seq(WorkEntry(adj)) /\ Len(work) = n
  /\ \A j \in 1..n : work[j].node = NodeAtWork(w, j)
  /\ \A j \in 1..n : j # n => work[j].looked = w.work[j].looked
  /\ work[n].looked = w.work[n].looked \cup {c}

LEMMA LookedAt ==
  ASSUME NEW adj, NEW w, TarjanTypes(adj, w), w.work # <<>>, NEW n, n = Len(w.work), NEW c \in DOMAIN adj,
         NEW work, Marked(w, work, n, c)
  PROVE  MarkedAt(adj, w, work, n, c)
<1>1. w.work \in Seq(WorkEntry(adj)) /\ n \in Nat \ {0} /\ DOMAIN w.work = 1..n
  BY DEF TarjanTypes
<1>2. \A j \in 1..n : w.work[j] \in WorkEntry(adj)
  BY <1>1
<1>3. \A j \in 1..n : work[j] = IF j = n THEN [w.work[n] EXCEPT !.looked = @ \cup {c}] ELSE w.work[j]
  BY <1>1 DEF Marked
<1>4. \A e \in WorkEntry(adj) : /\ [e EXCEPT !.looked = @ \cup {c}] \in WorkEntry(adj)
                                /\ [e EXCEPT !.looked = @ \cup {c}].node = e.node
                                /\ [e EXCEPT !.looked = @ \cup {c}].looked = e.looked \cup {c}
  BY DEF WorkEntry
<1>5. work \in [1..n -> WorkEntry(adj)] /\ DOMAIN work = 1..n
  BY <1>1, <1>2, <1>3, <1>4 DEF Marked
<1>6. work \in Seq(WorkEntry(adj)) /\ Len(work) = n
  BY <1>1, <1>5
<1>7. /\ n \in 1..n /\ work[n] = [w.work[n] EXCEPT !.looked = @ \cup {c}]
      /\ \A j \in 1..n : j # n => work[j] = w.work[j]
  <2>1. n \in 1..n
    BY <1>1
  <2>2. PICK e : e = [w.work[n] EXCEPT !.looked = @ \cup {c}]
    OBVIOUS
  <2>3. \A j \in 1..n : work[j] = IF j = n THEN e ELSE w.work[j]
    BY <1>3, <2>2
  <2> QED BY <2>1, <2>2, <2>3
<1>8. work[n].node = w.work[n].node /\ work[n].looked = w.work[n].looked \cup {c}
  <2>1. w.work[n] \in WorkEntry(adj)
    BY <1>2, <1>7
  <2> QED BY <1>4, <1>7, <2>1
<1>9. \A j \in 1..n : work[j].node = NodeAtWork(w, j)
  <2> SUFFICES ASSUME NEW j \in 1..n PROVE work[j].node = w.work[j].node
    BY DEF NodeAtWork
  <2>1. CASE j = n
    BY <2>1, <1>8
  <2>2. CASE j # n
    BY <2>2, <1>7
  <2> QED BY <2>1, <2>2
<1>10. \A j \in 1..n : j # n => work[j].looked = w.work[j].looked
  BY <1>7
<1> QED BY <1>6, <1>8, <1>9, <1>10 DEF MarkedAt

(* A turn that looks at a node not seen before: it goes on the work stack. *)
Descended(w, v, work, c) ==
  /\ v.roots = w.roots /\ v.sccs = w.sccs /\ v.counter = w.counter /\ v.stack = w.stack
  /\ v.index = w.index /\ v.low = w.low /\ DOMAIN v = DOMAIN w
  /\ v.work = Append(work, [node |-> c, looked |-> {}])

LEMMA DescendKeeps ==
  ASSUME NEW adj, NEW w, NEW v, CallsNodes(adj), TurnInv(adj, w), w.work # <<>>,
         NEW n, n = Len(w.work), NEW f, f = NodeAtWork(w, n), GreyAt(w, n),
         NEW c, c \in Normalize(adj, f), ~Indexed(w, c),
         NEW work, Marked(w, work, n, c),
         Descended(w, v, work, c)
  PROVE  TarjanInv(adj, v)
<1>1. /\ TarjanTypes(adj, w) /\ StackOrdered(w) /\ WorkOrdered(adj, w) /\ Partition(w) /\ FinishedSeen(w)
      /\ SccsExact(adj, w) /\ GreyReaches(adj, w) /\ BackToGrey(adj, w) /\ LookedSeen(w) /\ BlackDone(adj, w)
      /\ LowReached(adj, w) /\ LowCovers(adj, w) /\ RootsLeft(adj, w)
  BY DEF TurnInv
<1>2. /\ n \in Nat \ {0} /\ DOMAIN w.work = 1..n /\ f \in DOMAIN adj /\ Indexed(w, f)
      /\ \A j \in 1..n : GreyAt(w, j)
  BY <1>1, TopIsLast, StackFacts
<1>3. c \in adj[f] /\ c # f /\ c \in DOMAIN adj
  BY <1>2 DEF Normalize, CallsNodes
<1>4. MarkedAt(adj, w, work, n, c)
  BY <1>1, <1>3, LookedAt
<1>5. [node |-> c, looked |-> {}] \in WorkEntry(adj)
  BY <1>3 DEF WorkEntry
<1>6. /\ v.roots = w.roots /\ v.sccs = w.sccs /\ v.counter = w.counter /\ v.stack = w.stack
      /\ v.index = w.index /\ v.low = w.low /\ DOMAIN v = DOMAIN w
      /\ v.work = Append(work, [node |-> c, looked |-> {}])
  BY DEF Descended
<1>7. /\ v.work \in Seq(WorkEntry(adj)) /\ Len(v.work) = n + 1 /\ DOMAIN v.work = 1..n + 1
      /\ v.work[n + 1].node = c /\ v.work[n + 1].looked = {}
      /\ \A j \in 1..n : v.work[j] = work[j]
  <2>1. work \in Seq(WorkEntry(adj)) /\ Len(work) = n
    BY <1>4 DEF MarkedAt
  <2> QED BY <1>5, <1>6, <2>1, Pushed
<1>8. /\ \A j \in 1..n : NodeAtWork(v, j) = NodeAtWork(w, j)
      /\ \A j \in 1..n : j # n => v.work[j].looked = w.work[j].looked
      /\ v.work[n].looked = w.work[n].looked \cup {c}
      /\ NodeAtWork(v, n + 1) = c /\ n \in 1..n
  BY <1>2, <1>4, <1>6, <1>7 DEF NodeAtWork, MarkedAt
<1>21. /\ \A x : Indexed(v, x) <=> Indexed(w, x)
       /\ \A x : OnStack(v, x) <=> OnStack(w, x)
  BY <1>6 DEF Indexed, OnStack
<1>9. /\ \A j \in 1..n : GreyAt(v, j) /\ j \in 1..n + 1
      /\ ~GreyAt(v, n + 1) /\ n + 1 \in 1..n + 1
      /\ \A j \in 1..n + 1 : j \in 1..n \/ j = n + 1
      /\ \A j \in 1..n + 1 : GreyAt(v, j) => j \in 1..n
  <2>1. \A j \in 1..n : GreyAt(v, j)
    BY <1>2, <1>8, <1>21 DEF GreyAt
  <2>2. ~GreyAt(v, n + 1)
    BY <1>8, <1>21 DEF GreyAt
  <2>3. /\ n + 1 \in 1..n + 1 /\ \A j \in 1..n + 1 : j \in 1..n \/ j = n + 1
        /\ \A j \in 1..n : j \in 1..n + 1
    BY <1>2
  <2> QED BY <2>1, <2>2, <2>3
<1>10. TarjanTypes(adj, v)
  BY <1>1, <1>6, <1>7 DEF TarjanTypes
<1>11. StackOrdered(v) /\ Partition(v) /\ FinishedSeen(v) /\ SccsExact(adj, v)
  BY <1>1, <1>6 DEF StackOrdered, Partition, FinishedSeen, SccsExact, Indexed, OnStack, Finished
<1>12. WorkOrdered(adj, v)
  <2>1. ASSUME NEW j \in 1..n + 1
        PROVE  v.work[j].looked \subseteq Normalize(adj, NodeAtWork(v, j))
    <3>1. CASE j = n + 1
      BY <3>1, <1>7
    <3>2. CASE j = n
      BY <3>2, <1>1, <1>2, <1>8 DEF WorkOrdered
    <3>3. CASE j \in 1..n /\ j # n
      BY <3>3, <1>1, <1>2, <1>8 DEF WorkOrdered
    <3> QED BY <3>1, <3>2, <3>3, <1>9
  <2>2. ASSUME NEW j \in 1..n
        PROVE  v.work[j].looked # {}
    <3>1. CASE j = n
      BY <3>1, <1>8
    <3>2. CASE j # n
      <4>1. j < n
        BY <3>2, <1>2
      <4>2. w.work[j].looked # {}
        BY <4>1, <1>1, <1>2 DEF WorkOrdered
      <4> QED BY <3>2, <4>2, <1>8
    <3> QED BY <3>1, <3>2
  <2>3. ASSUME NEW j \in 1..n
        PROVE  OnStack(v, NodeAtWork(v, j))
    BY <1>1, <1>2, <1>8, <1>21 DEF WorkOrdered
  <2>4. ASSUME NEW i \in 1..n + 1, NEW j \in 1..n, i < j
        PROVE  v.index[NodeAtWork(v, i)] < v.index[NodeAtWork(v, j)]
    <3>1. i \in 1..n
      BY <2>4, <1>2
    <3>2. w.index[NodeAtWork(w, i)] < w.index[NodeAtWork(w, j)]
      BY <2>4, <3>1, <1>1, <1>2 DEF WorkOrdered
    <3> QED BY <3>1, <3>2, <1>6, <1>8
  <2>5. NodeAtWork(v, n + 1) \in adj[NodeAtWork(v, n)]
    BY <1>3, <1>8
  <2>6. ASSUME NEW j \in DOMAIN v.work, j < Len(v.work)
        PROVE  GreyAt(v, j) /\ v.work[j].looked # {}
    <3>1. j \in 1..n
      BY <2>6, <1>2, <1>7
    <3> QED BY <2>2, <3>1, <1>9
  <2>7. ASSUME NEW j \in DOMAIN v.work, ~GreyAt(v, j)
        PROVE  NodeAtWork(v, j) \in adj[NodeAtWork(v, j - 1)]
    <3>1. j = n + 1
      BY <2>7, <1>7, <1>9
    <3>2. j - 1 = n
      BY <3>1, <1>2
    <3> QED BY <2>5, <3>1, <3>2
  <2>8. \A j \in DOMAIN v.work : v.work[j].looked \subseteq Normalize(adj, NodeAtWork(v, j))
    BY <2>1, <1>7
  <2>9. \A j \in DOMAIN v.work : GreyAt(v, j) => OnStack(v, NodeAtWork(v, j))
    BY <2>3, <1>7, <1>9
  <2>10. \A i, j \in DOMAIN v.work :
           i < j /\ GreyAt(v, j) => v.index[NodeAtWork(v, i)] < v.index[NodeAtWork(v, j)]
    BY <2>4, <1>7, <1>9
  <2> QED BY <2>6, <2>7, <2>8, <2>9, <2>10 DEF WorkOrdered
<1>13. GreyReaches(adj, v)
  BY <1>1, <1>2, <1>6, <1>7, <1>8, <1>9 DEF GreyReaches
<1>14. BackToGrey(adj, v)
  BY <1>1, <1>2, <1>6, <1>7, <1>8, <1>9 DEF BackToGrey
<1>15. \A x : Grey(w, x) => Grey(v, x)
  BY <1>2, <1>7, <1>8, <1>9 DEF Grey
<1>16. LookedSeen(v)
  <2>1. \A j \in 1..n : \A g \in w.work[j].looked : Indexed(w, g)
    BY <1>1, <1>2 DEF LookedSeen
  <2>2. ASSUME NEW j \in 1..n + 1, NEW g \in v.work[j].looked
        PROVE  Indexed(v, g) \/ (j + 1 = n + 1 /\ g = NodeAtWork(v, j + 1))
    <3>1. CASE j = n
      BY <2>1, <3>1, <1>2, <1>8, <1>21
    <3>2. CASE j # n
      BY <2>1, <3>2, <1>7, <1>8, <1>9, <1>21
    <3> QED BY <3>1, <3>2
  <2> QED BY <2>2, <1>7 DEF LookedSeen
<1>17. BlackDone(adj, v) /\ RootsLeft(adj, v)
  BY <1>1, <1>6, <1>21, <1>15 DEF BlackDone, RootsLeft
<1>18. LowReached(adj, v)
  BY <1>1, <1>2, <1>6, <1>7, <1>8, <1>9 DEF LowReached
<1>19. LowCovers(adj, v)
  <2> SUFFICES ASSUME NEW j \in DOMAIN v.work, NEW i \in DOMAIN v.stack, NEW k \in DOMAIN v.stack,
                      Owns(v, j, i), v.stack[k] \in adj[v.stack[i]],
                      v.stack[i] = NodeAtWork(v, j) => v.stack[k] \in v.work[j].looked
               PROVE  v.low[NodeAtWork(v, j)] <= v.index[v.stack[k]]
    BY DEF LowCovers
  <2>1. j \in 1..n
    BY <1>7, <1>9 DEF Owns
  <2>2. ASSUME NEW m \in 1..n, w.index[NodeAtWork(w, m)] <= w.index[w.stack[i]]
        PROVE  m <= j
    BY <2>2, <1>6, <1>7, <1>8, <1>9 DEF Owns
  <2>3. Owns(w, j, i)
    BY <2>1, <2>2, <1>2, <1>6, <1>8 DEF Owns
  <2>4. v.stack[k] # c
    BY <1>1, <1>6 DEF StackOrdered
  <2>5. w.stack[i] = NodeAtWork(w, j) => w.stack[k] \in w.work[j].looked
    BY <2>1, <2>4, <1>6, <1>8, <1>2
  <2> QED BY <2>1, <2>3, <2>5, <1>1, <1>2, <1>6, <1>8 DEF LowCovers
<1>20. TopNew(v)
  BY <1>7, <1>9 DEF TopNew
<1> QED BY <1>10, <1>11, <1>12, <1>13, <1>14, <1>16, <1>17, <1>18, <1>19, <1>20 DEF TurnInv, TarjanInv

(* A turn that looks at a node seen before, and may lower the low link. *)
Lowered(w, v, work, f, l) ==
  /\ v.roots = w.roots /\ v.sccs = w.sccs /\ v.counter = w.counter /\ v.stack = w.stack
  /\ v.index = w.index /\ DOMAIN v = DOMAIN w /\ v.work = work
  /\ v.low = [w.low EXCEPT ![f] = l]

LEMMA LowerKeeps ==
  ASSUME NEW adj, NEW w, NEW v, CallsNodes(adj), TurnInv(adj, w), w.work # <<>>,
         NEW n, n = Len(w.work), NEW f, f = NodeAtWork(w, n), GreyAt(w, n),
         NEW c, c \in Normalize(adj, f), Indexed(w, c),
         NEW work, Marked(w, work, n, c), NEW l \in Nat, Lowered(w, v, work, f, l),
         l <= w.low[f], l = w.low[f] \/ (OnStack(w, c) /\ l = w.index[c]),
         OnStack(w, c) => l <= w.index[c]
  PROVE  TarjanInv(adj, v)
<1>1. /\ TarjanTypes(adj, w) /\ StackOrdered(w) /\ WorkOrdered(adj, w) /\ Partition(w) /\ FinishedSeen(w)
      /\ SccsExact(adj, w) /\ GreyReaches(adj, w) /\ BackToGrey(adj, w) /\ LookedSeen(w) /\ BlackDone(adj, w)
      /\ LowReached(adj, w) /\ LowCovers(adj, w) /\ RootsLeft(adj, w)
  BY DEF TurnInv
<1>2. /\ n \in Nat \ {0} /\ DOMAIN w.work = 1..n /\ n \in 1..n /\ f \in DOMAIN adj /\ f \in DOMAIN w.index
      /\ \A j \in 1..n : GreyAt(w, j) /\ (j # n => NodeAtWork(w, j) # f)
      /\ \A j \in 1..n : NodeAtWork(w, j) \in DOMAIN w.index
      /\ \A x \in DOMAIN w.index : w.index[x] \in Nat /\ w.low[x] \in Nat
  BY TopFacts DEF AtTop
<1>3. c \in adj[f] /\ c # f /\ c \in DOMAIN adj
  BY <1>2 DEF Normalize, CallsNodes
<1>4. MarkedAt(adj, w, work, n, c)
  BY <1>1, <1>3, LookedAt
<1>5. /\ v.roots = w.roots /\ v.sccs = w.sccs /\ v.counter = w.counter /\ v.stack = w.stack
      /\ v.index = w.index /\ DOMAIN v = DOMAIN w /\ v.work = work
  BY DEF Lowered
<1>6. /\ v.low \in [DOMAIN w.index -> Nat] /\ v.low[f] = l
      /\ \A x \in DOMAIN w.index : x # f => v.low[x] = w.low[x]
  BY <1>1, <1>2 DEF Lowered, TarjanTypes
<1>7. /\ v.work \in Seq(WorkEntry(adj)) /\ Len(v.work) = n /\ DOMAIN v.work = 1..n
      /\ \A j \in 1..n : NodeAtWork(v, j) = NodeAtWork(w, j)
      /\ \A j \in 1..n : j # n => v.work[j].looked = w.work[j].looked
      /\ v.work[n].looked = w.work[n].looked \cup {c}
  BY <1>2, <1>4, <1>5 DEF NodeAtWork, MarkedAt
<1>8. /\ \A x : Indexed(v, x) <=> Indexed(w, x)
      /\ \A x : OnStack(v, x) <=> OnStack(w, x)
  BY <1>5 DEF Indexed, OnStack
<1>9. \A j \in 1..n : GreyAt(v, j)
  BY <1>2, <1>7, <1>8 DEF GreyAt
<1>10. TarjanTypes(adj, v)
  BY <1>1, <1>5, <1>6, <1>7 DEF TarjanTypes
<1>11. StackOrdered(v) /\ Partition(v) /\ FinishedSeen(v) /\ SccsExact(adj, v)
  BY <1>1, <1>5 DEF StackOrdered, Partition, FinishedSeen, SccsExact, Indexed, OnStack, Finished
<1>12. WorkOrdered(adj, v)
  <2>1. ASSUME NEW j \in 1..n
        PROVE  v.work[j].looked \subseteq Normalize(adj, NodeAtWork(v, j))
    <3>1. CASE j = n
      BY <3>1, <1>1, <1>2, <1>7 DEF WorkOrdered
    <3>2. CASE j # n
      BY <3>2, <1>1, <1>2, <1>7 DEF WorkOrdered
    <3> QED BY <3>1, <3>2
  <2>2. ASSUME NEW j \in 1..n, j < n
        PROVE  v.work[j].looked # {}
    BY <2>2, <1>1, <1>2, <1>7 DEF WorkOrdered
  <2>3. ASSUME NEW j \in 1..n
        PROVE  OnStack(v, NodeAtWork(v, j))
    BY <1>1, <1>2, <1>7, <1>8 DEF WorkOrdered
  <2>4. ASSUME NEW i \in 1..n, NEW j \in 1..n, i < j
        PROVE  v.index[NodeAtWork(v, i)] < v.index[NodeAtWork(v, j)]
    <3>1. w.index[NodeAtWork(w, i)] < w.index[NodeAtWork(w, j)]
      BY <2>4, <1>1, <1>2 DEF WorkOrdered
    <3> QED BY <3>1, <1>5, <1>7
  <2>5. \A j \in DOMAIN v.work : v.work[j].looked \subseteq Normalize(adj, NodeAtWork(v, j))
    BY <2>1, <1>7
  <2>6. \A j \in DOMAIN v.work : j < Len(v.work) => GreyAt(v, j) /\ v.work[j].looked # {}
    BY <2>2, <1>7, <1>9
  <2>7. \A j \in DOMAIN v.work : GreyAt(v, j) => OnStack(v, NodeAtWork(v, j))
    BY <2>3, <1>7
  <2>8. \A i, j \in DOMAIN v.work :
          i < j /\ GreyAt(v, j) => v.index[NodeAtWork(v, i)] < v.index[NodeAtWork(v, j)]
    BY <2>4, <1>7
  <2>9. \A j \in DOMAIN v.work : j > 1 /\ ~GreyAt(v, j) => NodeAtWork(v, j) \in adj[NodeAtWork(v, j - 1)]
    BY <1>7, <1>9
  <2> QED BY <2>5, <2>6, <2>7, <2>8, <2>9 DEF WorkOrdered
<1>13. GreyReaches(adj, v)
  BY <1>1, <1>2, <1>5, <1>7 DEF GreyReaches
<1>14. BackToGrey(adj, v)
  BY <1>1, <1>2, <1>5, <1>7, <1>9 DEF BackToGrey
<1>15. \A x : Grey(w, x) <=> Grey(v, x)
  BY <1>2, <1>7 DEF Grey
<1>16. LookedSeen(v)
  <2>1. \A j \in 1..n : \A g \in w.work[j].looked : Indexed(w, g)
    BY <1>1, <1>2 DEF LookedSeen, Indexed
  <2>2. ASSUME NEW j \in 1..n, NEW g \in v.work[j].looked
        PROVE  Indexed(v, g)
    <3>1. CASE j = n
      BY <2>1, <3>1, <1>2, <1>7, <1>8
    <3>2. CASE j # n
      BY <2>1, <3>2, <1>7, <1>8
    <3> QED BY <3>1, <3>2
  <2> QED BY <2>2, <1>7 DEF LookedSeen
<1>17. BlackDone(adj, v) /\ RootsLeft(adj, v)
  BY <1>1, <1>5, <1>8, <1>15 DEF BlackDone, RootsLeft
<1>18. LowReached(adj, v)
  <2> SUFFICES ASSUME NEW j \in 1..n
               PROVE  /\ v.low[NodeAtWork(w, j)] <= w.index[NodeAtWork(w, j)]
                      /\ \E i \in DOMAIN w.stack : w.index[w.stack[i]] = v.low[NodeAtWork(w, j)]
                                                   /\ w.stack[i] \in Reaches(adj, NodeAtWork(w, j))
    BY <1>5, <1>7 DEF LowReached
  <2>1. /\ w.low[NodeAtWork(w, j)] <= w.index[NodeAtWork(w, j)]
        /\ \E i \in DOMAIN w.stack : w.index[w.stack[i]] = w.low[NodeAtWork(w, j)]
                                     /\ w.stack[i] \in Reaches(adj, NodeAtWork(w, j))
    BY <1>1, <1>2 DEF LowReached
  <2>2. CASE j # n
    BY <2>1, <2>2, <1>2, <1>6
  <2>3. CASE j = n
    <3>1. l <= w.index[f]
      BY <2>1, <2>3, <1>2
    <3>2. CASE l = w.low[f]
      BY <2>1, <2>3, <3>1, <3>2, <1>6
    <3>3. CASE OnStack(w, c) /\ l = w.index[c]
      <4>1. PICK i \in DOMAIN w.stack : w.stack[i] = c
        BY <3>3 DEF OnStack
      <4>2. c \in Reaches(adj, f)
        BY <1>2, <1>3, ReachesCallee
      <4> QED BY <2>3, <3>1, <3>3, <4>1, <4>2, <1>6
    <3> QED BY <3>2, <3>3
  <2> QED BY <2>2, <2>3
<1>19. LowCovers(adj, v)
  <2> SUFFICES ASSUME NEW j \in DOMAIN v.work, NEW i \in DOMAIN v.stack, NEW k \in DOMAIN v.stack,
                      Owns(v, j, i), v.stack[k] \in adj[v.stack[i]],
                      v.stack[i] = NodeAtWork(v, j) => v.stack[k] \in v.work[j].looked
               PROVE  v.low[NodeAtWork(v, j)] <= v.index[v.stack[k]]
    BY DEF LowCovers
  <2>1. j \in 1..n
    BY <1>7
  <2>2. ASSUME NEW m \in 1..n, w.index[NodeAtWork(w, m)] <= w.index[w.stack[i]]
        PROVE  m <= j
    BY <2>2, <1>5, <1>7, <1>9 DEF Owns
  <2>3. Owns(w, j, i)
    BY <2>1, <2>2, <1>2, <1>5, <1>7 DEF Owns
  <2>4. ASSUME w.stack[i] = NodeAtWork(w, j) => w.stack[k] \in w.work[j].looked
        PROVE  w.low[NodeAtWork(w, j)] <= w.index[w.stack[k]]
    BY <2>1, <2>3, <2>4, <1>1, <1>2, <1>5 DEF LowCovers
  <2>5. CASE j # n
    BY <2>1, <2>4, <2>5, <1>2, <1>5, <1>6, <1>7
  <2>8. w.index[w.stack[k]] \in Nat
    BY <1>1, <1>2, <1>5 DEF StackOrdered, Indexed
  <2>6. CASE j = n /\ w.stack[k] # c
    <3>1. w.low[f] <= w.index[w.stack[k]]
      BY <2>1, <2>4, <2>6, <1>5, <1>7
    <3>2. v.low[NodeAtWork(v, j)] = l /\ v.index[v.stack[k]] = w.index[w.stack[k]]
      BY <2>6, <1>2, <1>5, <1>6, <1>7
    <3>3. l \in Nat /\ w.low[f] \in Nat /\ l <= w.low[f]
      BY <1>2, <1>6
    <3> QED BY ONLY <3>1, <3>2, <3>3, <2>8
  <2>7. CASE j = n /\ w.stack[k] = c
    <3>1. l <= w.index[c]
      BY <2>7, <1>5 DEF OnStack
    <3> QED BY <3>1, <2>7, <1>2, <1>5, <1>6, <1>7
  <2> QED BY <2>5, <2>6, <2>7
<1>20. TopNew(v)
  BY <1>2, <1>7, <1>9 DEF TopNew
<1> QED BY <1>10, <1>11, <1>12, <1>13, <1>14, <1>16, <1>17, <1>18, <1>19, <1>20 DEF TurnInv, TarjanInv

(* A node all of whose callees were looked at leaves the work stack. *)
LeftAt(adj, w, v, n) ==
  /\ v.work \in Seq(WorkEntry(adj)) /\ Len(v.work) = n - 1 /\ DOMAIN v.work = 1..n - 1
  /\ \A j \in 1..n - 1 : j \in 1..n /\ j < n /\ v.work[j] = w.work[j] /\ NodeAtWork(v, j) = NodeAtWork(w, j) /\ GreyAt(v, j)
  /\ \A j \in 1..n : j = n \/ j \in 1..n - 1
  /\ \A j \in 1..n - 1 : w.work[j].looked # {}
  /\ adj[NodeAtWork(w, n)] \subseteq DOMAIN w.index
  /\ LookedSeen(v) /\ BlackDone(adj, v) /\ RootsLeft(adj, v) /\ TopNew(v)

LEMMA LeavesWork ==
  ASSUME NEW adj, NEW w, NEW v, CallsNodes(adj), TurnInv(adj, w), w.work # <<>>,
         NEW n, n = Len(w.work), NEW f, f = NodeAtWork(w, n), GreyAt(w, n),
         w.work[n].looked = Normalize(adj, f),
         v.work = Front(w.work), v.index = w.index, v.roots = w.roots
  PROVE  LeftAt(adj, w, v, n)
<1>1. /\ TarjanTypes(adj, w) /\ WorkOrdered(adj, w) /\ LookedSeen(w) /\ BlackDone(adj, w) /\ RootsLeft(adj, w)
  BY DEF TurnInv
<1>2. w.work \in Seq(WorkEntry(adj))
  BY <1>1 DEF TarjanTypes
<1>3. /\ n \in Nat \ {0} /\ DOMAIN w.work = 1..n /\ f \in DOMAIN adj /\ Indexed(w, f)
      /\ \A j \in 1..n : GreyAt(w, j)
  BY <1>1, TopIsLast, StackFacts
<1>4. /\ v.work \in Seq(WorkEntry(adj)) /\ Len(v.work) = n - 1 /\ DOMAIN v.work = 1..n - 1
      /\ \A j \in 1..n - 1 : v.work[j] = w.work[j]
  <2>1. /\ Front(w.work) \in Seq(WorkEntry(adj)) /\ Len(Front(w.work)) = n - 1
        /\ DOMAIN Front(w.work) = 1..n - 1
        /\ \A j \in 1..n - 1 : Front(w.work)[j] = w.work[j]
    BY ONLY <1>2, w.work # <<>>, n = Len(w.work), Popped
  <2> QED BY ONLY <2>1, v.work = Front(w.work)
<1>5. /\ \A j \in 1..n - 1 : j \in 1..n /\ j < n /\ j \in Nat
      /\ \A j \in 1..n : j = n \/ j \in 1..n - 1
      /\ n \in 1..n
  BY <1>3
<1>6. \A j \in 1..n - 1 : NodeAtWork(v, j) = NodeAtWork(w, j) /\ GreyAt(v, j)
  BY <1>3, <1>4, <1>5 DEF NodeAtWork, GreyAt, Indexed
<1>7. \A j \in 1..n : \A g \in w.work[j].looked : Indexed(w, g)
  <2> SUFFICES ASSUME NEW j \in 1..n, NEW g \in w.work[j].looked, j + 1 = n, g = NodeAtWork(w, j + 1)
               PROVE  Indexed(w, g)
    BY <1>1, <1>3 DEF LookedSeen
  <2> QED BY <1>3
<1>8. adj[f] \subseteq DOMAIN w.index
  <2>1. \A g \in Normalize(adj, f) : Indexed(w, g)
    BY <1>5, <1>7
  <2> QED BY <1>3, <2>1 DEF Normalize, Indexed
<1>9. LookedSeen(v)
  <2> SUFFICES ASSUME NEW j \in 1..n - 1, NEW g \in v.work[j].looked
               PROVE  Indexed(v, g)
    BY <1>4 DEF LookedSeen
  <2> QED BY <1>4, <1>5, <1>7 DEF Indexed
<1>10. \A x : Grey(w, x) => Grey(v, x) \/ x = f
  <2> SUFFICES ASSUME NEW x, NEW j \in 1..n, NodeAtWork(w, j) = x
               PROVE  Grey(v, x) \/ x = f
    BY <1>3 DEF Grey
  <2>1. CASE j = n
    BY <2>1
  <2>2. CASE j # n
    BY <2>2, <1>4, <1>5, <1>6 DEF Grey
  <2> QED BY <2>1, <2>2
<1>11. BlackDone(adj, v)
  BY <1>1, <1>8, <1>10 DEF BlackDone
<1>12. RootsLeft(adj, v)
  BY <1>1, <1>3, <1>10 DEF RootsLeft, Indexed
<1>13. \A j \in 1..n - 1 : w.work[j].looked # {}
  BY <1>1, <1>3, <1>5 DEF WorkOrdered
<1>14. TopNew(v)
  <2> SUFFICES ASSUME v.work # <<>>
               PROVE  GreyAt(v, n - 1) /\ v.work[n - 1].looked # {}
    BY <1>4 DEF TopNew
  <2>1. n - 1 \in 1..n - 1
    BY <1>3, <1>4
  <2> QED BY <2>1, <1>4, <1>6, <1>13
<1> QED BY <1>4, <1>5, <1>6, <1>8, <1>9, <1>11, <1>12, <1>13, <1>14 DEF LeftAt

(* The work stack without its top, over the same stack or what is left of it. *)
LEMMA LeftOrdered ==
  ASSUME NEW adj, NEW w, NEW v, NEW n, TurnInv(adj, w), DOMAIN w.work = 1..n, LeftAt(adj, w, v, n), v.index = w.index,
         \A j \in 1..n - 1 : OnStack(v, NodeAtWork(w, j)),
         \A j \in 1..n - 1 : GreyAt(w, j)
  PROVE  WorkOrdered(adj, v)
<1>1. WorkOrdered(adj, w)
  BY DEF TurnInv
<1>2. /\ DOMAIN v.work = 1..n - 1
      /\ \A j \in 1..n - 1 : j \in 1..n /\ v.work[j] = w.work[j] /\ NodeAtWork(v, j) = NodeAtWork(w, j) /\ GreyAt(v, j)
      /\ \A j \in 1..n - 1 : w.work[j].looked # {}
  BY DEF LeftAt
<1>3. \A j \in DOMAIN v.work : v.work[j].looked \subseteq Normalize(adj, NodeAtWork(v, j))
  BY <1>1, <1>2 DEF WorkOrdered
<1>4. \A j \in DOMAIN v.work : GreyAt(v, j) /\ v.work[j].looked # {}
  BY <1>2
<1>5. \A j \in DOMAIN v.work : OnStack(v, NodeAtWork(v, j))
  BY <1>2
<1>6. ASSUME NEW i \in DOMAIN v.work, NEW j \in DOMAIN v.work, i < j
      PROVE  v.index[NodeAtWork(v, i)] < v.index[NodeAtWork(v, j)]
  <2>1. i \in 1..n - 1 /\ j \in 1..n - 1 /\ NodeAtWork(v, i) = NodeAtWork(w, i) /\ NodeAtWork(v, j) = NodeAtWork(w, j)
    BY <1>2
  <2>2. w.index[NodeAtWork(w, i)] < w.index[NodeAtWork(w, j)]
    BY <2>1, <1>1, <1>2, <1>6 DEF WorkOrdered
  <2> QED BY <2>1, <2>2
<1> QED BY <1>3, <1>4, <1>5, <1>6 DEF WorkOrdered

(* It reaches further down: its low link goes to the node below. *)
Passed(w, v, q, l) ==
  /\ v.roots = w.roots /\ v.sccs = w.sccs /\ v.counter = w.counter /\ v.stack = w.stack
  /\ v.index = w.index /\ DOMAIN v = DOMAIN w /\ v.work = Front(w.work)
  /\ v.low = [w.low EXCEPT ![q] = l]

(* A node whose low link is below its index reaches a grey one below it. *)
LEMMA ReachesBelow ==
  ASSUME NEW adj, NEW w, TurnInv(adj, w), w.work # <<>>,
         NEW n, n = Len(w.work), NEW f, f = NodeAtWork(w, n), GreyAt(w, n), w.low[f] # w.index[f]
  PROVE  \E m \in DOMAIN w.work : /\ m < n /\ NodeAtWork(w, m) \in Reaches(adj, f)
                                  /\ w.index[NodeAtWork(w, m)] < w.index[f]
<1>1. TarjanTypes(adj, w) /\ StackOrdered(w) /\ LowReached(adj, w) /\ BackToGrey(adj, w)
  BY DEF TurnInv
<1>2. /\ n \in Nat /\ n \in DOMAIN w.work /\ DOMAIN w.work = 1..n /\ f \in DOMAIN w.index
      /\ \A x \in DOMAIN w.index : w.index[x] \in Nat /\ w.low[x] \in Nat
      /\ \A j \in DOMAIN w.work : NodeAtWork(w, j) \in DOMAIN w.index
  BY <1>1, TopIsLast, StackFacts DEF GreyAt, Indexed
<1>3. PICK i \in DOMAIN w.stack : w.index[w.stack[i]] = w.low[f] /\ w.stack[i] \in Reaches(adj, f)
  BY <1>1, <1>2 DEF LowReached
<1>4. w.low[f] < w.index[f]
  BY <1>1, <1>2 DEF LowReached
<1>5. PICK m \in DOMAIN w.work : /\ w.index[NodeAtWork(w, m)] <= w.index[w.stack[i]]
                                 /\ NodeAtWork(w, m) \in Reaches(adj, w.stack[i])
  BY <1>1 DEF BackToGrey
<1>6. NodeAtWork(w, m) \in Reaches(adj, f)
  BY <1>3, <1>5, ReachesOn
<1>7. w.index[NodeAtWork(w, m)] < w.index[f]
  BY <1>2, <1>3, <1>4, <1>5
<1>8. m # n
  BY <1>2, <1>7
<1>9. m < n
  BY <1>2, <1>8
<1> QED BY <1>6, <1>7, <1>9

LEMMA LeaveInnerKeeps ==
  ASSUME NEW adj, NEW w, NEW v, CallsNodes(adj), TurnInv(adj, w), w.work # <<>>,
         NEW n, n = Len(w.work), NEW f, f = NodeAtWork(w, n), GreyAt(w, n),
         w.work[n].looked = Normalize(adj, f), w.low[f] # w.index[f],
         NEW q, q = NodeAtWork(w, n - 1), NEW l, l = Smaller(w.low[q], w.low[f]), Passed(w, v, q, l)
  PROVE  TarjanInv(adj, v)
<1>1. /\ TarjanTypes(adj, w) /\ StackOrdered(w) /\ WorkOrdered(adj, w) /\ Partition(w) /\ FinishedSeen(w)
      /\ SccsExact(adj, w) /\ GreyReaches(adj, w) /\ BackToGrey(adj, w) /\ LookedSeen(w) /\ BlackDone(adj, w)
      /\ LowReached(adj, w) /\ LowCovers(adj, w) /\ RootsLeft(adj, w)
  BY DEF TurnInv
<1>2. /\ n \in Nat \ {0} /\ DOMAIN w.work = 1..n /\ n \in 1..n /\ f \in DOMAIN adj /\ f \in DOMAIN w.index
      /\ \A j \in 1..n : GreyAt(w, j) /\ (j # n => NodeAtWork(w, j) # f)
      /\ \A j \in 1..n : NodeAtWork(w, j) \in DOMAIN w.index
      /\ \A x \in DOMAIN w.index : w.index[x] \in Nat /\ w.low[x] \in Nat
      /\ \A j \in 1..n : j # n => w.index[NodeAtWork(w, j)] < w.index[f]
      /\ OnStack(w, f)
  BY TopFacts DEF AtTop
<1>3. PICK b \in 1..n : b < n /\ NodeAtWork(w, b) \in Reaches(adj, f) /\ w.index[NodeAtWork(w, b)] < w.index[f]
  BY <1>2, ReachesBelow
<1>4. n - 1 \in 1..n - 1 /\ n - 1 \in 1..n /\ n - 1 # n /\ b \in 1..n - 1
  BY <1>2, <1>3
<1>5. /\ v.roots = w.roots /\ v.sccs = w.sccs /\ v.counter = w.counter /\ v.stack = w.stack
      /\ v.index = w.index /\ DOMAIN v = DOMAIN w /\ v.work = Front(w.work)
  BY DEF Passed
<1>6. LeftAt(adj, w, v, n)
  BY <1>5, LeavesWork
<1>7. /\ v.work \in Seq(WorkEntry(adj)) /\ DOMAIN v.work = 1..n - 1
      /\ \A j \in 1..n - 1 : j \in 1..n /\ j < n /\ v.work[j] = w.work[j] /\ NodeAtWork(v, j) = NodeAtWork(w, j) /\ GreyAt(v, j)
      /\ \A j \in 1..n : j = n \/ j \in 1..n - 1
      /\ LookedSeen(v) /\ BlackDone(adj, v) /\ RootsLeft(adj, v) /\ TopNew(v)
  BY <1>6 DEF LeftAt
<1>8. q \in DOMAIN w.index /\ q # f /\ w.index[q] < w.index[f]
  BY <1>2, <1>4
<1>9. /\ l \in Nat /\ l <= w.low[q] /\ l <= w.low[f] /\ (l = w.low[q] \/ l = w.low[f])
  BY <1>2, <1>8 DEF Smaller
<1>10. /\ v.low \in [DOMAIN w.index -> Nat] /\ v.low[q] = l
       /\ \A x \in DOMAIN w.index : x # q => v.low[x] = w.low[x]
       /\ \A x \in DOMAIN w.index : v.low[x] <= w.low[x] /\ v.low[x] \in Nat
  <2>1. w.low \in [DOMAIN w.index -> Nat]
    BY <1>1 DEF TarjanTypes
  <2>2. v.low = [w.low EXCEPT ![q] = l]
    BY DEF Passed
  <2>3. /\ v.low \in [DOMAIN w.index -> Nat] /\ v.low[q] = l
        /\ \A x \in DOMAIN w.index : x # q => v.low[x] = w.low[x]
    BY ONLY <2>1, <2>2, <1>8, <1>9
  <2>4. \A x \in DOMAIN w.index : w.low[x] \in Nat /\ v.low[x] \in Nat
    BY ONLY <2>1, <2>3
  <2> QED BY ONLY <2>3, <2>4, <1>9
<1>11. TarjanTypes(adj, v)
  BY <1>1, <1>5, <1>7, <1>10 DEF TarjanTypes
<1>12. StackOrdered(v) /\ Partition(v) /\ FinishedSeen(v) /\ SccsExact(adj, v)
  BY <1>1, <1>5 DEF StackOrdered, Partition, FinishedSeen, SccsExact, Indexed, OnStack, Finished
<1>13. WorkOrdered(adj, v)
  <2>1. \A j \in 1..n - 1 : OnStack(v, NodeAtWork(w, j))
    <3>1. \A j \in 1..n : OnStack(w, NodeAtWork(w, j))
      BY <1>1, <1>2 DEF WorkOrdered
    <3>2. \A x : OnStack(v, x) <=> OnStack(w, x)
      BY <1>5 DEF OnStack
    <3> QED BY <3>1, <3>2, <1>7
  <2>2. \A j \in 1..n - 1 : GreyAt(w, j)
    BY <1>2, <1>7
  <2> QED BY <2>1, <2>2, <1>2, <1>5, <1>6, LeftOrdered
<1>14. GreyReaches(adj, v)
  BY <1>1, <1>2, <1>5, <1>7 DEF GreyReaches
<1>15. BackToGrey(adj, v)
  <2> SUFFICES ASSUME NEW i \in DOMAIN w.stack
               PROVE  \E j \in 1..n - 1 : w.index[NodeAtWork(w, j)] <= w.index[w.stack[i]]
                                          /\ NodeAtWork(w, j) \in Reaches(adj, w.stack[i])
    BY <1>5, <1>7 DEF BackToGrey
  <2>1. PICK j \in 1..n : w.index[NodeAtWork(w, j)] <= w.index[w.stack[i]] /\ NodeAtWork(w, j) \in Reaches(adj, w.stack[i])
    BY <1>1, <1>2 DEF BackToGrey
  <2>2. CASE j # n
    BY <2>1, <2>2, <1>7
  <2>3. CASE j = n
    <3>1. NodeAtWork(w, b) \in Reaches(adj, w.stack[i])
      BY <2>1, <2>3, <1>3, ReachesOn
    <3>2. w.index[w.stack[i]] \in Nat /\ w.index[NodeAtWork(w, b)] \in Nat /\ w.index[f] \in Nat
      BY <1>1, <1>2 DEF StackOrdered, Indexed
    <3>3. w.index[NodeAtWork(w, b)] <= w.index[w.stack[i]]
      BY <2>1, <2>3, <3>2, <1>3
    <3> QED BY <3>1, <3>3, <1>4
  <2> QED BY <2>2, <2>3
<1>16. PICK e \in DOMAIN w.stack : w.stack[e] = f
  BY <1>2 DEF OnStack
<1>17. f \in Reaches(adj, q)
  <2>1. w.index[q] <= w.index[w.stack[e]]
    BY <1>2, <1>8, <1>16
  <2> QED BY <2>1, <1>1, <1>2, <1>4, <1>16 DEF GreyReaches
<1>18. LowReached(adj, v)
  <2> SUFFICES ASSUME NEW j \in 1..n - 1
               PROVE  /\ v.low[NodeAtWork(w, j)] <= w.index[NodeAtWork(w, j)]
                      /\ \E i \in DOMAIN w.stack : w.index[w.stack[i]] = v.low[NodeAtWork(w, j)]
                                                   /\ w.stack[i] \in Reaches(adj, NodeAtWork(w, j))
    BY <1>5, <1>7 DEF LowReached
  <2>1. \A m \in 1..n : /\ w.low[NodeAtWork(w, m)] <= w.index[NodeAtWork(w, m)]
                        /\ \E i \in DOMAIN w.stack : w.index[w.stack[i]] = w.low[NodeAtWork(w, m)]
                                                     /\ w.stack[i] \in Reaches(adj, NodeAtWork(w, m))
    BY <1>1, <1>2 DEF LowReached
  <2>2. v.low[NodeAtWork(w, j)] <= w.index[NodeAtWork(w, j)]
    <3>1. PICK x \in DOMAIN w.index : x = NodeAtWork(w, j)
      BY <1>2, <1>7
    <3>2. w.low[x] <= w.index[x] /\ w.low[x] \in Nat /\ w.index[x] \in Nat /\ v.low[x] <= w.low[x] /\ v.low[x] \in Nat
      BY <2>1, <3>1, <1>2, <1>7, <1>10
    <3> QED BY <3>1, <3>2
  <2>3. CASE v.low[NodeAtWork(w, j)] = w.low[NodeAtWork(w, j)]
    BY <2>1, <2>2, <2>3, <1>7
  <2>4. CASE NodeAtWork(w, j) = q /\ l = w.low[f]
    <3>1. PICK i \in DOMAIN w.stack : w.index[w.stack[i]] = w.low[f] /\ w.stack[i] \in Reaches(adj, f)
      BY <2>1, <1>2
    <3>2. w.stack[i] \in Reaches(adj, q)
      BY <3>1, <1>17, ReachesOn
    <3> QED BY <2>2, <2>4, <3>1, <3>2, <1>10
  <2> QED BY <2>3, <2>4, <1>2, <1>7, <1>9, <1>10
<1>19. LowCovers(adj, v)
  <2> SUFFICES ASSUME NEW j \in DOMAIN v.work, NEW i \in DOMAIN v.stack, NEW k \in DOMAIN v.stack,
                      Owns(v, j, i), v.stack[k] \in adj[v.stack[i]],
                      v.stack[i] = NodeAtWork(v, j) => v.stack[k] \in v.work[j].looked
               PROVE  v.low[NodeAtWork(v, j)] <= v.index[v.stack[k]]
    BY DEF LowCovers
  <2>1. j \in 1..n - 1 /\ j \in 1..n /\ j \in Nat /\ NodeAtWork(v, j) = NodeAtWork(w, j) /\ v.work[j] = w.work[j]
    <3>1. j \in 1..n - 1
      BY <1>7
    <3>2. j \in 1..n /\ NodeAtWork(v, j) = NodeAtWork(w, j) /\ v.work[j] = w.work[j]
      BY <3>1, <1>7
    <3>3. j \in Nat
      BY <3>2
    <3> QED BY <3>1, <3>2, <3>3
  <2>2. i \in DOMAIN w.stack /\ k \in DOMAIN w.stack /\ w.stack[k] \in adj[w.stack[i]]
        /\ (w.stack[i] = NodeAtWork(w, j) => w.stack[k] \in w.work[j].looked)
    BY <2>1, <1>5
  <2>3. w.index[w.stack[k]] \in Nat /\ w.index[w.stack[i]] \in Nat
    BY <2>2, <1>1, <1>2 DEF StackOrdered, Indexed
  <2>4. w.index[NodeAtWork(w, j)] <= w.index[w.stack[i]]
    BY <2>1, <1>5 DEF Owns
  <2>5. ASSUME NEW m \in 1..n - 1, w.index[NodeAtWork(w, m)] <= w.index[w.stack[i]]
        PROVE  m <= j
    BY <2>5, <1>5, <1>7 DEF Owns
  <2>6. CASE w.index[w.stack[i]] < w.index[f]
    <3>1. ASSUME NEW m \in 1..n, w.index[NodeAtWork(w, m)] <= w.index[w.stack[i]]
          PROVE  m <= j
      <4>1. m # n
        BY <2>3, <2>6, <3>1, <1>2
      <4> QED BY <2>5, <3>1, <4>1, <1>7
    <3>2. Owns(w, j, i)
      BY <2>1, <2>4, <3>1, <1>2 DEF Owns
    <3>3. w.low[NodeAtWork(w, j)] <= w.index[w.stack[k]]
      BY <2>1, <2>2, <3>2, <1>1, <1>2 DEF LowCovers
    <3>4. PICK x \in DOMAIN w.index : x = NodeAtWork(w, j)
      BY <2>1, <1>2
    <3>5. w.low[x] \in Nat /\ v.low[x] <= w.low[x] /\ v.low[x] \in Nat
      BY <1>2, <1>10
    <3>6. v.low[x] <= w.index[w.stack[k]]
      BY <2>3, <3>3, <3>4, <3>5
    <3> QED BY <2>1, <3>4, <3>6, <1>5
  <2>7. CASE w.index[f] <= w.index[w.stack[i]]
    <3>1. w.index[q] <= w.index[w.stack[i]]
      BY <2>3, <2>7, <1>2, <1>8
    <3>2. j = n - 1
      <4>1. n - 1 <= j
        BY <2>5, <3>1, <1>4
      <4> QED BY <4>1, <2>1, <1>2
    <3>3. Owns(w, n, i)
      BY <2>7, <1>2 DEF Owns
    <3>4. w.low[f] <= w.index[w.stack[k]]
      <4>1. CASE w.stack[k] = f
        BY <4>1, <1>1, <1>2 DEF LowReached
      <4>2. CASE w.stack[k] # f
        <5>1. w.stack[i] = f => w.stack[k] \in w.work[n].looked
          BY <4>2, <2>2 DEF Normalize
        <5> QED BY <5>1, <2>2, <3>3, <1>1, <1>2 DEF LowCovers
      <4> QED BY <4>1, <4>2
    <3>5. l <= w.index[w.stack[k]]
      BY <2>3, <3>4, <1>2, <1>9
    <3> QED BY <2>1, <3>2, <3>5, <1>5, <1>10
  <2> QED BY <2>3, <2>6, <2>7, <1>2
<1> QED BY <1>7, <1>11, <1>12, <1>13, <1>14, <1>15, <1>18, <1>19 DEF TurnInv, TarjanInv

(* It reaches nothing further down: the stack from it up is a component.   *)
(* First, that nothing leaves it but to finished nodes.                    *)
LEMMA FinishedClosed ==
  ASSUME NEW adj, NEW t, CallsNodes(adj), SccsExact(adj, t), NEW D, D = {x \in DOMAIN adj : Finished(t, x)}
  PROVE  Closed(adj, D)
<1> SUFFICES ASSUME NEW x \in D, NEW y \in adj[x]
             PROVE  y \in D
  BY DEF Closed
<1>1. x \in DOMAIN adj /\ y \in DOMAIN adj
  BY DEF CallsNodes
<1>2. PICK i \in DOMAIN t.sccs : x \in t.sccs[i]
  BY DEF Finished
<1>3. \E j \in DOMAIN t.sccs : y \in t.sccs[j]
  BY <1>2 DEF SccsExact
<1> QED BY <1>1, <1>3 DEF Finished

Component(adj, w, f, place, C, D) ==
  /\ \A i \in DOMAIN w.stack : w.stack[i] \in C <=> place <= i
  /\ \A i \in DOMAIN w.stack : place <= i <=> w.index[f] <= w.index[w.stack[i]]
  /\ \A x \in C : x \in DOMAIN w.index /\ x \in DOMAIN adj /\ OnStack(w, x) /\ x \notin D /\ w.index[f] <= w.index[x]
  /\ \A x \in C : \A y \in adj[x] : y \in C \/ y \in D
  /\ \A x \in C : x \in Reaches(adj, f) /\ f \in Reaches(adj, x)

LEMMA RootComponent ==
  ASSUME NEW adj, NEW w, CallsNodes(adj), TurnInv(adj, w), w.work # <<>>,
         NEW n, n = Len(w.work), NEW f, f = NodeAtWork(w, n), GreyAt(w, n),
         w.work[n].looked = Normalize(adj, f), adj[f] \subseteq DOMAIN w.index, w.low[f] = w.index[f],
         NEW place \in DOMAIN w.stack, w.stack[place] = f,
         NEW C, C = {w.stack[i] : i \in place..Len(w.stack)}, NEW D, D = {x \in DOMAIN adj : Finished(w, x)}
  PROVE  Component(adj, w, f, place, C, D)
<1>1. /\ TarjanTypes(adj, w) /\ StackOrdered(w) /\ WorkOrdered(adj, w) /\ Partition(w)
      /\ SccsExact(adj, w) /\ GreyReaches(adj, w) /\ BackToGrey(adj, w) /\ BlackDone(adj, w) /\ LowCovers(adj, w)
  BY DEF TurnInv
<1>2. /\ n \in Nat \ {0} /\ DOMAIN w.work = 1..n /\ n \in 1..n /\ f \in DOMAIN adj /\ f \in DOMAIN w.index
      /\ \A j \in 1..n : GreyAt(w, j) /\ (j # n => NodeAtWork(w, j) # f)
      /\ \A j \in 1..n : NodeAtWork(w, j) \in DOMAIN w.index
      /\ \A x \in DOMAIN w.index : w.index[x] \in Nat /\ w.low[x] \in Nat
      /\ \A j \in 1..n : j # n => w.index[NodeAtWork(w, j)] < w.index[f]
  BY TopFacts DEF AtTop
<1>3. PICK p \in Nat : p = Len(w.stack) /\ DOMAIN w.stack = 1..p
  BY <1>1, StackFacts
<1>4. \A i \in 1..p : w.stack[i] \in DOMAIN w.index /\ w.stack[i] \in DOMAIN adj
  BY <1>1, <1>3, StackFacts DEF StackOrdered, Indexed
<1>5. \A i \in 1..p : place <= i <=> w.index[f] <= w.index[w.stack[i]]
  BY <1>1, <1>3, StackPlaces
<1>6. \A i, k \in 1..p : w.stack[i] = w.stack[k] => i = k
  BY <1>1, <1>3, StackPlaces
<1>7. \A i \in 1..p : i \in place..p <=> place <= i
  BY <1>3
<1>8. \A i \in place..p : i \in 1..p
  BY <1>3
<1>9. \A i \in 1..p : w.stack[i] \in C <=> place <= i
  <2> SUFFICES ASSUME NEW i \in 1..p
               PROVE  w.stack[i] \in C <=> place <= i
    OBVIOUS
  <2>1. ASSUME place <= i PROVE w.stack[i] \in C
    BY <2>1, <1>3, <1>7
  <2>2. ASSUME w.stack[i] \in C PROVE place <= i
    <3>1. PICK k \in place..p : w.stack[k] = w.stack[i]
      BY <2>2, <1>3
    <3> QED BY <3>1, <1>6, <1>7, <1>8
  <2> QED BY <2>1, <2>2
<1>10. ASSUME NEW x \in C
       PROVE  \E i \in 1..p : place <= i /\ w.stack[i] = x
  BY <1>10, <1>3, <1>7, <1>8
<1>11. \A x \in C : x \in DOMAIN w.index /\ x \in DOMAIN adj /\ OnStack(w, x) /\ x \notin D /\ w.index[f] <= w.index[x]
  <2> SUFFICES ASSUME NEW x \in C
               PROVE  x \in DOMAIN w.index /\ x \in DOMAIN adj /\ OnStack(w, x) /\ x \notin D /\ w.index[f] <= w.index[x]
    OBVIOUS
  <2>1. PICK i \in 1..p : place <= i /\ w.stack[i] = x
    BY <1>10
  <2>2. OnStack(w, x) /\ x \in DOMAIN w.index /\ x \in DOMAIN adj /\ w.index[f] <= w.index[x]
    BY <2>1, <1>3, <1>4, <1>5 DEF OnStack
  <2>3. ~Finished(w, x)
    BY <2>2, <1>1 DEF Partition
  <2> QED BY <2>2, <2>3
<1>12. \A x \in C : x # f => ~Grey(w, x)
  <2> SUFFICES ASSUME NEW x \in C, x # f, NEW j \in 1..n, NodeAtWork(w, j) = x
               PROVE  FALSE
    BY <1>2 DEF Grey
  <2>1. j # n
    OBVIOUS
  <2>2. w.index[x] < w.index[f]
    BY <2>1, <1>2
  <2> QED BY <2>2, <1>2, <1>11
<1>13. ASSUME NEW x \in C, NEW y \in adj[x]
       PROVE  y \in C \/ y \in D
  <2>1. y \in DOMAIN w.index
    BY <1>1, <1>11, <1>12, <1>13 DEF BlackDone
  <2>2. y \in DOMAIN adj
    BY <1>11, <1>13 DEF CallsNodes
  <2>3. CASE Finished(w, y)
    BY <2>2, <2>3
  <2>4. CASE ~Finished(w, y)
    <3>1. PICK k \in 1..p : w.stack[k] = y
      BY <2>1, <2>4, <1>1, <1>3 DEF Partition, OnStack
    <3>2. PICK i \in 1..p : place <= i /\ w.stack[i] = x
      BY <1>10
    <3>3. w.index[f] <= w.index[y]
      <4>1. CASE y = f
        BY <4>1, <1>2
      <4>2. CASE y # f
        <5>1. w.index[f] <= w.index[w.stack[i]]
          BY <3>2, <1>5
        <5>2. Owns(w, n, i)
          BY <5>1, <1>2 DEF Owns
        <5>3. w.stack[i] = f => w.stack[k] \in w.work[n].looked
          BY <3>1, <3>2, <4>2, <1>13 DEF Normalize
        <5>4. w.stack[k] \in adj[w.stack[i]]
          BY <3>1, <3>2, <1>13
        <5>5. w.low[f] <= w.index[w.stack[k]]
          BY <5>2, <5>3, <5>4, <1>1, <1>2, <1>3 DEF LowCovers
        <5> QED BY <5>5, <3>1
      <4> QED BY <4>1, <4>2
    <3>4. y \in C
      BY <3>1, <3>3, <1>5, <1>9
    <3> QED BY <3>4
  <2> QED BY <2>3, <2>4
<1>14. Closed(adj, C \cup D)
  <2>1. Closed(adj, D)
    BY <1>1, FinishedClosed
  <2> QED BY <2>1, <1>13 DEF Closed
<1>15. ASSUME NEW x \in C
       PROVE  x \in Reaches(adj, f) /\ f \in Reaches(adj, x)
  <2>1. PICK i \in 1..p : place <= i /\ w.stack[i] = x
    BY <1>10
  <2>2. x \in Reaches(adj, f)
    BY <2>1, <1>1, <1>2, <1>3, <1>5 DEF GreyReaches
  <2>3. PICK j \in 1..n : NodeAtWork(w, j) \in Reaches(adj, x)
    BY <2>1, <1>1, <1>2, <1>3 DEF BackToGrey
  <2>4. C \cup D \in SUBSET DOMAIN adj
    BY <1>11
  <2>5. NodeAtWork(w, j) \in C \cup D
    BY <2>3, <2>4, <1>14, <1>15, ReachesInside
  <2>6. OnStack(w, NodeAtWork(w, j)) /\ ~Finished(w, NodeAtWork(w, j))
    BY <1>1, <1>2 DEF WorkOrdered, Partition
  <2>7. NodeAtWork(w, j) \in C
    BY <2>5, <2>6
  <2>8. NodeAtWork(w, j) = f
    BY <2>7, <1>2, <1>12 DEF Grey
  <2> QED BY <2>2, <2>3, <2>8
<1> QED BY <1>3, <1>5, <1>9, <1>11, <1>13, <1>15 DEF Component

Closes(w, v, place, C) ==
  /\ v.roots = w.roots /\ v.counter = w.counter /\ v.index = w.index /\ v.low = w.low
  /\ DOMAIN v = DOMAIN w /\ v.work = Front(w.work)
  /\ v.stack = SubSeq(w.stack, 1, place - 1) /\ v.sccs = Append(w.sccs, C)

ClosedWith(adj, w, v, C) ==
  /\ v.sccs \in Seq(SUBSET DOMAIN adj) /\ SccsExact(adj, v)
  /\ \A x : Finished(v, x) <=> Finished(w, x) \/ x \in C

(* The components after one more is closed. *)
LEMMA ClosedExact ==
  ASSUME NEW adj, NEW w, NEW v, CallsNodes(adj), TurnInv(adj, w), NEW f \in DOMAIN adj, NEW place, NEW C,
         NEW D, D = {x \in DOMAIN adj : Finished(w, x)}, Component(adj, w, f, place, C, D), v.sccs = Append(w.sccs, C)
  PROVE  ClosedWith(adj, w, v, C)
<1>1. TarjanTypes(adj, w) /\ SccsExact(adj, w)
  BY DEF TurnInv
<1>2. /\ \A x \in C : x \in DOMAIN adj /\ x \notin D
      /\ \A x \in C : \A y \in adj[x] : y \in C \/ y \in D
      /\ \A x \in C : x \in Reaches(adj, f) /\ f \in Reaches(adj, x)
  BY DEF Component
<1>3. w.sccs \in Seq(SUBSET DOMAIN adj) /\ C \in SUBSET DOMAIN adj
  BY <1>1, <1>2 DEF TarjanTypes
<1>4. PICK m \in Nat : m = Len(w.sccs)
  BY <1>3
<1>5. /\ v.sccs \in Seq(SUBSET DOMAIN adj) /\ DOMAIN w.sccs = 1..m /\ DOMAIN v.sccs = 1..m + 1
      /\ v.sccs[m + 1] = C /\ \A i \in 1..m : v.sccs[i] = w.sccs[i]
  BY <1>3, <1>4, Pushed
<1>6. /\ \A i \in 1..m + 1 : i = m + 1 \/ i \in 1..m
      /\ \A i \in 1..m : i \in 1..m + 1 /\ i <= m + 1 /\ i # m + 1
      /\ m + 1 \in 1..m + 1 /\ m + 1 <= m + 1
  BY <1>4
<1>7. \A x : Finished(v, x) <=> Finished(w, x) \/ x \in C
  BY <1>5, <1>6 DEF Finished
<1>8. Closed(adj, D)
  BY <1>1, FinishedClosed
<1>9. Closed(adj, C \cup D) /\ C \cup D \in SUBSET DOMAIN adj /\ D \in SUBSET DOMAIN adj
  BY <1>2, <1>3, <1>8 DEF Closed
<1>10. ASSUME NEW x \in C
       PROVE  /\ \A g \in DOMAIN adj : g \in C <=> Mutual(adj, x, g)
              /\ \A i \in 1..m : x \notin w.sccs[i]
  <2>1. ASSUME NEW g \in C PROVE Mutual(adj, x, g)
    BY <2>1, <1>2, <1>10, ReachesOn DEF Mutual
  <2>2. ASSUME NEW g \in DOMAIN adj, Mutual(adj, x, g) PROVE g \in C
    <3>1. g \in C \cup D
      BY <2>2, <1>9, <1>10, ReachesInside DEF Mutual
    <3>2. ASSUME g \in D PROVE FALSE
      <4>1. x \in D
        BY <2>2, <3>2, <1>8, <1>9, ReachesInside DEF Mutual
      <4> QED BY <4>1, <1>2, <1>10
    <3> QED BY <3>1, <3>2
  <2>3. \A i \in 1..m : x \notin w.sccs[i]
    BY <1>2, <1>5, <1>10 DEF Finished
  <2> QED BY <2>1, <2>2, <2>3
<1>11. SccsExact(adj, v)
  <2> SUFFICES ASSUME NEW i \in DOMAIN v.sccs, NEW x \in v.sccs[i]
               PROVE  /\ \A g \in DOMAIN adj : g \in v.sccs[i] <=> Mutual(adj, x, g)
                      /\ \A g \in adj[x] : \E j \in DOMAIN v.sccs : j <= i /\ g \in v.sccs[j]
                      /\ \A j \in DOMAIN v.sccs : x \in v.sccs[j] => i = j
    BY DEF SccsExact
  <2>1. CASE i = m + 1
    <3>1. x \in C /\ v.sccs[i] = C
      BY <2>1, <1>5
    <3>2. \A g \in DOMAIN adj : g \in v.sccs[i] <=> Mutual(adj, x, g)
      BY <3>1, <1>10
    <3>3. \A j \in DOMAIN v.sccs : x \in v.sccs[j] => i = j
      BY <2>1, <3>1, <1>5, <1>6, <1>10
    <3>4. ASSUME NEW g \in adj[x] PROVE \E j \in DOMAIN v.sccs : j <= i /\ g \in v.sccs[j]
      <4>1. CASE g \in C
        BY <2>1, <4>1, <1>5, <1>6
      <4>2. CASE g \in D
        <5>1. PICK j \in 1..m : g \in w.sccs[j]
          BY <4>2, <1>5 DEF Finished
        <5> QED BY <2>1, <5>1, <1>5, <1>6
      <4> QED BY <3>1, <3>4, <4>1, <4>2, <1>2
    <3> QED BY <3>2, <3>3, <3>4
  <2>2. CASE i # m + 1
    <3>1. i \in 1..m /\ v.sccs[i] = w.sccs[i] /\ i \in DOMAIN w.sccs /\ x \in w.sccs[i]
      BY <2>2, <1>5, <1>6
    <3>2. /\ \A g \in DOMAIN adj : g \in w.sccs[i] <=> Mutual(adj, x, g)
          /\ \A g \in adj[x] : \E j \in DOMAIN w.sccs : j <= i /\ g \in w.sccs[j]
          /\ \A j \in DOMAIN w.sccs : x \in w.sccs[j] => i = j
      BY <3>1, <1>1 DEF SccsExact
    <3>3. \A g \in adj[x] : \E j \in DOMAIN v.sccs : j <= i /\ g \in v.sccs[j]
      BY <3>2, <1>5, <1>6
    <3>4. x \notin C
      BY <3>1, <1>5, <1>10
    <3>5. \A j \in DOMAIN v.sccs : x \in v.sccs[j] => i = j
      BY <3>2, <3>4, <1>5, <1>6
    <3> QED BY <3>1, <3>2, <3>3, <3>5
  <2> QED BY <2>1, <2>2
<1> QED BY <1>5, <1>7, <1>11 DEF ClosedWith

LEMMA LeaveRootKeeps ==
  ASSUME NEW adj, NEW w, NEW v, CallsNodes(adj), TurnInv(adj, w), w.work # <<>>,
         NEW n, n = Len(w.work), NEW f, f = NodeAtWork(w, n), GreyAt(w, n),
         w.work[n].looked = Normalize(adj, f), w.low[f] = w.index[f],
         NEW place \in DOMAIN w.stack, w.stack[place] = f,
         NEW C, C = {w.stack[i] : i \in place..Len(w.stack)}, Closes(w, v, place, C)
  PROVE  TarjanInv(adj, v)
<1>1. /\ TarjanTypes(adj, w) /\ StackOrdered(w) /\ WorkOrdered(adj, w) /\ Partition(w) /\ FinishedSeen(w)
      /\ SccsExact(adj, w) /\ GreyReaches(adj, w) /\ BackToGrey(adj, w) /\ LookedSeen(w) /\ BlackDone(adj, w)
      /\ LowReached(adj, w) /\ LowCovers(adj, w) /\ RootsLeft(adj, w)
  BY DEF TurnInv
<1>2. /\ n \in Nat \ {0} /\ DOMAIN w.work = 1..n /\ n \in 1..n /\ f \in DOMAIN adj /\ f \in DOMAIN w.index
      /\ \A j \in 1..n : GreyAt(w, j) /\ (j # n => NodeAtWork(w, j) # f)
      /\ \A j \in 1..n : NodeAtWork(w, j) \in DOMAIN w.index
      /\ \A x \in DOMAIN w.index : w.index[x] \in Nat /\ w.low[x] \in Nat
      /\ \A j \in 1..n : j # n => w.index[NodeAtWork(w, j)] < w.index[f]
  BY TopFacts DEF AtTop
<1>3. /\ v.roots = w.roots /\ v.counter = w.counter /\ v.index = w.index /\ v.low = w.low
      /\ DOMAIN v = DOMAIN w /\ v.work = Front(w.work)
      /\ v.stack = SubSeq(w.stack, 1, place - 1) /\ v.sccs = Append(w.sccs, C)
  BY DEF Closes
<1>4. LeftAt(adj, w, v, n)
  BY <1>3, LeavesWork
<1>5. /\ v.work \in Seq(WorkEntry(adj)) /\ DOMAIN v.work = 1..n - 1
      /\ \A j \in 1..n - 1 : j \in 1..n /\ j < n /\ v.work[j] = w.work[j] /\ NodeAtWork(v, j) = NodeAtWork(w, j) /\ GreyAt(v, j)
      /\ \A j \in 1..n : j = n \/ j \in 1..n - 1
      /\ LookedSeen(v) /\ BlackDone(adj, v) /\ RootsLeft(adj, v) /\ TopNew(v)
      /\ adj[f] \subseteq DOMAIN w.index
  BY <1>4 DEF LeftAt
<1>6. PICK D : D = {x \in DOMAIN adj : Finished(w, x)}
  OBVIOUS
<1>7. Component(adj, w, f, place, C, D)
  BY <1>5, <1>6, RootComponent
<1>8. /\ \A i \in DOMAIN w.stack : w.stack[i] \in C <=> place <= i
      /\ \A i \in DOMAIN w.stack : place <= i <=> w.index[f] <= w.index[w.stack[i]]
      /\ \A x \in C : x \in DOMAIN w.index /\ OnStack(w, x) /\ x \notin D /\ w.index[f] <= w.index[x]
  BY <1>7 DEF Component
<1>9. /\ v.sccs \in Seq(SUBSET DOMAIN adj) /\ SccsExact(adj, v)
      /\ \A x : Finished(v, x) <=> Finished(w, x) \/ x \in C
  <2>1. ClosedWith(adj, w, v, C)
    BY <1>2, <1>3, <1>6, <1>7, ClosedExact
  <2> QED BY <2>1 DEF ClosedWith
<1>10. PICK p \in Nat : p = Len(w.stack) /\ DOMAIN w.stack = 1..p
  BY <1>1, StackFacts
<1>11. /\ v.stack \in Seq(DOMAIN adj) /\ DOMAIN v.stack = 1..place - 1 /\ \A i \in 1..place - 1 : v.stack[i] = w.stack[i]
  <2>1. w.stack \in Seq(DOMAIN adj) /\ place \in 1..p
    BY <1>1, <1>10 DEF TarjanTypes
  <2>2. v.stack = [i \in 1..place - 1 |-> w.stack[i]]
    BY <2>1, <1>3, <1>10
  <2>3. \A i \in 1..place - 1 : w.stack[i] \in DOMAIN adj
    BY <2>1, <1>10
  <2>4. place - 1 \in Nat
    BY <2>1, <1>10
  <2> QED BY <2>2, <2>3, <2>4
<1>12. /\ \A i \in 1..place - 1 : i \in 1..p /\ ~(place <= i)
       /\ \A i \in 1..p : place <= i \/ i \in 1..place - 1
  BY <1>10
<1>13. /\ \A i \in 1..place - 1 : i \in DOMAIN w.stack /\ v.stack[i] = w.stack[i] /\ w.stack[i] \in DOMAIN w.index
       /\ \A i \in 1..place - 1 : w.stack[i] \notin C /\ w.index[w.stack[i]] < w.index[f]
       /\ \A i \in DOMAIN w.stack : w.stack[i] \in C \/ i \in 1..place - 1
       /\ \A i \in DOMAIN w.stack : w.index[w.stack[i]] < w.index[f] => i \in 1..place - 1
  <2>1. \A i \in 1..p : w.stack[i] \in DOMAIN w.index
    BY <1>1, <1>10 DEF StackOrdered, Indexed
  <2>2. \A i \in 1..p : w.index[w.stack[i]] \in Nat /\ w.index[f] \in Nat
    BY <2>1, <1>2
  <2>3. \A i \in 1..p : ~(place <= i) => w.index[w.stack[i]] < w.index[f]
    BY <2>2, <1>8, <1>10
  <2>4. \A i \in 1..p : place <= i => ~(w.index[w.stack[i]] < w.index[f])
    BY <2>2, <1>8, <1>10
  <2> QED BY <2>1, <2>3, <2>4, <1>8, <1>10, <1>11, <1>12
<1>14. \A x : OnStack(v, x) <=> OnStack(w, x) /\ x \notin C
  <2>1. ASSUME NEW x, OnStack(v, x)
        PROVE  OnStack(w, x) /\ x \notin C
    <3>1. PICK i \in 1..place - 1 : v.stack[i] = x
      BY <2>1, <1>11 DEF OnStack
    <3> QED BY <3>1, <1>13 DEF OnStack
  <2>2. ASSUME NEW x, OnStack(w, x), x \notin C
        PROVE  OnStack(v, x)
    <3>1. PICK i \in DOMAIN w.stack : w.stack[i] = x
      BY <2>2 DEF OnStack
    <3>2. i \in 1..place - 1
      BY <3>1, <2>2, <1>13
    <3> QED BY <3>1, <3>2, <1>11, <1>13 DEF OnStack
  <2> QED BY <2>1, <2>2
<1>15. TarjanTypes(adj, v)
  BY <1>1, <1>3, <1>5, <1>9, <1>11 DEF TarjanTypes
<1>16. StackOrdered(v)
  <2>1. \A i \in DOMAIN v.stack : Indexed(v, v.stack[i])
    BY <1>3, <1>11, <1>13 DEF Indexed
  <2>2. \A x \in DOMAIN v.index : v.index[x] < v.counter
    BY <1>1, <1>3 DEF StackOrdered
  <2>3. ASSUME NEW i \in 1..place - 1, NEW j \in 1..place - 1, i < j
        PROVE  v.index[v.stack[i]] < v.index[v.stack[j]]
    <3>1. w.index[w.stack[i]] < w.index[w.stack[j]]
      BY <2>3, <1>1, <1>13 DEF StackOrdered
    <3> QED BY <3>1, <1>3, <1>13
  <2> QED BY <2>1, <2>2, <2>3, <1>11 DEF StackOrdered
<1>17. Partition(v) /\ FinishedSeen(v)
  <2>1. Partition(v)
    BY <1>1, <1>3, <1>9, <1>14 DEF Partition
  <2>2. ASSUME NEW i \in DOMAIN v.sccs, NEW x \in v.sccs[i]
        PROVE  x \in DOMAIN v.index
    <3>1. Finished(v, x)
      BY <2>2 DEF Finished
    <3>2. Finished(w, x) => x \in DOMAIN w.index
      BY <1>1 DEF FinishedSeen, Finished
    <3> QED BY <3>1, <3>2, <1>3, <1>8, <1>9
  <2> QED BY <2>1, <2>2 DEF FinishedSeen
<1>18. \A j \in 1..n - 1 : w.index[NodeAtWork(w, j)] < w.index[f] /\ GreyAt(w, j) /\ NodeAtWork(w, j) \in DOMAIN w.index
  <2> SUFFICES ASSUME NEW j \in 1..n - 1
               PROVE  w.index[NodeAtWork(w, j)] < w.index[f] /\ GreyAt(w, j) /\ NodeAtWork(w, j) \in DOMAIN w.index
    OBVIOUS
  <2>1. j \in 1..n /\ j # n
    BY <1>2, <1>5
  <2> QED BY <2>1, <1>2
<1>19. WorkOrdered(adj, v)
  <2>1. \A j \in 1..n - 1 : OnStack(w, NodeAtWork(w, j))
    BY <1>1, <1>2, <1>5 DEF WorkOrdered
  <2>2. \A j \in 1..n - 1 : NodeAtWork(w, j) \notin C
    <3> SUFFICES ASSUME NEW j \in 1..n - 1, NodeAtWork(w, j) \in C
                 PROVE  FALSE
      OBVIOUS
    <3>1. PICK x \in C : x = NodeAtWork(w, j)
      OBVIOUS
    <3>2. w.index[x] < w.index[f] /\ w.index[f] <= w.index[x] /\ w.index[x] \in Nat /\ w.index[f] \in Nat
      BY <3>1, <1>2, <1>8, <1>18
    <3> QED BY <3>2
  <2> QED BY <2>1, <2>2, <1>2, <1>3, <1>4, <1>14, <1>18, LeftOrdered
<1>20. GreyReaches(adj, v)
  BY <1>1, <1>2, <1>3, <1>5, <1>11, <1>13, <1>18 DEF GreyReaches
<1>21. BackToGrey(adj, v)
  <2> SUFFICES ASSUME NEW i \in 1..place - 1
               PROVE  \E j \in 1..n - 1 : w.index[NodeAtWork(w, j)] <= w.index[w.stack[i]]
                                          /\ NodeAtWork(w, j) \in Reaches(adj, w.stack[i])
    BY <1>3, <1>5, <1>11, <1>13 DEF BackToGrey
  <2>1. PICK j \in 1..n : w.index[NodeAtWork(w, j)] <= w.index[w.stack[i]] /\ NodeAtWork(w, j) \in Reaches(adj, w.stack[i])
    BY <1>1, <1>2, <1>13 DEF BackToGrey
  <2>2. j # n
    <3>1. w.index[w.stack[i]] < w.index[f] /\ w.index[w.stack[i]] \in Nat /\ w.index[f] \in Nat
      BY <1>2, <1>13
    <3> QED BY <2>1, <3>1
  <2> QED BY <2>1, <2>2, <1>5
<1>22. LowReached(adj, v)
  <2> SUFFICES ASSUME NEW j \in 1..n - 1
               PROVE  /\ w.low[NodeAtWork(w, j)] <= w.index[NodeAtWork(w, j)]
                      /\ \E i \in 1..place - 1 : w.index[w.stack[i]] = w.low[NodeAtWork(w, j)]
                                              /\ w.stack[i] \in Reaches(adj, NodeAtWork(w, j))
    BY <1>3, <1>5, <1>11, <1>13 DEF LowReached
  <2>1. w.low[NodeAtWork(w, j)] <= w.index[NodeAtWork(w, j)]
    BY <1>1, <1>2, <1>5 DEF LowReached
  <2>2. PICK i \in DOMAIN w.stack : w.index[w.stack[i]] = w.low[NodeAtWork(w, j)] /\ w.stack[i] \in Reaches(adj, NodeAtWork(w, j))
    BY <1>1, <1>2, <1>5 DEF LowReached
  <2>3. w.index[w.stack[i]] < w.index[f]
    <3>1. /\ w.low[NodeAtWork(w, j)] \in Nat /\ w.index[NodeAtWork(w, j)] \in Nat /\ w.index[f] \in Nat
          /\ w.index[NodeAtWork(w, j)] < w.index[f]
      BY <1>2, <1>18
    <3> QED BY <2>1, <2>2, <3>1
  <2> QED BY <2>1, <2>2, <2>3, <1>13
<1>23. LowCovers(adj, v)
  <2> SUFFICES ASSUME NEW j \in DOMAIN v.work, NEW i \in DOMAIN v.stack, NEW k \in DOMAIN v.stack,
                      Owns(v, j, i), v.stack[k] \in adj[v.stack[i]],
                      v.stack[i] = NodeAtWork(v, j) => v.stack[k] \in v.work[j].looked
               PROVE  v.low[NodeAtWork(v, j)] <= v.index[v.stack[k]]
    BY DEF LowCovers
  <2>1. j \in 1..n - 1 /\ j \in 1..n /\ NodeAtWork(v, j) = NodeAtWork(w, j) /\ v.work[j] = w.work[j]
    BY <1>5
  <2>2. /\ i \in 1..place - 1 /\ k \in 1..place - 1 /\ i \in DOMAIN w.stack /\ k \in DOMAIN w.stack
        /\ v.stack[i] = w.stack[i] /\ v.stack[k] = w.stack[k] /\ w.stack[k] \in adj[w.stack[i]]
        /\ (w.stack[i] = NodeAtWork(w, j) => w.stack[k] \in w.work[j].looked)
    BY <2>1, <1>11, <1>13
  <2>3. w.index[NodeAtWork(w, j)] <= w.index[w.stack[i]]
    BY <2>1, <2>2, <1>3 DEF Owns
  <2>4. ASSUME NEW m \in 1..n - 1, w.index[NodeAtWork(w, m)] <= w.index[w.stack[i]]
        PROVE  m <= j
    BY <2>2, <2>4, <1>3, <1>5 DEF Owns
  <2>5. ASSUME NEW m \in 1..n, w.index[NodeAtWork(w, m)] <= w.index[w.stack[i]]
        PROVE  m <= j
    <3>1. w.index[w.stack[i]] < w.index[f] /\ w.index[w.stack[i]] \in Nat /\ w.index[f] \in Nat
      BY <2>2, <1>2, <1>13
    <3>2. m # n
      BY <2>5, <3>1
    <3> QED BY <2>4, <2>5, <3>2, <1>5
  <2>6. Owns(w, j, i)
    BY <2>1, <2>3, <2>5, <1>2 DEF Owns
  <2>7. w.low[NodeAtWork(w, j)] <= w.index[w.stack[k]]
    BY <2>1, <2>2, <2>6, <1>1, <1>2 DEF LowCovers
  <2> QED BY <2>1, <2>2, <2>7, <1>3
<1> QED BY <1>5, <1>9, <1>15, <1>16, <1>17, <1>19, <1>20, <1>21, <1>22, <1>23 DEF TurnInv, TarjanInv

LEMMA LowestIn ==
  ASSUME NEW S \in SUBSET Nat, S # {}
  PROVE  Lowest(S) \in S
  BY LeastNat DEF Lowest

(* The outer loop takes a root, with nothing at work. *)
LEMMA RootKeeps ==
  ASSUME NEW adj, NEW w, NEW v, CallsNodes(adj), TarjanInv(adj, w), w.work = <<>>, w.roots # {}, v = TarjanRoot(w)
  PROVE  TarjanInv(adj, v)
<1>1. /\ TarjanTypes(adj, w) /\ StackOrdered(w) /\ WorkOrdered(adj, w) /\ Partition(w) /\ FinishedSeen(w)
      /\ SccsExact(adj, w) /\ GreyReaches(adj, w) /\ BackToGrey(adj, w) /\ LookedSeen(w) /\ BlackDone(adj, w)
      /\ LowReached(adj, w) /\ LowCovers(adj, w) /\ RootsLeft(adj, w)
  BY DEF TurnInv, TarjanInv
<1>2. PICK r \in w.roots : r = Lowest(w.roots)
  <2>1. w.roots \in SUBSET Nat
    BY <1>1 DEF TarjanTypes, CallsNodes
  <2> QED BY <2>1, LowestIn
<1>3. r \in DOMAIN adj
  BY <1>1 DEF TarjanTypes
<1>4. PICK e : e = [node |-> r, looked |-> {}]
  OBVIOUS
<1>5. /\ v.roots = w.roots \ {r} /\ v.sccs = w.sccs /\ v.counter = w.counter /\ v.stack = w.stack
      /\ v.index = w.index /\ v.low = w.low /\ DOMAIN v = DOMAIN w
      /\ v.work = IF Indexed(w, r) THEN <<>> ELSE <<e>>
  BY <1>1, <1>2, <1>4 DEF TarjanTypes, TarjanRoot
<1>6. DOMAIN w.work = {} /\ \A x : ~Grey(w, x)
  BY DEF Grey
<1>7. DOMAIN w.stack = {} /\ DOMAIN v.stack = {}
  BY <1>1, <1>5, <1>6 DEF BackToGrey
<1>8. e \in WorkEntry(adj) /\ e.node = r /\ e.looked = {}
  BY <1>3, <1>4 DEF WorkEntry
<1>9. /\ v.work \in Seq(WorkEntry(adj)) /\ DOMAIN v.work \subseteq {1}
      /\ \A j \in DOMAIN v.work : NodeAtWork(v, j) = r /\ v.work[j].looked = {} /\ j = 1 /\ ~Indexed(w, r) /\ v.work = <<e>>
  <2>1. CASE Indexed(w, r)
    BY <2>1, <1>5
  <2>2. CASE ~Indexed(w, r)
    <3>1. v.work = <<e>> /\ DOMAIN v.work = {1} /\ v.work[1] = e
      BY <2>2, <1>5
    <3> QED BY <2>2, <3>1, <1>8 DEF NodeAtWork
  <2> QED BY <2>1, <2>2
<1>10. \A x : Indexed(v, x) <=> Indexed(w, x)
  BY <1>5 DEF Indexed
<1>11. \A j \in DOMAIN v.work : ~GreyAt(v, j)
  BY <1>9, <1>10 DEF GreyAt
<1>12. TarjanTypes(adj, v)
  BY <1>1, <1>5, <1>9 DEF TarjanTypes
<1>13. StackOrdered(v) /\ Partition(v) /\ FinishedSeen(v) /\ SccsExact(adj, v)
  BY <1>1, <1>5 DEF StackOrdered, Partition, FinishedSeen, SccsExact, Indexed, OnStack, Finished
<1>14. WorkOrdered(adj, v)
  <2>1. \A j \in DOMAIN v.work : ~(j < Len(v.work)) /\ ~(j > 1)
    BY <1>9
  <2> QED BY <2>1, <1>9, <1>11 DEF WorkOrdered
<1>15. GreyReaches(adj, v) /\ BackToGrey(adj, v) /\ LowReached(adj, v) /\ LowCovers(adj, v)
  BY <1>7, <1>11 DEF GreyReaches, BackToGrey, LowReached, LowCovers
<1>16. LookedSeen(v)
  BY <1>9 DEF LookedSeen
<1>17. BlackDone(adj, v)
  BY <1>1, <1>5, <1>6 DEF BlackDone
<1>18. RootsLeft(adj, v)
  <2> SUFFICES ASSUME NEW x \in DOMAIN adj
               PROVE  x \in v.roots \/ Indexed(v, x) \/ Grey(v, x)
    BY DEF RootsLeft
  <2>1. x \in w.roots \/ Indexed(w, x)
    BY <1>1, <1>6 DEF RootsLeft
  <2>2. CASE x # r
    BY <2>1, <2>2, <1>5, <1>10
  <2>3. CASE x = r /\ ~Indexed(w, r)
    <3>1. DOMAIN v.work = {1}
      BY <2>3, <1>5
    <3> QED BY <2>3, <3>1, <1>9 DEF Grey
  <2>4. CASE x = r /\ Indexed(w, r)
    BY <2>4, <1>10
  <2> QED BY <2>2, <2>3, <2>4
<1>19. TopNew(v)
  <2> SUFFICES ASSUME v.work # <<>>
               PROVE  ~GreyAt(v, Len(v.work)) /\ v.work[Len(v.work)].looked = {}
    BY DEF TopNew
  <2>1. Len(v.work) = 1 /\ DOMAIN v.work = {1}
    BY <1>5
  <2> QED BY <2>1, <1>9, <1>11
<1> QED BY <1>12, <1>13, <1>14, <1>15, <1>16, <1>17, <1>18, <1>19 DEF TurnInv, TarjanInv

LEMMA BelowTop ==
  ASSUME NEW n \in Nat, n # 0, n # 1
  PROVE  n - 1 \in 1..n - 1 /\ n - 1 \in 1..n /\ n - 1 # n
  OBVIOUS

(* The next child, whichever it is. *)
LEMMA VisitKeeps ==
  ASSUME NEW adj, NEW u, NEW v, CallsNodes(adj), TurnInv(adj, u), u.work # <<>>,
         NEW n, n = Len(u.work), NEW f, f = NodeAtWork(u, n), GreyAt(u, n),
         NEW c, c \in Normalize(adj, f),
         v = Visit([u EXCEPT !.work[n].looked = @ \cup {c}], f, c)
  PROVE  TarjanInv(adj, v)
<1>1. TarjanTypes(adj, u)
  BY DEF TurnInv
<1>2. /\ f \in DOMAIN u.index /\ u.index \in [DOMAIN u.index -> Nat] /\ u.low \in [DOMAIN u.index -> Nat]
      /\ DOMAIN u = {"roots", "work", "counter", "stack", "index", "low", "sccs"}
  <2>1. f \in DOMAIN u.index
    BY TopFacts DEF AtTop
  <2> QED BY <2>1, <1>1 DEF TarjanTypes
<1>3. PICK work : work = [u.work EXCEPT ![n].looked = @ \cup {c}]
  OBVIOUS
<1>4. Marked(u, work, n, c)
  BY <1>3 DEF Marked
<1>5. PICK x : x = [u EXCEPT !.work = work]
  OBVIOUS
<1>6. v = Visit(x, f, c)
  BY <1>3, <1>5
<1>7. /\ x.roots = u.roots /\ x.sccs = u.sccs /\ x.counter = u.counter /\ x.stack = u.stack
      /\ x.index = u.index /\ x.low = u.low /\ DOMAIN x = DOMAIN u /\ x.work = work
  BY <1>2, <1>5
<1>8. (Indexed(x, c) <=> Indexed(u, c)) /\ (OnStack(x, c) <=> OnStack(u, c))
  BY <1>7 DEF Indexed, OnStack
<1>9. CASE ~Indexed(u, c)
  <2>1. v = [x EXCEPT !.work = Append(@, [node |-> c, looked |-> {}])]
    BY <1>6, <1>8, <1>9 DEF Visit
  <2>2. Descended(u, v, work, c)
    BY <2>1, <1>2, <1>7 DEF Descended
  <2> QED BY <2>2, <1>4, <1>9, DescendKeeps
<1>10. CASE Indexed(u, c)
  <2>1. u.index[c] \in Nat /\ u.low[f] \in Nat
    BY <1>2, <1>10 DEF Indexed
  <2>2. CASE OnStack(u, c)
    <3>1. v = [x EXCEPT !.low[f] = Smaller(@, x.index[c])]
      BY <1>6, <1>8, <1>10, <2>2 DEF Visit
    <3>2. PICK l : l = Smaller(u.low[f], u.index[c])
      OBVIOUS
    <3>3. l \in Nat /\ l <= u.low[f] /\ l <= u.index[c] /\ (l = u.low[f] \/ l = u.index[c])
      BY <2>1, <3>2 DEF Smaller
    <3>4. Lowered(u, v, work, f, l)
      BY <3>1, <3>2, <1>2, <1>7 DEF Lowered
    <3> QED BY <2>2, <3>3, <3>4, <1>4, <1>10, LowerKeeps
  <2>3. CASE ~OnStack(u, c)
    <3>1. v = x
      BY <1>6, <1>8, <1>10, <2>3 DEF Visit
    <3>2. PICK l \in Nat : l = u.low[f]
      BY <2>1
    <3>3. [u.low EXCEPT ![f] = l] = u.low
      BY <3>2, <1>2
    <3>4. Lowered(u, v, work, f, l)
      BY <3>1, <3>3, <1>7 DEF Lowered
    <3> QED BY <2>3, <3>2, <3>4, <1>4, <1>10, LowerKeeps
  <2> QED BY <2>2, <2>3
<1> QED BY <1>9, <1>10

(* No child is left. *)
LEMMA TarjanLeaves ==
  ASSUME NEW adj, NEW u, NEW v, CallsNodes(adj), TurnInv(adj, u), u.work # <<>>,
         NEW n, n = Len(u.work), NEW f, f = NodeAtWork(u, n), GreyAt(u, n),
         u.work[n].looked = Normalize(adj, f), v = Leave(u, f)
  PROVE  TarjanInv(adj, v)
<1>1. TarjanTypes(adj, u) /\ LowReached(adj, u)
  BY DEF TurnInv
<1>2. /\ n \in Nat \ {0} /\ DOMAIN u.work = 1..n /\ f \in DOMAIN u.index /\ OnStack(u, f)
      /\ \A j \in 1..n : GreyAt(u, j) /\ NodeAtWork(u, j) \in DOMAIN u.index
      /\ \A x \in DOMAIN u.index : u.index[x] \in Nat /\ u.low[x] \in Nat
      /\ \A j \in 1..n : j # n => u.index[NodeAtWork(u, j)] < u.index[f]
  BY TopFacts DEF AtTop
<1>3. /\ u.low \in [DOMAIN u.index -> Nat] /\ u.work \in Seq(WorkEntry(adj))
      /\ DOMAIN u = {"roots", "work", "counter", "stack", "index", "low", "sccs"}
  BY <1>1 DEF TarjanTypes
<1>4. PICK rest : rest = Front(u.work)
  OBVIOUS
<1>5. /\ rest \in Seq(WorkEntry(adj)) /\ Len(rest) = n - 1 /\ DOMAIN rest = 1..n - 1
      /\ \A j \in 1..n - 1 : rest[j] = u.work[j]
  BY <1>3, <1>4, Popped
<1>6. PICK q : q = NodeAtWork(u, n - 1)
  OBVIOUS
<1>7. rest # <<>> => n - 1 \in 1..n - 1 /\ n - 1 \in 1..n /\ n - 1 # n /\ Last(rest).node = q
  <2> SUFFICES ASSUME rest # <<>>
               PROVE  n - 1 \in 1..n - 1 /\ n - 1 \in 1..n /\ n - 1 # n /\ Last(rest).node = q
    OBVIOUS
  <2>1. n - 1 # 0
    BY <1>5
  <2>2. n - 1 \in 1..n - 1 /\ n - 1 \in 1..n /\ n - 1 # n
    <3>1. n \in Nat /\ n # 0 /\ n # 1
      BY <2>1, <1>2
    <3> QED BY <3>1, BelowTop
  <2>3. Last(rest) = rest[n - 1] /\ rest[n - 1] = u.work[n - 1]
    BY <2>2, <1>5 DEF Last
  <2> QED BY <2>2, <2>3, <1>6 DEF NodeAtWork
<1>8. CASE u.low[f] = u.index[f]
  <2>1. PICK place : place = CHOOSE i \in DOMAIN u.stack : u.stack[i] = f
    OBVIOUS
  <2>2. place \in DOMAIN u.stack /\ u.stack[place] = f
    BY <2>1, <1>2 DEF OnStack
  <2>3. PICK C : C = {u.stack[i] : i \in place..Len(u.stack)}
    OBVIOUS
  <2>4. PICK done : done = PopComponent(u, f)
    OBVIOUS
  <2>5. done = [u EXCEPT !.stack = SubSeq(@, 1, place - 1), !.sccs = Append(@, C)]
    BY <2>1, <2>3, <2>4 DEF PopComponent
  <2>6. /\ done.roots = u.roots /\ done.counter = u.counter /\ done.index = u.index /\ done.low = u.low
        /\ DOMAIN done = DOMAIN u
        /\ done.stack = SubSeq(u.stack, 1, place - 1) /\ done.sccs = Append(u.sccs, C)
    BY <2>5, <1>3
  <2>7. CASE rest = <<>>
    <3>1. v = [done EXCEPT !.work = rest]
      BY <1>4, <1>8, <2>4, <2>7 DEF Leave
    <3>2. Closes(u, v, place, C)
      BY <3>1, <2>6, <1>3, <1>4 DEF Closes
    <3> QED BY <3>2, <2>2, <2>3, <1>8, LeaveRootKeeps
  <2>8. CASE rest # <<>>
    <3>1. v = [done EXCEPT !.work = rest, !.low[q] = Smaller(@, u.low[f])]
      BY <1>4, <1>7, <1>8, <2>4, <2>8 DEF Leave
    <3>2. u.low[q] <= u.index[q] /\ u.index[q] < u.index[f] /\ q \in DOMAIN u.index
      BY <2>8, <1>1, <1>2, <1>6, <1>7 DEF LowReached
    <3>3. Smaller(u.low[q], u.low[f]) = u.low[q]
      BY <3>2, <1>2, <1>8 DEF Smaller
    <3>4. [u.low EXCEPT ![q] = u.low[q]] = u.low
      BY <3>2, <1>3
    <3>5. /\ v.low = [done.low EXCEPT ![q] = Smaller(done.low[q], u.low[f])]
          /\ v.roots = done.roots /\ v.counter = done.counter /\ v.index = done.index
          /\ DOMAIN v = DOMAIN done /\ v.stack = done.stack /\ v.sccs = done.sccs /\ v.work = rest
      BY <3>1, <2>6, <1>3
    <3>6. Closes(u, v, place, C)
      BY <3>3, <3>4, <3>5, <2>6, <1>4 DEF Closes
    <3> QED BY <3>6, <2>2, <2>3, <1>8, LeaveRootKeeps
  <2> QED BY <2>7, <2>8
<1>9. CASE u.low[f] # u.index[f]
  <2>1. rest # <<>>
    <3>1. PICK m \in DOMAIN u.work : m < n
      BY <1>9, ReachesBelow
    <3>2. n - 1 \in 1..n - 1
      BY <3>1, <1>2
    <3> QED BY <3>2, <1>5
  <2>2. v = [u EXCEPT !.work = rest, !.low[q] = Smaller(@, u.low[f])]
    BY <2>1, <1>4, <1>7, <1>9 DEF Leave
  <2>3. PICK l : l = Smaller(u.low[q], u.low[f])
    OBVIOUS
  <2>4. Passed(u, v, q, l)
    BY <2>2, <2>3, <1>3, <1>4 DEF Passed
  <2> QED BY <2>3, <2>4, <1>6, <1>9, LeaveInnerKeeps
<1> QED BY <1>8, <1>9

(* One turn of the inner loop keeps the invariant. *)
LEMMA TurnKeeps ==
  ASSUME NEW adj, NEW w, CallsNodes(adj), TarjanInv(adj, w), w.work # <<>>
  PROVE  TarjanInv(adj, TarjanTurn(adj, w))
<1>1. TurnInv(adj, w) /\ TopNew(w) /\ TarjanTypes(adj, w) /\ WorkOrdered(adj, w)
  BY DEF TarjanInv, TurnInv
<1>2. PICK n : n = Len(w.work)
  OBVIOUS
<1>3. n \in DOMAIN w.work /\ Last(w.work) = w.work[n]
  BY <1>1, <1>2 DEF TarjanTypes, Last
<1>4. PICK f : f = NodeAtWork(w, n)
  OBVIOUS
<1>5. PICK looked : looked = w.work[n].looked
  OBVIOUS
<1>6. PICK ahead : ahead = Normalize(adj, f) \ looked
  OBVIOUS
<1>7. PICK u : u = IF looked = {} THEN Enter(w, f) ELSE w
  OBVIOUS
<1>8. TurnInv(adj, u) /\ GreyAt(u, n) /\ u.work = w.work
  <2>1. CASE looked = {}
    <3>1. u = Enter(w, f) /\ ~GreyAt(w, n)
      BY <2>1, <1>1, <1>2, <1>5, <1>7 DEF TopNew
    <3> QED BY <2>1, <3>1, <1>1, <1>2, <1>4, <1>5, TarjanEnters
  <2>2. CASE looked # {}
    BY <2>2, <1>1, <1>2, <1>5, <1>7 DEF TopNew
  <2> QED BY <2>1, <2>2
<1>9. f = NodeAtWork(u, n) /\ u.work[n].looked = looked
  BY <1>4, <1>5, <1>8 DEF NodeAtWork
<1>10. f \in DOMAIN adj /\ Normalize(adj, f) \subseteq Nat
  <2>1. f \in DOMAIN adj
    BY <1>1, <1>3, <1>4, StackFacts
  <2> QED BY <2>1 DEF Normalize, CallsNodes
<1>11. PICK v : v = TarjanTurn(adj, w)
  OBVIOUS
<1>12. /\ ahead = {} => v = Leave(u, f)
       /\ ahead # {} => v = Visit([u EXCEPT !.work[n].looked = @ \cup {Lowest(ahead)}], f, Lowest(ahead))
  BY <1>2, <1>3, <1>4, <1>5, <1>6, <1>7, <1>11 DEF TarjanTurn, NodeAtWork
<1>13. CASE ahead = {}
  <2>1. looked \subseteq Normalize(adj, f)
    BY <1>1, <1>3, <1>4, <1>5 DEF WorkOrdered
  <2>2. u.work[n].looked = Normalize(adj, f)
    BY <2>1, <1>6, <1>9, <1>13
  <2>3. TarjanInv(adj, v)
    BY <2>2, <1>2, <1>8, <1>9, <1>12, <1>13, TarjanLeaves
  <2> QED BY <2>3, <1>11
<1>14. CASE ahead # {}
  <2>1. PICK c : c = Lowest(ahead)
    OBVIOUS
  <2>2. c \in Normalize(adj, f)
    BY <2>1, <1>6, <1>10, <1>14, LowestIn
  <2>3. v = Visit([u EXCEPT !.work[n].looked = @ \cup {c}], f, c)
    BY <2>1, <1>12, <1>14
  <2>4. TarjanInv(adj, v)
    BY <2>2, <2>3, <1>2, <1>8, <1>9, VisitKeeps
  <2> QED BY <2>4, <1>11
<1> QED BY <1>13, <1>14

(* The finished search, and the components as the answer has them. *)
LEMMA FiniteImage ==
  ASSUME NEW S, IsFiniteSet(S), NEW fn, DOMAIN fn = S, NEW T, T = {fn[x] : x \in S}, fn \in [S -> T]
  PROVE  IsFiniteSet(T)
<1>1. fn \in Surjection(S, T)
  BY DEF Surjection
<1> QED BY <1>1, FS_Surjection

(* More than one member. *)
LEMMA TwoMembers ==
  ASSUME NEW S, IsFiniteSet(S)
  PROVE  Cardinality(S) > 1 <=> \E x, y \in S : x # y
<1>1. Cardinality(S) \in Nat
  BY FS_CardinalityType
<1>2. Cardinality(S) = 0 <=> S = {}
  BY FS_EmptySet
<1>3. Cardinality(S) = 1 <=> \E x : S = {x}
  BY FS_Singleton
<1>4. Cardinality(S) > 1 <=> ~(Cardinality(S) = 0) /\ ~(Cardinality(S) = 1)
  BY <1>1
<1>5. (\E x, y \in S : x # y) <=> ~(S = {}) /\ ~(\E x : S = {x})
  OBVIOUS
<1> QED BY <1>2, <1>3, <1>4, <1>5

LEMMA OrderIsExact ==
  ASSUME NEW adj, NEW t, CallsNodes(adj), IsFiniteSet(DOMAIN adj), TarjanInv(adj, t), t.work = <<>>, t.roots = {},
         NEW order, order = ComputeAnalysisOrder(adj, t)
  PROVE  OrderExact(adj, order)
<1>1. /\ TarjanTypes(adj, t) /\ Partition(t) /\ SccsExact(adj, t) /\ BackToGrey(adj, t) /\ RootsLeft(adj, t)
  BY DEF TurnInv, TarjanInv
<1>2. DOMAIN t.work = {} /\ \A x : ~Grey(t, x)
  BY DEF Grey
<1>3. \A x : ~OnStack(t, x)
  BY <1>1, <1>2 DEF BackToGrey, OnStack
<1>4. \A f \in DOMAIN adj : Finished(t, f)
  BY <1>1, <1>2, <1>3 DEF RootsLeft, Partition, Indexed
<1>5. /\ DOMAIN order = DOMAIN t.sccs
      /\ \A i \in DOMAIN t.sccs : /\ order[i].members = t.sccs[i]
                                  /\ order[i].recursive = (Cardinality(t.sccs[i]) > 1 \/ t.sccs[i] \cap SelfLoops(adj) # {})
  BY DEF ComputeAnalysisOrder
<1>6. \A i \in DOMAIN t.sccs : t.sccs[i] \subseteq DOMAIN adj
  <2>1. t.sccs \in Seq(SUBSET DOMAIN adj)
    BY <1>1 DEF TarjanTypes
  <2> QED BY <2>1
<1>7. UNION {order[i].members : i \in DOMAIN order} = DOMAIN adj
  <2>1. ASSUME NEW i \in DOMAIN order, NEW x \in order[i].members
        PROVE  x \in DOMAIN adj
    BY <2>1, <1>5, <1>6
  <2>2. ASSUME NEW x \in DOMAIN adj
        PROVE  \E i \in DOMAIN order : x \in order[i].members
    <3>1. PICK i \in DOMAIN t.sccs : x \in t.sccs[i]
      BY <2>2, <1>4 DEF Finished
    <3> QED BY <3>1, <1>5
  <2> QED BY <2>1, <2>2
<1>8. ASSUME NEW i \in DOMAIN order, NEW j \in DOMAIN order, NEW f \in order[i].members, NEW g \in order[j].members
      PROVE  (i = j <=> Mutual(adj, f, g)) /\ (g \in adj[f] => j <= i)
  <2>1. /\ i \in DOMAIN t.sccs /\ j \in DOMAIN t.sccs /\ f \in t.sccs[i] /\ g \in t.sccs[j]
        /\ f \in DOMAIN adj /\ g \in DOMAIN adj
    BY <1>5, <1>6, <1>8
  <2>2. g \in t.sccs[i] <=> Mutual(adj, f, g)
    BY <2>1, <1>1 DEF SccsExact
  <2>3. \A k \in DOMAIN t.sccs : g \in t.sccs[k] => k = j
    BY <2>1, <1>1 DEF SccsExact
  <2>4. i = j <=> Mutual(adj, f, g)
    BY <2>1, <2>2, <2>3
  <2>5. g \in adj[f] => j <= i
    BY <2>1, <2>3, <1>1 DEF SccsExact
  <2> QED BY <2>4, <2>5
<1>9. ASSUME NEW i \in DOMAIN order
      PROVE  order[i].recursive <=> \E f \in order[i].members : \E g \in adj[f] : f \in Reaches(adj, g)
  <2>1. PICK C : C = t.sccs[i]
    OBVIOUS
  <2>2. /\ C \subseteq DOMAIN adj /\ order[i].members = C
        /\ order[i].recursive = (Cardinality(C) > 1 \/ C \cap SelfLoops(adj) # {})
        /\ \A f \in C : \A g \in DOMAIN adj : g \in C <=> Mutual(adj, f, g)
    BY <2>1, <1>1, <1>5, <1>6 DEF SccsExact
  <2>3. IsFiniteSet(C)
    BY <2>2, FS_Subset
  <2>4. Cardinality(C) > 1 <=> \E x, y \in C : x # y
    BY <2>3, TwoMembers
  <2>5. ASSUME NEW x \in C, NEW y \in C, x # y
        PROVE  \E f \in C : \E g \in adj[f] : f \in Reaches(adj, g)
    <3>1. y \in Reaches(adj, x) /\ x \in Reaches(adj, y) /\ x \in DOMAIN adj
      BY <2>2, <2>5 DEF Mutual
    <3>2. PICK h \in adj[x] : y \in Reaches(adj, h)
      BY <2>5, <3>1, ReachesThrough
    <3>3. x \in Reaches(adj, h)
      BY <3>1, <3>2, ReachesOn
    <3> QED BY <3>2, <3>3
  <2>6. ASSUME NEW x \in C \cap SelfLoops(adj)
        PROVE  \E f \in C : \E g \in adj[f] : f \in Reaches(adj, g)
    <3>1. x \in C /\ x \in adj[x] /\ x \in Reaches(adj, x)
      BY <2>2, <2>6, ReachesSelf DEF SelfLoops
    <3> QED BY <3>1
  <2>7. ASSUME NEW f \in C, NEW g \in adj[f], f \in Reaches(adj, g)
        PROVE  (\E x, y \in C : x # y) \/ C \cap SelfLoops(adj) # {}
    <3>1. f \in DOMAIN adj /\ g \in DOMAIN adj
      BY <2>2, <2>7 DEF CallsNodes
    <3>2. CASE g = f
      BY <2>7, <3>1, <3>2 DEF SelfLoops
    <3>3. CASE g # f
      <4>1. g \in Reaches(adj, f)
        BY <2>7, <3>1, ReachesCallee
      <4>2. g \in C
        BY <2>2, <2>7, <3>1, <4>1 DEF Mutual
      <4> QED BY <3>3, <4>2, <2>7
    <3> QED BY <3>2, <3>3
  <2>8. ((\E x, y \in C : x # y) \/ C \cap SelfLoops(adj) # {}) <=> \E f \in C : \E g \in adj[f] : f \in Reaches(adj, g)
    BY <2>5, <2>6, <2>7
  <2> QED BY <2>2, <2>4, <2>8
<1> QED BY <1>7, <1>8, <1>9 DEF OrderExact

(* The adjacency of any graph the worker hands over. *)
LEMMA AdjacencyFacts ==
  ASSUME NEW g \in AnyGraph
  PROVE  /\ CallsNodes(Adjacency(g)) /\ DOMAIN Adjacency(g) = CollectNodes(g)
         /\ IsFiniteSet(DOMAIN Adjacency(g))
<1>1. /\ g.nodes \in Seq(Nat) /\ g.edges \in Seq(Nat \X Nat) /\ g.unresolved \in SUBSET Nat
      /\ IsFiniteSet(g.unresolved)
  BY DEF AnyGraph
<1>2. PICK E : E = ToSet(g.edges)
  OBVIOUS
<1>3. PICK N : N = ToSet(g.nodes)
  OBVIOUS
<1>4. N \subseteq Nat /\ E \subseteq Nat \X Nat
  <2>1. \A i \in DOMAIN g.nodes : g.nodes[i] \in Nat
    BY <1>1
  <2>2. \A i \in DOMAIN g.edges : g.edges[i] \in Nat \X Nat
    BY <1>1
  <2>3. N = {g.nodes[i] : i \in DOMAIN g.nodes}
    BY <1>3 DEF ToSet
  <2>4. E = {g.edges[i] : i \in DOMAIN g.edges}
    BY <1>2 DEF ToSet
  <2> QED BY <2>1, <2>2, <2>3, <2>4
<1>5. \A e \in E : e[1] \in Nat /\ e[2] \in Nat
  BY <1>4
<1>6. PICK F : F = {e[1] : e \in E}
  OBVIOUS
<1>7. PICK T : T = {e[2] : e \in E}
  OBVIOUS
<1>8. CollectNodes(g) = N \cup g.unresolved \cup F \cup T
  BY <1>2, <1>3, <1>6, <1>7 DEF CollectNodes
<1>9. DOMAIN Adjacency(g) = CollectNodes(g)
  BY DEF Adjacency
<1>10. CallsNodes(Adjacency(g))
  <2>1. CollectNodes(g) \subseteq Nat
    BY <1>1, <1>4, <1>5, <1>6, <1>7, <1>8
  <2>2. ASSUME NEW f \in CollectNodes(g), NEW y \in Adjacency(g)[f]
        PROVE  y \in CollectNodes(g)
    <3>1. Adjacency(g)[f] = {e[2] : e \in {x \in E : x[1] = f}}
      BY <1>2 DEF Adjacency
    <3>2. PICK e \in E : y = e[2]
      BY <2>2, <3>1
    <3> QED BY <3>2, <1>7, <1>8
  <2> QED BY <2>1, <2>2, <1>9 DEF CallsNodes
<1>11. IsFiniteSet(N) /\ IsFiniteSet(E)
  <2>1. IsFiniteSet(DOMAIN g.nodes) /\ IsFiniteSet(DOMAIN g.edges)
    <3>1. /\ Len(g.nodes) \in Int /\ DOMAIN g.nodes = 1..Len(g.nodes)
          /\ Len(g.edges) \in Int /\ DOMAIN g.edges = 1..Len(g.edges) /\ 1 \in Int
      BY <1>1
    <3>2. IsFiniteSet(1..Len(g.nodes)) /\ IsFiniteSet(1..Len(g.edges))
      BY <3>1, FS_Interval
    <3> QED BY <3>1, <3>2
  <2>2. N = {g.nodes[x] : x \in DOMAIN g.nodes} /\ g.nodes \in [DOMAIN g.nodes -> N]
    BY <1>1, <1>3 DEF ToSet
  <2>3. E = {g.edges[x] : x \in DOMAIN g.edges} /\ g.edges \in [DOMAIN g.edges -> E]
    BY <1>1, <1>2 DEF ToSet
  <2>4. IsFiniteSet(N)
    BY <2>1, <2>2, FiniteImage
  <2>5. IsFiniteSet(E)
    BY <2>1, <2>3, FiniteImage
  <2> QED BY <2>4, <2>5
<1>12. IsFiniteSet(F) /\ IsFiniteSet(T)
  <2>1. PICK a : a = [e \in E |-> e[1]]
    OBVIOUS
  <2>2. PICK b : b = [e \in E |-> e[2]]
    OBVIOUS
  <2>3. DOMAIN a = E /\ F = {a[x] : x \in E} /\ a \in [E -> F]
    BY <2>1, <1>6
  <2>4. DOMAIN b = E /\ T = {b[x] : x \in E} /\ b \in [E -> T]
    BY <2>2, <1>7
  <2>5. IsFiniteSet(F)
    BY <2>3, <1>11, FiniteImage
  <2>6. IsFiniteSet(T)
    BY <2>4, <1>11, FiniteImage
  <2> QED BY <2>5, <2>6
<1>13. IsFiniteSet(CollectNodes(g))
  <2>1. IsFiniteSet(N \cup g.unresolved)
    BY <1>1, <1>11, FS_Union
  <2>2. IsFiniteSet((N \cup g.unresolved) \cup F)
    BY <2>1, <1>12, FS_Union
  <2>3. IsFiniteSet(((N \cup g.unresolved) \cup F) \cup T)
    BY <2>2, <1>12, FS_Union
  <2> QED BY <2>3, <1>8
<1> QED BY <1>9, <1>10, <1>13

LEMMA SearchStarts ==
  ASSUME NEW g \in AnyGraph, NEW t, t = [NoTarjan EXCEPT !.roots = CollectNodes(g)]
  PROVE  TarjanInv(Adjacency(g), t)
<1>1. PICK adj : adj = Adjacency(g)
  OBVIOUS
<1>2. DOMAIN adj = CollectNodes(g)
  BY <1>1, AdjacencyFacts
<1>3. /\ t.roots = DOMAIN adj /\ t.work = <<>> /\ t.counter = 0 /\ t.stack = <<>> /\ t.index = <<>>
      /\ t.low = <<>> /\ t.sccs = <<>>
      /\ DOMAIN t = {"roots", "work", "counter", "stack", "index", "low", "sccs"}
  BY <1>2 DEF NoTarjan
<1>4. DOMAIN t.work = {} /\ DOMAIN t.stack = {} /\ DOMAIN t.index = {} /\ DOMAIN t.sccs = {}
  BY <1>3
<1>5. t.index \in [{} -> Nat] /\ t.low \in [{} -> Nat]
  <2>1. <<>> \in Seq(Nat) /\ Len(<<>>) = 0
    OBVIOUS
  <2>2. <<>> \in [1..0 -> Nat]
    BY <2>1, LenProperties
  <2>3. 1..0 = {}
    OBVIOUS
  <2> QED BY <2>2, <2>3, <1>3
<1>6. TarjanTypes(adj, t)
  BY <1>3, <1>4, <1>5 DEF TarjanTypes
<1>7. StackOrdered(t) /\ WorkOrdered(adj, t) /\ Partition(t) /\ FinishedSeen(t) /\ SccsExact(adj, t)
  BY <1>4 DEF StackOrdered, WorkOrdered, Partition, FinishedSeen, SccsExact
<1>8. GreyReaches(adj, t) /\ BackToGrey(adj, t) /\ LookedSeen(t) /\ BlackDone(adj, t)
      /\ LowReached(adj, t) /\ LowCovers(adj, t)
  BY <1>4 DEF GreyReaches, BackToGrey, LookedSeen, BlackDone, LowReached, LowCovers
<1>9. RootsLeft(adj, t) /\ TopNew(t)
  BY <1>3 DEF RootsLeft, TopNew
<1> QED BY <1>1, <1>6, <1>7, <1>8, <1>9 DEF TarjanInv, TurnInv

LEMMA GraphSteps == OrderInv /\ [GraphMoves]_graphVars => OrderInv'
<1> SUFFICES ASSUME OrderInv, [GraphMoves]_graphVars
             PROVE  OrderInv'
  OBVIOUS
<1>1. /\ ask.tool \in {"analysis_order", "metrics"} /\ graph = <<>> => answer = <<>>
      /\ graph # <<>> => graph[1] \in AnyGraph /\ TarjanInv(Adjacency(graph[1]), tarjan)
      /\ graph = <<>> => tarjan = NoTarjan
      /\ ask.tool = "analysis_order" /\ answer # <<>> => OrderExact(Adjacency(graph[1]), answer[1])
  BY DEF OrderInv, CalleesFirst, NoAnswer
<1> DEFINE NothingLost ==
      /\ ask'.tool \in {"analysis_order", "metrics"} /\ graph' = <<>> => answer' = <<>>
      /\ graph' # <<>> => graph'[1] \in AnyGraph /\ TarjanInv(Adjacency(graph'[1]), tarjan')
      /\ graph' = <<>> => tarjan' = NoTarjan
      /\ ask'.tool = "analysis_order" /\ answer' # <<>> => OrderExact(Adjacency(graph'[1]), answer'[1])
<1>2. NothingLost => OrderInv'
  BY DEF OrderInv, CalleesFirst, NoAnswer
<1>3. CASE UNCHANGED graphVars
  BY <1>1, <1>2, <1>3 DEF graphVars
<1>4. CASE NeighborTool \/ ComplexityTool
  <2>1. /\ UNCHANGED <<ask, graph, tarjan>> /\ ~(ask.tool \in {"analysis_order", "metrics"})
    BY <1>4 DEF NeighborTool, ComplexityTool
  <2> QED BY <2>1, <1>1, <1>2
<1>5. CASE TarjanStep
  <2>1. /\ UNCHANGED <<ask, graph, answer>> /\ (tarjan.roots # {} \/ tarjan.work # <<>>)
        /\ tarjan.work = <<>> => tarjan' = TarjanRoot(tarjan)
        /\ tarjan.work # <<>> => tarjan' = TarjanTurn(Adjacency(graph[1]), tarjan)
    BY <1>5 DEF TarjanStep, Computing
  <2>2. graph # <<>>
    BY <2>1, <1>1 DEF NoTarjan
  <2>3. CallsNodes(Adjacency(graph[1])) /\ TarjanInv(Adjacency(graph[1]), tarjan)
    BY <2>2, <1>1, AdjacencyFacts
  <2>4. TarjanInv(Adjacency(graph[1]), tarjan')
    <3>1. CASE tarjan.work = <<>>
      BY <2>1, <2>3, <3>1, RootKeeps
    <3>2. CASE tarjan.work # <<>>
      BY <2>1, <2>3, <3>2, TurnKeeps
    <3> QED BY <3>1, <3>2
  <2> QED BY <2>1, <2>2, <2>4, <1>1, <1>2
<1>6. CASE AnalysisOrder
  <2>1. /\ UNCHANGED <<ask, graph, tarjan>> /\ graph # <<>> /\ tarjan.roots = {} /\ tarjan.work = <<>>
    BY <1>6 DEF AnalysisOrder, Computing
  <2>2. PICK order : order = ComputeAnalysisOrder(Adjacency(graph[1]), tarjan)
    OBVIOUS
  <2>3. ask.tool = "analysis_order" => answer' = <<order>>
    BY <2>2, <1>6 DEF AnalysisOrder
  <2>4. OrderExact(Adjacency(graph[1]), order)
    BY <2>1, <2>2, <1>1, AdjacencyFacts, OrderIsExact
  <2> QED BY <2>1, <2>3, <2>4, <1>1, <1>2
<1>7. CASE \E g \in AnyGraph : Fetched(g)
  <2>1. PICK g \in AnyGraph : Fetched(g)
    BY <1>7
  <2>2. /\ UNCHANGED <<ask, answer>> /\ graph = <<>> /\ ask.tool \in {"analysis_order", "metrics"}
        /\ graph' = <<g>> /\ tarjan' = [NoTarjan EXCEPT !.roots = CollectNodes(g)]
    BY <2>1 DEF Fetched
  <2>3. TarjanInv(Adjacency(g), tarjan')
    BY <2>2, SearchStarts
  <2>4. graph' # <<>> /\ graph'[1] = g /\ answer' = <<>>
    BY <2>2, <1>1
  <2> QED BY <2>3, <2>4, <1>2
<1> QED BY <1>3, <1>4, <1>5, <1>6, <1>7 DEF GraphMoves

(* analysis_order is exact on every call graph the worker may hand over:   *)
(* the components are the classes of mutual reachability, each after all   *)
(* it calls, and recursive exactly when a member can call itself again     *)
(* (core/callgraph.py, _tarjan_sccs and compute_analysis_order).           *)
THEOREM CalleesFirstHolds == GraphSpec => []CalleesFirst
<1>1. GraphStart => OrderInv
  BY DEF GraphStart, OrderInv, CalleesFirst, NoAnswer
<1>2. OrderInv => CalleesFirst
  BY DEF OrderInv
<1> QED BY <1>1, <1>2, GraphSteps, PTL DEF GraphSpec

=============================================================================
