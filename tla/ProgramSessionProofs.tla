------------------------ MODULE ProgramSessionProofs ------------------------
(***************************************************************************)
(* ProgramInv is invariant, and with it: an export is exactly the          *)
(* session's annotations, a replay that rejects nothing restores the       *)
(* document, and delete_type reaches the session's own composites only.    *)
(* First what the worker's methods make of a program, then one lemma per   *)
(* handler.                                                                *)
(***************************************************************************)
EXTENDS ProgramSession, FiniteSetTheorems, TLAPS

-----------------------------------------------------------------------------
(* Sequences as the sets they enumerate. *)

LEMMA EnumerationExact ==
  ASSUME NEW S, IsFiniteSet(S)
  PROVE  SetToSeq(S) \in Seq(S) /\ ToSet(SetToSeq(S)) = S
<1> DEFINE n == Cardinality(S)
           f == SetToSeq(S)
<1>1. n \in Nat /\ \E g : g \in Bijection(1 .. n, S)
  BY FS_CardinalityType DEF ExistsBijection
<1>2. f \in [1 .. n -> S] /\ IsInjective(f)
  <2>1. PICK g : g \in Bijection(1 .. n, S)
    BY <1>1
  <2>2. g \in [1 .. n -> S] /\ IsInjective(g)
    BY <2>1 DEF Bijection, Injection, IsInjective
  <2> QED
    BY <2>2 DEF SetToSeq
<1> HIDE DEF f
<1>3. f \in Injection(1 .. n, S)
  BY <1>2 DEF Injection, IsInjective
<1>4. Cardinality(1 .. n) = n
  BY <1>1, FS_Interval
<1>5. f \in Surjection(1 .. n, S)
  BY <1>3, <1>4, FS_Injection
<1>6. ToSet(f) = S
  BY <1>2, <1>5 DEF Surjection, ToSet
<1> QED
  BY <1>1, <1>2, <1>6 DEF f

LEMMA ConcatenationSet ==
  ASSUME NEW S, NEW a \in Seq(S), NEW b \in Seq(S)
  PROVE  a \o b \in Seq(S) /\ ToSet(a \o b) = ToSet(a) \cup ToSet(b)
<1>1. a \o b \in Seq(S) /\ Len(a \o b) = Len(a) + Len(b)
  OBVIOUS
<1>2. ASSUME NEW x \in ToSet(a \o b)
      PROVE  x \in ToSet(a) \cup ToSet(b)
  <2>1. PICK i \in 1 .. Len(a) + Len(b) : x = (a \o b)[i]
    BY <1>1, <1>2 DEF ToSet
  <2>2. CASE i <= Len(a)
    BY <2>1, <2>2 DEF ToSet
  <2>3. CASE i > Len(a)
    <3>1. i - Len(a) \in 1 .. Len(b) /\ x = b[i - Len(a)]
      BY <2>1, <2>3
    <3> QED
      BY <3>1 DEF ToSet
  <2> QED
    BY <2>1, <2>2, <2>3
<1>3. ASSUME NEW x \in ToSet(a)
      PROVE  x \in ToSet(a \o b)
  <2>1. PICK i \in 1 .. Len(a) : x = a[i]
    BY DEF ToSet
  <2>2. i \in 1 .. Len(a \o b) /\ x = (a \o b)[i]
    BY <2>1, <1>1
  <2> QED
    BY <1>1, <2>2 DEF ToSet
<1>4. ASSUME NEW x \in ToSet(b)
      PROVE  x \in ToSet(a \o b)
  <2>1. PICK i \in 1 .. Len(b) : x = b[i]
    BY DEF ToSet
  <2>2. Len(a) + i \in 1 .. Len(a \o b) /\ x = (a \o b)[Len(a) + i]
    BY <2>1, <1>1
  <2> QED
    BY <1>1, <2>2 DEF ToSet
<1> QED
  BY <1>1, <1>2, <1>3, <1>4

-----------------------------------------------------------------------------
(* Programs. *)

(* q has the annotations of p that the log is about. *)
SameAnnotations(p, q) ==
  /\ q \in Program /\ q.binary = p.binary
  /\ \A n \in Composites : q.origin[n] = "user" <=> p.origin[n] = "user"
  /\ \A s \in Slots : q.text[s] = "user" <=> p.text[s] = "user"

(* The composites that analysis or an archive brought in are still there. *)
BroughtKept(p, q) ==
  \A n \in Composites : p.origin[n] \in {"auto", "archive"} => q.origin[n] = p.origin[n]

(* What p shows of a document q shows too. *)
EntriesKept(p, q) ==
  /\ \A n \in Composites : p.origin[n] = "user" => q.origin[n] = "user" /\ q.members[n] = p.members[n]
  /\ \A f \in Functions : p.sig[f] = "user" => q.sig[f] = "user"
  /\ \A f \in Functions : p.named[f] = "user" => q.named[f] = "user"
  /\ \A s \in Slots : p.text[s] = "user" => q.text[s] = "user"

LEMMA EntriesKeptHold ==
  ASSUME NEW p, NEW q, EntriesKept(p, q), NEW entry \in Entry, Holds(p, entry)
  PROVE  Holds(q, entry)
<1>1. CASE entry.kind = "types"
  <2>1. DOMAIN entry.fields \subseteq Composites
    BY <1>1 DEF Entry
  <2> QED
    BY <1>1, <2>1 DEF Holds, EntriesKept
<1>2. CASE entry.kind \in {"signature", "rename"}
  <2>1. entry.on \in Functions
    BY <1>2 DEF Entry
  <2> QED
    BY <1>2, <2>1 DEF Holds, EntriesKept
<1>3. CASE entry.kind = "comment"
  <2>1. entry.on \in Slots
    BY <1>3 DEF Entry
  <2> QED
    BY <1>3, <2>1 DEF Holds, EntriesKept
<1>4. entry.kind \in {"types", "signature", "rename", "comment"}
  BY DEF Entry
<1> QED
  BY <1>1, <1>2, <1>3, <1>4

LEMMA LoadedProgram ==
  ASSUME NEW b \in Binaries \cup {NoBinary}
  PROVE  /\ Loaded(b) \in Program /\ Loaded(b).binary = b
         /\ \A n \in Composites : Loaded(b).origin[n] = "none"
         /\ \A s \in Slots : Loaded(b).text[s] = "none"
  BY DEF Loaded, Program

LEMMA AnalyzedProgram ==
  ASSUME NEW p \in Program
  PROVE  SameAnnotations(p, Analyzed(p)) /\ BroughtKept(p, Analyzed(p))
  BY DEF Program, Analyzed, SameAnnotations, BroughtKept

LEMMA RenamedProgram ==
  ASSUME NEW p \in Program, NEW f \in Functions
  PROVE  LET q == [p EXCEPT !.named[f] = "user"]
         IN /\ SameAnnotations(p, q) /\ BroughtKept(p, q) /\ EntriesKept(p, q)
            /\ q.named[f] = "user"
  BY DEF Program, SameAnnotations, BroughtKept, EntriesKept

LEMMA SignedProgram ==
  ASSUME NEW p \in Program, NEW f \in Functions
  PROVE  LET q == [p EXCEPT !.sig[f] = "user"]
         IN /\ SameAnnotations(p, q) /\ BroughtKept(p, q) /\ EntriesKept(p, q)
            /\ q.sig[f] = "user"
  BY DEF Program, SameAnnotations, BroughtKept, EntriesKept

LEMMA ArchivedProgram ==
  ASSUME NEW p \in Program
  PROVE  LET q == [p EXCEPT !.origin = [n \in Composites |->
                     IF n \in ArchiveTypes /\ @[n] = "none" THEN "archive" ELSE @[n]]]
         IN SameAnnotations(p, q) /\ BroughtKept(p, q)
  BY DEF Program, SameAnnotations, BroughtKept

LEMMA CommentedProgram ==
  ASSUME NEW p \in Program, NEW s \in Slots, NEW value \in {"user", "none"},
         NEW q, q = [p EXCEPT !.text[s] = value]
  PROVE  /\ q \in Program /\ q.binary = p.binary /\ q.origin = p.origin
         /\ q.text[s] = value /\ \A t \in Slots : t # s => q.text[t] = p.text[t]
         /\ BroughtKept(p, q)
         /\ value = "user" => EntriesKept(p, q)
  BY DEF Program, BroughtKept, EntriesKept

(* q is p with the composites of a batch, all of them new. *)
Extends(p, q, fields, who) ==
  /\ q \in Program /\ q.binary = p.binary /\ q.text = p.text
  /\ \A n \in DOMAIN fields : q.origin[n] = who /\ q.members[n] = fields[n]
  /\ \A n \in Composites \ DOMAIN fields : q.origin[n] = p.origin[n]
  /\ BroughtKept(p, q) /\ EntriesKept(p, q)

LEMMA TypedProgram ==
  ASSUME NEW p \in Program, NEW names \in SUBSET Composites,
         NEW fields \in [names -> SUBSET MemberNames], NEW who \in {"user", "partial"},
         names \cap Types(p) = {}
  PROVE  Extends(p, WithTypes(p, fields, who), fields, who)
  BY DEF Extends, Program, Types, WithTypes, BroughtKept, EntriesKept

LEMMA ReducedProgram ==
  ASSUME NEW p \in Program, NEW n \in Composites
  PROVE  LET q == Without(p, n)
         IN /\ q \in Program /\ q.binary = p.binary /\ q.text = p.text
            /\ q.origin[n] = "none"
            /\ \A m \in Composites : m # n => q.origin[m] = p.origin[m]
  BY DEF Program, Without

-----------------------------------------------------------------------------
(* What a write and its record keep, whichever handler makes them. *)
Written ==
  /\ prog' \in Program /\ undo' \in Seq(Program) /\ digest' = digest
  /\ comments' \subseteq Slots /\ types' \subseteq Composites
  /\ prog'.binary = prog.binary /\ (Open \/ prog' = prog)
  /\ clean' => /\ clean
               /\ types' = {n \in Composites : prog'.origin[n] = "user"}
               /\ comments' = {s \in Slots : prog'.text[s] = "user"}
  /\ clean => BroughtKept(prog, prog')

LEMMA Transaction ==
  ASSUME ProgramTypeOK, NEW ok \in BOOLEAN, NEW p \in Program, InTransaction(p, ok)
  PROVE  /\ Open /\ prog' \in Program /\ undo' \in Seq(Program)
         /\ ok => prog' = p
         /\ ~ok => prog' = prog
<1>1. prog \in Program /\ undo \in Seq(Program)
  BY DEF ProgramTypeOK
<1>2. CASE ok
  <2>1. Open /\ prog' = p /\ undo' = Append(undo, prog)
    BY <1>2 DEF InTransaction
  <2> QED
    BY <1>1, <1>2, <2>1
<1>3. CASE ~ok
  <2>1. Open /\ prog' = prog /\ undo' = undo
    BY <1>3 DEF InTransaction
  <2> QED
    BY <1>1, <1>3, <2>1
<1> QED
  BY <1>2, <1>3

LEMMA AnnotationsSame ==
  ASSUME ProgramInv, NEW ok \in BOOLEAN, NEW q, SameAnnotations(prog, q), BroughtKept(prog, q),
         InTransaction(q, ok), UNCHANGED <<digest, comments, types, clean>>
  PROVE  Written
<1>1. /\ Open /\ prog' \in Program /\ undo' \in Seq(Program)
      /\ prog' = q \/ prog' = prog
  BY Transaction DEF ProgramInv, SameAnnotations
<1>2. SameAnnotations(prog, prog') /\ BroughtKept(prog, prog')
  BY <1>1 DEF SameAnnotations, BroughtKept
<1>3. comments' \subseteq Slots /\ types' \subseteq Composites
  BY DEF ProgramInv, ProgramTypeOK
<1>4. ASSUME clean'
      PROVE  /\ clean
             /\ types' = {n \in Composites : prog'.origin[n] = "user"}
             /\ comments' = {s \in Slots : prog'.text[s] = "user"}
  <2>1. clean /\ LogExact
    BY <1>4 DEF ProgramInv
  <2>2. types' = types /\ comments' = comments
    OBVIOUS
  <2>3. types = {n \in Composites : prog'.origin[n] = "user"}
    BY <2>1, <1>2 DEF LogExact, SameAnnotations
  <2>4. comments = {s \in Slots : prog'.text[s] = "user"}
    BY <2>1, <1>2 DEF LogExact, SameAnnotations
  <2> QED
    BY <2>1, <2>2, <2>3, <2>4
<1>5. prog'.binary = prog.binary /\ digest' = digest
  BY <1>2 DEF SameAnnotations
<1> QED
  BY <1>1, <1>2, <1>3, <1>4, <1>5 DEF Written

(* rename_function, also as an entry of a replay. *)
LEMMA RenameWritten ==
  ASSUME ProgramInv, NEW f \in Functions, NEW ok \in BOOLEAN, DoRename(f, ok)
  PROVE  Written /\ (ok => EntriesKept(prog, prog') /\ prog'.named[f] = "user")
<1> DEFINE q == [prog EXCEPT !.named[f] = "user"]
<1>1. /\ SameAnnotations(prog, q) /\ BroughtKept(prog, q) /\ EntriesKept(prog, q)
      /\ q.named[f] = "user"
  BY RenamedProgram DEF ProgramInv, ProgramTypeOK
<1>2. InTransaction(q, ok) /\ UNCHANGED <<digest, comments, types, clean>>
  BY DEF DoRename, GhRenameFunction, logVars
<1> HIDE DEF q
<1>3. ok => prog' = q
  BY <1>1, <1>2, Transaction DEF ProgramInv, SameAnnotations
<1> QED
  BY <1>1, <1>2, <1>3, AnnotationsSame

(* set_function_signature, also as an entry of a replay. *)
LEMMA SignatureWritten ==
  ASSUME ProgramInv, NEW f \in Functions, NEW member, NEW ok \in BOOLEAN,
         DoSignature(f, member, ok)
  PROVE  Written /\ (ok => EntriesKept(prog, prog') /\ prog'.sig[f] = "user")
<1> DEFINE q == [prog EXCEPT !.sig[f] = "user"]
<1>1. /\ SameAnnotations(prog, q) /\ BroughtKept(prog, q) /\ EntriesKept(prog, q)
      /\ q.sig[f] = "user"
  BY SignedProgram DEF ProgramInv, ProgramTypeOK
<1>2. InTransaction(q, ok) /\ UNCHANGED <<digest, comments, types, clean>>
  BY DEF DoSignature, GhSetFunctionSignature, logVars
<1> HIDE DEF q
<1>3. ok => prog' = q
  BY <1>1, <1>2, Transaction DEF ProgramInv, SameAnnotations
<1> QED
  BY <1>1, <1>2, <1>3, AnnotationsSame

(* A log with room takes the slot. *)
LEMMA SlotRecorded ==
  ASSUME ProgramTypeOK, NEW s \in Slots, Cardinality(comments \cup {s}) <= MaxTargets,
         RecordCommentTarget(s, FALSE)
  PROVE  comments' = comments \cup {s}
<1>1. IsFiniteSet(comments)
  BY FS_Subset, ProgramConstants DEF ProgramTypeOK
<1>2. CASE s \in comments
  BY <1>2 DEF RecordCommentTarget
<1>3. CASE s \notin comments
  <2>1. Cardinality(comments) \in Nat /\ Cardinality(comments \cup {s}) = Cardinality(comments) + 1
    BY <1>1, <1>3, FS_AddElement, FS_CardinalityType
  <2>2. ~Full(comments)
    BY <2>1, ProgramConstants DEF Full
  <2> QED
    BY <1>3, <2>2 DEF RecordCommentTarget
<1> QED
  BY <1>2, <1>3

(* set_comment, also as an entry of a replay. *)
LEMMA CommentWritten ==
  ASSUME ProgramInv, NEW s \in Slots, NEW value \in {"user", "none"}, NEW ok \in BOOLEAN,
         DoComment(s, value, ok)
  PROVE  Written /\ (ok /\ value = "user" => EntriesKept(prog, prog') /\ prog'.text[s] = "user")
<1> DEFINE q == [prog EXCEPT !.text[s] = value]
<1>1. /\ q \in Program /\ q.binary = prog.binary /\ q.origin = prog.origin
      /\ q.text[s] = value /\ \A t \in Slots : t # s => q.text[t] = prog.text[t]
      /\ BroughtKept(prog, q)
      /\ value = "user" => EntriesKept(prog, q)
  <2>1. prog \in Program
    BY DEF ProgramInv, ProgramTypeOK
  <2>2. q = [prog EXCEPT !.text[s] = value]
    OBVIOUS
  <2> HIDE DEF q
  <2> QED
    BY <2>1, <2>2, CommentedProgram
<1>2. InTransaction(q, ok) /\ UNCHANGED <<digest, types>>
  BY DEF DoComment, GhSetComment
<1> HIDE DEF q
<1>3. /\ Open /\ prog' \in Program /\ undo' \in Seq(Program)
      /\ ok => prog' = q
      /\ ~ok => prog' = prog
  BY <1>1, <1>2, Transaction DEF ProgramInv
<1>4. prog'.binary = prog.binary /\ prog'.origin = prog.origin /\ BroughtKept(prog, prog')
  BY <1>1, <1>3 DEF BroughtKept
<1>5. types \subseteq Composites /\ comments \subseteq Slots
  BY DEF ProgramInv, ProgramTypeOK
<1>6. comments' \subseteq Slots
  BY <1>5 DEF DoComment, RecordCommentTarget
<1>7. clean' => clean /\ (ok /\ value # "none" => Cardinality(comments \cup {s}) <= MaxTargets)
  BY DEF DoComment
<1>8. ASSUME clean'
      PROVE  comments' = {t \in Slots : prog'.text[t] = "user"}
  <2>1. comments = {t \in Slots : prog.text[t] = "user"}
    BY <1>7, <1>8 DEF ProgramInv, LogExact
  <2>2. CASE ~ok
    <3>1. comments' = comments
      BY <2>2 DEF DoComment
    <3> QED
      BY <1>3, <2>1, <2>2, <3>1
  <2>3. CASE ok /\ value = "none"
    <3>1. comments' = comments \ {s}
      BY <2>3 DEF DoComment, RecordCommentTarget
    <3>2. prog'.text[s] = "none" /\ \A t \in Slots : t # s => prog'.text[t] = prog.text[t]
      BY <1>1, <1>3, <2>3
    <3> QED
      BY <2>1, <3>1, <3>2
  <2>4. CASE ok /\ value = "user"
    <3>1. RecordCommentTarget(s, FALSE)
      BY <2>4 DEF DoComment
    <3>2. comments' = comments \cup {s}
      BY <1>7, <1>8, <2>4, <3>1, SlotRecorded DEF ProgramInv
    <3>3. prog'.text[s] = "user" /\ \A t \in Slots : t # s => prog'.text[t] = prog.text[t]
      BY <1>1, <1>3, <2>4
    <3> QED
      BY <2>1, <3>2, <3>3
  <2> QED
    BY <2>2, <2>3, <2>4
<1>9. ASSUME clean'
      PROVE  types' = {n \in Composites : prog'.origin[n] = "user"}
  <2>1. types = {n \in Composites : prog.origin[n] = "user"}
    BY <1>7, <1>9 DEF ProgramInv, LogExact
  <2> QED
    BY <1>2, <1>4, <2>1
<1>10. Written
  BY <1>2, <1>3, <1>4, <1>5, <1>6, <1>7, <1>8, <1>9 DEF Written
<1> QED
  BY <1>1, <1>3, <1>10

(* A log with room takes every name of a batch. *)
LEMMA NamesRecorded ==
  ASSUME ProgramTypeOK, NEW names \in SUBSET Composites, RecordAll(names)
  PROVE  types' \subseteq Composites /\ (~Overflows(names) => types' = types \cup names)
<1>1. types \subseteq Composites
  BY DEF ProgramTypeOK
<1>2. PICK kept \in SUBSET (names \ types) :
        types' = types \cup kept /\ (kept = names \ types \/ Full(types \cup kept))
  BY DEF RecordAll
<1>3. ASSUME ~Overflows(names)
      PROVE  types' = types \cup names
  <2> DEFINE all == types \cup names
             got == types \cup kept
  <2>1. IsFiniteSet(all) /\ got \in SUBSET all
    BY <1>1, FS_Subset, ProgramConstants
  <2>2. /\ Cardinality(all) \in Nat /\ Cardinality(got) \in Nat
        /\ Cardinality(got) <= Cardinality(all)
        /\ Cardinality(all) = Cardinality(got) => all = got
    BY <2>1, FS_Subset, FS_CardinalityType
  <2>3. Cardinality(all) <= MaxTargets
    BY <1>3, <2>2, ProgramConstants DEF Overflows
  <2>4. CASE kept = names \ types
    BY <1>2, <2>4
  <2>5. CASE Full(got)
    <3>1. Cardinality(got) >= MaxTargets
      BY <2>5 DEF Full
    <3> HIDE DEF all, got
    <3>2. all = got
      BY <2>2, <2>3, <3>1, ProgramConstants
    <3> QED
      BY <1>2, <3>2 DEF all, got
  <2> QED
    BY <1>2, <2>4, <2>5
<1> QED
  BY <1>1, <1>2, <1>3

LEMMA NameRecorded ==
  ASSUME ProgramTypeOK, NEW n \in Composites, RecordCompositeTarget(n)
  PROVE  types' \subseteq Composites /\ (~Overflows({n}) => types' = types \cup {n})
<1>1. types \subseteq Composites /\ IsFiniteSet(types)
  BY FS_Subset, ProgramConstants DEF ProgramTypeOK
<1>2. CASE n \in types
  BY <1>1, <1>2 DEF RecordCompositeTarget
<1>3. CASE n \notin types
  <2>1. Cardinality(types) \in Nat /\ Cardinality(types \cup {n}) = Cardinality(types) + 1
    BY <1>1, <1>3, FS_AddElement, FS_CardinalityType
  <2>2. ~Overflows({n}) => ~Full(types)
    BY <2>1, ProgramConstants DEF Full, Overflows
  <2> QED
    BY <1>1, <1>3, <2>2 DEF RecordCompositeTarget
<1> QED
  BY <1>2, <1>3

(* A batch of composites: committed, or left half made.  What is recorded  *)
(* is the caller's part.                                                   *)
LEMMA BatchWritten ==
  ASSUME ProgramInv, NEW names \in SUBSET Composites, NEW fields \in [names -> SUBSET MemberNames],
         NEW ok \in BOOLEAN, GhDefineTypes(fields, ok), UNCHANGED comments,
         ok => types' \subseteq Composites /\ (~Overflows(names) => types' = types \cup names),
         ~ok => types' = types,
         clean' => clean /\ (ok => ~Overflows(names))
  PROVE  /\ Written
         /\ ok => /\ EntriesKept(prog, prog')
                  /\ \A n \in names : prog'.origin[n] = "user" /\ prog'.members[n] = fields[n]
<1>0. /\ prog \in Program /\ undo \in Seq(Program)
      /\ types \subseteq Composites /\ comments \subseteq Slots
  BY DEF ProgramInv, ProgramTypeOK
<1>1. Open /\ names \cap Types(prog) = {} /\ digest' = digest
  BY DEF GhDefineTypes, BatchOk
<1>2. CASE ok
  <2> DEFINE q == WithTypes(prog, fields, "user")
  <2>1. /\ q \in Program /\ q.binary = prog.binary /\ q.text = prog.text
        /\ \A n \in names : q.origin[n] = "user" /\ q.members[n] = fields[n]
        /\ \A n \in Composites \ names : q.origin[n] = prog.origin[n]
        /\ BroughtKept(prog, q) /\ EntriesKept(prog, q)
    <3>1. Extends(prog, q, fields, "user")
      BY <1>0, <1>1, TypedProgram
    <3> HIDE DEF q
    <3> QED
      BY <3>1 DEF Extends
  <2>2. InTransaction(q, TRUE)
    BY <1>2 DEF GhDefineTypes
  <2> HIDE DEF q
  <2>3. prog' = q /\ undo' \in Seq(Program)
    BY <2>1, <2>2, Transaction DEF ProgramInv
  <2>4. ASSUME clean'
        PROVE  /\ types' = {n \in Composites : q.origin[n] = "user"}
               /\ comments' = {s \in Slots : q.text[s] = "user"}
    <3>1. /\ types = {n \in Composites : prog.origin[n] = "user"}
          /\ comments = {s \in Slots : prog.text[s] = "user"}
      BY <2>4 DEF ProgramInv, LogExact
    <3>2. types' = types \cup names
      BY <1>2, <2>4
    <3>3. types \cup names = {n \in Composites : q.origin[n] = "user"}
      BY <2>1, <3>1
    <3> QED
      BY <2>1, <3>1, <3>2, <3>3
  <2>5. types' \subseteq Composites
    BY <1>2
  <2> QED
    BY <1>0, <1>1, <2>1, <2>3, <2>4, <2>5 DEF Written
<1>3. CASE ~ok
  <2> DEFINE q == WithTypes(prog, [n \in DOMAIN fields |-> {}], "partial")
  <2>1. /\ q \in Program /\ q.binary = prog.binary /\ q.text = prog.text
        /\ \A n \in names : q.origin[n] = "partial"
        /\ \A n \in Composites \ names : q.origin[n] = prog.origin[n]
        /\ BroughtKept(prog, q)
    <3>1. [n \in DOMAIN fields |-> {}] \in [names -> SUBSET MemberNames]
      OBVIOUS
    <3>2. Extends(prog, q, [n \in DOMAIN fields |-> {}], "partial")
      BY <1>0, <1>1, <3>1, TypedProgram
    <3> HIDE DEF q
    <3> QED
      BY <3>2 DEF Extends
  <2>2. prog' = q /\ undo' = undo
    BY <1>3 DEF GhDefineTypes
  <2> HIDE DEF q
  <2>3. \A n \in names : prog.origin[n] = "none"
    BY <1>1 DEF Types
  <2>4. ASSUME clean'
        PROVE  /\ types' = {n \in Composites : q.origin[n] = "user"}
               /\ comments' = {s \in Slots : q.text[s] = "user"}
    <3>1. /\ types = {n \in Composites : prog.origin[n] = "user"}
          /\ comments = {s \in Slots : prog.text[s] = "user"}
      BY <2>4 DEF ProgramInv, LogExact
    <3>2. types = {n \in Composites : q.origin[n] = "user"}
      BY <2>1, <2>3, <3>1
    <3> QED
      BY <1>3, <2>1, <3>1, <3>2
  <2> QED
    BY <1>0, <1>1, <1>3, <2>1, <2>2, <2>4 DEF Written
<1> QED
  BY <1>2, <1>3

(* define_types, also as an entry of a replay. *)
LEMMA DefineWritten ==
  ASSUME ProgramInv, NEW names \in SUBSET Composites, NEW fields \in [names -> SUBSET MemberNames],
         NEW ok \in BOOLEAN, DoDefine(fields, ok)
  PROVE  /\ Written
         /\ ok => /\ EntriesKept(prog, prog')
                  /\ \A n \in names : prog'.origin[n] = "user" /\ prog'.members[n] = fields[n]
<1>1. GhDefineTypes(fields, ok) /\ UNCHANGED comments
  BY DEF DoDefine
<1>2. clean' => clean /\ (ok => ~Overflows(names))
  BY DEF DoDefine
<1>3. ok => types' \subseteq Composites /\ (~Overflows(names) => types' = types \cup names)
  BY NamesRecorded DEF ProgramInv, DoDefine
<1>4. ~ok => types' = types
  BY DEF DoDefine
<1> QED
  BY <1>1, <1>2, <1>3, <1>4, BatchWritten

(* define_struct and define_union: a batch of one. *)
LEMMA CompositeWritten ==
  ASSUME ProgramInv, NEW n \in Composites, NEW member \in Members, NEW ok \in BOOLEAN,
         DefineStruct(n, member, ok) \/ DefineUnion(n, member, ok)
  PROVE  Written
<1> DEFINE fields == [x \in {n} |-> {member}]
<1>0. fields \in [{n} -> SUBSET MemberNames]
  BY ProgramConstants DEF MemberNames
<1>1. GhDefineTypes(fields, ok) /\ UNCHANGED comments
  BY DEF DefineStruct, DefineUnion, GhDefineStruct, GhDefineUnion
<1>2. clean' => clean /\ (ok => ~Overflows({n}))
  BY DEF DefineStruct, DefineUnion
<1>3. ok => types' \subseteq Composites /\ (~Overflows({n}) => types' = types \cup {n})
  BY NameRecorded DEF ProgramInv, DefineStruct, DefineUnion
<1>4. ~ok => types' = types
  BY DEF DefineStruct, DefineUnion
<1> HIDE DEF fields
<1> QED
  BY <1>0, <1>1, <1>2, <1>3, <1>4, BatchWritten

(* delete_type: only what the log names. *)
LEMMA DeleteWritten ==
  ASSUME ProgramInv, NEW n \in Composites, NEW ok \in BOOLEAN, DeleteType(n, ok)
  PROVE  Written
<1>0. /\ prog \in Program /\ n \in types
      /\ types \subseteq Composites /\ comments \subseteq Slots
  BY DEF ProgramInv, ProgramTypeOK, DeleteType, IsCompositeTarget
<1> DEFINE q == Without(prog, n)
<1>1. /\ q \in Program /\ q.binary = prog.binary /\ q.text = prog.text
      /\ q.origin[n] = "none"
      /\ \A m \in Composites : m # n => q.origin[m] = prog.origin[m]
  BY <1>0, ReducedProgram
<1>2. InTransaction(q, ok) /\ UNCHANGED <<digest, comments, clean>>
  BY DEF DeleteType, GhDeleteType
<1> HIDE DEF q
<1>3. /\ Open /\ prog' \in Program /\ undo' \in Seq(Program)
      /\ ok => prog' = q
      /\ ~ok => prog' = prog
  BY <1>1, <1>2, Transaction DEF ProgramInv
<1>4. (ok => types' = types \ {n}) /\ (~ok => types' = types)
  BY DEF DeleteType, ForgetCompositeTarget
<1>5. ASSUME clean
      PROVE  /\ types' = {m \in Composites : prog'.origin[m] = "user"}
             /\ comments' = {s \in Slots : prog'.text[s] = "user"}
             /\ BroughtKept(prog, prog')
  <2>1. /\ types = {m \in Composites : prog.origin[m] = "user"}
        /\ comments = {s \in Slots : prog.text[s] = "user"}
    BY <1>5 DEF ProgramInv, LogExact
  <2>2. comments' = comments /\ prog'.text = prog.text
    BY <1>1, <1>2, <1>3
  <2>3. CASE ok
    <3>1. types \ {n} = {m \in Composites : q.origin[m] = "user"}
      BY <1>1, <2>1
    <3>2. BroughtKept(prog, q)
      BY <1>0, <1>1, <2>1 DEF BroughtKept
    <3> QED
      BY <1>3, <1>4, <2>1, <2>2, <2>3, <3>1, <3>2
  <2>4. CASE ~ok
    BY <1>3, <1>4, <2>1, <2>2, <2>4 DEF BroughtKept
  <2> QED
    BY <2>3, <2>4
<1>6. types' \subseteq Composites /\ comments' \subseteq Slots
  BY <1>0, <1>2, <1>4
<1>7. prog'.binary = prog.binary /\ digest' = digest /\ (clean' => clean)
  BY <1>1, <1>2, <1>3
<1> QED
  BY <1>3, <1>5, <1>6, <1>7 DEF Written

-----------------------------------------------------------------------------
(* The invariant, step by step.  A step also keeps what analysis and       *)
(* archives brought in, which is what DeletesOwn says of it.               *)
Brought == clean /\ clean' /\ prog'.binary = prog.binary => BroughtKept(prog, prog')

LEMMA WrittenLog ==
  ASSUME ProgramInv, Written, hash' = hash
  PROVE  (clean' => LogExact') /\ Brought
<1>1. ASSUME clean'
      PROVE  LogExact'
  <2>1. LogExact
    BY <1>1 DEF Written, ProgramInv
  <2>2. /\ types' = {n \in Composites : prog'.origin[n] = "user"}
        /\ comments' = {s \in Slots : prog'.text[s] = "user"}
        /\ prog'.binary = prog.binary /\ (Open \/ prog' = prog) /\ digest' = digest
    BY <1>1 DEF Written
  <2> QED
    BY <2>1, <2>2 DEF LogExact, Open
<1> QED
  BY <1>1 DEF Brought, Written

(* A write tool, called by a client. *)
LEMMA CallKeeps ==
  ASSUME ProgramInv, Written, Gated
  PROVE  ProgramInv' /\ Brought
<1>1. replay' = <<>> /\ UNCHANGED <<hash, doc>>
  BY DEF Gated, LoopFree, importVars
<1>2. ProgramTypeOK'
  BY <1>1 DEF ProgramInv, ProgramTypeOK, Written
<1> QED
  BY <1>1, <1>2, WrittenLog DEF ProgramInv

LEMMA WriteCallKeeps ==
  ASSUME ProgramInv, WriteCall
  PROVE  ProgramInv' /\ Brought
<1>0. prog \in Program
  BY DEF ProgramInv, ProgramTypeOK
<1>1. ASSUME NEW ok \in BOOLEAN, NEW f \in Functions, RenameFunction(f, ok)
      PROVE  ProgramInv' /\ Brought
  BY <1>1, RenameWritten, CallKeeps DEF RenameFunction
<1>2. ASSUME NEW ok \in BOOLEAN, RenameLocal(ok)
      PROVE  ProgramInv' /\ Brought
  <2>1. InTransaction(prog, ok) /\ UNCHANGED <<digest, comments, types, clean>> /\ Gated
    BY <1>2 DEF RenameLocal, GhRenameHighVariable, logVars
  <2>2. SameAnnotations(prog, prog) /\ BroughtKept(prog, prog)
    BY <1>0 DEF SameAnnotations, BroughtKept
  <2> QED
    BY <2>1, <2>2, AnnotationsSame, CallKeeps
<1>3. ASSUME NEW ok \in BOOLEAN, NEW f \in Functions, NEW m \in Members,
             SetFunctionSignature(f, m, ok)
      PROVE  ProgramInv' /\ Brought
  BY <1>3, SignatureWritten, CallKeeps DEF SetFunctionSignature
<1>4. ASSUME NEW ok \in BOOLEAN, NEW s \in Slots, NEW value \in {"user", "none"},
             SetComment(s, value, ok)
      PROVE  ProgramInv' /\ Brought
  BY <1>4, CommentWritten, CallKeeps DEF SetComment
<1>5. ASSUME NEW ok \in BOOLEAN, ApplyTypeArchive(ok)
      PROVE  ProgramInv' /\ Brought
  <2> DEFINE q == [prog EXCEPT !.origin = [n \in Composites |->
                     IF n \in ArchiveTypes /\ @[n] = "none" THEN "archive" ELSE @[n]]]
  <2>1. InTransaction(q, ok) /\ UNCHANGED <<digest, comments, types, clean>> /\ Gated
    BY <1>5 DEF ApplyTypeArchive, GhApplyTypeArchive, logVars
  <2>2. SameAnnotations(prog, q) /\ BroughtKept(prog, q)
    BY <1>0, ArchivedProgram
  <2> HIDE DEF q
  <2> QED
    BY <2>1, <2>2, AnnotationsSame, CallKeeps
<1>6. ASSUME NEW ok \in BOOLEAN, NEW n \in Composites, DeleteType(n, ok)
      PROVE  ProgramInv' /\ Brought
  <2>1. Gated
    BY <1>6 DEF DeleteType
  <2> QED
    BY <1>6, <2>1, DeleteWritten, CallKeeps
<1>7. ASSUME NEW ok \in BOOLEAN, NEW n \in Composites, NEW m \in Members,
             DefineStruct(n, m, ok) \/ DefineUnion(n, m, ok)
      PROVE  ProgramInv' /\ Brought
  <2>1. Gated
    BY <1>7 DEF DefineStruct, DefineUnion
  <2> QED
    BY <1>7, <2>1, CompositeWritten, CallKeeps
<1>8. ASSUME NEW ok \in BOOLEAN, DefineTypes([n \in Composites |-> Composites \ {n}], ok)
      PROVE  ProgramInv' /\ Brought
  <2> DEFINE fields == [n \in Composites |-> Composites \ {n}]
  <2>1. fields \in [Composites -> SUBSET MemberNames]
    BY DEF MemberNames
  <2>2. Gated /\ DoDefine(fields, ok)
    BY <1>8 DEF DefineTypes
  <2> HIDE DEF fields
  <2> QED
    BY <2>1, <2>2, DefineWritten, CallKeeps
<1> QED
  BY <1>1, <1>2, <1>3, <1>4, <1>5, <1>6, <1>7, <1>8 DEF WriteCall

(* One entry of a replay: what went before stays, unless it failed. *)
LEMMA ReplayKeeps ==
  ASSUME ProgramInv, Written, NEW fails \in BOOLEAN, ReplayStep(fails),
         ~fails => EntriesKept(prog, prog') /\ Holds(prog', Head(replay))
  PROVE  /\ ProgramInv' /\ Brought
         /\ ~fails /\ ~rejected => \A i \in 1 .. Replayed + 1 : Holds(prog', doc.entries[i])
<1>0. /\ replay \in Seq(Entry) /\ doc.entries \in Seq(Entry)
      /\ doc \in [sha : Binaries \cup {NoBinary}, entries : Seq(Entry)]
  BY DEF ProgramInv, ProgramTypeOK
<1>1. replay # <<>> /\ replay' = Tail(replay) /\ hash' = hash
  BY DEF ReplayStep
<1>2. ReplayExact
  BY <1>1 DEF ProgramInv
<1>3. /\ Len(replay) \in Nat /\ Len(replay) >= 1 /\ Len(doc.entries) \in Nat
      /\ Len(replay) <= Len(doc.entries) /\ Replayed \in Nat
      /\ Replayed + Len(replay) = Len(doc.entries)
  BY <1>0, <1>1, <1>2 DEF ReplayExact, Replayed
<1>4. replay' \in Seq(Entry) /\ Len(replay') = Len(replay) - 1
      /\ \A i \in 1 .. Len(replay') : replay'[i] = replay[i + 1]
  BY <1>0, <1>1
<1>5. Head(replay) = doc.entries[Replayed + 1]
  BY <1>0, <1>2, <1>3 DEF ReplayExact
<1>6. ASSUME ~fails, ~rejected, NEW i \in 1 .. Replayed + 1
      PROVE  Holds(prog', doc.entries[i])
  <2>1. CASE i = Replayed + 1
    BY <1>5, <1>6, <2>1
  <2>2. CASE i \in 1 .. Replayed
    <3>1. Holds(prog, doc.entries[i]) /\ doc.entries[i] \in Entry
      BY <1>0, <1>2, <1>3, <1>6, <2>2 DEF ReplayExact
    <3> QED
      BY <1>6, <3>1, EntriesKeptHold
  <2> QED
    BY <1>3, <2>1, <2>2
<1>7. NoDoc \in [sha : Binaries \cup {NoBinary}, entries : Seq(Entry)]
  BY DEF NoDoc
<1>8. doc' \in [sha : Binaries \cup {NoBinary}, entries : Seq(Entry)]
  BY <1>0, <1>7 DEF ReplayStep
<1>9. ProgramTypeOK'
  BY <1>1, <1>4, <1>8 DEF ProgramInv, ProgramTypeOK, Written
<1>10. ASSUME replay' # <<>>
       PROVE  ReplayExact'
  <2>1. Len(replay) > 1
    BY <1>0, <1>1, <1>3, <1>4, <1>10
  <2>2. doc' = doc
    BY <1>3, <2>1 DEF ReplayStep
  <2>3. Replayed' = Replayed + 1
    BY <1>3, <1>4, <2>2 DEF Replayed
  <2>4. ASSUME NEW i \in 1 .. Len(replay')
        PROVE  replay'[i] = doc.entries[Replayed + 1 + i]
    <3>1. i + 1 \in 1 .. Len(replay) /\ replay'[i] = replay[i + 1]
      BY <1>3, <1>4, <2>4
    <3>2. replay[i + 1] = doc.entries[Replayed + (i + 1)]
      BY <1>2, <3>1 DEF ReplayExact
    <3>3. Replayed + (i + 1) = Replayed + 1 + i
      BY <1>3, <2>4
    <3> QED
      BY <3>1, <3>2, <3>3
  <2>5. ~rejected' => ~rejected /\ ~fails
    BY <2>1 DEF ReplayStep
  <2>6. Len(replay') <= Len(doc'.entries)
    BY <1>3, <1>4, <2>2
  <2>7. ~rejected' => \A i \in 1 .. Replayed' : Holds(prog', doc'.entries[i])
    BY <1>6, <2>2, <2>3, <2>5
  <2>8. \A i \in 1 .. Len(replay') : replay'[i] = doc'.entries[Replayed' + i]
    BY <2>2, <2>3, <2>4
  <2> QED
    BY <2>6, <2>7, <2>8 DEF ReplayExact
<1> QED
  BY <1>1, <1>6, <1>9, <1>10, WrittenLog DEF ProgramInv

LEMMA ReplayEntryKeeps ==
  ASSUME ProgramInv, NEW ok \in BOOLEAN, ReplayEntry(ok)
  PROVE  /\ ProgramInv' /\ Brought
         /\ ok /\ ~rejected => \A i \in 1 .. Replayed + 1 : Holds(prog', doc.entries[i])
<1> DEFINE entry == Head(replay)
<1>0. entry \in Entry
  BY DEF ProgramInv, ProgramTypeOK, ReplayEntry, ReplayStep
<1>1. ReplayWrite(entry, ok)
  BY DEF ReplayEntry
<1> HIDE DEF entry
<1>2. CASE entry.kind = "types"
  <2>1. PICK names \in SUBSET Composites : entry.fields \in [names -> SUBSET MemberNames]
    BY <1>0, <1>2 DEF Entry
  <2>2. DoDefine(entry.fields, ok)
    BY <1>1, <1>2 DEF ReplayWrite
  <2>3. /\ Written
        /\ ok => /\ EntriesKept(prog, prog')
                 /\ \A n \in names : prog'.origin[n] = "user" /\ prog'.members[n] = entry.fields[n]
    BY <2>1, <2>2, DefineWritten
  <2>4. DOMAIN entry.fields = names
    BY <2>1
  <2>5. ok => Holds(prog', entry)
    BY <1>2, <2>3, <2>4 DEF Holds
  <2> QED
    BY <2>3, <2>5, ReplayKeeps DEF ReplayEntry, entry
<1>3. CASE entry.kind = "signature"
  <2>1. entry.on \in Functions
    BY <1>0, <1>3 DEF Entry
  <2>2. DoSignature(entry.on, "int", ok)
    BY <1>1, <1>3 DEF ReplayWrite
  <2>3. Written /\ (ok => EntriesKept(prog, prog') /\ prog'.sig[entry.on] = "user")
    BY <2>1, <2>2, SignatureWritten
  <2>4. ok => Holds(prog', entry)
    BY <1>3, <2>3 DEF Holds
  <2> QED
    BY <2>3, <2>4, ReplayKeeps DEF ReplayEntry, entry
<1>4. CASE entry.kind = "rename"
  <2>1. entry.on \in Functions
    BY <1>0, <1>4 DEF Entry
  <2>2. DoRename(entry.on, ok)
    BY <1>1, <1>4 DEF ReplayWrite
  <2>3. Written /\ (ok => EntriesKept(prog, prog') /\ prog'.named[entry.on] = "user")
    BY <2>1, <2>2, RenameWritten
  <2>4. ok => Holds(prog', entry)
    BY <1>4, <2>3 DEF Holds
  <2> QED
    BY <2>3, <2>4, ReplayKeeps DEF ReplayEntry, entry
<1>5. CASE entry.kind = "comment"
  <2>1. entry.on \in Slots
    BY <1>0, <1>5 DEF Entry
  <2>2. DoComment(entry.on, "user", ok)
    BY <1>1, <1>5 DEF ReplayWrite
  <2>3. Written /\ (ok => EntriesKept(prog, prog') /\ prog'.text[entry.on] = "user")
    BY <2>1, <2>2, CommentWritten
  <2>4. ok => Holds(prog', entry)
    BY <1>5, <2>3 DEF Holds
  <2> QED
    BY <2>3, <2>4, ReplayKeeps DEF ReplayEntry, entry
<1>6. entry.kind \in {"types", "signature", "rename", "comment"}
  BY <1>0 DEF Entry
<1> QED
  BY <1>2, <1>3, <1>4, <1>5, <1>6

LEMMA ReplayRefusedKeeps ==
  ASSUME ProgramInv, ReplayRefused
  PROVE  ProgramInv' /\ Brought
<1>1. UNCHANGED <<prog, undo, digest, comments, types, clean>> /\ ReplayStep(TRUE)
  BY DEF ReplayRefused, workerVars, logVars
<1>2. Written
  BY <1>1 DEF Written, ProgramInv, ProgramTypeOK, LogExact, BroughtKept
<1> QED
  BY <1>1, <1>2, ReplayKeeps

(* The handlers that touch no program. *)
LEMMA ConsentKeeps ==
  ASSUME ProgramInv, SessionDisableWrites \/ \E structural \in BOOLEAN : SessionEnableWrites(structural)
  PROVE  ProgramInv' /\ Brought
<1>1. /\ UNCHANGED <<prog, undo, digest, comments, types, clean, hash, doc>>
      /\ UNCHANGED <<replay, rejected>>
  BY DEF SessionDisableWrites, SessionEnableWrites, workerVars, logVars, importVars
<1> QED
  BY <1>1 DEF ProgramInv, ProgramTypeOK, LogExact, Open, ReplayExact, Replayed, Brought, BroughtKept

(* session_import: the log stays, so a second program ends clean. *)
LEMMA ImportKeeps ==
  ASSUME ProgramInv, NEW b \in Binaries, NEW step \in ImportSteps, SessionImport(b, step)
  PROVE  ProgramInv' /\ Brought
<1>0. /\ prog \in Program /\ undo \in Seq(Program) /\ b # NoBinary
      /\ Loaded(b) \in Program /\ Loaded(b).binary = b
      /\ \A n \in Composites : Loaded(b).origin[n] = "none"
      /\ \A s \in Slots : Loaded(b).text[s] = "none"
  BY LoadedProgram, ProgramConstants DEF ProgramInv, ProgramTypeOK
<1>1. replay' = <<>> /\ UNCHANGED <<comments, types, doc>> /\ digest' = b
  BY DEF SessionImport, LoopFree, importVars, logVars, GhImport
<1>2. clean' => clean /\ ~Open
  BY DEF SessionImport
<1>3. clean' => types = {} /\ comments = {} /\ hash = NoBinary /\ prog = NoProgram
  <2> SUFFICES ASSUME clean'
               PROVE  types = {} /\ comments = {} /\ hash = NoBinary /\ prog = NoProgram
    OBVIOUS
  <2>1. LogExact /\ prog = NoProgram /\ hash = NoBinary
    BY <1>2 DEF ProgramInv, LogExact
  <2>2. /\ \A n \in Composites : prog.origin[n] = "none"
        /\ \A s \in Slots : prog.text[s] = "none"
    BY <2>1, LoadedProgram DEF NoProgram
  <2>3. types = {}
    BY <2>1, <2>2 DEF LogExact
  <2>4. comments = {}
    BY <2>1, <2>2 DEF LogExact
  <2> QED
    BY <2>1, <2>3, <2>4
<1>4. CASE step = "open_failed"
  <2>1. UNCHANGED <<prog, undo, hash>>
    BY <1>4 DEF SessionImport, GhImport, OpenProgram
  <2>2. ProgramTypeOK'
    BY <1>1, <2>1 DEF ProgramInv, ProgramTypeOK
  <2>3. clean' => LogExact'
    BY <1>1, <1>2, <2>1 DEF ProgramInv, LogExact, Open
  <2> QED
    BY <1>1, <2>1, <2>2, <2>3 DEF ProgramInv, Brought, BroughtKept
<1>5. CASE step # "open_failed"
  <2>1. prog' = Loaded(b) /\ (undo' = <<>> \/ undo' = <<Loaded(b)>>) /\ (hash' = b \/ hash' = hash)
    <3>1. /\ step \in {"opened", "layout_failed", "laid_out"}
          /\ hash' = b \/ hash' = hash
      BY <1>5 DEF ImportSteps, SessionImport, RecordBinaryHash
    <3>2. CASE step = "opened"
      BY <3>1, <3>2 DEF SessionImport, GhImport, OpenProgram
    <3>3. CASE step = "layout_failed"
      BY <3>1, <3>3 DEF SessionImport, GhImport, OpenAndLayOut
    <3>4. CASE step = "laid_out"
      BY <3>1, <3>4 DEF SessionImport, GhImport, OpenAndLayOut
    <3> QED
      BY <3>1, <3>2, <3>3, <3>4
  <2>2. ProgramTypeOK'
    <3>1. undo' \in Seq(Program) /\ prog' \in Program
      <4> DEFINE q == Loaded(b)
      <4>1. q \in Program /\ prog' = q /\ (undo' = <<>> \/ undo' = <<q>>)
        BY <1>0, <2>1
      <4> HIDE DEF q
      <4>2. <<>> \in Seq(Program) /\ <<q>> \in Seq(Program)
        BY <4>1
      <4> QED
        BY <4>1, <4>2, Zenon
    <3>2. hash' \in Binaries \cup {NoBinary}
      BY <2>1 DEF ProgramInv, ProgramTypeOK
    <3> QED
      BY <1>1, <3>1, <3>2 DEF ProgramInv, ProgramTypeOK
  <2>3. prog'.binary = b /\ Open'
    BY <1>0, <2>1 DEF Open
  <2>4. ASSUME clean'
        PROVE  LogExact'
    <3>1. types' = {n \in Composites : prog'.origin[n] = "user"}
      BY <1>0, <1>1, <1>3, <2>1, <2>4
    <3>2. comments' = {s \in Slots : prog'.text[s] = "user"}
      BY <1>0, <1>1, <1>3, <2>1, <2>4
    <3>3. prog'.binary = IF hash' = NoBinary THEN digest' ELSE hash'
      BY <1>0, <1>1, <1>3, <2>1, <2>3, <2>4
    <3> QED
      BY <2>3, <3>1, <3>2, <3>3 DEF LogExact
  <2>5. Brought
    BY <1>0, <1>2, <2>3 DEF Brought, Open
  <2> QED
    BY <1>1, <2>2, <2>4, <2>5 DEF ProgramInv
<1> QED
  BY <1>4, <1>5

LEMMA AnalyzeKeeps ==
  ASSUME ProgramInv, NEW ok \in BOOLEAN, SessionAnalyze(ok)
  PROVE  ProgramInv' /\ Brought
<1>0. /\ prog \in Program /\ undo \in Seq(Program)
      /\ types \subseteq Composites /\ comments \subseteq Slots
  BY DEF ProgramInv, ProgramTypeOK
<1>1. /\ Gated /\ Open /\ UNCHANGED <<digest, comments, types, clean>>
      /\ prog' = Analyzed(prog) \/ prog' = prog
      /\ undo' = Append(undo, prog)
  BY DEF SessionAnalyze, GhAnalyze, logVars
<1>2. SameAnnotations(prog, prog') /\ BroughtKept(prog, prog')
  BY <1>0, <1>1, AnalyzedProgram DEF SameAnnotations, BroughtKept
<1>3. ASSUME clean'
      PROVE  /\ clean
             /\ types' = {n \in Composites : prog'.origin[n] = "user"}
             /\ comments' = {s \in Slots : prog'.text[s] = "user"}
  <2>1. clean /\ LogExact
    BY <1>1, <1>3 DEF ProgramInv
  <2>2. types = {n \in Composites : prog'.origin[n] = "user"}
    BY <2>1, <1>2 DEF LogExact, SameAnnotations
  <2>3. comments = {s \in Slots : prog'.text[s] = "user"}
    BY <2>1, <1>2 DEF LogExact, SameAnnotations
  <2> QED
    BY <1>1, <2>1, <2>2, <2>3
<1>4. undo' \in Seq(Program)
  BY <1>0, <1>1
<1>5. Written
  BY <1>0, <1>1, <1>2, <1>3, <1>4 DEF Written, SameAnnotations
<1> QED
  BY <1>1, <1>5, CallKeeps

(* session_undo: the log is not told. *)
LEMMA UndoKeeps ==
  ASSUME ProgramInv, SessionUndo
  PROVE  ProgramInv' /\ Brought
<1>0. undo \in Seq(Program) /\ undo # <<>>
  BY DEF ProgramInv, ProgramTypeOK, SessionUndo, GhUndo
<1>1. /\ prog' = undo[Len(undo)] /\ undo' = SubSeq(undo, 1, Len(undo) - 1)
      /\ UNCHANGED <<digest, comments, types, hash, doc>> /\ replay' = <<>> /\ ~clean'
  BY DEF SessionUndo, GhUndo, Gated, LoopFree, importVars, logVars, Last, Front
<1>2. prog' \in Program /\ undo' \in Seq(Program)
  BY <1>0, <1>1
<1> QED
  BY <1>1, <1>2 DEF ProgramInv, ProgramTypeOK, Brought

LEMMA ImportAnnotationsKeeps ==
  ASSUME ProgramInv, SessionImportAnnotations
  PROVE  ProgramInv' /\ Brought
<1>1. /\ UNCHANGED <<prog, undo, digest, comments, types, hash, doc, clean>>
      /\ replay' = doc.entries /\ ~rejected'
  BY DEF SessionImportAnnotations, workerVars, logVars
<1>2. doc.entries \in Seq(Entry) /\ Len(doc.entries) \in Nat
  BY DEF ProgramInv, ProgramTypeOK
<1>3. Replayed' = 0
  BY <1>1, <1>2 DEF Replayed
<1>4. ReplayExact'
  BY <1>1, <1>2, <1>3 DEF ReplayExact
<1>5. ProgramTypeOK'
  BY <1>1, <1>2 DEF ProgramInv, ProgramTypeOK
<1>6. clean' => LogExact'
  BY <1>1 DEF ProgramInv, LogExact, Open
<1> QED
  BY <1>1, <1>4, <1>5, <1>6 DEF ProgramInv, Brought, BroughtKept

LEMMA NewSessionKeeps ==
  ASSUME ProgramInv, NewSession
  PROVE  ProgramInv' /\ Brought
<1>1. /\ prog' = NoProgram /\ undo' = <<>> /\ digest' = NoBinary /\ hash' = NoBinary
      /\ comments' = {} /\ types' = {} /\ doc' = doc /\ replay' = <<>> /\ Open
  BY DEF NewSession, LoopFree, importVars
<1>2. /\ NoProgram \in Program /\ NoProgram.binary = NoBinary
      /\ \A n \in Composites : NoProgram.origin[n] = "none"
      /\ \A s \in Slots : NoProgram.text[s] = "none"
  BY LoadedProgram DEF NoProgram
<1>3. ProgramTypeOK'
  BY <1>1, <1>2 DEF ProgramInv, ProgramTypeOK
<1>4. LogExact'
  BY <1>1, <1>2 DEF LogExact, Open
<1>5. prog'.binary # prog.binary
  BY <1>1, <1>2 DEF Open
<1> QED
  BY <1>1, <1>3, <1>4, <1>5 DEF ProgramInv, Brought

-----------------------------------------------------------------------------
(* The document an export builds. *)

Signed  == {f \in Functions : prog.sig[f] = "user"}
Renamed == {f \in Functions : prog.named[f] = "user"}
Noted   == {s \in comments : prog.text[s] # "none"}

On(kind, set) == {[kind |-> kind, on |-> x] : x \in set}

CommentEntries == {[kind |-> "comment", on |-> s, value |-> prog.text[s]] : s \in Noted}

TypesEntries == IF ExportedTypes = {} THEN {} ELSE {BatchEntry}

(* A set of entries told apart by what they are on is finite. *)
LEMMA FiniteEntries ==
  ASSUME NEW targets, IsFiniteSet(targets), NEW entries,
         \A e \in entries : e.on \in targets,
         \A e, d \in entries : e.on = d.on => e = d
  PROVE  IsFiniteSet(entries)
<1> DEFINE f == [e \in entries |-> e.on]
<1>1. f \in Injection(entries, targets)
  BY DEF Injection, IsInjective
<1> QED
  BY <1>1, FS_Injection

LEMMA OnEntries ==
  ASSUME NEW kind \in {"signature", "rename"}, NEW set \in SUBSET Functions
  PROVE  IsFiniteSet(On(kind, set)) /\ On(kind, set) \subseteq Entry
<1>1. \A e \in On(kind, set) : e.on \in Functions /\ e = [kind |-> kind, on |-> e.on]
  BY DEF On
<1>2. \A e, d \in On(kind, set) : e.on = d.on => e = d
  BY <1>1
<1>3. IsFiniteSet(On(kind, set))
  BY <1>1, <1>2, FiniteEntries, ProgramConstants
<1>4. On(kind, set) \subseteq Entry
  BY <1>1 DEF Entry
<1> QED
  BY <1>3, <1>4

LEMMA CommentEntriesTyped ==
  ASSUME ProgramTypeOK
  PROVE  IsFiniteSet(CommentEntries) /\ CommentEntries \subseteq Entry
<1>1. \A e \in CommentEntries :
        /\ e.on \in Slots /\ prog.text[e.on] \in {"auto", "user"}
        /\ e = [kind |-> "comment", on |-> e.on, value |-> prog.text[e.on]]
  BY DEF CommentEntries, Noted, ProgramTypeOK, Program
<1>2. \A e, d \in CommentEntries : e.on = d.on => e = d
  BY <1>1
<1>3. IsFiniteSet(CommentEntries)
  BY <1>1, <1>2, FiniteEntries, ProgramConstants
<1>4. CommentEntries \subseteq Entry
  BY <1>1 DEF Entry
<1> QED
  BY <1>3, <1>4

LEMMA TypesEntriesTyped ==
  ASSUME ProgramTypeOK
  PROVE  TypesEntries \subseteq Entry
<1>1. ExportedTypes \in SUBSET Composites
  BY DEF ExportedTypes, ProgramTypeOK
<1> DEFINE fields == [n \in ExportedTypes |-> prog.members[n]]
<1>2. fields \in [ExportedTypes -> SUBSET MemberNames]
  BY <1>1 DEF ProgramTypeOK, Program
<1> HIDE DEF fields
<1>3. [kind |-> "types", fields |-> fields] \in Entry
  BY <1>1, <1>2 DEF Entry
<1>4. BatchEntry \in Entry
  BY <1>3 DEF BatchEntry, fields
<1> QED
  BY <1>4 DEF TypesEntries

LEMMA ExportedEntries ==
  ASSUME ProgramTypeOK
  PROVE  /\ ExportEntries \in Seq(Entry)
         /\ ToSet(ExportEntries) =
              TypesEntries \cup On("signature", Signed) \cup On("rename", Renamed)
                \cup CommentEntries
<1> DEFINE a == IF ExportedTypes = {} THEN <<>> ELSE <<BatchEntry>>
           b == SetToSeq(On("signature", Signed))
           c == SetToSeq(On("rename", Renamed))
           d == SetToSeq(CommentEntries)
<1>1. a \in Seq(Entry) /\ ToSet(a) = TypesEntries
  <2>1. CASE ExportedTypes = {}
    <3>1. a = <<>> /\ TypesEntries = {}
      BY <2>1 DEF TypesEntries
    <3>2. ToSet(<<>>) = {}
      BY DEF ToSet
    <3> QED
      BY <3>1, <3>2
  <2>2. CASE ExportedTypes # {}
    <3>1. a = <<BatchEntry>> /\ TypesEntries = {BatchEntry} /\ BatchEntry \in Entry
      BY <2>2, TypesEntriesTyped DEF TypesEntries
    <3>2. <<BatchEntry>> \in Seq(Entry) /\ ToSet(<<BatchEntry>>) = {BatchEntry}
      BY <3>1 DEF ToSet
    <3> QED
      BY <3>1, <3>2
  <2> QED
    BY <2>1, <2>2
<1>2. b \in Seq(Entry) /\ ToSet(b) = On("signature", Signed)
  <2>1. Signed \in SUBSET Functions
    BY DEF Signed
  <2> DEFINE S == On("signature", Signed)
  <2>2. IsFiniteSet(S) /\ S \subseteq Entry
    BY <2>1, OnEntries
  <2> HIDE DEF S
  <2>3. SetToSeq(S) \in Seq(S) /\ ToSet(SetToSeq(S)) = S
    BY <2>2, EnumerationExact
  <2>4. SetToSeq(S) \in Seq(Entry)
    BY <2>2, <2>3
  <2> QED
    BY <2>3, <2>4 DEF S
<1>3. c \in Seq(Entry) /\ ToSet(c) = On("rename", Renamed)
  <2>1. Renamed \in SUBSET Functions
    BY DEF Renamed
  <2> DEFINE S == On("rename", Renamed)
  <2>2. IsFiniteSet(S) /\ S \subseteq Entry
    BY <2>1, OnEntries
  <2> HIDE DEF S
  <2>3. SetToSeq(S) \in Seq(S) /\ ToSet(SetToSeq(S)) = S
    BY <2>2, EnumerationExact
  <2>4. SetToSeq(S) \in Seq(Entry)
    BY <2>2, <2>3
  <2> QED
    BY <2>3, <2>4 DEF S
<1>4. d \in Seq(Entry) /\ ToSet(d) = CommentEntries
  <2>1. IsFiniteSet(CommentEntries) /\ CommentEntries \subseteq Entry
    BY CommentEntriesTyped
  <2>2. SetToSeq(CommentEntries) \in Seq(CommentEntries)
        /\ ToSet(SetToSeq(CommentEntries)) = CommentEntries
    BY <2>1, EnumerationExact
  <2>3. SetToSeq(CommentEntries) \in Seq(Entry)
    BY <2>1, <2>2
  <2> QED
    BY <2>2, <2>3
<1>5. ExportEntries = ((a \o b) \o c) \o d
  BY DEF ExportEntries, Signed, Renamed, Noted, CommentEntries, On
<1> DEFINE ab == a \o b
           abc == ab \o c
<1> HIDE DEF a, b, c, d
<1>6. ab \in Seq(Entry) /\ ToSet(ab) = ToSet(a) \cup ToSet(b)
  BY <1>1, <1>2, ConcatenationSet
<1>7. ExportEntries = abc \o d
  BY <1>5
<1> HIDE DEF ab
<1>8. abc \in Seq(Entry) /\ ToSet(abc) = ToSet(ab) \cup ToSet(c)
  BY <1>3, <1>6, ConcatenationSet
<1> HIDE DEF abc
<1>9. abc \o d \in Seq(Entry) /\ ToSet(abc \o d) = ToSet(abc) \cup ToSet(d)
  BY <1>4, <1>8, ConcatenationSet
<1> QED
  BY <1>1, <1>2, <1>3, <1>4, <1>6, <1>7, <1>8, <1>9

LEMMA ExportKeeps ==
  ASSUME ProgramInv, SessionExport
  PROVE  ProgramInv' /\ Brought
<1>1. /\ UNCHANGED <<prog, undo, digest, comments, types, hash, clean>> /\ replay' = <<>>
      /\ doc' = [sha |-> IF hash = NoBinary THEN digest ELSE hash, entries |-> ExportEntries]
  BY DEF SessionExport, LoopFree, workerVars, logVars, importVars
<1>2. doc' \in [sha : Binaries \cup {NoBinary}, entries : Seq(Entry)]
  <2>1. ExportEntries \in Seq(Entry)
    BY ExportedEntries DEF ProgramInv
  <2>2. digest \in Binaries \cup {NoBinary} /\ hash \in Binaries \cup {NoBinary}
    BY DEF ProgramInv, ProgramTypeOK
  <2> QED
    BY <1>1, <2>1, <2>2
<1>3. ProgramTypeOK'
  BY <1>1, <1>2 DEF ProgramInv, ProgramTypeOK
<1>4. clean' => LogExact'
  BY <1>1 DEF ProgramInv, LogExact, Open
<1> QED
  BY <1>1, <1>3, <1>4 DEF ProgramInv, Brought, BroughtKept

LEMMA ProgramInvInit == ProgramInit => ProgramInv
<1> SUFFICES ASSUME ProgramInit
             PROVE  ProgramInv
  OBVIOUS
<1>1. /\ NoProgram \in Program /\ NoProgram.binary = NoBinary
      /\ \A n \in Composites : NoProgram.origin[n] = "none"
      /\ \A s \in Slots : NoProgram.text[s] = "none"
  BY LoadedProgram DEF NoProgram
<1>2. /\ prog = NoProgram /\ undo = <<>> /\ digest = NoBinary /\ hash = NoBinary
      /\ comments = {} /\ types = {} /\ doc = NoDoc /\ replay = <<>>
  BY DEF ProgramInit
<1>3. NoDoc \in [sha : Binaries \cup {NoBinary}, entries : Seq(Entry)]
  BY DEF NoDoc
<1>4. ProgramTypeOK
  BY <1>1, <1>2, <1>3 DEF ProgramTypeOK
<1>5. LogExact
  BY <1>1, <1>2 DEF LogExact, Open
<1> QED
  BY <1>2, <1>4, <1>5 DEF ProgramInv

LEMMA ProgramInvStep ==
  ASSUME ProgramInv, [ProgramNext]_programVars
  PROVE  ProgramInv' /\ Brought
<1>1. CASE WriteCall
  BY <1>1, WriteCallKeeps
<1>2. CASE SessionUndo
  BY <1>2, UndoKeeps
<1>3. CASE SessionDisableWrites \/ \E structural \in BOOLEAN : SessionEnableWrites(structural)
  BY <1>3, ConsentKeeps
<1>4. CASE \E b \in Binaries, step \in ImportSteps : SessionImport(b, step)
  BY <1>4, ImportKeeps
<1>5. CASE \E ok \in BOOLEAN : SessionAnalyze(ok)
  BY <1>5, AnalyzeKeeps
<1>6. CASE SessionExport
  BY <1>6, ExportKeeps
<1>7. CASE SessionImportAnnotations
  BY <1>7, ImportAnnotationsKeeps
<1>8. CASE \E ok \in BOOLEAN : ReplayEntry(ok)
  BY <1>8, ReplayEntryKeeps
<1>9. CASE ReplayRefused
  BY <1>9, ReplayRefusedKeeps
<1>10. CASE NewSession
  BY <1>10, NewSessionKeeps
<1>11. CASE UNCHANGED programVars
  <2>1. /\ UNCHANGED <<prog, undo, digest, comments, types, hash, doc, clean>>
        /\ UNCHANGED <<replay, rejected>>
    BY <1>11 DEF programVars, workerVars, logVars, importVars
  <2> QED
    BY <2>1 DEF ProgramInv, ProgramTypeOK, LogExact, Open, ReplayExact, Replayed, Brought, BroughtKept
<1> QED
  BY <1>1, <1>2, <1>3, <1>4, <1>5, <1>6, <1>7, <1>8, <1>9, <1>10, <1>11 DEF ProgramNext

-----------------------------------------------------------------------------
(* The change-log of sessions/manager.py names exactly the session's own   *)
(* annotations while it is clean, and what a replay has done is there: for *)
(* any program, any caps and any transactions that fail.                   *)
THEOREM ProgramInvariantHolds == ProgramSpec => []ProgramInv
<1>1. ProgramInv /\ [ProgramNext]_programVars => ProgramInv'
  BY ProgramInvStep
<1> QED
  BY <1>1, ProgramInvInit, PTL DEF ProgramSpec

(* delete_type reaches the session's own composites and no others: what    *)
(* analysis or an archive brought in leaves only with the program.         *)
THEOREM DeletesOwnHolds == ProgramSpec => DeletesOwn
<1>1. ProgramInv /\ [ProgramNext]_programVars =>
        (clean /\ clean' /\ prog'.binary = prog.binary =>
           \A n \in Composites :
             prog.origin[n] \in {"auto", "archive"} => prog'.origin[n] = prog.origin[n])
  BY ProgramInvStep DEF Brought, BroughtKept
<1> QED
  BY <1>1, ProgramInvariantHolds, PTL DEF ProgramSpec, DeletesOwn

(* A replay that rejects nothing restores every entry of the document: no  *)
(* entry undoes or overwrites an earlier one.                              *)
THEOREM ReplayRestoresHolds == ProgramSpec => ReplayRestores
<1>1. ProgramInv =>
        (Len(replay) = 1 /\ ~rejected /\ ReplayEntry(TRUE) =>
           \A i \in DOMAIN doc.entries : Holds(prog', doc.entries[i]))
  <2> SUFFICES ASSUME ProgramInv, Len(replay) = 1, ~rejected, ReplayEntry(TRUE)
               PROVE  \A i \in DOMAIN doc.entries : Holds(prog', doc.entries[i])
    OBVIOUS
  <2>1. \A i \in 1 .. Replayed + 1 : Holds(prog', doc.entries[i])
    BY ReplayEntryKeeps
  <2>2. doc.entries \in Seq(Entry)
    BY DEF ProgramInv, ProgramTypeOK
  <2>3. Replayed + 1 = Len(doc.entries)
    BY <2>2 DEF Replayed
  <2> QED
    BY <2>1, <2>2, <2>3
<1> QED
  BY <1>1, ProgramInvariantHolds, PTL DEF ProgramSpec, ReplayRestores

(* Only an export hands out a document. *)
LEMMA OnlyExports ==
  ASSUME [ProgramNext]_programVars, doc = NoDoc, doc' # doc
  PROVE  SessionExport
<1>1. CASE WriteCall
  <2>1. Gated
    BY <1>1 DEF WriteCall, RenameFunction, RenameLocal, SetFunctionSignature, SetComment,
                ApplyTypeArchive, DeleteType, DefineStruct, DefineUnion, DefineTypes
  <2> QED
    BY <2>1 DEF Gated
<1>2. CASE SessionUndo \/ \E ok \in BOOLEAN : SessionAnalyze(ok)
  BY <1>2 DEF SessionUndo, SessionAnalyze, Gated
<1>3. CASE SessionDisableWrites \/ \E structural \in BOOLEAN : SessionEnableWrites(structural)
  BY <1>3 DEF SessionDisableWrites, SessionEnableWrites
<1>4. CASE \E b \in Binaries, step \in ImportSteps : SessionImport(b, step)
  BY <1>4 DEF SessionImport
<1>5. CASE SessionImportAnnotations \/ NewSession
  BY <1>5 DEF SessionImportAnnotations, NewSession
<1>6. CASE ReplayRefused \/ \E ok \in BOOLEAN : ReplayEntry(ok)
  BY <1>6 DEF ReplayRefused, ReplayEntry, ReplayStep
<1>7. CASE UNCHANGED programVars
  BY <1>7 DEF programVars
<1> QED
  BY <1>1, <1>2, <1>3, <1>4, <1>5, <1>6, <1>7 DEF ProgramNext

(* As long as nothing was undone, no second binary was imported and the    *)
(* log has not overflowed, session_export gives out exactly the session's  *)
(* annotations, bound to the binary they were made on.                     *)
THEOREM ExportExactHolds == ProgramSpec => ExportExact
<1> DEFINE Owned ==
             {[kind |-> "types", fields |-> [n \in UserTypes |-> prog.members[n]]] :
                x \in IF UserTypes = {} THEN {} ELSE {1}}
             \cup {[kind |-> "signature", on |-> f] : f \in {g \in Functions : prog.sig[g] = "user"}}
             \cup {[kind |-> "rename", on |-> f] : f \in {g \in Functions : prog.named[g] = "user"}}
             \cup {[kind |-> "comment", on |-> s, value |-> "user"] : s \in UserSlots}
<1>1. ASSUME ProgramInv, [ProgramNext]_programVars, clean, doc = NoDoc, doc' # doc
      PROVE  ToSet(doc'.entries) = Owned /\ doc'.sha = prog.binary
  <2>1. /\ Open
        /\ doc' = [sha |-> IF hash = NoBinary THEN digest ELSE hash, entries |-> ExportEntries]
    BY <1>1, OnlyExports DEF SessionExport
  <2>2. LogExact /\ prog \in Program
    BY <1>1 DEF ProgramInv, ProgramTypeOK
  <2>3. doc'.sha = prog.binary
    BY <2>1, <2>2 DEF LogExact
  <2>4. ExportedTypes = UserTypes
    BY <2>2 DEF LogExact, ExportedTypes, UserTypes
  <2>5. Noted = UserSlots
    BY <2>2 DEF LogExact, Noted, UserSlots
  <2>6. TypesEntries = {[kind |-> "types", fields |-> [n \in UserTypes |-> prog.members[n]]] :
                          x \in IF UserTypes = {} THEN {} ELSE {1}}
    BY <2>4 DEF TypesEntries, BatchEntry
  <2>7. CommentEntries = {[kind |-> "comment", on |-> s, value |-> "user"] : s \in UserSlots}
    BY <2>5 DEF CommentEntries, UserSlots
  <2>8. ToSet(ExportEntries) =
          TypesEntries \cup On("signature", Signed) \cup On("rename", Renamed) \cup CommentEntries
    BY <1>1, ExportedEntries DEF ProgramInv
  <2>9. ToSet(ExportEntries) = Owned
    BY <2>6, <2>7, <2>8 DEF On, Signed, Renamed
  <2> QED
    BY <2>1, <2>3, <2>9
<1>2. ProgramInv /\ [ProgramNext]_programVars =>
        (clean /\ doc = NoDoc /\ doc' # doc =>
           ToSet(doc'.entries) = Owned /\ doc'.sha = prog.binary)
  BY <1>1
<1> QED
  BY <1>2, ProgramInvariantHolds, PTL DEF ProgramSpec, ExportExact

=============================================================================
