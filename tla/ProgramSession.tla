--------------------------- MODULE ProgramSession ---------------------------
(***************************************************************************)
(* One session's program in the worker (ghidra/_jvm_bridge.py), the        *)
(* session's record of it on the server (sessions/manager.py: the binary   *)
(* hash and the change-log) and the write, export and annotation-import    *)
(* handlers between them (tools/registry.py).                              *)
(*                                                                         *)
(* A handler makes one RPC and then updates the server's record.  The      *)
(* worker serves one RPC at a time and the loop runs one handler at a      *)
(* time, so a handler is one action here; the interleavings of handlers    *)
(* with expiry and worker death are ToolDispatch's.  An annotation import  *)
(* replays a document entry by entry, each entry a handler of its own that *)
(* may fail on its own.                                                    *)
(*                                                                         *)
(* Ghidra itself is external: opening a file may fail, a transaction may   *)
(* fail, analysis and type archives add what they add.                     *)
(***************************************************************************)
EXTENDS Naturals, Sequences, FiniteSets, SequencesExt

CONSTANTS
  Binaries,      \* what can be imported, named by its SHA-256
  NoBinary,
  Composites,    \* names of structs and unions
  Functions,     \* functions (renamed, given signatures)
  Slots,         \* comment slots: an address and a comment kind
  AutoTypes,     \* the composites that analysis recovers
  AutoSlots,     \* the slots that analysis fills
  Members,       \* the member types clients use: "int" and composites
  ArchiveTypes,  \* the composites a bundled type archive brings along
  MaxTargets,    \* _MAX_CHANGE_LOG_TARGETS, per kind of target
  MaxBatch,      \* _MAX_TYPES_PER_BATCH
  MaxEntries,    \* _MAX_RESULT_COUNT
  MaxUndo        \* bound: committed transactions kept on the undo stack

ASSUME ProgramConstants ==
  /\ NoBinary \notin Binaries
  /\ AutoTypes \subseteq Composites /\ ArchiveTypes \subseteq Composites
  /\ AutoSlots \subseteq Slots
  /\ Members \subseteq Composites \cup {"int"}
  /\ IsFiniteSet(Composites) /\ IsFiniteSet(Functions) /\ IsFiniteSet(Slots)
  /\ {MaxTargets, MaxBatch, MaxEntries, MaxUndo} \subseteq Nat

VARIABLES
  prog,      \* the worker's open program
  undo,      \* the programs its committed transactions started from
  digest,    \* the worker's _sha256
  hash,      \* the session's recorded binary_sha256
  consent,   \* writes_enabled and allow_structural
  comments,  \* comment_targets of the change-log
  types,     \* composite_targets of the change-log
  doc,       \* the last exported document, held by the client
  replay,    \* the entries an annotation import has still to replay
  rejected,  \* an entry of it has failed
  clean      \* history: no undo, no second import, no overflow of the log

workerVars == <<prog, undo, digest>>
logVars    == <<comments, types>>
importVars == <<replay, rejected>>
programVars == <<workerVars, logVars, importVars, hash, consent, doc, clean>>

NoDoc == [sha |-> NoBinary, entries |-> <<>>]

(* A program as its loader leaves it. *)
Loaded(b) ==
  [binary  |-> b,
   origin  |-> [n \in Composites |-> "none"],
   members |-> [n \in Composites |-> {}],
   named   |-> [f \in Functions |-> "auto"],
   sig     |-> [f \in Functions |-> "auto"],
   text    |-> [s \in Slots |-> "none"]]

NoProgram == Loaded(NoBinary)

(* What analysis makes of a program: it fills what nobody has written.     *)
Analyzed(p) ==
  [p EXCEPT !.origin = [n \in Composites |->
                          IF n \in AutoTypes /\ @[n] = "none" THEN "auto" ELSE @[n]],
            !.text   = [s \in Slots |->
                          IF s \in AutoSlots /\ @[s] = "none" THEN "auto" ELSE @[s]]]

Open == prog.binary # NoBinary

Types(p) == {n \in Composites : p.origin[n] # "none"}

(* The loop is free for a handler: no annotation import is on it. *)
LoopFree == replay = <<>>

-----------------------------------------------------------------------------
(* The worker: import, analysis and the transaction every write is.        *)

ProgramInit ==
  /\ prog = NoProgram /\ undo = <<>> /\ digest = NoBinary
  /\ hash = NoBinary /\ consent = "off"
  /\ comments = {} /\ types = {}
  /\ doc = NoDoc /\ replay = <<>> /\ rejected = FALSE
  /\ clean = TRUE

(* _in_transaction: commit, or roll back and fail. *)
InTransaction(p, ok) ==
  /\ Open
  /\ IF ok THEN /\ Len(undo) < MaxUndo
                /\ prog' = p /\ undo' = Append(undo, prog)
           ELSE UNCHANGED <<prog, undo>>

(* The four ways to open a file; each leaves a program of its own, with no *)
(* history, or fails with the old program still open.                      *)
OpenProgram(b, ok) ==
  IF ok THEN prog' = Loaded(b) /\ undo' = <<>>
        ELSE UNCHANGED <<prog, undo>>

(* Raw layout, scatter-load regions, companion PDB or symbol map: one      *)
(* transaction on the program just opened.                                 *)
OpenAndLayOut(b, ok) ==
  /\ prog' = Loaded(b)
  /\ undo' = IF ok THEN <<Loaded(b)>> ELSE <<>>

(* The digest is of the bytes about to be opened. *)
GhImport(b, step) ==
  /\ digest' = b
  /\ CASE step = "open_failed"   -> OpenProgram(b, FALSE)
       [] step = "opened"        -> OpenProgram(b, TRUE)
       [] step = "layout_failed" -> OpenAndLayOut(b, FALSE)
       [] step = "laid_out"      -> OpenAndLayOut(b, TRUE)

ImportSteps == {"open_failed", "opened", "layout_failed", "laid_out"}

(* The transaction of an analysis commits even when the analysis fails.    *)
GhAnalyze(ok) ==
  /\ Open /\ Len(undo) < MaxUndo
  /\ prog' = IF ok THEN Analyzed(prog) ELSE prog
  /\ undo' = Append(undo, prog)
  /\ UNCHANGED digest

GhUndo ==
  /\ undo # <<>>
  /\ prog' = Last(undo) /\ undo' = Front(undo)
  /\ UNCHANGED digest

GhRenameFunction(f, ok) ==
  InTransaction([prog EXCEPT !.named[f] = "user"], ok) /\ UNCHANGED digest

(* Names of locals and parameters are not told apart: a transaction only. *)
GhRenameHighVariable(ok) == InTransaction(prog, ok) /\ UNCHANGED digest

GhSetComment(s, value, ok) ==
  InTransaction([prog EXCEPT !.text[s] = value], ok) /\ UNCHANGED digest

(* A TypeRef resolves to a built-in or to a type the program has. *)
Resolves(p, member) == member = "int" \/ member \in Types(p)

GhSetFunctionSignature(f, member, ok) ==
  /\ Resolves(prog, member)
  /\ InTransaction([prog EXCEPT !.sig[f] = "user"], ok)
  /\ UNCHANGED digest

(* Archive types come in, and its prototypes are IMPORTED, not the user's. *)
GhApplyTypeArchive(ok) ==
  /\ InTransaction([prog EXCEPT !.origin = [n \in Composites |->
       IF n \in ArchiveTypes /\ @[n] = "none" THEN "archive" ELSE @[n]]], ok)
  /\ UNCHANGED digest

(* Before the transaction: no name collides and every member outside the   *)
(* batch resolves.  fields gives each new composite its members.           *)
BatchOk(fields) ==
  /\ DOMAIN fields \cap Types(prog) = {}
  /\ \A n \in DOMAIN fields : \A m \in fields[n] : m \in DOMAIN fields \/ Resolves(prog, m)

WithTypes(p, fields, who) ==
  [p EXCEPT !.origin  = [n \in Composites |-> IF n \in DOMAIN fields THEN who ELSE @[n]],
            !.members = [n \in Composites |-> IF n \in DOMAIN fields THEN fields[n] ELSE @[n]]]

(* A failed define does not take its pre-registered composites back        *)
(* (addDataType is not rolled back).                                       *)
GhDefineTypes(fields, ok) ==
  /\ Open /\ BatchOk(fields)
  /\ IF ok THEN InTransaction(WithTypes(prog, fields, "user"), TRUE)
           ELSE /\ prog' = WithTypes(prog, [n \in DOMAIN fields |-> {}], "partial")
                /\ UNCHANGED undo
  /\ UNCHANGED digest

GhDefineStruct(n, member, ok) == GhDefineTypes([x \in {n} |-> {member}], ok)

GhDefineUnion(n, member, ok) == GhDefineTypes([x \in {n} |-> {member}], ok)

(* Members of a deleted type revert to undefined in the types that use it. *)
Without(p, n) ==
  [p EXCEPT !.origin[n] = "none",
            !.members = [m \in Composites |-> IF m = n THEN {} ELSE @[m] \ {n}]]

GhDeleteType(n, ok) ==
  /\ n \in Types(prog)
  /\ InTransaction(Without(prog, n), ok)
  /\ UNCHANGED digest

-----------------------------------------------------------------------------
(* The session's record. *)

Full(targets) == Cardinality(targets) >= MaxTargets

(* Mutant: the log is written whether or not the slot was cleared. *)
RecordClearToo(s, cleared) ==
  comments' = IF s \in comments \/ Full(comments) THEN comments ELSE comments \cup {s}

RecordCommentTarget(s, cleared) ==
  comments' = IF cleared THEN comments \ {s}
              ELSE IF s \in comments \/ Full(comments) THEN comments
              ELSE comments \cup {s}

RecordCompositeTarget(n) ==
  types' = IF n \in types \/ Full(types) THEN types ELSE types \cup {n}

(* define_types records the names of its batch one by one, in the order    *)
(* the worker gives them: all of them, or as many as there is room for.    *)
RecordAll(names) ==
  \E kept \in SUBSET (names \ types) :
    /\ types' = types \cup kept
    /\ kept = {} \/ Cardinality(types \cup kept) <= MaxTargets
    /\ kept = names \ types \/ Full(types \cup kept)

IsCompositeTarget(n) == n \in types

ForgetCompositeTarget(n) == types' = types \ {n}

RecordBinaryHash(b) == hash' = b

Overflows(added) == Cardinality(types \cup added) > MaxTargets

-----------------------------------------------------------------------------
(* The handlers. *)

Consented  == consent # "off"
Structural == consent = "structural"

Gated == LoopFree /\ UNCHANGED <<hash, consent, doc, importVars>>

SessionEnableWrites(structural) ==
  /\ LoopFree
  /\ consent' = IF structural THEN "structural" ELSE "plain"
  /\ UNCHANGED <<workerVars, logVars, importVars, hash, doc, clean>>

SessionDisableWrites ==
  /\ LoopFree
  /\ consent' = "off"
  /\ UNCHANGED <<workerVars, logVars, importVars, hash, doc, clean>>

(* session_import: the hash is recorded only when the import succeeds; the *)
(* change-log of an earlier program stays.                                 *)
SessionImport(b, step) ==
  /\ LoopFree
  /\ GhImport(b, step)
  /\ IF step \in {"opened", "laid_out"} THEN RecordBinaryHash(b) ELSE UNCHANGED hash
  /\ clean' = (clean /\ ~Open)
  /\ UNCHANGED <<logVars, importVars, consent, doc>>

SessionAnalyze(ok) ==
  /\ Gated
  /\ GhAnalyze(ok)
  /\ UNCHANGED <<logVars, clean>>

SessionUndo ==
  /\ Gated /\ Consented
  /\ GhUndo
  /\ clean' = FALSE
  /\ UNCHANGED logVars

(* The effects of a write handler, shared by the tool and by the replay of *)
(* a document's entry.                                                     *)
DoRename(f, ok) == Consented /\ GhRenameFunction(f, ok) /\ UNCHANGED <<logVars, clean>>

DoComment(s, value, ok) ==
  /\ Consented
  /\ GhSetComment(s, value, ok)
  /\ IF ok THEN RecordCommentTarget(s, value = "none") ELSE UNCHANGED comments
  /\ clean' = (clean /\ (ok /\ value # "none" => Cardinality(comments \cup {s}) <= MaxTargets))
  /\ UNCHANGED types

DoSignature(f, member, ok) ==
  /\ Structural
  /\ GhSetFunctionSignature(f, member, ok)
  /\ UNCHANGED <<logVars, clean>>

DoDefine(fields, ok) ==
  /\ Structural
  /\ GhDefineTypes(fields, ok)
  /\ IF ok THEN RecordAll(DOMAIN fields) ELSE UNCHANGED types
  /\ clean' = (clean /\ (ok => ~Overflows(DOMAIN fields)))
  /\ UNCHANGED comments

RenameFunction(f, ok)   == Gated /\ DoRename(f, ok)
SetComment(s, value, ok) == Gated /\ DoComment(s, value, ok)
SetFunctionSignature(f, member, ok) == Gated /\ DoSignature(f, member, ok)
DefineTypes(fields, ok) == Gated /\ DoDefine(fields, ok)

RenameLocal(ok) ==
  /\ Gated /\ Structural
  /\ GhRenameHighVariable(ok)
  /\ UNCHANGED <<logVars, clean>>

ApplyTypeArchive(ok) ==
  /\ Gated /\ Structural
  /\ GhApplyTypeArchive(ok)
  /\ UNCHANGED <<logVars, clean>>

DefineStruct(n, member, ok) ==
  /\ Gated /\ Structural
  /\ GhDefineStruct(n, member, ok)
  /\ IF ok THEN RecordCompositeTarget(n) ELSE UNCHANGED types
  /\ clean' = (clean /\ (ok => ~Overflows({n})))
  /\ UNCHANGED comments

DefineUnion(n, member, ok) ==
  /\ Gated /\ Structural
  /\ GhDefineUnion(n, member, ok)
  /\ IF ok THEN RecordCompositeTarget(n) ELSE UNCHANGED types
  /\ clean' = (clean /\ (ok => ~Overflows({n})))
  /\ UNCHANGED comments

(* Mutant: the worker is asked for any type of the program. *)
DeleteAnyType(n, ok) ==
  /\ Gated /\ Structural
  /\ GhDeleteType(n, ok)
  /\ IF ok THEN ForgetCompositeTarget(n) ELSE UNCHANGED types
  /\ UNCHANGED <<comments, clean>>

DeleteType(n, ok) ==
  /\ Gated /\ Structural /\ IsCompositeTarget(n)
  /\ GhDeleteType(n, ok)
  /\ IF ok THEN ForgetCompositeTarget(n) ELSE UNCHANGED types
  /\ UNCHANGED <<comments, clean>>

-----------------------------------------------------------------------------
(* Export and import of annotations. *)

(* The logged composites that still are composites with members. *)
ExportedTypes ==
  {n \in types : prog.origin[n] # "none" /\ prog.members[n] # {}}

BatchEntry == [kind |-> "types", fields |-> [n \in ExportedTypes |-> prog.members[n]]]

(* The document's entries: types, signatures, renames, then comments.      *)
ExportEntries ==
  LET each(kind, set) == SetToSeq({[kind |-> kind, on |-> x] : x \in set})
  IN (IF ExportedTypes = {} THEN <<>> ELSE <<BatchEntry>>)
     \o each("signature", {f \in Functions : prog.sig[f] = "user"})
     \o each("rename", {f \in Functions : prog.named[f] = "user"})
     \o SetToSeq({[kind |-> "comment", on |-> s, value |-> prog.text[s]] :
                    s \in {x \in comments : prog.text[x] # "none"}})

(* Over a cap nothing is exported.  The session's hash binds the document; *)
(* the worker's digest does when the session has none.                     *)
(* Bound: the client holds one document at a time.                         *)
SessionExport ==
  /\ LoopFree /\ Open /\ doc = NoDoc
  /\ Cardinality(ExportedTypes) <= MaxBatch
  /\ Len(ExportEntries) <= MaxEntries
  /\ doc' = [sha |-> IF hash = NoBinary THEN digest ELSE hash, entries |-> ExportEntries]
  /\ UNCHANGED <<workerVars, logVars, importVars, hash, consent, clean>>

StructuralKinds == {"types", "signature"}

(* The document is for this session's binary, and its kinds are consented. *)
SessionImportAnnotations ==
  /\ LoopFree /\ doc.entries # <<>>
  /\ hash # NoBinary /\ hash = doc.sha
  /\ Consented
  /\ (\E i \in DOMAIN doc.entries : doc.entries[i].kind \in StructuralKinds) => Structural
  /\ replay' = doc.entries /\ rejected' = FALSE
  /\ UNCHANGED <<workerVars, logVars, hash, consent, doc, clean>>

(* Mutant: an entry's text is lost on the way, and a comment without text  *)
(* clears its slot.                                                        *)
ReplayWriteNoText(entry, ok) ==
  CASE entry.kind = "types"     -> DoDefine(entry.fields, ok)
    [] entry.kind = "signature" -> DoSignature(entry.on, "int", ok)
    [] entry.kind = "rename"    -> DoRename(entry.on, ok)
    [] entry.kind = "comment"   -> DoComment(entry.on, "none", ok)

(* One entry through the handler of its kind. *)
ReplayWrite(entry, ok) ==
  CASE entry.kind = "types"     -> DoDefine(entry.fields, ok)
    [] entry.kind = "signature" -> DoSignature(entry.on, "int", ok)
    [] entry.kind = "rename"    -> DoRename(entry.on, ok)
    [] entry.kind = "comment"   -> DoComment(entry.on, "user", ok)

Refused(entry) == entry.kind = "types" /\ ~BatchOk(entry.fields)

ReplayStep(fails) ==
  /\ replay # <<>>
  /\ replay' = Tail(replay)
  /\ rejected' = (Len(replay) > 1 /\ (rejected \/ fails))
  /\ doc' = IF Len(replay) = 1 THEN NoDoc ELSE doc
  /\ UNCHANGED <<hash, consent>>

ReplayEntry(ok) ==
  /\ ReplayStep(~ok)
  /\ ReplayWrite(Head(replay), ok)

(* Refused before any transaction: recorded, and the next entry follows. *)
ReplayRefused ==
  /\ ReplayStep(TRUE)
  /\ Refused(Head(replay))
  /\ UNCHANGED <<workerVars, logVars, clean>>

(* The client closes the session and opens another; the document it holds  *)
(* is all that is left.                                                    *)
NewSession ==
  /\ LoopFree /\ Open
  /\ prog' = NoProgram /\ undo' = <<>> /\ digest' = NoBinary
  /\ hash' = NoBinary /\ consent' = "off"
  /\ comments' = {} /\ types' = {} /\ clean' = TRUE
  /\ UNCHANGED <<doc, importVars>>

WriteCall ==
  \E ok \in BOOLEAN :
    \/ \E f \in Functions : RenameFunction(f, ok)
    \/ RenameLocal(ok)
    \/ \E f \in Functions, m \in Members : SetFunctionSignature(f, m, ok)
    \/ \E s \in Slots, value \in {"user", "none"} : SetComment(s, value, ok)
    \/ ApplyTypeArchive(ok)
    \/ \E n \in Composites : DeleteType(n, ok)
    \/ \E n \in Composites, m \in Members : DefineStruct(n, m, ok) \/ DefineUnion(n, m, ok)
    \/ DefineTypes([n \in Composites |-> Composites \ {n}], ok)

ProgramNext ==
  \/ WriteCall
  \/ SessionUndo
  \/ \E structural \in BOOLEAN : SessionEnableWrites(structural)
  \/ SessionDisableWrites
  \/ \E b \in Binaries, step \in ImportSteps : SessionImport(b, step)
  \/ \E ok \in BOOLEAN : SessionAnalyze(ok)
  \/ SessionExport
  \/ SessionImportAnnotations
  \/ \E ok \in BOOLEAN : ReplayEntry(ok)
  \/ ReplayRefused
  \/ NewSession

ProgramSpec == ProgramInit /\ [][ProgramNext]_programVars

-----------------------------------------------------------------------------
(* What a document must be for the program and the session as they stand.  *)
UserSlots == {s \in Slots : prog.text[s] = "user"}
UserTypes == {n \in Composites : prog.origin[n] = "user" /\ prog.members[n] # {}}

(* As long as nothing was undone, no second binary was imported and the    *)
(* log has not overflowed, an export is exactly the session's annotations: *)
(* no comment or composite of analysis, of an archive or of a failed       *)
(* define is in it, none of the session's is missing, and it is bound to   *)
(* the binary it was read from.                                            *)
ExportExact ==
  [][ clean /\ doc = NoDoc /\ doc' # doc =>
        /\ ToSet(doc'.entries) =
             {[kind |-> "types", fields |-> [n \in UserTypes |-> prog.members[n]]] :
                x \in IF UserTypes = {} THEN {} ELSE {1}}
             \cup {[kind |-> "signature", on |-> f] : f \in {g \in Functions : prog.sig[g] = "user"}}
             \cup {[kind |-> "rename", on |-> f] : f \in {g \in Functions : prog.named[g] = "user"}}
             \cup {[kind |-> "comment", on |-> s, value |-> "user"] : s \in UserSlots}
        /\ doc'.sha = prog.binary ]_programVars

(* An entry's effect is in the program. *)
Holds(p, entry) ==
  CASE entry.kind = "types"     -> \A n \in DOMAIN entry.fields :
                                     p.origin[n] = "user" /\ p.members[n] = entry.fields[n]
    [] entry.kind = "signature" -> p.sig[entry.on] = "user"
    [] entry.kind = "rename"    -> p.named[entry.on] = "user"
    [] entry.kind = "comment"   -> p.text[entry.on] = "user"

(* A replay that rejects nothing restores every entry of the document: no  *)
(* entry undoes or overwrites an earlier one, whatever the program held.   *)
ReplayRestores ==
  [][ Len(replay) = 1 /\ ~rejected /\ ReplayEntry(TRUE) =>
        \A i \in DOMAIN doc.entries : Holds(prog', doc.entries[i]) ]_programVars

(* While nothing was undone, a type that analysis or an archive brought in *)
(* leaves the program only with the program: delete_type reaches the       *)
(* session's own composites and no others (ADR-031 D2).                    *)
DeletesOwn ==
  [][ clean /\ clean' /\ prog'.binary = prog.binary =>
        \A n \in Composites :
          prog.origin[n] \in {"auto", "archive"} => prog'.origin[n] = prog.origin[n] ]_programVars

-----------------------------------------------------------------------------
(* The inductive invariant.  Each part is what a step of another handler   *)
(* would have to break before a property above could fail.                 *)

MemberNames == Composites \cup {"int"}

Program ==
  [binary  : Binaries \cup {NoBinary},
   origin  : [Composites -> {"none", "auto", "archive", "partial", "user"}],
   members : [Composites -> SUBSET MemberNames],
   named   : [Functions -> {"auto", "user"}],
   sig     : [Functions -> {"auto", "user"}],
   text    : [Slots -> {"none", "auto", "user"}]]

Entry ==
  [kind : {"types"}, fields : UNION {[names -> SUBSET MemberNames] : names \in SUBSET Composites}]
  \cup [kind : {"signature", "rename"}, on : Functions]
  \cup [kind : {"comment"}, on : Slots, value : {"auto", "user"}]

ProgramTypeOK ==
  /\ prog \in Program /\ undo \in Seq(Program)
  /\ digest \in Binaries \cup {NoBinary} /\ hash \in Binaries \cup {NoBinary}
  /\ comments \subseteq Slots /\ types \subseteq Composites
  /\ doc \in [sha : Binaries \cup {NoBinary}, entries : Seq(Entry)]
  /\ replay \in Seq(Entry)

(* The log names the session's own annotations, and what an export would   *)
(* be bound to is the program it is read from.                             *)
LogExact ==
  /\ types = {n \in Composites : prog.origin[n] = "user"}
  /\ comments = {s \in Slots : prog.text[s] = "user"}
  /\ Open => prog.binary = IF hash = NoBinary THEN digest ELSE hash
  /\ ~Open => prog = NoProgram /\ hash = NoBinary

(* What is left to replay is the document's end; what went before is there *)
(* unless an entry was rejected.                                           *)
Replayed == Len(doc.entries) - Len(replay)

ReplayExact ==
  /\ Len(replay) <= Len(doc.entries)
  /\ \A i \in 1 .. Len(replay) : replay[i] = doc.entries[Replayed + i]
  /\ ~rejected => \A i \in 1 .. Replayed : Holds(prog, doc.entries[i])

ProgramInv ==
  /\ ProgramTypeOK
  /\ clean => LogExact
  /\ replay # <<>> => ReplayExact

=============================================================================
