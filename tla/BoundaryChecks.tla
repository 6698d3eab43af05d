--------------------------- MODULE BoundaryChecks ---------------------------
(***************************************************************************)
(* The checks a request passes before a worker sees it: the shape the      *)
(* schema admits (tools/schemas.py), the validators the write tools call   *)
(* (core/validation.py, tools/registry.py), and the same validators over   *)
(* the entries of an imported annotation document.  Among them the search  *)
(* for a composite that would contain itself by value, an explicit-stack   *)
(* depth-first search with three colours.                                  *)
(*                                                                         *)
(* Texts are classes: "control" holds a control character, "selector"      *)
(* none but is no identifier, "long" is over the length; every other       *)
(* string is an identifier.                                                *)
(***************************************************************************)
EXTENDS Naturals, Sequences, FiniteSets, SequencesExt

CONSTANTS
  TypeNames,       \* identifiers of the composites of a batch
  MaxPointers,     \* MAX_POINTER_DEPTH
  MaxArray,        \* MAX_ARRAY_LEN
  MaxFields,       \* MAX_FIELDS, MAX_PARAMS and MAX_TYPES_PER_BATCH
  MaxOffset,       \* MAX_COMPOSITE_SIZE
  MaxAddress,      \* _MAX_ADDRESS
  MaxReadBytes     \* MAX_READ_BYTES

ASSUME BoundaryConstants ==
  /\ {MaxPointers, MaxArray, MaxFields, MaxOffset, MaxAddress, MaxReadBytes} \subseteq Nat \ {0}
  /\ IsFiniteSet(TypeNames)

VARIABLES
  entry,     \* the entry of a document, which is also the argument of a tool
  checking,  \* "received", "walking" or "done"
  walk,      \* the state of the cycle search
  verdict    \* who lets it pass: the document import, the live tool

boundaryVars == <<entry, checking, walk, verdict>>

-----------------------------------------------------------------------------
(* Leaves. *)

ValidateName(s)      == s \notin {"", "control", "long"}
ValidateWriteName(s) == ValidateName(s) /\ s # "selector"
ValidateTargetRef(s) == ValidateName(s)
ValidateCommentText(s) == s \notin {"", "long"}
ParseAddress(s)      == s = "address"
ValidateCallingConvention(c) == c \in {"absent", "__cdecl"}
SchemaName(s)        == s \notin {"", "long"}

ValidateByteRange(offset, length) ==
  offset \in 0..MaxAddress /\ length \in 1..MaxReadBytes /\ offset + length - 1 <= MaxAddress

(* A type: a base or a name, pointers to it, and the length of an array.   *)
OneLeaf(t) == (t.base = "absent") # (t.named = "absent")
SchemaTypeRef(t) ==
  /\ OneLeaf(t) /\ t.base \in {"absent", "int"} /\ (t.named = "absent" \/ SchemaName(t.named))
  /\ t.pointers \in 0..MaxPointers /\ t.array \in {<<>>} \cup {<<n>> : n \in 1..MaxArray}
ValidateTypeRef(t) ==
  /\ OneLeaf(t) /\ t.base \in {"absent", "int"}
  /\ t.named = "absent" \/ ValidateWriteName(t.named)
  /\ t.pointers \in 0..MaxPointers /\ t.array \in {<<>>} \cup {<<n>> : n \in 1..MaxArray}

-----------------------------------------------------------------------------
(* Composites. *)

OffsetOk(o) == o = <<>> \/ o[1] \in 0..MaxOffset - 1
SchemaField(f)       == SchemaName(f.name) /\ SchemaTypeRef(f.type) /\ OffsetOk(f.offset)
ValidateFieldSpec(f) == ValidateWriteName(f.name) /\ ValidateTypeRef(f.type) /\ OffsetOk(f.offset)

Embeds(f, name) == f.type.named = name /\ f.type.pointers = 0
EmbedsByValue(spec, name) == \E i \in DOMAIN spec.fields : Embeds(spec.fields[i], name)
OffsetsFit(spec) ==
  spec.kind = "union" => \A i \in DOMAIN spec.fields : spec.fields[i].offset = <<>>

SchemaComposite(spec) ==
  /\ SchemaName(spec.name) /\ Len(spec.fields) \in 1..MaxFields
  /\ \A i \in DOMAIN spec.fields : SchemaField(spec.fields[i])
  /\ ~EmbedsByValue(spec, spec.name) /\ OffsetsFit(spec)

UniqueNames(specs) == \A i, j \in DOMAIN specs : specs[i].name = specs[j].name => i = j

ValidateComposite(spec) ==
  /\ ValidateWriteName(spec.name) /\ Len(spec.fields) \in 1..MaxFields
  /\ \A i \in DOMAIN spec.fields : ValidateFieldSpec(spec.fields[i])
  /\ UniqueNames(spec.fields)
  /\ ~EmbedsByValue(spec, spec.name) /\ OffsetsFit(spec)

(* validate_types_batch but for its cycle search. *)
ValidateBatchShape(types) ==
  /\ Len(types) \in 1..MaxFields /\ \A i \in DOMAIN types : ValidateComposite(types[i])
  /\ UniqueNames(types)

ValidateSignature(sig) ==
  /\ ValidateName(sig.function) /\ Len(sig.parameters) <= MaxFields
  /\ ValidateTypeRef(sig.returns)
  /\ \A i \in DOMAIN sig.parameters :
       ValidateWriteName(sig.parameters[i].name) /\ ValidateTypeRef(sig.parameters[i].type)
  /\ ValidateCallingConvention(sig.convention)

-----------------------------------------------------------------------------
(* What the schema admits, what validate_entry accepts of a document, and  *)
(* what the live tool accepts.  A rename does not check its selector.      *)

Renames == {"rename_function", "rename_symbol"}

Schema(e) ==
  CASE e.kind \in Renames -> SchemaName(e.target) /\ SchemaName(e.new_name)
    [] e.kind = "rename_local_variable" ->
         SchemaName(e.function) /\ SchemaName(e.target) /\ SchemaName(e.new_name)
    [] e.kind = "set_comment" -> SchemaName(e.address) /\ e.text # "long"
    [] e.kind = "set_function_signature" ->
         /\ SchemaName(e.function) /\ SchemaTypeRef(e.returns) /\ Len(e.parameters) <= MaxFields
         /\ \A i \in DOMAIN e.parameters :
              SchemaName(e.parameters[i].name) /\ SchemaTypeRef(e.parameters[i].type)
    [] e.kind = "apply_data_type" -> SchemaName(e.address) /\ SchemaTypeRef(e.type)
    [] e.kind \in {"struct", "union"} -> SchemaComposite(e)
    [] e.kind = "define_types" ->
         Len(e.types) \in 1..MaxFields /\ \A i \in DOMAIN e.types : SchemaComposite(e.types[i])
    [] e.kind = "read_bytes" -> TRUE

(* The checks that both make; a batch still has its cycle search to pass.  *)
Common(e) ==
  CASE e.kind \in Renames -> ValidateWriteName(e.new_name)
    [] e.kind = "rename_local_variable" ->
         ValidateName(e.function) /\ ValidateTargetRef(e.target) /\ ValidateWriteName(e.new_name)
    [] e.kind = "set_comment" ->
         ParseAddress(e.address) /\ (e.text = "absent" \/ ValidateCommentText(e.text))
    [] e.kind = "set_function_signature" -> ValidateSignature(e)
    [] e.kind = "apply_data_type" -> ParseAddress(e.address) /\ ValidateTypeRef(e.type)
    [] e.kind \in {"struct", "union"} -> ValidateComposite(e)
    [] e.kind = "define_types" -> ValidateBatchShape(e.types)
    [] e.kind = "read_bytes" -> ValidateByteRange(e.offset, e.length)

LiveTool(e)      == Schema(e) /\ Common(e)
ValidateEntry(e) == Schema(e) /\ Common(e) /\ (e.kind \in Renames => ValidateName(e.target))

Decide(accepts) == checking' = "done" /\ verdict' = accepts /\ UNCHANGED <<entry, walk>>

NamesOf(types) == {types[i].name : i \in DOMAIN types}

Check ==
  /\ checking = "received"
  /\ IF entry.kind = "define_types" /\ LiveTool(entry)
     THEN /\ checking' = "walking" /\ UNCHANGED <<entry, verdict>>
          /\ walk' = [stack |-> <<>>, next |-> 1, node |-> "", field |-> 1, last |-> 0,
                      colour |-> [n \in NamesOf(entry.types) |-> "white"]]
     ELSE Decide((IF ValidateEntry(entry) THEN {"document"} ELSE {})
                 \cup (IF LiveTool(entry) THEN {"tool"} ELSE {}))

-----------------------------------------------------------------------------
(* _detect_by_value_cycle.  The types a composite embeds by value, the     *)
(* code's adjacency, are met here as the loop over them meets them: in     *)
(* field order, each at the first field that embeds it.                    *)

FieldsOf(types, name) == types[CHOOSE i \in DOMAIN types : types[i].name = name].fields

IsTarget(types, fields, i) ==
  LET name == fields[i].type.named
  IN /\ name \in NamesOf(types) /\ Embeds(fields[i], name)
     /\ \A j \in 1..i - 1 : ~Embeds(fields[j], name)

Looking == walk.field <= walk.last   \* in the loop over a node's targets

(* The next type to start from, when the stack is empty. *)
StartWalk ==
  /\ checking = "walking" /\ ~Looking /\ walk.stack = <<>> /\ walk.next <= Len(entry.types)
  /\ LET name == entry.types[walk.next].name
     IN walk' = [walk EXCEPT !.next = @ + 1,
                   !.stack = IF walk.colour[name] = "white" THEN <<[node |-> name, mark |-> "enter"]>>
                             ELSE <<>>]
  /\ UNCHANGED <<entry, checking, verdict>>

(* Mutant: a node is black as soon as it is entered. *)
EnterNodeBlack(name) ==
  walk' = [walk EXCEPT !.colour[name] = "black", !.node = name,
             !.field = 1, !.last = Len(FieldsOf(entry.types, name)),
             !.stack = Append(Front(@), [node |-> name, mark |-> "leave"])]

(* A white node turns grey, and its marker takes its place on the stack. *)
EnterNode(name) ==
  walk' = [walk EXCEPT !.colour[name] = "grey", !.node = name,
             !.field = 1, !.last = Len(FieldsOf(entry.types, name)),
             !.stack = Append(Front(@), [node |-> name, mark |-> "leave"])]

(* One turn of the loop: leave a node, skip one already seen, or enter it. *)
PopNode ==
  /\ checking = "walking" /\ ~Looking /\ walk.stack # <<>>
  /\ LET top == Last(walk.stack)
     IN \/ /\ top.mark = "leave"
           /\ walk' = [walk EXCEPT !.stack = Front(@), !.colour[top.node] = "black"]
        \/ /\ top.mark = "enter" /\ walk.colour[top.node] # "white"
           /\ walk' = [walk EXCEPT !.stack = Front(@)]
        \/ /\ top.mark = "enter" /\ walk.colour[top.node] = "white"
           /\ EnterNode(top.node)
  /\ UNCHANGED <<entry, checking, verdict>>

(* The next field of the node entered: a grey target is on the way to      *)
(* itself, a white one is pushed.                                          *)
PushTarget ==
  /\ checking = "walking" /\ Looking
  /\ LET fields == FieldsOf(entry.types, walk.node)
         target == fields[walk.field].type.named
         white  == IsTarget(entry.types, fields, walk.field) /\ walk.colour[target] = "white"
     IN IF IsTarget(entry.types, fields, walk.field) /\ walk.colour[target] = "grey" THEN Decide({})
        ELSE /\ walk' = [walk EXCEPT !.field = @ + 1,
                           !.stack = IF white THEN Append(@, [node |-> target, mark |-> "enter"]) ELSE @]
             /\ UNCHANGED <<entry, checking, verdict>>

EndWalk ==
  /\ checking = "walking" /\ ~Looking /\ walk.stack = <<>> /\ walk.next > Len(entry.types)
  /\ Decide({"document", "tool"})

-----------------------------------------------------------------------------
Texts == {"", "name", "selector", "control", "long"}
TypeRefs ==
  [base : {"absent", "int", "other"}, named : {"absent", "name", "selector"},
   pointers : {0, MaxPointers, MaxPointers + 1}, array : {<<>>, <<0>>, <<MaxArray>>, <<MaxArray + 1>>}]
PlainInt == [base |-> "int", named |-> "absent", pointers |-> 0, array |-> <<>>]

Ref(name, pointers) == [PlainInt EXCEPT !.base = "absent", !.named = name, !.pointers = pointers]

(* Batches by what each type holds of each other: nothing, by value or,    *)
(* in one place, by pointer.                                               *)
Batches ==
  LET Names == SetToSeq(TypeNames)
      Cells == TypeNames \X TypeNames
      Held  == {h \in [Cells -> {"no", "value", "pointer"}] :
                  Cardinality({c \in Cells : h[c] = "pointer"}) <= 1}
      Spec(h, n) ==
        LET held == SelectSeq(Names, LAMBDA m : h[<<n, m>>] # "no")
        IN [kind |-> "struct", name |-> n,
            fields |-> <<[name |-> "first", type |-> PlainInt, offset |-> <<>>]>>
                       \o [i \in DOMAIN held |->
                             [name |-> held[i], offset |-> <<>>,
                              type |-> Ref(held[i], IF h[<<n, held[i]>>] = "value" THEN 0 ELSE 1)]]]
  IN {[kind |-> "define_types", types |-> [i \in DOMAIN Names |-> Spec(h, Names[i])]] : h \in Held}

Submitted ==
  LET Fields == [name : {"name", "selector"}, type : {PlainInt, Ref("self", 0), Ref("self", 1)},
                 offset : {<<>>, <<0>>, <<MaxOffset>>}]
      Lists  == UNION {[1..n -> Fields] : n \in 0..2}
  IN [kind : Renames, target : Texts, new_name : Texts]
     \cup [kind : {"rename_local_variable"}, function : Texts, target : Texts, new_name : Texts]
     \cup [kind : {"set_comment"}, address : {"", "address", "name"}, text : {"absent", "text", "", "long"}]
     \cup [kind : {"set_function_signature"}, function : {"name", "control"}, returns : TypeRefs,
           parameters : {<<>>} \cup [{1} -> [name : Texts, type : {PlainInt, Ref("selector", 0)}]],
           convention : {"absent", "__cdecl", "other"}]
     \cup [kind : {"apply_data_type"}, address : {"", "address", "name"}, type : TypeRefs]
     \cup [kind : {"struct", "union"}, name : {"self", "selector", "long"}, fields : Lists]
     \cup [kind : {"read_bytes"}, offset : 0..MaxAddress + 1, length : 0..MaxReadBytes + 1]
     \cup [kind : {"define_types"}, types : {<<>>} \cup [1..2 -> [kind : {"struct"}, name : {"self"},
             fields : {<<[name |-> "name", type |-> PlainInt, offset |-> <<>>]>>}]]]
     \cup Batches

NoWalk == [stack |-> <<>>, next |-> 1, node |-> "", field |-> 1, last |-> 0, colour |-> <<>>]

BoundaryIdle ==
  entry = [kind |-> "none"] /\ checking = "idle" /\ walk = NoWalk /\ verdict = {}

(* What a parsed request is: a list is a list, a number a number. *)
IsList(s) == Len(s) \in Nat /\ DOMAIN s = 1..Len(s)
WellFormed(e) ==
  /\ e.kind = "define_types" =>
       /\ IsList(e.types) /\ \A i \in DOMAIN e.types : IsList(e.types[i].fields)
  /\ e.kind = "read_bytes" => e.offset \in Int /\ e.length \in Int

Received == WellFormed(entry) /\ checking = "received" /\ walk = NoWalk /\ verdict = {}

BoundaryInit == entry \in Submitted /\ Received

BoundaryNext == Check \/ StartWalk \/ PopNode \/ PushTarget \/ EndWalk

(* Any request at all, TLC's and the ones it has no room for. *)
BoundarySpec == Received /\ [][BoundaryNext]_boundaryVars

-----------------------------------------------------------------------------
(* Types of which none can be laid out before another of them has been. *)
HasInside(types, a, b) == \E f \in DOMAIN FieldsOf(types, a) : Embeds(FieldsOf(types, a)[f], b)
Circular(types, S) == S # {} /\ \A a \in S : \E b \in S : HasInside(types, a, b)
Buildable(types)   == \A S \in SUBSET NamesOf(types) : ~Circular(types, S)

(* Who must let the entry e pass. *)
ExactFor(e, accepts) ==
  /\ e.kind = "define_types" =>
       accepts = (IF LiveTool(e) /\ Buildable(e.types) THEN {"document", "tool"} ELSE {})
  /\ e.kind = "read_bytes" =>
       ("tool" \in accepts <=> e.length \in 1..MaxReadBytes
                              /\ e.offset..e.offset + e.length - 1 \subseteq 0..MaxAddress)
  /\ "document" \in accepts => "tool" \in accepts

(* What passes the boundary can be built, and what can be built passes.    *)
(* The cycle search lets a well-shaped batch through exactly when its      *)
(* types can be laid out one after another, so that none contains itself   *)
(* by value through any number of others: an embedding by pointer never    *)
(* counts, and the worker is never asked to lay out a type without a size. *)
(* A read passes exactly when it is short enough and its last byte has an  *)
(* address.  No entry of an imported document passes that the live tool    *)
(* refuses (validate_entry).                                               *)
BoundaryExact == checking = "done" => ExactFor(entry, verdict)

-----------------------------------------------------------------------------
(* What the search keeps, of the batch t and its state w: what the proof   *)
(* that it is exact rests on.                                              *)

LeavesAt(w, j) == w.stack[j].mark = "leave"
NodeAt(w, j)   == w.stack[j].node
OnPath(w, i, j) == i < j /\ LeavesAt(w, i) /\ \A k \in i + 1..j - 1 : ~LeavesAt(w, k)

StackEntry(t) == [node : NamesOf(t), mark : {"enter", "leave"}]
WalkTypes(t, w) ==
  /\ DOMAIN w = {"stack", "next", "node", "field", "last", "colour"}
  /\ w.stack \in Seq(StackEntry(t)) /\ w.colour \in [NamesOf(t) -> {"white", "grey", "black"}]
  /\ w.next \in 1..Len(t) + 1 /\ w.field \in Nat \ {0} /\ w.last \in Nat
  /\ w.last # 0 => w.node \in NamesOf(t) /\ w.last = Len(FieldsOf(t, w.node))

(* What a black type embeds is black, and the black ones can be built. *)
BlackClosed(t, w) ==
  \A a, b \in NamesOf(t) : w.colour[a] = "black" /\ HasInside(t, a, b) => w.colour[b] = "black"
BlackBuildable(t, w) ==
  \A S \in SUBSET NamesOf(t) : (\A a \in S : w.colour[a] = "black") => ~Circular(t, S)

(* The grey types are those with a marker on the stack, one each; what is  *)
(* above a marker was pushed while its type was grey, so is another type.  *)
GreyMarked(t, w) ==
  \A a \in NamesOf(t) : w.colour[a] = "grey" => \E j \in DOMAIN w.stack : LeavesAt(w, j) /\ NodeAt(w, j) = a
MarkedGrey(w) == \A j \in DOMAIN w.stack : LeavesAt(w, j) => w.colour[NodeAt(w, j)] = "grey"
AboveDiffers(w) == \A i, j \in DOMAIN w.stack : i < j /\ LeavesAt(w, i) => NodeAt(w, i) # NodeAt(w, j)

(* From a marker to the next, and to what waits above it, by embedding. *)
Linked(t, w) ==
  \A i, j \in DOMAIN w.stack : OnPath(w, i, j) => HasInside(t, NodeAt(w, i), NodeAt(w, j))

(* What a grey type embeds is black, waits above its marker, or is in a    *)
(* field yet to be looked at.                                              *)
Reached(w, i, b) == w.colour[b] = "black" \/ \E j \in DOMAIN w.stack : j > i /\ NodeAt(w, j) = b
Awaited(t, w) ==
  \A i \in DOMAIN w.stack : LeavesAt(w, i) =>
    \A f \in DOMAIN FieldsOf(t, NodeAt(w, i)), b \in NamesOf(t) :
      Embeds(FieldsOf(t, NodeAt(w, i))[f], b) =>
        Reached(w, i, b) \/ (NodeAt(w, i) = w.node /\ f \in w.field..w.last)

(* The fields looked at are those of the topmost marker's type. *)
LooksAtTop(w) ==
  w.field <= w.last => \E i \in DOMAIN w.stack :
    /\ LeavesAt(w, i) /\ NodeAt(w, i) = w.node
    /\ \A j \in DOMAIN w.stack : j > i => ~LeavesAt(w, j)

(* No type started from is forgotten. *)
Started(t, w) ==
  \A i \in 1..w.next - 1 :
    w.colour[t[i].name] # "white" \/ \E j \in DOMAIN w.stack : NodeAt(w, j) = t[i].name

WalkInv(t, w) ==
  /\ WalkTypes(t, w) /\ BlackClosed(t, w) /\ BlackBuildable(t, w) /\ GreyMarked(t, w) /\ MarkedGrey(w)
  /\ AboveDiffers(w) /\ Linked(t, w) /\ Awaited(t, w) /\ LooksAtTop(w) /\ Started(t, w)

BoundaryInv ==
  /\ WellFormed(entry) /\ BoundaryExact
  /\ checking = "walking" =>
       /\ entry.kind = "define_types" /\ LiveTool(entry)
       /\ WalkInv(entry.types, walk)

=============================================================================
