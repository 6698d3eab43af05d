----------------------------- MODULE GraphExport -----------------------------
(***************************************************************************)
(* The graph exporter (graph_export/): a client that opens a session, has  *)
(* a binary analysed, pulls what the read tools return (driver.py), maps   *)
(* it to nodes and edges (mapper.py) and upserts them into a store         *)
(* (sink.py), then closes the session.                                     *)
(*                                                                         *)
(* Any tool call and any call of the store may fail.  Facts are told apart *)
(* by the address they are about: functions and exports (listed page by    *)
(* page), calls, the analyst's renames and comments; the other listings    *)
(* become nodes in the same two ways, by address or by value.  The store   *)
(* is external: it returns a key for all, some or none of what it is sent. *)
(***************************************************************************)
EXTENDS Naturals, Sequences, FiniteSets

CONSTANTS
  ProgramFunctions,  \* addresses of the program's functions, as listed
  CallNodes, Calls,  \* what call_graph returns: addresses, pairs of addresses
  Exported,          \* addresses of its exports, as listed
  Renamed,           \* the functions the analyst renamed
  Commented,         \* the addresses the analyst commented
  PageSize,          \* page_size
  Caps,              \* values of max_functions and max_exports
  ChunkSize,         \* _CHUNK
  MaxUnkeyed         \* bound: nodes of a chunk the store returns no key for

ASSUME ExportConstants ==
  /\ {ProgramFunctions, CallNodes, Exported, Commented} \subseteq Seq(Nat)
  /\ Calls \in Seq(Nat \X Nat) /\ Caps \subseteq Nat
  /\ PageSize \in Nat \ {0} /\ ChunkSize \in Nat \ {0} /\ MaxUnkeyed \in Nat

VARIABLES
  step,      \* where the exporter is
  session,   \* "none", "open", "closed" or "unclosed" (its close failed)
  ended,     \* how the export ended: "no", with "stats", "aborted" or "raised"
  facts,     \* SessionSources
  failed,    \* the tools that failed
  batch,     \* _Builder: nodes and edges, in order
  item,      \* the position in the list the exporter is working through
  acked,     \* the nodes the store returned a key for
  payloads,  \* the edges to push, with the nodes their endpoints resolved to
  skipped,   \* stats.edges_skipped
  upserted,  \* how many of the payloads the store has taken
  plan       \* options: the flags, max_functions and max_exports

exportVars ==
  <<step, session, ended, facts, failed, batch, item, acked, payloads, skipped, upserted, plan>>

pullVars == <<facts, failed>>
pushVars == <<acked, payloads, skipped, upserted>>

NoFacts == [functions |-> <<>>, exports |-> <<>>, truncated |-> {}, nodes |-> <<>>,
            calls |-> <<>>, renames |-> {}, comments |-> <<>>]

NoBatch == [nodes |-> <<>>, edges |-> <<>>]

ExportStart ==
  /\ step = "create" /\ session = "none" /\ ended = "no" /\ facts = NoFacts /\ failed = {}
  /\ batch = NoBatch /\ item = 1 /\ acked = {} /\ payloads = <<>> /\ skipped = 0 /\ upserted = 0

ExportIdle == ExportStart /\ plan = [flags |-> {}, functions |-> 1, exports |-> 1]

ExportInit ==
  /\ ExportStart
  /\ plan \in [flags : SUBSET {"export_on_close", "corpus"}, functions : Caps, exports : Caps]

-----------------------------------------------------------------------------
(* main: a session, its binary, the export and the close. *)

Create(reply) ==
  /\ step = "create"
  /\ session' = IF reply = "ok" THEN "open" ELSE "none"
  /\ step' = IF reply = "ok" THEN "import" ELSE "exit"
  /\ UNCHANGED <<ended, pullVars, batch, item, pushVars, plan>>

(* An exception of the export: with export_on_close it is reported as an   *)
(* aborted export, else it is raised; the session is closed either way.    *)
Abort ==
  /\ step' = "close"
  /\ IF "export_on_close" \in plan.flags
     THEN ended' = "aborted" /\ failed' = {"export-aborted"}
     ELSE ended' = "raised" /\ UNCHANGED failed
  /\ UNCHANGED <<session, facts, batch, item, pushVars, plan>>

(* session_import and session_analyze; an error leaves through the close.  *)
ImportAndAnalyze(reply) ==
  /\ step = "import"
  /\ step' = IF reply = "ok" THEN "metadata" ELSE "close"
  /\ ended' = IF reply = "ok" THEN ended ELSE "raised"
  /\ UNCHANGED <<session, pullVars, batch, item, pushVars, plan>>

Close(reply) ==
  /\ step = "close"
  /\ session' = IF reply = "ok" THEN "closed" ELSE "unclosed"
  /\ step' = "exit"
  /\ UNCHANGED <<ended, pullVars, batch, item, pushVars, plan>>

-----------------------------------------------------------------------------
(* gather_sources *)

(* program_metadata is mandatory. *)
GatherMetadata(reply) ==
  /\ step = "metadata"
  /\ \/ /\ reply = "ok" /\ step' = "functions"
        /\ UNCHANGED <<session, ended, pullVars, batch, item, pushVars, plan>>
     \/ reply # "ok" /\ Abort

(* _paginate, a page a step: until one is short, empty or fails, or the    *)
(* cap is reached, which counts as truncated.                              *)
Paginate(tool, listing, rows, next, reply) ==
  LET got   == Len(facts[listing])
      cap   == plan[listing]
      limit == IF PageSize < cap - got THEN PageSize ELSE cap - got
      upto  == IF got + limit < Len(rows) THEN got + limit ELSE Len(rows)
  IN /\ step = listing
     /\ \/ /\ got >= cap
           /\ facts' = [facts EXCEPT !.truncated = @ \cup {listing}]
           /\ step' = next /\ UNCHANGED failed
        \/ /\ got < cap /\ reply = "ok"
           /\ facts' = [facts EXCEPT ![listing] = @ \o SubSeq(rows, got + 1, upto)]
           /\ step' = (IF upto < got + limit THEN next ELSE listing) /\ UNCHANGED failed
        \/ /\ got < cap /\ reply # "ok"
           /\ failed' = failed \cup {tool}
           /\ step' = next /\ UNCHANGED facts
     /\ UNCHANGED <<session, ended, batch, item, pushVars, plan>>

GatherFunctions(reply) ==
  Paginate("list_functions", "functions", ProgramFunctions, "call_graph", reply)

GatherExports(reply) ==
  Paginate("list_exports", "exports", Exported, "annotations", reply)

(* The rows are validated outside the guard of the call: one that does not *)
(* validate ends the export, unlike a call that fails.                     *)
BadRow == step \in {"functions", "exports"} /\ Abort

(* _safe: a tool that fails is noted and the rest goes on. *)
Gathered(tool, got, next, reply) ==
  /\ facts' = IF reply = "ok" THEN got ELSE facts
  /\ failed' = IF reply = "ok" THEN failed ELSE failed \cup {tool}
  /\ step' = next
  /\ UNCHANGED <<session, ended, batch, item, pushVars, plan>>

(* call_graph's nodes include functions a clipped listing does not. *)
GatherCallGraph(reply) ==
  /\ step = "call_graph"
  /\ Gathered("call_graph", [facts EXCEPT !.nodes = CallNodes, !.calls = Calls], "exports", reply)

GatherAnnotations(reply) ==
  /\ step = "annotations"
  /\ Gathered("session_export_annotations",
              [facts EXCEPT !.renames = Renamed, !.comments = Commented], "add_program", reply)

-----------------------------------------------------------------------------
(* build_graph, a node or an edge a step.  A node's local id is its kind   *)
(* and its address, or its name when it has none; an endpoint is a local   *)
(* id, or an address in the place of one.                                  *)

LocalId(kind, key) == [kind |-> kind, key |-> key]
ByAddress(a)       == LocalId("@ADDR", a)
Addressable        == {"FUNCTION", "EXPORT"}

Node(kind, key, layer) == [id |-> LocalId(kind, key), layer |-> layer]
Edge(type, src, dst)   == [type |-> type, src |-> src, dst |-> dst]

(* Mutant: the later node replaces the earlier. *)
BuilderNodeLast(nodes, node) ==
  IF \E i \in DOMAIN nodes : nodes[i].id = node.id
  THEN [i \in DOMAIN nodes |-> IF nodes[i].id = node.id THEN node ELSE nodes[i]]
  ELSE Append(nodes, node)

(* _Builder.node: a node already there keeps its name and provenance       *)
(* unless the new one is curated.                                          *)
BuilderNode(nodes, node) ==
  IF \E i \in DOMAIN nodes : nodes[i].id = node.id
  THEN [i \in DOMAIN nodes |->
          IF nodes[i].id = node.id /\ node.layer = "curated" THEN node ELSE nodes[i]]
  ELSE Append(nodes, node)

(* _Builder.edge: an edge already there is kept once. *)
BuilderEdge(edges, edge) ==
  IF \E i \in DOMAIN edges : edges[i] = edge THEN edges ELSE Append(edges, edge)

ProgramNode     == Node("PROGRAM", 0, "raw")
FunctionNode(a) == Node("FUNCTION", a, IF a \in facts.renames THEN "curated" ELSE "raw")
CallNode(a)     == Node("FUNCTION", a, "raw")
ExportNode(a)   == Node("EXPORT", a, "raw")
CommentNode(a)  == Node("COMMENT", a, "curated")

FunctionEdge(a) == Edge("CONTAINS", ProgramNode.id, LocalId("FUNCTION", a))
CallEdge(c)     == Edge("CALLS", ByAddress(c[1]), ByAddress(c[2]))
ExportEdge(a)   == Edge("EXPORTS", ProgramNode.id, LocalId("EXPORT", a))
CommentEdge(a)  == Edge("ANNOTATES", LocalId("COMMENT", a), ByAddress(a))

(* A loop of the builder over a list: one element a step, then the next    *)
(* loop.                                                                   *)
Adding(loop, list, next, added(_)) ==
  /\ step = loop
  /\ \/ /\ item <= Len(list)
        /\ batch' = added(list[item]) /\ item' = item + 1 /\ UNCHANGED step
     \/ /\ item > Len(list)
        /\ step' = next /\ item' = 1 /\ UNCHANGED batch
  /\ UNCHANGED <<session, ended, pullVars, pushVars, plan>>

WithNode(node)       == [batch EXCEPT !.nodes = BuilderNode(@, node)]
WithEdge(edge)       == [batch EXCEPT !.edges = BuilderEdge(@, edge)]
WithBoth(node, edge) == [nodes |-> BuilderNode(batch.nodes, node), edges |-> BuilderEdge(batch.edges, edge)]

AddProgram ==
  /\ step = "add_program"
  /\ batch' = WithNode(ProgramNode) /\ step' = "add_functions"
  /\ UNCHANGED <<session, ended, pullVars, item, pushVars, plan>>

AddFunctions ==
  Adding("add_functions", facts.functions, "add_call_nodes",
         LAMBDA a : WithBoth(FunctionNode(a), FunctionEdge(a)))

AddCallNodes == Adding("add_call_nodes", facts.nodes, "add_calls", LAMBDA a : WithNode(CallNode(a)))

AddCalls == Adding("add_calls", facts.calls, "add_exports", LAMBDA c : WithEdge(CallEdge(c)))

AddExports ==
  Adding("add_exports", facts.exports, "add_comments",
         LAMBDA a : WithBoth(ExportNode(a), ExportEdge(a)))

AddComments ==
  Adding("add_comments", facts.comments, "nodes",
         LAMBDA a : WithBoth(CommentNode(a), CommentEdge(a)))

-----------------------------------------------------------------------------
(* push_batch *)

(* _upsert_nodes, a chunk a step: a result that is missing, or has no key, *)
(* leaves its node out of the indexes; a chunk that fails ends the export. *)
UpsertNodes ==
  /\ step = "nodes"
  /\ LET chunk == {i \in DOMAIN batch.nodes : i \in item .. item + ChunkSize - 1}
     IN \/ /\ item <= Len(batch.nodes)
           /\ \E keyed \in SUBSET chunk :
                Cardinality(chunk \ keyed) <= MaxUnkeyed /\ acked' = acked \cup keyed
           /\ item' = item + ChunkSize /\ UNCHANGED step
        \/ item > Len(batch.nodes) /\ step' = "resolve" /\ item' = 1 /\ UNCHANGED acked
  /\ UNCHANGED <<session, ended, pullVars, batch, payloads, skipped, upserted, plan>>

(* ensure_project, or a chunk of nodes. *)
PushFails == step = "nodes" /\ Abort

AtEnd(node, end) ==
  IF end.kind = "@ADDR" THEN node.id.kind \in Addressable /\ node.id.key = end.key ELSE node.id = end

(* The node an endpoint resolves to, or 0.  By address it is the last node *)
(* of the batch that has it.                                               *)
Resolve(end) ==
  LET match == {i \in acked : AtEnd(batch.nodes[i], end)}
  IN IF match = {} THEN 0 ELSE CHOOSE i \in match : \A j \in match : j <= i

(* _resolve_edges, an edge a step: it goes with both ends or not at all.   *)
ResolveEdges ==
  /\ step = "resolve"
  /\ \/ /\ item <= Len(batch.edges)
        /\ LET e == batch.edges[item]
           IN IF Resolve(e.src) = 0 \/ Resolve(e.dst) = 0
              THEN skipped' = skipped + 1 /\ UNCHANGED payloads
              ELSE /\ payloads' = Append(payloads, [edge |-> e, src |-> Resolve(e.src), dst |-> Resolve(e.dst)])
                   /\ UNCHANGED skipped
        /\ item' = item + 1 /\ UNCHANGED step
     \/ item > Len(batch.edges) /\ step' = "edges" /\ UNCHANGED <<item, payloads, skipped>>
  /\ UNCHANGED <<session, ended, pullVars, batch, acked, upserted, plan>>

(* upsert_edges, a chunk a step.  export_session returns its stats when    *)
(* the corpus, if asked for, has been pushed too.                          *)
UpsertEdges(reply) ==
  /\ step = "edges"
  /\ \/ /\ upserted < Len(payloads) /\ reply = "ok"
        /\ upserted' = IF upserted + ChunkSize < Len(payloads) THEN upserted + ChunkSize ELSE Len(payloads)
        /\ UNCHANGED <<step, session, ended, pullVars, batch, item, acked, payloads, skipped, plan>>
     \/ upserted < Len(payloads) /\ reply # "ok" /\ Abort
     \/ /\ upserted >= Len(payloads)
        /\ IF "corpus" \in plan.flags THEN step' = "corpus" /\ UNCHANGED ended
           ELSE step' = "close" /\ ended' = "stats"
        /\ UNCHANGED <<session, pullVars, batch, item, pushVars, plan>>

(* push_corpus comes after the push it cannot take back. *)
PushCorpus(reply) ==
  /\ step = "corpus"
  /\ \/ /\ reply = "ok" /\ step' = "close" /\ ended' = "stats"
        /\ UNCHANGED <<session, pullVars, batch, item, pushVars, plan>>
     \/ reply # "ok" /\ Abort

ExportNext ==
  \/ BadRow \/ AddProgram \/ AddFunctions \/ AddCallNodes \/ AddCalls \/ AddExports \/ AddComments
  \/ UpsertNodes \/ PushFails \/ ResolveEdges
  \/ \E reply \in {"ok", "error"} :
       \/ Create(reply) \/ ImportAndAnalyze(reply) \/ Close(reply) \/ GatherMetadata(reply)
       \/ GatherFunctions(reply) \/ GatherCallGraph(reply) \/ GatherExports(reply)
       \/ GatherAnnotations(reply) \/ UpsertEdges(reply) \/ PushCorpus(reply)

ExportSpec == ExportInit /\ [][ExportNext]_exportVars

-----------------------------------------------------------------------------
(* The first n of a list have their nodes and edges in the batch b. *)
HasNode(b, id)   == \E i \in DOMAIN b.nodes : b.nodes[i].id = id
HasEdge(b, edge) == \E i \in DOMAIN b.edges : b.edges[i] = edge

NamesKept(b, f, a) ==
  a \in f.renames => \A i \in DOMAIN b.nodes : b.nodes[i].id = LocalId("FUNCTION", a) => b.nodes[i].layer = "curated"

FunctionsMapped(b, f, n) ==
  \A k \in 1 .. n : /\ HasNode(b, LocalId("FUNCTION", f.functions[k])) /\ HasEdge(b, FunctionEdge(f.functions[k]))
                    /\ NamesKept(b, f, f.functions[k])
CallsMapped(b, f, n)    == \A k \in 1 .. n : HasEdge(b, CallEdge(f.calls[k]))
ExportsMapped(b, f, n)  ==
  \A k \in 1 .. n : HasNode(b, LocalId("EXPORT", f.exports[k])) /\ HasEdge(b, ExportEdge(f.exports[k]))
CommentsMapped(b, f, n) ==
  \A k \in 1 .. n : HasNode(b, LocalId("COMMENT", f.comments[k])) /\ HasEdge(b, CommentEdge(f.comments[k]))

Mapped(b, f) ==
  /\ FunctionsMapped(b, f, Len(f.functions)) /\ CallsMapped(b, f, Len(f.calls))
  /\ ExportsMapped(b, f, Len(f.exports)) /\ CommentsMapped(b, f, Len(f.comments))

(* A listing holds all there is, or says that it does not. *)
ListingHonest(f, tools, listing, rows, tool) == f[listing] = rows \/ listing \in f.truncated \/ tool \in tools

(* The end of an edge is the node the fact was about: the very node, or    *)
(* one at its address; and the store has it.                               *)
EndIs(b, keyed, i, end) == i \in keyed /\ i \in DOMAIN b.nodes /\ AtEnd(b.nodes[i], end)
NoEnd(b, keyed, end)    == \A i \in keyed : ~AtEnd(b.nodes[i], end)

PayloadTrue(b, keyed, p) ==
  HasEdge(b, p.edge) /\ EndIs(b, keyed, p.src, p.edge.src) /\ EndIs(b, keyed, p.dst, p.edge.dst)

(* An edge is left out only if the store has nothing at one of its ends.   *)
SentOrEndless(b, keyed, ps, e) ==
  (\E i \in DOMAIN ps : ps[i].edge = e) \/ NoEnd(b, keyed, e.src) \/ NoEnd(b, keyed, e.dst)

Distinct(b) ==
  /\ \A i, j \in DOMAIN b.nodes : b.nodes[i].id = b.nodes[j].id => i = j
  /\ \A i, j \in DOMAIN b.edges : b.edges[i] = b.edges[j] => i = j

(* Whatever fails on the way: no edge is fabricated, and an exporter that  *)
(* ends leaves no session open unless the close itself failed.  When stats *)
(* are returned, each edge was pushed or is counted as skipped, and it is  *)
(* skipped only if the store has no node at one of its ends; every         *)
(* function, call, export and comment that was gathered is in the graph,   *)
(* once; the analyst's name survives the call graph's node of the same     *)
(* function; and a listing that is not whole is marked as truncated or its *)
(* tool is among the failed.                                               *)
ExportFaithful ==
  /\ \A i \in DOMAIN payloads : PayloadTrue(batch, acked, payloads[i])
  /\ step = "exit" => session # "open"
  /\ ended = "stats" =>
       /\ upserted = Len(payloads) /\ upserted + skipped = Len(batch.edges)
       /\ \A k \in DOMAIN batch.edges : SentOrEndless(batch, acked, payloads, batch.edges[k])
       /\ Mapped(batch, facts) /\ Distinct(batch)
       /\ ListingHonest(facts, failed, "functions", ProgramFunctions, "list_functions")
       /\ ListingHonest(facts, failed, "exports", Exported, "list_exports")

-----------------------------------------------------------------------------
(* What each stage of an export leaves for the ones that follow: what the  *)
(* proof that it is faithful rests on.                                     *)

AllResolved == {"edges", "corpus"}
Pushing     == {"nodes", "resolve"} \cup AllResolved
PastExports == {"add_comments"} \cup Pushing
PastCalls   == {"add_exports"} \cup PastExports
PastNodes   == {"add_calls"} \cup PastCalls
PastFunctions == {"add_call_nodes"} \cup PastNodes
PastListings  == {"annotations", "add_program", "add_functions"} \cup PastFunctions
Pulling       == {"create", "import", "metadata", "functions", "call_graph", "exports",
                  "annotations", "add_program"}

(* Once the stages of a set are reached, and in what the stats describe. *)
From(stages) == step \in stages \/ ended = "stats"

Kinds     == {"PROGRAM", "COMMENT", "@ADDR"} \cup Addressable
Endpoints == [kind : Kinds, key : Nat]
NodeSpecs == [id : Endpoints, layer : {"raw", "curated"}]
EdgeSpecs == [type : {"CONTAINS", "CALLS", "EXPORTS", "ANNOTATES"}, src : Endpoints, dst : Endpoints]

StartOf(list, rows) == Len(list) <= Len(rows) /\ list = SubSeq(rows, 1, Len(list))

FactTypes(f) ==
  /\ DOMAIN f = {"functions", "exports", "truncated", "nodes", "calls", "renames", "comments"}
  /\ StartOf(f.functions, ProgramFunctions) /\ StartOf(f.exports, Exported)
  /\ f.functions \in Seq(Nat) /\ f.exports \in Seq(Nat) /\ f.nodes \in Seq(Nat)
  /\ f.calls \in Seq(Nat \X Nat) /\ f.comments \in Seq(Nat)

BatchTypes(b) ==
  /\ DOMAIN b = {"nodes", "edges"}
  /\ b.nodes \in Seq(NodeSpecs) /\ b.edges \in Seq(EdgeSpecs)
  /\ Distinct(b)

ExportTypes ==
  /\ FactTypes(facts) /\ BatchTypes(batch)
  /\ DOMAIN plan = {"flags", "functions", "exports"} /\ plan.functions \in Nat /\ plan.exports \in Nat
  /\ item \in Nat \ {0} /\ skipped \in Nat /\ upserted \in Nat
  /\ Len(payloads) \in Nat /\ DOMAIN payloads = 1 .. Len(payloads)

PullInv ==
  /\ From({"call_graph", "exports"} \cup PastListings) =>
       ListingHonest(facts, failed, "functions", ProgramFunctions, "list_functions")
  /\ From(PastListings) => ListingHonest(facts, failed, "exports", Exported, "list_exports")
  /\ step \in Pulling => item = 1

BuildInv ==
  /\ step = "add_functions" => FunctionsMapped(batch, facts, item - 1)
  /\ From(PastFunctions)    => FunctionsMapped(batch, facts, Len(facts.functions))
  /\ step = "add_calls"     => CallsMapped(batch, facts, item - 1)
  /\ From(PastCalls)        => CallsMapped(batch, facts, Len(facts.calls))
  /\ step = "add_exports"   => ExportsMapped(batch, facts, item - 1)
  /\ From(PastExports)      => ExportsMapped(batch, facts, Len(facts.exports))
  /\ step = "add_comments"  => CommentsMapped(batch, facts, item - 1)
  /\ From(Pushing)          => CommentsMapped(batch, facts, Len(facts.comments))

Accounted(n) ==
  /\ n <= Len(batch.edges) /\ Len(payloads) + skipped = n
  /\ \A k \in 1 .. n : SentOrEndless(batch, acked, payloads, batch.edges[k])

PushInv ==
  /\ acked \subseteq DOMAIN batch.nodes
  /\ step \notin Pushing \cup {"close", "exit"} => acked = {}
  /\ step \notin AllResolved \cup {"resolve", "close", "exit"} => payloads = <<>> /\ skipped = 0
  /\ step \notin AllResolved \cup {"close", "exit"} => upserted = 0
  /\ \A i \in DOMAIN payloads : PayloadTrue(batch, acked, payloads[i])
  /\ upserted <= Len(payloads)
  /\ step = "resolve" => Accounted(item - 1)
  /\ From(AllResolved) => Accounted(Len(batch.edges))
  /\ From({"corpus"}) => upserted = Len(payloads)

EndInv ==
  /\ ended # "no" => step \in {"close", "exit"}
  /\ step = "exit" => session # "open"

ExportInv == ExportTypes /\ PullInv /\ BuildInv /\ PushInv /\ EndInv

=============================================================================
