------------------------------ MODULE CallGraph ------------------------------
(***************************************************************************)
(* The call graph and what is computed from it: the worker's scope and     *)
(* edge collection (ghidra/_jvm_bridge.py), the one-hop, order, context    *)
(* and metrics tools of the adapter (ghidra/rpc_client.py) and the pure    *)
(* algorithms below them (core/callgraph.py, core/metrics.py).  Tarjan's   *)
(* algorithm runs step by step, with the explicit work stack of the code.  *)
(***************************************************************************)
EXTENDS Naturals, Sequences, FiniteSets, SequencesExt

CONSTANTS
  Entries,      \* the entry addresses of the program's functions
  NoFunction,   \* the target of a call that does not resolve
  MaxNodes, MaxEdges, MaxDepth   \* the call's caps

ASSUME GraphConstants ==
  /\ Entries \subseteq Nat /\ IsFiniteSet(Entries) /\ NoFunction \notin Entries
  /\ {MaxNodes, MaxEdges, MaxDepth} \subseteq Nat \ {0}

VARIABLES
  code,     \* the targets of each function's call sites
  ask,      \* the tool called, and its function or root
  graph,    \* the call graph the adapter has been given, if any yet
  tarjan,   \* the state of _tarjan_sccs
  answer    \* what the tool returns

graphVars == <<code, ask, graph, tarjan, answer>>

Sorted(set) == SetToSortSeq(set, LAMBDA a, b : a < b)
NoAnswer    == <<>>

-----------------------------------------------------------------------------
(* The worker. *)

(* Every target is called from two sites, so that repeats happen. *)
IterCallSites(f) ==
  LET once == Sorted(code[f] \ {NoFunction})
                \o (IF NoFunction \in code[f] THEN <<NoFunction>> ELSE <<>>)
  IN once \o once

(* _add *)
AddNode(scope, f) ==
  IF f \in ToSet(scope.nodes) THEN scope
  ELSE IF Len(scope.nodes) >= MaxNodes THEN [scope EXCEPT !.truncated = TRUE]
  ELSE [scope EXCEPT !.nodes = Append(@, f), !.next = Append(@, f)]

NextLevel(scope) ==
  LET calls == FlattenSeq([i \in DOMAIN scope.next |-> IterCallSites(scope.next[i])])
  IN FoldLeft(AddNode, [scope EXCEPT !.next = <<>>],
              SelectSeq(calls, LAMBDA f : f # NoFunction))

(* All functions up to the cap, or those within the depth of the root.     *)
Scope(root, depth) ==
  LET empty == [nodes |-> <<>>, next |-> <<>>, truncated |-> FALSE]
      level[d \in 0..depth] ==
        IF d = 0 THEN AddNode(empty, root) ELSE NextLevel(level[d - 1])
  IN IF root = NoFunction THEN FoldLeft(AddNode, empty, Sorted(Entries)) ELSE level[depth]

(* Each edge between nodes once, up to the cap; a target beyond the scope  *)
(* is left out and is not an unresolved call.                              *)
AddEdge(acc, e) ==
  IF e[2] \notin ToSet(acc.nodes) \/ e \in ToSet(acc.edges) THEN acc
  ELSE IF Len(acc.edges) >= MaxEdges THEN [acc EXCEPT !.truncated = TRUE]
  ELSE [acc EXCEPT !.edges = Append(@, e)]

GhCallGraph(root, depth) ==
  LET scope == Scope(root, depth)
      calls == FlattenSeq([i \in DOMAIN scope.nodes |->
                 LET f == scope.nodes[i]
                     s == IterCallSites(f)
                 IN [j \in DOMAIN s |-> <<f, s[j]>>]])
  IN FoldLeft(AddEdge,
              [nodes |-> scope.nodes, edges |-> <<>>, truncated |-> scope.truncated,
               unresolved |-> {f \in ToSet(scope.nodes) : NoFunction \in code[f]}],
              SelectSeq(calls, LAMBDA e : e[2] # NoFunction))

-----------------------------------------------------------------------------
(* core/callgraph.py, on any graph: ids it has never heard of are nodes.   *)

CollectNodes(g) ==
  ToSet(g.nodes) \cup g.unresolved \cup {e[1] : e \in ToSet(g.edges)} \cup {e[2] : e \in ToSet(g.edges)}

(* The adjacency, each callee once. *)
Adjacency(g) == [f \in CollectNodes(g) |-> {e[2] : e \in {x \in ToSet(g.edges) : x[1] = f}}]

(* _normalize: a call to itself is no edge for the search. *)
Normalize(adj, f) == adj[f] \ {f}

SelfLoops(adj) == {f \in DOMAIN adj : f \in adj[f]}

Smaller(a, b) == IF a < b THEN a ELSE b
Put(fn, x, v) == [y \in DOMAIN fn \cup {x} |-> IF y = x THEN v ELSE fn[y]]

(* _tarjan_sccs visits nodes and successors in their order; a place in     *)
(* that order is kept as the set of those before it, or after it.          *)
Lowest(set) == CHOOSE x \in set : \A y \in set : x <= y

NoTarjan == [roots |-> {}, work |-> <<>>, counter |-> 0, stack |-> <<>>, index |-> <<>>,
             low |-> <<>>, sccs |-> <<>>]

(* A node is first seen: index, low link, stack. *)
Enter(t, f) ==
  [t EXCEPT !.index = Put(@, f, t.counter), !.low = Put(@, f, t.counter),
            !.counter = @ + 1, !.stack = Append(@, f)]

Indexed(t, f) == f \in DOMAIN t.index
OnStack(t, f) == \E i \in DOMAIN t.stack : t.stack[i] = f

(* Mutant: a finished node still lowers the link. *)
VisitAny(t, f, child) ==
  IF ~Indexed(t, child) THEN [t EXCEPT !.work = Append(@, [node |-> child, looked |-> {}])]
  ELSE [t EXCEPT !.low[f] = Smaller(@, t.index[child])]

(* The next child: descend into a new one, or note one still on the stack. *)
Visit(t, f, child) ==
  IF ~Indexed(t, child) THEN [t EXCEPT !.work = Append(@, [node |-> child, looked |-> {}])]
  ELSE IF OnStack(t, child) THEN [t EXCEPT !.low[f] = Smaller(@, t.index[child])]
  ELSE t

(* A root of a component: the stack down to it is the component. *)
PopComponent(t, f) ==
  LET at == CHOOSE i \in DOMAIN t.stack : t.stack[i] = f
  IN [t EXCEPT !.stack = SubSeq(@, 1, at - 1),
               !.sccs = Append(@, {t.stack[i] : i \in at..Len(t.stack)})]

(* A node is done, and its low link goes to its parent. *)
Leave(t, f) ==
  LET done == IF t.low[f] = t.index[f] THEN PopComponent(t, f) ELSE t
      rest == Front(t.work)
  IN IF rest = <<>> THEN [done EXCEPT !.work = rest]
     ELSE [done EXCEPT !.work = rest, !.low[Last(rest).node] = Smaller(@, t.low[f])]

(* One turn of the inner loop. *)
TarjanTurn(adj, t) ==
  LET f      == Last(t.work).node
      looked == Last(t.work).looked
      ahead  == Normalize(adj, f) \ looked
      u      == IF looked = {} THEN Enter(t, f) ELSE t
  IN IF ahead = {} THEN Leave(u, f)
     ELSE Visit([u EXCEPT !.work[Len(t.work)].looked = @ \cup {Lowest(ahead)}], f, Lowest(ahead))

(* The outer loop: the next root, unless it has been reached. *)
TarjanRoot(t) ==
  LET root == Lowest(t.roots)
  IN [t EXCEPT !.roots = @ \ {root},
               !.work  = IF Indexed(t, root) THEN @ ELSE <<[node |-> root, looked |-> {}]>>]

Computing == tarjan.roots # {} \/ tarjan.work # <<>>

ComputeAnalysisOrder(adj, t) ==
  [i \in DOMAIN t.sccs |->
     [members |-> t.sccs[i],
      recursive |-> Cardinality(t.sccs[i]) > 1 \/ t.sccs[i] \cap SelfLoops(adj) # {}]]

-----------------------------------------------------------------------------
(* core/metrics.py *)

FanIn(adj, f)  == Cardinality({g \in DOMAIN adj : f \in adj[g]})
FanOut(adj, f) == Cardinality(adj[f])

(* Highest degree first, then by address; degree zero is not ranked. *)
Ranked(degree, top) ==
  LET all == SetToSortSeq({f \in DOMAIN degree : degree[f] > 0},
               LAMBDA a, b : degree[a] > degree[b] \/ (degree[a] = degree[b] /\ a < b))
  IN SubSeq(all, 1, Smaller(top, Len(all)))

ComputeCallGraphMetrics(g, adj, order, top) ==
  LET nodes == DOMAIN adj
  IN [functions |-> Cardinality(nodes), edges |-> Cardinality(ToSet(g.edges)),
      leaves |-> Cardinality({f \in nodes : FanOut(adj, f) = 0}),
      roots  |-> Cardinality({f \in nodes : FanIn(adj, f) = 0}),
      recursive |-> Cardinality({i \in DOMAIN order : order[i].recursive}),
      self |-> Cardinality(SelfLoops(adj)), unresolved |-> Cardinality(g.unresolved),
      topIn  |-> Ranked([f \in nodes |-> FanIn(adj, f)], top),
      topOut |-> Ranked([f \in nodes |-> FanOut(adj, f)], top)]

(* McCabe, never below one. *)
CyclomaticComplexity(blocks, edges) ==
  IF blocks = 0 THEN 1 ELSE IF edges + 2 <= blocks THEN 1 ELSE edges + 2 - blocks

(* The flow graph of a function whose basic blocks are the entries: an     *)
(* edge per destination inside it, and whether one did not resolve.        *)
GhFunctionCfg ==
  [blocks |-> Cardinality(Entries),
   edges  |-> Cardinality({c \in Entries \X Entries : c[2] \in code[c[1]]}),
   incomplete |-> \E f \in Entries : NoFunction \in code[f]]

-----------------------------------------------------------------------------
(* The adapter's tools. *)

(* Mutant: a hop over a cut graph does not say so. *)
OneHopUncut(g, entry, direction, limit) ==
  LET near == IF direction = "out"
              THEN SelectSeq(g.edges, LAMBDA e : e[1] = entry)
              ELSE SelectSeq(g.edges, LAMBDA e : e[2] = entry)
      other == [i \in DOMAIN near |-> IF direction = "out" THEN near[i][2] ELSE near[i][1]]
      known == SelectSeq(other, LAMBDA f : f \in ToSet(g.nodes))
  IN [neighbors |-> SubSeq(known, 1, Smaller(limit, Len(known))), total |-> Len(known),
      unresolved |-> direction = "out" /\ entry \in g.unresolved,
      truncated |-> limit < Len(known)]

(* Neighbours that are nodes, each once, in edge order. *)
OneHop(g, entry, direction, limit) ==
  LET near == IF direction = "out"
              THEN SelectSeq(g.edges, LAMBDA e : e[1] = entry)
              ELSE SelectSeq(g.edges, LAMBDA e : e[2] = entry)
      other == [i \in DOMAIN near |-> IF direction = "out" THEN near[i][2] ELSE near[i][1]]
      known == SelectSeq(other, LAMBDA f : f \in ToSet(g.nodes))
  IN [neighbors |-> SubSeq(known, 1, Smaller(limit, Len(known))), total |-> Len(known),
      unresolved |-> direction = "out" /\ entry \in g.unresolved,
      truncated |-> g.truncated \/ limit < Len(known)]

Callees(f, limit) == OneHop(GhCallGraph(f, 1), f, "out", limit)
Callers(f, limit) == OneHop(GhCallGraph(NoFunction, MaxDepth), f, "in", limit)

(* Both neighbourhoods and the function's own flags, cut when one is cut.  *)
FunctionContext(f, limit) ==
  LET g   == GhCallGraph(f, 1)
      out == OneHop(g, f, "out", limit)
      in  == Callers(f, limit)
  IN [callees |-> out.neighbors, callers |-> in.neighbors,
      unresolved |-> f \in g.unresolved,
      truncated |-> g.truncated \/ out.truncated \/ in.truncated]

NeighborTool ==
  /\ ask.tool \in {"callees", "callers", "function_context"} /\ answer = NoAnswer
  /\ answer' = CASE ask.tool = "callees" -> <<Callees(ask.on, 2)>>
                 [] ask.tool = "callers" -> <<Callers(ask.on, 2)>>
                 [] ask.tool = "function_context" -> <<FunctionContext(ask.on, 2)>>
  /\ UNCHANGED <<code, ask, graph, tarjan>>

ComplexityTool ==
  /\ ask.tool = "cyclomatic_complexity" /\ answer = NoAnswer
  /\ answer' = LET cfg == GhFunctionCfg
               IN <<[complexity |-> CyclomaticComplexity(cfg.blocks, cfg.edges),
                     edges |-> cfg.edges, incomplete |-> cfg.incomplete]>>
  /\ UNCHANGED <<code, ask, graph, tarjan>>

(* analysis_order and call_graph_metrics fetch the graph ... *)
Fetched(g) ==
  /\ ask.tool \in {"analysis_order", "metrics"} /\ graph = <<>>
  /\ graph' = <<g>>
  /\ tarjan' = [NoTarjan EXCEPT !.roots = CollectNodes(g)]
  /\ UNCHANGED <<code, ask, answer>>

FetchGraph == Fetched(GhCallGraph(ask.on, MaxDepth))

(* ... run _tarjan_sccs on it ... *)
TarjanStep ==
  /\ Computing
  /\ tarjan' = IF tarjan.work = <<>> THEN TarjanRoot(tarjan)
               ELSE TarjanTurn(Adjacency(graph[1]), tarjan)
  /\ UNCHANGED <<code, ask, graph, answer>>

(* ... and build the reply. *)
AnalysisOrder ==
  /\ graph # <<>> /\ ~Computing /\ answer = NoAnswer
  /\ LET adj   == Adjacency(graph[1])
         order == ComputeAnalysisOrder(adj, tarjan)
     IN answer' = IF ask.tool = "analysis_order" THEN <<order>>
                  ELSE <<ComputeCallGraphMetrics(graph[1], adj, order, 2)>>
  /\ UNCHANGED <<code, ask, graph, tarjan>>

GraphIdle ==
  /\ code = [f \in Entries |-> {}] /\ ask = [tool |-> "none", on |-> NoFunction]
  /\ graph = <<>> /\ tarjan = NoTarjan /\ answer = NoAnswer

GraphInit ==
  /\ code \in [Entries -> SUBSET (Entries \cup {NoFunction})]
  /\ ask \in [tool : {"callees", "callers", "function_context", "cyclomatic_complexity"}, on : {1}]
           \cup [tool : {"analysis_order", "metrics"}, on : {1, NoFunction}]
  /\ graph = <<>> /\ tarjan = NoTarjan /\ answer = NoAnswer

GraphNext == NeighborTool \/ ComplexityTool \/ FetchGraph \/ TarjanStep \/ AnalysisOrder

(* The same, with whatever graph the worker hands over. *)
AnyGraph ==
  {g \in [nodes : Seq(Nat), edges : Seq(Nat \X Nat), unresolved : SUBSET Nat, truncated : BOOLEAN] :
     IsFiniteSet(g.unresolved)}

GraphStart == graph = <<>> /\ tarjan = NoTarjan /\ answer = NoAnswer

GraphMoves ==
  NeighborTool \/ ComplexityTool \/ TarjanStep \/ AnalysisOrder \/ \E g \in AnyGraph : Fetched(g)

GraphSpec == GraphStart /\ [][GraphMoves]_graphVars

-----------------------------------------------------------------------------
(* The nodes f reaches: those in every set that has f and, with a node,    *)
(* all the node calls.                                                     *)
Closed(adj, S)  == \A x \in S : adj[x] \subseteq S
Reaches(adj, f) == {g \in DOMAIN adj : \A S \in SUBSET DOMAIN adj : f \in S /\ Closed(adj, S) => g \in S}
Mutual(adj, f, g) == g \in Reaches(adj, f) /\ f \in Reaches(adj, g)

OrderExact(adj, order) ==
  /\ UNION {order[i].members : i \in DOMAIN order} = DOMAIN adj
  /\ \A i, j \in DOMAIN order : \A f \in order[i].members, g \in order[j].members :
       /\ i = j <=> Mutual(adj, f, g)
       /\ g \in adj[f] => j <= i
  /\ \A i \in DOMAIN order :
       order[i].recursive <=> \E f \in order[i].members : \E g \in adj[f] : f \in Reaches(adj, g)

(* analysis_order is what it promises: every node is in exactly one        *)
(* component, components are the classes of mutual reachability, a callee  *)
(* in another component comes before its caller, and a component is        *)
(* recursive exactly when one of its members can call itself again.        *)
CalleesFirst ==
  ask.tool = "analysis_order" /\ answer # NoAnswer => OrderExact(Adjacency(graph[1]), answer[1])

(* What callees, callers and the context say of a function is what its     *)
(* code does, or they say truncated; the counts of the metrics add up on   *)
(* every graph, and the cyclomatic number is not clamped on a function all *)
(* of whose blocks can be reached.                                         *)
GraphAnswersExact ==
  answer # NoAnswer =>
    LET a == answer[1]
        callees == code[ask.on] \ {NoFunction}
        callers == {f \in Entries : ask.on \in code[f]}
    IN CASE ask.tool = "callees" -> a.truncated \/ ToSet(a.neighbors) = callees
         [] ask.tool = "callers" -> a.truncated \/ ToSet(a.neighbors) = callers
         [] ask.tool = "function_context" ->
              /\ a.truncated \/ (ToSet(a.callees) = callees /\ ToSet(a.callers) = callers)
              /\ a.unresolved <=> NoFunction \in code[ask.on]
         [] ask.tool = "cyclomatic_complexity" ->
              LET inside[n \in 0..Cardinality(Entries)] ==
                    IF n = 0 THEN {1}
                    ELSE inside[n - 1] \cup (UNION {code[f] : f \in inside[n - 1]} \ {NoFunction})
              IN inside[Cardinality(Entries)] = Entries =>
                   a.complexity + Cardinality(Entries) = a.edges + 2
         [] ask.tool = "metrics" ->
              LET adj   == Adjacency(graph[1])
                  nodes == ToSet(graph[1].nodes)
                  acyclic == {f \in nodes : \A g \in adj[f] : f \notin Reaches(adj, g)}
              IN /\ a.functions = Cardinality(nodes)
                 /\ a.edges = Cardinality({c \in nodes \X nodes : c[2] \in adj[c[1]]})
                 /\ a.recursive = 0 <=> acyclic = nodes
                 /\ a.recursive = 0 => a.leaves > 0 /\ a.roots > 0
         [] OTHER -> TRUE

-----------------------------------------------------------------------------
(* What the search for components keeps, of the adjacency adj and its      *)
(* state t: what the proof that the order is exact rests on.  A node is    *)
(* white before it has an index, grey from then until it leaves the work   *)
(* stack, then black.                                                      *)

NodeAtWork(t, j) == t.work[j].node
GreyAt(t, j)     == Indexed(t, NodeAtWork(t, j))
Grey(t, f)       == \E j \in DOMAIN t.work : NodeAtWork(t, j) = f
Finished(t, f)   == \E i \in DOMAIN t.sccs : f \in t.sccs[i]

WorkEntry(adj) == [node : DOMAIN adj, looked : SUBSET DOMAIN adj]
TarjanTypes(adj, t) ==
  /\ DOMAIN t = {"roots", "work", "counter", "stack", "index", "low", "sccs"}
  /\ t.roots \subseteq DOMAIN adj /\ t.stack \in Seq(DOMAIN adj) /\ t.counter \in Nat
  /\ t.work \in Seq(WorkEntry(adj))
  /\ DOMAIN t.index \subseteq DOMAIN adj
  /\ t.index \in [DOMAIN t.index -> Nat] /\ t.low \in [DOMAIN t.index -> Nat]
  /\ t.sccs \in Seq(SUBSET DOMAIN adj)

(* The stack is in the order of the visits. *)
StackOrdered(t) ==
  /\ \A i \in DOMAIN t.stack : Indexed(t, t.stack[i])
  /\ \A i, j \in DOMAIN t.stack : i < j => t.index[t.stack[i]] < t.index[t.stack[j]]
  /\ \A f \in DOMAIN t.index : t.index[f] < t.counter

(* So is the work stack.  All its nodes but a new one on top are grey and  *)
(* on the stack; a new one is a callee of the node below.                  *)
WorkOrdered(adj, t) ==
  /\ \A j \in DOMAIN t.work : t.work[j].looked \subseteq Normalize(adj, NodeAtWork(t, j))
  /\ \A j \in DOMAIN t.work : j < Len(t.work) => GreyAt(t, j) /\ t.work[j].looked # {}
  /\ \A j \in DOMAIN t.work : GreyAt(t, j) => OnStack(t, NodeAtWork(t, j))
  /\ \A i, j \in DOMAIN t.work :
       i < j /\ GreyAt(t, j) => t.index[NodeAtWork(t, i)] < t.index[NodeAtWork(t, j)]
  /\ \A j \in DOMAIN t.work :
       j > 1 /\ ~GreyAt(t, j) => NodeAtWork(t, j) \in adj[NodeAtWork(t, j - 1)]

(* Between two turns the top is new exactly if nothing was looked at. *)
TopNew(t) ==
  t.work # <<>> => (GreyAt(t, Len(t.work)) <=> t.work[Len(t.work)].looked # {})

(* A node seen is on the stack or in a component, not in both. *)
Partition(t) == \A f \in DOMAIN t.index : OnStack(t, f) <=> ~Finished(t, f)
FinishedSeen(t) == \A i \in DOMAIN t.sccs : t.sccs[i] \subseteq DOMAIN t.index

SccsExact(adj, t) ==
  \A i \in DOMAIN t.sccs : \A f \in t.sccs[i] :
    /\ \A g \in DOMAIN adj : g \in t.sccs[i] <=> Mutual(adj, f, g)
    /\ \A g \in adj[f] : \E j \in DOMAIN t.sccs : j <= i /\ g \in t.sccs[j]
    /\ \A j \in DOMAIN t.sccs : f \in t.sccs[j] => i = j

(* A grey node reaches all that is above it on the stack, and all on the   *)
(* stack reaches a grey node not above it.                                 *)
GreyReaches(adj, t) ==
  \A j \in DOMAIN t.work, i \in DOMAIN t.stack :
    GreyAt(t, j) /\ t.index[NodeAtWork(t, j)] <= t.index[t.stack[i]] =>
      t.stack[i] \in Reaches(adj, NodeAtWork(t, j))
BackToGrey(adj, t) ==
  \A i \in DOMAIN t.stack : \E j \in DOMAIN t.work :
    /\ GreyAt(t, j) /\ t.index[NodeAtWork(t, j)] <= t.index[t.stack[i]]
    /\ NodeAtWork(t, j) \in Reaches(adj, t.stack[i])

(* What was looked at has been seen, or is the new node on top of the work *)
(* stack; a black node has nothing left to look at.                        *)
LookedSeen(t) ==
  \A j \in DOMAIN t.work : \A g \in t.work[j].looked :
    Indexed(t, g) \/ (j + 1 = Len(t.work) /\ g = NodeAtWork(t, j + 1))
BlackDone(adj, t) == \A f \in DOMAIN t.index : Grey(t, f) \/ adj[f] \subseteq DOMAIN t.index

(* The low link of a grey node is the index of one on the stack that it    *)
(* reaches ...                                                             *)
LowReached(adj, t) ==
  \A j \in DOMAIN t.work : GreyAt(t, j) =>
    /\ t.low[NodeAtWork(t, j)] <= t.index[NodeAtWork(t, j)]
    /\ \E i \in DOMAIN t.stack :
         t.index[t.stack[i]] = t.low[NodeAtWork(t, j)] /\ t.stack[i] \in Reaches(adj, NodeAtWork(t, j))

(* ... and not above any that is called by it or by the black nodes above  *)
(* it, up to the next grey one.                                            *)
Owns(t, j, i) ==
  /\ GreyAt(t, j) /\ t.index[NodeAtWork(t, j)] <= t.index[t.stack[i]]
  /\ \A m \in DOMAIN t.work :
       GreyAt(t, m) /\ t.index[NodeAtWork(t, m)] <= t.index[t.stack[i]] => m <= j
LowCovers(adj, t) ==
  \A j \in DOMAIN t.work, i, k \in DOMAIN t.stack :
    /\ Owns(t, j, i) /\ t.stack[k] \in adj[t.stack[i]]
    /\ t.stack[i] = NodeAtWork(t, j) => t.stack[k] \in t.work[j].looked
    => t.low[NodeAtWork(t, j)] <= t.index[t.stack[k]]

(* No node is forgotten. *)
RootsLeft(adj, t) == \A f \in DOMAIN adj : f \in t.roots \/ Indexed(t, f) \/ Grey(t, f)

TurnInv(adj, t) ==
  /\ TarjanTypes(adj, t) /\ StackOrdered(t) /\ WorkOrdered(adj, t) /\ Partition(t) /\ FinishedSeen(t)
  /\ SccsExact(adj, t) /\ GreyReaches(adj, t) /\ BackToGrey(adj, t) /\ LookedSeen(t) /\ BlackDone(adj, t)
  /\ LowReached(adj, t) /\ LowCovers(adj, t) /\ RootsLeft(adj, t)

TarjanInv(adj, t) == TurnInv(adj, t) /\ TopNew(t)

OrderInv ==
  /\ ask.tool \in {"analysis_order", "metrics"} /\ graph = <<>> => answer = <<>>
  /\ graph # <<>> => graph[1] \in AnyGraph /\ TarjanInv(Adjacency(graph[1]), tarjan)
  /\ graph = <<>> => tarjan = NoTarjan
  /\ CalleesFirst

=============================================================================
