------------------------------- MODULE MCTools -------------------------------
(***************************************************************************)
(* The parts that share no state, one at a time: a read walked page by     *)
(* page (ReadTools), a question about the call graph (CallGraph), a deep   *)
(* analysis (DeepAnalyses), an import (BinaryImport), a write's boundary   *)
(* checks (BoundaryChecks), the graph exporter (GraphExport), and of the   *)
(* HTTP transport a request's way (HttpFront), the rate limit              *)
(* (RateLimiter) and the readiness answer (CachedReadiness).               *)
(***************************************************************************)
EXTENDS ReadTools, CallGraph, DeepAnalyses, BinaryImport, BoundaryChecks,
        GraphExport, HttpFront, RateLimiter, CachedReadiness

MCFunctions == <<1, 2, 3>>
MCCalls     == <<<<1, 2>>, <<2, 4>>, <<1, 2>>>>
MCCallNodes == <<1, 2, 4>>
MCExports   == <<2>>
MCComments  == <<3, 5>>

VARIABLE which   \* the part the behaviour exercises

toolVars == <<which, readVars, graphVars, deepVars, importVars, boundaryVars,
              exportVars, httpVars, rateVars, readyVars>>

Starts(part, init, idle) == IF which = part THEN init ELSE idle

ToolsInit ==
  /\ which \in {"read", "graph", "deep", "import", "boundary", "export",
                "http", "rate", "ready"}
  /\ Starts("read", ReadInit, ReadIdle)
  /\ Starts("graph", GraphInit, GraphIdle)
  /\ Starts("deep", DeepInit, DeepIdle)
  /\ Starts("import", ImportInit, ImportIdle)
  /\ Starts("boundary", BoundaryInit, BoundaryIdle)
  /\ Starts("export", ExportInit, ExportIdle)
  /\ Starts("http", HttpInit, HttpIdle)
  /\ Starts("rate", RateInit, RateIdle)
  /\ Starts("ready", ReadyInit, ReadyIdle)

ToolsNext ==
  \/ which = "read" /\ ReadNext
       /\ UNCHANGED <<which, graphVars, deepVars, importVars, boundaryVars, exportVars,
                      httpVars, rateVars, readyVars>>
  \/ which = "graph" /\ GraphNext
       /\ UNCHANGED <<which, readVars, deepVars, importVars, boundaryVars, exportVars,
                      httpVars, rateVars, readyVars>>
  \/ which = "deep" /\ DeepNext
       /\ UNCHANGED <<which, readVars, graphVars, importVars, boundaryVars, exportVars,
                      httpVars, rateVars, readyVars>>
  \/ which = "import" /\ ImportNext
       /\ UNCHANGED <<which, readVars, graphVars, deepVars, boundaryVars, exportVars,
                      httpVars, rateVars, readyVars>>
  \/ which = "boundary" /\ BoundaryNext
       /\ UNCHANGED <<which, readVars, graphVars, deepVars, importVars, exportVars,
                      httpVars, rateVars, readyVars>>
  \/ which = "export" /\ ExportNext
       /\ UNCHANGED <<which, readVars, graphVars, deepVars, importVars, boundaryVars,
                      httpVars, rateVars, readyVars>>
  \/ which = "http" /\ HttpNext
       /\ UNCHANGED <<which, readVars, graphVars, deepVars, importVars, boundaryVars,
                      exportVars, rateVars, readyVars>>
  \/ which = "rate" /\ RateNext
       /\ UNCHANGED <<which, readVars, graphVars, deepVars, importVars, boundaryVars,
                      exportVars, httpVars, readyVars>>
  \/ which = "ready" /\ ReadyNext
       /\ UNCHANGED <<which, readVars, graphVars, deepVars, importVars, boundaryVars,
                      exportVars, httpVars, rateVars>>

ToolsSpec == ToolsInit /\ [][ToolsNext]_toolVars
=============================================================================
