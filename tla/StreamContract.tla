--------------------------- MODULE StreamContract ---------------------------
(***************************************************************************)
(* What a decompilation stream promises its client (ADR-040 D5-D7), with   *)
(* no buffers, windows or cursors: a source appends to a list, the client  *)
(* holds a prefix of it that only grows, and the end the client is told    *)
(* about is the end that happened, told only when the prefix is complete.  *)
(***************************************************************************)
EXTENDS Naturals

VARIABLES
  produced,    \* length of the list the source has appended
  source,      \* open, done or error
  held,        \* length of the prefix the client holds
  cancelled,
  verdict      \* what the client knows of the end

vars == <<produced, source, held, cancelled, verdict>>

Init ==
  /\ produced = 0 /\ source = "open"
  /\ held = 0 /\ cancelled = FALSE /\ verdict = "none"

Produce ==
  /\ source = "open" /\ ~cancelled
  /\ produced' = produced + 1
  /\ UNCHANGED <<source, held, cancelled, verdict>>

End ==
  /\ source = "open"
  /\ source' \in {"done", "error"}
  /\ UNCHANGED <<produced, held, cancelled, verdict>>

Cancel ==
  /\ ~cancelled /\ verdict \notin {"done", "error"}
  /\ cancelled' = TRUE
  /\ UNCHANGED <<produced, source, held, verdict>>

(* A batch arrives; it may complete the stream.  "restart" tells the       *)
(* client that it fell behind what the server can still replay.            *)
Deliver ==
  /\ verdict = "none"
  /\ held' \in held .. produced
  /\ \/ verdict' \in {"none", "restart"}
     \/ verdict' = source /\ source # "open" /\ held' = produced /\ ~cancelled
     \/ verdict' = "cancelled" /\ cancelled
  /\ UNCHANGED <<produced, source, cancelled>>

Next == Produce \/ End \/ Cancel \/ Deliver

Spec == Init /\ [][Next]_vars
=============================================================================
