---------------------------- MODULE DeepAnalyses ----------------------------
(***************************************************************************)
(* The worker's deep analyses (ghidra/_jvm_bridge.py): slices, structure   *)
(* and string recovery, emulation, similarity and the tools that load      *)
(* programs of their own.  Each resolves its function, opens what it needs *)
(* of Ghidra (a decompiler, an emulator, a signature generator, a scratch  *)
(* project and programs in it), runs a bounded loop and releases what it   *)
(* opened in a finally block.  Any call into Ghidra may raise.             *)
(*                                                                         *)
(* Ops, matches and strings are numbers; a similarity is 0 (below the      *)
(* threshold), 1 or 2 (identical).                                         *)
(***************************************************************************)
EXTENDS Naturals, Sequences, FiniteSets, SequencesExt

CONSTANTS
  Cap,        \* max_nodes, max_accesses, limit, max_results of the call
  Depth,      \* max_depth of a slice
  MaxSteps,   \* max_steps of an emulation
  MaxStubs,   \* _MAX_EMULATE_STUB_APPLICATIONS
  Ops         \* p-code ops of the function, function names of a program

ASSUME DeepConstants ==
  /\ {Cap, Depth, MaxSteps, MaxStubs} \subseteq Nat \ {0}
  /\ Ops \subseteq Nat \ {0} /\ IsFiniteSet(Ops) /\ 1 \in Ops

VARIABLES
  task,     \* the tool and its input
  at,       \* where its method is
  loop,     \* the state of its loop
  opened,   \* what it has opened and not released
  result    \* its reply, once it has one

deepVars == <<task, at, loop, opened, result>>

Boundary == 0
Ordered(set) == SetToSortSeq(set, LAMBDA a, b : a < b)
First(seq, n) == SubSeq(seq, 1, IF n < Len(seq) THEN n ELSE Len(seq))

-----------------------------------------------------------------------------
(* One-program tools: resolve, open, loop, release. *)

Opens(tool) ==
  CASE tool \in {"data_flow_slice", "recover_struct", "decompile_function"} -> {"decompiler"}
    [] tool = "emulate" -> {"emulator"}
    [] tool \in {"find_similar_functions", "bsim_similarity"} -> {"signatures"}
    [] tool = "deobfuscate_strings" -> {}

(* The loop before its first turn. *)
Start ==
  CASE task.tool = "data_flow_slice" ->
         [frontier |-> LET s == Ordered(task.inputs[1])
                       IN [i \in DOMAIN s |-> <<s[i], 0>>],
          seen |-> {}, nodes |-> <<>>, truncated |-> FALSE]
    [] task.tool = "emulate" -> [steps |-> 0, stubs |-> 0]
    [] OTHER -> [steps |-> 0]

(* A name that does not resolve opens nothing, nor does a stream decode or *)
(* an unpacking over the whole program.                                    *)
Acceptable ==
  task.tool = "deobfuscate_strings" =>
    (task.techniques \cap {"stream_decode", "unpack"} # {} => task.scoped)

Begin(found) ==
  /\ at = "called" /\ task.tool \in {"data_flow_slice", "recover_struct", "emulate",
                                     "find_similar_functions", "deobfuscate_strings",
                                     "decompile_function", "bsim_similarity"}
  /\ IF found /\ Acceptable
     THEN at' = "looping" /\ opened' = Opens(task.tool) /\ loop' = Start
     ELSE at' = "failed" /\ UNCHANGED <<opened, loop>>
  /\ UNCHANGED <<task, result>>

(* Ghidra raises inside the try block: finally, then the error. *)
Raise ==
  /\ at = "looping"
  /\ at' = "failed" /\ opened' = {}
  /\ UNCHANGED <<task, loop, result>>

Return(value) == at' = "done" /\ opened' = {} /\ result' = <<value>> /\ UNCHANGED <<task, loop>>

(* A decompilation that did not complete is an error. *)
Decompile ==
  /\ at = "looping" /\ task.tool = "decompile_function" /\ task.completes
  /\ Return([function |-> task.function])

(* The vectors of the two functions, kept by name, compared: the later one *)
(* replaces the earlier under the same name.                               *)
BsimSimilarity ==
  /\ at = "looping" /\ task.tool = "bsim_similarity"
  /\ LET vectors == (task.names[2] :> task.vectors[2]) @@ (task.names[1] :> task.vectors[1])
     IN Return([identical |-> vectors[task.names[1]] = vectors[task.names[2]]])

(* Backward slice: one varnode of the frontier.  Its definition is added   *)
(* once, a varnode without one (a parameter, a constant) each time.        *)
SliceTurn ==
  /\ at = "looping" /\ task.tool = "data_flow_slice" /\ loop.frontier # <<>>
  /\ LET v     == Head(loop.frontier)[1]
         depth == Head(loop.frontier)[2]
         rest  == [loop EXCEPT !.frontier = Tail(@)]
         s     == Ordered(task.inputs[v])
     IN loop' = IF Len(loop.nodes) >= Cap
                THEN [rest EXCEPT !.truncated = TRUE, !.frontier = <<>>]
                ELSE IF depth >= Depth \/ v \in loop.seen THEN rest
                ELSE IF v = Boundary THEN [rest EXCEPT !.nodes = Append(@, v)]
                ELSE [rest EXCEPT !.nodes = Append(@, v), !.seen = @ \cup {v},
                        !.frontier = @ \o [i \in DOMAIN s |-> <<s[i], depth + 1>>]]
  /\ UNCHANGED <<task, at, opened, result>>

DataFlowSlice ==
  /\ at = "looping" /\ task.tool = "data_flow_slice" /\ loop.frontier = <<>>
  /\ Return([nodes |-> loop.nodes, truncated |-> loop.truncated])

(* The accesses through the base, up to a cap, and the fields among them.  *)
RecoverStruct ==
  /\ at = "looping" /\ task.tool = "recover_struct"
  /\ LET fields == SelectSeq(First(task.accesses, Cap), LAMBDA x : x.field)
     IN Return([fields |-> First(fields, task.max),
                truncated |-> Len(task.accesses) > Cap \/ Len(fields) > task.max])

(* One instruction of an emulation: it may fault, halt, run into a stubbed *)
(* call (which returns at once, without a look at the stop address), run   *)
(* into the stop address, or just run.                                     *)
EmulateStep(outcome) ==
  /\ at = "looping" /\ task.tool = "emulate" /\ loop.steps < MaxSteps
  /\ LET n == IF outcome = "fault" THEN loop.steps ELSE loop.steps + 1
         stubs == IF outcome = "stub" THEN loop.stubs + 1 ELSE loop.stubs
         why == CASE outcome = "fault" -> "fault"
                  [] outcome = "halt" -> "halted"
                  [] outcome = "stub" /\ stubs > MaxStubs -> "stub-limit"
                  [] outcome = "stop" -> "stop-address"
                  [] OTHER -> "running"
     IN IF why = "running"
        THEN loop' = [steps |-> n, stubs |-> stubs] /\ UNCHANGED <<task, at, opened, result>>
        ELSE Return([steps |-> n, stubs |-> stubs, reason |-> why])

EmulateEnd ==
  /\ at = "looping" /\ task.tool = "emulate" /\ loop.steps = MaxSteps
  /\ Return([steps |-> loop.steps, stubs |-> loop.stubs, reason |-> "max-steps"])

(* All but the target, up to max_scan; then the most similar ones.         *)
FindSimilarFunctions ==
  /\ at = "looping" /\ task.tool = "find_similar_functions"
  /\ LET scanned == First(task.scores, Cap)
     IN Return([matches |-> First(SelectSeq(scanned, LAMBDA s : s > 0), Cap),
                scanned |-> Len(scanned), truncated |-> Len(task.scores) > Cap])

-----------------------------------------------------------------------------
(* String recovery: four passes over the functions.  A decoder that faults *)
(* is skipped.                                                             *)

Passes == <<"stack_string", "xor_decode", "stream_decode", "unpack">>

(* Detection, emulation and readback of one decoder or unpacker: what it   *)
(* recovers, if it does.                                                   *)
XorDecodeOne(f) == IF f.faults THEN <<>> ELSE First(f.decoded, 1)
UnpackOne(f)    == IF f.faults THEN <<>> ELSE First(f.unpacked, Cap)

(* The stack strings: the first one past the cap ends the pass.            *)
StackPass(acc, f) ==
  IF acc.truncated THEN acc
  ELSE [strings |-> First(acc.strings \o f.stacked, Cap),
        truncated |-> Len(acc.strings \o f.stacked) > Cap]

(* The other passes stop when the list is full, and say truncated when     *)
(* they fill it.                                                           *)
DecodePass(acc, found) ==
  IF Len(acc.strings) >= Cap THEN acc
  ELSE [strings |-> First(acc.strings \o found, Cap),
        truncated |-> acc.truncated \/ Len(acc.strings \o found) >= Cap]

DeobfuscateStrings ==
  /\ at = "looping" /\ task.tool = "deobfuscate_strings"
  /\ LET wants(p) == p \in task.techniques
         stacked  == IF wants("stack_string")
                     THEN FoldLeft(StackPass, [strings |-> <<>>, truncated |-> FALSE], task.functions)
                     ELSE [strings |-> <<>>, truncated |-> FALSE]
         xored    == IF wants("xor_decode")
                     THEN FoldLeft(LAMBDA acc, f : DecodePass(acc, XorDecodeOne(f)), stacked, task.functions)
                     ELSE stacked
         streamed == IF wants("stream_decode")
                     THEN FoldLeft(LAMBDA acc, f : DecodePass(acc, XorDecodeOne(f)), xored, task.functions)
                     ELSE xored
         unpacked == IF wants("unpack")
                     THEN FoldLeft(LAMBDA acc, f : DecodePass(acc, UnpackOne(f)), streamed, task.functions)
                     ELSE streamed
     IN Return(unpacked)

-----------------------------------------------------------------------------
(* Tools with programs of their own, in a scratch project. *)

TwoProgramTools == {"version_track", "binary_diff", "bsim_search_corpus"}

(* The directory, then the project; only what follows is in the try block. *)
OpenScratch(ok) ==
  /\ at = "called" /\ task.tool \in TwoProgramTools
  /\ opened' = IF ok THEN {"directory", "project"} ELSE {"directory"}
  /\ IF ok THEN at' = "loading" /\ loop' = [loaded |-> 0]
           ELSE at' = "failed" /\ UNCHANGED loop
  /\ UNCHANGED <<task, result>>

Programs == <<"A", "B">>

(* Mutant: the programs are released, the project stays open. *)
FinallyKeepsProject(n) == opened \ ({Programs[i] : i \in 1..n} \cup {"directory"})

(* finally: the n programs the method holds, the project, the directory.   *)
Finally(n) == opened \ ({Programs[i] : i \in 1..n} \cup {"project", "directory"})

(* _vt_load_program: the program is opened for the caller and analyzed; if *)
(* the analysis raises, the caller never learns of it.                     *)
VtLoadProgram(step) ==
  /\ at = "loading" /\ loop.loaded < 2
  /\ LET next == loop.loaded + 1
         held == loop.loaded
     IN CASE step = "loaded" ->
               /\ loop' = [loaded |-> next] /\ opened' = opened \cup {Programs[next]}
               /\ at' = IF next = 2 THEN "comparing" ELSE at
          [] step = "unreadable" ->
               /\ opened' = Finally(held) /\ at' = "failed" /\ UNCHANGED loop
          [] step = "unanalyzed" ->
               /\ opened' = Finally(held) \cup {Programs[next]} /\ at' = "failed" /\ UNCHANGED loop
  /\ UNCHANGED <<task, result>>

CompareRaises ==
  /\ at = "comparing"
  /\ opened' = Finally(2) /\ at' = "failed"
  /\ UNCHANGED <<task, loop, result>>

Compared(value) ==
  /\ opened' = Finally(2) /\ at' = "done" /\ result' = <<value>>
  /\ UNCHANGED <<task, loop>>

(* Matches above the confidence, the best first. *)
VersionTrack ==
  /\ at = "comparing" /\ task.tool = "version_track"
  /\ LET good == SelectSeq(task.scores, LAMBDA s : s > 0)
     IN Compared([matches |-> First(good, Cap), count |-> Len(task.scores),
                  truncated |-> Len(good) > Cap])

(* The classes of a diff, each cut at the cap and all counted. *)
Classes(added, removed, changed, unchanged) ==
  LET all == <<added, removed, changed, unchanged>>
  IN [classes |-> [i \in 1..4 |-> First(Ordered(all[i]), Cap)],
      counts  |-> [i \in 1..4 |-> Cardinality(all[i])],
      truncated |-> \E i \in 1..4 : Cardinality(all[i]) > Cap]

(* By name; a body is its hash, or its size and instruction count. *)
BinaryDiff ==
  /\ at = "comparing" /\ task.tool = "binary_diff" /\ task.by # "bsim"
  /\ LET a == DOMAIN task.a
         b == DOMAIN task.b
         same == {n \in a \cap b : task.a[n] = task.b[n]}
     IN Compared(Classes(b \ a, a \ b, (a \cap b) \ same,
                         IF task.unchanged THEN same ELSE {}))

(* Mutant: a function of A may be paired more than once. *)
PairGreedyLoose(pairs, p) ==
  IF \E q \in pairs : q[3] = p[3] THEN pairs ELSE pairs \cup {p}

(* Candidates best first, each side used once. *)
PairGreedy(pairs, p) ==
  IF \E q \in pairs : q[2] = p[2] \/ q[3] = p[3] THEN pairs ELSE pairs \cup {p}

(* The pairs <<score, in A, in B>> above the threshold. *)
Pairs(score) ==
  LET near == {<<score[i][j], i, j>> : i \in Ops, j \in Ops}
  IN FoldLeft(PairGreedy, {},
       SetToSortSeq({p \in near : p[1] > 0},
         LAMBDA p, q : p[1] > q[1] \/ (p[1] = q[1] /\ (p[2] < q[2] \/ (p[2] = q[2] /\ p[3] < q[3])))))

BinaryDiffBsim ==
  /\ at = "comparing" /\ task.tool = "binary_diff" /\ task.by = "bsim"
  /\ LET pairs == Pairs(task.score)
     IN Compared([pairs |-> pairs] @@
                 Classes({j \in Ops : \A p \in pairs : p[3] # j},
                         {i \in Ops : \A p \in pairs : p[2] # i},
                         {p[3] : p \in {q \in pairs : q[1] = 1}},
                         IF task.unchanged THEN {p[3] : p \in {q \in pairs : q[1] = 2}} ELSE {}))

(* For each target the first best match of the corpus. *)
BestMatch(row) ==
  LET good == {j \in Ops : row[j] > 0}
  IN IF good = {} THEN {}
     ELSE {CHOOSE j \in good : \A k \in good : row[j] > row[k] \/ (row[j] = row[k] /\ j <= k)}

BsimSearchCorpus ==
  /\ at = "comparing" /\ task.tool = "bsim_search_corpus"
  /\ LET hits == {h \in Ops \X Ops : h[2] \in BestMatch(task.score[h[1]])}
     IN Compared([hits |-> hits, matches |-> First(SetToSeq(hits), Cap),
                  truncated |-> Cardinality(hits) > Cap])

-----------------------------------------------------------------------------
Tasks ==
  LET Scores == [Ops -> 0..2]
      Strings(max) == {[i \in 1..n |-> i] : n \in 0..max}
      Fn == [stacked : Strings(2), decoded : Strings(1), unpacked : Strings(1), faults : BOOLEAN]
  IN [tool : {"data_flow_slice"}, inputs : [Ops -> SUBSET (Ops \cup {Boundary})]]
     \cup [tool : {"recover_struct"}, max : 1..Cap,
           accesses : UNION {[1..n -> [field : BOOLEAN]] : n \in 0..Cap + 1}]
     \cup {[tool |-> "emulate"]}
     \cup [tool : {"decompile_function"}, function : {1}, completes : BOOLEAN]
     \cup [tool : {"bsim_similarity"}, names : [1..2 -> 1..2], vectors : [1..2 -> 1..2]]
     \cup [tool : {"find_similar_functions", "version_track"},
           scores : UNION {[1..n -> 0..1] : n \in 0..Cap + 1}]
     \cup [tool : {"deobfuscate_strings"}, scoped : {FALSE}, functions : [1..2 -> Fn],
           techniques : {{"stack_string"}, {"stack_string", "xor_decode"}, {"unpack"}}]
     \cup [tool : {"deobfuscate_strings"}, scoped : {TRUE}, functions : [{1} -> Fn],
           techniques : SUBSET ToSet(Passes)]
     \cup [tool : {"binary_diff"}, by : {"name"}, unchanged : BOOLEAN,
           a : UNION {[s -> 1..2] : s \in SUBSET Ops}, b : UNION {[s -> {1}] : s \in SUBSET Ops}]
     \cup [tool : {"binary_diff"}, by : {"bsim"}, unchanged : {TRUE}, score : [Ops -> Scores]]
     \cup [tool : {"bsim_search_corpus"}, score : [Ops -> Scores]]

DeepIdle ==
  /\ task = [tool |-> "none"] /\ at = "idle" /\ loop = <<>> /\ opened = {} /\ result = <<>>

DeepInit ==
  /\ task \in Tasks
  /\ at = "called" /\ loop = <<>> /\ opened = {} /\ result = <<>>

DeepNext ==
  \/ \E ok \in BOOLEAN : Begin(ok) \/ OpenScratch(ok)
  \/ Raise \/ CompareRaises
  \/ Decompile \/ BsimSimilarity
  \/ SliceTurn \/ DataFlowSlice \/ RecoverStruct \/ EmulateEnd \/ FindSimilarFunctions
  \/ \E outcome \in {"fault", "halt", "stub", "stop", "run"} : EmulateStep(outcome)
  \/ DeobfuscateStrings
  \/ \E step \in {"loaded", "unreadable", "unanalyzed"} : VtLoadProgram(step)
  \/ VersionTrack \/ BinaryDiff \/ BinaryDiffBsim \/ BsimSearchCorpus

DeepSpec == DeepInit /\ [][DeepNext]_deepVars

-----------------------------------------------------------------------------
(* When a method answers, it holds nothing it opened, whatever raised on   *)
(* the way ("Release everything we hold, then wipe the throwaway project", *)
(* _gh_version_track).  Two holes are in the code: the directory, when the *)
(* project does not open, and a program whose own analysis raised.         *)
ReleasesAll ==
  at \in {"done", "failed"} =>
    \/ opened = {}
    \/ opened = {"directory"} /\ loop = <<>>
    \/ \E n \in 1..2 : at = "failed" /\ opened = {Programs[n]} /\ loop = [loaded |-> n - 1]

(* Where a method is says what it holds: until then nothing, the scratch   *)
(* project and the programs loaded so far while it loads, all of them      *)
(* while it compares.                                                      *)
Holds ==
  /\ at = "called" => opened = {} /\ loop = <<>>
  /\ at = "loading" => \E k \in 0..1 :
       loop = [loaded |-> k] /\ opened = {"directory", "project"} \cup {Programs[i] : i \in 1..k}
  /\ at = "comparing" => opened = {"directory", "project"} \cup {Programs[i] : i \in 1..2}

DeepInv == Holds /\ ReleasesAll

(* The ops within d definitions of the seed. *)
Within(inputs, d) ==
  LET near[n \in 0..d] ==
        IF n = 0 THEN inputs[1]
        ELSE near[n - 1] \cup UNION {inputs[v] : v \in near[n - 1] \ {Boundary}}
  IN near[d]

(* What an analysis answers is what its input holds.  A slice that is not  *)
(* truncated is every definition within the depth and no other.  A diff    *)
(* puts every function in exactly one class and counts it there, cut or    *)
(* not.  A similarity diff pairs one to one, leaves no two functions above *)
(* the threshold both unpaired, and pairs no function with a lesser match  *)
(* while a better one is left over.  A list that is neither full nor       *)
(* truncated is complete.  Two functions of different names are identical  *)
(* when their vectors are.  An emulation stops for the reason it gives,    *)
(* within its bounds.                                                      *)
AnalysesExact ==
  at = "done" =>
    LET r == result[1]
    IN CASE task.tool = "data_flow_slice" ->
              ToSet(r.nodes) \subseteq Within(task.inputs, Depth - 1)
              /\ (r.truncated \/ ToSet(r.nodes) = Within(task.inputs, Depth - 1))
         [] task.tool = "binary_diff" /\ task.by = "name" ->
              /\ r.counts[1] + r.counts[3] <= Cardinality(DOMAIN task.b)
              /\ task.unchanged =>
                   /\ r.counts[1] + r.counts[3] + r.counts[4] = Cardinality(DOMAIN task.b)
                   /\ r.counts[2] + r.counts[3] + r.counts[4] = Cardinality(DOMAIN task.a)
              /\ ~r.truncated => \A i \in 1..4 : Len(r.classes[i]) = r.counts[i]
         [] task.tool = "binary_diff" /\ task.by = "bsim" ->
              /\ \A p, q \in r.pairs : p # q => p[2] # q[2] /\ p[3] # q[3]
              /\ \A i, j \in Ops : task.score[i][j] > 0 =>
                   \E p \in r.pairs : (p[2] = i \/ p[3] = j) /\ p[1] >= task.score[i][j]
              /\ r.counts[1] + r.counts[3] + r.counts[4] = Cardinality(Ops)
         [] task.tool = "bsim_similarity" ->
              task.names[1] # task.names[2] => (r.identical <=> task.vectors[1] = task.vectors[2])
         [] task.tool = "bsim_search_corpus" ->
              \A h \in r.hits : \A j \in Ops : task.score[h[1]][h[2]] >= task.score[h[1]][j]
         [] task.tool = "deobfuscate_strings" ->
              ~r.truncated /\ Len(r.strings) < Cap /\ "xor_decode" \in task.techniques =>
                \A i \in DOMAIN task.functions : task.functions[i].faults \/
                  ToSet(task.functions[i].decoded) \subseteq ToSet(r.strings)
         [] task.tool = "emulate" ->
              /\ r.steps <= MaxSteps /\ r.stubs <= MaxStubs + 1
              /\ r.reason = "max-steps" => r.steps = MaxSteps
              /\ r.stubs > MaxStubs <=> r.reason = "stub-limit"
         [] OTHER -> TRUE

=============================================================================
