--------------------------- MODULE WorkerToolProofs ---------------------------
(***************************************************************************)
(* What the worker's tools hold, get and let through, for every value of   *)
(* the constants: a deep analysis releases what it opened, an import never *)
(* lacks a parameter and stays within what was granted, a batch of types   *)
(* passes the boundary exactly when it can be built, and an export says    *)
(* all and only what was gathered.                                         *)
(***************************************************************************)
EXTENDS DeepAnalyses, BinaryImport, BoundaryChecks, GraphExport, ReadToolProofs

-----------------------------------------------------------------------------
(* Deep analyses. *)

LEMMA DeepInitial == DeepInit => DeepInv
  BY DEF DeepInit, DeepInv, Holds, ReleasesAll

(* A method that answers through Return or raises in its loop releases all. *)
LEMMA Released ==
  ASSUME at' \in {"done", "failed"}, opened' = {}
  PROVE  DeepInv'
  BY DEF DeepInv, Holds, ReleasesAll

(* The finally block with both programs leaves nothing. *)
LEMMA FinallyReleases ==
  ASSUME DeepInv, at = "comparing"
  PROVE  Finally(2) = {}
  BY DEF DeepInv, Holds, Finally

LEMMA LoadProgramKeeps ==
  ASSUME NEW stage \in {"loaded", "unreadable", "unanalyzed"}, DeepInv, VtLoadProgram(stage)
  PROVE  DeepInv'
<1>1. PICK k \in 0..1 : /\ loop = [loaded |-> k]
                        /\ opened = {"directory", "project"} \cup {Programs[i] : i \in 1..k}
  BY DEF DeepInv, Holds, VtLoadProgram
<1>2. at = "loading" /\ loop.loaded = k
  BY <1>1 DEF VtLoadProgram
<1>3. Finally(k) = {}
  BY <1>1 DEF Finally, Programs
<1>4. CASE stage = "loaded"
  <2>1. loop' = [loaded |-> k + 1] /\ opened' = opened \cup {Programs[k + 1]}
    BY <1>2, <1>4 DEF VtLoadProgram
  <2>2. opened' = {"directory", "project"} \cup {Programs[i] : i \in 1..k + 1}
    BY <1>1, <2>1
  <2>3. CASE k = 0
    BY <1>2, <1>4, <2>1, <2>2, <2>3 DEF VtLoadProgram, DeepInv, Holds, ReleasesAll
  <2>4. CASE k = 1
    BY <1>2, <1>4, <2>1, <2>2, <2>4 DEF VtLoadProgram, DeepInv, Holds, ReleasesAll
  <2> QED BY <1>1, <2>3, <2>4
<1>5. CASE stage = "unreadable"
  BY <1>2, <1>3, <1>5, Released DEF VtLoadProgram
<1>6. CASE stage = "unanalyzed"
  <2>1. at' = "failed" /\ opened' = {Programs[k + 1]} /\ loop' = [loaded |-> (k + 1) - 1]
    BY <1>1, <1>2, <1>3, <1>6 DEF VtLoadProgram
  <2> QED BY <1>1, <2>1 DEF DeepInv, Holds, ReleasesAll
<1> QED BY <1>4, <1>5, <1>6

LEMMA DeepStep == DeepInv /\ [DeepNext]_deepVars => DeepInv'
<1> SUFFICES ASSUME DeepInv, [DeepNext]_deepVars PROVE DeepInv'
  OBVIOUS
<1>1. ASSUME NEW ok \in BOOLEAN, Begin(ok) PROVE DeepInv'
  <2>1. at = "called" /\ opened = {} /\ loop = <<>>
    BY <1>1 DEF Begin, DeepInv, Holds
  <2>2. CASE at' = "looping"
    BY <2>2 DEF DeepInv, Holds, ReleasesAll
  <2>3. CASE at' = "failed" /\ opened' = opened
    BY <2>1, <2>3, Released
  <2> QED BY <1>1, <2>2, <2>3 DEF Begin
<1>2. ASSUME NEW ok \in BOOLEAN, OpenScratch(ok) PROVE DeepInv'
  <2>1. at = "called" /\ opened = {} /\ loop = <<>>
    BY <1>2 DEF OpenScratch, DeepInv, Holds
  <2>2. CASE at' = "loading" /\ loop' = [loaded |-> 0] /\ opened' = {"directory", "project"}
    <3>1. {Programs[i] : i \in 1..0} = {}
      OBVIOUS
    <3> QED BY <2>2, <3>1 DEF DeepInv, Holds, ReleasesAll
  <2>3. CASE at' = "failed" /\ loop' = loop /\ opened' = {"directory"}
    BY <2>1, <2>3 DEF DeepInv, Holds, ReleasesAll
  <2> QED BY <1>2, <2>2, <2>3 DEF OpenScratch
<1>3. CASE Raise
  BY <1>3, Released DEF Raise
<1>4. CASE CompareRaises
  BY <1>4, Released, FinallyReleases DEF CompareRaises
<1>5. ASSUME NEW value, Return(value) PROVE DeepInv'
  BY <1>5, Released DEF Return
<1>6. CASE SliceTurn
  BY <1>6 DEF SliceTurn, DeepInv, Holds, ReleasesAll
<1>7. ASSUME NEW ending \in {"fault", "halt", "stub", "stop", "run"}, EmulateStep(ending)
      PROVE  DeepInv'
  <2>1. CASE at = "looping" /\ UNCHANGED at
    BY <2>1 DEF DeepInv, Holds, ReleasesAll
  <2>2. CASE \E value : Return(value)
    BY <2>2, <1>5
  <2> QED BY <1>7, <2>1, <2>2 DEF EmulateStep
<1>8. ASSUME NEW stage \in {"loaded", "unreadable", "unanalyzed"}, VtLoadProgram(stage)
      PROVE  DeepInv'
  BY <1>8, LoadProgramKeeps
<1>9. ASSUME NEW value, at = "comparing", Compared(value) PROVE DeepInv'
  BY <1>9, Released, FinallyReleases DEF Compared
<1>10. CASE Decompile \/ BsimSimilarity \/ DataFlowSlice \/ RecoverStruct \/ EmulateEnd
            \/ FindSimilarFunctions \/ DeobfuscateStrings
  BY <1>10, <1>5 DEF Decompile, BsimSimilarity, DataFlowSlice, RecoverStruct, EmulateEnd,
       FindSimilarFunctions, DeobfuscateStrings
<1>11. CASE VersionTrack \/ BinaryDiff \/ BinaryDiffBsim \/ BsimSearchCorpus
  BY <1>11, <1>9 DEF VersionTrack, BinaryDiff, BinaryDiffBsim, BsimSearchCorpus
<1>12. CASE UNCHANGED deepVars
  BY <1>12 DEF deepVars, DeepInv, Holds, ReleasesAll
<1> QED
  BY <1>1, <1>2, <1>3, <1>4, <1>6, <1>7, <1>8, <1>10, <1>11, <1>12 DEF DeepNext

(* Whichever call into Ghidra raises, a deep analysis that has answered    *)
(* (_gh_version_track and its like) holds nothing but the two leaks that   *)
(* ReleasesAll names.                                                      *)
THEOREM ReleasesAllHolds == DeepSpec => []ReleasesAll
<1>1. DeepInv => ReleasesAll
  BY DEF DeepInv
<1> QED BY DeepInitial, DeepStep, <1>1, PTL DEF DeepSpec

-----------------------------------------------------------------------------
(* Imports. *)

(* What the schema accepts is coherent. *)
LEMMA ValidIsCoherent == ValidRequest => Coherent
  BY DEF ValidRequest, Coherent, ValidRegions, SupportedProcessor, NoHints

(* Every hint of a coherent request is among the parameters. *)
LEMMA HintsPacked ==
  ASSUME Coherent, request.loader \in Loaders
  PROVE  /\ request.entry # <<>> => "base_addr" \in Keys
         /\ Given("processor") => "processor" \in Keys
         /\ Given("component") => "dyld_component" \in Keys
         /\ {"pdb_ref", "debug_ref"} \cap Keys # {} => "loader" \notin Keys
<1> USE DEF Coherent, Loaders, Keys
<1>1. CASE request.regions # <<>>
  BY <1>1 DEF NoHints
<1>2. CASE request.regions = <<>> /\ request.loader \in {"auto", "dex", "apk", "dyld"}
  BY <1>2 DEF ValidHints, NoHints
<1>3. CASE request.regions = <<>> /\ request.loader \in {"macho", "intel-hex", "motorola-hex"}
  BY <1>3 DEF ValidHints, NoHints
<1>4. CASE request.regions = <<>> /\ request.loader = "binary"
  BY <1>4 DEF ValidHints
<1> QED BY <1>1, <1>2, <1>3, <1>4

(* What the worker requires is among them too. *)
LEMMA RequiredPacked ==
  ASSUME Coherent, request.loader \in Loaders, sent.keys = Keys
  PROVE  Required \subseteq sent.keys
<1> USE DEF Coherent, Loaders, Keys, Required
<1>1. CASE request.regions # <<>>
  BY <1>1
<1>2. CASE request.regions = <<>> /\ request.loader \in {"auto", "dex", "apk", "dyld", "macho"}
  BY <1>2
<1>3. CASE request.regions = <<>> /\ request.loader \in {"intel-hex", "motorola-hex"}
  BY <1>3
<1>4. CASE request.regions = <<>> /\ request.loader = "binary"
  BY <1>4 DEF ValidHints
<1> QED BY <1>1, <1>2, <1>3, <1>4

LEMMA ImportServed == ImportInv => RequestServed
  BY HintsPacked DEF ImportInv, RequestServed

(* An import that ends, in an error or an answer, is out of the way. *)
LEMMA ImportEnds ==
  ASSUME ImportInv, request' = request, where' \in {"failed", "answered"},
         outcome' # <<[error |-> "missing parameter"]>>
  PROVE  ImportInv'
  BY DEF ImportInv

LEMMA FailKeeps ==
  ASSUME ImportInv, NEW why \in {"validation", "refused", "container", "limit", "not found",
                                 "component required"}, Fail(why)
  PROVE  ImportInv'
<1>1. outcome' # <<[error |-> "missing parameter"]>>
  BY DEF Fail
<1> QED BY <1>1, ImportEnds DEF Fail

LEMMA OpenedKeeps ==
  ASSUME ImportInv, NEW newBlocks, Opened(newBlocks)
  PROVE  ImportInv'
<1>1. outcome' # <<[error |-> "missing parameter"]>>
  BY DEF Opened
<1> QED BY <1>1, ImportEnds DEF Opened

(* A file that is rewritten leaves the request's fields as they were. *)
LEMMA RewriteKeeps ==
  ASSUME ImportInv, NEW ref, NEW size, Rewrite(ref, size)
  PROVE  ImportInv'
<1>1. \A f \in DOMAIN Plain \ {"rewritten"} : request'[f] = request[f]
  BY DEF ImportInv, Rewrite, Plain
<1>2. request' = [f \in DOMAIN Plain |-> request'[f]]
  BY DEF ImportInv, Rewrite, Plain
<1>3. /\ request'.loader = request.loader /\ request'.processor = request.processor
      /\ request'.base = request.base /\ request'.entry = request.entry
      /\ request'.pdb = request.pdb /\ request'.debug = request.debug
      /\ request'.container = request.container /\ request'.component = request.component
      /\ request'.regions = request.regions
  BY <1>1 DEF Plain
<1>4. Coherent => Coherent'
  BY <1>3 DEF Coherent, Given, NoHints, SupportedProcessor, ValidHints
<1>5. Keys' = Keys
  BY <1>3 DEF Keys, Given
<1> QED BY <1>2, <1>3, <1>4, <1>5 DEF ImportInv, Rewrite

LEMMA ImportStep == ImportInv /\ [ImportMoves]_importVars => ImportInv'
<1> SUFFICES ASSUME ImportInv, [ImportMoves]_importVars PROVE ImportInv'
  OBVIOUS
<1>1. CASE Receive
  <2>1. CASE ValidRequest
    BY <1>1, <2>1, ValidIsCoherent DEF Receive, ImportInv, Coherent, Given, NoHints,
         SupportedProcessor, ValidHints
  <2>2. CASE ~ValidRequest
    BY <1>1, <2>2, FailKeeps DEF Receive
  <2> QED BY <2>1, <2>2
<1>2. CASE ResolveImport
  <2>1. CASE where' = "sent" /\ sent'.keys = Keys /\ UNCHANGED <<request, outcome>>
    BY <1>2, <2>1 DEF ResolveImport, ImportInv, Coherent, Given, NoHints,
         SupportedProcessor, ValidHints, Keys
  <2>2. CASE Fail("refused")
    BY <2>2, FailKeeps
  <2> QED BY <1>2, <2>1, <2>2 DEF ResolveImport
<1>3. CASE DecompressContainer
  <2>1. CASE where' = "unwrapping" /\ UNCHANGED <<request, sent, outcome>>
    BY <1>3, <2>1 DEF DecompressContainer, ImportInv, Coherent, Given, NoHints,
         SupportedProcessor, ValidHints, Keys
  <2>2. CASE Fail("container")
    BY <2>2, FailKeeps
  <2> QED BY <1>3, <2>1, <2>2 DEF DecompressContainer
<1>4. CASE StreamToPayload
  <2>1. CASE UNCHANGED <<request, sent, outcome, where>>
    BY <2>1 DEF ImportInv, Coherent, Given, NoHints, SupportedProcessor, ValidHints, Keys
  <2>2. CASE Fail("limit")
    BY <2>2, FailKeeps
  <2> QED BY <1>4, <2>1, <2>2 DEF StreamToPayload
<1>5. ASSUME NEW ref, NEW size, Rewrite(ref, size) PROVE ImportInv'
  BY <1>5, RewriteKeeps
<1>6. ASSUME Ready PROVE Required \subseteq sent.keys
  BY <1>6, RequiredPacked DEF Ready, Unwrapped, ImportInv
<1>7. ASSUME NEW opens \in BOOLEAN, OpenProgram(opens) PROVE ImportInv'
  <2>1. \/ \E why \in {"component required", "not found"} : Fail(why)
        \/ Opened(Whole)
    BY <1>6, <1>7 DEF OpenProgram
  <2> QED BY <2>1, FailKeeps, OpenedKeeps
<1>8. ASSUME NEW opens \in BOOLEAN, ImportRegions(opens) PROVE ImportInv'
  <2>1. Fail("not found") \/ \E made : Opened(made)
    BY <1>6, <1>8 DEF ImportRegions
  <2> QED BY <2>1, FailKeeps, OpenedKeeps
<1>9. CASE UNCHANGED importVars
  BY <1>9 DEF importVars, ImportInv, Coherent, Given, NoHints, SupportedProcessor, ValidHints, Keys
<1> QED
  BY <1>1, <1>2, <1>3, <1>4, <1>5, <1>7, <1>8, <1>9 DEF ImportMoves

(* A request the schema accepts (SessionImportIn) and the adapter packs     *)
(* never lacks a parameter the worker requires, and no hint is dropped,     *)
(* whatever the request says and whenever a file is rewritten.              *)
THEOREM RequestServedHolds == ImportSpec => []RequestServed
<1>1. ImportAny => ImportInv
  BY DEF ImportAny, ImportInv
<1> QED BY <1>1, ImportStep, ImportServed, PTL DEF ImportSpec

(* The sum of the lengths of blocks, by its partial sums. *)
SumOf(u, rs, n) ==
  /\ u \in [0..n -> Nat] /\ u[0] = 0 /\ u[n] = Bytes(rs)
  /\ \A i \in 1..n : u[i] = u[i - 1] + rs[i].length

LEMMA BytesSums ==
  ASSUME NEW n \in Nat, NEW rs, Len(rs) = n, \A i \in 1..n : rs[i].length \in Nat
  PROVE  \E u : SumOf(u, rs, n)
<1>1. PICK turn : turn = [p \in (1..n) \X Nat |-> p[2] + rs[p[1]].length]
  OBVIOUS
<1>2. turn \in [(1..n) \X Nat -> Nat]
  BY <1>1
<1>3. PICK w \in [0..n -> Nat] : w[0] = 0 /\ \A i \in 1..n : w[i] = turn[<<i, w[i - 1]>>]
  <2>1. 0 \in Nat
    OBVIOUS
  <2>2. \E w : RunOf(w, Nat, 0, n, turn)
    BY <2>1, <1>2, Iterates
  <2> QED BY <2>2 DEF RunOf
<1>4. \A i \in 1..n : i - 1 \in 0..n /\ w[i] = w[i - 1] + rs[i].length
  <2> SUFFICES ASSUME NEW i \in 1..n PROVE i - 1 \in 0..n /\ w[i] = w[i - 1] + rs[i].length
    OBVIOUS
  <2>1. i - 1 \in 0..n /\ w[i - 1] \in Nat
    OBVIOUS
  <2> QED BY <2>1, <1>1, <1>3
<1>5. w = [i \in 0..n |-> IF i = 0 THEN 0 ELSE w[i - 1] + rs[i].length]
  <2>1. \A i \in 0..n : w[i] = IF i = 0 THEN 0 ELSE w[i - 1] + rs[i].length
    BY <1>3, <1>4
  <2> QED BY <2>1
<1>6. PICK v : /\ v = [i \in 0..n |-> IF i = 0 THEN 0 ELSE v[i - 1] + rs[i].length]
               /\ Bytes(rs) = v[n]
  BY <1>5 DEF Bytes
<1>7. v[0] = 0 /\ \A i \in 1..n : v[i] = v[i - 1] + rs[i].length
  <2>1. \A i \in 0..n : v[i] = IF i = 0 THEN 0 ELSE v[i - 1] + rs[i].length
    BY <1>6
  <2> QED BY <2>1
<1>8. v \in [0..n -> Nat]
  <2>1. PICK H : H = {i \in 0..n : v[i] \in Nat}
    OBVIOUS
  <2>2. 0 \in H
    BY <2>1, <1>7
  <2>3. \A i \in 1..n : i - 1 \in H => i \in H
    <3> SUFFICES ASSUME NEW i \in 1..n, v[i - 1] \in Nat PROVE i \in 0..n /\ v[i] \in Nat
      BY <2>1
    <3>1. v[i] = v[i - 1] + rs[i].length /\ rs[i].length \in Nat
      BY <1>7
    <3> QED BY <3>1
  <2>4. \A i \in 0..n : i \in H
    BY <2>2, <2>3, UpTo
  <2>5. \A i \in 0..n : v[i] \in Nat
    BY <2>1, <2>4
  <2>6. v = [i \in 0..n |-> v[i]]
    BY <1>6
  <2> QED BY <2>5, <2>6
<1> QED BY <1>6, <1>7, <1>8 DEF SumOf

(* Blocks none of which is longer than the region it is made from hold no more than they. *)
LEMMA BytesShrink ==
  ASSUME NEW n \in Nat, NEW rs, NEW ms, Len(rs) = n, Len(ms) = n,
         \A i \in 1..n : rs[i].length \in Nat /\ ms[i].length \in Nat /\ ms[i].length <= rs[i].length
  PROVE  Bytes(ms) <= Bytes(rs) /\ Bytes(ms) \in Nat /\ Bytes(rs) \in Nat
<1>0. \A i \in 1..n : rs[i].length \in Nat
  OBVIOUS
<1>9. \A i \in 1..n : ms[i].length \in Nat
  OBVIOUS
<1>10. PICK u : SumOf(u, rs, n)
  BY <1>0, BytesSums
<1>11. PICK v : SumOf(v, ms, n)
  BY <1>9, BytesSums
<1>1. /\ u \in [0..n -> Nat] /\ u[0] = 0 /\ u[n] = Bytes(rs)
      /\ \A i \in 1..n : u[i] = u[i - 1] + rs[i].length
  BY <1>10 DEF SumOf
<1>2. /\ v \in [0..n -> Nat] /\ v[0] = 0 /\ v[n] = Bytes(ms)
      /\ \A i \in 1..n : v[i] = v[i - 1] + ms[i].length
  BY <1>11 DEF SumOf
<1>3. PICK H : H = {i \in 0..n : v[i] <= u[i]}
  OBVIOUS
<1>4. 0 \in H
  BY <1>1, <1>2, <1>3
<1>5. ASSUME NEW i \in 1..n, i - 1 \in H
      PROVE  i \in H
  <2>0. i \in 0..n /\ i - 1 \in 0..n
    OBVIOUS
  <2>1. i \in 0..n /\ v[i - 1] <= u[i - 1] /\ v[i - 1] \in Nat /\ u[i - 1] \in Nat
    BY <2>0, <1>1, <1>2, <1>3, <1>5
  <2>2. v[i] = v[i - 1] + ms[i].length /\ u[i] = u[i - 1] + rs[i].length
    BY <1>1, <1>2
  <2>3. rs[i].length \in Nat /\ ms[i].length \in Nat /\ ms[i].length <= rs[i].length
    OBVIOUS
  <2>4. v[i] <= u[i]
    BY <2>1, <2>2, <2>3
  <2> QED BY <1>3, <2>1, <2>4
<1>6. n \in H
  <2>1. \A i \in 0..n : i \in H
    BY <1>4, <1>5, UpTo
  <2> QED BY <2>1
<1> QED BY <1>1, <1>2, <1>3, <1>6

(* Spans that the two overlap checks let through do not meet. *)
LEMMA CheckedDisjoint ==
  ASSUME NEW n \in Nat, NEW spans, NEW rs, Len(spans) = n, DOMAIN spans = 1..n, DOMAIN rs = 1..n,
         \A i \in 1..n : rs[i].from \in Nat /\ rs[i].length \in Nat
                         /\ spans[i] = <<rs[i].from, rs[i].from + rs[i].length>>,
         NoOverlap(spans)
  PROVE  Disjoint(rs)
<1>1. PICK sorted \in Bijection(1..n, 1..n) :
        /\ \A i, j \in 1..n : i < j =>
             \/ spans[sorted[i]][1] < spans[sorted[j]][1]
             \/ spans[sorted[i]][1] = spans[sorted[j]][1] /\ spans[sorted[i]][2] <= spans[sorted[j]][2]
        /\ \A i \in 1..n - 1 : spans[sorted[i + 1]][1] >= spans[sorted[i]][2]
  BY DEF NoOverlap
<1>2. sorted \in [1..n -> 1..n] /\ \A i \in 1..n : \E k \in 1..n : sorted[k] = i
  BY <1>1 DEF Bijection, Surjection
<1>3. ASSUME NEW k \in 1..n, NEW l \in 1..n, k < l
      PROVE  rs[sorted[k]].from + rs[sorted[k]].length <= rs[sorted[l]].from
  <2>1. k \in 1..n - 1 /\ k + 1 \in 1..n /\ (k + 1 = l \/ k + 1 < l)
    BY <1>3
  <2>2. sorted[k] \in 1..n /\ sorted[l] \in 1..n /\ sorted[k + 1] \in 1..n
    BY <2>1, <1>2
  <2>3. rs[sorted[k]].from + rs[sorted[k]].length <= rs[sorted[k + 1]].from
    <3>1. spans[sorted[k + 1]][1] >= spans[sorted[k]][2]
      BY <2>1, <1>1
    <3>2. /\ spans[sorted[k + 1]][1] = rs[sorted[k + 1]].from
          /\ spans[sorted[k]][2] = rs[sorted[k]].from + rs[sorted[k]].length
      BY <2>2
    <3>3. /\ rs[sorted[k]].from \in Nat /\ rs[sorted[k]].length \in Nat
          /\ rs[sorted[k + 1]].from \in Nat
      BY <2>2
    <3> QED BY ONLY <3>1, <3>2, <3>3
  <2>4. k + 1 < l => rs[sorted[k + 1]].from <= rs[sorted[l]].from
    <3>1. k + 1 < l => spans[sorted[k + 1]][1] < spans[sorted[l]][1] \/ spans[sorted[k + 1]][1] = spans[sorted[l]][1]
      BY <2>1, <1>1
    <3>2. spans[sorted[k + 1]][1] = rs[sorted[k + 1]].from /\ spans[sorted[l]][1] = rs[sorted[l]].from
          /\ rs[sorted[k + 1]].from \in Nat /\ rs[sorted[l]].from \in Nat
      BY <2>2
    <3> QED BY <3>1, <3>2
  <2>5. /\ rs[sorted[k]].from \in Nat /\ rs[sorted[k]].length \in Nat
        /\ rs[sorted[l]].from \in Nat /\ rs[sorted[k + 1]].from \in Nat
    BY <2>2
  <2>6. CASE k + 1 = l
    BY <2>3, <2>6
  <2>7. CASE k + 1 < l
    <3>1. rs[sorted[k + 1]].from <= rs[sorted[l]].from
      BY <2>4, <2>7
    <3>2. \A a, b, c, d \in Nat : a + b <= c /\ c <= d => a + b <= d
      OBVIOUS
    <3> QED BY <2>3, <2>5, <3>1, <3>2
  <2> QED BY <2>1, <2>6, <2>7
<1>4. ASSUME NEW i \in 1..n, NEW j \in 1..n, i # j
      PROVE  rs[i].from + rs[i].length <= rs[j].from \/ rs[j].from + rs[j].length <= rs[i].from
  <2>1. PICK k \in 1..n : sorted[k] = i
    BY <1>2
  <2>2. PICK l \in 1..n : sorted[l] = j
    BY <1>2
  <2>3. k < l \/ l < k
    BY <2>1, <2>2, <1>4
  <2> QED BY <2>1, <2>2, <2>3, <1>3
<1> QED BY <1>4 DEF Disjoint

(* A window lies in the file and is no longer than was asked. *)
LEMMA WindowFits ==
  ASSUME NEW offset \in Nat, NEW size \in Nat, NEW length \in Nat
  PROVE  LET w == Window(offset, size, length)
         IN /\ w.from \in Nat /\ w.length \in Nat /\ w.length <= size
            /\ w.from + w.length <= length /\ w.from <= offset
            /\ w.from = Least(offset, length) /\ w.from + w.length <= offset + size
  BY DEF Window, Least, Most

(* A region as the adapter settles it. *)
LEMMA ResolvedTyped ==
  ASSUME AnyDisk, NEW r \in AnyRegion, ValidRegion(r), r.ref # Absent => r.ref \in DOMAIN disk
  PROVE  Resolved(r) \in GrantedRegion /\ Resolved(r).base = r.base
<1>1. r.base \in Nat /\ r.entry \in Maybe(Nat)
  BY DEF AnyRegion
<1>2. CASE r.ref # Absent
  <2>1. disk[r.ref].size \in Nat
    BY <1>2 DEF AnyDisk
  <2> QED BY <1>1, <1>2, <2>1 DEF Resolved, GrantedRegion
<1>3. CASE r.ref = Absent
  <2>1. r.offset \in Maybe(Nat) /\ r.offset # <<>> /\ r.length \in Maybe(Nat) /\ r.length # <<>>
    BY <1>3 DEF ValidRegion, AnyRegion
  <2>2. r.offset[1] \in Nat /\ r.length[1] \in Nat
    BY <2>1 DEF Maybe
  <2>3. "source" \in DOMAIN disk
    BY DEF AnyDisk
  <2> QED BY <1>1, <1>3, <2>2, <2>3 DEF Resolved, GrantedRegion
<1> QED BY <1>2, <1>3

(* What the adapter lets through of regions. *)
LEMMA RegionsGranted ==
  ASSUME AnyDisk, NEW rs \in Seq(AnyRegion), \A i \in DOMAIN rs : ValidRegion(rs[i]),
         RegionsFit(rs, disk["source"].size)
  PROVE  Granted([i \in DOMAIN rs |-> Resolved(rs[i])])
<1>1. PICK n : n = Len(rs)
  OBVIOUS
<1>2. n \in Nat /\ DOMAIN rs = 1..n /\ \A i \in 1..n : rs[i] \in AnyRegion
  BY <1>1
<1>3. PICK res : res = [i \in DOMAIN rs |-> Resolved(rs[i])]
  OBVIOUS
<1>4. DOMAIN res = 1..n /\ \A i \in 1..n : res[i] = Resolved(rs[i])
  BY <1>2, <1>3
<1>5. \A i \in 1..n : rs[i].ref # Absent => rs[i].ref \in DOMAIN disk
  BY <1>2 DEF RegionsFit, ResolvesAndFits
<1>6. \A i \in 1..n : res[i] \in GrantedRegion
  BY <1>2, <1>4, <1>5, ResolvedTyped
<1>7. res \in Seq(GrantedRegion) /\ Len(res) = n
  <2>1. res = [i \in 1..n |-> res[i]]
    BY <1>2, <1>3
  <2> QED BY <2>1, <1>2, <1>6
<1>8. \A i \in 1..n : res[i].base \in Nat /\ res[i].length \in Nat
  BY <1>6 DEF GrantedRegion
<1>9. Bytes(res) \in Nat
  BY <1>2, <1>7, <1>8, BytesShrink
<1>10. Bytes(res) <= SizeCap
  <2>1. PICK more \in {0, disk["source"].size} : Bytes(res) + more <= SizeCap
    BY <1>3 DEF RegionsFit
  <2>2. more \in Nat /\ SizeCap \in Nat
    BY ImportConstants DEF AnyDisk
  <2> QED BY <1>9, <2>1, <2>2
<1>11. PICK spans : spans = [i \in DOMAIN res |-> <<res[i].base, res[i].base + res[i].length>>]
  OBVIOUS
<1>12. NoOverlap(spans)
  BY <1>3, <1>11 DEF RegionsFit
<1>13. DOMAIN spans = 1..n /\ Len(spans) = n
  BY <1>2, <1>4, <1>11
<1>14. PICK ws : ws = [i \in DOMAIN res |-> [from |-> res[i].base, length |-> res[i].length]]
  OBVIOUS
<1>15. Disjoint(ws)
  <2>1. DOMAIN ws = 1..n
    BY <1>4, <1>14
  <2>2. \A i \in 1..n : ws[i].from \in Nat /\ ws[i].length \in Nat
                        /\ spans[i] = <<ws[i].from, ws[i].from + ws[i].length>>
    BY <1>4, <1>8, <1>11, <1>14
  <2> QED BY <1>2, <1>12, <1>13, <2>1, <2>2, CheckedDisjoint
<1> QED BY <1>3, <1>7, <1>10, <1>14, <1>15 DEF Granted, GrantedRegion

(* The blocks the worker makes of them, from whatever the files have become. *)
LEMMA BlocksMade ==
  ASSUME AnyDisk, NEW rs, Granted(rs), NEW made,
         made = [i \in DOMAIN rs |-> [from |-> rs[i].base, length |-> ReadRegion(rs[i])]]
  PROVE  Disjoint(made) /\ Bytes(made) <= SizeCap
<1>1. PICK n : n = Len(rs)
  OBVIOUS
<1>2. rs \in Seq(GrantedRegion)
  BY DEF Granted, GrantedRegion
<1>3. n \in Nat /\ DOMAIN rs = 1..n /\ \A i \in 1..n : rs[i] \in GrantedRegion
  BY <1>1, <1>2
<1>4. \A i \in 1..n : /\ rs[i].base \in Nat /\ rs[i].length \in Nat /\ rs[i].offset \in Nat
                      /\ disk[rs[i].ref].size \in Nat
  BY <1>3 DEF GrantedRegion, AnyDisk
<1>5. \A i \in 1..n : ReadRegion(rs[i]) \in Nat /\ ReadRegion(rs[i]) <= rs[i].length
  BY <1>4, WindowFits DEF ReadRegion
<1>6. /\ DOMAIN made = 1..n /\ Len(made) = n
      /\ \A i \in 1..n : /\ made[i].from = rs[i].base /\ made[i].length \in Nat
                         /\ made[i].length <= rs[i].length
  BY <1>3, <1>5
<1>7. Bytes(made) <= SizeCap
  <2>1. Bytes(made) <= Bytes(rs) /\ Bytes(made) \in Nat /\ Bytes(rs) \in Nat
    BY <1>1, <1>3, <1>4, <1>6, BytesShrink
  <2>2. Bytes(rs) <= SizeCap /\ SizeCap \in Nat
    BY ImportConstants DEF Granted
  <2> QED BY <2>1, <2>2
<1>8. ASSUME NEW i \in 1..n, NEW j \in 1..n, i # j
      PROVE  \/ made[i].from + made[i].length <= made[j].from
             \/ made[j].from + made[j].length <= made[i].from
  <2>1. \/ rs[i].base + rs[i].length <= rs[j].base
        \/ rs[j].base + rs[j].length <= rs[i].base
    <3>1. PICK ws : ws = [k \in DOMAIN rs |-> [from |-> rs[k].base, length |-> rs[k].length]]
      OBVIOUS
    <3>2. Disjoint(ws)
      BY <3>1 DEF Granted
    <3>3. /\ i \in DOMAIN ws /\ j \in DOMAIN ws
          /\ ws[i].from = rs[i].base /\ ws[i].length = rs[i].length
          /\ ws[j].from = rs[j].base /\ ws[j].length = rs[j].length
      BY <3>1, <1>3
    <3> QED BY <3>2, <3>3, <1>8 DEF Disjoint
  <2>2. /\ made[i].from = rs[i].base /\ made[i].length \in Nat /\ made[i].length <= rs[i].length
        /\ made[j].from = rs[j].base /\ made[j].length \in Nat /\ made[j].length <= rs[j].length
        /\ rs[i].base \in Nat /\ rs[j].base \in Nat /\ rs[i].length \in Nat /\ rs[j].length \in Nat
    BY <1>4, <1>6
  <2> QED BY <2>1, <2>2
<1> QED BY <1>6, <1>7, <1>8 DEF Disjoint

(* The parts of a boot image that its header places. *)
LEMMA PartsPlaced ==
  ASSUME AnyDisk, AnyImage, request.container = "androidboot",
         ParseAndroidBootHeader(request.image, Limit) # <<>>
  PROVE  PartsApart
<1>1. PICK image : image = request.image
  OBVIOUS
<1>2. PICK size : size = disk["source"].size
  OBVIOUS
<1>3. image.ramdisk \in Nat /\ size \in Nat
  BY <1>1, <1>2 DEF AnyImage, AnyDisk
<1>4. image.page \in MinPage..MaxPage /\ image.kernel \in 1..Limit
  BY <1>1 DEF ParseAndroidBootHeader
<1>5. image.page \in Nat \ {0} /\ image.kernel \in Nat
  <2>1. MinPage \in Nat \ {0} /\ MaxPage \in Nat
    BY FormatConstants
  <2>2. image.page \in Nat \ {0}
    BY <1>4, <2>1
  <2>3. image.kernel \in Nat
    BY <1>4
  <2> QED BY <2>2, <2>3
<1>6. PICK after : after = PageUp(image.kernel, image.page)
  OBVIOUS
<1>7. after \in Nat /\ after >= image.kernel
  <2>1. \A s, p \in Nat : p # 0 => ((s + p - 1) \div p) * p >= s /\ ((s + p - 1) \div p) * p \in Nat
    OBVIOUS
  <2> QED BY <1>5, <1>6, <2>1 DEF PageUp
<1>8. PICK k : k = Window(image.page, image.kernel, size)
  OBVIOUS
<1>9. PICK r : r = Window(image.page + after, image.ramdisk, size)
  OBVIOUS
<1>10. image.page + after \in Nat
  BY <1>5, <1>7
<1>11. /\ k.from \in Nat /\ k.length \in Nat /\ k.from + k.length <= size
       /\ k.from + k.length <= image.page + image.kernel
  BY <1>3, <1>5, <1>8, WindowFits
<1>12. /\ r.from \in Nat /\ r.length \in Nat /\ r.from + r.length <= size
       /\ r.from = Least(image.page + after, size)
  BY <1>3, <1>9, <1>10, WindowFits
<1>13. k.from + k.length <= r.from
  BY <1>3, <1>5, <1>7, <1>11, <1>12 DEF Least
<1>14. Apart(<<k, r>>, size)
  BY <1>11, <1>12, <1>13 DEF Apart
<1>15. ParseAndroidBootHeader(request.image, Limit)[1]
         = [kernel  |-> [offset |-> image.page, size |-> image.kernel],
            ramdisk |-> [offset |-> image.page + after, size |-> image.ramdisk]]
  BY <1>1, <1>6 DEF ParseAndroidBootHeader
<1> QED BY <1>2, <1>8, <1>9, <1>14, <1>15 DEF PartsApart

(* Windows apart stay apart when one is added past the last. *)
EndBy(windows, bound) == \A i \in DOMAIN windows : windows[i].from + windows[i].length <= bound

LEMMA ApartAdded ==
  ASSUME NEW windows \in Seq([from : Nat, length : Nat]), NEW total \in Nat, Apart(windows, total),
         NEW start \in Nat, NEW size \in Nat, start + size <= total,
         EndBy(windows, start),
         NEW more, more = Append(windows, [from |-> start, length |-> size]),
         NEW end, end = start + size
  PROVE  /\ Apart(more, total) /\ more \in Seq([from : Nat, length : Nat])
         /\ Len(more) = Len(windows) + 1 /\ EndBy(more, end)
<1>1. PICK w : w = [from |-> start, length |-> size]
  OBVIOUS
<1>2. more = Append(windows, w)
  BY <1>1
<1>3. PICK n : n = Len(windows)
  OBVIOUS
<1>4. w \in [from : Nat, length : Nat] /\ w.from = start /\ w.length = size
  BY <1>1
<1>5. /\ n \in Nat /\ DOMAIN windows = 1..n /\ DOMAIN more = 1..n + 1 /\ Len(more) = n + 1
      /\ \A i \in 1..n : more[i] = windows[i]
      /\ more[n + 1] = w /\ more \in Seq([from : Nat, length : Nat])
  BY <1>2, <1>3, <1>4, Pushed
<1>6. \A i \in 1..n : windows[i].from \in Nat /\ windows[i].length \in Nat
  <2>1. \A i \in 1..n : windows[i] \in [from : Nat, length : Nat]
    BY <1>3, ElementOfSeq
  <2> QED BY <2>1
<1>7. \A i \in 1..n + 1 : i = n + 1 \/ i \in 1..n
  BY <1>5
<1>8. ASSUME NEW i \in 1..n + 1
      PROVE  more[i].from + more[i].length <= start + size /\ more[i].from + more[i].length <= total
  <2>1. CASE i = n + 1
    BY <2>1, <1>4, <1>5
  <2>2. CASE i \in 1..n
    <3>1. windows[i].from + windows[i].length <= start
      BY <2>2, <1>5 DEF EndBy
    <3>2. windows[i].from \in Nat /\ windows[i].length \in Nat /\ more[i] = windows[i]
      BY <2>2, <1>5, <1>6
    <3>3. \A a, b \in Nat : a + b <= start => a + b <= start + size /\ a + b <= total
      OBVIOUS
    <3> QED BY <3>1, <3>2, <3>3
  <2> QED BY <2>1, <2>2, <1>7
<1>9. ASSUME NEW i \in 1..n + 1, NEW j \in 1..n + 1, i < j
      PROVE  more[i].from + more[i].length <= more[j].from
  <2>1. i \in 1..n
    BY <1>5, <1>9
  <2>2. CASE j = n + 1
    BY <2>1, <2>2, <1>4, <1>5 DEF EndBy
  <2>3. CASE j \in 1..n
    BY <2>1, <2>3, <1>5, <1>9 DEF Apart
  <2> QED BY <2>2, <2>3, <1>7
<1>10. Apart(more, total)
  BY <1>5, <1>8, <1>9 DEF Apart
<1> QED BY <1>3, <1>5, <1>8, <1>10 DEF EndBy

(* The archive readers: where they are and what they have found.           *)
ReaderState ==
  [pos : Nat, found : Seq([from : Nat, length : Nat]), state : {"open", "end", "raised"}]
FoundSoFar(total) ==
  {w \in ReaderState :
     Apart(w.found, total) /\ Len(w.found) <= MaxMembers /\ EndBy(w.found, w.pos)}

(* Giving up, or reaching the end, keeps what was found. *)
LEMMA ReaderStops ==
  ASSUME NEW total \in Nat, NEW w \in FoundSoFar(total), NEW how \in {"end", "raised"}
  PROVE  [w EXCEPT !.state = how] \in FoundSoFar(total)
<1>1. w \in ReaderState
  BY DEF FoundSoFar
<1>2. PICK v : v = [w EXCEPT !.state = how]
  OBVIOUS
<1>3. v \in ReaderState /\ v.pos = w.pos /\ v.found = w.found
  BY <1>1, <1>2 DEF ReaderState
<1> QED BY <1>2, <1>3 DEF FoundSoFar

(* One member more, past those found, within the buffer. *)
LEMMA ReaderFinds ==
  ASSUME NEW total \in Nat, NEW w \in FoundSoFar(total), Len(w.found) # MaxMembers,
         NEW start \in Nat, NEW size \in Nat, NEW pos \in Nat,
         w.pos <= start, start + size <= total, start + size <= pos
  PROVE  [pos |-> pos, state |-> "open", found |-> Append(w.found, [from |-> start, length |-> size])]
           \in FoundSoFar(total)
<1>1. /\ w.pos \in Nat /\ w.found \in Seq([from : Nat, length : Nat]) /\ Apart(w.found, total)
      /\ Len(w.found) <= MaxMembers /\ MaxMembers \in Nat /\ EndBy(w.found, w.pos)
  BY FormatConstants DEF FoundSoFar, ReaderState
<1>2. \A i \in DOMAIN w.found : w.found[i].from \in Nat /\ w.found[i].length \in Nat
  <2>1. DOMAIN w.found = 1..Len(w.found)
    BY <1>1
  <2>2. \A i \in 1..Len(w.found) : w.found[i] \in [from : Nat, length : Nat]
    BY <1>1, ElementOfSeq
  <2> QED BY <2>1, <2>2
<1>3. EndBy(w.found, start)
  <2>1. \A a, b \in Nat : a + b <= w.pos => a + b <= start
    BY <1>1
  <2> QED BY <2>1, <1>1, <1>2 DEF EndBy
<1>4. PICK more : more = Append(w.found, [from |-> start, length |-> size])
  OBVIOUS
<1>5. /\ Apart(more, total) /\ more \in Seq([from : Nat, length : Nat]) /\ Len(more) = Len(w.found) + 1
      /\ EndBy(more, start + size)
  <2>1. PICK end : end = start + size
    OBVIOUS
  <2>2. w.found \in Seq([from : Nat, length : Nat]) /\ Apart(w.found, total)
    BY <1>1
  <2>3. /\ Apart(more, total) /\ more \in Seq([from : Nat, length : Nat])
        /\ EndBy(more, end)
    BY <2>1, <2>2, <1>3, <1>4, ApartAdded, Zenon
  <2>4. Len(more) = Len(w.found) + 1
    BY <2>2, <1>4
  <2> QED BY <2>1, <2>3, <2>4
<1>6. Len(more) <= MaxMembers
  <2>1. Len(w.found) \in Nat
    BY <1>1
  <2> QED BY <2>1, <1>1, <1>5
<1>7. EndBy(more, pos)
  <2>1. \A i \in DOMAIN more : more[i].from \in Nat /\ more[i].length \in Nat
    <3>1. DOMAIN more = 1..Len(more)
      BY <1>5
    <3>2. \A i \in 1..Len(more) : more[i] \in [from : Nat, length : Nat]
      BY <1>5, ElementOfSeq
    <3> QED BY <3>1, <3>2
  <2>2. \A a, b \in Nat : a + b <= start + size => a + b <= pos
    OBVIOUS
  <2> QED BY <2>1, <2>2, <1>5 DEF EndBy
<1> QED BY <1>4, <1>5, <1>6, <1>7 DEF FoundSoFar, ReaderState

LEMMA BlockRead ==
  ASSUME NEW total \in Nat, NEW word \in [0..total - 1 -> [kind : STRING, n : Nat]],
         NEW w \in FoundSoFar(total)
  PROVE  NextBlock(word, total, w) \in FoundSoFar(total)
<1>1. w.pos \in Nat /\ w.state \in {"open", "end", "raised"} /\ Field \in Nat \ {0}
  BY FormatConstants DEF FoundSoFar, ReaderState
<1>2. CASE w.state # "open"
  BY <1>2 DEF NextBlock
<1>3. CASE w.state = "open" /\ (w.pos + Field > total \/ word[w.pos].kind = "magic")
  BY <1>3, ReaderStops DEF NextBlock
<1>4. CASE w.state = "open" /\ ~(w.pos + Field > total \/ word[w.pos].kind = "magic")
  <2>1. PICK size : size = word[w.pos].n
    OBVIOUS
  <2>2. PICK start : start = w.pos + Field
    OBVIOUS
  <2>3. w.pos \in 0..total - 1 /\ start \in Nat /\ w.pos <= start
    BY <1>1, <1>4, <2>2
  <2>4. size \in Nat
    BY <2>1, <2>3
  <2>5. NextBlock(word, total, w)
          = IF size = 0 \/ start + size > total \/ Len(w.found) = MaxMembers
            THEN [w EXCEPT !.state = "raised"]
            ELSE [pos |-> start + size, state |-> "open",
                  found |-> Append(w.found, [from |-> start, length |-> size])]
    BY <1>4, <2>1, <2>2 DEF NextBlock
  <2>6. CASE size = 0 \/ start + size > total \/ Len(w.found) = MaxMembers
    BY <2>5, <2>6, ReaderStops
  <2>7. CASE ~(size = 0 \/ start + size > total \/ Len(w.found) = MaxMembers)
    <3>1. start + size \in Nat /\ start + size <= start + size /\ start + size <= total
      BY <2>3, <2>4, <2>7
    <3> QED BY <2>3, <2>4, <2>5, <2>7, <3>1, ReaderFinds
  <2> QED BY <2>6, <2>7
<1> QED BY <1>2, <1>3, <1>4

LEMMA Padded == \A n \in Nat : Pad(n) \in Nat /\ Pad(n) >= n
  BY DEF Pad, PageUp

LEMMA EntryRead ==
  ASSUME NEW total \in Nat, NEW word \in [0..total - 1 -> [kind : STRING, n : Nat]],
         NEW w \in FoundSoFar(total)
  PROVE  NextEntry(word, total, w) \in FoundSoFar(total)
<1>1. w.pos \in Nat /\ Field \in Nat \ {0}
  BY FormatConstants DEF FoundSoFar, ReaderState
<1>2. CASE w.state # "open"
  BY <1>2 DEF NextEntry
<1>3. CASE w.state = "open" /\ Malformed(word, total, w)
  BY <1>3, ReaderStops DEF NextEntry
<1>4. CASE w.state = "open" /\ ~Malformed(word, total, w)
  <2>1. CASE word[w.pos].kind = "trailer"
    BY <1>4, <2>1, ReaderStops DEF NextEntry
  <2>2. CASE word[w.pos].kind # "trailer"
    <3>1. /\ ~(w.pos + Field + 1 > total) /\ ~(EntryStart(w) + word[w.pos].n > total)
          /\ Len(w.found) # MaxMembers
      BY <1>4, <2>2 DEF Malformed
    <3>2. PICK size : size = word[w.pos].n
      OBVIOUS
    <3>3. PICK start : start = EntryStart(w)
      OBVIOUS
    <3>4. w.pos \in 0..total - 1 /\ w.pos + Field + 1 \in Nat
      BY <1>1, <3>1
    <3>5. size \in Nat
      BY <3>2, <3>4
    <3>6. start \in Nat /\ w.pos <= start
      <4>1. Pad(w.pos + Field + 1) \in Nat /\ Pad(w.pos + Field + 1) >= w.pos + Field + 1
        BY <3>4, Padded
      <4> QED BY <4>1, <1>1, <3>3 DEF EntryStart
    <3>7. start + size \in Nat /\ start + size <= total
      <4>1. ~(start + size > total)
        BY <3>1, <3>2, <3>3
      <4> QED BY <4>1, <3>5, <3>6
    <3>8. Pad(start + size) \in Nat /\ start + size <= Pad(start + size)
      BY <3>7, Padded
    <3>9. NextEntry(word, total, w)
            = [pos |-> Pad(start + size), state |-> "open",
               found |-> Append(w.found, [from |-> start, length |-> size])]
      BY <1>4, <2>2, <3>2, <3>3 DEF NextEntry
    <3> QED BY <3>1, <3>5, <3>6, <3>7, <3>8, <3>9, ReaderFinds
  <2> QED BY <2>1, <2>2
<1> QED BY <1>2, <1>3, <1>4

(* What either reader returns, whatever stands in the archive. *)
LEMMA FrameApart ==
  ASSUME NEW total \in Nat, NEW word \in [0..total - 1 -> [kind : STRING, n : Nat]],
         NEW found, <<found>> = ParseLegacyFrame(word, total)
  PROVE  Apart(found, total) /\ Len(found) <= MaxMembers
<1>1. PICK S : S = FoundSoFar(total)
  OBVIOUS
<1>3. ReaderStart(Field) \in S
  <2>1. ReaderStart(Field) \in ReaderState /\ Apart(ReaderStart(Field).found, total) /\ EndBy(ReaderStart(Field).found, ReaderStart(Field).pos)
    BY FormatConstants DEF ReaderStart, ReaderState, Apart, EndBy
  <2>2. Len(ReaderStart(Field).found) <= MaxMembers
    BY FormatConstants DEF ReaderStart
  <2> QED BY <1>1, <2>1, <2>2 DEF FoundSoFar
<1>4. \A w \in S : NextBlock(word, total, w) \in S
  BY <1>1, BlockRead
<1>5. PICK turn : turn = [p \in (1..total + 1) \X S |-> NextBlock(word, total, p[2])]
  OBVIOUS
<1>6. turn \in [(1..total + 1) \X S -> S]
  BY <1>4, <1>5
<1>7. PICK w : RunOf(w, S, ReaderStart(Field), total + 1, turn)
  <2>1. total + 1 \in Nat
    OBVIOUS
  <2> QED BY <2>1, <1>3, <1>6, Iterates
<1>8. w = [n \in 0..total + 1 |-> IF n = 0 THEN ReaderStart(Field) ELSE NextBlock(word, total, w[n - 1])]
  <2>1. w \in [0..total + 1 -> S] /\ w[0] = ReaderStart(Field) /\ \A n \in 1..total + 1 : w[n] = turn[<<n, w[n - 1]>>]
    BY <1>7 DEF RunOf
  <2>2. \A n \in 1..total + 1 : w[n] = NextBlock(word, total, w[n - 1])
    <3> SUFFICES ASSUME NEW n \in 1..total + 1 PROVE w[n] = NextBlock(word, total, w[n - 1])
      OBVIOUS
    <3>1. n - 1 \in 0..total + 1
      OBVIOUS
    <3>2. w[n - 1] \in S
      BY <2>1, <3>1
    <3> QED BY <2>1, <3>2, <1>5
  <2>3. \A n \in 0..total + 1 : w[n] = IF n = 0 THEN ReaderStart(Field) ELSE NextBlock(word, total, w[n - 1])
    <3>1. \A n \in 0..total + 1 : n = 0 \/ n \in 1..total + 1
      OBVIOUS
    <3> QED BY <2>1, <2>2, <3>1
  <2> QED BY <2>1, <2>3
<1>13. PICK reader :
         reader = CHOOSE v : v = [n \in 0..total + 1 |-> IF n = 0 THEN ReaderStart(Field) ELSE NextBlock(word, total, v[n - 1])]
  OBVIOUS
<1>9. /\ reader = [n \in 0..total + 1 |-> IF n = 0 THEN ReaderStart(Field) ELSE NextBlock(word, total, reader[n - 1])]
      /\ ParseLegacyFrame(word, total)
           = IF reader[total + 1].state = "end" /\ reader[total + 1].found # <<>>
             THEN <<reader[total + 1].found>> ELSE <<>>
  <2>1. reader = [n \in 0..total + 1 |-> IF n = 0 THEN ReaderStart(Field) ELSE NextBlock(word, total, reader[n - 1])]
    BY <1>8, <1>13
  <2>2. ParseLegacyFrame(word, total)
          = IF reader[total + 1].state = "end" /\ reader[total + 1].found # <<>>
            THEN <<reader[total + 1].found>> ELSE <<>>
    BY <1>13 DEF ParseLegacyFrame
  <2> QED BY <2>1, <2>2
<1>10. total + 1 \in 0..total + 1 /\ total + 1 \in Nat
  OBVIOUS
<1>11. reader[total + 1] \in S
  <2>1. PICK H : H = {n \in 0..total + 1 : reader[n] \in S}
    OBVIOUS
  <2>2. 0 \in H
    <3>1. 0 \in 0..total + 1
      OBVIOUS
    <3> QED BY <2>1, <3>1, <1>3, <1>9
  <2>3. ASSUME NEW n \in 1..total + 1, n - 1 \in H
        PROVE  n \in H
    <3>1. n \in 0..total + 1 /\ n # 0
      OBVIOUS
    <3>2. reader[n] = NextBlock(word, total, reader[n - 1])
      BY <3>1, <1>9
    <3> QED BY <2>1, <2>3, <3>1, <3>2, <1>4
  <2>4. \A n \in 0..total + 1 : n \in H
    BY <2>2, <2>3, <1>10, UpTo
  <2> QED BY <2>1, <2>4, <1>10
<1>12. found = reader[total + 1].found
  <2>1. <<found>> # <<>>
    OBVIOUS
  <2>2. <<found>> = <<reader[total + 1].found>>
    BY <2>1, <1>9
  <2> QED BY <2>2
<1> QED BY <1>1, <1>11, <1>12 DEF FoundSoFar

LEMMA EntriesApart ==
  ASSUME NEW total \in Nat, NEW word \in [0..total - 1 -> [kind : STRING, n : Nat]],
         NEW found, <<found>> = ParseNewcEntries(word, total)
  PROVE  Apart(found, total) /\ Len(found) <= MaxMembers
<1>1. PICK S : S = FoundSoFar(total)
  OBVIOUS
<1>3. ReaderStart(0) \in S
  <2>1. ReaderStart(0) \in ReaderState /\ Apart(ReaderStart(0).found, total) /\ EndBy(ReaderStart(0).found, ReaderStart(0).pos)
    BY FormatConstants DEF ReaderStart, ReaderState, Apart, EndBy
  <2>2. Len(ReaderStart(0).found) <= MaxMembers
    BY FormatConstants DEF ReaderStart
  <2> QED BY <1>1, <2>1, <2>2 DEF FoundSoFar
<1>4. \A w \in S : NextEntry(word, total, w) \in S
  BY <1>1, EntryRead
<1>5. PICK turn : turn = [p \in (1..total + 1) \X S |-> NextEntry(word, total, p[2])]
  OBVIOUS
<1>6. turn \in [(1..total + 1) \X S -> S]
  BY <1>4, <1>5
<1>7. PICK w : RunOf(w, S, ReaderStart(0), total + 1, turn)
  <2>1. total + 1 \in Nat
    OBVIOUS
  <2> QED BY <2>1, <1>3, <1>6, Iterates
<1>8. w = [n \in 0..total + 1 |-> IF n = 0 THEN ReaderStart(0) ELSE NextEntry(word, total, w[n - 1])]
  <2>1. w \in [0..total + 1 -> S] /\ w[0] = ReaderStart(0) /\ \A n \in 1..total + 1 : w[n] = turn[<<n, w[n - 1]>>]
    BY <1>7 DEF RunOf
  <2>2. \A n \in 1..total + 1 : w[n] = NextEntry(word, total, w[n - 1])
    <3> SUFFICES ASSUME NEW n \in 1..total + 1 PROVE w[n] = NextEntry(word, total, w[n - 1])
      OBVIOUS
    <3>1. n - 1 \in 0..total + 1
      OBVIOUS
    <3>2. w[n - 1] \in S
      BY <2>1, <3>1
    <3> QED BY <2>1, <3>2, <1>5
  <2>3. \A n \in 0..total + 1 : w[n] = IF n = 0 THEN ReaderStart(0) ELSE NextEntry(word, total, w[n - 1])
    <3>1. \A n \in 0..total + 1 : n = 0 \/ n \in 1..total + 1
      OBVIOUS
    <3> QED BY <2>1, <2>2, <3>1
  <2> QED BY <2>1, <2>3
<1>13. PICK reader :
         reader = CHOOSE v : v = [n \in 0..total + 1 |-> IF n = 0 THEN ReaderStart(0) ELSE NextEntry(word, total, v[n - 1])]
  OBVIOUS
<1>9. /\ reader = [n \in 0..total + 1 |-> IF n = 0 THEN ReaderStart(0) ELSE NextEntry(word, total, reader[n - 1])]
      /\ ParseNewcEntries(word, total)
           = IF reader[total + 1].state = "end"
             THEN <<reader[total + 1].found>> ELSE <<>>
  <2>1. reader = [n \in 0..total + 1 |-> IF n = 0 THEN ReaderStart(0) ELSE NextEntry(word, total, reader[n - 1])]
    BY <1>8, <1>13
  <2>2. ParseNewcEntries(word, total)
          = IF reader[total + 1].state = "end"
            THEN <<reader[total + 1].found>> ELSE <<>>
    BY <1>13 DEF ParseNewcEntries
  <2> QED BY <2>1, <2>2
<1>10. total + 1 \in 0..total + 1 /\ total + 1 \in Nat
  OBVIOUS
<1>11. reader[total + 1] \in S
  <2>1. PICK H : H = {n \in 0..total + 1 : reader[n] \in S}
    OBVIOUS
  <2>2. 0 \in H
    <3>1. 0 \in 0..total + 1
      OBVIOUS
    <3> QED BY <2>1, <3>1, <1>3, <1>9
  <2>3. ASSUME NEW n \in 1..total + 1, n - 1 \in H
        PROVE  n \in H
    <3>1. n \in 0..total + 1 /\ n # 0
      OBVIOUS
    <3>2. reader[n] = NextEntry(word, total, reader[n - 1])
      BY <3>1, <1>9
    <3> QED BY <2>1, <2>3, <3>1, <3>2, <1>4
  <2>4. \A n \in 0..total + 1 : n \in H
    BY <2>2, <2>3, <1>10, UpTo
  <2> QED BY <2>1, <2>4, <1>10
<1>12. found = reader[total + 1].found
  <2>1. <<found>> # <<>>
    OBVIOUS
  <2>2. <<found>> = <<reader[total + 1].found>>
    BY <2>1, <1>9
  <2> QED BY <2>2
<1> QED BY <1>1, <1>11, <1>12 DEF FoundSoFar

(* The members of the archive an image carries. *)
LEMMA MembersFound ==
  ASSUME AnyImage, request.container = "androidboot"
  PROVE  MembersApart
<1>1. PICK total \in Nat : request.image.word \in [0..total - 1 -> [kind : STRING, n : Nat]]
  BY DEF AnyImage
<1>2. Cardinality(DOMAIN request.image.word) = total
  <2>1. DOMAIN request.image.word = 0..total - 1
    BY <1>1
  <2>2. Cardinality(0..total - 1) = total
    <3>1. 0 \in Int /\ total - 1 \in Int
      OBVIOUS
    <3>2. Cardinality(0..total - 1) = IF 0 > total - 1 THEN 0 ELSE total - 1 - 0 + 1
      BY <3>1, FS_Interval
    <3> QED BY <3>2
  <2> QED BY <2>1, <2>2
<1>3. PICK word : word = request.image.word
  OBVIOUS
<1>4. PICK frame : frame = ParseLegacyFrame(word, total)
  OBVIOUS
<1>5. PICK cpio : cpio = ParseNewcEntries(word, total)
  OBVIOUS
<1>6. frame = <<>> \/ \E found : frame = <<found>>
  BY <1>4 DEF ParseLegacyFrame
<1>7. cpio = <<>> \/ \E found : cpio = <<found>>
  BY <1>5 DEF ParseNewcEntries
<1>8. ASSUME NEW found, frame = <<found>> \/ cpio = <<found>>
      PROVE  Apart(found, total) /\ Len(found) <= MaxMembers
  <2>1. word \in [0..total - 1 -> [kind : STRING, n : Nat]]
    BY <1>1, <1>3
  <2>2. CASE frame = <<found>>
    BY <2>1, <2>2, <1>4, FrameApart
  <2>3. CASE cpio = <<found>>
    BY <2>1, <2>3, <1>5, EntriesApart
  <2> QED BY <1>8, <2>2, <2>3
<1>9. \A found \in ToSet(frame) \cup ToSet(cpio) : frame = <<found>> \/ cpio = <<found>>
  BY <1>6, <1>7 DEF ToSet
<1> QED BY <1>2, <1>3, <1>4, <1>5, <1>8, <1>9 DEF MembersApart

LEMMA ConfinedIsConfined == ConfinedInv => ImportConfined
  BY PartsPlaced, MembersFound DEF ConfinedInv, ImportConfined

(* What a step that leaves the request and the files keeps. *)
LEMMA KeepsGiven ==
  ASSUME ConfinedInv, UNCHANGED <<request, disk>>
  PROVE  /\ (request.regions \in Maybe(Seq(AnyRegion)) /\ AnyImage /\ AnyDisk)' /\ Limit' = Limit
         /\ \A regions : Granted(regions)' <=> Granted(regions)
<1>1. \A regions : Granted(regions)' <=> Granted(regions)
  BY DEF Granted, GrantedRegion
<1> QED BY <1>1 DEF ConfinedInv, AnyImage, AnyDisk, Limit

LEMMA FailConfined ==
  ASSUME ConfinedInv, NEW why, Fail(why)
  PROVE  ConfinedInv'
<1>1. UNCHANGED <<request, disk, sent, payload, blocks>> /\ where' = "failed"
  BY DEF Fail
<1> QED BY <1>1, KeepsGiven DEF ConfinedInv

LEMMA LimitOfSize == \A size \in Nat : Least(MaxOutput, Most(size, 1) * MaxRatio) \in Nat
<1> SUFFICES ASSUME NEW size \in Nat PROVE Least(MaxOutput, Most(size, 1) * MaxRatio) \in Nat
  OBVIOUS
<1>1. MaxRatio \in Nat /\ MaxOutput \in Nat
  BY ImportConstants
<1>2. \A a, b \in Nat : a * b \in Nat
  OBVIOUS
<1>3. Most(size, 1) \in Nat
  BY DEF Most
<1>4. Most(size, 1) * MaxRatio \in Nat
  BY <1>1, <1>2, <1>3
<1> QED BY <1>1, <1>4 DEF Least

LEMMA LimitNat == AnyDisk => Limit \in Nat
  BY LimitOfSize DEF AnyDisk, Limit

LEMMA ReceiveConfined == ConfinedInv /\ Receive => ConfinedInv'
<1> SUFFICES ASSUME ConfinedInv, Receive PROVE ConfinedInv'
  OBVIOUS
<1>1. CASE ValidRequest
  <2>1. where = "received" /\ where' = "resolving" /\ UNCHANGED <<request, disk, sent, payload, blocks>>
    BY <1>1 DEF Receive
  <2>2. request.regions # <<>> => \A i \in DOMAIN request.regions[1] : ValidRegion(request.regions[1][i])
    BY <1>1 DEF ValidRequest, ValidRegions
  <2>3. \A r : ValidRegion(r)' <=> ValidRegion(r)
    BY DEF ValidRegion
  <2> QED BY <2>1, <2>2, <2>3, KeepsGiven DEF ConfinedInv
<1>2. CASE ~ValidRequest
  BY <1>2, FailConfined DEF Receive
<1> QED BY <1>1, <1>2

(* Only a request with regions sends some. *)
LEMMA RegionsKey == request.loader \in Loaders /\ "regions" \in Keys => request.regions # <<>>
  BY DEF Keys, Loaders

LEMMA ResolveConfined == ImportInv /\ ConfinedInv /\ ResolveImport => ConfinedInv'
<1> SUFFICES ASSUME ImportInv, ConfinedInv, ResolveImport PROVE ConfinedInv'
  OBVIOUS
<1>1. CASE Fail("refused")
  BY <1>1, FailConfined
<1>2. CASE ~Fail("refused")
  <2>1. /\ where = "resolving" /\ where' = "sent" /\ UNCHANGED <<request, disk, payload, blocks>>
        /\ request.regions # <<>> => RegionsFit(request.regions[1], disk["source"].size)
        /\ sent'.keys = Keys
        /\ sent'.regions = IF request.regions = <<>> THEN <<>>
                           ELSE [i \in DOMAIN request.regions[1] |-> Resolved(request.regions[1][i])]
    BY <1>2 DEF ResolveImport
  <2>2. "regions" \in sent'.keys => Granted(sent'.regions)
    <3> SUFFICES ASSUME "regions" \in sent'.keys PROVE Granted(sent'.regions)
      OBVIOUS
    <3>1. request.regions # <<>>
      BY <2>1, RegionsKey DEF ImportInv
    <3>2. request.regions[1] \in Seq(AnyRegion)
      BY <3>1 DEF ConfinedInv, Maybe
    <3>3. \A i \in DOMAIN request.regions[1] : ValidRegion(request.regions[1][i])
      BY <2>1, <3>1 DEF ConfinedInv
    <3>4. Granted([i \in DOMAIN request.regions[1] |-> Resolved(request.regions[1][i])])
      BY <2>1, <3>1, <3>2, <3>3, RegionsGranted DEF ConfinedInv
    <3> QED BY <2>1, <3>1, <3>4
  <2> QED BY <2>1, <2>2, KeepsGiven DEF ConfinedInv
<1> QED BY <1>1, <1>2

LEMMA RewriteConfined ==
  ASSUME ImportInv, ConfinedInv, NEW ref \in DOMAIN disk, NEW size \in Nat, Rewrite(ref, size)
  PROVE  ConfinedInv'
<1>1. /\ where \in {"resolving", "sent"} /\ UNCHANGED <<where, sent, payload, blocks>>
      /\ request' = [request EXCEPT !.rewritten = FALSE]
      /\ disk' = [disk EXCEPT ![ref].size = size, ![ref].version = 2]
  BY DEF Rewrite
<1>2. \A f \in DOMAIN Plain \ {"rewritten"} : request'[f] = request[f]
  BY <1>1 DEF ImportInv, Plain
<1>3. /\ request'.regions = request.regions /\ request'.image = request.image
      /\ request'.container = request.container
  BY <1>2 DEF Plain
<1>4. DOMAIN disk' = DOMAIN disk /\ AnyDisk'
  BY <1>1 DEF ConfinedInv, AnyDisk
<1>5. \A regions : Granted(regions)' <=> Granted(regions)
  BY <1>4 DEF Granted, GrantedRegion
<1>6. AnyImage'
  BY <1>3 DEF ConfinedInv, AnyImage
<1>7. Limit' \in Nat
  BY <1>4, LimitOfSize DEF AnyDisk, Limit
<1>8. payload'.written = 0
  BY <1>1 DEF ConfinedInv
<1>9. \A r : ValidRegion(r)' <=> ValidRegion(r)
  BY DEF ValidRegion
<1> QED BY <1>1, <1>3, <1>4, <1>5, <1>6, <1>7, <1>8, <1>9 DEF ConfinedInv

LEMMA DecompressConfined == ConfinedInv /\ DecompressContainer => ConfinedInv'
<1> SUFFICES ASSUME ConfinedInv, DecompressContainer PROVE ConfinedInv'
  OBVIOUS
<1>1. CASE Fail("container")
  BY <1>1, FailConfined
<1>2. CASE ~Fail("container")
  <2>1. /\ where = "sent" /\ where' = "unwrapping" /\ UNCHANGED <<request, disk, sent, blocks>>
        /\ payload'.written = 0
    BY <1>2 DEF DecompressContainer
  <2>2. request.container = "androidboot" => ParseAndroidBootHeader(request.image, Limit) # <<>>
    BY <1>2 DEF DecompressContainer, UnwrapAndroidboot
  <2>3. Limit \in Nat
    BY LimitNat DEF ConfinedInv
  <2>4. ParseAndroidBootHeader(request.image, Limit)' = ParseAndroidBootHeader(request.image, Limit)
    BY <2>1 DEF ParseAndroidBootHeader, Limit
  <2> QED BY <2>1, <2>2, <2>3, <2>4, KeepsGiven DEF ConfinedInv
<1> QED BY <1>1, <1>2

LEMMA StreamConfined == ConfinedInv /\ StreamToPayload => ConfinedInv'
<1> SUFFICES ASSUME ConfinedInv, StreamToPayload PROVE ConfinedInv'
  OBVIOUS
<1>1. CASE Fail("limit")
  BY <1>1, FailConfined
<1>2. CASE ~Fail("limit")
  <2>1. /\ where = "unwrapping" /\ UNCHANGED <<request, disk, where, sent, blocks>>
        /\ payload'.written = payload.written + 1 /\ ~(payload.written + 1 > Limit)
    BY <1>2 DEF StreamToPayload
  <2>2. Limit \in Nat /\ payload.written \in Nat
    BY LimitNat DEF ConfinedInv
  <2>3. ParseAndroidBootHeader(request.image, Limit)' = ParseAndroidBootHeader(request.image, Limit)
    BY <2>1 DEF ParseAndroidBootHeader, Limit
  <2>4. payload'.written \in Nat /\ payload'.written <= Limit
    BY <2>1, <2>2
  <2> QED BY <2>1, <2>3, <2>4, KeepsGiven DEF ConfinedInv
<1> QED BY <1>1, <1>2

LEMMA OpenedConfined ==
  ASSUME ConfinedInv, NEW newBlocks, Opened(newBlocks),
         "regions" \in sent.keys =>
           /\ Disjoint(newBlocks) /\ Bytes(newBlocks) <= SizeCap
           /\ \A i \in DOMAIN newBlocks : newBlocks[i].from + newBlocks[i].length <= AddressSpace
  PROVE  ConfinedInv'
<1>1. blocks' = newBlocks /\ where' = "answered" /\ UNCHANGED <<request, disk, sent, payload>>
  BY DEF Opened
<1> QED BY <1>1, KeepsGiven DEF ConfinedInv

LEMMA ImportRegionsConfined ==
  ASSUME ConfinedInv, NEW opens, ImportRegions(opens)
  PROVE  ConfinedInv'
<1>1. PICK made : made = [i \in DOMAIN sent.regions |->
                            [from |-> sent.regions[i].base, length |-> ReadRegion(sent.regions[i])]]
  OBVIOUS
<1>2. \/ \E why : Fail(why)
      \/ Opened(made) /\ \A i \in DOMAIN made : made[i].from + made[i].length <= AddressSpace
  BY <1>1 DEF ImportRegions
<1>3. Disjoint(made) /\ Bytes(made) <= SizeCap
  <2>1. Granted(sent.regions) /\ AnyDisk
    BY DEF ConfinedInv, ImportRegions
  <2> QED BY <1>1, <2>1, BlocksMade
<1> QED BY <1>2, <1>3, FailConfined, OpenedConfined

LEMMA ConfinedStep == ImportInv /\ ConfinedInv /\ [ImportMoves]_importVars => ConfinedInv'
<1> SUFFICES ASSUME ImportInv, ConfinedInv, [ImportMoves]_importVars PROVE ConfinedInv'
  OBVIOUS
<1>1. ASSUME NEW opens \in BOOLEAN, OpenProgram(opens) PROVE ConfinedInv'
  <2>1. "regions" \notin sent.keys /\ (Opened(Whole) \/ \E why : Fail(why))
    BY <1>1 DEF OpenProgram
  <2> QED BY <2>1, FailConfined, OpenedConfined
<1>2. CASE UNCHANGED importVars
  <2>1. UNCHANGED <<request, disk, where, sent, payload, blocks>>
    BY <1>2 DEF importVars
  <2>2. ParseAndroidBootHeader(request.image, Limit)' = ParseAndroidBootHeader(request.image, Limit)
    BY <2>1 DEF ParseAndroidBootHeader, Limit
  <2>3. \A r : ValidRegion(r)' <=> ValidRegion(r)
    BY DEF ValidRegion
  <2> QED BY <2>1, <2>2, <2>3, KeepsGiven DEF ConfinedInv
<1> QED BY <1>1, <1>2, ReceiveConfined, ResolveConfined, DecompressConfined, StreamConfined,
           RewriteConfined, ImportRegionsConfined DEF ImportMoves

(* The theorem; its ImportInv is kept alongside. *)
THEOREM ImportConfinedHolds == ImportSpec => []ImportConfined
<1>1. ImportAny => ImportInv /\ ConfinedInv
  <2> SUFFICES ASSUME ImportAny PROVE ImportInv /\ ConfinedInv
    OBVIOUS
  <2>1. ImportInv
    BY DEF ImportAny, ImportInv
  <2>2. Limit \in Nat
    BY LimitNat DEF ImportAny
  <2>3. ConfinedInv
    BY <2>2 DEF ImportAny, ConfinedInv
  <2> QED BY <2>1, <2>3
<1> QED BY <1>1, ImportStep, ConfinedStep, ConfinedIsConfined, PTL DEF ImportSpec

-----------------------------------------------------------------------------
(* Boundary checks.  The search keeps WalkInv, the lemmas say, one turn of *)
(* its loop each; they speak of a batch t and of the search's state before *)
(* (w) and after (v).                                                      *)

(* A node that turns black, all it embeds being black already, keeps the black ones buildable. *)
LEMMA BlackKeeps ==
  ASSUME NEW t, NEW w, NEW v, NEW n \in NamesOf(t), BlackClosed(t, w), BlackBuildable(t, w),
         w.colour[n] # "black",
         \A b \in NamesOf(t) : HasInside(t, n, b) => w.colour[b] = "black",
         \A a \in NamesOf(t) : v.colour[a] = "black" <=> a = n \/ w.colour[a] = "black"
  PROVE  BlackClosed(t, v) /\ BlackBuildable(t, v)
<1>1. BlackClosed(t, v)
  BY DEF BlackClosed
<1>2. ASSUME NEW S \in SUBSET NamesOf(t), \A a \in S : v.colour[a] = "black", Circular(t, S)
      PROVE  FALSE
  <2>1. \A a \in S, b \in S : HasInside(t, a, b) => b # n
    BY <1>2 DEF BlackClosed
  <2>2. Circular(t, S \ {n})
    BY <1>2, <2>1 DEF Circular
  <2>3. \A a \in S \ {n} : w.colour[a] = "black"
    BY <1>2
  <2> QED BY <2>2, <2>3 DEF BlackBuildable
<1> QED BY <1>1, <1>2 DEF BlackBuildable

(* Popping the marker of n, at the top: all it embeds has been reached. *)
LEMMA LeaveKeeps ==
  ASSUME NEW t, NEW w, NEW v, WalkInv(t, w), ~(w.field <= w.last), w.stack # <<>>,
         NEW n, n = Last(w.stack).node, Last(w.stack).mark = "leave",
         v = [w EXCEPT !.stack = Front(@), !.colour[n] = "black"],
         IsList(t), \A a \in NamesOf(t) : IsList(FieldsOf(t, a))
  PROVE  WalkInv(t, v)
<1> DEFINE p == Len(w.stack)
<1>0. w.stack \in Seq(StackEntry(t))
  BY DEF WalkInv, WalkTypes, StackEntry
<1>1. /\ Front(w.stack) \in Seq(StackEntry(t)) /\ p \in Nat \ {0} /\ Len(Front(w.stack)) = p - 1
      /\ DOMAIN w.stack = 1..p /\ DOMAIN Front(w.stack) = 1..p - 1
      /\ \A j \in 1..p - 1 : Front(w.stack)[j] = w.stack[j]
      /\ Last(w.stack) = w.stack[p] /\ Last(w.stack) \in StackEntry(t)
  BY <1>0, Popped
<1>2. n \in NamesOf(t) /\ NodeAt(w, p) = n /\ LeavesAt(w, p)
  BY <1>1 DEF StackEntry, NodeAt, LeavesAt
<1>3. /\ v.stack = Front(w.stack) /\ v.next = w.next /\ v.node = w.node /\ v.field = w.field
      /\ v.last = w.last /\ v.colour = [w.colour EXCEPT ![n] = "black"]
  BY DEF WalkInv, WalkTypes
<1>4. WalkTypes(t, v)
  BY <1>1, <1>2, <1>3 DEF WalkInv, WalkTypes, StackEntry
<1>5. \A a \in NamesOf(t) : v.colour[a] = IF a = n THEN "black" ELSE w.colour[a]
  BY <1>2, <1>3 DEF WalkInv, WalkTypes
<1>6. DOMAIN v.stack = 1..p - 1 /\ \A j \in 1..p - 1 :
        v.stack[j] = w.stack[j] /\ NodeAt(v, j) = NodeAt(w, j) /\ (LeavesAt(v, j) <=> LeavesAt(w, j))
  BY <1>1, <1>3 DEF NodeAt, LeavesAt
<1>7. \A j \in 1..p : NodeAt(w, j) \in NamesOf(t)
  <2>1. \A j \in 1..p : w.stack[j] \in StackEntry(t)
    BY <1>0, <1>1
  <2> QED BY <2>1 DEF NodeAt, StackEntry
<1> HIDE DEF p
<1>8. \A b \in NamesOf(t) : HasInside(t, n, b) => w.colour[b] = "black"
  <2> SUFFICES ASSUME NEW b \in NamesOf(t), HasInside(t, n, b) PROVE w.colour[b] = "black"
    OBVIOUS
  <2>1. PICK f \in DOMAIN FieldsOf(t, n) : Embeds(FieldsOf(t, n)[f], b)
    BY DEF HasInside
  <2>2. Reached(w, p, b) \/ (n = w.node /\ f \in w.field..w.last)
    BY <1>1, <1>2, <2>1 DEF WalkInv, Awaited
  <2>3. ~(f \in w.field..w.last)
    <3>1. w.field \in Nat /\ w.last \in Nat
      BY DEF WalkInv, WalkTypes
    <3> QED BY <3>1
  <2>4. ~\E j \in DOMAIN w.stack : j > p /\ NodeAt(w, j) = b
    BY <1>1
  <2> QED BY <2>2, <2>3, <2>4 DEF Reached
<1>9. BlackClosed(t, v) /\ BlackBuildable(t, v)
  <2>1. w.colour[n] = "grey"
    BY <1>1, <1>2 DEF WalkInv, MarkedGrey
  <2>2. BlackClosed(t, w) /\ BlackBuildable(t, w)
    BY DEF WalkInv
  <2>3. \A a \in NamesOf(t) : v.colour[a] = "black" <=> a = n \/ w.colour[a] = "black"
    BY <1>5
  <2>4. w.colour[n] # "black"
    BY <2>1
  <2> QED BY ONLY <1>2, <1>8, <2>2, <2>3, <2>4, BlackKeeps
<1>10. GreyMarked(t, v)
  BY <1>1, <1>2, <1>5, <1>6 DEF WalkInv, GreyMarked
<1>11. \A j \in 1..p - 1 : LeavesAt(w, j) => NodeAt(w, j) # n
  BY <1>1, <1>2 DEF WalkInv, AboveDiffers
<1>12. MarkedGrey(v)
  <2>1. MarkedGrey(w)
    BY DEF WalkInv
  <2> QED BY ONLY <1>1, <1>5, <1>6, <1>7, <1>11, <2>1 DEF MarkedGrey
<1>13. AboveDiffers(v)
  <2>1. AboveDiffers(w)
    BY DEF WalkInv
  <2> QED BY ONLY <1>1, <1>6, <2>1 DEF AboveDiffers
<1>14. Linked(t, v)
  <2>1. ASSUME NEW i \in 1..p - 1, NEW j \in 1..p - 1, OnPath(v, i, j)
        PROVE  OnPath(w, i, j)
    <3>1. i < j /\ LeavesAt(v, i) /\ \A k \in i + 1..j - 1 : ~LeavesAt(v, k)
      BY ONLY <2>1 DEF OnPath
    <3>2. \A k \in i + 1..j - 1 : k \in 1..p - 1
      BY ONLY <1>1
    <3>3. LeavesAt(w, i) /\ \A k \in i + 1..j - 1 : ~LeavesAt(w, k)
      BY ONLY <1>6, <3>1, <3>2
    <3> QED BY ONLY <3>1, <3>3 DEF OnPath
  <2>2. Linked(t, w)
    BY DEF WalkInv
  <2> QED BY ONLY <1>1, <1>6, <2>1, <2>2 DEF Linked
<1>15. Awaited(t, v)
  <2>1. \A i \in 1..p - 1, b \in NamesOf(t) : Reached(w, i, b) => Reached(v, i, b)
    BY <1>1, <1>2, <1>5, <1>6 DEF Reached
  <2>2. Awaited(t, w)
    BY DEF WalkInv
  <2> QED BY ONLY <1>1, <1>3, <1>6, <1>7, <2>1, <2>2 DEF Awaited
<1>16. LooksAtTop(v)
  BY <1>3 DEF LooksAtTop
<1>17. Started(t, v)
  <2>1. Started(t, w)
    BY DEF WalkInv
  <2>2. \A i \in 1..w.next - 1 : t[i].name \in NamesOf(t)
    <3>1. w.next \in 1..Len(t) + 1
      BY DEF WalkInv, WalkTypes
    <3> QED BY <3>1 DEF NamesOf, IsList
  <2> QED BY ONLY <1>1, <1>2, <1>3, <1>5, <1>6, <2>1, <2>2 DEF Started
<1> QED BY <1>4, <1>9, <1>10, <1>12, <1>13, <1>14, <1>15, <1>16, <1>17 DEF WalkInv

(* Popping a node seen by another way: it is black by now. *)
LEMMA SkipKeeps ==
  ASSUME NEW t, NEW w, NEW v, WalkInv(t, w), ~(w.field <= w.last), w.stack # <<>>,
         NEW n, n = Last(w.stack).node, Last(w.stack).mark = "enter", w.colour[n] # "white",
         v = [w EXCEPT !.stack = Front(@)]
  PROVE  WalkInv(t, v)
<1> DEFINE p == Len(w.stack)
<1>0. w.stack \in Seq(StackEntry(t))
  BY DEF WalkInv, WalkTypes, StackEntry
<1>1. /\ Front(w.stack) \in Seq(StackEntry(t)) /\ p \in Nat \ {0} /\ Len(Front(w.stack)) = p - 1
      /\ DOMAIN w.stack = 1..p /\ DOMAIN Front(w.stack) = 1..p - 1
      /\ \A j \in 1..p - 1 : Front(w.stack)[j] = w.stack[j]
      /\ Last(w.stack) = w.stack[p] /\ Last(w.stack) \in StackEntry(t)
  BY <1>0, Popped
<1>2. n \in NamesOf(t) /\ NodeAt(w, p) = n /\ ~LeavesAt(w, p)
  BY <1>1 DEF StackEntry, NodeAt, LeavesAt
<1>3. /\ v.stack = Front(w.stack) /\ v.next = w.next /\ v.node = w.node /\ v.field = w.field
      /\ v.last = w.last /\ v.colour = w.colour
  BY DEF WalkInv, WalkTypes
<1>4. WalkTypes(t, v)
  BY <1>1, <1>2, <1>3 DEF WalkInv, WalkTypes, StackEntry
<1>6. DOMAIN v.stack = 1..p - 1 /\ \A j \in 1..p - 1 :
        v.stack[j] = w.stack[j] /\ NodeAt(v, j) = NodeAt(w, j) /\ (LeavesAt(v, j) <=> LeavesAt(w, j))
  BY <1>1, <1>3 DEF NodeAt, LeavesAt
<1>7. \A j \in 1..p : NodeAt(w, j) \in NamesOf(t)
  <2>1. \A j \in 1..p : w.stack[j] \in StackEntry(t)
    BY <1>0, <1>1
  <2> QED BY <2>1 DEF NodeAt, StackEntry
<1> HIDE DEF p
<1>8. w.colour[n] = "black"
  <2>1. w.colour[n] \in {"white", "grey", "black"}
    BY <1>2 DEF WalkInv, WalkTypes
  <2>2. ASSUME w.colour[n] = "grey" PROVE FALSE
    <3>1. PICK k \in DOMAIN w.stack : LeavesAt(w, k) /\ NodeAt(w, k) = n
      BY <1>2, <2>2 DEF WalkInv, GreyMarked
    <3>2. k < p
      BY <1>1, <1>2, <3>1
    <3>3. AboveDiffers(w)
      BY DEF WalkInv
    <3>4. p \in DOMAIN w.stack
      BY <1>1
    <3>5. NodeAt(w, k) # NodeAt(w, p)
      BY ONLY <3>1, <3>2, <3>3, <3>4 DEF AboveDiffers
    <3> QED BY <1>2, <3>1, <3>5
  <2> QED BY <2>1, <2>2
<1>9. BlackClosed(t, v) /\ BlackBuildable(t, v)
  <2>1. BlackClosed(t, w) /\ BlackBuildable(t, w)
    BY DEF WalkInv
  <2> QED BY ONLY <1>3, <2>1 DEF BlackClosed, BlackBuildable
<1>10. GreyMarked(t, v)
  <2>1. GreyMarked(t, w)
    BY DEF WalkInv
  <2> QED BY ONLY <1>1, <1>2, <1>3, <1>6, <2>1 DEF GreyMarked
<1>12. MarkedGrey(v)
  <2>1. MarkedGrey(w)
    BY DEF WalkInv
  <2> QED BY ONLY <1>1, <1>3, <1>6, <2>1 DEF MarkedGrey
<1>13. AboveDiffers(v)
  <2>1. AboveDiffers(w)
    BY DEF WalkInv
  <2> QED BY ONLY <1>1, <1>6, <2>1 DEF AboveDiffers
<1>14. Linked(t, v)
  <2>1. ASSUME NEW i \in 1..p - 1, NEW j \in 1..p - 1, OnPath(v, i, j)
        PROVE  OnPath(w, i, j)
    <3>1. i < j /\ LeavesAt(v, i) /\ \A k \in i + 1..j - 1 : ~LeavesAt(v, k)
      BY ONLY <2>1 DEF OnPath
    <3>2. \A k \in i + 1..j - 1 : k \in 1..p - 1
      BY ONLY <1>1
    <3>3. LeavesAt(w, i) /\ \A k \in i + 1..j - 1 : ~LeavesAt(w, k)
      BY ONLY <1>6, <3>1, <3>2
    <3> QED BY ONLY <3>1, <3>3 DEF OnPath
  <2>2. Linked(t, w)
    BY DEF WalkInv
  <2> QED BY ONLY <1>1, <1>6, <2>1, <2>2 DEF Linked
<1>15. Awaited(t, v)
  <2>1. \A i \in 1..p - 1, b \in NamesOf(t) : Reached(w, i, b) => Reached(v, i, b)
    BY ONLY <1>1, <1>2, <1>3, <1>6, <1>8 DEF Reached
  <2>2. Awaited(t, w)
    BY DEF WalkInv
  <2> QED BY ONLY <1>1, <1>3, <1>6, <1>7, <2>1, <2>2 DEF Awaited
<1>16. LooksAtTop(v)
  BY <1>3 DEF LooksAtTop
<1>17. Started(t, v)
  <2>1. Started(t, w)
    BY DEF WalkInv
  <2> QED BY ONLY <1>1, <1>2, <1>3, <1>6, <1>8, <2>1 DEF Started
<1> QED BY <1>4, <1>9, <1>10, <1>12, <1>13, <1>14, <1>15, <1>16, <1>17 DEF WalkInv

(* Entering a white node, whose marker takes its place at the top. *)
LEMMA EnterKeeps ==
  ASSUME NEW t, NEW w, NEW v, WalkInv(t, w), ~(w.field <= w.last), w.stack # <<>>,
         NEW n, n = Last(w.stack).node, Last(w.stack).mark = "enter", w.colour[n] = "white",
         v = [w EXCEPT !.colour[n] = "grey", !.node = n, !.field = 1, !.last = Len(FieldsOf(t, n)),
                !.stack = Append(Front(@), [node |-> n, mark |-> "leave"])],
         IsList(t), \A a \in NamesOf(t) : IsList(FieldsOf(t, a))
  PROVE  WalkInv(t, v)
<1> DEFINE p == Len(w.stack)
           e == [node |-> n, mark |-> "leave"]
<1>0. w.stack \in Seq(StackEntry(t))
  BY DEF WalkInv, WalkTypes, StackEntry
<1>1. /\ Front(w.stack) \in Seq(StackEntry(t)) /\ p \in Nat \ {0} /\ Len(Front(w.stack)) = p - 1
      /\ DOMAIN w.stack = 1..p /\ DOMAIN Front(w.stack) = 1..p - 1
      /\ \A j \in 1..p - 1 : Front(w.stack)[j] = w.stack[j]
      /\ Last(w.stack) = w.stack[p] /\ Last(w.stack) \in StackEntry(t)
  BY <1>0, Popped
<1>2. n \in NamesOf(t) /\ NodeAt(w, p) = n /\ ~LeavesAt(w, p)
  BY <1>1 DEF StackEntry, NodeAt, LeavesAt
<1>3. /\ v.stack = Append(Front(w.stack), e) /\ v.next = w.next /\ v.node = n /\ v.field = 1
      /\ v.last = Len(FieldsOf(t, n)) /\ v.colour = [w.colour EXCEPT ![n] = "grey"]
  BY DEF WalkInv, WalkTypes
<1>4. e \in StackEntry(t)
  BY <1>2 DEF StackEntry
<1>5. /\ v.stack \in Seq(StackEntry(t)) /\ DOMAIN v.stack = 1..p
      /\ \A j \in 1..p - 1 : v.stack[j] = w.stack[j]
      /\ v.stack[p] = e
  <2> DEFINE s == Front(w.stack)
  <2>1. s \in Seq(StackEntry(t)) /\ Len(s) = p - 1 /\ \A j \in 1..p - 1 : s[j] = w.stack[j]
    BY <1>1
  <2>2. /\ Append(s, e) \in Seq(StackEntry(t)) /\ DOMAIN Append(s, e) = 1..Len(s) + 1
        /\ \A j \in 1..Len(s) : Append(s, e)[j] = s[j]
        /\ Append(s, e)[Len(s) + 1] = e
    BY <1>4, <2>1, Pushed
  <2>3. p - 1 + 1 = p
    BY <1>1
  <2> HIDE DEF s, e, p
  <2>4. v.stack = Append(s, e)
    BY <1>3 DEF s, e
  <2> QED BY ONLY <2>1, <2>2, <2>3, <2>4
<1>6. /\ \A j \in 1..p : NodeAt(v, j) = NodeAt(w, j)
      /\ \A j \in 1..p - 1 : LeavesAt(v, j) <=> LeavesAt(w, j)
      /\ LeavesAt(v, p) /\ NodeAt(v, p) = n
  BY <1>1, <1>2, <1>5 DEF NodeAt, LeavesAt
<1>7. \A j \in 1..p : NodeAt(w, j) \in NamesOf(t)
  <2>1. \A j \in 1..p : w.stack[j] \in StackEntry(t)
    BY <1>0, <1>1
  <2> QED BY <2>1 DEF NodeAt, StackEntry
<1>8. Len(FieldsOf(t, n)) \in Nat /\ DOMAIN FieldsOf(t, n) = 1..Len(FieldsOf(t, n))
  BY <1>2 DEF IsList
<1>9. WalkTypes(t, v)
  BY <1>2, <1>3, <1>5, <1>8 DEF WalkInv, WalkTypes, StackEntry
<1>10. \A a \in NamesOf(t) : v.colour[a] = IF a = n THEN "grey" ELSE w.colour[a]
  BY <1>2, <1>3 DEF WalkInv, WalkTypes
<1> HIDE DEF p, e
<1>11. \A a \in NamesOf(t) : v.colour[a] = "black" <=> w.colour[a] = "black"
  BY <1>10
<1>12. BlackClosed(t, v) /\ BlackBuildable(t, v)
  <2>1. BlackClosed(t, w) /\ BlackBuildable(t, w)
    BY DEF WalkInv
  <2>2. BlackClosed(t, v)
    BY ONLY <1>11, <2>1 DEF BlackClosed
  <2>3. BlackBuildable(t, v)
    BY ONLY <1>11, <2>1 DEF BlackBuildable
  <2> QED BY <2>2, <2>3
<1>13. GreyMarked(t, v)
  <2>1. GreyMarked(t, w)
    BY DEF WalkInv
  <2> QED BY ONLY <1>1, <1>2, <1>5, <1>6, <1>10, <2>1 DEF GreyMarked
<1>14. \A j \in 1..p - 1 : LeavesAt(w, j) => w.colour[NodeAt(w, j)] = "grey" /\ NodeAt(w, j) # n
  BY <1>1 DEF WalkInv, MarkedGrey
<1>15. MarkedGrey(v)
  BY ONLY <1>1, <1>2, <1>5, <1>6, <1>7, <1>10, <1>14 DEF MarkedGrey
<1>16. AboveDiffers(v)
  <2>1. AboveDiffers(w)
    BY DEF WalkInv
  <2> QED BY ONLY <1>1, <1>5, <1>6, <2>1 DEF AboveDiffers
<1>17. Linked(t, v)
  <2>1. \A i, j \in 1..p : OnPath(v, i, j) => OnPath(w, i, j)
    BY ONLY <1>1, <1>6 DEF OnPath
  <2>2. Linked(t, w)
    BY DEF WalkInv
  <2> QED BY ONLY <1>1, <1>5, <1>6, <2>1, <2>2 DEF Linked
<1>18. Awaited(t, v)
  <2>1. \A i \in 1..p, b \in NamesOf(t) : Reached(w, i, b) => Reached(v, i, b)
    BY <1>1, <1>5, <1>6, <1>11 DEF Reached
  <2>2. Awaited(t, w)
    BY DEF WalkInv
  <2>3. \A f : ~(f \in w.field..w.last)
    <3>1. w.field \in Nat /\ w.last \in Nat
      BY DEF WalkInv, WalkTypes
    <3> QED BY <3>1
  <2>4. \A f \in DOMAIN FieldsOf(t, n) : f \in v.field..v.last
    BY <1>3, <1>8
  <2>5. ASSUME NEW i \in DOMAIN v.stack, LeavesAt(v, i),
               NEW f \in DOMAIN FieldsOf(t, NodeAt(v, i)), NEW b \in NamesOf(t),
               Embeds(FieldsOf(t, NodeAt(v, i))[f], b)
        PROVE  Reached(v, i, b) \/ (NodeAt(v, i) = v.node /\ f \in v.field..v.last)
    <3>1. CASE i = p
      BY <1>3, <1>6, <2>4, <2>5, <3>1
    <3>2. CASE i # p
      <4>1. i \in 1..p - 1 /\ i \in DOMAIN w.stack /\ LeavesAt(w, i) /\ NodeAt(v, i) = NodeAt(w, i)
        BY <1>1, <1>5, <1>6, <2>5, <3>2
      <4>2. Reached(w, i, b)
        BY ONLY <2>2, <2>3, <2>5, <4>1 DEF Awaited
      <4> QED BY <1>1, <2>1, <4>1, <4>2
    <3> QED BY <3>1, <3>2
  <2> QED BY ONLY <2>5 DEF Awaited
<1>19. LooksAtTop(v)
  <2>1. /\ p \in DOMAIN v.stack /\ LeavesAt(v, p) /\ NodeAt(v, p) = v.node
        /\ \A j \in DOMAIN v.stack : j > p => ~LeavesAt(v, j)
    BY <1>1, <1>3, <1>5, <1>6
  <2> QED BY ONLY <2>1 DEF LooksAtTop
<1>20. Started(t, v)
  <2>1. Started(t, w)
    BY DEF WalkInv
  <2>2. \A i \in 1..w.next - 1 : t[i].name \in NamesOf(t)
    <3>1. w.next \in 1..Len(t) + 1
      BY DEF WalkInv, WalkTypes
    <3> QED BY <3>1 DEF NamesOf, IsList
  <2> QED BY ONLY <1>1, <1>2, <1>3, <1>5, <1>6, <1>10, <2>1, <2>2 DEF Started
<1> QED BY <1>9, <1>12, <1>13, <1>15, <1>16, <1>17, <1>18, <1>19, <1>20 DEF WalkInv

(* The field looked at embeds a type reached already, or one that is a     *)
(* target now and not black.                                               *)
LEMMA FieldReached ==
  ASSUME NEW t, NEW w, WalkInv(t, w), w.field <= w.last, IsList(FieldsOf(t, w.node)),
         NEW i \in DOMAIN w.stack, LeavesAt(w, i), NodeAt(w, i) = w.node,
         NEW b \in NamesOf(t), Embeds(FieldsOf(t, w.node)[w.field], b)
  PROVE  \/ Reached(w, i, b)
         \/ /\ IsTarget(t, FieldsOf(t, w.node), w.field) /\ b = FieldsOf(t, w.node)[w.field].type.named
            /\ w.colour[b] # "black"
<1> DEFINE fields == FieldsOf(t, w.node)
<1>1. w.field \in Nat \ {0} /\ w.last \in Nat /\ w.last # 0
  BY DEF WalkInv, WalkTypes
<1>2. w.last = Len(fields) /\ DOMAIN fields = 1..Len(fields)
  BY <1>1 DEF WalkInv, WalkTypes, IsList
<1>3. b = fields[w.field].type.named
  BY DEF Embeds
<1>4. ASSUME NEW j \in 1..w.field - 1, Embeds(fields[j], b)
      PROVE  Reached(w, i, b)
  <2>1. j \in DOMAIN fields /\ ~(j \in w.field..w.last)
    BY <1>1, <1>2
  <2>2. Awaited(t, w)
    BY DEF WalkInv
  <2> HIDE DEF fields
  <2>3. fields = FieldsOf(t, NodeAt(w, i))
    BY DEF fields
  <2> QED BY ONLY <1>4, <2>1, <2>2, <2>3, i \in DOMAIN w.stack, LeavesAt(w, i), b \in NamesOf(t)
             DEF Awaited
<1>5. CASE \A j \in 1..w.field - 1 : ~Embeds(fields[j], b)
  <2>1. IsTarget(t, fields, w.field)
    BY <1>3, <1>5 DEF IsTarget
  <2> QED BY <1>3, <2>1 DEF Reached
<1> QED BY <1>4, <1>5

(* The field looked at adds nothing to the stack. *)
LEMMA PassKeeps ==
  ASSUME NEW t, NEW w, NEW v, WalkInv(t, w), w.field <= w.last,
         \A a \in NamesOf(t) : IsList(FieldsOf(t, a)),
         ~(/\ IsTarget(t, FieldsOf(t, w.node), w.field)
           /\ w.colour[FieldsOf(t, w.node)[w.field].type.named] # "black"),
         v = [w EXCEPT !.field = @ + 1]
  PROVE  WalkInv(t, v)
<1>1. w.field \in Nat \ {0} /\ w.last \in Nat /\ w.last # 0
  BY DEF WalkInv, WalkTypes
<1>2. w.node \in NamesOf(t) /\ IsList(FieldsOf(t, w.node))
  BY <1>1 DEF WalkInv, WalkTypes
<1>3. /\ v.stack = w.stack /\ v.next = w.next /\ v.node = w.node /\ v.field = w.field + 1
      /\ v.last = w.last /\ v.colour = w.colour
  BY DEF WalkInv, WalkTypes
<1>4. WalkTypes(t, v)
  BY <1>1, <1>3 DEF WalkInv, WalkTypes
<1>5. \A j : (LeavesAt(v, j) <=> LeavesAt(w, j)) /\ NodeAt(v, j) = NodeAt(w, j)
  BY <1>3 DEF LeavesAt, NodeAt
<1>6. Awaited(t, v)
  <2>1. ASSUME NEW i \in DOMAIN v.stack, LeavesAt(v, i),
               NEW f \in DOMAIN FieldsOf(t, NodeAt(v, i)), NEW b \in NamesOf(t),
               Embeds(FieldsOf(t, NodeAt(v, i))[f], b)
        PROVE  Reached(v, i, b) \/ (NodeAt(v, i) = v.node /\ f \in v.field..v.last)
    <3>1. i \in DOMAIN w.stack /\ LeavesAt(w, i) /\ NodeAt(v, i) = NodeAt(w, i)
      BY <1>3, <1>5, <2>1
    <3>2. Reached(w, i, b) \/ (NodeAt(w, i) = w.node /\ f \in w.field..w.last)
      <4>1. Awaited(t, w)
        BY DEF WalkInv
      <4> QED BY ONLY <2>1, <3>1, <4>1 DEF Awaited
    <3>3. ASSUME Reached(w, i, b) PROVE Reached(v, i, b)
      BY ONLY <1>3, <1>5, <3>3 DEF Reached
    <3>4. ASSUME NodeAt(w, i) = w.node, f \in w.field..w.last, f # w.field
          PROVE  NodeAt(v, i) = v.node /\ f \in v.field..v.last
      BY <1>1, <1>3, <3>1, <3>4
    <3>5. ASSUME NodeAt(w, i) = w.node, f = w.field PROVE Reached(w, i, b)
      BY <1>2, <2>1, <3>1, <3>5, FieldReached
    <3> QED BY <3>2, <3>3, <3>4, <3>5
  <2> QED BY ONLY <2>1 DEF Awaited
<1>7. LooksAtTop(v)
  <2>1. PICK i \in DOMAIN w.stack : /\ LeavesAt(w, i) /\ NodeAt(w, i) = w.node
                                    /\ \A j \in DOMAIN w.stack : j > i => ~LeavesAt(w, j)
    BY DEF WalkInv, LooksAtTop
  <2> QED BY ONLY <1>3, <1>5, <2>1 DEF LooksAtTop
<1>8. BlackClosed(t, v) /\ BlackBuildable(t, v)
  <2>1. BlackClosed(t, w) /\ BlackBuildable(t, w)
    BY DEF WalkInv
  <2> QED BY ONLY <1>3, <2>1 DEF BlackClosed, BlackBuildable
<1>9. GreyMarked(t, v) /\ MarkedGrey(v)
  <2>1. GreyMarked(t, w) /\ MarkedGrey(w)
    BY DEF WalkInv
  <2> QED BY ONLY <1>3, <1>5, <2>1 DEF GreyMarked, MarkedGrey
<1>10. AboveDiffers(v)
  <2>1. AboveDiffers(w)
    BY DEF WalkInv
  <2> QED BY ONLY <1>3, <1>5, <2>1 DEF AboveDiffers
<1>11. Linked(t, v)
  <2>1. Linked(t, w)
    BY DEF WalkInv
  <2>2. \A i, j : OnPath(v, i, j) <=> OnPath(w, i, j)
    BY <1>5 DEF OnPath
  <2> QED BY ONLY <1>3, <1>5, <2>1, <2>2 DEF Linked
<1>12. Started(t, v)
  <2>1. Started(t, w)
    BY DEF WalkInv
  <2> QED BY ONLY <1>3, <1>5, <2>1 DEF Started
<1> QED BY <1>4, <1>6, <1>7, <1>8, <1>9, <1>10, <1>11, <1>12 DEF WalkInv

(* A white target is pushed. *)
LEMMA PushKeeps ==
  ASSUME NEW t, NEW w, NEW v, WalkInv(t, w), w.field <= w.last,
         \A a \in NamesOf(t) : IsList(FieldsOf(t, a)),
         NEW m, m = FieldsOf(t, w.node)[w.field].type.named,
         IsTarget(t, FieldsOf(t, w.node), w.field), w.colour[m] = "white",
         v = [w EXCEPT !.field = @ + 1, !.stack = Append(@, [node |-> m, mark |-> "enter"])]
  PROVE  WalkInv(t, v)
<1> DEFINE p == Len(w.stack)
           e == [node |-> m, mark |-> "enter"]
<1>1. w.field \in Nat \ {0} /\ w.last \in Nat /\ w.last # 0
  BY DEF WalkInv, WalkTypes
<1>2. w.node \in NamesOf(t) /\ IsList(FieldsOf(t, w.node)) /\ w.last = Len(FieldsOf(t, w.node))
  BY <1>1 DEF WalkInv, WalkTypes
<1>3. /\ v.stack = Append(w.stack, e) /\ v.next = w.next /\ v.node = w.node /\ v.field = w.field + 1
      /\ v.last = w.last /\ v.colour = w.colour
  BY DEF WalkInv, WalkTypes
<1>4. m \in NamesOf(t) /\ HasInside(t, w.node, m)
  <2>1. m \in NamesOf(t) /\ Embeds(FieldsOf(t, w.node)[w.field], m)
    BY DEF IsTarget
  <2>2. w.field \in DOMAIN FieldsOf(t, w.node)
    BY <1>1, <1>2 DEF IsList
  <2> QED BY <2>1, <2>2 DEF HasInside
<1>5. e \in StackEntry(t) /\ w.stack \in Seq(StackEntry(t))
  BY <1>4 DEF StackEntry, WalkInv, WalkTypes
<1>6. /\ v.stack \in Seq(StackEntry(t)) /\ p \in Nat /\ DOMAIN w.stack = 1..p /\ DOMAIN v.stack = 1..p + 1
      /\ \A j \in 1..p : v.stack[j] = w.stack[j]
      /\ v.stack[p + 1] = e
  BY <1>3, <1>5, Pushed
<1>7. /\ \A j \in 1..p : NodeAt(v, j) = NodeAt(w, j) /\ (LeavesAt(v, j) <=> LeavesAt(w, j))
      /\ ~LeavesAt(v, p + 1) /\ NodeAt(v, p + 1) = m
  BY <1>6 DEF NodeAt, LeavesAt
<1>8. WalkTypes(t, v)
  BY <1>1, <1>3, <1>6 DEF WalkInv, WalkTypes, StackEntry
<1> HIDE DEF p, e
<1>9. PICK i0 \in DOMAIN w.stack : /\ LeavesAt(w, i0) /\ NodeAt(w, i0) = w.node
                                   /\ \A j \in DOMAIN w.stack : j > i0 => ~LeavesAt(w, j)
  BY DEF WalkInv, LooksAtTop
<1>10. Awaited(t, v)
  <2>1. ASSUME NEW i \in DOMAIN v.stack, LeavesAt(v, i),
               NEW f \in DOMAIN FieldsOf(t, NodeAt(v, i)), NEW b \in NamesOf(t),
               Embeds(FieldsOf(t, NodeAt(v, i))[f], b)
        PROVE  Reached(v, i, b) \/ (NodeAt(v, i) = v.node /\ f \in v.field..v.last)
    <3>0. i \in 1..p
      <4>1. i \in 1..p + 1 /\ i # p + 1
        BY ONLY <1>6, <1>7, <2>1
      <4> QED BY ONLY <4>1, <1>6
    <3>1. i \in 1..p /\ i \in DOMAIN w.stack /\ LeavesAt(w, i) /\ NodeAt(v, i) = NodeAt(w, i)
      BY ONLY <1>6, <1>7, <2>1, <3>0
    <3>2. Reached(w, i, b) \/ (NodeAt(w, i) = w.node /\ f \in w.field..w.last)
      <4>1. Awaited(t, w)
        BY DEF WalkInv
      <4> QED BY ONLY <2>1, <3>1, <4>1 DEF Awaited
    <3>3. ASSUME Reached(w, i, b) PROVE Reached(v, i, b)
      BY ONLY <1>3, <1>6, <1>7, <3>1, <3>3 DEF Reached
    <3>4. ASSUME NodeAt(w, i) = w.node, f \in w.field..w.last, f # w.field
          PROVE  NodeAt(v, i) = v.node /\ f \in v.field..v.last
      BY <1>1, <1>3, <3>1, <3>4
    <3>5. ASSUME NodeAt(w, i) = w.node, f = w.field PROVE Reached(v, i, b)
      <4>1. Reached(w, i, b) \/ b = m
        BY <1>2, <2>1, <3>1, <3>5, FieldReached
      <4>2. Reached(v, i, m)
        BY ONLY <1>6, <1>7, <3>1 DEF Reached
      <4> QED BY <3>3, <4>1, <4>2
    <3> QED BY <3>2, <3>3, <3>4, <3>5
  <2> QED BY ONLY <2>1 DEF Awaited
<1>11. LooksAtTop(v)
  <2>1. /\ i0 \in DOMAIN v.stack /\ LeavesAt(v, i0) /\ NodeAt(v, i0) = v.node
        /\ \A j \in DOMAIN v.stack : j > i0 => ~LeavesAt(v, j)
    BY ONLY <1>3, <1>6, <1>7, <1>9
  <2> QED BY ONLY <2>1 DEF LooksAtTop
<1>12. BlackClosed(t, v) /\ BlackBuildable(t, v)
  <2>1. BlackClosed(t, w) /\ BlackBuildable(t, w)
    BY DEF WalkInv
  <2> QED BY ONLY <1>3, <2>1 DEF BlackClosed, BlackBuildable
<1>13. GreyMarked(t, v)
  <2>1. GreyMarked(t, w)
    BY DEF WalkInv
  <2> QED BY ONLY <1>3, <1>6, <1>7, <2>1 DEF GreyMarked
<1>14. MarkedGrey(w)
  BY DEF WalkInv
<1>15. MarkedGrey(v)
  BY ONLY <1>3, <1>6, <1>7, <1>14 DEF MarkedGrey
<1>16. AboveDiffers(v)
  <2>1. AboveDiffers(w)
    BY DEF WalkInv
  <2>2. \A i \in 1..p : LeavesAt(w, i) => NodeAt(w, i) # m
    BY <1>6, <1>14 DEF MarkedGrey
  <2> QED BY ONLY <1>6, <1>7, <2>1, <2>2 DEF AboveDiffers
<1>17. Linked(t, v)
  <2>1. Linked(t, w)
    BY DEF WalkInv
  <2>2. \A i, j \in 1..p : OnPath(v, i, j) => OnPath(w, i, j)
    BY ONLY <1>6, <1>7 DEF OnPath
  <2>3. ASSUME NEW i \in 1..p, OnPath(v, i, p + 1) PROVE i = i0
    <3>1. LeavesAt(w, i) /\ \A k \in i + 1..p : ~LeavesAt(w, k)
      BY <1>6, <1>7, <2>3 DEF OnPath
    <3> QED BY <1>6, <1>9, <3>1
  <2>4. ASSUME NEW i \in DOMAIN v.stack, NEW j \in DOMAIN v.stack, OnPath(v, i, j)
        PROVE  HasInside(t, NodeAt(v, i), NodeAt(v, j))
    <3>1. i \in 1..p
      BY <1>6, <1>7, <2>4 DEF OnPath
    <3>2. CASE j = p + 1
      BY <1>4, <1>6, <1>7, <1>9, <2>3, <2>4, <3>1, <3>2
    <3>3. CASE j # p + 1
      <4>1. j \in 1..p
        BY ONLY <1>6, <3>3, j \in DOMAIN v.stack
      <4> QED BY ONLY <1>6, <1>7, <2>1, <2>2, <2>4, <3>1, <4>1 DEF Linked
    <3> QED BY <3>2, <3>3
  <2> QED BY ONLY <2>4 DEF Linked
<1>18. Started(t, v)
  <2>1. Started(t, w)
    BY DEF WalkInv
  <2> QED BY ONLY <1>3, <1>6, <1>7, <2>1 DEF Started
<1> QED BY <1>8, <1>10, <1>11, <1>12, <1>13, <1>15, <1>16, <1>17, <1>18 DEF WalkInv

(* A grey target closes a circle of the types from its marker to the top. *)
LEMMA FoundCircle ==
  ASSUME NEW t, NEW w, WalkInv(t, w), w.field <= w.last,
         \A a \in NamesOf(t) : IsList(FieldsOf(t, a)),
         NEW m, m = FieldsOf(t, w.node)[w.field].type.named,
         IsTarget(t, FieldsOf(t, w.node), w.field), w.colour[m] = "grey"
  PROVE  ~Buildable(t)
<1>1. w.field \in Nat \ {0} /\ w.last \in Nat /\ w.last # 0
  BY DEF WalkInv, WalkTypes
<1>2. w.node \in NamesOf(t) /\ IsList(FieldsOf(t, w.node)) /\ w.last = Len(FieldsOf(t, w.node))
  BY <1>1 DEF WalkInv, WalkTypes
<1>3. m \in NamesOf(t) /\ HasInside(t, w.node, m)
  <2>1. m \in NamesOf(t) /\ Embeds(FieldsOf(t, w.node)[w.field], m)
    BY DEF IsTarget
  <2>2. w.field \in DOMAIN FieldsOf(t, w.node)
    BY <1>1, <1>2 DEF IsList
  <2> QED BY <2>1, <2>2 DEF HasInside
<1>4. PICK top \in DOMAIN w.stack : /\ LeavesAt(w, top) /\ NodeAt(w, top) = w.node
                                    /\ \A j \in DOMAIN w.stack : j > top => ~LeavesAt(w, j)
  BY DEF WalkInv, LooksAtTop
<1>5. PICK k \in DOMAIN w.stack : LeavesAt(w, k) /\ NodeAt(w, k) = m
  BY <1>3 DEF WalkInv, GreyMarked
<1>6. w.stack \in Seq(StackEntry(t))
  BY DEF WalkInv, WalkTypes, StackEntry
<1> DEFINE p == Len(w.stack)
<1>7. p \in Nat /\ DOMAIN w.stack = 1..p /\ \A j \in 1..p : NodeAt(w, j) \in NamesOf(t)
  <2>1. p \in Nat /\ DOMAIN w.stack = 1..p /\ \A j \in 1..p : w.stack[j] \in StackEntry(t)
    BY <1>6
  <2> QED BY <2>1 DEF NodeAt, StackEntry
<1> DEFINE J == {j \in 1..p : j >= k /\ LeavesAt(w, j)}
           S == {NodeAt(w, j) : j \in J}
<1> HIDE DEF p
<1>8. ASSUME NEW i \in J PROVE \E b \in S : HasInside(t, NodeAt(w, i), b)
  <2>1. CASE i = top
    BY <1>3, <1>4, <1>5, <1>7, <2>1
  <2>2. CASE i # top
    <3> DEFINE T == {j \in J : j > i}
    <3>1. T \in SUBSET Nat /\ top \in T
      BY <1>4, <1>7, <1>8, <2>2
    <3>2. PICK j \in T : \A y \in T : j <= y
      BY ONLY <3>1, LeastNat
    <3>3. \A y \in i + 1..j - 1 : ~LeavesAt(w, y)
      BY <1>5, <1>7, <1>8, <3>2
    <3>4. OnPath(w, i, j)
      BY <1>8, <3>2, <3>3 DEF OnPath
    <3>5. Linked(t, w)
      BY DEF WalkInv
    <3>6. HasInside(t, NodeAt(w, i), NodeAt(w, j))
      BY <1>7, <1>8, <3>4, <3>5 DEF Linked
    <3> QED BY <3>6
  <2> QED BY <2>1, <2>2
<1>9. m \in S /\ S \in SUBSET NamesOf(t)
  BY <1>5, <1>7
<1>10. Circular(t, S)
  BY <1>8, <1>9 DEF Circular
<1> QED BY <1>9, <1>10 DEF Buildable

(* With the stack empty and every type started from, all are black. *)
LEMMA EndsBuildable ==
  ASSUME NEW t, NEW w, WalkInv(t, w), w.stack = <<>>, w.next > Len(t), IsList(t)
  PROVE  Buildable(t)
<1>1. \A j : j \notin DOMAIN w.stack
  OBVIOUS
<1>2. w.next = Len(t) + 1 /\ Len(t) \in Nat /\ DOMAIN t = 1..Len(t)
  BY DEF WalkInv, WalkTypes, IsList
<1>3. \A i \in DOMAIN t : w.colour[t[i].name] # "white"
  <2>1. Started(t, w)
    BY DEF WalkInv
  <2> QED BY ONLY <1>1, <1>2, <2>1 DEF Started
<1>4. \A a \in NamesOf(t) : w.colour[a] # "grey"
  <2>1. GreyMarked(t, w)
    BY DEF WalkInv
  <2> QED BY ONLY <1>1, <2>1 DEF GreyMarked
<1>5. \A a \in NamesOf(t) : w.colour[a] \in {"white", "grey", "black"}
  BY DEF WalkInv, WalkTypes
<1>6. \A a \in NamesOf(t) : w.colour[a] = "black"
  BY <1>3, <1>4, <1>5 DEF NamesOf
<1>7. BlackBuildable(t, w)
  BY DEF WalkInv
<1> QED BY ONLY <1>6, <1>7 DEF BlackBuildable, Buildable

(* The next type to start from. *)
LEMMA StartKeeps ==
  ASSUME NEW t, NEW w, NEW v, WalkInv(t, w), ~(w.field <= w.last), w.stack = <<>>,
         w.next <= Len(t), IsList(t), NEW n, n = t[w.next].name,
         v = [w EXCEPT !.next = @ + 1,
                !.stack = IF w.colour[n] = "white" THEN <<[node |-> n, mark |-> "enter"]>> ELSE <<>>]
  PROVE  WalkInv(t, v)
<1> DEFINE e == [node |-> n, mark |-> "enter"]
<1>1. \A j : j \notin DOMAIN w.stack
  OBVIOUS
<1>2. w.next \in 1..Len(t) /\ Len(t) \in Nat /\ n \in NamesOf(t)
  BY DEF WalkInv, WalkTypes, IsList, NamesOf
<1>3. /\ v.stack = (IF w.colour[n] = "white" THEN <<e>> ELSE <<>>) /\ v.next = w.next + 1
      /\ v.node = w.node /\ v.field = w.field /\ v.last = w.last /\ v.colour = w.colour
  BY DEF WalkInv, WalkTypes
<1>4. e \in StackEntry(t) /\ <<e>> \in Seq(StackEntry(t)) /\ <<>> \in Seq(StackEntry(t))
  BY <1>2 DEF StackEntry
<1>5. WalkTypes(t, v)
  <2>1. v.stack \in Seq(StackEntry(t))
    BY <1>3, <1>4
  <2> QED BY <1>2, <1>3, <2>1 DEF WalkInv, WalkTypes
<1>6. \A j \in DOMAIN v.stack : j = 1 /\ ~LeavesAt(v, j) /\ NodeAt(v, j) = n
  BY <1>3 DEF LeavesAt, NodeAt
<1>7. w.colour[n] = "white" => 1 \in DOMAIN v.stack
  BY <1>3
<1> HIDE DEF e
<1>8. BlackClosed(t, v) /\ BlackBuildable(t, v)
  <2>1. BlackClosed(t, w) /\ BlackBuildable(t, w)
    BY DEF WalkInv
  <2> QED BY ONLY <1>3, <2>1 DEF BlackClosed, BlackBuildable
<1>9. GreyMarked(t, v)
  <2>1. GreyMarked(t, w)
    BY DEF WalkInv
  <2> QED BY ONLY <1>1, <1>3, <2>1 DEF GreyMarked
<1>10. MarkedGrey(v) /\ AboveDiffers(v) /\ Linked(t, v) /\ Awaited(t, v)
  BY ONLY <1>6 DEF MarkedGrey, AboveDiffers, Linked, OnPath, Awaited
<1>11. LooksAtTop(v)
  BY <1>3 DEF LooksAtTop
<1>12. Started(t, v)
  <2>1. Started(t, w)
    BY DEF WalkInv
  <2>2. \A i \in 1..v.next - 1 : i \in 1..w.next - 1 \/ i = w.next
    BY <1>2, <1>3
  <2>3. w.colour[n] = "white" => NodeAt(v, 1) = n
    BY <1>6, <1>7
  <2> QED BY ONLY <1>1, <1>3, <1>7, <2>1, <2>2, <2>3, n = t[w.next].name DEF Started
<1> QED BY <1>5, <1>8, <1>9, <1>10, <1>11, <1>12 DEF WalkInv

(* The search starts with every type white. *)
LEMMA WalkStarts ==
  ASSUME NEW t, NEW w, IsList(t),
         w = [stack |-> <<>>, next |-> 1, node |-> "", field |-> 1, last |-> 0,
              colour |-> [n \in NamesOf(t) |-> "white"]]
  PROVE  WalkInv(t, w)
<1>1. /\ w.stack = <<>> /\ w.next = 1 /\ w.field = 1 /\ w.last = 0
      /\ w.colour = [n \in NamesOf(t) |-> "white"]
      /\ DOMAIN w = {"stack", "next", "node", "field", "last", "colour"}
  OBVIOUS
<1>2. \A a \in NamesOf(t) : w.colour[a] = "white"
  BY <1>1
<1>3. \A j : j \notin DOMAIN w.stack
  BY ONLY <1>1
<1>4. WalkTypes(t, w)
  <2>1. w.stack \in Seq(StackEntry(t))
    BY ONLY <1>1
  <2>2. w.colour \in [NamesOf(t) -> {"white", "grey", "black"}]
    BY ONLY <1>1
  <2>3. Len(t) \in Nat
    BY DEF IsList
  <2> QED BY ONLY <1>1, <2>1, <2>2, <2>3 DEF WalkTypes
<1>5. BlackClosed(t, w)
  BY ONLY <1>2 DEF BlackClosed
<1>6. BlackBuildable(t, w)
  BY ONLY <1>2 DEF BlackBuildable, Circular
<1>7. GreyMarked(t, w)
  BY ONLY <1>2 DEF GreyMarked
<1>8. MarkedGrey(w) /\ AboveDiffers(w) /\ Linked(t, w) /\ Awaited(t, w)
  BY ONLY <1>3 DEF MarkedGrey, AboveDiffers, Linked, Awaited
<1>9. LooksAtTop(w) /\ Started(t, w)
  BY ONLY <1>1 DEF LooksAtTop, Started
<1> QED BY <1>4, <1>5, <1>6, <1>7, <1>8, <1>9 DEF WalkInv

(* A batch's types, and the fields of each, are lists. *)
LEMMA BatchLists ==
  ASSUME NEW e, WellFormed(e), e.kind = "define_types"
  PROVE  IsList(e.types) /\ \A a \in NamesOf(e.types) : IsList(FieldsOf(e.types, a))
  BY DEF WellFormed, NamesOf, FieldsOf

(* What is decided without a search is decided exactly. *)
LEMMA DecidedExact ==
  ASSUME NEW e, NEW A, WellFormed(e), ~(e.kind = "define_types" /\ LiveTool(e)),
         A = (IF ValidateEntry(e) THEN {"document"} ELSE {})
                   \cup (IF LiveTool(e) THEN {"tool"} ELSE {})
  PROVE  ExactFor(e, A)
<1>1. ValidateEntry(e) => LiveTool(e)
  BY DEF ValidateEntry, LiveTool
<1>2. "document" \in A => "tool" \in A
  BY <1>1
<1>3. "tool" \in A <=> LiveTool(e)
  OBVIOUS
<1>4. ASSUME e.kind = "define_types"
      PROVE  A = (IF LiveTool(e) /\ Buildable(e.types) THEN {"document", "tool"} ELSE {})
  BY <1>1, <1>4
<1>5. ASSUME e.kind = "read_bytes"
      PROVE  LiveTool(e) <=> /\ e.length \in 1..MaxReadBytes
                                 /\ e.offset..e.offset + e.length - 1 \subseteq 0..MaxAddress
  <2>1. LiveTool(e) <=> ValidateByteRange(e.offset, e.length)
    BY <1>5 DEF LiveTool, Schema, Common, Renames
  <2>2. e.offset \in Int /\ e.length \in Int /\ MaxAddress \in Nat /\ MaxReadBytes \in Nat
    BY <1>5, BoundaryConstants DEF WellFormed
  <2>3. \A o, l \in Int : \A m, r \in Nat :
          o \in 0..m /\ l \in 1..r /\ o + l - 1 <= m <=> l \in 1..r /\ o..o + l - 1 \subseteq 0..m
    <3> TAKE o, l \in Int
    <3> TAKE m, r \in Nat
    <3>1. ASSUME l \in 1..r, o..o + l - 1 \subseteq 0..m PROVE o \in 0..m /\ o + l - 1 <= m
      <4>1. o \in o..o + l - 1 /\ o + l - 1 \in o..o + l - 1
        BY <3>1
      <4> QED BY <3>1, <4>1
    <3> QED BY <3>1
  <2> QED BY <2>1, <2>2, <2>3 DEF ValidateByteRange
<1> QED BY <1>2, <1>3, <1>4, <1>5 DEF ExactFor

LEMMA BoundaryStart == Received => BoundaryInv
  BY DEF Received, BoundaryInv, BoundaryExact

LEMMA BoundaryStep == BoundaryInv /\ [BoundaryNext]_boundaryVars => BoundaryInv'
<1> SUFFICES ASSUME BoundaryInv, [BoundaryNext]_boundaryVars PROVE BoundaryInv'
  OBVIOUS
<1>0. WellFormed(entry)
  BY DEF BoundaryInv
<1>1. ASSUME entry' = entry, checking = "walking", checking' = "walking", verdict' = verdict,
             WalkInv(entry.types, walk')
      PROVE  BoundaryInv'
  <2>1. entry.kind = "define_types" /\ LiveTool(entry)
    BY <1>1 DEF BoundaryInv
  <2>2. BoundaryExact'
    BY <1>1 DEF BoundaryExact
  <2>3. WellFormed(entry)' /\ LiveTool(entry)' /\ WalkInv(entry.types, walk)'
    BY <1>0, <1>1, <2>1
  <2> QED BY <1>1, <2>1, <2>2, <2>3 DEF BoundaryInv
<1>2. ASSUME checking = "walking"
      PROVE  /\ entry.kind = "define_types" /\ LiveTool(entry) /\ WalkInv(entry.types, walk)
             /\ IsList(entry.types) /\ \A a \in NamesOf(entry.types) : IsList(FieldsOf(entry.types, a))
  <2>1. entry.kind = "define_types" /\ LiveTool(entry) /\ WalkInv(entry.types, walk)
    BY <1>2 DEF BoundaryInv
  <2> QED BY <1>0, <2>1, BatchLists
<1>3. ASSUME NEW A, checking = "walking", Decide(A),
             A = (IF Buildable(entry.types) THEN {"document", "tool"} ELSE {})
      PROVE  BoundaryInv'
  <2>1. /\ checking' = "done" /\ entry' = entry /\ verdict' = A
        /\ entry.kind = "define_types" /\ LiveTool(entry)
    BY <1>2, <1>3 DEF Decide
  <2>2. WellFormed(entry)' /\ LiveTool(entry)' /\ (Buildable(entry.types)' <=> Buildable(entry.types))
    BY <1>0, <2>1
  <2>3. BoundaryExact'
    BY <1>3, <2>1, <2>2 DEF BoundaryExact, ExactFor
  <2> QED BY <2>1, <2>2, <2>3 DEF BoundaryInv
<1>4. CASE Check
  <2>1. CASE entry.kind = "define_types" /\ LiveTool(entry)
    <3>1. /\ entry' = entry /\ checking' = "walking" /\ verdict' = verdict
          /\ walk' = [stack |-> <<>>, next |-> 1, node |-> "", field |-> 1, last |-> 0,
                      colour |-> [n \in NamesOf(entry.types) |-> "white"]]
      BY <1>4, <2>1 DEF Check
    <3>2. IsList(entry.types)
      BY <1>0, <2>1, BatchLists
    <3>3. WalkInv(entry.types, walk')
      BY <3>1, <3>2, WalkStarts
    <3>4. WellFormed(entry)' /\ LiveTool(entry)' /\ WalkInv(entry.types, walk)' /\ BoundaryExact'
      BY <1>0, <2>1, <3>1, <3>3 DEF BoundaryExact
    <3> QED BY <2>1, <3>1, <3>4 DEF BoundaryInv
  <2>2. CASE ~(entry.kind = "define_types" /\ LiveTool(entry))
    <3>1. /\ entry' = entry /\ checking' = "done"
          /\ verdict' = (IF ValidateEntry(entry) THEN {"document"} ELSE {})
                        \cup (IF LiveTool(entry) THEN {"tool"} ELSE {})
      BY <1>4, <2>2 DEF Check, Decide
    <3>2. WellFormed(entry)' /\ (LiveTool(entry)' <=> LiveTool(entry))
          /\ (ValidateEntry(entry)' <=> ValidateEntry(entry))
      BY <1>0, <3>1
    <3>3. ExactFor(entry, verdict')
      BY <1>0, <2>2, <3>1, DecidedExact
    <3> QED BY <3>1, <3>2, <3>3 DEF BoundaryInv, BoundaryExact
  <2> QED BY <2>1, <2>2
<1>5. CASE StartWalk
  <2>1. WalkInv(entry.types, walk')
    BY <1>2, <1>5, StartKeeps DEF StartWalk, Looking
  <2> QED BY <1>1, <1>5, <2>1 DEF StartWalk
<1>6. CASE PopNode
  <2> DEFINE t == entry.types
             n == Last(walk.stack).node
  <2>1. /\ checking = "walking" /\ ~(walk.field <= walk.last) /\ walk.stack # <<>>
        /\ checking' = "walking" /\ entry' = entry /\ verdict' = verdict
    BY <1>6 DEF PopNode, Looking
  <2>2. WalkInv(t, walk) /\ IsList(t) /\ \A a \in NamesOf(t) : IsList(FieldsOf(t, a))
    BY <1>2, <2>1
  <2>3. \/ Last(walk.stack).mark = "leave" /\ walk' = [walk EXCEPT !.stack = Front(@), !.colour[n] = "black"]
        \/ /\ Last(walk.stack).mark = "enter" /\ walk.colour[n] # "white"
           /\ walk' = [walk EXCEPT !.stack = Front(@)]
        \/ /\ Last(walk.stack).mark = "enter" /\ walk.colour[n] = "white"
           /\ walk' = [walk EXCEPT !.colour[n] = "grey", !.node = n,
                         !.field = 1, !.last = Len(FieldsOf(t, n)),
                         !.stack = Append(Front(@), [node |-> n, mark |-> "leave"])]
    BY <1>6 DEF PopNode, EnterNode
  <2> HIDE DEF t
  <2>4. CASE Last(walk.stack).mark = "leave" /\ walk' = [walk EXCEPT !.stack = Front(@), !.colour[n] = "black"]
    <3>1. WalkInv(t, walk')
      BY <2>1, <2>2, <2>4, LeaveKeeps
    <3> QED BY <1>1, <2>1, <3>1 DEF t
  <2>5. CASE /\ Last(walk.stack).mark = "enter" /\ walk.colour[n] # "white"
             /\ walk' = [walk EXCEPT !.stack = Front(@)]
    <3>1. WalkInv(t, walk')
      BY <2>1, <2>2, <2>5, SkipKeeps
    <3> QED BY <1>1, <2>1, <3>1 DEF t
  <2>6. CASE /\ Last(walk.stack).mark = "enter" /\ walk.colour[n] = "white"
             /\ walk' = [walk EXCEPT !.colour[n] = "grey", !.node = n,
                           !.field = 1, !.last = Len(FieldsOf(t, n)),
                           !.stack = Append(Front(@), [node |-> n, mark |-> "leave"])]
    <3>1. WalkInv(t, walk')
      BY <2>1, <2>2, <2>6, EnterKeeps
    <3> QED BY <1>1, <2>1, <3>1 DEF t
  <2> QED BY <2>3, <2>4, <2>5, <2>6 DEF t
<1>7. CASE PushTarget
  <2> DEFINE t == entry.types
             fields == FieldsOf(t, walk.node)
             m == fields[walk.field].type.named
             target == IsTarget(t, fields, walk.field)
  <2>1. /\ checking = "walking" /\ walk.field <= walk.last
        /\ WalkInv(t, walk) /\ IsList(t) /\ \A a \in NamesOf(t) : IsList(FieldsOf(t, a))
    BY <1>2, <1>7 DEF PushTarget, Looking
  <2>2. CASE target /\ walk.colour[m] = "grey"
    <3>1. Decide({})
      BY <1>7, <2>2 DEF PushTarget
    <3>2. ~Buildable(t)
      BY <2>1, <2>2, FoundCircle
    <3> QED BY <1>3, <2>1, <3>1, <3>2
  <2>3. CASE target /\ walk.colour[m] = "white"
    <3>1. /\ walk' = [walk EXCEPT !.field = @ + 1, !.stack = Append(@, [node |-> m, mark |-> "enter"])]
          /\ checking' = checking /\ entry' = entry /\ verdict' = verdict
      BY <1>7, <2>3 DEF PushTarget
    <3>2. WalkInv(t, walk')
      <4> HIDE DEF t
      <4> QED BY <2>1, <2>3, <3>1, PushKeeps
    <3> QED BY <1>1, <2>1, <3>1, <3>2
  <2>4. CASE ~(target /\ walk.colour[m] \in {"grey", "white"})
    <3>1. /\ walk' = [walk EXCEPT !.field = @ + 1]
          /\ checking' = checking /\ entry' = entry /\ verdict' = verdict
      <4>1. /\ walk' = [walk EXCEPT !.field = @ + 1, !.stack = @]
            /\ checking' = checking /\ entry' = entry /\ verdict' = verdict
        BY <1>7, <2>4 DEF PushTarget
      <4> QED BY <2>1, <4>1 DEF WalkInv, WalkTypes
    <3>2. target => walk.colour[m] = "black"
      <4>1. target => m \in NamesOf(t)
        BY DEF IsTarget
      <4>2. walk.colour \in [NamesOf(t) -> {"white", "grey", "black"}]
        BY <2>1 DEF WalkInv, WalkTypes
      <4> QED BY <2>4, <4>1, <4>2
    <3>3. WalkInv(t, walk')
      <4> HIDE DEF t
      <4> QED BY <2>1, <3>1, <3>2, PassKeeps
    <3> QED BY <1>1, <2>1, <3>1, <3>3
  <2> QED BY <2>2, <2>3, <2>4
<1>8. CASE EndWalk
  <2>1. Buildable(entry.types)
    BY <1>2, <1>8, EndsBuildable DEF EndWalk
  <2>2. Decide({"document", "tool"}) /\ checking = "walking"
    BY <1>8 DEF EndWalk
  <2> QED BY <1>3, <2>1, <2>2
<1>9. CASE UNCHANGED boundaryVars
  BY <1>9 DEF boundaryVars, BoundaryInv, BoundaryExact
<1> QED BY <1>4, <1>5, <1>6, <1>7, <1>8, <1>9 DEF BoundaryNext

(* What passes the boundary can be built and what can be built passes      *)
(* (validate_types_batch, _detect_by_value_cycle), for any batch.          *)
THEOREM BoundaryIsExact == BoundarySpec => []BoundaryExact
<1>1. BoundaryInv => BoundaryExact
  BY DEF BoundaryInv
<1> QED BY BoundaryStart, BoundaryStep, <1>1, PTL DEF BoundarySpec

-----------------------------------------------------------------------------
(* The graph exporter. *)

(* A page more of a listing is a longer start of it. *)
LEMMA PageMore ==
  ASSUME NEW rows \in Seq(Nat), NEW list \in Seq(Nat), StartOf(list, rows),
         NEW m \in Len(list) .. Len(rows), NEW longer, longer = list \o SubSeq(rows, Len(list) + 1, m)
  PROVE  longer \in Seq(Nat) /\ Len(longer) = m /\ StartOf(longer, rows)
<1> DEFINE more == SubSeq(rows, Len(list) + 1, m)
<1>1. more \in Seq(Nat) /\ Len(more) = m - Len(list)
      /\ \A i \in 1..Len(more) : more[i] = rows[Len(list) + i]
  <2>1. Len(list) \in Nat /\ Len(rows) \in Nat /\ m \in Int /\ Len(list) + 1 \in Int /\ m >= Len(list)
        /\ \A i \in Len(list) + 1..m : rows[i] \in Nat
    OBVIOUS
  <2>2. /\ SubSeq(rows, Len(list) + 1, m) \in Seq(Nat)
        /\ Len(SubSeq(rows, Len(list) + 1, m)) = IF Len(list) + 1 <= m THEN m - (Len(list) + 1) + 1 ELSE 0
        /\ \A i \in 1..m - (Len(list) + 1) + 1 :
             SubSeq(rows, Len(list) + 1, m)[i] = rows[Len(list) + 1 + i - 1]
    BY ONLY <2>1, SubSeqProperties, SMTT(30)
  <2>3. more = SubSeq(rows, Len(list) + 1, m)
    OBVIOUS
  <2> HIDE DEF more
  <2>4. /\ more \in Seq(Nat)
        /\ Len(more) = IF Len(list) + 1 <= m THEN m - (Len(list) + 1) + 1 ELSE 0
        /\ \A i \in 1..m - (Len(list) + 1) + 1 : more[i] = rows[Len(list) + 1 + i - 1]
    BY ONLY <2>2, <2>3, Zenon
  <2>5. /\ (IF Len(list) + 1 <= m THEN m - (Len(list) + 1) + 1 ELSE 0) = m - Len(list)
        /\ m - (Len(list) + 1) + 1 = m - Len(list)
        /\ \A i \in 1..m - Len(list) : Len(list) + 1 + i - 1 = Len(list) + i
    BY ONLY <2>1
  <2> QED BY ONLY <2>4, <2>5, Zenon
<1>2. longer \in Seq(Nat) /\ Len(longer) = m
      /\ \A i \in 1..m : longer[i] = IF i <= Len(list) THEN list[i] ELSE more[i - Len(list)]
  <2>1. longer = list \o more
    OBVIOUS
  <2> HIDE DEF more
  <2>2. Len(list) \in Nat /\ Len(more) \in Nat /\ Len(list) + Len(more) = m /\ m \in Nat
    BY ONLY <1>1, list \in Seq(Nat), m \in Len(list) .. Len(rows), rows \in Seq(Nat)
  <2>3. /\ longer \in Seq(Nat) /\ Len(longer) = Len(list) + Len(more)
        /\ \A i \in 1..Len(list) + Len(more) :
             longer[i] = IF i <= Len(list) THEN list[i] ELSE more[i - Len(list)]
    BY ONLY <1>1, <2>1, list \in Seq(Nat), ConcatProperties
  <2> QED BY ONLY <2>2, <2>3
<1>3. \A i \in 1..Len(list) : list[i] = rows[i]
  <2>1. list = SubSeq(rows, 1, Len(list)) /\ Len(list) <= Len(rows)
    BY DEF StartOf
  <2>2. Len(list) \in Nat /\ rows \in Seq(Nat)
    OBVIOUS
  <2>3. PICK k \in Nat : k = Len(list)
    BY <2>2
  <2>4. \A i \in 1..k : SubSeq(rows, 1, k)[i] = rows[i]
    BY ONLY <2>1, <2>2, <2>3
  <2> QED BY ONLY <2>1, <2>3, <2>4
<1>4. \A i \in 1..m : longer[i] = rows[i]
  BY <1>1, <1>2, <1>3
<1>5. SubSeq(rows, 1, m) \in Seq(Nat) /\ Len(SubSeq(rows, 1, m)) = m
      /\ \A i \in 1..m : SubSeq(rows, 1, m)[i] = rows[i]
  <2>1. 1 \in Int /\ m \in Int /\ m >= 0 /\ \A i \in 1..m : rows[i] \in Nat
    OBVIOUS
  <2>2. /\ SubSeq(rows, 1, m) \in Seq(Nat)
        /\ Len(SubSeq(rows, 1, m)) = IF 1 <= m THEN m - 1 + 1 ELSE 0
        /\ \A i \in 1..m - 1 + 1 : SubSeq(rows, 1, m)[i] = rows[1 + i - 1]
    BY ONLY <2>1, SubSeqProperties, SMTT(30)
  <2> QED BY ONLY <2>1, <2>2
<1>6. longer = SubSeq(rows, 1, m)
  BY <1>2, <1>4, <1>5, SeqEqual
<1>7. m <= Len(rows)
  OBVIOUS
<1>8. StartOf(longer, rows)
  BY ONLY <1>2, <1>6, <1>7 DEF StartOf
<1> QED BY ONLY <1>2, <1>8

LEMMA WholeStart ==
  ASSUME NEW rows \in Seq(Nat), NEW list \in Seq(Nat), StartOf(list, rows), Len(list) = Len(rows)
  PROVE  list = rows
<1>1. list = SubSeq(rows, 1, Len(rows))
  BY DEF StartOf
<1> QED BY <1>1

NodeMerged(nodes, node, more) ==
  /\ more \in Seq(NodeSpecs)
  /\ \A i, j \in DOMAIN more : more[i].id = more[j].id => i = j
  /\ \E i \in DOMAIN more : more[i].id = node.id
  /\ node.layer = "curated" => \A i \in DOMAIN more : more[i].id = node.id => more[i].layer = "curated"
  /\ \A i \in DOMAIN nodes :
       /\ i \in DOMAIN more /\ more[i].id = nodes[i].id
       /\ nodes[i].layer = "curated" => more[i].layer = "curated"
  /\ \A i \in DOMAIN more : i \in DOMAIN nodes \/ \A j \in DOMAIN nodes : nodes[j].id # more[i].id

LEMMA BuilderNodeKeeps ==
  ASSUME NEW nodes \in Seq(NodeSpecs), NEW node \in NodeSpecs,
         \A i, j \in DOMAIN nodes : nodes[i].id = nodes[j].id => i = j
  PROVE  NodeMerged(nodes, node, BuilderNode(nodes, node))
<1>1. CASE \E i \in DOMAIN nodes : nodes[i].id = node.id
  <2> DEFINE new == [i \in DOMAIN nodes |->
                        IF nodes[i].id = node.id /\ node.layer = "curated" THEN node ELSE nodes[i]]
  <2>1. BuilderNode(nodes, node) = new
    BY <1>1 DEF BuilderNode
  <2>2. new \in Seq(NodeSpecs) /\ DOMAIN new = DOMAIN nodes
    OBVIOUS
  <2>3. \A i \in DOMAIN nodes : new[i].id = nodes[i].id
    OBVIOUS
  <2>4. \A i \in DOMAIN nodes : nodes[i].layer = "curated" => new[i].layer = "curated"
    OBVIOUS
  <2>5. node.layer = "curated" => \A i \in DOMAIN new : new[i].id = node.id => new[i].layer = "curated"
    BY <2>3
  <2> HIDE DEF new
  <2> QED BY ONLY <1>1, <2>1, <2>2, <2>3, <2>4, <2>5,
             \A i, j \in DOMAIN nodes : nodes[i].id = nodes[j].id => i = j
             DEF NodeMerged
<1>2. CASE ~ \E i \in DOMAIN nodes : nodes[i].id = node.id
  <2> DEFINE new == Append(nodes, node)
  <2>1. BuilderNode(nodes, node) = new
    BY <1>2 DEF BuilderNode
  <2>2. new \in Seq(NodeSpecs) /\ DOMAIN new = 1..Len(nodes) + 1 /\ DOMAIN nodes = 1..Len(nodes)
        /\ Len(nodes) \in Nat /\ new[Len(nodes) + 1] = node /\ \A i \in 1..Len(nodes) : new[i] = nodes[i]
    OBVIOUS
  <2> HIDE DEF new
  <2> QED BY ONLY <1>2, <2>1, <2>2, \A i, j \in DOMAIN nodes : nodes[i].id = nodes[j].id => i = j
             DEF NodeMerged
<1> QED BY <1>1, <1>2

EdgeMerged(edges, edge, more) ==
  /\ more \in Seq(EdgeSpecs)
  /\ \A i, j \in DOMAIN more : more[i] = more[j] => i = j
  /\ \E i \in DOMAIN more : more[i] = edge
  /\ \A i \in DOMAIN edges : i \in DOMAIN more /\ more[i] = edges[i]

LEMMA BuilderEdgeKeeps ==
  ASSUME NEW edges \in Seq(EdgeSpecs), NEW edge \in EdgeSpecs,
         \A i, j \in DOMAIN edges : edges[i] = edges[j] => i = j
  PROVE  EdgeMerged(edges, edge, BuilderEdge(edges, edge))
<1>1. CASE \E i \in DOMAIN edges : edges[i] = edge
  BY <1>1 DEF BuilderEdge, EdgeMerged
<1>2. CASE ~ \E i \in DOMAIN edges : edges[i] = edge
  <2> DEFINE more == Append(edges, edge)
  <2>1. BuilderEdge(edges, edge) = more
    BY <1>2 DEF BuilderEdge
  <2>2. more \in Seq(EdgeSpecs) /\ DOMAIN more = 1..Len(edges) + 1 /\ DOMAIN edges = 1..Len(edges)
        /\ Len(edges) \in Nat /\ more[Len(edges) + 1] = edge /\ \A i \in 1..Len(edges) : more[i] = edges[i]
    OBVIOUS
  <2> HIDE DEF more
  <2> QED BY ONLY <1>2, <2>1, <2>2, \A i, j \in DOMAIN edges : edges[i] = edges[j] => i = j
             DEF EdgeMerged
<1> QED BY <1>1, <1>2

(* The batch c has all that the batch b had, and the analyst's names. *)
Grows(b, c) ==
  /\ \A id : HasNode(b, id) => HasNode(c, id)
  /\ \A edge : HasEdge(b, edge) => HasEdge(c, edge)
  /\ \A f, a : HasNode(b, LocalId("FUNCTION", a)) /\ NamesKept(b, f, a) => NamesKept(c, f, a)

LEMMA NodeAdded ==
  ASSUME NEW b, BatchTypes(b), NEW node \in NodeSpecs, NEW c, DOMAIN c = {"nodes", "edges"},
         c.nodes = BuilderNode(b.nodes, node), c.edges = b.edges
  PROVE  /\ BatchTypes(c) /\ Grows(b, c) /\ HasNode(c, node.id)
         /\ node.layer = "curated" => \A i \in DOMAIN c.nodes : c.nodes[i].id = node.id => c.nodes[i].layer = "curated"
<1>1. /\ b.nodes \in Seq(NodeSpecs) /\ b.edges \in Seq(EdgeSpecs)
      /\ \A i, j \in DOMAIN b.nodes : b.nodes[i].id = b.nodes[j].id => i = j
      /\ \A i, j \in DOMAIN b.edges : b.edges[i] = b.edges[j] => i = j
  BY DEF BatchTypes, Distinct
<1>2. NodeMerged(b.nodes, node, c.nodes)
  BY ONLY <1>1, node \in NodeSpecs, c.nodes = BuilderNode(b.nodes, node), BuilderNodeKeeps
<1>3. BatchTypes(c)
  BY <1>1, <1>2 DEF BatchTypes, Distinct, NodeMerged
<1>4. \A id : HasNode(b, id) => HasNode(c, id)
  BY <1>2 DEF HasNode, NodeMerged
<1>5. \A edge : HasEdge(b, edge) => HasEdge(c, edge)
  BY DEF HasEdge
<1>6. ASSUME NEW f, NEW a, HasNode(b, LocalId("FUNCTION", a)), NamesKept(b, f, a) PROVE NamesKept(c, f, a)
  <2> SUFFICES ASSUME a \in f.renames, NEW i \in DOMAIN c.nodes, c.nodes[i].id = LocalId("FUNCTION", a)
               PROVE  c.nodes[i].layer = "curated"
    BY DEF NamesKept
  <2>1. i \in DOMAIN b.nodes
    BY <1>2, <1>6 DEF HasNode, NodeMerged
  <2>2. b.nodes[i].layer = "curated"
    BY <2>1, <1>2, <1>6 DEF NamesKept, NodeMerged
  <2> QED BY <2>1, <2>2, <1>2 DEF NodeMerged
<1> QED BY <1>2, <1>3, <1>4, <1>5, <1>6 DEF Grows, HasNode, NodeMerged

LEMMA EdgeAdded ==
  ASSUME NEW b, BatchTypes(b), NEW edge \in EdgeSpecs, NEW c, DOMAIN c = {"nodes", "edges"},
         c.nodes = b.nodes, c.edges = BuilderEdge(b.edges, edge)
  PROVE  BatchTypes(c) /\ Grows(b, c) /\ HasEdge(c, edge)
<1>1. /\ b.nodes \in Seq(NodeSpecs) /\ b.edges \in Seq(EdgeSpecs)
      /\ \A i, j \in DOMAIN b.nodes : b.nodes[i].id = b.nodes[j].id => i = j
      /\ \A i, j \in DOMAIN b.edges : b.edges[i] = b.edges[j] => i = j
  BY DEF BatchTypes, Distinct
<1>2. EdgeMerged(b.edges, edge, c.edges)
  BY ONLY <1>1, edge \in EdgeSpecs, c.edges = BuilderEdge(b.edges, edge), BuilderEdgeKeeps
<1>3. BatchTypes(c)
  BY <1>1, <1>2 DEF BatchTypes, Distinct, EdgeMerged
<1>4. \A id : HasNode(b, id) => HasNode(c, id)
  BY DEF HasNode
<1>5. \A e : HasEdge(b, e) => HasEdge(c, e)
  BY <1>2 DEF HasEdge, EdgeMerged
<1>6. \A f, a : NamesKept(b, f, a) => NamesKept(c, f, a)
  BY DEF NamesKept
<1> QED BY <1>2, <1>3, <1>4, <1>5, <1>6 DEF Grows, HasEdge, EdgeMerged

LEMMA BothAdded ==
  ASSUME NEW b, BatchTypes(b), NEW node \in NodeSpecs, NEW edge \in EdgeSpecs, NEW c,
         c = [nodes |-> BuilderNode(b.nodes, node), edges |-> BuilderEdge(b.edges, edge)]
  PROVE  /\ BatchTypes(c) /\ Grows(b, c) /\ HasNode(c, node.id) /\ HasEdge(c, edge)
         /\ node.layer = "curated" => \A i \in DOMAIN c.nodes : c.nodes[i].id = node.id => c.nodes[i].layer = "curated"
<1> DEFINE half == [nodes |-> BuilderNode(b.nodes, node), edges |-> b.edges]
<1>1. /\ BatchTypes(half) /\ Grows(b, half) /\ HasNode(half, node.id)
      /\ node.layer = "curated" => \A i \in DOMAIN half.nodes : half.nodes[i].id = node.id => half.nodes[i].layer = "curated"
  <2>1. DOMAIN half = {"nodes", "edges"} /\ half.nodes = BuilderNode(b.nodes, node) /\ half.edges = b.edges
    OBVIOUS
  <2> HIDE DEF half
  <2> QED BY <2>1, NodeAdded
<1>2. DOMAIN c = {"nodes", "edges"} /\ c.nodes = half.nodes /\ c.edges = BuilderEdge(half.edges, edge)
  OBVIOUS
<1> HIDE DEF half
<1>3. BatchTypes(c) /\ Grows(half, c) /\ HasEdge(c, edge)
  BY <1>1, <1>2, EdgeAdded
<1>4. Grows(b, c)
  <2>1. \A f, a : HasNode(b, LocalId("FUNCTION", a)) /\ NamesKept(b, f, a) => NamesKept(c, f, a)
    BY <1>1, <1>3 DEF Grows
  <2> QED BY <2>1, <1>1, <1>3 DEF Grows
<1>5. HasNode(c, node.id)
  BY <1>1, <1>3 DEF Grows
<1> QED BY <1>1, <1>2, <1>3, <1>4, <1>5

LEMMA MappedGrows ==
  ASSUME NEW b, NEW c, Grows(b, c), NEW f, NEW n
  PROVE  /\ FunctionsMapped(b, f, n) => FunctionsMapped(c, f, n)
         /\ CallsMapped(b, f, n) => CallsMapped(c, f, n)
         /\ ExportsMapped(b, f, n) => ExportsMapped(c, f, n)
         /\ CommentsMapped(b, f, n) => CommentsMapped(c, f, n)
<1>1. FunctionsMapped(b, f, n) => FunctionsMapped(c, f, n)
  BY DEF FunctionsMapped, Grows
<1>2. CallsMapped(b, f, n) => CallsMapped(c, f, n)
  BY DEF CallsMapped, Grows
<1>3. ExportsMapped(b, f, n) => ExportsMapped(c, f, n)
  BY DEF ExportsMapped, Grows
<1>4. CommentsMapped(b, f, n) => CommentsMapped(c, f, n)
  BY DEF CommentsMapped, Grows
<1> QED BY <1>1, <1>2, <1>3, <1>4

Building == {"add_program", "add_functions", "add_call_nodes", "add_calls", "add_exports", "add_comments"}

(* While the graph is built, only the batch and the loop's position move. *)
LEMMA BuildFrame ==
  ASSUME ExportInv, step \in Building, step' \in (Building \ {"add_program"}) \cup {"nodes"},
         BatchTypes(batch'), item' \in Nat \ {0},
         UNCHANGED <<session, ended, facts, failed, acked, payloads, skipped, upserted, plan>>
  PROVE  ExportTypes' /\ PullInv' /\ PushInv' /\ EndInv'
<1>1. ended = "no" /\ acked = {} /\ payloads = <<>> /\ skipped = 0 /\ upserted = 0
  BY DEF ExportInv, EndInv, PushInv, Building, Pushing, AllResolved
<1>2. ExportTypes'
  BY DEF ExportInv, ExportTypes
<1>3. PullInv'
  BY <1>1 DEF ExportInv, PullInv, From, Building, PastListings, PastFunctions, PastNodes, PastCalls, PastExports,
            Pushing, AllResolved, Pulling
<1>4. PushInv'
  BY <1>1 DEF PushInv, From, Building, Pushing, AllResolved
<1>5. EndInv'
  BY <1>1 DEF EndInv, Building
<1> QED BY <1>2, <1>3, <1>4, <1>5

LEMMA SpecTypes ==
  /\ \A a \in Nat : /\ FunctionNode(a) \in NodeSpecs /\ FunctionEdge(a) \in EdgeSpecs
                    /\ CallNode(a) \in NodeSpecs
                    /\ ExportNode(a) \in NodeSpecs /\ ExportEdge(a) \in EdgeSpecs
                    /\ CommentNode(a) \in NodeSpecs /\ CommentEdge(a) \in EdgeSpecs
  /\ \A c \in Nat \X Nat : CallEdge(c) \in EdgeSpecs
  /\ ProgramNode \in NodeSpecs
<1>1. \A a \in Nat, kind \in Kinds : LocalId(kind, a) \in Endpoints
  BY DEF LocalId, Endpoints
<1>2. \A a \in Nat, kind \in Kinds, layer \in {"raw", "curated"} : Node(kind, a, layer) \in NodeSpecs
  BY <1>1 DEF Node, NodeSpecs
<1>3. \A type \in {"CONTAINS", "CALLS", "EXPORTS", "ANNOTATES"}, src, dst \in Endpoints : Edge(type, src, dst) \in EdgeSpecs
  BY DEF Edge, EdgeSpecs
<1>4. \A a \in Nat : ByAddress(a) \in Endpoints
  BY <1>1 DEF ByAddress, Kinds
<1>5. ProgramNode \in NodeSpecs /\ ProgramNode.id \in Endpoints
  BY <1>2 DEF ProgramNode, NodeSpecs, Kinds
<1>6. \A a \in Nat : /\ FunctionNode(a) \in NodeSpecs /\ CallNode(a) \in NodeSpecs
                     /\ ExportNode(a) \in NodeSpecs /\ CommentNode(a) \in NodeSpecs
  BY <1>2 DEF FunctionNode, CallNode, ExportNode, CommentNode, Kinds, Addressable
<1>7. \A a \in Nat : FunctionEdge(a) \in EdgeSpecs /\ ExportEdge(a) \in EdgeSpecs /\ CommentEdge(a) \in EdgeSpecs
  BY <1>1, <1>3, <1>4, <1>5 DEF FunctionEdge, ExportEdge, CommentEdge, Kinds, Addressable
<1>8. \A c \in Nat \X Nat : CallEdge(c) \in EdgeSpecs
  BY <1>3, <1>4 DEF CallEdge
<1> QED BY <1>5, <1>6, <1>7, <1>8

LEMMA AddProgramKeeps == ExportInv /\ AddProgram => ExportInv'
<1> SUFFICES ASSUME ExportInv, AddProgram PROVE ExportInv'
  OBVIOUS
<1>1. BatchTypes(batch)
  BY DEF ExportInv, ExportTypes
<1>2. step = "add_program" /\ step' = "add_functions" /\ item = 1 /\ item' = 1
      /\ UNCHANGED <<session, ended, facts, failed, acked, payloads, skipped, upserted, plan>>
  BY DEF AddProgram, ExportInv, PullInv, Pulling, pullVars, pushVars
<1>3. BatchTypes(batch')
  <2>1. DOMAIN batch' = {"nodes", "edges"} /\ batch'.nodes = BuilderNode(batch.nodes, ProgramNode)
        /\ batch'.edges = batch.edges
    BY <1>1 DEF AddProgram, WithNode, BatchTypes
  <2> QED BY <1>1, <2>1, SpecTypes, NodeAdded
<1>4. ExportTypes' /\ PullInv' /\ PushInv' /\ EndInv'
  BY <1>2, <1>3, BuildFrame DEF Building
<1>5. ended = "no"
  BY <1>2 DEF ExportInv, EndInv
<1>6. BuildInv'
  BY <1>2, <1>5 DEF BuildInv, FunctionsMapped, From, PastFunctions, PastNodes, PastCalls, PastExports, Pushing, AllResolved
<1> QED BY <1>4, <1>6 DEF ExportInv

LEMMA AddFunctionsKeeps == ExportInv /\ AddFunctions => ExportInv'
<1> SUFFICES ASSUME ExportInv, AddFunctions PROVE ExportInv'
  OBVIOUS
<1>1. BatchTypes(batch) /\ item \in Nat \ {0} /\ facts.functions \in Seq(Nat)
      /\ FunctionsMapped(batch, facts, item - 1) /\ ended = "no" /\ step = "add_functions"
  BY DEF ExportInv, ExportTypes, FactTypes, BuildInv, EndInv, AddFunctions, Adding
<1>2. UNCHANGED <<session, ended, facts, failed, acked, payloads, skipped, upserted, plan>>
  BY DEF AddFunctions, Adding, pullVars, pushVars
<1>3. CASE item <= Len(facts.functions)
  <2> DEFINE a == facts.functions[item]
  <2>1. /\ a \in Nat /\ step' = step /\ item' = item + 1
        /\ batch' = [nodes |-> BuilderNode(batch.nodes, FunctionNode(a)), edges |-> BuilderEdge(batch.edges, FunctionEdge(a))]
    BY <1>1, <1>3 DEF AddFunctions, Adding, WithBoth
  <2> HIDE DEF a
  <2>2. /\ BatchTypes(batch') /\ Grows(batch, batch') /\ HasNode(batch', FunctionNode(a).id)
        /\ HasEdge(batch', FunctionEdge(a))
        /\ FunctionNode(a).layer = "curated" =>
             \A i \in DOMAIN batch'.nodes : batch'.nodes[i].id = FunctionNode(a).id => batch'.nodes[i].layer = "curated"
    <3>1. FunctionNode(a) \in NodeSpecs /\ FunctionEdge(a) \in EdgeSpecs
      BY <2>1, SpecTypes
    <3> QED BY <1>1, <2>1, <3>1, BothAdded
  <2>3. ExportTypes' /\ PullInv' /\ PushInv' /\ EndInv'
    BY <1>1, <1>2, <2>1, <2>2, BuildFrame DEF Building
  <2>4. NamesKept(batch', facts, a) /\ HasNode(batch', LocalId("FUNCTION", a))
    BY <2>2 DEF NamesKept, FunctionNode, Node
  <2>5. FunctionsMapped(batch', facts, item - 1)
    BY <1>1, <2>2, MappedGrows
  <2>6. FunctionsMapped(batch', facts, item)
    BY <1>1, <2>2, <2>4, <2>5 DEF FunctionsMapped, a
  <2>7. BuildInv'
    BY <1>1, <1>2, <2>1, <2>6 DEF BuildInv, From, PastFunctions, PastNodes, PastCalls, PastExports, Pushing, AllResolved
  <2> QED BY <2>3, <2>7 DEF ExportInv
<1>4. CASE item > Len(facts.functions)
  <2>1. step' = "add_call_nodes" /\ item' = 1 /\ batch' = batch
    BY <1>1, <1>4 DEF AddFunctions, Adding
  <2>2. ExportTypes' /\ PullInv' /\ PushInv' /\ EndInv'
    BY <1>1, <1>2, <2>1, BuildFrame DEF Building
  <2>3. FunctionsMapped(batch, facts, Len(facts.functions))
    BY <1>1, <1>4 DEF FunctionsMapped
  <2>4. BuildInv'
    BY <1>1, <1>2, <2>1, <2>3 DEF BuildInv, From, PastFunctions, PastNodes, PastCalls, PastExports, Pushing, AllResolved
  <2> QED BY <2>2, <2>4 DEF ExportInv
<1> QED BY <1>1, <1>3, <1>4

LEMMA AddCallNodesKeeps == ExportInv /\ AddCallNodes => ExportInv'
<1> SUFFICES ASSUME ExportInv, AddCallNodes PROVE ExportInv'
  OBVIOUS
<1>1. BatchTypes(batch) /\ item \in Nat \ {0} /\ facts.nodes \in Seq(Nat)
      /\ ended = "no" /\ step = "add_call_nodes"
  BY DEF ExportInv, ExportTypes, FactTypes, EndInv, AddCallNodes, Adding
<1>2. FunctionsMapped(batch, facts, Len(facts.functions))
  BY <1>1 DEF ExportInv, BuildInv, From, PastFunctions, PastNodes, PastCalls, PastExports, Pushing, AllResolved
<1>3. UNCHANGED <<session, ended, facts, failed, acked, payloads, skipped, upserted, plan>>
  BY DEF AddCallNodes, Adding, pullVars, pushVars
<1>4. CASE item <= Len(facts.nodes)
  <2> DEFINE a == facts.nodes[item]
  <2>1. /\ a \in Nat /\ step' = step /\ item' = item + 1
        /\ DOMAIN batch' = {"nodes", "edges"} /\ batch'.nodes = BuilderNode(batch.nodes, CallNode(a))
        /\ batch'.edges = batch.edges
    BY <1>1, <1>4 DEF AddCallNodes, Adding, WithNode, BatchTypes
  <2> HIDE DEF a
  <2>2. BatchTypes(batch') /\ Grows(batch, batch')
    <3>1. CallNode(a) \in NodeSpecs
      BY <2>1, SpecTypes
    <3> QED BY <1>1, <2>1, <3>1, NodeAdded
  <2>3. ExportTypes' /\ PullInv' /\ PushInv' /\ EndInv'
    BY <1>1, <1>3, <2>1, <2>2, BuildFrame DEF Building
  <2>4. FunctionsMapped(batch', facts, Len(facts.functions))
    BY <1>2, <2>2, MappedGrows
  <2>5. BuildInv'
    BY <1>1, <1>3, <2>1, <2>4 DEF BuildInv, From, PastFunctions, PastNodes, PastCalls, PastExports, Pushing, AllResolved
  <2> QED BY <2>3, <2>5 DEF ExportInv
<1>5. CASE item > Len(facts.nodes)
  <2>1. step' = "add_calls" /\ item' = 1 /\ batch' = batch
    BY <1>1, <1>5 DEF AddCallNodes, Adding
  <2>2. ExportTypes' /\ PullInv' /\ PushInv' /\ EndInv'
    BY <1>1, <1>3, <2>1, BuildFrame DEF Building
  <2>3. BuildInv'
    BY <1>1, <1>2, <1>3, <2>1 DEF BuildInv, From, PastFunctions, PastNodes, PastCalls, PastExports, Pushing, AllResolved, CallsMapped
  <2> QED BY <2>2, <2>3 DEF ExportInv
<1> QED BY <1>1, <1>4, <1>5

LEMMA AddCallsKeeps == ExportInv /\ AddCalls => ExportInv'
<1> SUFFICES ASSUME ExportInv, AddCalls PROVE ExportInv'
  OBVIOUS
<1>1. BatchTypes(batch) /\ item \in Nat \ {0} /\ facts.calls \in Seq(Nat \X Nat)
      /\ CallsMapped(batch, facts, item - 1) /\ ended = "no" /\ step = "add_calls"
  BY DEF ExportInv, ExportTypes, FactTypes, BuildInv, EndInv, AddCalls, Adding
<1>2. FunctionsMapped(batch, facts, Len(facts.functions))
  BY <1>1 DEF ExportInv, BuildInv, From, PastFunctions, PastNodes, PastCalls, PastExports, Pushing, AllResolved
<1>3. UNCHANGED <<session, ended, facts, failed, acked, payloads, skipped, upserted, plan>>
  BY DEF AddCalls, Adding, pullVars, pushVars
<1>4. CASE item <= Len(facts.calls)
  <2> DEFINE c == facts.calls[item]
  <2>1. /\ c \in Nat \X Nat /\ step' = step /\ item' = item + 1
        /\ DOMAIN batch' = {"nodes", "edges"} /\ batch'.nodes = batch.nodes
        /\ batch'.edges = BuilderEdge(batch.edges, CallEdge(c))
    <3>1. c \in Nat \X Nat
      BY <1>1, <1>4
    <3>2. step' = step /\ item' = item + 1 /\ batch' = WithEdge(CallEdge(c))
      BY <1>1, <1>4 DEF AddCalls, Adding
    <3>3. DOMAIN batch = {"nodes", "edges"}
      BY <1>1 DEF BatchTypes
    <3> QED BY ONLY <3>1, <3>2, <3>3 DEF WithEdge
  <2> HIDE DEF c
  <2>2. BatchTypes(batch') /\ Grows(batch, batch') /\ HasEdge(batch', CallEdge(c))
    <3>1. CallEdge(c) \in EdgeSpecs
      BY <2>1, SpecTypes
    <3> QED BY <1>1, <2>1, <3>1, EdgeAdded
  <2>3. ExportTypes' /\ PullInv' /\ PushInv' /\ EndInv'
    BY <1>1, <1>3, <2>1, <2>2, BuildFrame DEF Building
  <2>4. CallsMapped(batch', facts, item - 1) /\ FunctionsMapped(batch', facts, Len(facts.functions))
    BY <1>1, <1>2, <2>2, MappedGrows
  <2>5. CallsMapped(batch', facts, item)
    BY <1>1, <2>2, <2>4 DEF CallsMapped, c
  <2>6. BuildInv'
    BY <1>1, <1>3, <2>1, <2>4, <2>5 DEF BuildInv, From, PastFunctions, PastNodes, PastCalls, PastExports, Pushing, AllResolved
  <2> QED BY <2>3, <2>6 DEF ExportInv
<1>5. CASE item > Len(facts.calls)
  <2>1. step' = "add_exports" /\ item' = 1 /\ batch' = batch
    BY <1>1, <1>5 DEF AddCalls, Adding
  <2>2. ExportTypes' /\ PullInv' /\ PushInv' /\ EndInv'
    BY <1>1, <1>3, <2>1, BuildFrame DEF Building
  <2>3. CallsMapped(batch, facts, Len(facts.calls))
    BY <1>1, <1>5 DEF CallsMapped
  <2>4. BuildInv'
    BY <1>1, <1>2, <1>3, <2>1, <2>3 DEF BuildInv, From, PastFunctions, PastNodes, PastCalls, PastExports, Pushing, AllResolved, ExportsMapped
  <2> QED BY <2>2, <2>4 DEF ExportInv
<1> QED BY <1>1, <1>4, <1>5

LEMMA AddExportsKeeps == ExportInv /\ AddExports => ExportInv'
<1> SUFFICES ASSUME ExportInv, AddExports PROVE ExportInv'
  OBVIOUS
<1>1. BatchTypes(batch) /\ item \in Nat \ {0} /\ facts.exports \in Seq(Nat)
      /\ ExportsMapped(batch, facts, item - 1) /\ ended = "no" /\ step = "add_exports"
  BY DEF ExportInv, ExportTypes, FactTypes, BuildInv, EndInv, AddExports, Adding
<1>2. FunctionsMapped(batch, facts, Len(facts.functions)) /\ CallsMapped(batch, facts, Len(facts.calls))
  BY <1>1 DEF ExportInv, BuildInv, From, PastFunctions, PastNodes, PastCalls, PastExports, Pushing, AllResolved
<1>3. UNCHANGED <<session, ended, facts, failed, acked, payloads, skipped, upserted, plan>>
  BY DEF AddExports, Adding, pullVars, pushVars
<1>4. CASE item <= Len(facts.exports)
  <2> DEFINE a == facts.exports[item]
  <2>1. /\ a \in Nat /\ step' = step /\ item' = item + 1
        /\ batch' = [nodes |-> BuilderNode(batch.nodes, ExportNode(a)), edges |-> BuilderEdge(batch.edges, ExportEdge(a))]
    BY <1>1, <1>4 DEF AddExports, Adding, WithBoth
  <2> HIDE DEF a
  <2>2. /\ BatchTypes(batch') /\ Grows(batch, batch') /\ HasNode(batch', ExportNode(a).id)
        /\ HasEdge(batch', ExportEdge(a))
    <3>1. ExportNode(a) \in NodeSpecs /\ ExportEdge(a) \in EdgeSpecs
      BY <2>1, SpecTypes
    <3> QED BY <1>1, <2>1, <3>1, BothAdded
  <2>3. ExportTypes' /\ PullInv' /\ PushInv' /\ EndInv'
    BY <1>1, <1>3, <2>1, <2>2, BuildFrame DEF Building
  <2>4. HasNode(batch', LocalId("EXPORT", a))
    BY <2>2 DEF ExportNode, Node
  <2>5. ExportsMapped(batch', facts, item - 1)
    BY <1>1, <2>2, MappedGrows
  <2>6. ExportsMapped(batch', facts, item)
    BY <1>1, <2>2, <2>4, <2>5 DEF ExportsMapped, a
  <2>7. FunctionsMapped(batch', facts, Len(facts.functions)) /\ CallsMapped(batch', facts, Len(facts.calls))
    BY <1>2, <2>2, MappedGrows
  <2>8. BuildInv'
    BY <1>1, <1>3, <2>1, <2>6, <2>7 DEF BuildInv, From, PastFunctions, PastNodes, PastCalls, PastExports, Pushing, AllResolved
  <2> QED BY <2>3, <2>8 DEF ExportInv
<1>5. CASE item > Len(facts.exports)
  <2>1. step' = "add_comments" /\ item' = 1 /\ batch' = batch
    BY <1>1, <1>5 DEF AddExports, Adding
  <2>2. ExportTypes' /\ PullInv' /\ PushInv' /\ EndInv'
    BY <1>1, <1>3, <2>1, BuildFrame DEF Building
  <2>3. ExportsMapped(batch, facts, Len(facts.exports))
    BY <1>1, <1>5 DEF ExportsMapped
  <2>4. BuildInv'
    BY <1>1, <1>2, <1>3, <2>1, <2>3 DEF BuildInv, From, PastFunctions, PastNodes, PastCalls, PastExports, Pushing, AllResolved, CommentsMapped
  <2> QED BY <2>2, <2>4 DEF ExportInv
<1> QED BY <1>1, <1>4, <1>5

LEMMA AddCommentsKeeps == ExportInv /\ AddComments => ExportInv'
<1> SUFFICES ASSUME ExportInv, AddComments PROVE ExportInv'
  OBVIOUS
<1>1. BatchTypes(batch) /\ item \in Nat \ {0} /\ facts.comments \in Seq(Nat)
      /\ CommentsMapped(batch, facts, item - 1) /\ ended = "no" /\ step = "add_comments"
  BY DEF ExportInv, ExportTypes, FactTypes, BuildInv, EndInv, AddComments, Adding
<1>2. FunctionsMapped(batch, facts, Len(facts.functions)) /\ CallsMapped(batch, facts, Len(facts.calls)) /\ ExportsMapped(batch, facts, Len(facts.exports))
  BY <1>1 DEF ExportInv, BuildInv, From, PastFunctions, PastNodes, PastCalls, PastExports, Pushing, AllResolved
<1>3. UNCHANGED <<session, ended, facts, failed, acked, payloads, skipped, upserted, plan>>
  BY DEF AddComments, Adding, pullVars, pushVars
<1>4. CASE item <= Len(facts.comments)
  <2> DEFINE a == facts.comments[item]
  <2>1. /\ a \in Nat /\ step' = step /\ item' = item + 1
        /\ batch' = [nodes |-> BuilderNode(batch.nodes, CommentNode(a)), edges |-> BuilderEdge(batch.edges, CommentEdge(a))]
    BY <1>1, <1>4 DEF AddComments, Adding, WithBoth
  <2> HIDE DEF a
  <2>2. /\ BatchTypes(batch') /\ Grows(batch, batch') /\ HasNode(batch', CommentNode(a).id)
        /\ HasEdge(batch', CommentEdge(a))
    <3>1. CommentNode(a) \in NodeSpecs /\ CommentEdge(a) \in EdgeSpecs
      BY <2>1, SpecTypes
    <3> QED BY <1>1, <2>1, <3>1, BothAdded
  <2>3. ExportTypes' /\ PullInv' /\ PushInv' /\ EndInv'
    BY <1>1, <1>3, <2>1, <2>2, BuildFrame DEF Building
  <2>4. HasNode(batch', LocalId("COMMENT", a))
    BY <2>2 DEF CommentNode, Node
  <2>5. CommentsMapped(batch', facts, item - 1)
    BY <1>1, <2>2, MappedGrows
  <2>6. CommentsMapped(batch', facts, item)
    BY <1>1, <2>2, <2>4, <2>5 DEF CommentsMapped, a
  <2>7. FunctionsMapped(batch', facts, Len(facts.functions)) /\ CallsMapped(batch', facts, Len(facts.calls)) /\ ExportsMapped(batch', facts, Len(facts.exports))
    BY <1>2, <2>2, MappedGrows
  <2>8. BuildInv'
    BY <1>1, <1>3, <2>1, <2>6, <2>7 DEF BuildInv, From, PastFunctions, PastNodes, PastCalls, PastExports, Pushing, AllResolved
  <2> QED BY <2>3, <2>8 DEF ExportInv
<1>5. CASE item > Len(facts.comments)
  <2>1. step' = "nodes" /\ item' = 1 /\ batch' = batch
    BY <1>1, <1>5 DEF AddComments, Adding
  <2>2. ExportTypes' /\ PullInv' /\ PushInv' /\ EndInv'
    BY <1>1, <1>3, <2>1, BuildFrame DEF Building
  <2>3. CommentsMapped(batch, facts, Len(facts.comments))
    BY <1>1, <1>5 DEF CommentsMapped
  <2>4. BuildInv'
    BY <1>1, <1>2, <1>3, <2>1, <2>3 DEF BuildInv, From, PastFunctions, PastNodes, PastCalls, PastExports, Pushing, AllResolved
  <2> QED BY <2>2, <2>4 DEF ExportInv
<1> QED BY <1>1, <1>4, <1>5

(* Steps that move on, or end the export, and touch neither the facts nor  *)
(* the graph nor what is pushed.                                           *)
LEMMA QuietTypes ==
  ASSUME ExportInv, UNCHANGED <<facts, batch, item, pushVars, plan>>
  PROVE  ExportTypes'
BY DEF ExportInv, ExportTypes, pushVars

LEMMA LeavesExport ==
  ASSUME ExportInv, step' \in {"close", "exit"}, ended' # "stats" \/ ended = "stats",
         UNCHANGED <<facts, batch, item, pushVars, plan>>, ended' = "stats" => failed' = failed,
         step' = "exit" => session' # "open"
  PROVE  ExportInv'
<1>1. ExportTypes'
  BY QuietTypes
<1>2. PullInv'
  BY DEF ExportInv, PullInv, From, PastListings, PastFunctions, PastNodes, PastCalls, PastExports,
         Pushing, AllResolved, Pulling
<1>3. BuildInv'
  BY DEF ExportInv, BuildInv, From, PastFunctions, PastNodes, PastCalls, PastExports, Pushing, AllResolved
<1>4. PushInv'
  BY DEF ExportInv, PushInv, From, Accounted, Pushing, AllResolved, pushVars
<1>5. EndInv'
  BY DEF EndInv
<1> QED BY <1>1, <1>2, <1>3, <1>4, <1>5 DEF ExportInv

LEMMA AbortKeeps == ExportInv /\ Abort => ExportInv'
<1> SUFFICES ASSUME ExportInv, Abort PROVE ExportInv'
  OBVIOUS
<1>1. step' = "close" /\ ended' \in {"aborted", "raised"} /\ UNCHANGED <<facts, batch, item, pushVars, plan>>
  BY DEF Abort
<1> QED BY <1>1, LeavesExport

(* The first steps, with nothing gathered yet that the graph rests on. *)
LEMMA BeginsExport ==
  ASSUME ExportInv, ended = "no", step \in {"create", "import", "metadata"},
         step' \in {"import", "metadata", "functions"},
         UNCHANGED <<ended, facts, failed, batch, item, pushVars, plan>>
  PROVE  ExportInv'
<1>1. ExportTypes'
  BY QuietTypes
<1>2. PullInv'
  BY DEF ExportInv, PullInv, From, PastListings, PastFunctions, PastNodes, PastCalls, PastExports,
         Pushing, AllResolved, Pulling
<1>3. BuildInv'
  BY DEF BuildInv, From, PastFunctions, PastNodes, PastCalls, PastExports, Pushing, AllResolved
<1>4. PushInv'
  BY DEF ExportInv, PushInv, From, Accounted, Pushing, AllResolved, pushVars
<1>5. EndInv'
  BY DEF EndInv
<1> QED BY <1>1, <1>2, <1>3, <1>4, <1>5 DEF ExportInv

LEMMA CreateKeeps == ASSUME NEW answered, ExportInv, Create(answered) PROVE ExportInv'
<1>1. step = "create" /\ ended = "no" /\ UNCHANGED <<ended, facts, failed, batch, item, pushVars, plan>>
  BY DEF Create, ExportInv, EndInv, pullVars
<1>2. CASE answered = "ok"
  BY <1>1, <1>2, BeginsExport DEF Create
<1>3. CASE answered # "ok"
  <2>1. step' = "exit" /\ session' = "none"
    BY <1>3 DEF Create
  <2> QED BY <1>1, <2>1, LeavesExport
<1> QED BY <1>2, <1>3

LEMMA ImportAndAnalyzeKeeps == ASSUME NEW answered, ExportInv, ImportAndAnalyze(answered) PROVE ExportInv'
<1>1. step = "import" /\ ended = "no" /\ UNCHANGED <<facts, failed, batch, item, pushVars, plan>>
  BY DEF ImportAndAnalyze, ExportInv, EndInv, pullVars
<1>2. CASE answered = "ok"
  BY <1>1, <1>2, BeginsExport DEF ImportAndAnalyze
<1>3. CASE answered # "ok"
  <2>1. step' = "close" /\ ended' = "raised"
    BY <1>3 DEF ImportAndAnalyze
  <2> QED BY <1>1, <2>1, LeavesExport
<1> QED BY <1>2, <1>3

LEMMA GatherMetadataKeeps == ASSUME NEW answered, ExportInv, GatherMetadata(answered) PROVE ExportInv'
<1>1. CASE answered = "ok"
  <2>1. step = "metadata" /\ ended = "no" /\ step' = "functions"
        /\ UNCHANGED <<ended, facts, failed, batch, item, pushVars, plan>>
    BY <1>1 DEF GatherMetadata, ExportInv, EndInv, pullVars, Abort
  <2> QED BY <2>1, BeginsExport
<1>2. CASE answered # "ok"
  BY <1>2, AbortKeeps DEF GatherMetadata
<1> QED BY <1>1, <1>2

LEMMA CloseKeeps == ASSUME NEW answered, ExportInv, Close(answered) PROVE ExportInv'
<1>1. step' = "exit" /\ session' \in {"closed", "unclosed"} /\ UNCHANGED <<ended, facts, failed, batch, item, pushVars, plan>>
  BY DEF Close, pullVars
<1> QED BY <1>1, LeavesExport

(* While facts are gathered nothing has been built or pushed. *)
LEMMA GatherFrame ==
  ASSUME ExportInv, step \in {"functions", "call_graph", "exports", "annotations"},
         step' \in {"functions", "call_graph", "exports", "annotations", "add_program"},
         FactTypes(facts'), UNCHANGED <<session, ended, batch, item, pushVars, plan>>
  PROVE  ExportTypes' /\ BuildInv' /\ PushInv' /\ EndInv' /\ ended' = "no" /\ item' = 1
<1>1. ended = "no" /\ item = 1
  BY DEF ExportInv, EndInv, PullInv, Pulling
<1>2. ExportTypes'
  BY DEF ExportInv, ExportTypes, pushVars
<1>3. BuildInv'
  BY <1>1 DEF BuildInv, From, PastFunctions, PastNodes, PastCalls, PastExports, Pushing, AllResolved
<1>4. PushInv'
  BY <1>1 DEF ExportInv, PushInv, From, Accounted, Pushing, AllResolved, pushVars
<1>5. EndInv'
  BY <1>1 DEF EndInv
<1> QED BY <1>1, <1>2, <1>3, <1>4, <1>5

LEMMA GatherCallGraphKeeps == ASSUME NEW answered, ExportInv, GatherCallGraph(answered) PROVE ExportInv'
<1>1. FactTypes(facts) /\ step = "call_graph" /\ step' = "exports"
      /\ UNCHANGED <<session, ended, batch, item, pushVars, plan>>
  BY DEF GatherCallGraph, Gathered, ExportInv, ExportTypes
<1>2. FactTypes(facts')
  <2>1. CASE answered = "ok"
    <3>1. facts' = [facts EXCEPT !.nodes = CallNodes, !.calls = Calls]
      BY <2>1 DEF GatherCallGraph, Gathered
    <3>2. CallNodes \in Seq(Nat) /\ Calls \in Seq(Nat \X Nat)
      BY ExportConstants
    <3> QED BY <1>1, <3>1, <3>2 DEF FactTypes
  <2>2. CASE answered # "ok"
    BY <1>1, <2>2 DEF GatherCallGraph, Gathered
  <2> QED BY <2>1, <2>2
<1>3. ExportTypes' /\ BuildInv' /\ PushInv' /\ EndInv' /\ ended' = "no" /\ item' = 1
  BY <1>1, <1>2, GatherFrame
<1>4. ListingHonest(facts, failed, "functions", ProgramFunctions, "list_functions")
  BY <1>1 DEF ExportInv, PullInv, From
<1>5. ListingHonest(facts, failed, "functions", ProgramFunctions, "list_functions")'
  BY <1>1, <1>4 DEF GatherCallGraph, Gathered, ListingHonest, FactTypes
<1>6. PullInv'
  BY <1>1, <1>3, <1>5 DEF PullInv, From, PastListings, PastFunctions, PastNodes, PastCalls, PastExports,
         Pushing, AllResolved
<1> QED BY <1>3, <1>6 DEF ExportInv

LEMMA GatherAnnotationsKeeps == ASSUME NEW answered, ExportInv, GatherAnnotations(answered) PROVE ExportInv'
<1>1. FactTypes(facts) /\ step = "annotations" /\ step' = "add_program"
      /\ UNCHANGED <<session, ended, batch, item, pushVars, plan>>
  BY DEF GatherAnnotations, Gathered, ExportInv, ExportTypes
<1>2. FactTypes(facts')
  <2>1. CASE answered = "ok"
    <3>1. facts' = [facts EXCEPT !.renames = Renamed, !.comments = Commented]
      BY <2>1 DEF GatherAnnotations, Gathered
    <3>2. Commented \in Seq(Nat)
      BY ExportConstants
    <3> QED BY <1>1, <3>1, <3>2 DEF FactTypes
  <2>2. CASE answered # "ok"
    BY <1>1, <2>2 DEF GatherAnnotations, Gathered
  <2> QED BY <2>1, <2>2
<1>3. ExportTypes' /\ BuildInv' /\ PushInv' /\ EndInv' /\ ended' = "no" /\ item' = 1
  BY <1>1, <1>2, GatherFrame
<1>4. /\ ListingHonest(facts, failed, "functions", ProgramFunctions, "list_functions")
      /\ ListingHonest(facts, failed, "exports", Exported, "list_exports")
  BY <1>1 DEF ExportInv, PullInv, From, PastListings
<1>5. /\ ListingHonest(facts, failed, "functions", ProgramFunctions, "list_functions")'
      /\ ListingHonest(facts, failed, "exports", Exported, "list_exports")'
  BY <1>1, <1>4 DEF GatherAnnotations, Gathered, ListingHonest, FactTypes
<1>6. PullInv'
  BY <1>1, <1>3, <1>5 DEF PullInv
<1> QED BY <1>3, <1>6 DEF ExportInv

(* One page: the listing is a longer start of the rows, and when the loop  *)
(* ends it has them all or says that it does not.                          *)
LEMMA PageKeeps ==
  ASSUME NEW called, NEW listing \in {"functions", "exports"}, NEW rows \in Seq(Nat), NEW next,
         NEW answered,
         next # listing, FactTypes(facts), StartOf(facts[listing], rows), facts[listing] \in Seq(Nat),
         plan[listing] \in Nat, Paginate(called, listing, rows, next, answered)
  PROVE  /\ DOMAIN facts' = DOMAIN facts
         /\ facts'[listing] \in Seq(Nat) /\ StartOf(facts'[listing], rows)
         /\ facts.truncated \subseteq facts'.truncated /\ failed \subseteq failed'
         /\ \A field \in DOMAIN facts \ {listing, "truncated"} : facts'[field] = facts[field]
         /\ step = listing /\ step' \in {listing, next}
         /\ step' = next => facts'[listing] = rows \/ listing \in facts'.truncated \/ called \in failed'
<1> DEFINE held  == Len(facts[listing])
           cap   == plan[listing]
           limit == IF PageSize < cap - held THEN PageSize ELSE cap - held
           upto  == IF held + limit < Len(rows) THEN held + limit ELSE Len(rows)
<1>1. DOMAIN facts = {"functions", "exports", "truncated", "nodes", "calls", "renames", "comments"}
      /\ step = listing
  BY DEF FactTypes, Paginate
<1>2. CASE /\ held >= cap
           /\ facts' = [facts EXCEPT !.truncated = @ \cup {listing}]
           /\ step' = next /\ UNCHANGED failed
  BY <1>1, <1>2
<1>3. CASE /\ held < cap /\ answered # "ok"
           /\ failed' = failed \cup {called}
           /\ step' = next /\ UNCHANGED facts
  BY <1>1, <1>3
<1>4. CASE /\ held < cap
           /\ facts' = [facts EXCEPT ![listing] = @ \o SubSeq(rows, held + 1, upto)]
           /\ step' = (IF upto < held + limit THEN next ELSE listing) /\ UNCHANGED failed
  <2>1. held \in Nat /\ cap \in Nat /\ PageSize \in Nat /\ Len(rows) \in Nat /\ held <= Len(rows)
    BY ExportConstants DEF StartOf
  <2>2. limit \in Nat /\ upto \in held .. Len(rows) /\ (upto < held + limit => upto = Len(rows))
    <3>1. held < cap
      BY <1>4
    <3> HIDE DEF held, cap
    <3> QED BY ONLY <2>1, <3>1 DEF limit, upto
  <2>3. facts'[listing] = facts[listing] \o SubSeq(rows, held + 1, upto)
        /\ DOMAIN facts' = DOMAIN facts
        /\ \A field \in DOMAIN facts \ {listing} : facts'[field] = facts[field]
    BY <1>1, <1>4
  <2> HIDE DEF limit, upto, cap
  <2>4. facts'[listing] \in Seq(Nat) /\ Len(facts'[listing]) = upto /\ StartOf(facts'[listing], rows)
    BY ONLY <2>2, <2>3, rows \in Seq(Nat), facts[listing] \in Seq(Nat), StartOf(facts[listing], rows), PageMore
  <2>5. step' = next => facts'[listing] = rows
    <3>1. step' = next => upto = Len(rows)
      BY <1>4, <2>2
    <3> QED BY <2>4, <3>1, WholeStart
  <2> QED BY <1>1, <1>4, <2>3, <2>4, <2>5
<1> QED BY <1>2, <1>3, <1>4 DEF Paginate

LEMMA GatherFunctionsKeeps == ASSUME NEW answered, ExportInv, GatherFunctions(answered) PROVE ExportInv'
<1>1. FactTypes(facts) /\ ProgramFunctions \in Seq(Nat) /\ plan.functions \in Nat
      /\ StartOf(facts.functions, ProgramFunctions) /\ facts.functions \in Seq(Nat)
  BY ExportConstants DEF ExportInv, ExportTypes, FactTypes
<1>2. UNCHANGED <<session, ended, batch, item, pushVars, plan>>
  BY DEF GatherFunctions, Paginate
<1>3. /\ DOMAIN facts' = DOMAIN facts
      /\ facts'.functions \in Seq(Nat) /\ StartOf(facts'.functions, ProgramFunctions)
      /\ facts.truncated \subseteq facts'.truncated /\ failed \subseteq failed'
      /\ \A field \in DOMAIN facts \ {"functions", "truncated"} : facts'[field] = facts[field]
      /\ step = "functions" /\ step' \in {"functions", "call_graph"}
      /\ step' = "call_graph" => facts'.functions = ProgramFunctions \/ "functions" \in facts'.truncated
                                 \/ "list_functions" \in failed'
  BY <1>1, PageKeeps DEF GatherFunctions
<1>4. FactTypes(facts')
  BY <1>1, <1>3 DEF FactTypes
<1>5. ExportTypes' /\ BuildInv' /\ PushInv' /\ EndInv' /\ ended' = "no" /\ item' = 1
  BY <1>2, <1>3, <1>4, GatherFrame
<1>6. PullInv'
  BY <1>3, <1>5 DEF PullInv, From, ListingHonest, PastListings, PastFunctions, PastNodes, PastCalls, PastExports,
         Pushing, AllResolved
<1> QED BY <1>5, <1>6 DEF ExportInv

LEMMA GatherExportsKeeps == ASSUME NEW answered, ExportInv, GatherExports(answered) PROVE ExportInv'
<1>1. FactTypes(facts) /\ Exported \in Seq(Nat) /\ plan.exports \in Nat
      /\ StartOf(facts.exports, Exported) /\ facts.exports \in Seq(Nat)
  BY ExportConstants DEF ExportInv, ExportTypes, FactTypes
<1>2. UNCHANGED <<session, ended, batch, item, pushVars, plan>>
  BY DEF GatherExports, Paginate
<1>3. /\ DOMAIN facts' = DOMAIN facts
      /\ facts'.exports \in Seq(Nat) /\ StartOf(facts'.exports, Exported)
      /\ facts.truncated \subseteq facts'.truncated /\ failed \subseteq failed'
      /\ \A field \in DOMAIN facts \ {"exports", "truncated"} : facts'[field] = facts[field]
      /\ step = "exports" /\ step' \in {"exports", "annotations"}
      /\ step' = "annotations" => facts'.exports = Exported \/ "exports" \in facts'.truncated
                                  \/ "list_exports" \in failed'
  BY <1>1, PageKeeps DEF GatherExports
<1>4. FactTypes(facts')
  BY <1>1, <1>3 DEF FactTypes
<1>5. ExportTypes' /\ BuildInv' /\ PushInv' /\ EndInv' /\ ended' = "no" /\ item' = 1
  BY <1>2, <1>3, <1>4, GatherFrame
<1>6. ListingHonest(facts, failed, "functions", ProgramFunctions, "list_functions")
  BY <1>3 DEF ExportInv, PullInv, From
<1>7. facts'.functions = facts.functions
  BY <1>1, <1>3 DEF FactTypes
<1>8. PullInv'
  BY <1>3, <1>5, <1>6, <1>7 DEF PullInv, From, ListingHonest, PastListings, PastFunctions, PastNodes, PastCalls,
         PastExports, Pushing, AllResolved
<1> QED BY <1>5, <1>8 DEF ExportInv

(* While the graph is pushed it does not change, nor what it was made of. *)
LEMMA PushFrame ==
  ASSUME ExportInv, step \in Pushing, step' \in Pushing \cup {"close"}, ended = "no", ended' \in {"no", "stats"},
         ended' = "stats" => step' = "close",
         UNCHANGED <<session, facts, failed, batch, plan>>
  PROVE  PullInv' /\ BuildInv' /\ EndInv'
<1>1. PullInv'
  BY DEF ExportInv, PullInv, From, PastListings, PastFunctions, PastNodes, PastCalls, PastExports,
         Pushing, AllResolved, Pulling
<1>2. BuildInv'
  BY DEF ExportInv, BuildInv, From, PastFunctions, PastNodes, PastCalls, PastExports, Pushing, AllResolved
<1>3. EndInv'
  BY DEF EndInv, Pushing, AllResolved
<1> QED BY <1>1, <1>2, <1>3

LEMMA UpsertNodesKeeps == ExportInv /\ UpsertNodes => ExportInv'
<1> SUFFICES ASSUME ExportInv, UpsertNodes PROVE ExportInv'
  OBVIOUS
<1>1. /\ step = "nodes" /\ ended = "no" /\ payloads = <<>> /\ skipped = 0 /\ upserted = 0
      /\ acked \subseteq DOMAIN batch.nodes /\ item \in Nat \ {0} /\ BatchTypes(batch)
      /\ UNCHANGED <<session, ended, facts, failed, batch, payloads, skipped, upserted, plan>>
  BY DEF UpsertNodes, ExportInv, EndInv, PushInv, ExportTypes, AllResolved, pullVars
<1>2. acked' \subseteq DOMAIN batch.nodes
  BY <1>1 DEF UpsertNodes
<1>3. item' \in Nat \ {0} /\ step' \in {"nodes", "resolve"} /\ (step' = "resolve" => item' = 1)
  BY <1>1, ExportConstants DEF UpsertNodes
<1>4. ExportTypes'
  BY <1>1, <1>3 DEF ExportInv, ExportTypes
<1>5. Len(batch.edges) \in Nat
  BY <1>1 DEF BatchTypes
<1>6. PushInv'
  <2>1. payloads' = <<>> /\ Len(payloads') = 0 /\ DOMAIN payloads' = {} /\ skipped' = 0 /\ upserted' = 0
    BY <1>1
  <2>2. step' = "resolve" => Accounted(item - 1)'
    <3>1. ASSUME step' = "resolve" PROVE item' - 1 = 0
      BY <1>3, <3>1
    <3> QED BY <1>1, <1>5, <2>1, <3>1 DEF Accounted
  <2> QED BY <1>1, <1>2, <1>3, <2>1, <2>2 DEF PushInv, From, Pushing, AllResolved
<1>7. PullInv' /\ BuildInv' /\ EndInv'
  BY <1>1, <1>3, PushFrame DEF Pushing
<1> QED BY <1>4, <1>6, <1>7 DEF ExportInv

(* An endpoint resolves to a node the store has, or there is none. *)
LEMMA ResolvesTrue ==
  ASSUME ExportInv, NEW end
  PROVE  /\ Resolve(end) = 0 => NoEnd(batch, acked, end)
         /\ Resolve(end) # 0 => EndIs(batch, acked, Resolve(end), end)
<1> DEFINE match == {i \in acked : AtEnd(batch.nodes[i], end)}
<1>1. batch.nodes \in Seq(NodeSpecs) /\ acked \subseteq DOMAIN batch.nodes
  BY DEF ExportInv, ExportTypes, BatchTypes, PushInv
<1>2. acked \subseteq 1 .. Len(batch.nodes) /\ Len(batch.nodes) \in Nat
  BY <1>1
<1>3. CASE match = {}
  <2>1. Resolve(end) = 0
    BY <1>3 DEF Resolve
  <2>2. NoEnd(batch, acked, end)
    BY <1>3 DEF NoEnd
  <2> QED BY <2>1, <2>2
<1>4. CASE match # {}
  <2> DEFINE T == {n \in Nat : \E i \in match : n = Len(batch.nodes) - i}
  <2>1. PICK m \in match : TRUE
    BY <1>4
  <2>2. Len(batch.nodes) - m \in T
    BY <1>2, <2>1
  <2>3. PICK n \in T : \A y \in T : n <= y
    BY <2>2, LeastNat
  <2>4. PICK i \in match : n = Len(batch.nodes) - i
    BY <2>3
  <2>5. \A j \in match : j <= i
    <3> TAKE j \in match
    <3>1. Len(batch.nodes) - j \in T
      BY <1>2
    <3>2. n <= Len(batch.nodes) - j
      BY <2>3, <3>1
    <3> HIDE DEF T
    <3> QED BY <1>2, <2>4, <3>2
  <2> HIDE DEF T
  <2>6. \E x \in match : \A j \in match : j <= x
    BY <2>5
  <2> DEFINE best == CHOOSE x \in match : \A j \in match : j <= x
  <2>7. best \in match
    BY <2>6
  <2>8. Resolve(end) = best
    BY <1>4 DEF Resolve
  <2>9. best # 0 /\ best \in acked /\ AtEnd(batch.nodes[best], end)
    <3> HIDE DEF best
    <3> QED BY <1>2, <2>7
  <2> HIDE DEF best, match
  <2> QED BY <1>1, <2>8, <2>9 DEF EndIs
<1> QED BY <1>3, <1>4

LEMMA Appended ==
  ASSUME NEW s, Len(s) \in Nat, DOMAIN s = 1 .. Len(s), NEW x, NEW t, t = Append(s, x)
  PROVE  /\ Len(t) = Len(s) + 1 /\ DOMAIN t = 1 .. Len(s) + 1
         /\ t[Len(s) + 1] = x /\ \A i \in 1 .. Len(s) : t[i] = s[i]
OBVIOUS

LEMMA ResolveEdgesKeeps == ExportInv /\ ResolveEdges => ExportInv'
<1> SUFFICES ASSUME ExportInv, ResolveEdges PROVE ExportInv'
  OBVIOUS
<1>1. /\ step = "resolve" /\ ended = "no" /\ upserted = 0 /\ acked \subseteq DOMAIN batch.nodes
      /\ UNCHANGED <<session, ended, facts, failed, batch, acked, upserted, plan>>
  BY DEF ResolveEdges, ExportInv, EndInv, PushInv, AllResolved, pullVars
<1>2. /\ item \in Nat \ {0} /\ skipped \in Nat /\ BatchTypes(batch)
      /\ Len(payloads) \in Nat /\ DOMAIN payloads = 1 .. Len(payloads)
  BY DEF ExportInv, ExportTypes
<1>3. /\ \A i \in DOMAIN payloads : PayloadTrue(batch, acked, payloads[i])
      /\ item - 1 <= Len(batch.edges) /\ Len(payloads) + skipped = item - 1
      /\ \A k \in 1 .. item - 1 : SentOrEndless(batch, acked, payloads, batch.edges[k])
  BY <1>1 DEF ExportInv, PushInv, Accounted
<1>4. Len(batch.edges) \in Nat /\ DOMAIN batch.edges = 1 .. Len(batch.edges)
  BY <1>2 DEF BatchTypes
<1>5. CASE item <= Len(batch.edges)
  <2> DEFINE e == batch.edges[item]
  <2>1. step' = "resolve" /\ item' = item + 1 /\ item' - 1 = item
    BY <1>1, <1>2, <1>4, <1>5 DEF ResolveEdges
  <2>2. HasEdge(batch, e)
    BY <1>2, <1>4, <1>5 DEF HasEdge
  <2>3. /\ Len(payloads') \in Nat /\ DOMAIN payloads' = 1 .. Len(payloads') /\ skipped' \in Nat
        /\ Len(payloads') + skipped' = item
        /\ \A i \in DOMAIN payloads' : PayloadTrue(batch, acked, payloads'[i])
        /\ \A i \in DOMAIN payloads : i \in DOMAIN payloads' /\ payloads'[i] = payloads[i]
        /\ SentOrEndless(batch, acked, payloads', e)
    <3>1. CASE Resolve(e.src) = 0 \/ Resolve(e.dst) = 0
      <4>1. payloads' = payloads /\ skipped' = skipped + 1
        BY <1>2, <1>4, <1>5, <3>1 DEF ResolveEdges
      <4>2. NoEnd(batch, acked, e.src) \/ NoEnd(batch, acked, e.dst)
        BY <3>1, ResolvesTrue
      <4>3. SentOrEndless(batch, acked, payloads', e)
        BY <4>2 DEF SentOrEndless
      <4> HIDE DEF e
      <4>4. Len(payloads') \in Nat /\ DOMAIN payloads' = 1 .. Len(payloads')
        BY ONLY <1>2, <4>1
      <4>5. skipped' \in Nat /\ Len(payloads') + skipped' = item
        <5>1. item \in Nat /\ skipped \in Nat /\ Len(payloads) \in Nat /\ Len(payloads) + skipped = item - 1
          BY ONLY <1>2, <1>3
        <5> QED BY ONLY <5>1, <4>1
      <4>6. \A i \in DOMAIN payloads' : PayloadTrue(batch, acked, payloads'[i])
        BY ONLY <1>3, <4>1
      <4>7. \A i \in DOMAIN payloads : i \in DOMAIN payloads' /\ payloads'[i] = payloads[i]
        BY ONLY <4>1
      <4> QED BY ONLY <4>3, <4>4, <4>5, <4>6, <4>7
    <3>2. CASE ~(Resolve(e.src) = 0 \/ Resolve(e.dst) = 0)
      <4> DEFINE p == [edge |-> e, src |-> Resolve(e.src), dst |-> Resolve(e.dst)]
      <4>1. payloads' = Append(payloads, p) /\ skipped' = skipped
        BY <1>2, <1>4, <1>5, <3>2 DEF ResolveEdges
      <4>2. EndIs(batch, acked, Resolve(e.src), e.src) /\ EndIs(batch, acked, Resolve(e.dst), e.dst)
        BY <3>2, ResolvesTrue
      <4>3. p.edge = e /\ p.src = Resolve(e.src) /\ p.dst = Resolve(e.dst)
        OBVIOUS
      <4> HIDE DEF p, e
      <4>4. PayloadTrue(batch, acked, p)
        BY <2>2, <4>2, <4>3 DEF PayloadTrue
      <4>5. /\ Len(payloads') = Len(payloads) + 1 /\ DOMAIN payloads' = 1 .. Len(payloads) + 1
            /\ payloads'[Len(payloads) + 1] = p /\ \A i \in 1 .. Len(payloads) : payloads'[i] = payloads[i]
        BY ONLY <1>2, <4>1, Appended
      <4>6. SentOrEndless(batch, acked, payloads', e)
        BY <1>2, <4>3, <4>5 DEF SentOrEndless
      <4>7. Len(payloads') \in Nat /\ DOMAIN payloads' = 1 .. Len(payloads')
        BY ONLY <1>2, <4>5
      <4>8. skipped' \in Nat /\ Len(payloads') + skipped' = item
        <5>1. item \in Nat /\ skipped \in Nat /\ Len(payloads) \in Nat /\ Len(payloads) + skipped = item - 1
          BY ONLY <1>2, <1>3
        <5> QED BY ONLY <5>1, <4>1, <4>5
      <4>9. \A i \in 1 .. Len(payloads) : i \in DOMAIN payloads' /\ payloads'[i] = payloads[i]
        BY ONLY <1>2, <4>5
      <4>10. \A i \in DOMAIN payloads' : PayloadTrue(batch, acked, payloads'[i])
        <5>1. \A i \in DOMAIN payloads' : i \in 1 .. Len(payloads) \/ i = Len(payloads) + 1
          BY ONLY <1>2, <4>5
        <5> QED BY ONLY <5>1, <1>2, <1>3, <4>4, <4>5
      <4> QED BY ONLY <1>2, <4>6, <4>7, <4>8, <4>9, <4>10
    <3> QED BY <3>1, <3>2
  <2>4. \A k \in 1 .. item : SentOrEndless(batch, acked, payloads', batch.edges[k])
    <3>1. \A k \in 1 .. item - 1 : SentOrEndless(batch, acked, payloads', batch.edges[k])
      BY <1>3, <2>3 DEF SentOrEndless
    <3> QED BY <1>2, <2>3, <3>1
  <2> HIDE DEF e
  <2>5. Accounted(item - 1)'
    BY ONLY <1>1, <1>5, <2>1, <2>3, <2>4 DEF Accounted
  <2>6. PushInv'
    BY <1>1, <2>1, <2>3, <2>5 DEF PushInv, From, Pushing, AllResolved
  <2>7. ExportTypes'
    BY <1>1, <1>2, <2>1, <2>3 DEF ExportInv, ExportTypes
  <2>8. PullInv' /\ BuildInv' /\ EndInv'
    BY <1>1, <2>1, PushFrame DEF Pushing
  <2> QED BY <2>6, <2>7, <2>8 DEF ExportInv
<1>6. CASE item > Len(batch.edges)
  <2>1. step' = "edges" /\ UNCHANGED <<item, payloads, skipped>>
    BY <1>2, <1>4, <1>6 DEF ResolveEdges
  <2>2. item - 1 = Len(batch.edges)
    BY <1>2, <1>3, <1>4, <1>6
  <2>3. Accounted(Len(batch.edges))'
    BY ONLY <1>1, <1>3, <1>4, <2>1, <2>2 DEF Accounted
  <2>4. PushInv'
    BY <1>1, <1>2, <1>3, <2>1, <2>3 DEF PushInv, From, Pushing, AllResolved
  <2>5. ExportTypes'
    BY <1>1, <2>1 DEF ExportInv, ExportTypes
  <2>6. PullInv' /\ BuildInv' /\ EndInv'
    BY <1>1, <2>1, PushFrame DEF Pushing, AllResolved
  <2> QED BY <2>4, <2>5, <2>6 DEF ExportInv
<1> QED BY <1>2, <1>4, <1>5, <1>6

LEMMA UpsertEdgesKeeps == ASSUME NEW answered, ExportInv, UpsertEdges(answered) PROVE ExportInv'
<1>1. step = "edges" /\ ended = "no" /\ upserted \in Nat /\ upserted <= Len(payloads) /\ Len(payloads) \in Nat
  BY DEF UpsertEdges, ExportInv, ExportTypes, EndInv, PushInv
<1>2. CASE upserted < Len(payloads) /\ answered = "ok"
  <2>1. upserted' \in Nat /\ upserted' <= Len(payloads)
        /\ UNCHANGED <<step, session, ended, facts, failed, batch, item, acked, payloads, skipped, plan>>
    BY <1>1, <1>2, ExportConstants DEF UpsertEdges, pullVars, Abort
  <2>2. ExportTypes'
    BY <2>1 DEF ExportInv, ExportTypes
  <2>3. PushInv'
    BY <1>1, <2>1 DEF ExportInv, PushInv, From, Accounted, Pushing, AllResolved
  <2>4. PullInv' /\ BuildInv' /\ EndInv'
    BY <1>1, <2>1, PushFrame DEF Pushing, AllResolved
  <2> QED BY <2>2, <2>3, <2>4 DEF ExportInv
<1>3. CASE upserted < Len(payloads) /\ answered # "ok"
  BY <1>1, <1>3, AbortKeeps DEF UpsertEdges
<1>4. CASE upserted >= Len(payloads)
  <2>1. /\ (step' = "corpus" /\ ended' = "no") \/ (step' = "close" /\ ended' = "stats")
        /\ UNCHANGED <<session, facts, failed, batch, item, acked, payloads, skipped, upserted, plan>>
    BY <1>1, <1>4 DEF UpsertEdges, pullVars, pushVars
  <2>2. upserted = Len(payloads)
    BY <1>1, <1>4
  <2>3. ExportTypes'
    BY <2>1 DEF ExportInv, ExportTypes
  <2>4. PushInv'
    BY <1>1, <2>1, <2>2 DEF ExportInv, PushInv, From, Accounted, Pushing, AllResolved
  <2>5. PullInv' /\ BuildInv' /\ EndInv'
    BY <1>1, <2>1, PushFrame DEF Pushing, AllResolved
  <2> QED BY <2>3, <2>4, <2>5 DEF ExportInv
<1> QED BY <1>1, <1>2, <1>3, <1>4

LEMMA PushCorpusKeeps == ASSUME NEW answered, ExportInv, PushCorpus(answered) PROVE ExportInv'
<1>1. CASE answered = "ok"
  <2>1. /\ step = "corpus" /\ ended = "no" /\ step' = "close" /\ ended' = "stats"
        /\ UNCHANGED <<session, facts, failed, batch, item, acked, payloads, skipped, upserted, plan>>
    BY <1>1 DEF PushCorpus, ExportInv, EndInv, pullVars, pushVars
  <2>2. ExportTypes'
    BY <2>1 DEF ExportInv, ExportTypes
  <2>3. PushInv'
    BY <2>1 DEF ExportInv, PushInv, From, Accounted, Pushing, AllResolved
  <2>4. PullInv' /\ BuildInv' /\ EndInv'
    BY <2>1, PushFrame DEF Pushing, AllResolved
  <2> QED BY <2>2, <2>3, <2>4 DEF ExportInv
<1>2. CASE answered # "ok"
  BY <1>2, AbortKeeps DEF PushCorpus
<1> QED BY <1>1, <1>2

LEMMA ExportBegins == ExportInit => ExportInv
<1> SUFFICES ASSUME ExportInit PROVE ExportInv
  OBVIOUS
<1>1. step = "create" /\ ended = "no" /\ session = "none" /\ facts = NoFacts /\ batch = NoBatch /\ item = 1
      /\ acked = {} /\ payloads = <<>> /\ skipped = 0 /\ upserted = 0
  BY DEF ExportInit, ExportStart
<1>2. DOMAIN plan = {"flags", "functions", "exports"} /\ plan.functions \in Nat /\ plan.exports \in Nat
  BY ExportConstants DEF ExportInit
<1>3. FactTypes(NoFacts)
  <2>1. \A rows \in Seq(Nat) : StartOf(<<>>, rows)
    <3> TAKE rows \in Seq(Nat)
    <3>1. SubSeq(rows, 1, 0) = <<>> /\ Len(rows) >= 0
      OBVIOUS
    <3> QED BY <3>1 DEF StartOf
  <2> QED BY <2>1, ExportConstants DEF FactTypes, NoFacts
<1>4. BatchTypes(NoBatch)
  BY DEF BatchTypes, NoBatch, Distinct
<1>5. ExportTypes
  BY <1>1, <1>2, <1>3, <1>4 DEF ExportTypes
<1>6. PullInv /\ EndInv /\ BuildInv
  BY <1>1 DEF PullInv, EndInv, BuildInv, From, PastListings, PastFunctions, PastNodes, PastCalls, PastExports,
              Pushing, AllResolved
<1>7. PushInv
  BY <1>1 DEF PushInv, From, Pushing, AllResolved
<1> QED BY <1>5, <1>6, <1>7 DEF ExportInv

LEMMA ExportStep == ExportInv /\ [ExportNext]_exportVars => ExportInv'
<1> SUFFICES ASSUME ExportInv, [ExportNext]_exportVars PROVE ExportInv'
  OBVIOUS
<1>1. CASE BadRow \/ PushFails
  BY <1>1, AbortKeeps DEF BadRow, PushFails
<1>2. CASE AddProgram \/ AddFunctions \/ AddCallNodes \/ AddCalls \/ AddExports \/ AddComments
  BY <1>2, AddProgramKeeps, AddFunctionsKeeps, AddCallNodesKeeps, AddCallsKeeps, AddExportsKeeps, AddCommentsKeeps
<1>3. CASE UpsertNodes \/ ResolveEdges
  BY <1>3, UpsertNodesKeeps, ResolveEdgesKeeps
<1>4. ASSUME NEW answered \in {"ok", "error"},
             \/ Create(answered) \/ ImportAndAnalyze(answered) \/ Close(answered) \/ GatherMetadata(answered)
             \/ GatherFunctions(answered) \/ GatherCallGraph(answered) \/ GatherExports(answered)
             \/ GatherAnnotations(answered) \/ UpsertEdges(answered) \/ PushCorpus(answered)
      PROVE  ExportInv'
  BY <1>4, CreateKeeps, ImportAndAnalyzeKeeps, CloseKeeps, GatherMetadataKeeps, GatherFunctionsKeeps,
     GatherCallGraphKeeps, GatherExportsKeeps, GatherAnnotationsKeeps, UpsertEdgesKeeps, PushCorpusKeeps
<1>5. CASE UNCHANGED exportVars
  <2>1. ExportTypes' /\ PullInv' /\ EndInv'
    BY <1>5 DEF exportVars, ExportInv, ExportTypes, PullInv, EndInv, From
  <2>2. BuildInv'
    BY <1>5 DEF exportVars, ExportInv, BuildInv, From
  <2>3. PushInv'
    BY <1>5 DEF exportVars, ExportInv, PushInv, From, Accounted
  <2> QED BY <2>1, <2>2, <2>3 DEF ExportInv
<1> QED BY <1>1, <1>2, <1>3, <1>4, <1>5 DEF ExportNext

LEMMA ExportInvFaithful == ExportInv => ExportFaithful
<1> SUFFICES ASSUME ExportInv PROVE ExportFaithful
  OBVIOUS
<1>1. \A i \in DOMAIN payloads : PayloadTrue(batch, acked, payloads[i])
  BY DEF ExportInv, PushInv
<1>2. step = "exit" => session # "open"
  BY DEF ExportInv, EndInv
<1>3. ASSUME ended = "stats"
      PROVE  /\ upserted = Len(payloads) /\ upserted + skipped = Len(batch.edges)
             /\ \A k \in DOMAIN batch.edges : SentOrEndless(batch, acked, payloads, batch.edges[k])
  <2>1. Accounted(Len(batch.edges)) /\ upserted = Len(payloads)
    BY <1>3 DEF ExportInv, PushInv, From
  <2>2. DOMAIN batch.edges = 1 .. Len(batch.edges)
    BY DEF ExportInv, ExportTypes, BatchTypes
  <2> QED BY <2>1, <2>2 DEF Accounted
<1>4. ASSUME ended = "stats" PROVE Mapped(batch, facts)
  BY <1>4 DEF ExportInv, BuildInv, From, Mapped
<1>5. Distinct(batch)
  BY DEF ExportInv, ExportTypes, BatchTypes
<1>6. ASSUME ended = "stats"
      PROVE  /\ ListingHonest(facts, failed, "functions", ProgramFunctions, "list_functions")
             /\ ListingHonest(facts, failed, "exports", Exported, "list_exports")
  BY <1>6 DEF ExportInv, PullInv, From
<1> QED BY <1>1, <1>2, <1>3, <1>4, <1>5, <1>6 DEF ExportFaithful

(* Whatever call fails and whatever the store leaves without a key, for    *)
(* every program, page size, cap and chunk size: no edge is fabricated,    *)
(* each is pushed or counted, every fact gathered is in the graph once and *)
(* under the analyst's name, a listing cut short says so, and the session  *)
(* is closed (export_session_and_close, main).                             *)
THEOREM ExportIsFaithful == ExportSpec => []ExportFaithful
<1>1. ExportSpec => []ExportInv
  BY ExportBegins, ExportStep, PTL DEF ExportSpec
<1>2. ExportInv => ExportFaithful
  BY ExportInvFaithful
<1> QED BY <1>1, <1>2, PTL

===============================================================================
