------------------------------ MODULE ReadTools ------------------------------
(***************************************************************************)
(* The read tools of a session, from the client that walks their pages     *)
(* down to the worker: the guard and the argument checks of the handlers   *)
(* (tools/registry.py), the adapter's relays and scans (ghidra/            *)
(* rpc_client.py), the worker's allow-list (worker/dispatch.py) and the    *)
(* bounded loops over the program (ghidra/_jvm_bridge.py).                 *)
(*                                                                         *)
(* A program is a set of listings; an item knows whether the call's        *)
(* filter, pattern or detector takes it.  What a row shows of an item is   *)
(* left out.                                                               *)
(***************************************************************************)
EXTENDS Naturals, Sequences, FiniteSets, SequencesExt

CONSTANTS
  MaxResults,     \* _MAX_RESULT_COUNT: the worker's cap on a page
  StringBudget,   \* the budgets of the scans over strings and symbols
  MatchBudget,    \* _CRYPTO_MATCH_BUDGET, below the worker's cap
  IdentifyBudget, \* _IDENTIFY_MATCH_BUDGET, the worker's cap
  MaxBlocks,      \* _SECRET_MAGIC_MAX_BLOCKS
  MaxOps,         \* a call's max_instructions, max_ops, max_blocks
  MaxRead,        \* _MAX_READ_BYTES: the worker's cap on a read
  ReadLength,     \* a read's length: the schema's cap is the worker's
  MaxItems        \* bound: items in a listing

ASSUME ReadConstants ==
  /\ {MaxResults, StringBudget, MatchBudget, IdentifyBudget, MaxBlocks, MaxOps, MaxRead,
       ReadLength, MaxItems} \subseteq Nat \ {0}
  /\ StringBudget <= MaxResults /\ MatchBudget < MaxResults /\ IdentifyBudget <= MaxResults
  /\ MaxOps <= MaxResults /\ ReadLength <= MaxRead

VARIABLES
  imported,  \* the session's worker_started
  tool,      \* the tool the client has called
  arg,       \* its name, address or pattern: see Args
  program,   \* the listings of the session's program
  fault,     \* an RPC method that fails in this walk, and how
  page,      \* offset and limit of the next request
  got,       \* the rows the client has been given
  reply      \* the last reply

readVars == <<imported, tool, arg, program, fault, page, got, reply>>

(* The items at those places, in their order. *)
Picked(items, places) ==
  LET picked[n \in 0..Len(items)] ==
        IF n = 0 THEN <<>>
        ELSE IF n \in places THEN Append(picked[n - 1], items[n]) ELSE picked[n - 1]
  IN picked[Len(items)]

Kept(items) == Picked(items, {i \in DOMAIN items : items[i].hit})

None == [kind |-> "none", rows |-> <<>>, total |-> 0, truncated |-> FALSE]

Answer(rows, total, truncated) ==
  [kind |-> "ok", rows |-> rows, total |-> total, truncated |-> truncated]

Failed(why) == [None EXCEPT !.kind = why]

-----------------------------------------------------------------------------
(* The worker's loops. *)

Lesser(a, b) == IF a < b THEN a ELSE b
Greater(a, b) == IF a > b THEN a ELSE b

ClampCount(n) == Greater(1, Lesser(n, MaxResults))

Cut(items, n) == SubSeq(items, 1, Lesser(n, Len(items)))

ClampRead(n) == Greater(1, Lesser(n, MaxRead))

Clamped(method, a) ==
  [a EXCEPT !.limit = IF method = "read_bytes" THEN ClampRead(@) ELSE ClampCount(@)]

(* Mutant: a page that is full says so at its last row. *)
ListedEager(items, a) ==
  LET step(acc, x) ==
        IF acc.total < a.offset \/ Len(acc.rows) >= a.limit
        THEN [acc EXCEPT !.total = @ + 1]
        ELSE [acc EXCEPT !.total = @ + 1, !.rows = Append(@, x)]
  IN FoldLeft(step, Answer(<<>>, 0, FALSE), items)

(* The loop of every paged listing: count all, keep those of the page, say *)
(* truncated for the first one past it.                                    *)
ListItem(acc, x, a) ==
  IF acc.total < a.offset THEN [acc EXCEPT !.total = @ + 1]
  ELSE IF Len(acc.rows) >= a.limit THEN [acc EXCEPT !.total = @ + 1, !.truncated = TRUE]
  ELSE [acc EXCEPT !.total = @ + 1, !.rows = Append(@, x)]

Listed(items, a) ==
  LET listed[n \in 0..Len(items)] ==
        IF n = 0 THEN Answer(<<>>, 0, FALSE) ELSE ListItem(listed[n - 1], items[n], a)
  IN listed[Len(items)]

(* items[offset : offset + limit] *)
Slice(items, a) == SubSeq(items, a.offset + 1, Lesser(a.offset + a.limit, Len(items)))

Sliced(items, a) == Answer(Slice(items, a), Len(items), a.offset + a.limit < Len(items))

(* The loop of a capped walk: stop at the first item past the cap. *)
Capped(items, cap) == Answer(Cut(items, cap), Len(items), Len(items) > cap)

GhListFunctions(p, a) == Listed(Kept(p.functions), a)
GhXrefs(p, a)         == Listed(p.references, a)
GhListStrings(p, a)   == Listed(p.strings, a)
GhListSymbols(p, a)   == Listed(Kept(p.symbols), a)
GhListData(p, a)      == Listed(p.data, a)
GhListDataTypes(p, a) == Listed(Kept(p.types), a)
GhGetComments(p, a)   == Listed(p.comments, a)
GhSearchStrings(p, a) == Listed(Kept(p.strings), a)
GhImports(p, a)       == Listed(p.imports, a)
GhExports(p, a)       == Listed(p.exports, a)

(* The search ends at the cap, and what lies past it is not counted. *)
GhSearchBytes(p, a) ==
  Listed(Cut(Kept(p.matches), MaxResults), a)

GhRamdiskList(p, a)         == Sliced(p.members, a)
GhListCacheComponents(p, a) == Sliced(p.components, a)

GhDisassemble(p, a)        == Capped(p.instructions, a.limit)
GhGetPcode(p, a)           == Capped(p.instructions, a.limit)
GhGetHighPcode(p, a)       == Capped(p.instructions, a.limit)
GhBasicBlocks(p, a)        == Capped(p.instructions, a.limit)
GhReferencedStrings(p, a)  == Capped(Kept(p.strings), a.limit)
GhCryptoInstructions(p, a) == Capped(Kept(p.opcodes), a.limit)

(* A full list of matches is called truncated, also when it is complete. *)
GhIdentifyFunctions(p, a) ==
  [Capped(p.identified, a.limit) EXCEPT !.truncated = Len(p.identified) >= a.limit]

GhMemoryMap(p, a) == Answer(p.blocks, Len(p.blocks), FALSE)
GhStackFrame(p, a) == Answer(p.slots, Len(p.slots), FALSE)

(* Tools about one thing: what they say of it is one row. *)
GhDecompile(p, a)          == Answer(p.subject, 1, FALSE)
GhGetFunction(p, a)        == Answer(p.subject, 1, FALSE)
GhGetSymbol(p, a)          == Answer(p.subject, 1, FALSE)
GhGetDataType(p, a)        == Answer(p.subject, 1, FALSE)
GhFunctionHash(p, a)       == Answer(p.subject, 1, FALSE)
GhBsimSimilarity(p, a)     == Answer(p.subject, 1, FALSE)
GhProgramFingerprint(p, a) == Answer(p.subject, 1, FALSE)
GhProgramMetadata(p, a)    == Answer(p.subject, 1, FALSE)
GhCoverage(p, a)           == Answer(p.subject, 1, FALSE)
GhDemangle(p, a)           == Answer(p.subject, 1, FALSE)

(* _get_bytes: the bytes up to the first one that cannot be read. *)
GhReadBytes(p, a) ==
  LET bad  == {i \in DOMAIN p.bytes : ~p.bytes[i].initialized}
      read == IF bad = {} THEN Len(p.bytes) ELSE (CHOOSE i \in bad : \A j \in bad : i <= j) - 1
  IN Answer(Cut(p.bytes, Lesser(read, a.limit)), Lesser(read, a.limit), read < a.limit)

(* Methods that resolve a function, a symbol, a type or an address first;  *)
(* a name the program does not have is not found.                          *)
Resolving ==
  {"xrefs_to", "xrefs_from", "disassemble", "get_pcode", "get_high_pcode", "basic_blocks",
   "referenced_strings", "stack_frame", "decompile_function", "get_function", "get_symbol",
   "get_data_type", "function_hash", "bsim_similarity"}

(* The allow-list.  ramdisk_list and list_cache_components are missing.    *)
RpcMethods ==
  Resolving \cup
  {"list_functions", "list_strings", "list_symbols", "list_data", "list_data_types",
   "get_comments", "search_bytes", "search_strings", "imports", "exports",
   "crypto_instructions", "identify_functions", "memory_map", "read_bytes",
   "program_fingerprint", "program_metadata", "coverage", "demangle"}

(* The backend's method of a request. *)
Backend(method, p, a) ==
  CASE method = "list_functions"      -> GhListFunctions(p, a)
    [] method \in {"xrefs_to", "xrefs_from"} -> GhXrefs(p, a)
    [] method = "list_strings"        -> GhListStrings(p, a)
    [] method = "list_symbols"        -> GhListSymbols(p, a)
    [] method = "list_data"           -> GhListData(p, a)
    [] method = "list_data_types"     -> GhListDataTypes(p, a)
    [] method = "get_comments"        -> GhGetComments(p, a)
    [] method = "search_bytes"        -> GhSearchBytes(p, a)
    [] method = "search_strings"      -> GhSearchStrings(p, a)
    [] method = "imports"             -> GhImports(p, a)
    [] method = "exports"             -> GhExports(p, a)
    [] method = "ramdisk_list"        -> GhRamdiskList(p, a)
    [] method = "list_cache_components" -> GhListCacheComponents(p, a)
    [] method = "disassemble"         -> GhDisassemble(p, a)
    [] method = "get_pcode"           -> GhGetPcode(p, a)
    [] method = "get_high_pcode"      -> GhGetHighPcode(p, a)
    [] method = "basic_blocks"        -> GhBasicBlocks(p, a)
    [] method = "referenced_strings"  -> GhReferencedStrings(p, a)
    [] method = "crypto_instructions" -> GhCryptoInstructions(p, a)
    [] method = "identify_functions"  -> GhIdentifyFunctions(p, a)
    [] method = "memory_map"          -> GhMemoryMap(p, a)
    [] method = "stack_frame"         -> GhStackFrame(p, a)
    [] method = "read_bytes"          -> GhReadBytes(p, a)
    [] method = "decompile_function"  -> GhDecompile(p, a)
    [] method = "get_function"        -> GhGetFunction(p, a)
    [] method = "get_symbol"          -> GhGetSymbol(p, a)
    [] method = "get_data_type"       -> GhGetDataType(p, a)
    [] method = "function_hash"       -> GhFunctionHash(p, a)
    [] method = "bsim_similarity"     -> GhBsimSimilarity(p, a)
    [] method = "program_fingerprint" -> GhProgramFingerprint(p, a)
    [] method = "program_metadata"    -> GhProgramMetadata(p, a)
    [] method = "coverage"            -> GhCoverage(p, a)
    [] method = "demangle"            -> GhDemangle(p, a)

(* handle_request: the allow-list, then the backend. *)
Request(method, a) ==
  IF method \notin RpcMethods THEN Failed("unknown_method")
  ELSE IF fault.method = method /\ fault.kind = "down" THEN Failed("worker_unavailable")
  ELSE IF method \in Resolving /\ arg = "unknown" THEN Failed("not_found")
  ELSE IF fault.method = method /\ fault.kind = "raises" THEN Failed("analysis_failed")
  ELSE Backend(method, program, Clamped(method, a))

-----------------------------------------------------------------------------
(* The adapter rebuilds a reply field by field: a row or a reply without   *)
(* one of its keys fails the call, never only that row.                    *)
FailClosed(method, raw, needs) ==
  IF raw.kind = "ok" /\ fault.method = method /\ fault.kind \in needs
     /\ (fault.kind = "row" => raw.rows # <<>>)
  THEN Failed("worker_unavailable")
  ELSE raw

(* The builders of the code tools have no required key beside their rows', *)
(* those of the listings need the total.                                   *)
BuildCode(method, raw)    == FailClosed(method, raw, {"row"})
BuildListing(method, raw) == FailClosed(method, raw, {"row", "key"})
BuildSearch(method, raw)  == FailClosed(method, raw, {"row", "key"})
BuildSymbols(method, raw) == FailClosed(method, raw, {"row", "key"})
BuildSingle(method, raw)  == FailClosed(method, raw, {"row", "key"})

(* One RPC behind most tools: tool |-> method. *)
CodeTools ==
  [disassemble |-> "disassemble", get_pcode |-> "get_pcode",
   get_high_pcode |-> "get_high_pcode", basic_blocks |-> "basic_blocks"]

ListingTools ==
  [list_functions |-> "list_functions", xrefs_to |-> "xrefs_to", xrefs_from |-> "xrefs_from",
   list_strings |-> "list_strings", ramdisk_list |-> "ramdisk_list",
   list_cache_components |-> "list_cache_components", list_symbols |-> "list_symbols",
   list_data |-> "list_data", get_comments |-> "get_comments"]

SearchTools ==
  [list_data_types |-> "list_data_types", search_bytes |-> "search_bytes",
   search_strings |-> "search_strings"]

SymbolTools == [list_imports |-> "imports", list_exports |-> "exports"]

SingleTools ==
  [m \in {"decompile_function", "stack_frame", "function_hash", "program_fingerprint",
          "bsim_similarity", "get_function", "get_symbol", "get_data_type", "memory_map",
          "read_bytes", "demangle", "program_metadata", "coverage"} |-> m]

(* What a call that is not paged asks for at most. *)
AtOnce == [offset |-> 0, limit |-> IF tool = "read_bytes" THEN ReadLength ELSE MaxOps]

Wide == [offset |-> 0, limit |-> StringBudget]

(* A scan over the replies of several RPCs, any of which may fail it: all  *)
(* their hits, a page of them, and whether a source or the page was cut.   *)
Hits(sources) == Kept(FlattenSeq([i \in DOMAIN sources |-> sources[i].rows]))
Scan(sources) ==
  IF \E i \in DOMAIN sources : sources[i].kind # "ok"
  THEN sources[CHOOSE i \in DOMAIN sources : sources[i].kind # "ok"]
  ELSE [Sliced(Hits(sources), page) EXCEPT
          !.truncated = @ \/ \E i \in DOMAIN sources : sources[i].truncated]

Strings == BuildListing("list_strings", Request("list_strings", Wide))
Imports == BuildSymbols("imports", Request("imports", Wide))

(* What each scan reads. *)
IocScan == <<Strings>>

CryptoConstantScan ==
  <<BuildSearch("search_bytes", Request("search_bytes", [offset |-> 0, limit |-> MatchBudget]))>>

CryptoDetect == <<Imports, Strings, Request("crypto_instructions", Wide)>>

CapabilityScan == <<Imports, BuildSymbols("exports", Request("exports", Wide)), Strings>>

(* The heads of the initialized blocks, up to a number of them. *)
SecretByteMagic ==
  LET blocks == BuildSingle("memory_map", Request("memory_map", Wide))
      live   == Picked(blocks.rows, {i \in DOMAIN blocks.rows : blocks.rows[i].initialized})
  IN IF blocks.kind # "ok" THEN blocks
     ELSE Answer(Cut(live, MaxBlocks), Len(live), Len(live) > MaxBlocks)

SecretScan == <<Strings, SecretByteMagic>>

ScanTools == {"ioc_scan", "crypto_constant_scan", "crypto_detect", "capability_scan", "secret_scan"}

ScanSources ==
  CASE tool = "ioc_scan"             -> IocScan
    [] tool = "crypto_constant_scan" -> CryptoConstantScan
    [] tool = "crypto_detect"        -> CryptoDetect
    [] tool = "capability_scan"      -> CapabilityScan
    [] tool = "secret_scan"          -> SecretScan

IdentifyFunctions ==
  LET found == BuildSearch("identify_functions",
                 Request("identify_functions", [offset |-> 0, limit |-> IdentifyBudget]))
  IN IF found.kind # "ok" THEN found
     ELSE LET bounded == Cut(found.rows, page.limit)
          IN Answer(bounded, Len(bounded), found.truncated \/ Len(found.rows) > page.limit)

Port ==
  IF tool \in DOMAIN ListingTools
  THEN BuildListing(ListingTools[tool], Request(ListingTools[tool], page))
  ELSE IF tool \in DOMAIN SearchTools
  THEN BuildSearch(SearchTools[tool], Request(SearchTools[tool], page))
  ELSE IF tool \in DOMAIN SymbolTools
  THEN BuildSymbols(SymbolTools[tool], Request(SymbolTools[tool], page))
  ELSE IF tool \in DOMAIN CodeTools
  THEN BuildCode(CodeTools[tool], Request(CodeTools[tool], AtOnce))
  ELSE IF tool \in DOMAIN SingleTools
  THEN BuildSingle(tool, Request(tool, AtOnce))
  ELSE IF tool \in ScanTools THEN Scan(ScanSources)
  ELSE IdentifyFunctions

Paged == DOMAIN ListingTools \cup DOMAIN SearchTools \cup DOMAIN SymbolTools \cup ScanTools
Tools == Paged \cup DOMAIN CodeTools \cup DOMAIN SingleTools \cup {"identify_functions"}

-----------------------------------------------------------------------------
(* The handlers: what each does with its name, address or pattern.         *)
CodeHandlers ==
  [decompile_function |-> "name", disassemble |-> "name", get_pcode |-> "name",
   get_high_pcode |-> "name", stack_frame |-> "name", basic_blocks |-> "name",
   list_data_types |-> "filter", function_hash |-> "name", program_fingerprint |-> "none",
   bsim_similarity |-> "name", list_functions |-> "filter", get_function |-> "name"]

DataHandlers ==
  [xrefs_to |-> "name", xrefs_from |-> "name", list_strings |-> "none",
   ramdisk_list |-> "none", list_cache_components |-> "none", list_symbols |-> "filter",
   get_symbol |-> "name", list_data |-> "none", get_data_type |-> "name",
   get_comments |-> "filter", memory_map |-> "none", read_bytes |-> "pattern",
   demangle |-> "pattern", search_bytes |-> "pattern", search_strings |-> "pattern"]

ScanHandlers ==
  [program_metadata |-> "none", list_imports |-> "none", list_exports |-> "none",
   coverage |-> "none", ioc_scan |-> "none", crypto_constant_scan |-> "none",
   crypto_detect |-> "none", capability_scan |-> "none", secret_scan |-> "none",
   identify_functions |-> "none"]

Takes(t) ==
  IF t \in DOMAIN CodeHandlers THEN CodeHandlers[t]
  ELSE IF t \in DOMAIN DataHandlers THEN DataHandlers[t] ELSE ScanHandlers[t]

(* A filter may be left out; a name may be of nothing in the program. *)
Args(t) ==
  CASE Takes(t) = "none"    -> {"good"}
    [] Takes(t) = "filter"  -> {"good", "bad", "absent"}
    [] Takes(t) = "pattern" -> {"good", "bad"}
    [] Takes(t) = "name"    -> {"good", "bad", "unknown", "absent"}

(* The dispatch guard, then the handler's checks, then the port. *)
Handle ==
  IF ~imported THEN Failed("failed_precondition")
  ELSE IF arg = "bad" \/ (arg = "absent" /\ Takes(tool) = "name") THEN Failed("validation")
  ELSE Port

ToolCall ==
  /\ reply = None
  /\ reply' = Handle
  /\ got' = got \o Handle.rows
  /\ UNCHANGED <<imported, tool, arg, program, fault, page>>

(* The client asks for the next page while it is told there is more and    *)
(* is given some.                                                          *)
NextPage ==
  /\ tool \in Paged
  /\ reply.kind = "ok" /\ reply.truncated /\ reply.rows # <<>>
  /\ page' = [page EXCEPT !.offset = @ + page.limit]
  /\ reply' = None
  /\ UNCHANGED <<imported, tool, arg, program, fault, got>>

(* The binary is imported while the client is at it. *)
Import ==
  /\ ~imported /\ imported' = TRUE
  /\ reply.kind = "failed_precondition" /\ reply' = None
  /\ UNCHANGED <<tool, arg, program, fault, page, got>>

ReadNext == ToolCall \/ NextPage \/ Import

-----------------------------------------------------------------------------
(* The kinds of item a tool reads, in the order it reads them. *)
Sources(t) ==
  CASE t = "list_functions" -> <<"functions">>
    [] t \in {"xrefs_to", "xrefs_from"} -> <<"references">>
    [] t \in {"list_strings", "search_strings", "ioc_scan"} -> <<"strings">>
    [] t = "ramdisk_list" -> <<"members">>
    [] t = "list_cache_components" -> <<"components">>
    [] t = "list_symbols" -> <<"symbols">>
    [] t = "list_data" -> <<"data">>
    [] t = "get_comments" -> <<"comments">>
    [] t = "list_data_types" -> <<"types">>
    [] t \in {"search_bytes", "crypto_constant_scan"} -> <<"matches">>
    [] t = "list_imports" -> <<"imports">>
    [] t = "list_exports" -> <<"exports">>
    [] t \in DOMAIN CodeTools -> <<"instructions">>
    [] t = "crypto_detect" -> <<"imports", "strings", "opcodes">>
    [] t = "capability_scan" -> <<"imports", "exports", "strings">>
    [] t = "secret_scan" -> <<"strings", "blocks">>
    [] t = "identify_functions" -> <<"identified">>
    [] t = "memory_map" -> <<"blocks">>
    [] t = "stack_frame" -> <<"slots">>
    [] t = "read_bytes" -> <<"bytes">>
    [] OTHER -> <<"subject">>

Methods(t) ==
  IF t \in DOMAIN ListingTools THEN {ListingTools[t]}
  ELSE IF t \in DOMAIN SearchTools THEN {SearchTools[t]}
  ELSE IF t \in DOMAIN SymbolTools THEN {SymbolTools[t]}
  ELSE IF t \in DOMAIN CodeTools THEN {CodeTools[t]}
  ELSE IF t \in DOMAIN SingleTools THEN {t}
  ELSE {"imports", "list_strings"}

(* A listing of up to max items, each taken or not by the call's filter. *)
Listings(max) ==
  UNION { { [i \in 1..n |-> i \notin missed] : missed \in SUBSET (1..n) } : n \in 0..max }

(* An item: what it is, and whether its bytes are there. *)
Items(kind, listing) ==
  [i \in DOMAIN listing |-> [kind |-> kind, n |-> i, hit |-> listing[i],
                             initialized |-> listing[i]]]

ReadInit ==
  /\ tool \in Tools
  /\ imported \in BOOLEAN
  /\ arg \in Args(tool)
  /\ \E f \in [ToSet(Sources(tool)) ->
                  IF Sources(tool) = <<"subject">> THEN {<<TRUE>>} ELSE Listings(MaxItems)] :
       program = [k \in DOMAIN f |-> Items(k, f[k])]
  /\ fault \in {[method |-> "none", kind |-> "none"]}
              \cup [method : Methods(tool), kind : {"down", "raises", "row", "key"}]
  /\ \E n \in IF tool \in Paged THEN 1..MaxResults ELSE {1} : page = [offset |-> 0, limit |-> n]
  /\ got = <<>> /\ reply = None

ReadIdle ==
  /\ tool = "none" /\ imported = FALSE /\ arg = "good" /\ program = <<>>
  /\ fault = [method |-> "none", kind |-> "none"] /\ page = [offset |-> 0, limit |-> 1]
  /\ got = <<>> /\ reply = None

(* An item has a place in its listing; what a scan finds in a block is in  *)
(* its bytes.                                                              *)
Item ==
  [kind : UNION {ToSet(Sources(t)) : t \in Tools}, n : Nat, hit : BOOLEAN, initialized : BOOLEAN]

AnyProgram ==
  /\ program = [k \in ToSet(Sources(tool)) |-> program[k]]
  /\ \A k \in ToSet(Sources(tool)) :
       /\ program[k] \in Seq(Item)
       /\ \A i \in DOMAIN program[k] :
            /\ program[k][i].kind = k /\ program[k][i].n = i
            /\ k = "blocks" /\ program[k][i].hit => program[k][i].initialized

AnyMethod == {"none"} \cup RpcMethods \cup UNION {Methods(t) : t \in Tools}

(* A call of any tool on any program, whatever fails in it.                *)
ReadAny ==
  /\ tool \in Tools /\ imported \in BOOLEAN /\ arg \in Args(tool) /\ AnyProgram
  /\ fault \in [method : AnyMethod, kind : {"none", "down", "raises", "row", "key"}]
  /\ page \in [offset : {0}, limit : 1..MaxResults]
  /\ got = <<>> /\ reply = None

ReadSpec == ReadAny /\ [][ReadNext]_readVars

-----------------------------------------------------------------------------
(* What the program holds for the call. *)
Filtered == ScanTools \cup {"list_functions", "list_symbols", "list_data_types", "search_strings",
                            "search_bytes"}

Wanted ==
  LET all == FlattenSeq([i \in DOMAIN Sources(tool) |-> program[Sources(tool)[i]]])
  IN IF tool \in Filtered THEN Kept(all)
     ELSE IF tool = "read_bytes" THEN Cut(all, ReadLength)
     ELSE all

(* An answer is never a wrong one.  A client that walks the pages of a     *)
(* listing or a scan is given the items of the program in their order,     *)
(* each once; when a reply does not say truncated, it has them all, for    *)
(* one-shot tools too, whatever method failed or answered badly on the     *)
(* way.  One exception: a byte search ends silently at its cap.            *)
AnswersAreHonest ==
  reply.kind = "ok" =>
    /\ arg \in {"good", "absent"}
    /\ IsInjective(got) /\ ToSet(got) \subseteq ToSet(Wanted)
    /\ \A i, j \in DOMAIN got : i < j =>
         (CHOOSE k \in DOMAIN Wanted : Wanted[k] = got[i]) < (CHOOSE k \in DOMAIN Wanted : Wanted[k] = got[j])
    /\ ~reply.truncated =>
         \/ got = Wanted
         \/ tool = "search_bytes" /\ Len(got) = MaxResults

(* What the pages of a walk are cut from: of a scan, the hits in what its  *)
(* sources gave.                                                           *)
Found ==
  IF tool \in ScanTools THEN Hits(ScanSources)
  ELSE IF tool = "search_bytes" THEN Cut(Wanted, MaxResults)
  ELSE Wanted

ReadTyped ==
  /\ tool \in Tools /\ arg \in Args(tool) /\ AnyProgram
  /\ fault \in [method : AnyMethod, kind : {"none", "down", "raises", "row", "key"}]
  /\ page \in [offset : Nat, limit : 1..MaxResults]

(* A walk has been given the pages up to where it stands, whatever calls   *)
(* failed; an answer that is not truncated was the last it needed.         *)
ReadInv ==
  /\ ReadTyped
  /\ \E n \in 0..Len(Found) : got = Cut(Found, n)
  /\ tool \in Paged =>
       got = Cut(Found, page.offset + IF reply.kind = "ok" THEN page.limit ELSE 0)
  /\ reply.kind # "ok" /\ tool \notin Paged => got = <<>>
  /\ reply.kind = "ok" => arg \in {"good", "absent"}
  /\ reply.kind = "ok" /\ ~reply.truncated =>
       got = Wanted \/ (tool = "search_bytes" /\ Len(got) = MaxResults)

=============================================================================
