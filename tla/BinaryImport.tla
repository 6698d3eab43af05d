---------------------------- MODULE BinaryImport ----------------------------
(***************************************************************************)
(* session_import, from the request to the opened program: the request's   *)
(* rules (tools/schemas.py), the adapter that resolves, caps and packs it  *)
(* (ghidra/rpc_client.py), and the worker that unwraps the container,      *)
(* opens the program and applies a companion (ghidra/_jvm_bridge.py).      *)
(*                                                                         *)
(* The files of the import root can be rewritten by anyone between the     *)
(* adapter's stat and the worker's read.  Sizes and addresses are small    *)
(* numbers; a digest is the version of the bytes.                          *)
(***************************************************************************)
EXTENDS ImportFormats

CONSTANTS
  SizeCap,        \* max_binary_bytes
  Plausible,      \* plausible_max_bytes(worker_mem_mib)
  MaxOutput,      \* _MAX_DECOMPRESSED_BYTES
  MaxRatio,       \* _MAX_DECOMPRESSION_RATIO
  AddressSpace,   \* 1 << address_bits(processor)
  MaxFile         \* bound: the largest file of the instance

ASSUME ImportConstants ==
  {SizeCap, Plausible, MaxOutput, MaxRatio, AddressSpace, MaxFile} \subseteq Nat \ {0}

VARIABLES
  request,   \* session_import's input
  disk,      \* the files of the import root: [ref -> [size, version, ...]]
  where,     \* how far the import is
  sent,      \* the params of the RPC, as built from the stats
  payload,   \* bytes written to payload.bin, and how many the stream has left
  blocks,    \* the memory blocks of the program
  outcome    \* the reply or the error

importVars == <<request, disk, where, sent, payload, blocks, outcome>>

Absent == "none"

-----------------------------------------------------------------------------
(* The request's rules. *)

Given(field) == request[field] # Absent

SupportedProcessor == request.processor = "supported"

(* RegionSpec: a file of its own, or a slice of the source with both ends. *)
ValidRegion(r) ==
  \/ r.ref # Absent /\ r.offset = <<>> /\ r.length = <<>>
  \/ r.ref = Absent /\ r.offset # <<>> /\ r.length # <<>>

Placed(base, entry) ==
  /\ base < AddressSpace
  /\ entry # <<>> => entry[1] < AddressSpace /\ entry[1] >= base

(* Spans, sorted: no one starts before the one before it ends. *)
NoOverlap(spans) ==
  \E sorted \in Bijection(DOMAIN spans, DOMAIN spans) :
    /\ \A i, j \in DOMAIN spans : i < j =>
         LET a == spans[sorted[i]]
             b == spans[sorted[j]]
         IN a[1] < b[1] \/ (a[1] = b[1] /\ a[2] <= b[2])
    /\ \A i \in 1..Len(spans) - 1 : spans[sorted[i + 1]][1] >= spans[sorted[i]][2]

(* A region with a file of its own has no length yet. *)
KnownApart(regions) ==
  LET known == SelectSeq(regions, LAMBDA r : r.length # <<>>)
  IN NoOverlap([i \in DOMAIN known |-> <<known[i].base, known[i].base + known[i].length[1]>>])

ValidRegions(regions) ==
  /\ request.loader = "binary" /\ request.base = <<>> /\ request.entry = <<>>
  /\ regions # <<>> /\ SupportedProcessor
  /\ \A i \in DOMAIN regions : ValidRegion(regions[i]) /\ Placed(regions[i].base, regions[i].entry)
  /\ KnownApart(regions)

NoHints == request.base = <<>> /\ request.entry = <<>>

(* Mutant: a raw binary may come without its base address. *)
ValidHintsNoBase ==
  CASE request.loader \in {"auto", "dex", "apk", "dyld"} -> NoHints /\ ~Given("processor")
    [] request.loader = "macho" -> NoHints /\ (Given("processor") => SupportedProcessor)
    [] request.loader \in {"intel-hex", "motorola-hex"} -> NoHints /\ SupportedProcessor
    [] request.loader = "binary" -> SupportedProcessor

ValidHints ==
  CASE request.loader \in {"auto", "dex", "apk", "dyld"} -> NoHints /\ ~Given("processor")
    [] request.loader = "macho" -> NoHints /\ (Given("processor") => SupportedProcessor)
    [] request.loader \in {"intel-hex", "motorola-hex"} -> NoHints /\ SupportedProcessor
    [] request.loader = "binary" ->
         SupportedProcessor /\ request.base # <<>> /\ Placed(request.base[1], request.entry)

ValidRequest ==
  /\ Given("pdb") => request.loader = "auto"
  /\ Given("debug") <=> Given("format")
  /\ Given("debug") => request.loader = "auto" /\ ~Given("pdb")
  /\ ~(Given("container") /\ request.regions # <<>>)
  /\ Given("component") => request.loader = "dyld"
  /\ request.loader = "dyld" => request.regions = <<>> /\ ~Given("container")
  /\ IF request.regions # <<>> THEN ValidRegions(request.regions[1]) ELSE ValidHints

Fail(why) ==
  /\ where' = "failed" /\ outcome' = <<[error |-> why]>>
  /\ UNCHANGED <<request, disk, sent, payload, blocks>>

Receive ==
  /\ where = "received"
  /\ IF ValidRequest
     THEN where' = "resolving" /\ UNCHANGED <<request, disk, sent, payload, blocks, outcome>>
     ELSE Fail("validation")

-----------------------------------------------------------------------------
(* The adapter. *)

(* _resolve_and_cap: a file under the import root, not larger than the cap *)
(* and, when the preflight rejects, than the worker's memory allows.       *)
PreflightOk(size) == request.preflight = "reject" => size <= Plausible
ResolvesAndFits(ref) ==
  ref \in DOMAIN disk /\ disk[ref].size <= SizeCap /\ PreflightOk(disk[ref].size)

(* A region with its file, offset and length settled. *)
Resolved(r) ==
  IF r.ref # Absent
  THEN [ref |-> r.ref, offset |-> 0, length |-> disk[r.ref].size, base |-> r.base, entry |-> r.entry]
  ELSE [ref |-> "source", offset |-> r.offset[1], length |-> r.length[1],
        base |-> r.base, entry |-> r.entry]

Bytes(regions) ==
  LET sum[n \in 0..Len(regions)] == IF n = 0 THEN 0 ELSE sum[n - 1] + regions[n].length
  IN sum[Len(regions)]

(* Mutant: the overlap check of the request is trusted, and not repeated   *)
(* for the regions whose length it could not know.                         *)
RegionsFitTrusting(regions, source) ==
  LET sliced == {i \in DOMAIN regions : regions[i].ref = Absent}
      peak   == Bytes([i \in DOMAIN regions |-> Resolved(regions[i])])
                + IF sliced # {} THEN source ELSE 0
  IN /\ \A i \in DOMAIN regions \ sliced : ResolvesAndFits(regions[i].ref)
     /\ \A i \in sliced : regions[i].offset[1] + regions[i].length[1] <= source
     /\ peak <= SizeCap /\ PreflightOk(peak)

(* Each region resolves or is inside the source; together with the source, *)
(* when it is sliced, they fit; their spans do not meet.                   *)
RegionsFit(regions, source) ==
  LET sliced == {i \in DOMAIN regions : regions[i].ref = Absent}
      rs     == [i \in DOMAIN regions |-> Resolved(regions[i])]
      peak   == Bytes(rs) + IF sliced # {} THEN source ELSE 0
  IN /\ \A i \in DOMAIN regions \ sliced : ResolvesAndFits(regions[i].ref)
     /\ \A i \in sliced : regions[i].offset[1] + regions[i].length[1] <= source
     /\ peak <= SizeCap /\ PreflightOk(peak)
     /\ NoOverlap([i \in DOMAIN rs |-> <<rs[i].base, rs[i].base + rs[i].length>>])

(* The keys each loader's params carry. *)
Keys ==
  {"source_ref"}
  \cup (IF request.regions # <<>> THEN {"loader", "processor", "regions"}
        ELSE CASE request.loader = "binary" ->
                    {"loader", "processor"} \cup (IF request.base = <<>> THEN {} ELSE {"base_addr"})
               [] request.loader \in {"intel-hex", "motorola-hex"} -> {"loader", "processor"}
               [] request.loader \in {"dex", "apk"} -> {"loader"}
               [] request.loader = "macho" ->
                    {"loader"} \cup (IF Given("processor") THEN {"processor"} ELSE {})
               [] request.loader = "dyld" ->
                    {"loader"} \cup (IF Given("component") THEN {"dyld_component"} ELSE {})
               [] request.loader = "auto" -> {})
  \cup (IF Given("pdb") THEN {"pdb_ref"} ELSE {})
  \cup (IF Given("debug") THEN {"debug_ref"} ELSE {})
  \cup (IF Given("container") THEN {"container"} ELSE {})

(* import_binary of the adapter: every check, then the RPC. *)
ResolveImport ==
  /\ where = "resolving"
  /\ IF /\ ResolvesAndFits("source")
        /\ request.regions # <<>> => RegionsFit(request.regions[1], disk["source"].size)
        /\ Given("pdb") => ResolvesAndFits(request.pdb)
        /\ Given("debug") => ResolvesAndFits(request.debug)
     THEN /\ sent' = [keys |-> Keys,
                      regions |-> IF request.regions = <<>> THEN <<>>
                                  ELSE [i \in DOMAIN request.regions[1] |-> Resolved(request.regions[1][i])]]
          /\ where' = "sent" /\ UNCHANGED <<request, disk, payload, blocks, outcome>>
     ELSE Fail("refused")

(* Someone rewrites a file, once. *)
Rewrite(ref, size) ==
  /\ where \in {"resolving", "sent"} /\ request.rewritten
  /\ request' = [request EXCEPT !.rewritten = FALSE]
  /\ disk' = [disk EXCEPT ![ref].size = size, ![ref].version = 2]
  /\ UNCHANGED <<where, sent, payload, blocks, outcome>>

-----------------------------------------------------------------------------
(* The worker: the container. *)

Limit == Least(MaxOutput, Most(disk["source"].size, 1) * MaxRatio)

(* The bytes a stream of that codec gives: what it expands to, or, of the  *)
(* legacy lz4 frame, its blocks; nothing when it is malformed.             *)
Stream(image, codec, length) ==
  CASE codec \in {"none", "cpio"} -> <<length>>
    [] codec = "lz4-legacy" ->
         LET b == ParseLegacyFrame(image.word, length)
         IN IF b = <<>> THEN <<>> ELSE <<Len(b[1]) * image.expands>>
    [] OTHER -> <<image.expands>>

UnwrapUimage(image, size, limit) ==
  LET h == ParseUimageHeader(image, limit)
      length == Least(h[1].payload_size, Most(size, HeaderSize) - HeaderSize)
  IN IF h = <<>> \/ size < HeaderSize \/ length = 0 THEN <<>> ELSE Stream(image, h[1].comp, length)

UnwrapAndroidboot(image, size, limit, part) ==
  LET h == ParseAndroidBootHeader(image, limit)
      r == IF part = "ramdisk" THEN h[1].ramdisk ELSE h[1].kernel
      w == Window(r.offset, r.size, size)
      codec == DetectRamdiskCodec(image.head)
  IN IF h = <<>> \/ r.size = 0 \/ w.length = 0 THEN <<>>
     ELSE IF part # "ramdisk" THEN <<w.length>>
     ELSE IF codec = <<>> THEN <<>> ELSE Stream(image, codec[1], w.length)

(* _decompress_container up to its write loop. *)
DecompressContainer ==
  /\ where = "sent" /\ "container" \in sent.keys
  /\ LET image == request.image
         size  == disk["source"].size
         out   == CASE request.container = "uimage" -> UnwrapUimage(image, size, Limit)
                    [] request.container = "androidboot" ->
                         UnwrapAndroidboot(image, size, Limit, request.part)
                    [] OTHER -> Stream(image, request.container, size)
     IN IF out = <<>> THEN Fail("container")
        ELSE /\ payload' = [written |-> 0, left |-> out[1]] /\ where' = "unwrapping"
             /\ UNCHANGED <<request, disk, sent, blocks, outcome>>

(* One chunk: counted, checked, written. *)
StreamToPayload ==
  /\ where = "unwrapping" /\ payload.left > 0
  /\ IF payload.written + 1 > Limit THEN Fail("limit")
     ELSE /\ payload' = [written |-> payload.written + 1, left |-> payload.left - 1]
          /\ UNCHANGED <<request, disk, where, sent, blocks, outcome>>

-----------------------------------------------------------------------------
(* The worker: the program. *)

Unwrapped == where = "unwrapping" /\ payload.left = 0
Ready     == Unwrapped \/ (where = "sent" /\ "container" \notin sent.keys)

Required ==
  IF "regions" \in sent.keys THEN {"processor"}
  ELSE IF "loader" \notin sent.keys THEN {}
  ELSE CASE request.loader = "binary" -> {"processor", "base_addr"}
         [] request.loader \in {"intel-hex", "motorola-hex"} -> {"processor"}
         [] OTHER -> {}

(* The one block of a program that its loader lays out. *)
Whole == <<[from |-> IF request.base = <<>> THEN 0 ELSE request.base[1],
            length |-> IF Unwrapped THEN payload.written ELSE disk["source"].size]>>

Opened(newBlocks) ==
  /\ blocks' = newBlocks
  /\ where' = "answered" /\ outcome' = <<[sha256 |-> disk["source"].version]>>
  /\ UNCHANGED <<request, disk, sent, payload>>

(* A shared cache holds the component asked for, a companion is readable. *)
Findable ==
  /\ request.loader = "dyld" => request.component = "in the cache"
  /\ Given("debug") /\ request.format = "dwarf" => ParseGnuDebuglink(request.elf) # <<>>
  /\ Given("debug") /\ request.format = "map" => ParseSymbolMap(request.lines) # <<>>

(* _gh_import: hash, open; Ghidra may refuse the bytes. *)
OpenProgram(opens) ==
  /\ Ready /\ "regions" \notin sent.keys
  /\ IF ~(Required \subseteq sent.keys) THEN Fail("missing parameter")
     ELSE IF request.loader = "dyld" /\ ~Given("component") THEN Fail("component required")
     ELSE IF opens /\ Findable THEN Opened(Whole)
     ELSE Fail("not found")

(* The bytes a region still has in its file. *)
ReadRegion(r) == Window(r.offset, r.length, disk[r.ref].size).length

(* _gh_import_regions: the blocks are made one by one in a transaction;    *)
(* Ghidra takes no empty block and none past the address space.            *)
ImportRegions(opens) ==
  /\ Ready /\ "regions" \in sent.keys
  /\ LET made == [i \in DOMAIN sent.regions |->
                    [from |-> sent.regions[i].base, length |-> ReadRegion(sent.regions[i])]]
     IN IF ~(Required \subseteq sent.keys) THEN Fail("missing parameter")
        ELSE IF opens /\ \A i \in DOMAIN made : made[i].length > 0 /\ made[i].from + made[i].length <= AddressSpace
        THEN Opened(made) ELSE Fail("not found")

-----------------------------------------------------------------------------
NoImage == [magic |-> FALSE]

Plain == [loader |-> "auto", processor |-> Absent, base |-> <<>>, entry |-> <<>>,
          pdb |-> Absent, debug |-> Absent, format |-> Absent, container |-> Absent,
          part |-> "kernel", component |-> Absent, regions |-> <<>>, pin |-> <<>>,
          image |-> NoImage, elf |-> NoImage, lines |-> <<>>,
          preflight |-> "warn", rewritten |-> FALSE]

Loaders == {"auto", "binary", "intel-hex", "motorola-hex", "dex", "macho", "apk", "dyld"}
Maybe(set) == {<<>>} \cup {<<x>> : x \in set}

(* Requests that differ in their hints. *)
HintRequests ==
  {[Plain EXCEPT !.loader = l, !.processor = p, !.base = b, !.entry = e, !.component = c,
                 !.container = k, !.image = [magic |-> FALSE, expands |-> 1],
                 !.regions = g] :
     l \in Loaders, p \in {Absent, "supported", "unknown"}, b \in Maybe({1, AddressSpace}),
     e \in Maybe({0, 1, AddressSpace}), c \in {Absent, "in the cache", "elsewhere"},
     k \in {Absent, "gzip"},
     g \in {<<>>, <<<<>>>>, <<<<[ref |-> "other", offset |-> <<>>, length |-> <<>>,
                                 base |-> 0, entry |-> <<>>]>>>>}}

(* ... in their companions ... *)
CompanionRequests ==
  LET Section == [debuglink : BOOLEAN, inside : BOOLEAN, name : {"bare", "path"}]
      Elf == [magic : {TRUE}, strndx : 1..2, sections : UNION {[1..n -> Section] : n \in 0..2}]
      Line == Maybe({1, 2})
  IN {[Plain EXCEPT !.loader = l, !.pdb = p, !.debug = d, !.format = f, !.elf = elf, !.lines = ls] :
        l \in {"auto", "dex"}, p \in {Absent, "other"}, d \in {Absent, "other", "nowhere"},
        f \in {Absent, "dwarf"}, elf \in Elf, ls \in {<<>>}}
     \cup {[Plain EXCEPT !.debug = "other", !.format = "map", !.lines = ls] :
             ls \in UNION {[1..n -> Line] : n \in 0..3}}

(* ... in their regions ... *)
RegionRequests ==
  LET Region == [ref : {Absent, "other"}, offset : Maybe(0..1), length : Maybe(1..2),
                 base : 0..AddressSpace, entry : {<<>>}]
      One == [ref : {Absent}, offset : {<<0>>}, length : {<<1>>}, base : 0..2, entry : Maybe(0..2)]
  IN {[Plain EXCEPT !.loader = "binary", !.processor = "supported", !.regions = <<g>>,
                    !.rewritten = TRUE, !.preflight = "reject"] :
        g \in [1..2 -> {r \in Region : ValidRegion(r)}] \cup [{1} -> Region \cup One]}

(* ... and in their container. *)
ContainerRequests ==
  LET Word  == [kind : {"size"}, n : 0..2] \cup [kind : {"magic", "trailer"}, n : {0}]
      Words == [0..5 -> Word]
  IN {[Plain EXCEPT !.container = "gzip", !.image = [magic |-> TRUE, expands |-> n],
                    !.rewritten = TRUE] : n \in 0..MaxOutput + 2}
     \cup {[Plain EXCEPT !.container = "uimage", !.image =
              [magic |-> m, size |-> s, comp |-> c, expands |-> 2]] :
             m \in BOOLEAN, s \in 0..MaxOutput + 1, c \in {"none", "gzip", "bzip2"}}
     \cup {[Plain EXCEPT !.container = "androidboot", !.part = part, !.image =
              [magic |-> TRUE, page |-> p, kernel |-> k, ramdisk |-> r, head |-> h, expands |-> 1,
               word |-> w]] :
             part \in {"kernel", "ramdisk"}, p \in 1..4, k \in 0..3, r \in 0..2,
             h \in {"gzip", "cpio", "zstd"}, w \in {<<>>}}
     \cup {[Plain EXCEPT !.container = "androidboot", !.part = "ramdisk", !.image =
              [magic |-> TRUE, page |-> MinPage, kernel |-> 1, ramdisk |-> Least(6, MaxOutput),
               head |-> "lz4-legacy", expands |-> 2, word |-> w]] : w \in Words}

(* Requests that pin the digest of their source. *)
PinRequests == {[Plain EXCEPT !.pin = <<v>>, !.rewritten = TRUE] : v \in 1..2}

ImportIdle ==
  /\ request = Plain /\ disk = [f \in {"source"} |-> [size |-> 0, version |-> 1]] /\ where = "idle" /\ sent = [keys |-> {}, regions |-> <<>>]
  /\ payload = [written |-> 0, left |-> 0] /\ blocks = <<>> /\ outcome = <<>>

ImportInit ==
  /\ \/ request \in HintRequests \cup CompanionRequests \cup PinRequests
        /\ disk \in [{"source", "other"} -> {[size |-> 1, version |-> 1], [size |-> SizeCap + 1, version |-> 1]}]
     \/ request \in RegionRequests
        /\ disk \in [{"source", "other"} -> [size : {0, 2, 3}, version : {1}]]
     \/ request \in ContainerRequests
        /\ disk \in [{"source"} -> [size : {0, 2, SizeCap}, version : {1}]]
  /\ where = "received" /\ sent = [keys |-> {}, regions |-> <<>>]
  /\ payload = [written |-> 0, left |-> 0] /\ blocks = <<>> /\ outcome = <<>>

ImportNext ==
  \/ Receive \/ ResolveImport \/ DecompressContainer \/ StreamToPayload
  \/ \E ref \in DOMAIN disk, size \in {0, 1, 3, MaxFile} : Rewrite(ref, size)
  \/ \E opens \in BOOLEAN : OpenProgram(opens) \/ ImportRegions(opens)

(* An import of any request, over any files, rewritten to any size. *)
AnyRegion ==
  [ref : STRING, offset : Maybe(Nat), length : Maybe(Nat), base : Nat, entry : Maybe(Nat)]
AnyImage ==
  request.container = "androidboot" =>
    /\ request.image.ramdisk \in Nat
    /\ \E length \in Nat : request.image.word \in [0..length - 1 -> [kind : STRING, n : Nat]]
AnyDisk == "source" \in DOMAIN disk /\ disk \in [DOMAIN disk -> [size : Nat, version : Nat]]

ImportAny ==
  /\ request = [f \in DOMAIN Plain |-> request[f]] /\ request.loader \in Loaders
  /\ request.regions \in Maybe(Seq(AnyRegion)) /\ AnyImage /\ AnyDisk
  /\ where = "received" /\ sent = [keys |-> {}, regions |-> <<>>]
  /\ payload = [written |-> 0, left |-> 0] /\ blocks = <<>> /\ outcome = <<>>

ImportMoves ==
  \/ Receive \/ ResolveImport \/ DecompressContainer \/ StreamToPayload
  \/ \E ref \in DOMAIN disk, size \in Nat : Rewrite(ref, size)
  \/ \E opens \in BOOLEAN : OpenProgram(opens) \/ ImportRegions(opens)

ImportSpec == ImportAny /\ [][ImportMoves]_importVars

-----------------------------------------------------------------------------
(* Blocks no two of which meet, in any order. *)
Disjoint(windows) ==
  \A i, j \in DOMAIN windows : i # j =>
    \/ windows[i].from + windows[i].length <= windows[j].from
    \/ windows[j].from + windows[j].length <= windows[i].from

(* The kernel and the ramdisk of the boot image that is being unwrapped. *)
PartsApart ==
  LET h == ParseAndroidBootHeader(request.image, Limit)[1]
      size == disk["source"].size
  IN Apart(<<Window(h.kernel.offset, h.kernel.size, size),
             Window(h.ramdisk.offset, h.ramdisk.size, size)>>, size)

(* What either reader of archives finds in it. *)
MembersApart ==
  LET length == Cardinality(DOMAIN request.image.word)
      frame  == ParseLegacyFrame(request.image.word, length)
      cpio   == ParseNewcEntries(request.image.word, length)
  IN \A found \in ToSet(frame) \cup ToSet(cpio) :
       Apart(found, length) /\ Len(found) <= MaxMembers

(* What an import puts into the worker stays inside what was granted, even *)
(* when a file is rewritten after the adapter measured it: the regions'    *)
(* blocks do not meet, lie in the address space and together hold no more  *)
(* than the size cap; the unwrapped payload never outgrows its limit; and  *)
(* the parts of a boot image it is cut from, the blocks of a frame and the *)
(* members of an archive stay inside it and do not meet.                   *)
ImportConfined ==
  /\ "regions" \in sent.keys /\ where = "answered" =>
       /\ Disjoint(blocks) /\ Bytes(blocks) <= SizeCap
       /\ \A i \in DOMAIN blocks : blocks[i].from + blocks[i].length <= AddressSpace
  /\ payload.written <= Limit
  /\ where = "unwrapping" /\ request.container = "androidboot" => PartsApart /\ MembersApart

(* A request the schema accepts and the adapter packs never lacks a        *)
(* parameter the worker requires for its loader, and a hint the worker     *)
(* would ignore is refused before it is sent (schemas.py: "fail closed on  *)
(* a contradictory combination").                                          *)
RequestServed ==
  /\ outcome # <<[error |-> "missing parameter"]>>
  /\ where = "sent" =>
       /\ request.entry # <<>> => "base_addr" \in sent.keys
       /\ Given("processor") => "processor" \in sent.keys
       /\ Given("component") => "dyld_component" \in sent.keys
       /\ {"pdb_ref", "debug_ref"} \cap sent.keys # {} => "loader" \notin sent.keys

(* What a request keeps of its validation on its way to the worker.        *)
Coherent ==
  /\ Given("pdb") \/ Given("debug") => request.loader = "auto"
  /\ Given("component") => request.loader = "dyld"
  /\ request.loader = "dyld" => request.regions = <<>>
  /\ request.regions # <<>> => NoHints /\ request.loader = "binary" /\ SupportedProcessor
  /\ request.regions = <<>> => ValidHints

ImportInv ==
  /\ request = [f \in DOMAIN Plain |-> request[f]] /\ request.loader \in Loaders
  /\ where \in {"resolving", "sent", "unwrapping"} => Coherent
  /\ where \in {"sent", "unwrapping"} => sent.keys = Keys
  /\ outcome # <<[error |-> "missing parameter"]>>

(* What the adapter sends of regions: bytes of files it knows, that fit     *)
(* together and meet nowhere, whatever becomes of the files.               *)
GrantedRegion ==
  [ref : DOMAIN disk, offset : Nat, length : Nat, base : Nat, entry : Maybe(Nat)]
Granted(regions) ==
  /\ regions \in Seq(GrantedRegion)
  /\ Disjoint([i \in DOMAIN regions |-> [from |-> regions[i].base, length |-> regions[i].length]])
  /\ Bytes(regions) <= SizeCap

ConfinedInv ==
  /\ request.regions \in Maybe(Seq(AnyRegion)) /\ AnyImage /\ AnyDisk
  /\ where = "resolving" /\ request.regions # <<>> =>
       \A i \in DOMAIN request.regions[1] : ValidRegion(request.regions[1][i])
  /\ where \in {"received", "resolving"} => sent.keys = {}
  /\ "regions" \in sent.keys => Granted(sent.regions)
  /\ payload.written \in Nat /\ payload.written <= Limit
  /\ where \in {"received", "resolving", "sent"} => payload.written = 0
  /\ where = "unwrapping" /\ request.container = "androidboot" =>
       ParseAndroidBootHeader(request.image, Limit) # <<>>
  /\ "regions" \in sent.keys /\ where = "answered" =>
       /\ Disjoint(blocks) /\ Bytes(blocks) <= SizeCap
       /\ \A i \in DOMAIN blocks : blocks[i].from + blocks[i].length <= AddressSpace

(* "Optional client-asserted digest; the server verifies the actual bytes  *)
(* match (integrity / wrong-file guard)" (schemas.py, SessionImportIn): an *)
(* import that answers imported what the request pinned.                   *)
PinHonoured ==
  where = "answered" /\ request.pin # <<>> => outcome = <<[sha256 |-> request.pin[1]]>>

=============================================================================
