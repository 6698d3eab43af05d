--------------------------- MODULE ImportFormats ---------------------------
(***************************************************************************)
(* The readers of foreign formats that run on imported bytes: the uImage   *)
(* and Android boot headers, the legacy lz4 frame, the cpio archive, the   *)
(* .gnu_debuglink section and the linker map (core/uimage.py,              *)
(* androidboot.py, lz4legacy.py, cpio.py, debuglink.py, debugmap.py).      *)
(*                                                                         *)
(* Bytes are counted, not read: a header is the record of its fields, a    *)
(* buffer is its length and what its length fields say at each position.   *)
(* A reader returns a sequence of one result, or the empty sequence where  *)
(* the code raises or returns None.                                        *)
(***************************************************************************)
EXTENDS Naturals, Sequences, FiniteSets, SequencesExt

CONSTANTS
  HeaderSize,   \* UIMAGE_HEADER_SIZE
  MinPage,      \* _MIN_PAGE_SIZE
  MaxPage,      \* _MAX_PAGE_SIZE
  MaxMembers,   \* max_blocks, max_entries, max_symbols, _MAX_SECTIONS
  Field         \* the bytes of a length field, and of an archive member's header

ASSUME FormatConstants ==
  /\ {HeaderSize, MinPage, MaxPage, MaxMembers, Field} \subseteq Nat \ {0}
  /\ MinPage <= MaxPage

Least(a, b) == IF a < b THEN a ELSE b
Most(a, b)  == IF a > b THEN a ELSE b

(* The part of [offset, offset + size) that a file of that length holds. *)
Window(offset, size, length) ==
  LET start == Least(offset, length)
  IN [from |-> start, length |-> Most(Least(offset + size, length), start) - start]

-----------------------------------------------------------------------------
(* Boot images. *)

(* comp is a code; 0, 1 and 3 are none, gzip and lzma. *)
ParseUimageHeader(h, limit) ==
  IF h.magic /\ h.size \in 1..limit /\ h.comp \in {"none", "gzip", "lzma"}
  THEN <<[payload_size |-> h.size, comp |-> h.comp]>> ELSE <<>>

PageUp(size, page) == ((size + page - 1) \div page) * page

PowersOfTwo == {2 ^ n : n \in 0..20}

(* The kernel starts on page one, the ramdisk on the page after it. *)
ParseAndroidBootHeader(h, limit) ==
  IF /\ h.magic /\ h.page \in MinPage..MaxPage \cap PowersOfTwo
     /\ h.kernel \in 1..limit /\ h.ramdisk <= limit
  THEN <<[kernel  |-> [offset |-> h.page, size |-> h.kernel],
          ramdisk |-> [offset |-> h.page + PageUp(h.kernel, h.page), size |-> h.ramdisk]]>>
  ELSE <<>>

DetectRamdiskCodec(head) ==
  IF head \in {"gzip", "xz", "cpio", "lz4", "lz4-legacy"} THEN <<head>> ELSE <<>>

-----------------------------------------------------------------------------
(* Archives.  word[p] is what stands at position p: the length n of a      *)
(* member, the magic of another frame, or a member with the trailer's name.*)

(* A reader: where it is, the windows found, and how it stands. *)
ReaderStart(pos) == [pos |-> pos, found |-> <<>>, state |-> "open"]

(* parse_legacy_frame: blocks until the buffer or the frame ends. *)
NextBlock(word, total, w) ==
  LET start == w.pos + Field
      size  == word[w.pos].n
  IN CASE w.state # "open" -> w
       [] w.state = "open" /\ (start > total \/ word[w.pos].kind = "magic") ->
            [w EXCEPT !.state = "end"]
       [] OTHER ->
            IF size = 0 \/ start + size > total \/ Len(w.found) = MaxMembers
            THEN [w EXCEPT !.state = "raised"]
            ELSE [pos |-> start + size, state |-> "open",
                  found |-> Append(w.found, [from |-> start, length |-> size])]

ParseLegacyFrame(word, total) ==
  LET walk[n \in 0..total + 1] ==
        IF n = 0 THEN ReaderStart(Field) ELSE NextBlock(word, total, walk[n - 1])
      last == walk[total + 1]
  IN IF last.state = "end" /\ last.found # <<>> THEN <<last.found>> ELSE <<>>

Pad(n) == PageUp(n, 2)

(* A member is a header, a name padded to a word, its data, padded. *)
EntryStart(w) == Pad(w.pos + Field + 1)
Malformed(word, total, w) ==
  \/ w.pos + Field + 1 > total
  \/ word[w.pos].kind = "magic"
  \/ EntryStart(w) + word[w.pos].n > total
  \/ word[w.pos].kind # "trailer" /\ Len(w.found) = MaxMembers

(* parse_newc_entries: members until the trailer; without it, an error. *)
NextEntry(word, total, w) ==
  LET size == word[w.pos].n
  IN CASE w.state # "open" -> w
       [] w.state = "open" /\ Malformed(word, total, w) -> [w EXCEPT !.state = "raised"]
       [] OTHER ->
            IF word[w.pos].kind = "trailer" THEN [w EXCEPT !.state = "end"]
            ELSE [pos |-> Pad(EntryStart(w) + size), state |-> "open",
                  found |-> Append(w.found, [from |-> EntryStart(w), length |-> size])]

ParseNewcEntries(word, total) ==
  LET walk[n \in 0..total + 1] ==
        IF n = 0 THEN ReaderStart(0) ELSE NextEntry(word, total, walk[n - 1])
      last == walk[total + 1]
  IN IF last.state = "end" THEN <<last.found>> ELSE <<>>

-----------------------------------------------------------------------------
(* Debug companions. *)

(* The first section with the name decides; its content must be inside the *)
(* file and its text a bare file name.  Anything malformed is no name.     *)
ParseGnuDebuglink(elf) ==
  LET named == {i \in DOMAIN elf.sections : elf.sections[i].debuglink}
  IN IF /\ elf.magic /\ Len(elf.sections) \in 1..MaxMembers
        /\ elf.strndx <= Len(elf.sections) /\ named # {}
     THEN LET i == CHOOSE i \in named : \A j \in named : i <= j
              link == elf.sections[i]
          IN IF link.inside /\ link.name = "bare" THEN <<link.name>> ELSE <<>>
     ELSE <<>>

(* A line gives one name and address, or nothing; each pair once, up to    *)
(* the cap.                                                                *)
ParseSymbolMap(lines) ==
  LET add(acc, line) ==
        IF Len(acc) >= MaxMembers \/ line = <<>> \/ line[1] \in ToSet(acc) THEN acc
        ELSE Append(acc, line[1])
  IN FoldLeft(add, <<>>, lines)

-----------------------------------------------------------------------------
(* Windows, in order, that do not meet and stay inside the buffer. *)
Apart(windows, total) ==
  /\ \A i \in DOMAIN windows : windows[i].from + windows[i].length <= total
  /\ \A i, j \in DOMAIN windows : i < j => windows[i].from + windows[i].length <= windows[j].from

=============================================================================
