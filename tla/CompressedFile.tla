--------------------------- MODULE CompressedFile --------------------------
(***************************************************************************)
(* One compressed file, from the blocks of its source to the blocks read   *)
(* back: the writer, reader and formats of applesauce-core, the resource   *)
(* fork, and the scratch payload in which the fork may be staged first.    *)
(*                                                                         *)
(* A fork or payload is a sequence of cells.  A cell is a 32-bit word of a *)
(* table, or a piece of a block, of the trailer or of a hole.  Lengths are *)
(* in cells; the constants keep the proportions of the code's.             *)
(***************************************************************************)
EXTENDS Integers, Sequences

CONSTANTS
  Kinds,              \* a subset of {"zlib", "lzvn", "lzfse"}
  Storages,           \* where the fork is written: of {"fork", "disk", "memory"}
  MaxSize,            \* bound: the longest source
  ShortReads,         \* may the source shrink and grow while it is read?
  LostBlocks,         \* may a compressor panic, and the loss of its block go unnoticed?
  DebugAssertions,    \* does the build evaluate debug_assert!?
  BlockSize,          \* BLOCK_SIZE
  Spare,              \* COMPRESSED_BLOCK_CAPACITY - BLOCK_SIZE
  MaxOffset,          \* u32::MAX
  TableStart,         \* ZLIB_BLOCK_TABLE_START
  TrailerLen,         \* ZLIB_TRAILER.len()
  HeaderLen,          \* decmpfs::HEADER_LEN
  XattrMax,           \* decmpfs::MAX_XATTR_SIZE
  CopyBuffer          \* the publisher's buffer

ASSUME CompressedFileAssumption ==
  /\ Kinds \subseteq {"zlib", "lzvn", "lzfse"}
  /\ Storages \subseteq {"fork", "disk", "memory"}
  /\ MaxSize \in Nat \ {0} /\ ShortReads \in BOOLEAN
  /\ LostBlocks \in BOOLEAN /\ DebugAssertions \in BOOLEAN
  /\ BlockSize \in Nat \ {0} /\ Spare \in Nat \ {0} /\ MaxOffset \in Nat
  /\ TableStart \in Nat /\ TableStart > 4 /\ TrailerLen \in Nat
  /\ HeaderLen \in Nat /\ XattrMax \in Nat /\ HeaderLen < XattrMax
  /\ CopyBuffer \in Nat \ {0}

VARIABLES
  kind, storage, size,     \* the compressor, where the fork goes, the source's length
  phase,                   \* how far the file has come
  why,                     \* why it went no further
  taken,                   \* how much of the source was read
  written,                 \* the blocks added to the writer
  multiple, inline, sizes, \* the WriterState: SingleBlock with its block, or
                           \*   MultipleBlocks with the sizes so far
  store,                   \* what the writer writes to
  fork,                    \* the resource fork of the file to be published
  attr,                    \* the decmpfs attribute
  copied,                  \* how much of the payload was copied to the fork
  infos, got,              \* the reader: blocks to come, blocks read
  out                      \* the payload into which they are decompressed

job == <<kind, storage, size>>
writer == <<multiple, inline, sizes>>
reader == <<infos, got, out>>
vars == <<kind, storage, size, phase, why, taken, written, multiple, inline, sizes,
          store, fork, attr, copied, infos, got, out>>

Lesser(a, b) == IF a < b THEN a ELSE b
Greater(a, b) == IF a > b THEN a ELSE b

-----------------------------------------------------------------------------
(* Sizes. *)

num_blocks(s) == (s + BlockSize - 1) \div BlockSize
BlockCapacity == BlockSize + Spare

ZlibHeaderSize(n) == TableStart + 1 + 2 * n
LzHeaderSize(n) == n + 1
header_size(k, n) == IF k = "zlib" THEN ZlibHeaderSize(n) ELSE LzHeaderSize(n)

\* Definitions marked "Seeded fault" are not the code's: each is the next definition
\* with a plausible bug, and shows that a property can fail.

\* Seeded fault: the reservation covers blocks that shrink, or just do not.
ReservationOfSource(k, s) ==
  s + header_size(k, num_blocks(s)) + TrailerLen + XattrMax

compressed_reservation_size(k, s) ==
  num_blocks(s) * BlockCapacity + header_size(k, num_blocks(s)) + TrailerLen + XattrMax

\* How long a block of n may become.  Where blocks can be stored as they are, with a
\* prefix, the encoder gets no more room than that saves; LZFSE has the whole buffer.
ZlibCompressed(n) == 1 .. n + 1
LzCompressed(k, n) == 1 .. IF k = "lzfse" THEN BlockCapacity ELSE n + 1
Compressed(k, n) == IF k = "zlib" THEN ZlibCompressed(n) ELSE LzCompressed(k, n)

\* What a decoder may make of a block of c cells: a stored block loses its prefix, a
\* compressed one may become anything that fits into the buffer (LZ: with room to spare).
ZlibDecompressed == 0 .. BlockCapacity
LzDecompressed(k, c) == 1 .. BlockCapacity - 1
                          \cup IF k = "lzfse" THEN {} ELSE {c - 1} \cap 0 .. BlockCapacity
Decompressed(k, c) == IF k = "zlib" THEN ZlibDecompressed ELSE LzDecompressed(k, c)

-----------------------------------------------------------------------------
(* Streams of cells: a ResourceFork or a Payload. *)

Word(n) == <<"word", n>>
Data(k, n) == [i \in 1 .. n |-> <<"data", k, i>>]
Trailer == [i \in 1 .. TrailerLen |-> <<"trailer", i>>]
Hole == <<"hole", 0>>

\* err says what did not fit: the payload's "limit", or 32-bit "offset"s.
Empty == [cells |-> <<>>, pos |-> 0, cap |-> 0, err |-> "none"]

Refuse(s, reason) == [s EXCEPT !.err = IF @ = "none" THEN reason ELSE @]

\* Cells written at p, over what is there or behind it.
Overlay(cells, p, new) ==
  [i \in 1 .. Greater(Len(cells), p + Len(new)) |->
     IF i \in p + 1 .. p + Len(new) THEN new[i - p]
     ELSE IF i <= Len(cells) THEN cells[i] ELSE Hole]

\* A Vec that has to grow doubles, but never beyond the payload's limit.
GrowTo(cap, end, limit) ==
  IF end <= cap THEN cap ELSE Lesser(Greater(end, 2 * cap), limit)

\* Seeded fault: a resource fork outgrows 32 bits.
WriteUnchecked(where, limit, s, new) ==
  LET end == s.pos + Len(new) IN
    IF where = "memory" /\ end > limit THEN Refuse(s, "limit")
    ELSE [cells |-> Overlay(s.cells, s.pos, new), pos |-> end,
          cap |-> GrowTo(s.cap, end, limit), err |-> s.err]

\* Positions in a resource fork are 32 bits wide; a memory payload has a limit.
Write(where, limit, s, new) ==
  LET end == s.pos + Len(new) IN
    IF where = "fork" /\ end > MaxOffset THEN Refuse(s, "offset")
    ELSE IF where = "memory" /\ (end > limit \/ GrowTo(s.cap, end, limit) > limit)
      THEN Refuse(s, "limit")
    ELSE [cells |-> Overlay(s.cells, s.pos, new), pos |-> end,
          cap |-> GrowTo(s.cap, end, limit), err |-> s.err]

\* Up to n cells from p on.
Read(s, p, n) == SubSeq(s.cells, p + 1, Lesser(p + n, Len(s.cells)))

Seek(where, s, p) ==
  IF where = "fork" /\ p > MaxOffset THEN Refuse(s, "offset")
  ELSE [s EXCEPT !.pos = p]

-----------------------------------------------------------------------------
(* The formats: the table of blocks, as it is written and read. *)

\* Where each block starts and the last one ends, if the first one starts there.
Offsets(first, lens) ==
  LET at[i \in 0 .. Len(lens)] == IF i = 0 THEN first ELSE at[i - 1] + lens[i] IN at

Limit == compressed_reservation_size(kind, size) - XattrMax
Put(s, new) == Write(storage, Limit, s, new)
Rewind(s, p) == Seek(storage, s, p)

\* Seeded fault: the offsets of LZ blocks count from the end of the table.
LzFinishRelative(s) ==
  LET n == Len(sizes)
      at == Offsets(0, sizes)
  IN Put(Rewind(s, 0), [i \in 1 .. n + 1 |-> Word(at[i - 1])])

\* An offset before every block, and the end.
LzFinish(s) ==
  LET n == Len(sizes)
      at == Offsets(header_size(kind, n), sizes)
      done == Put(Rewind(s, 0), [i \in 1 .. n + 1 |-> Word(at[i - 1])])
  IN IF at[n] <= MaxOffset THEN done ELSE Refuse(done, "offset")

ZlibHeader(end) ==
  <<Word(TableStart - 1), Word(end), Word(end - (TableStart - 1)), Word(TrailerLen)>>

\* The trailer, the header, and a table of offsets (counted from the table) and sizes.
ZlibFinish(s) ==
  LET n == Len(sizes)
      at == Offsets(header_size(kind, n) - TableStart, sizes)
      end == s.pos
      entries == [i \in 1 .. 2 * n |->
                    IF i % 2 = 1 THEN Word(at[(i - 1) \div 2]) ELSE Word(sizes[i \div 2])]
      trailed == Rewind(Put(s, Trailer), 0)
      headed == Rewind(Put(trailed, ZlibHeader(end)), TableStart - 1)
      done == Put(headed, <<Word(end - TableStart), Word(n)>> \o entries)
  IN IF end <= MaxOffset /\ at[n] <= MaxOffset THEN done ELSE Refuse(done, "offset")

Finish(s) == IF kind = "zlib" THEN ZlibFinish(s) ELSE LzFinish(s)

Unreadable == [ok |-> FALSE, infos |-> <<>>]
WordAt(c, p) == IF p < Len(c) /\ c[p + 1][1] = "word" THEN c[p + 1][2] ELSE -1

LzTable(c, n) ==
  LET at(i) == WordAt(c, i) IN
    IF /\ at(0) = header_size(kind, n)
       /\ \A i \in 1 .. n : at(i) >= at(i - 1)
       /\ at(n) = Len(c)
    THEN [ok |-> TRUE,
          infos |-> [i \in 1 .. n |-> [offset |-> at(i - 1), len |-> at(i) - at(i - 1)]]]
    ELSE Unreadable

ZlibTable(c, n) ==
  LET end == Len(c) - TrailerLen
      at(i) == WordAt(c, TableStart + i)
  IN IF /\ Len(c) <= MaxOffset /\ end >= 0
        /\ SubSeq(c, 1, 4) = ZlibHeader(end)
        /\ \A p \in 5 .. TableStart - 1 : c[p] = Hole
        /\ at(-1) = end - TableStart /\ at(0) = n
        /\ \A i \in 1 .. 2 * n : at(i) >= 0
        /\ SubSeq(c, end + 1, Len(c)) = Trailer
     THEN [ok |-> TRUE,
           infos |-> [i \in 1 .. n |-> [offset |-> at(2 * i - 1) + TableStart,
                                        len |-> at(2 * i)]]]
     ELSE Unreadable

read_block_info(k, c, n) == IF k = "zlib" THEN ZlibTable(c, n) ELSE LzTable(c, n)

\* The number of each kind and storage in the decmpfs header.
CompressionType ==
  [zlib |-> [xattr |-> 3, fork |-> 4], lzvn |-> [xattr |-> 7, fork |-> 8],
   lzfse |-> [xattr |-> 11, fork |-> 12]]

compression_storage(t) ==
  CHOOSE p \in {"zlib", "lzvn", "lzfse"} \X {"xattr", "fork"} :
    CompressionType[p[1]][p[2]] = t

Value(in, data) == [type |-> CompressionType[kind][in], size |-> size, data |-> data]
NoValue == [type |-> 0, size |-> 0, data |-> <<>>]
ValueLen(v) == HeaderLen + Len(v.data)

-----------------------------------------------------------------------------
(* Writing: writer.rs write_compressed_file and stage_compressed_file. *)

Stop(reason) == phase' = "stopped" /\ why' = reason

\* Goes on to the next phase if what was written fitted.
GoOn(s, next) ==
  IF s.err = "none" THEN phase' = next /\ UNCHANGED why ELSE Stop("does not fit")

\* Writer::new opens the fork at once only if there will be several blocks.
Create ==
  /\ phase = "new"
  /\ multiple' = (num_blocks(size) > 1)
  /\ store' = IF multiple' THEN Rewind(store, header_size(kind, num_blocks(size))) ELSE store
  /\ GoOn(store', "writing")
  /\ UNCHANGED <<job, taken, written, inline, sizes, fork, attr, copied, reader>>

AddToFork(block, s) ==
  /\ multiple' = TRUE
  /\ sizes' = Append(sizes, Len(block))
  /\ store' = Put(s, block)
  /\ GoOn(store', "writing")
  /\ UNCHANGED inline

\* A single block stays in the attribute if it fits, and moves to the fork if not.
add_block(block) ==
  IF multiple THEN AddToFork(block, store)
  ELSE IF inline # <<>> THEN Stop("second block") /\ UNCHANGED <<writer, store>>
  ELSE IF Len(block) > XattrMax - HeaderLen
    THEN AddToFork(block, Rewind(store, header_size(kind, num_blocks(size))))
  ELSE inline' = block /\ UNCHANGED <<phase, why, multiple, sizes, store>>

\* The reader fills a buffer with a block, or with less if that was the end of the
\* source for a moment; what is compressed from it arrives at the writer.
Chunk ==
  /\ phase = "writing" /\ taken < size
  /\ LET full == Lesser(BlockSize, size - taken) IN
       \E n \in IF ShortReads THEN 1 .. full ELSE {full} :
         \E c \in Compressed(kind, n) :
           LET block == Data(Len(written) + 1, c) IN
             /\ taken' = taken + n
             /\ add_block(block)
             /\ written' = IF why' = "none" THEN Append(written, block) ELSE written
  /\ UNCHANGED <<job, fork, attr, copied, reader>>

\* The stream ends well when the source was read; or too early, without the blocks
\* from one that a panicking compressor abandoned (SeqQueue, UnfinishedSlotIsError).
EndOfStream ==
  /\ phase = "writing" /\ (taken = size \/ LostBlocks)
  /\ phase' = "sealing"
  /\ UNCHANGED <<job, why, taken, written, writer, store, fork, attr, copied, reader>>

\* Seeded fault: the number of blocks is not checked.
FinishUncounted ==
  IF multiple
    THEN /\ store' = Finish(store)
         /\ attr' = Value("fork", <<>>)
         /\ GoOn(store', "sealed")
    ELSE /\ attr' = Value("xattr", inline)
         /\ phase' = "sealed"
         /\ UNCHANGED <<store, why>>

\* A file here is not empty.  That its only block is there is a debug_assert.
finish_decmpfs_data ==
  IF multiple /\ Len(sizes) # num_blocks(size)
    THEN Stop("wrong number of blocks") /\ UNCHANGED <<store, attr>>
  ELSE IF ~multiple /\ inline = <<>> /\ DebugAssertions
    THEN Stop("missing block") /\ UNCHANGED <<store, attr>>
  ELSE IF multiple
    THEN /\ store' = Finish(store)
         /\ attr' = Value("fork", <<>>)
         /\ GoOn(store', "sealed")
    ELSE /\ attr' = Value("xattr", inline)
         /\ phase' = "sealed"
         /\ UNCHANGED <<store, why>>

Seal ==
  /\ phase = "sealing"
  /\ finish_decmpfs_data
  /\ UNCHANGED <<job, taken, written, writer, fork, copied, reader>>

\* Without scratch, the fork was the temporary file's all along.
Written ==
  /\ phase = "sealed" /\ storage = "fork"
  /\ fork' = store
  /\ phase' = "labelling"
  /\ UNCHANGED <<job, why, taken, written, writer, store, attr, copied, reader>>

\* Payload::finish: a buffer's capacity may or may not shrink to its length.
FinishPayload(s) == {s} \cup IF storage = "memory" THEN {[s EXCEPT !.cap = Len(s.cells)]} ELSE {}

\* What a staged payload takes: a file's length, a buffer's capacity.
reserved_bytes(s) == IF storage = "memory" THEN s.cap ELSE Len(s.cells)

\* With scratch, the reservation shrinks to payload and attribute: Reservation asserts
\* that it never grows.
Stage ==
  /\ phase = "sealed" /\ storage # "fork"
  /\ store' \in FinishPayload(store)
  /\ IF reserved_bytes(store') + ValueLen(attr) <= compressed_reservation_size(kind, size)
       THEN phase' = "copying" /\ UNCHANGED why
       ELSE Stop("shrink_to")
  /\ UNCHANGED <<job, taken, written, writer, fork, attr, copied, reader>>

\* copy_payload, one buffer.
CopyPayload ==
  /\ phase = "copying" /\ copied < Len(store.cells)
  /\ LET buffer == Read(store, copied, CopyBuffer) IN
       /\ copied' = copied + Len(buffer)
       /\ fork' = Write("fork", 0, fork, buffer)
  /\ GoOn(fork', "copying")
  /\ UNCHANGED <<job, taken, written, writer, store, attr, reader>>

Copied ==
  /\ phase = "copying" /\ copied = Len(store.cells)
  /\ phase' = "labelling"
  /\ UNCHANGED <<job, why, taken, written, writer, store, fork, attr, copied, reader>>

\* finish_compressed_file sets the decmpfs attribute: from here on it is a compressed
\* file, and the writer's buffers are gone.
Label ==
  /\ phase = "labelling"
  /\ phase' = "published"
  /\ UNCHANGED <<job, why, taken, written, writer, store, fork, attr, copied, reader>>

\* Any read, write, compression or allocation may fail.
Fail ==
  /\ phase \in {"new", "writing", "sealing", "sealed", "copying", "labelling"}
  /\ Stop("io error")
  /\ UNCHANGED <<job, taken, written, writer, store, fork, attr, copied, reader>>

-----------------------------------------------------------------------------
(* Reading: Reader, with_compressed_blocks, and what becomes of the blocks. *)

OpenReader ==
  /\ phase = "published"
  /\ LET type == compression_storage(attr.type)
         table == read_block_info(type[1], fork.cells, num_blocks(attr.size))
     IN IF type[2] = "xattr"
          THEN infos' = <<>> /\ phase' = "reading" /\ UNCHANGED why
        ELSE IF table.ok
          THEN infos' = table.infos /\ phase' = "reading" /\ UNCHANGED why
        ELSE Stop("unreadable") /\ UNCHANGED infos
  /\ UNCHANGED <<job, taken, written, writer, store, fork, attr, copied, got, out>>

\* A decoded block goes to a payload as large as the file is to be: it may come from
\* anywhere, and decode to anything.
write_uncompressed_block(n) ==
  IF out.pos + n > size
    THEN Stop("longer than expected") /\ UNCHANGED out
    ELSE /\ out' = Write("memory", size, out, [i \in 1 .. n |-> <<"plain", i>>])
         /\ GoOn(out', "reading")

\* The one block of the attribute, or the next of the fork.
HasBlock == IF compression_storage(attr.type)[2] = "xattr"
              THEN got = <<>> /\ attr.data # <<>>
              ELSE infos # <<>>

read_block_into ==
  /\ phase = "reading" /\ HasBlock
  /\ IF infos = <<>>
       THEN /\ got' = <<attr.data>>
            /\ UNCHANGED infos
            /\ \E n \in Decompressed(kind, Len(attr.data)) : write_uncompressed_block(n)
       ELSE LET block == Read(fork, Head(infos).offset, Head(infos).len) IN
         /\ infos' = Tail(infos)
         /\ IF Len(block) = Head(infos).len
              THEN /\ got' = Append(got, block)
                   /\ \E n \in Decompressed(kind, Len(block)) : write_uncompressed_block(n)
              ELSE Stop("unreadable") /\ UNCHANGED <<got, out>>
  /\ UNCHANGED <<job, taken, written, writer, store, fork, attr, copied>>

NoMoreBlocks ==
  /\ phase = "reading" /\ ~HasBlock
  /\ IF out.pos = size THEN phase' = "read" /\ UNCHANGED why ELSE Stop("shorter than expected")
  /\ UNCHANGED <<job, taken, written, writer, store, fork, attr, copied, reader>>

-----------------------------------------------------------------------------

Init ==
  /\ kind \in Kinds /\ storage \in Storages /\ size \in 1 .. MaxSize
  /\ phase = "new" /\ why = "none" /\ taken = 0 /\ written = <<>>
  /\ multiple = FALSE /\ inline = <<>> /\ sizes = <<>>
  /\ store = Empty /\ fork = Empty /\ attr = NoValue /\ copied = 0
  /\ infos = <<>> /\ got = <<>> /\ out = Empty

Terminated == phase \in {"stopped", "read"} /\ UNCHANGED vars

Next ==
  \/ Create \/ Chunk \/ EndOfStream \/ Seal
  \/ Written \/ Stage \/ CopyPayload \/ Copied \/ Label \/ Fail
  \/ OpenReader \/ read_block_into \/ NoMoreBlocks
  \/ Terminated

Spec == Init /\ [][Next]_vars

-----------------------------------------------------------------------------
(* Properties. *)

Stream == [cells : Seq({"word"} \X Int \cup {"hole"} \X {0} \cup {"trailer", "plain"} \X Nat
                         \cup {"data"} \X Nat \X Nat),
           pos : Nat, cap : Nat, err : {"none", "limit", "offset"}]

TypeOK ==
  /\ kind \in Kinds /\ storage \in Storages /\ size \in 1 .. MaxSize
  /\ phase \in {"new", "writing", "sealing", "sealed", "copying", "labelling", "published",
                "reading", "read", "stopped"}
  /\ taken \in 0 .. size
  /\ multiple \in BOOLEAN /\ sizes \in Seq(1 .. BlockCapacity)
  /\ store \in Stream /\ fork \in Stream /\ out \in Stream
  /\ fork.pos <= MaxOffset
  /\ copied \in 0 .. Len(store.cells)
  /\ phase = "stopped" <=> why # "none"

\* A reservation covers the worst that its file can come to: unless the source yields
\* more blocks than its length takes, memory scratch never refuses to write, a payload
\* on disk is never longer, and shrink_to does not panic in any case.  What decompression
\* yields, even from a broken file, stays within the file's size.
ReservationSuffices ==
  /\ why # "shrink_to"
  /\ storage # "fork" /\ Len(sizes) <= num_blocks(size)
       => Len(store.cells) <= Limit /\ store.err # "limit"
  /\ out.err # "limit"

ReadToEnd == phase = "read" \/ why = "shorter than expected"
Sealed == \/ phase \in {"published", "reading"} \/ ReadToEnd
          \/ why \in {"unreadable", "longer than expected"}

File == INSTANCE BlockFile
          WITH need <- num_blocks(size), sealed <- Sealed, ended <- ReadToEnd

\* Blocks of any length, in any of the formats, in the attribute or in the fork, which
\* was written directly or staged in between: they are read back as they were added, in
\* full; a file that lacks one, or needs an offset that does not fit, is never published.
\* In a build without debug_assert!, this takes that no compressor panics, for a file of
\* one block: see OnlyBlockPresent.
ImplementsBlockFile == File!Spec

\* A file that applesauce published can be read again.
PublishedIsReadable == why # "unreadable"

\* "adding multiple blocks to a single-block writer" is asserted never to happen
\* (applesauce-core/src/writer.rs:70-73).
OneBlockAtMost == why # "second block"

\* "!block.is_empty()", for a file that is not empty, is asserted where the attribute of a
\* single block is made (applesauce-core/src/writer.rs:102), in some builds.
OnlyBlockPresent == phase = "sealed" /\ ~multiple => inline # <<>>
=============================================================================
