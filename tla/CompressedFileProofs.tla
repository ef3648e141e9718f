------------------------ MODULE CompressedFileProofs ------------------------
(***************************************************************************)
(* A reservation covers its file, and a published file gives its blocks    *)
(* back, for every size of file and block, every format and every outcome  *)
(* of the compressors and decompressors.                                   *)
(*                                                                         *)
(* The reservation: until it is sealed, the payload ends at most a header  *)
(* and as many full block buffers in as there are blocks; a format writes  *)
(* only its trailer behind them, and the rest over the header; and the     *)
(* code seals a fork only with the number of blocks that was reserved for. *)
(*                                                                         *)
(* The blocks: each is laid down where the sizes of those before it add up *)
(* to, behind a hole for the header (Raw); sealing fills the hole with a   *)
(* table of the same sums and touches no block (Layout); the copy to the   *)
(* fork, if there is one, is a prefix of the payload until it is all of it;*)
(* so the reader finds every sum in the table, and at each sum its block.  *)
(* Whatever does not fit stops the file before it is labelled.             *)
(***************************************************************************)
EXTENDS CompressedFile, TLAPS, WellFoundedInduction, SequenceTheorems

-----------------------------------------------------------------------------
(* The invariant. *)

Need == num_blocks(size)
Header == header_size(kind, Need)

\* A stream whose contents and capacity stay within a limit.
IsStream(s) == s = [cells |-> s.cells, pos |-> s.pos, cap |-> s.cap, err |-> s.err]
Fits(s, limit) ==
  /\ IsStream(s)
  /\ Len(s.cells) \in Nat /\ Len(s.cells) <= limit
  /\ s.pos \in Nat
  /\ s.cap \in Nat /\ s.cap <= limit
  /\ s.err # "limit"

Job ==
  /\ kind \in {"zlib", "lzvn", "lzfse"} /\ storage \in {"fork", "disk", "memory"}
  /\ size \in Nat
  /\ taken \in Nat /\ multiple \in BOOLEAN
  /\ sizes \in Seq(Nat) /\ (~multiple \/ phase = "new" => sizes = <<>>)

\* The payload, as long as there are no more blocks than were reserved for.
Staged ==
  storage # "fork" /\ Len(sizes) <= Need =>
    /\ Fits(store, Limit)
    /\ phase \in {"writing", "sealing"} /\ multiple =>
         store.pos <= Header + Len(sizes) * BlockCapacity

\* What is left in the attribute, and what may be sealed.
Attribute ==
  /\ Len(inline) \in Nat /\ Len(inline) <= XattrMax - HeaderLen
  /\ phase = "sealed" =>
       /\ Len(sizes) <= Need
       /\ Len(attr.data) \in Nat /\ Len(attr.data) <= XattrMax - HeaderLen

Plain == Fits(out, size)

IInv == Job /\ Staged /\ Attribute /\ Plain /\ why # "shrink_to"

-----------------------------------------------------------------------------
(* Numbers. *)

\* Blocks and headers take a natural number of cells.
LEMMA Numbers ==
  ASSUME NEW s \in Nat, NEW k
  PROVE  /\ num_blocks(s) \in Nat
         /\ header_size(k, num_blocks(s)) \in Nat
         /\ BlockCapacity \in Nat
BY CompressedFileAssumption
   DEF num_blocks, header_size, ZlibHeaderSize, LzHeaderSize, BlockCapacity

\* Fewer buffers take no more cells.
LEMMA Products ==
  ASSUME NEW a \in Nat, NEW b \in Nat, NEW c \in Nat
  PROVE  /\ a * c \in Nat /\ (a + 1) * c = a * c + c
         /\ a <= b => a * c <= b * c
OBVIOUS

\* The limit of a payload is what is reserved besides the attribute.
LEMMA LimitIs ==
  ASSUME size \in Nat
  PROVE  /\ Limit = Need * BlockCapacity + Header + TrailerLen
         /\ Limit \in Nat /\ Need \in Nat /\ Header \in Nat /\ BlockCapacity \in Nat
         /\ Need * BlockCapacity \in Nat
         /\ compressed_reservation_size(kind, size) = Limit + XattrMax
<1>1. /\ Need \in Nat /\ Header \in Nat /\ BlockCapacity \in Nat
      /\ TrailerLen \in Nat /\ XattrMax \in Nat
  BY Numbers, CompressedFileAssumption DEF Need, Header
<1>2. Need * BlockCapacity \in Nat
  BY <1>1, Products
<1>3. compressed_reservation_size(kind, size)
        = Need * BlockCapacity + Header + TrailerLen + XattrMax
  BY DEF compressed_reservation_size, Need, Header
<1> QED BY <1>1, <1>2, <1>3 DEF Limit

-----------------------------------------------------------------------------
(* Streams. *)

\* The length of what is written over, or behind, something.
LEMMA OverlayLength ==
  ASSUME NEW cells, NEW p \in Nat, NEW new, Len(cells) \in Nat, Len(new) \in Nat
  PROVE  Len(Overlay(cells, p, new)) = Greater(Len(cells), p + Len(new))
<1>1. Greater(Len(cells), p + Len(new)) \in Nat
  BY DEF Greater
<1> QED BY <1>1 DEF Overlay

\* A write that ends within the limit is not refused, and keeps the stream within it.
LEMMA WriteFits ==
  ASSUME NEW where, where # "fork", NEW limit \in Nat, NEW s, NEW new,
         Fits(s, limit), Len(new) \in Nat, s.pos + Len(new) <= limit
  PROVE  /\ Fits(Write(where, limit, s, new), limit)
         /\ Write(where, limit, s, new).pos = s.pos + Len(new)
<1> DEFINE end == s.pos + Len(new)
           grown == GrowTo(s.cap, end, limit)
           over == Overlay(s.cells, s.pos, new)
<1>1. end \in Nat
  BY DEF Fits
<1>2. grown \in Nat /\ grown <= limit
  BY <1>1 DEF Fits, GrowTo, Lesser, Greater
<1>3. Len(over) \in Nat /\ Len(over) <= limit
  BY OverlayLength DEF Fits, Greater
<1>4. Write(where, limit, s, new) = [cells |-> over, pos |-> end, cap |-> grown, err |-> s.err]
  BY <1>1, <1>2 DEF Write
<1> QED BY <1>1, <1>2, <1>3, <1>4 DEF Fits, IsStream

\* Scratch can be positioned anywhere.
LEMMA SeekFits ==
  ASSUME NEW where, where # "fork", NEW limit \in Nat, NEW s, NEW p \in Nat, Fits(s, limit)
  PROVE  /\ Fits(Seek(where, s, p), limit)
         /\ Seek(where, s, p).pos = p
<1>1. Seek(where, s, p) = [s EXCEPT !.pos = p]
  BY DEF Seek
<1>2. [s EXCEPT !.pos = p] = [cells |-> s.cells, pos |-> p, cap |-> s.cap, err |-> s.err]
  BY DEF Fits, IsStream
<1> QED BY <1>1, <1>2 DEF Fits, IsStream

\* An offset that is too large for a table spoils the stream, but not its length.
LEMMA RefuseFits ==
  ASSUME NEW limit \in Nat, NEW s, Fits(s, limit)
  PROVE  Fits(Refuse(s, "offset"), limit)
<1>1. Refuse(s, "offset") = [cells |-> s.cells, pos |-> s.pos, cap |-> s.cap,
                             err |-> IF s.err = "none" THEN "offset" ELSE s.err]
  BY DEF Fits, IsStream, Refuse
<1> QED BY <1>1 DEF Fits, IsStream

\* A new payload is empty.
LEMMA EmptyFits ==
  ASSUME NEW limit \in Nat
  PROVE  Fits(Empty, limit)
BY DEF Empty, Fits, IsStream

-----------------------------------------------------------------------------
(* The formats. *)

\* LZVN and LZFSE write their table over the header that was left free.
LEMMA LzFits ==
  ASSUME storage # "fork", Job, kind # "zlib", Len(sizes) = Need,
         NEW s, Fits(s, Limit)
  PROVE  Fits(LzFinish(s), Limit)
<1> DEFINE n == Len(sizes)
           at == Offsets(header_size(kind, n), sizes)
           table == [i \in 1 .. n + 1 |-> Word(at[i - 1])]
           done == Put(Rewind(s, 0), table)
<1>1. /\ n \in Nat /\ Limit \in Nat /\ n + 1 <= Limit /\ n + 1 \in Nat
  <2>1. Header = n + 1
    BY DEF Header, header_size, LzHeaderSize
  <2>2. n \in Nat /\ size \in Nat
    BY DEF Job
  <2>3. Limit >= Header /\ Limit \in Nat
    BY <2>2, LimitIs, CompressedFileAssumption
  <2> QED BY <2>1, <2>2, <2>3
<1>2. Len(table) = n + 1
  BY <1>1
<1>3. Fits(Rewind(s, 0), Limit) /\ Rewind(s, 0).pos = 0
  BY <1>1, SeekFits DEF Rewind
<1>4. Fits(done, Limit)
  <2> HIDE DEF table
  <2> QED BY <1>1, <1>2, <1>3, WriteFits DEF Put
<1>5. Fits(Refuse(done, "offset"), Limit)
  BY <1>1, <1>4, RefuseFits
<1>6. LzFinish(s) = done \/ LzFinish(s) = Refuse(done, "offset")
  BY DEF LzFinish
<1> QED BY <1>4, <1>5, <1>6

\* Two words before a table.
LEMMA TwoMore ==
  ASSUME NEW W, NEW a \in W, NEW b \in W, NEW t \in Seq(W)
  PROVE  Len(<<a, b>> \o t) = 2 + Len(t)
<1>1. <<a, b>> \in Seq(W) /\ Len(<<a, b>>) = 2
  OBVIOUS
<1> QED BY <1>1

\* ZLIB appends its trailer, and writes header and table over what was left free.
LEMMA ZlibFits ==
  ASSUME storage # "fork", Job, kind = "zlib", Len(sizes) = Need,
         NEW s, Fits(s, Limit), s.pos <= Header + Need * BlockCapacity
  PROVE  Fits(ZlibFinish(s), Limit)
<1> DEFINE n == Len(sizes)
           at == Offsets(header_size(kind, n) - TableStart, sizes)
           e(i) == IF i % 2 = 1 THEN Word(at[(i - 1) \div 2]) ELSE Word(sizes[i \div 2])
           entries == [i \in 1 .. 2 * n |-> e(i)]
           table == <<Word(s.pos - TableStart), Word(n)>> \o entries
           trailed == Put(s, Trailer)
           headed == Put(Rewind(trailed, 0), ZlibHeader(s.pos))
           done == Put(Rewind(headed, TableStart - 1), table)
<1>1. /\ n \in Nat /\ Limit \in Nat /\ 2 * n \in Nat /\ TrailerLen \in Nat
      /\ TableStart \in Nat /\ TableStart > 4 /\ s.pos \in Nat
      /\ TableStart + 1 + 2 * n <= Limit /\ s.pos + TrailerLen <= Limit
  <2>1. Header = TableStart + 1 + 2 * n
    BY DEF Header, header_size, ZlibHeaderSize
  <2>2. n \in Nat /\ size \in Nat /\ s.pos \in Nat
    BY DEF Job, Fits
  <2>3. TrailerLen \in Nat /\ TableStart \in Nat /\ TableStart > 4
    BY CompressedFileAssumption
  <2>4. Limit >= Header /\ Limit >= Header + Need * BlockCapacity + TrailerLen /\ Limit \in Nat
    BY <2>2, <2>3, LimitIs
  <2>5. s.pos + TrailerLen <= Limit
    BY <2>2, <2>3, <2>4, LimitIs
  <2> QED BY <2>1, <2>2, <2>3, <2>4, <2>5
<1>2. Len(Trailer) = TrailerLen
  BY <1>1 DEF Trailer
<1>3. Len(ZlibHeader(s.pos)) = 4
  BY DEF ZlibHeader
<1>4. Len(table) = 2 + 2 * n
  <2> DEFINE W == {e(i) : i \in 1 .. 2 * n} \cup {Word(s.pos - TableStart), Word(n)}
  <2>1. entries \in [1 .. 2 * n -> W]
    <3> HIDE DEF e
    <3> QED OBVIOUS
  <2>2. Word(s.pos - TableStart) \in W /\ Word(n) \in W
    OBVIOUS
  <2> HIDE DEF W, entries
  <2>3. entries \in Seq(W) /\ Len(entries) = 2 * n
    BY <1>1, <2>1
  <2> QED BY <2>2, <2>3, TwoMore
<1>5. Fits(trailed, Limit)
  BY <1>1, <1>2, WriteFits DEF Put
<1>6. Fits(headed, Limit)
  <2>1. Fits(Rewind(trailed, 0), Limit) /\ Rewind(trailed, 0).pos = 0
    BY <1>1, <1>5, SeekFits DEF Rewind
  <2>2. 0 + Len(ZlibHeader(s.pos)) <= Limit /\ Len(ZlibHeader(s.pos)) \in Nat
    BY <1>1, <1>3
  <2> HIDE DEF trailed
  <2> QED BY <1>1, <2>1, <2>2, WriteFits DEF Put
<1>7. Fits(done, Limit)
  <2>1. TableStart - 1 \in Nat
    BY <1>1
  <2>2. /\ Fits(Rewind(headed, TableStart - 1), Limit)
        /\ Rewind(headed, TableStart - 1).pos = TableStart - 1
    BY <1>1, <1>6, <2>1, SeekFits DEF Rewind
  <2> HIDE DEF table, headed
  <2> QED BY <1>1, <1>4, <2>2, WriteFits DEF Put
<1>8. Fits(Refuse(done, "offset"), Limit)
  BY <1>1, <1>7, RefuseFits
<1>9. ZlibFinish(s) = done \/ ZlibFinish(s) = Refuse(done, "offset")
  BY DEF ZlibFinish
<1> QED BY <1>7, <1>8, <1>9

-----------------------------------------------------------------------------
(* The steps. *)

\* At first nothing is staged.
LEMMA InitHolds == Init => IInv
<1> SUFFICES ASSUME Init PROVE IInv
  OBVIOUS
<1>1. size \in Nat
  BY CompressedFileAssumption DEF Init
<1>2. Limit \in Nat
  BY <1>1, LimitIs
<1>3. Job
  <2>1. kind \in {"zlib", "lzvn", "lzfse"} /\ storage \in {"fork", "disk", "memory"}
    BY CompressedFileAssumption DEF Init
  <2>2. taken \in Nat /\ multiple \in BOOLEAN /\ sizes = <<>>
    BY DEF Init
  <2> QED BY <1>1, <2>1, <2>2 DEF Job
<1>4. Staged /\ Plain
  BY <1>1, <1>2, EmptyFits DEF Init, Staged, Plain
<1>5. Attribute
  BY CompressedFileAssumption DEF Init, Attribute
<1> QED BY <1>3, <1>4, <1>5 DEF IInv, Init

\* What the staging invariant says is the same after a step that leaves the job alone.
LEMMA SameLimit ==
  ASSUME UNCHANGED job
  PROVE  Limit' = Limit /\ Need' = Need /\ Header' = Header
BY DEF job, Limit, compressed_reservation_size, Need, Header

\* The writer leaves room for the header.
LEMMA CreateKeeps == ASSUME IInv, Create PROVE Job' /\ Staged' /\ Attribute'
<1>1. Job'
  <2>1. multiple' \in BOOLEAN /\ sizes' = <<>>
    BY DEF IInv, Job, Create
  <2>2. UNCHANGED <<kind, storage, size, taken>>
    BY DEF Create, job
  <2> QED BY <2>1, <2>2 DEF IInv, Job
<1>2. Staged'
  <2> SUFFICES ASSUME storage # "fork", Len(sizes) <= Need
               PROVE  /\ Fits(store', Limit)
                      /\ multiple' => store'.pos <= Header + Len(sizes) * BlockCapacity
    BY SameLimit DEF Create, job, Staged
  <2>1. /\ Limit \in Nat /\ Header \in Nat /\ Len(sizes) * BlockCapacity \in Nat
    BY LimitIs, Products DEF IInv, Job
  <2>2. Fits(Rewind(store, Header), Limit) /\ Rewind(store, Header).pos = Header
    BY <2>1, SeekFits DEF IInv, Staged, Rewind
  <2> QED BY <2>1, <2>2 DEF IInv, Staged, Create, Header, Need
<1>3. Attribute'
  BY DEF IInv, Attribute, Create, GoOn, Stop
<1> QED BY <1>1, <1>2, <1>3

\* A block goes behind the others, if there are still as many as were reserved for.
LEMMA AddToForkKeeps ==
  ASSUME IInv, phase = "writing", UNCHANGED job, taken' \in Nat,
         NEW block, Len(block) \in Nat, Len(block) <= BlockCapacity,
         NEW s, AddToFork(block, s),
         storage # "fork" /\ Len(sizes) < Need =>
           Fits(s, Limit) /\ s.pos <= Header + Len(sizes) * BlockCapacity
  PROVE  Job' /\ Staged'
<1>1. sizes \in Seq(Nat) /\ sizes' = Append(sizes, Len(block))
  BY DEF IInv, Job, AddToFork
<1>2. sizes' \in Seq(Nat) /\ Len(sizes') = Len(sizes) + 1 /\ Len(sizes) \in Nat
  BY <1>1
<1>3. Job'
  BY <1>2 DEF IInv, Job, job, AddToFork, GoOn, Stop
<1>4. Staged'
  <2> SUFFICES ASSUME storage # "fork", Len(sizes) + 1 <= Need
               PROVE  /\ Fits(store', Limit)
                      /\ store'.pos <= Header + (Len(sizes) + 1) * BlockCapacity
    BY <1>2, SameLimit DEF job, Staged
  <2> DEFINE n == Len(sizes)
  <2>1. /\ Limit = Need * BlockCapacity + Header + TrailerLen
        /\ Limit \in Nat /\ Need \in Nat /\ Header \in Nat /\ BlockCapacity \in Nat
        /\ TrailerLen \in Nat
    BY LimitIs, CompressedFileAssumption DEF IInv, Job
  <2>2. /\ n \in Nat /\ n * BlockCapacity \in Nat
        /\ (n + 1) * BlockCapacity = n * BlockCapacity + BlockCapacity
        /\ (n + 1) * BlockCapacity <= Need * BlockCapacity
        /\ Need * BlockCapacity \in Nat
    <3>1. n \in Nat /\ n + 1 \in Nat /\ n + 1 <= Need
      BY <1>2
    <3>2. n * BlockCapacity \in Nat /\ (n + 1) * BlockCapacity = n * BlockCapacity + BlockCapacity
      BY ONLY <2>1, <3>1, Products
    <3>3. (n + 1) * BlockCapacity <= Need * BlockCapacity /\ Need * BlockCapacity \in Nat
      BY ONLY <2>1, <3>1, Products
    <3> QED BY <3>1, <3>2, <3>3
  <2>3. Fits(s, Limit) /\ s.pos <= Header + n * BlockCapacity /\ s.pos \in Nat
    BY <1>2, <2>1 DEF Fits
  <2>4. s.pos + Len(block) <= Header + (n + 1) * BlockCapacity
    BY <2>1, <2>2, <2>3
  <2>5. s.pos + Len(block) <= Limit
    BY <2>1, <2>2, <2>3, <2>4
  <2>6. store' = Write(storage, Limit, s, block)
    BY DEF AddToFork, Put
  <2> QED BY <2>1, <2>3, <2>4, <2>5, <2>6, WriteFits
<1> QED BY <1>3, <1>4

\* A compressed block is at most a buffer long, wherever it goes.
LEMMA ChunkKeeps == ASSUME IInv, Chunk PROVE Job' /\ Staged' /\ Attribute' /\ why' # "shrink_to"
<1>1. PICK n \in Nat, c \in Nat :
        /\ c \in Compressed(kind, n) /\ n >= 1 /\ n <= BlockSize
        /\ taken' = taken + n
        /\ add_block(Data(Len(written) + 1, c))
  <2> DEFINE full == Lesser(BlockSize, size - taken)
  <2>1. /\ taken \in Nat /\ size \in Nat /\ taken < size /\ BlockSize \in Nat \ {0}
        /\ full \in Nat /\ full >= 1 /\ full <= BlockSize
    BY CompressedFileAssumption DEF Chunk, IInv, Job, Lesser
  <2>2. PICK n \in IF ShortReads THEN 1 .. full ELSE {full} :
          \E c \in Compressed(kind, n) :
            taken' = taken + n /\ add_block(Data(Len(written) + 1, c))
    BY DEF Chunk
  <2>3. n \in Nat /\ n >= 1 /\ n <= BlockSize
    <3> HIDE DEF full
    <3> QED BY <2>1, <2>2
  <2>4. Compressed(kind, n) \subseteq Nat
    BY <2>3, CompressedFileAssumption
       DEF Compressed, ZlibCompressed, LzCompressed, BlockCapacity
  <2> QED BY <2>2, <2>3, <2>4
<1> DEFINE block == Data(Len(written) + 1, c)
<1>2. c \in Nat /\ c <= BlockCapacity
  BY <1>1, CompressedFileAssumption
     DEF Compressed, ZlibCompressed, LzCompressed, BlockCapacity
<1>3. Len(block) = c
  BY <1>2 DEF Data
<1>4. /\ phase = "writing" /\ UNCHANGED job /\ UNCHANGED attr
      /\ taken' \in Nat /\ sizes \in Seq(Nat) /\ size \in Nat
  BY <1>1 DEF Chunk, IInv, Job
<1> HIDE DEF block
<1>5. CASE multiple
  <2>1. AddToFork(block, store)
    BY <1>1, <1>5 DEF add_block, block
  <2>2. storage # "fork" /\ Len(sizes) < Need =>
          Fits(store, Limit) /\ store.pos <= Header + Len(sizes) * BlockCapacity
    BY <1>4, <1>5, LimitIs DEF IInv, Staged
  <2>3. Job' /\ Staged'
    BY <1>2, <1>3, <1>4, <2>1, <2>2, AddToForkKeeps
  <2> QED BY <1>4, <2>1, <2>3 DEF IInv, Attribute, AddToFork, GoOn, Stop
<1>6. CASE ~multiple /\ inline # <<>>
  <2>1. UNCHANGED <<multiple, inline, sizes, store>> /\ phase' = "stopped" /\ why' = "second block"
    BY <1>1, <1>6 DEF add_block, writer, Stop, block
  <2>2. Job' /\ Attribute'
    BY <1>4, <2>1 DEF IInv, Job, Attribute, job
  <2>3. Staged'
    BY <1>4, <2>1, SameLimit DEF IInv, Staged, job
  <2> QED BY <2>1, <2>2, <2>3
<1>7. CASE ~multiple /\ inline = <<>> /\ Len(block) > XattrMax - HeaderLen
  <2> DEFINE s == Rewind(store, Header)
  <2>1. AddToFork(block, s)
    BY <1>1, <1>7 DEF add_block, Header, Need, block
  <2>2. /\ sizes = <<>> /\ Len(sizes) = 0 /\ Limit \in Nat /\ Need \in Nat /\ Header \in Nat
        /\ BlockCapacity \in Nat
    BY <1>4, <1>7, LimitIs DEF IInv, Job
  <2>3. storage # "fork" => Fits(s, Limit) /\ s.pos = Header
    BY <2>2, SeekFits DEF IInv, Staged, Rewind
  <2>4. Len(sizes) * BlockCapacity = 0
    BY <2>2
  <2>5. storage # "fork" /\ Len(sizes) < Need =>
          Fits(s, Limit) /\ s.pos <= Header + Len(sizes) * BlockCapacity
    BY <2>2, <2>3, <2>4
  <2> HIDE DEF s
  <2>6. Job' /\ Staged'
    BY <1>2, <1>3, <1>4, <2>1, <2>5, AddToForkKeeps
  <2> QED BY <1>4, <2>1, <2>6 DEF IInv, Attribute, AddToFork, GoOn, Stop
<1>8. CASE ~multiple /\ inline = <<>> /\ ~(Len(block) > XattrMax - HeaderLen)
  <2>1. inline' = block /\ UNCHANGED <<phase, why, multiple, sizes, store>>
    BY <1>1, <1>8 DEF add_block, block
  <2>2. Job' /\ Attribute'
    BY <1>2, <1>3, <1>4, <1>8, <2>1, CompressedFileAssumption
       DEF IInv, Job, Attribute, job
  <2>3. Staged'
    BY <1>4, <2>1, SameLimit DEF IInv, Staged, job
  <2> QED BY <2>1, <2>2, <2>3 DEF IInv
<1> QED BY <1>5, <1>6, <1>7, <1>8

\* A fork is sealed with as many blocks as were reserved for, or not at all.
LEMMA SealKeeps == ASSUME IInv, Seal PROVE Job' /\ Staged' /\ Attribute' /\ why' # "shrink_to"
<1>1. /\ phase = "sealing" /\ UNCHANGED <<kind, storage, size, taken, multiple, inline, sizes>>
      /\ UNCHANGED job /\ finish_decmpfs_data /\ why # "shrink_to"
  BY DEF Seal, job, writer, IInv
<1>2. CASE (multiple /\ Len(sizes) # Need) \/ (~multiple /\ inline = <<>> /\ DebugAssertions)
  <2>1. UNCHANGED <<store, attr>> /\ phase' = "stopped" /\ why' # "shrink_to"
    BY <1>1, <1>2 DEF finish_decmpfs_data, Stop, Need
  <2>2. Job' /\ Attribute'
    BY <1>1, <2>1 DEF IInv, Job, Attribute
  <2>3. Staged'
    BY <1>1, <2>1, SameLimit DEF IInv, Staged
  <2> QED BY <2>1, <2>2, <2>3
<1>3. CASE multiple /\ Len(sizes) = Need
  <2>1. /\ store' = Finish(store) /\ attr' = Value("fork", <<>>)
        /\ phase' \in {"sealed", "stopped"} /\ why' # "shrink_to"
    BY <1>1, <1>3 DEF finish_decmpfs_data, GoOn, Stop, Need
  <2>2. Job'
    BY <1>1, <2>1 DEF IInv, Job
  <2>3. Attribute'
    <3>1. attr'.data = <<>>
      BY <2>1 DEF Value
    <3>2. size \in Nat /\ Need \in Nat
      BY LimitIs DEF IInv, Job
    <3> QED BY <1>1, <1>3, <3>1, <3>2, SameLimit, CompressedFileAssumption
            DEF IInv, Attribute
  <2>4. Staged'
    <3> SUFFICES ASSUME storage # "fork" PROVE Fits(store', Limit)
      BY <1>1, <2>1, SameLimit DEF Staged
    <3>1. /\ Fits(store, Limit) /\ store.pos <= Header + Need * BlockCapacity
          /\ Need \in Nat
      BY <1>1, <1>3, LimitIs DEF IInv, Staged, Job
    <3> QED BY <1>3, <2>1, <3>1, LzFits, ZlibFits DEF IInv, Finish
  <2> QED BY <2>1, <2>2, <2>3, <2>4
<1>4. CASE ~multiple /\ ~(inline = <<>> /\ DebugAssertions)
  <2>1. /\ attr' = Value("xattr", inline) /\ phase' = "sealed" /\ UNCHANGED <<store, why>>
    BY <1>1, <1>4 DEF finish_decmpfs_data
  <2>2. Job'
    BY <1>1, <2>1 DEF IInv, Job
  <2>3. Attribute'
    <3>1. attr'.data = inline
      BY <2>1 DEF Value
    <3>2. Len(sizes) = 0 /\ Need \in Nat
      BY <1>4, LimitIs DEF IInv, Job
    <3> QED BY <1>1, <3>1, <3>2, SameLimit DEF IInv, Attribute
  <2>4. Staged'
    BY <1>1, <2>1, SameLimit DEF IInv, Staged
  <2> QED BY <1>1, <2>1, <2>2, <2>3, <2>4
<1> QED BY <1>2, <1>3, <1>4 DEF IInv, Job

\* So the reservation never has to grow.
LEMMA StageKeeps == ASSUME IInv, Stage PROVE Job' /\ Staged' /\ Attribute' /\ why' # "shrink_to"
<1>1. /\ phase = "sealed" /\ storage # "fork" /\ why # "shrink_to" /\ UNCHANGED job
      /\ UNCHANGED <<kind, storage, size, taken, multiple, inline, sizes, attr>>
      /\ store' \in FinishPayload(store)
  BY DEF Stage, job, writer, IInv
<1>2. /\ Fits(store, Limit) /\ Len(sizes) <= Need
      /\ Limit \in Nat /\ compressed_reservation_size(kind, size) = Limit + XattrMax
  BY <1>1, LimitIs DEF IInv, Staged, Attribute, Job
<1>3. Fits(store', Limit)
  <2>1. [store EXCEPT !.cap = Len(store.cells)]
          = [cells |-> store.cells, pos |-> store.pos, cap |-> Len(store.cells), err |-> store.err]
    BY <1>2 DEF Fits, IsStream
  <2> QED BY <1>1, <1>2, <2>1 DEF FinishPayload, Fits, IsStream
<1>4. reserved_bytes(store') + ValueLen(attr) <= compressed_reservation_size(kind, size)
  <2>1. reserved_bytes(store') \in Nat /\ reserved_bytes(store') <= Limit
    BY <1>2, <1>3 DEF reserved_bytes, Fits
  <2>2. ValueLen(attr) \in Nat /\ ValueLen(attr) <= XattrMax
    BY <1>1, CompressedFileAssumption DEF IInv, Attribute, ValueLen
  <2> QED BY <1>2, <2>1, <2>2, CompressedFileAssumption
<1>5. phase' = "copying" /\ why' = why
  BY <1>4 DEF Stage
<1>6. Job' /\ Attribute'
  BY <1>1, <1>5 DEF IInv, Job, Attribute
<1>7. Staged'
  BY <1>1, <1>3, <1>5, SameLimit DEF Staged
<1> QED BY <1>1, <1>5, <1>6, <1>7

\* Decompressed blocks are counted before they are written.
LEMMA PlainKept == ASSUME IInv, read_block_into PROVE Plain' /\ why' # "shrink_to"
<1>1. /\ size \in Nat /\ size' = size /\ Fits(out, size) /\ why # "shrink_to"
  BY DEF IInv, Job, Plain, read_block_into, job
<1>2. CASE UNCHANGED out
  BY <1>1, <1>2 DEF Plain, read_block_into, write_uncompressed_block, GoOn, Stop
<1>3. CASE \E n \in Nat : write_uncompressed_block(n)
  <2>1. PICK n \in Nat : write_uncompressed_block(n)
    BY <1>3
  <2>2. CASE out.pos + n > size
    BY <1>1, <2>1, <2>2 DEF write_uncompressed_block, Stop, Plain
  <2>3. CASE ~(out.pos + n > size)
    <3> DEFINE new == [i \in 1 .. n |-> <<"plain", i>>]
    <3>1. Len(new) = n
      OBVIOUS
    <3>2. out' = Write("memory", size, out, new) /\ why' # "shrink_to"
      BY <1>1, <2>1, <2>3 DEF write_uncompressed_block, GoOn, Stop
    <3>3. out.pos \in Nat /\ out.pos + n <= size
      BY <1>1, <2>3 DEF Fits
    <3> HIDE DEF new
    <3> QED BY <1>1, <3>1, <3>2, <3>3, WriteFits DEF Plain
  <2> QED BY <2>2, <2>3
<1>4. UNCHANGED out \/ \E n \in Nat : write_uncompressed_block(n)
  <2>1. \A k, c : Decompressed(k, c) \subseteq Nat
    BY CompressedFileAssumption
       DEF Decompressed, ZlibDecompressed, LzDecompressed, BlockCapacity
  <2> QED BY <2>1 DEF read_block_into
<1> QED BY <1>2, <1>3, <1>4

\* The other steps leave the payload alone, or fail.
LEMMA OthersKeep ==
  ASSUME IInv,
         \/ EndOfStream \/ Written \/ CopyPayload \/ Copied \/ Label \/ Fail
         \/ OpenReader \/ read_block_into \/ NoMoreBlocks \/ UNCHANGED vars
  PROVE  Job' /\ Staged' /\ Attribute' /\ (why' # "shrink_to" \/ read_block_into)
<1>1. /\ UNCHANGED job /\ UNCHANGED <<kind, storage, size, taken, multiple, inline, sizes>>
      /\ UNCHANGED <<store, attr>>
  BY DEF EndOfStream, Written, CopyPayload, Copied, Label, Fail, OpenReader,
         read_block_into,
         NoMoreBlocks, vars, job, writer, reader
<1>2. \/ UNCHANGED phase
      \/ phase = "writing" /\ phase' = "sealing"
      \/ phase' \in {"labelling", "copying", "published", "reading", "read", "stopped"}
  <2>1. CASE EndOfStream \/ Written \/ CopyPayload \/ Copied \/ Label \/ Fail
    BY <2>1 DEF EndOfStream, Written, CopyPayload, Copied, Label, Fail, GoOn, Stop
  <2>2. CASE OpenReader \/ NoMoreBlocks
    <3>1. phase' \in {"reading", "read"} \/ Stop("unreadable") \/ Stop("shorter than expected")
      BY <2>2 DEF OpenReader, NoMoreBlocks
    <3> QED BY <3>1 DEF Stop
  <2>3. CASE read_block_into
    <3>1. Stop("unreadable") \/ \E n : write_uncompressed_block(n)
      BY <2>3 DEF read_block_into
    <3> QED BY <3>1 DEF write_uncompressed_block, GoOn, Stop
  <2>4. CASE UNCHANGED vars
    BY <2>4 DEF vars
  <2> QED BY <2>1, <2>2, <2>3, <2>4
<1>3. why' # "shrink_to" \/ read_block_into
  BY DEF EndOfStream, Written, CopyPayload, Copied, Label, Fail, OpenReader,
         NoMoreBlocks, vars, GoOn, Stop, IInv
<1>4. Job' /\ Attribute'
  BY <1>1, <1>2, SameLimit DEF IInv, Job, Attribute
<1>5. Staged'
  BY <1>1, <1>2, SameLimit DEF IInv, Staged
<1> QED BY <1>3, <1>4, <1>5

\* Only decompression writes to a plain payload.
LEMMA PlainElsewhere ==
  ASSUME IInv, [Next]_vars, ~read_block_into
  PROVE  Plain'
<1>1. UNCHANGED <<size, out>>
  BY DEF Next, Terminated, vars, Create, Chunk, EndOfStream, Seal, Written, Stage,
         CopyPayload,
         Copied, Label, Fail, OpenReader, NoMoreBlocks, job, reader
<1> QED BY <1>1 DEF IInv, Plain

\* Every step of the system preserves the invariant.
LEMMA NextHolds == IInv /\ [Next]_vars => IInv'
<1> SUFFICES ASSUME IInv, [Next]_vars PROVE IInv'
  OBVIOUS
<1>1. CASE Create
  BY <1>1, CreateKeeps, PlainElsewhere DEF IInv, Create, GoOn, Stop, read_block_into
<1>2. CASE Chunk
  BY <1>2, ChunkKeeps, PlainElsewhere DEF IInv, Chunk, read_block_into
<1>3. CASE Seal
  BY <1>3, SealKeeps, PlainElsewhere DEF IInv, Seal, read_block_into
<1>4. CASE Stage
  BY <1>4, StageKeeps, PlainElsewhere DEF IInv, Stage, read_block_into
<1>5. CASE read_block_into
  BY <1>5, OthersKeep, PlainKept DEF IInv
<1>6. CASE \/ EndOfStream \/ Written \/ CopyPayload \/ Copied \/ Label \/ Fail
           \/ OpenReader \/ NoMoreBlocks \/ UNCHANGED vars
  <2>1. CASE read_block_into
    BY <1>5, <2>1
  <2>2. CASE ~read_block_into
    BY <1>6, <2>2, OthersKeep, PlainElsewhere DEF IInv
  <2> QED BY <2>1, <2>2
<1> QED BY <1>1, <1>2, <1>3, <1>4, <1>5, <1>6 DEF Next, Terminated

-----------------------------------------------------------------------------
(* The theorems. *)

\* The invariant holds in every state that the system can be in.
THEOREM InvariantHolds == Spec => []IInv
<1>1. Init => IInv
  BY InitHolds
<1>2. IInv /\ [Next]_vars => IInv'
  BY NextHolds
<1> QED BY <1>1, <1>2, PTL DEF Spec

\* For every size of file and block, every format and every outcome of the codecs: memory
\* scratch never refuses to write and a payload on disk is never longer than its
\* reservation allows, if the source yields no more blocks than its length takes; and in
\* any case shrink_to does not panic, and decompressed data stays within the file's size
\* (scratch.rs Scratch::compressed_reservation_size, MemoryPayload::write).
THEOREM ReservationsSuffice == Spec => []ReservationSuffices
<1>1. IInv => ReservationSuffices
  BY DEF IInv, Staged, Plain, Fits, ReservationSuffices, Need
<1> QED BY <1>1, InvariantHolds, PTL

-----------------------------------------------------------------------------
(* Sums of block sizes.  Induction over their number takes the form of a   *)
(* least element of the set of numbers for which a claim fails.            *)

\* Every set of naturals has a least element.
LEMMA LeastNat ==
  ASSUME NEW T, T \subseteq Nat, T # {}
  PROVE  \E n \in T : \A m \in T : n <= m
<1>1. PICK n \in T : \A m \in T : ~ (<<m, n>> \in OpToRel(<, Nat))
  BY NatLessThanWellFounded, WFMin
<1>2. \A m \in T : ~(m < n)
  BY <1>1 DEF OpToRel
<1> QED BY <1>2

\* What Offsets is the recursion for: the starts of the first m blocks, and the end.
AreSums(at, first, lens, m) ==
  /\ at \in [0 .. m -> Int] /\ at[0] = first
  /\ \A i \in 1 .. m : at[i] = at[i - 1] + lens[i]

HasSums(first, lens, m) == \E at : AreSums(at, first, lens, m)

\* There are such sums, for any sizes.
LEMMA SumsExist ==
  ASSUME NEW first \in Int, NEW lens \in Seq(Nat)
  PROVE  HasSums(first, lens, Len(lens))
<1> DEFINE n == Len(lens)
           T == {m \in 0 .. n : ~ HasSums(first, lens, m)}
<1>1. n \in Nat /\ T \subseteq Nat
  OBVIOUS
<1> SUFFICES ASSUME T # {} PROVE FALSE
  BY <1>1
<1>2. PICK m \in T : \A k \in T : m <= k
  <2> HIDE DEF T
  <2> QED BY <1>1, LeastNat
<1>3. CASE m = 0
  <2>1. AreSums([i \in 0 .. 0 |-> first], first, lens, 0)
    BY DEF AreSums
  <2> QED BY <1>2, <1>3, <2>1 DEF HasSums
<1>4. CASE m # 0
  <2>1. m \in 1 .. n /\ m - 1 \in 0 .. n
    BY <1>1, <1>2, <1>4
  <2>2. PICK at : AreSums(at, first, lens, m - 1)
    <3>1. ~(m <= m - 1)
      BY ONLY <1>1, <2>1
    <3>2. m - 1 \notin T
      <4> HIDE DEF T
      <4> QED BY <1>2, <3>1
    <3> QED BY <2>1, <3>2 DEF HasSums
  <2> DEFINE next == [i \in 0 .. m |-> IF i = m THEN at[m - 1] + lens[m] ELSE at[i]]
  <2>3. lens[m] \in Nat /\ at[m - 1] \in Int
    BY <2>1, <2>2 DEF AreSums
  <2>4. next \in [0 .. m -> Int] /\ next[0] = first
    BY <2>1, <2>2, <2>3 DEF AreSums
  <2>5. ASSUME NEW i \in 1 .. m PROVE next[i] = next[i - 1] + lens[i]
    <3>1. i - 1 \in 0 .. m /\ i - 1 # m
      BY <2>1
    <3>2. next[i - 1] = at[i - 1]
      BY <3>1
    <3>3. CASE i = m
      BY <3>2, <3>3, <2>1
    <3>4. CASE i # m
      BY <3>2, <3>4, <2>1, <2>2 DEF AreSums
    <3> QED BY <3>3, <3>4
  <2>6. AreSums(next, first, lens, m)
    BY <2>4, <2>5 DEF AreSums
  <2> QED BY <1>2, <2>6 DEF HasSums
<1> QED BY <1>3, <1>4

\* The recursion has one solution, and Offsets is it.
LEMMA OffsetsAre ==
  ASSUME NEW first \in Int, NEW lens \in Seq(Nat)
  PROVE  AreSums(Offsets(first, lens), first, lens, Len(lens))
<1> DEFINE n == Len(lens)
           F(at) == [i \in 0 .. n |-> IF i = 0 THEN first ELSE at[i - 1] + lens[i]]
           at == Offsets(first, lens)
<1>1. n \in Nat
  OBVIOUS
<1>2. PICK g : AreSums(g, first, lens, n)
  BY SumsExist DEF HasSums
<1>3. g = F(g)
  BY <1>1, <1>2 DEF AreSums
<1>4. at = CHOOSE f : f = F(f)
  BY DEF Offsets
<1>5. at = F(at)
  BY <1>3, <1>4
<1> HIDE DEF at
<1>6. \A i \in 0 .. n : at[i] = IF i = 0 THEN first ELSE at[i - 1] + lens[i]
  BY <1>5
<1> DEFINE T == {m \in 0 .. n : at[m] # g[m]}
<1>7. T = {}
  <2> SUFFICES ASSUME T # {} PROVE FALSE
    OBVIOUS
  <2>1. PICK m \in T : \A k \in T : m <= k
    <3>1. T \subseteq Nat
      BY <1>1
    <3> HIDE DEF T
    <3> QED BY <3>1, LeastNat
  <2>2. CASE m = 0
    <3>1. at[0] = first
      BY <1>1, <1>5
    <3> QED BY <1>2, <2>1, <2>2, <3>1 DEF AreSums
  <2>3. CASE m # 0
    <3>1. m \in 1 .. n /\ m - 1 \in 0 .. n /\ m - 1 < m
      BY <1>1, <2>1, <2>3
    <3>2. at[m - 1] = g[m - 1]
      BY <2>1, <3>1
    <3>3. at[m] = at[m - 1] + lens[m]
      BY <1>6, <2>1, <2>3
    <3>4. g[m] = g[m - 1] + lens[m]
      BY <1>2, <3>1 DEF AreSums
    <3> QED BY <2>1, <3>2, <3>3, <3>4
  <2> QED BY <2>2, <2>3
<1>8. at = g
  <2>1. DOMAIN at = 0 .. n /\ at = [i \in 0 .. n |-> at[i]]
    BY <1>5
  <2>2. DOMAIN g = 0 .. n /\ g = [i \in 0 .. n |-> g[i]]
    BY <1>2 DEF AreSums
  <2>3. \A i \in 0 .. n : at[i] = g[i]
    BY <1>7
  <2> HIDE DEF T
  <2> QED BY <2>1, <2>2, <2>3
<1> QED BY <1>2, <1>8 DEF at

\* Sums of the same sizes differ as their beginnings do.
LEMMA SumsDiffer ==
  ASSUME NEW m \in Nat, NEW a \in Int, NEW b \in Int, NEW f, NEW g, NEW lens, NEW more,
         AreSums(f, a, lens, m), AreSums(g, b, more, m),
         \A i \in 1 .. m : lens[i] = more[i] /\ lens[i] \in Nat
  PROVE  \A i \in 0 .. m : f[i] + b = g[i] + a
<1> DEFINE T == {i \in 0 .. m : f[i] + b # g[i] + a}
<1> SUFFICES ASSUME T # {} PROVE FALSE
  OBVIOUS
<1>1. PICK i \in T : \A k \in T : i <= k
  <2>1. T \subseteq Nat
    OBVIOUS
  <2> HIDE DEF T
  <2> QED BY <2>1, LeastNat
<1>2. i # 0
  BY <1>1 DEF AreSums
<1>3. i \in 1 .. m /\ i - 1 \in 0 .. m /\ i - 1 < i
  BY <1>1, <1>2
<1>4. f[i - 1] + b = g[i - 1] + a
  BY <1>1, <1>3
<1>5. f[i] = f[i - 1] + lens[i] /\ g[i] = g[i - 1] + lens[i]
  BY <1>3 DEF AreSums
<1>6. f[i - 1] \in Int /\ g[i - 1] \in Int /\ lens[i] \in Nat
  BY <1>3 DEF AreSums
<1>7. f[i] + b = g[i] + a
  BY ONLY <1>4, <1>5, <1>6, a \in Int, b \in Int
<1> QED BY <1>1, <1>7

\* Sums of sizes do not decrease.
LEMMA SumsGrow ==
  ASSUME NEW m \in Nat, NEW a \in Int, NEW f, NEW lens,
         AreSums(f, a, lens, m), \A i \in 1 .. m : lens[i] \in Nat
  PROVE  \A j \in 0 .. m : \A i \in 0 .. j : f[i] <= f[j]
<1> DEFINE T == {j \in 0 .. m : \E i \in 0 .. j : ~(f[i] <= f[j])}
<1> SUFFICES ASSUME T # {} PROVE FALSE
  OBVIOUS
<1>1. PICK j \in T : \A k \in T : j <= k
  <2>1. T \subseteq Nat
    OBVIOUS
  <2> HIDE DEF T
  <2> QED BY <2>1, LeastNat
<1>2. PICK i \in 0 .. j : ~(f[i] <= f[j])
  BY <1>1
<1>3. j \in 0 .. m /\ f[i] \in Int /\ f[j] \in Int /\ i # j
  BY <1>1, <1>2 DEF AreSums
<1>4. j \in 1 .. m /\ j - 1 \in 0 .. m /\ j - 1 < j /\ i \in 0 .. j - 1
  BY <1>2, <1>3
<1>5. f[i] <= f[j - 1]
  BY <1>1, <1>4
<1>6. f[j] = f[j - 1] + lens[j] /\ lens[j] \in Nat /\ f[j - 1] \in Int
  BY <1>4 DEF AreSums
<1> QED BY ONLY <1>2, <1>3, <1>5, <1>6

-----------------------------------------------------------------------------
(* Where the blocks are. *)

\* Where block k + 1 starts, and the last one ends.
Start == Offsets(Header, sizes)
Last == Start[Len(sizes)]

\* The blocks start behind the header, one behind the other.
LEMMA StartsAre ==
  ASSUME sizes \in Seq(Nat), Header \in Nat
  PROVE  /\ Start[0] = Header
         /\ \A k \in 0 .. Len(sizes) : Start[k] \in Nat /\ Start[k] >= Header
         /\ \A k \in 1 .. Len(sizes) : Start[k] = Start[k - 1] + sizes[k]
         /\ \A k \in 0 .. Len(sizes) : \A i \in 0 .. k : Start[i] <= Start[k]
<1> DEFINE n == Len(sizes)
           at == Offsets(Header, sizes)
<1>1. n \in Nat /\ \A i \in 1 .. n : sizes[i] \in Nat
  OBVIOUS
<1>2. AreSums(at, Header, sizes, n)
  BY OffsetsAre
<1>3. \A j \in 0 .. n : \A i \in 0 .. j : at[i] <= at[j]
  <2> HIDE DEF at, n
  <2> QED BY <1>1, <1>2, SumsGrow
<1> HIDE DEF at
<1>4. \A k \in 0 .. n : at[k] \in Int /\ at[0] <= at[k] /\ at[0] = Header
  BY <1>1, <1>2, <1>3 DEF AreSums
<1>5. \A k \in 0 .. n : at[k] \in Nat /\ at[k] >= Header
  BY <1>4
<1>6. \A k : Start[k] = at[k]
  BY DEF Start, at
<1>7. \A k \in 1 .. n : at[k] = at[k - 1] + sizes[k]
  BY <1>2 DEF AreSums
<1>8. at[0] = Header
  BY <1>2 DEF AreSums
<1> QED BY <1>1, <1>3, <1>5, <1>6, <1>7, <1>8

\* Another beginning moves all of them.
LEMMA OffsetsMoved ==
  ASSUME sizes \in Seq(Nat), Header \in Nat, NEW d \in Int
  PROVE  \A k \in 0 .. Len(sizes) : Offsets(Header - d, sizes)[k] = Start[k] - d
<1> DEFINE n == Len(sizes)
           at == Offsets(Header, sizes)
           moved == Offsets(Header - d, sizes)
<1>1. n \in Nat /\ \A i \in 1 .. n : sizes[i] = sizes[i] /\ sizes[i] \in Nat
  OBVIOUS
<1>2. Header \in Int /\ Header - d \in Int
  OBVIOUS
<1>3. AreSums(at, Header, sizes, n) /\ AreSums(moved, Header - d, sizes, n)
  BY <1>2, OffsetsAre
<1>4. \A i \in 0 .. n : at[i] + (Header - d) = moved[i] + Header
  <2> HIDE DEF at, moved, n
  <2> QED BY <1>1, <1>2, <1>3, SumsDiffer
<1>5. \A i \in 0 .. n : at[i] \in Int /\ moved[i] \in Int
  BY <1>3 DEF AreSums
<1>6. \A i \in 0 .. n : Start[i] = at[i]
  BY DEF Start
<1> HIDE DEF at
<1>7. ASSUME NEW i \in 0 .. n PROVE moved[i] = Start[i] - d
  <2> DEFINE p == at[i]
             q == moved[i]
  <2>1. p \in Int /\ q \in Int /\ p + (Header - d) = q + Header
    BY <1>4, <1>5
  <2> HIDE DEF p, q
  <2>2. q = p - d
    BY ONLY <2>1, Header \in Nat, d \in Int
  <2> QED BY <1>6, <2>2 DEF p, q
<1> QED BY <1>7

\* A further size does not change the sums before it.
LEMMA SumsAppend ==
  ASSUME NEW first \in Nat, NEW lens \in Seq(Nat), NEW x \in Nat, NEW longer,
         longer = Append(lens, x)
  PROVE  /\ \A k \in 0 .. Len(lens) : Offsets(first, longer)[k] = Offsets(first, lens)[k]
         /\ Offsets(first, longer)[Len(lens) + 1] = Offsets(first, lens)[Len(lens)] + x
<1> DEFINE n == Len(lens)
           at == Offsets(first, lens)
           more == Offsets(first, longer)
           part == [i \in 0 .. n |-> more[i]]
<1>1. n \in Nat /\ \A i \in 1 .. n : lens[i] = longer[i] /\ lens[i] \in Nat
  OBVIOUS
<1>2. longer \in Seq(Nat) /\ Len(longer) = n + 1 /\ longer[n + 1] = x /\ first \in Int
  OBVIOUS
<1>3. AreSums(at, first, lens, n) /\ AreSums(more, first, longer, n + 1)
  BY <1>2, OffsetsAre
<1>4. AreSums(part, first, longer, n)
  BY <1>1, <1>3 DEF AreSums
<1> HIDE DEF at, more, n
<1>5. \A i \in 0 .. n : at[i] + first = part[i] + first
  <2> HIDE DEF part
  <2> QED BY ONLY <1>1, <1>2, <1>3, <1>4, SumsDiffer
<1>6. \A i \in 0 .. n : at[i] \in Int /\ part[i] \in Int
  BY <1>3, <1>4 DEF AreSums
<1>7. \A i \in 0 .. n : at[i] = more[i]
  <2>1. \A i \in 0 .. n : at[i] = part[i]
    <3> HIDE DEF part
    <3> QED BY <1>2, <1>5, <1>6
  <2> QED BY <2>1
<1>8. more[n + 1] = more[n] + x
  BY <1>1, <1>2, <1>3 DEF AreSums
<1>9. n \in 0 .. n
  BY <1>1
<1> QED BY <1>7, <1>8, <1>9 DEF at, more, n

\* A further block starts where the last one ended.
LEMMA OneMore ==
  ASSUME sizes \in Seq(Nat), Header \in Nat, NEW x \in Nat,
         sizes' = Append(sizes, x), Header' = Header
  PROVE  /\ \A k \in 0 .. Len(sizes) : Start'[k] = Start[k]
         /\ Start'[Len(sizes) + 1] = Last + x
<1>1. /\ \A k \in 0 .. Len(sizes) : Offsets(Header, sizes')[k] = Offsets(Header, sizes)[k]
      /\ Offsets(Header, sizes')[Len(sizes) + 1] = Offsets(Header, sizes)[Len(sizes)] + x
  <2>1. \A longer : longer = Append(sizes, x) =>
          /\ \A k \in 0 .. Len(sizes) : Offsets(Header, longer)[k] = Offsets(Header, sizes)[k]
          /\ Offsets(Header, longer)[Len(sizes) + 1] = Offsets(Header, sizes)[Len(sizes)] + x
    BY ONLY SumsAppend, sizes \in Seq(Nat), Header \in Nat, x \in Nat
  <2> QED BY <2>1
<1>2. Start' = Offsets(Header, sizes')
  BY DEF Start
<1> QED BY <1>1, <1>2 DEF Start, Last

-----------------------------------------------------------------------------
(* What streams hold. *)

Cell == {"word"} \X Int \cup {"hole"} \X {0} \cup {"trailer", "plain"} \X Nat
          \cup {"data"} \X Nat \X Nat

Streams == [cells : Seq(Cell), pos : Nat, cap : Nat, err : {"none", "limit", "offset"}]

\* What cells are made of.
LEMMA CellsAre ==
  /\ \A n \in Int : Word(n) \in Cell /\ Word(n)[1] = "word" /\ Word(n)[2] = n
  /\ Hole \in Cell
  /\ \A i \in Nat : <<"trailer", i>> \in Cell /\ <<"plain", i>> \in Cell
  /\ \A k, i \in Nat : <<"data", k, i>> \in Cell
BY DEF Cell, Word, Hole

\* A function on 1 .. n is a sequence.
LEMMA Listed ==
  ASSUME NEW n \in Nat, NEW S, NEW f \in [1 .. n -> S]
  PROVE  f \in Seq(S) /\ Len(f) = n
OBVIOUS

\* A block is a sequence of cells.
LEMMA DataIs ==
  ASSUME NEW k \in Nat, NEW n \in Nat
  PROVE  Data(k, n) \in Seq(Cell) /\ Len(Data(k, n)) = n
<1>1. Data(k, n) \in [1 .. n -> Cell]
  BY CellsAre DEF Data
<1> QED BY <1>1, Listed

\* The trailer is one, too.
LEMMA TrailerIs == Trailer \in Seq(Cell) /\ Len(Trailer) = TrailerLen /\ TrailerLen \in Nat
<1>1. TrailerLen \in Nat
  BY CompressedFileAssumption
<1>2. ASSUME NEW i \in Nat PROVE <<"trailer", i>> \in Cell
  BY DEF Cell
<1>3. Trailer \in [1 .. TrailerLen -> Cell]
  BY <1>1, <1>2 DEF Trailer
<1> QED BY <1>1, <1>3, Listed

\* Cells of what is written are those of the new, and otherwise those that were there; a
\* hole is what was skipped.
Overlaid(all, cells, p, new) ==
  /\ all \in Seq(Cell)
  /\ Len(all) = Greater(Len(cells), p + Len(new))
  /\ \A i \in 1 .. Len(new) : all[p + i] = new[i]
  /\ \A i \in 1 .. Len(cells) : i <= p => all[i] = cells[i]
  /\ \A i \in 1 .. Len(cells) : i > p + Len(new) => all[i] = cells[i]
  /\ \A i \in 1 .. p : i > Len(cells) => all[i] = Hole

\* Overlay does that.
LEMMA OverlayIs ==
  ASSUME NEW cells \in Seq(Cell), NEW p \in Nat, NEW new \in Seq(Cell)
  PROVE  Overlaid(Overlay(cells, p, new), cells, p, new)
<1> DEFINE n == Len(new)
           m == Greater(Len(cells), p + n)
           c(i) == IF i \in p + 1 .. p + n THEN new[i - p]
                   ELSE IF i <= Len(cells) THEN cells[i] ELSE Hole
           f == [i \in 1 .. m |-> c(i)]
<1>1. /\ n \in Nat /\ m \in Nat /\ Len(cells) \in Nat
      /\ m >= p + n /\ m >= Len(cells)
  BY DEF Greater
<1>2. \A i \in p + 1 .. p + n : i - p \in 1 .. n
  BY <1>1
<1>3. \A i \in 1 .. n : new[i] \in Cell
  OBVIOUS
<1>4. \A i \in 1 .. Len(cells) : cells[i] \in Cell
  OBVIOUS
<1>5. ASSUME NEW i \in 1 .. m PROVE c(i) \in Cell
  <2>1. CASE i \in p + 1 .. p + n
    BY <1>2, <1>3, <2>1
  <2>2. CASE i \notin p + 1 .. p + n /\ i <= Len(cells)
    BY <1>1, <1>4, <2>2
  <2>3. CASE i \notin p + 1 .. p + n /\ ~(i <= Len(cells))
    BY <2>3, CellsAre
  <2> QED BY <2>1, <2>2, <2>3
<1>6. f \in [1 .. m -> Cell]
  <2> HIDE DEF c, m
  <2> QED BY <1>5
<1>7. f \in Seq(Cell) /\ Len(f) = m
  <2> HIDE DEF f
  <2> QED BY <1>1, <1>6, Listed
<1>8. \A i \in 1 .. m : f[i] = c(i)
  OBVIOUS
<1> HIDE DEF f, m
<1>9. ASSUME NEW i \in 1 .. n PROVE f[p + i] = new[i]
  <2>1. p + i \in 1 .. m /\ p + i \in p + 1 .. p + n /\ (p + i) - p = i
    BY <1>1
  <2> QED BY <1>8, <2>1
<1>10. ASSUME NEW i \in 1 .. Len(cells), i <= p \/ i > p + n PROVE f[i] = cells[i]
  <2>1. i \in 1 .. m /\ i \notin p + 1 .. p + n /\ i <= Len(cells)
    BY <1>1, <1>10
  <2> QED BY <1>8, <2>1
<1>11. ASSUME NEW i \in 1 .. p, i > Len(cells) PROVE f[i] = Hole
  <2>1. i \in 1 .. m /\ i \notin p + 1 .. p + n /\ ~(i <= Len(cells))
    BY <1>1, <1>11
  <2> QED BY <1>8, <2>1
<1>12. Overlay(cells, p, new) = f
  BY DEF Overlay, f, m
<1> QED BY <1>7, <1>9, <1>10, <1>11, <1>12 DEF m, Overlaid

\* A write leaves a stream; one that did not fail wrote what it was given.
LEMMA WriteIs ==
  ASSUME NEW where, NEW limit \in Nat, NEW s \in Streams, NEW new \in Seq(Cell)
  PROVE  LET t == Write(where, limit, s, new) IN
           /\ t \in Streams
           /\ t.err = "none" => /\ s.err = "none" /\ t.cells = Overlay(s.cells, s.pos, new)
                                /\ t.pos = s.pos + Len(new)
           /\ where = "fork" /\ s.pos <= MaxOffset => t.pos <= MaxOffset
           /\ \/ t.pos = s.pos /\ t.cells = s.cells
              \/ t.pos = s.pos + Len(new) /\ t.cells = Overlay(s.cells, s.pos, new)
<1> DEFINE end == s.pos + Len(new)
           grown == GrowTo(s.cap, end, limit)
           t == Write(where, limit, s, new)
           over == [cells |-> Overlay(s.cells, s.pos, new), pos |-> end, cap |-> grown,
                    err |-> s.err]
           refused(r) == [s EXCEPT !.err = IF s.err = "none" THEN r ELSE s.err]
<1>1. /\ s.cells \in Seq(Cell) /\ s.pos \in Nat /\ s.cap \in Nat /\ Len(new) \in Nat
      /\ s.err \in {"none", "limit", "offset"}
  BY DEF Streams
<1>2. end \in Nat /\ grown \in Nat
  BY <1>1 DEF GrowTo, Lesser, Greater
<1>3. Overlay(s.cells, s.pos, new) \in Seq(Cell)
  BY <1>1, OverlayIs DEF Overlaid
<1>4. over \in Streams
  <2> HIDE DEF end, grown
  <2> QED BY <1>1, <1>2, <1>3 DEF Streams
<1>5. ASSUME NEW r \in {"limit", "offset"}
      PROVE  /\ refused(r) \in Streams /\ refused(r).err # "none"
             /\ refused(r).pos = s.pos /\ refused(r).cells = s.cells
  BY <1>1 DEF Streams
<1>6. \/ t = over /\ (where = "fork" => end <= MaxOffset)
      \/ t = refused("limit") \/ t = refused("offset")
  BY <1>2, CompressedFileAssumption DEF Write, Refuse
<1> HIDE DEF t, refused
<1>7. CASE t = over /\ (where = "fork" => end <= MaxOffset)
  BY <1>4, <1>7 DEF t
<1>8. CASE t = refused("limit") \/ t = refused("offset")
  BY <1>5, <1>8 DEF t
<1> QED BY <1>6, <1>7, <1>8

\* Positioning leaves the cells alone.
LEMMA SeekIs ==
  ASSUME NEW where, NEW s \in Streams, NEW p \in Nat
  PROVE  LET t == Seek(where, s, p) IN
           /\ t \in Streams /\ t.cells = s.cells
           /\ t.err = "none" => s.err = "none" /\ t.pos = p
           /\ where = "fork" /\ s.pos <= MaxOffset => t.pos <= MaxOffset
<1> DEFINE t == Seek(where, s, p)
<1>1. \/ t = [s EXCEPT !.pos = p] /\ (where = "fork" => p <= MaxOffset)
      \/ t = [s EXCEPT !.err = IF s.err = "none" THEN "offset" ELSE s.err]
  BY CompressedFileAssumption DEF Seek, Refuse
<1> QED BY <1>1 DEF Streams

\* And so does a refusal, which is remembered.
LEMMA RefuseIs ==
  ASSUME NEW s \in Streams
  PROVE  LET t == Refuse(s, "offset") IN
           t \in Streams /\ t.err # "none" /\ t.cells = s.cells /\ t.pos = s.pos
<1>1. Refuse(s, "offset") = [s EXCEPT !.err = IF s.err = "none" THEN "offset" ELSE s.err]
  BY DEF Refuse
<1> QED BY <1>1 DEF Streams

-----------------------------------------------------------------------------
(* The layout of a file. *)

\* The cells of each block are behind those of the blocks before it.
Placed(c) ==
  \A k \in 1 .. Len(sizes) : \A i \in 1 .. sizes[k] : c[Start[k - 1] + i] = written[k][i]

LzLayout(c) ==
  /\ Len(c) = Last
  /\ \A k \in 0 .. Len(sizes) : c[k + 1] = Word(Start[k])

ZlibLayout(c) ==
  /\ Len(c) = Last + TrailerLen
  /\ \A i \in 1 .. 4 : c[i] = ZlibHeader(Last)[i]
  /\ \A p \in 5 .. TableStart - 1 : c[p] = Hole
  /\ c[TableStart] = Word(Last - TableStart) /\ c[TableStart + 1] = Word(Len(sizes))
  /\ \A k \in 1 .. Len(sizes) :
       /\ c[TableStart + 2 * k] = Word(Start[k - 1] - TableStart)
       /\ c[TableStart + 2 * k + 1] = Word(sizes[k])
  /\ \A i \in 1 .. TrailerLen : c[Last + i] = Trailer[i]

Layout(c) == Placed(c) /\ IF kind = "zlib" THEN ZlibLayout(c) ELSE LzLayout(c)

\* Before it is sealed: blocks behind a hole for the header.
Raw(s) ==
  /\ s.pos = Last /\ Len(s.cells) = Last
  /\ Placed(s.cells)
  /\ \A p \in 1 .. Header : s.cells[p] = Hole

\* A resource fork does not outgrow 32 bits.
Sound(s) ==
  /\ s \in Streams
  /\ storage = "fork" => s.pos <= MaxOffset /\ Len(s.cells) <= MaxOffset

\* The writer's writes, in a stream that may be a resource fork.
LEMMA PutIs ==
  ASSUME Limit \in Nat, NEW s, Sound(s), NEW new \in Seq(Cell)
  PROVE  LET t == Put(s, new) IN
           /\ Sound(t)
           /\ t.err = "none" => /\ s.err = "none" /\ Overlaid(t.cells, s.cells, s.pos, new)
                                /\ t.pos = s.pos + Len(new)
<1> DEFINE t == Put(s, new)
           all == Overlay(s.cells, s.pos, new)
<1>1. s \in Streams /\ s.cells \in Seq(Cell) /\ s.pos \in Nat
  BY DEF Sound, Streams
<1>2. /\ t \in Streams
      /\ t.err = "none" => /\ s.err = "none" /\ t.cells = all /\ t.pos = s.pos + Len(new)
      /\ storage = "fork" /\ s.pos <= MaxOffset => t.pos <= MaxOffset
      /\ \/ t.pos = s.pos /\ t.cells = s.cells
         \/ t.pos = s.pos + Len(new) /\ t.cells = all
  BY <1>1, WriteIs DEF Put
<1>3. Overlaid(all, s.cells, s.pos, new)
  BY <1>1, OverlayIs
<1>4. Len(all) = Greater(Len(s.cells), s.pos + Len(new))
  BY <1>3 DEF Overlaid
<1>5. Len(s.cells) \in Nat /\ MaxOffset \in Nat /\ Len(new) \in Nat
  BY <1>1, CompressedFileAssumption
<1> HIDE DEF t, all
<1>6. storage = "fork" => t.pos <= MaxOffset /\ Len(t.cells) <= MaxOffset
  BY <1>1, <1>2, <1>5, <1>4 DEF Sound, Greater
<1> QED BY <1>2, <1>3, <1>6 DEF t, all, Sound

\* The writer's positioning.
LEMMA RewindIs ==
  ASSUME NEW s, Sound(s), NEW p \in Nat
  PROVE  LET t == Rewind(s, p) IN
           /\ Sound(t) /\ t.cells = s.cells
           /\ t.err = "none" => s.err = "none" /\ t.pos = p
BY SeekIs DEF Sound, Rewind

\* The writer's complaint about an offset.
LEMMA RefuseSound ==
  ASSUME NEW s, Sound(s)
  PROVE  Sound(Refuse(s, "offset")) /\ Refuse(s, "offset").err # "none"
BY RefuseIs DEF Sound

\* Blocks are between the header and the end.
LEMMA Inside ==
  ASSUME sizes \in Seq(Nat), Header \in Nat
  PROVE  /\ Last \in Nat /\ Last >= Header
         /\ \A k \in 1 .. Len(sizes) : \A i \in 1 .. sizes[k] :
              /\ Start[k - 1] + i \in Nat /\ Start[k - 1] + i > Header
              /\ Start[k - 1] + i <= Last
<1> DEFINE n == Len(sizes)
<1>1. n \in Nat /\ \A k \in 1 .. n : sizes[k] \in Nat
  OBVIOUS
<1>2. /\ \A k \in 0 .. n : Start[k] \in Nat /\ Start[k] >= Header
      /\ \A k \in 1 .. n : Start[k] = Start[k - 1] + sizes[k]
      /\ \A k \in 0 .. n : \A i \in 0 .. k : Start[i] <= Start[k]
  BY StartsAre
<1>3. ASSUME NEW k \in 1 .. n, NEW i \in 1 .. sizes[k]
      PROVE  /\ Start[k - 1] + i \in Nat /\ Start[k - 1] + i > Header
             /\ Start[k - 1] + i <= Start[n]
  <2>1. /\ Start[k - 1] \in Nat /\ Start[k - 1] >= Header /\ Start[n] \in Nat
        /\ Start[k] = Start[k - 1] + sizes[k] /\ Start[k] <= Start[n] /\ sizes[k] \in Nat
    <3>1. k \in 0 .. n /\ k - 1 \in 0 .. n /\ n \in 0 .. n
      BY ONLY <1>1, k \in 1 .. n
    <3> HIDE DEF n
    <3>2. Start[k - 1] \in Nat /\ Start[k - 1] >= Header /\ Start[n] \in Nat
      BY ONLY <1>2, <3>1
    <3>3. Start[k] <= Start[n]
      BY ONLY <1>2, <3>1
    <3> QED BY <1>1, <1>2, <3>2, <3>3
  <2> HIDE DEF n
  <2> QED BY ONLY <2>1, i \in 1 .. sizes[k], Header \in Nat
<1> QED BY <1>1, <1>2, <1>3 DEF Last

\* Blocks stay where they are if only the header changes.
LEMMA PlacedKept ==
  ASSUME sizes \in Seq(Nat), Header \in Nat, NEW c, NEW d, Placed(c),
         \A p \in Nat : p > Header /\ p <= Last => d[p] = c[p]
  PROVE  Placed(d)
BY Inside DEF Placed

-----------------------------------------------------------------------------
(* What sealing writes. *)

\* LZVN and LZFSE: the table goes before the blocks.
LEMMA LzSealed ==
  ASSUME kind # "zlib", sizes \in Seq(Nat), Len(sizes) = Need, Limit \in Nat, Header \in Nat,
         NEW s, Sound(s)
  PROVE  /\ Sound(LzFinish(s))
         /\ LzFinish(s).err = "none" /\ Raw(s) => Layout(LzFinish(s).cells)
<1> DEFINE n == Len(sizes)
           table == [i \in 1 .. n + 1 |-> Word(Start[i - 1])]
           done == Put(Rewind(s, 0), table)
           d == done.cells
<1>1. n \in Nat /\ n + 1 \in Nat /\ Header = n + 1
  BY DEF Header, header_size, LzHeaderSize
<1>2. \A k \in 0 .. n : Start[k] \in Nat
  BY StartsAre
<1>3. table \in Seq(Cell) /\ Len(table) = n + 1
  <2>1. \A i \in 1 .. n + 1 : Word(Start[i - 1]) \in Cell
    BY <1>1, <1>2, CellsAre
  <2>2. table \in [1 .. n + 1 -> Cell]
    BY <2>1
  <2> HIDE DEF table
  <2> QED BY <1>1, <2>2, Listed
<1>4. /\ Sound(Rewind(s, 0)) /\ Rewind(s, 0).cells = s.cells
      /\ Rewind(s, 0).err = "none" => Rewind(s, 0).pos = 0
  BY RewindIs
<1>5. /\ Sound(done)
      /\ done.err = "none" => Overlaid(d, s.cells, 0, table)
  <2> HIDE DEF table
  <2> QED BY <1>3, <1>4, PutIs
<1>6. LzFinish(s) = done \/ LzFinish(s) = Refuse(done, "offset")
  BY <1>1 DEF LzFinish, Start, Header
<1>7. Sound(Refuse(done, "offset")) /\ Refuse(done, "offset").err # "none"
  BY <1>5, RefuseSound
<1>8. ASSUME LzFinish(s).err = "none", Raw(s)
      PROVE  Layout(LzFinish(s).cells)
  <2>1. LzFinish(s) = done /\ Overlaid(d, s.cells, 0, table)
    BY <1>5, <1>6, <1>7, <1>8
  <2>2. s.cells \in Seq(Cell) /\ Len(s.cells) = Last
    BY <1>8 DEF Raw, Sound, Streams
  <2>3. Last \in Nat /\ Last >= Header
    BY Inside
  <2>4. /\ Len(d) = Greater(Last, 0 + (n + 1))
        /\ \A i \in 1 .. n + 1 : d[0 + i] = table[i]
        /\ \A i \in 1 .. Last : i > 0 + (n + 1) => d[i] = s.cells[i]
    <3> HIDE DEF table, d, n
    <3> QED BY <1>3, <2>1, <2>2 DEF Overlaid
  <2> HIDE DEF d, done
  <2>5. Len(d) = Last
    BY <1>1, <2>3, <2>4 DEF Greater
  <2>6. ASSUME NEW k \in 0 .. n PROVE d[k + 1] = Word(Start[k])
    <3>1. k + 1 \in 1 .. n + 1 /\ (k + 1) - 1 = k /\ 0 + (k + 1) = k + 1
      BY <1>1
    <3>2. d[k + 1] = table[k + 1]
      BY <2>4, <3>1
    <3> QED BY <3>1, <3>2
  <2>7. Placed(d)
    <3>1. \A p \in Nat : p > Header /\ p <= Last => d[p] = s.cells[p]
      BY <1>1, <2>3, <2>4
    <3> QED BY <1>8, <3>1, PlacedKept DEF Raw
  <2> QED BY <2>1, <2>5, <2>6, <2>7 DEF Layout, LzLayout, d
<1> QED BY <1>5, <1>6, <1>7, <1>8

\* Two cells in front of others.
LEMMA TwoInFront ==
  ASSUME NEW a \in Cell, NEW b \in Cell, NEW t \in Seq(Cell)
  PROVE  LET all == <<a, b>> \o t IN
           /\ all \in Seq(Cell) /\ Len(all) = 2 + Len(t)
           /\ all[1] = a /\ all[2] = b
           /\ \A i \in 1 .. Len(t) : all[2 + i] = t[i]
<1>1. <<a, b>> \in Seq(Cell) /\ Len(<<a, b>>) = 2 /\ <<a, b>>[1] = a /\ <<a, b>>[2] = b
  OBVIOUS
<1> DEFINE ab == <<a, b>>
<1> HIDE DEF ab
<1>2. ab \in Seq(Cell) /\ Len(ab) = 2 /\ ab[1] = a /\ ab[2] = b
  BY <1>1 DEF ab
<1>3. /\ ab \o t \in Seq(Cell) /\ Len(ab \o t) = 2 + Len(t)
      /\ (ab \o t)[1] = a /\ (ab \o t)[2] = b
      /\ \A i \in 1 .. Len(t) : (ab \o t)[2 + i] = t[i]
  <2>1. /\ ab \o t \in Seq(Cell) /\ Len(ab \o t) = 2 + Len(t)
        /\ \A i \in 1 .. 2 + Len(t) :
             (ab \o t)[i] = IF i <= 2 THEN ab[i] ELSE t[i - 2]
    <3>1. /\ ab \o t \in Seq(Cell) /\ Len(ab \o t) = Len(ab) + Len(t)
          /\ \A i \in 1 .. Len(ab) + Len(t) :
               (ab \o t)[i] = IF i <= Len(ab) THEN ab[i] ELSE t[i - Len(ab)]
      <4>1. ab \in Seq(Cell)
        BY <1>2
      <4> QED BY ONLY <4>1, t \in Seq(Cell), ConcatProperties
    <3> QED BY <1>2, <3>1
  <2>2. Len(t) \in Nat
    OBVIOUS
  <2>3. \A i \in 1 .. Len(t) : 2 + i \in 1 .. 2 + Len(t) /\ ~(2 + i <= 2) /\ (2 + i) - 2 = i
    BY <2>2
  <2> QED BY <1>2, <2>1, <2>2, <2>3
<1> QED BY <1>3 DEF ab

\* The ZLIB header has four words.
LEMMA ZlibHeaderIs ==
  ASSUME NEW e \in Int
  PROVE  ZlibHeader(e) \in Seq(Cell) /\ Len(ZlibHeader(e)) = 4
<1>1. /\ Word(TableStart - 1) \in Cell /\ Word(e) \in Cell
      /\ Word(e - (TableStart - 1)) \in Cell /\ Word(TrailerLen) \in Cell
  BY CellsAre, CompressedFileAssumption
<1> QED BY <1>1 DEF ZlibHeader

\* The table of blocks, as it is written.
\* What ZlibFinish puts behind the number of blocks.
Entry(i) == IF i % 2 = 1 THEN Word(Start[(i - 1) \div 2] - TableStart)
            ELSE Word(sizes[i \div 2])
Entries == [i \in 1 .. 2 * Len(sizes) |-> Entry(i)]

\* The entries of a ZLIB table, in pairs.
LEMMA EntriesAre ==
  ASSUME sizes \in Seq(Nat), Header \in Nat
  PROVE  /\ Entries \in Seq(Cell) /\ Len(Entries) = 2 * Len(sizes)
         /\ \A k \in 1 .. Len(sizes) :
              /\ Entries[2 * k - 1] = Word(Start[k - 1] - TableStart)
              /\ Entries[2 * k] = Word(sizes[k])
<1> DEFINE n == Len(sizes)
<1>1. n \in Nat /\ 2 * n \in Nat /\ TableStart \in Int
  BY CompressedFileAssumption
<1>2. \A k \in 0 .. n : Start[k] \in Nat
  BY StartsAre
<1>3. ASSUME NEW i \in 1 .. 2 * n PROVE Entry(i) \in Cell
  <2>1. CASE i % 2 = 1
    <3>1. (i - 1) \div 2 \in 0 .. n
      BY ONLY <1>1, <2>1, i \in 1 .. 2 * n
    <3>2. Start[(i - 1) \div 2] - TableStart \in Int
      BY <1>1, <1>2, <3>1
    <3> QED BY <2>1, <3>2, CellsAre DEF Entry
  <2>2. CASE i % 2 # 1
    <3>1. i \div 2 \in 1 .. n
      BY ONLY <1>1, <2>2, i \in 1 .. 2 * n
    <3>2. sizes[i \div 2] \in Int
      BY <3>1
    <3> QED BY <2>2, <3>2, CellsAre DEF Entry
  <2> QED BY <2>1, <2>2
<1>4. Entries \in [1 .. 2 * n -> Cell]
  BY <1>3 DEF Entries
<1>5. Entries \in Seq(Cell) /\ Len(Entries) = 2 * n
  <2> HIDE DEF n
  <2> QED BY <1>1, <1>4, Listed
<1>6. ASSUME NEW k \in 1 .. n
      PROVE  /\ Entries[2 * k - 1] = Word(Start[k - 1] - TableStart)
             /\ Entries[2 * k] = Word(sizes[k])
  <2>1. /\ 2 * k - 1 \in 1 .. 2 * n /\ 2 * k \in 1 .. 2 * n
        /\ (2 * k - 1) % 2 = 1 /\ ((2 * k - 1) - 1) \div 2 = k - 1
        /\ (2 * k) % 2 # 1 /\ (2 * k) \div 2 = k
    BY ONLY <1>1, k \in 1 .. n
  <2> DEFINE i == 2 * k - 1
             j == 2 * k
  <2>2. Entries[i] = Entry(i) /\ Entries[j] = Entry(j)
    BY <2>1 DEF Entries
  <2>3. /\ i % 2 = 1 /\ (i - 1) \div 2 = k - 1
        /\ j % 2 # 1 /\ j \div 2 = k
    BY <2>1
  <2> HIDE DEF i, j
  <2>4. Entry(i) = Word(Start[k - 1] - TableStart) /\ Entry(j) = Word(sizes[k])
    BY <2>3 DEF Entry
  <2> QED BY <2>2, <2>4 DEF i, j
<1> QED BY <1>5, <1>6

\* What ZlibFinish writes, step by step.
Trailed(s) == Rewind(Put(s, Trailer), 0)
Headed(s) == Rewind(Put(Trailed(s), ZlibHeader(s.pos)), TableStart - 1)
Table(s) == <<Word(s.pos - TableStart), Word(Len(sizes))>> \o Entries
Tabled(s) == Put(Headed(s), Table(s))

\* That is what it does.
LEMMA ZlibFinishIs ==
  ASSUME kind = "zlib", sizes \in Seq(Nat), Len(sizes) = Need, Header \in Nat, NEW s
  PROVE  ZlibFinish(s) = Tabled(s) \/ ZlibFinish(s) = Refuse(Tabled(s), "offset")
<1> DEFINE n == Len(sizes)
           at == Offsets(header_size(kind, n) - TableStart, sizes)
           entries == [i \in 1 .. 2 * n |->
                         IF i % 2 = 1 THEN Word(at[(i - 1) \div 2]) ELSE Word(sizes[i \div 2])]
<1>1. \A k \in 0 .. n : at[k] = Start[k] - TableStart
  BY OffsetsMoved, CompressedFileAssumption DEF Header
<1>2. n \in Nat
  OBVIOUS
<1> HIDE DEF at
<1>3. ASSUME NEW i \in 1 .. 2 * n, i % 2 = 1
      PROVE  at[(i - 1) \div 2] = Start[(i - 1) \div 2] - TableStart
  <2>1. (i - 1) \div 2 \in 0 .. n
    BY ONLY <1>2, <1>3, i \in 1 .. 2 * n
  <2> QED BY <1>1, <2>1
<1>4. entries = Entries
  <2>1. \A i \in 1 .. 2 * n :
          (IF i % 2 = 1 THEN Word(at[(i - 1) \div 2]) ELSE Word(sizes[i \div 2])) = Entry(i)
    BY <1>3 DEF Entry
  <2> QED BY <2>1 DEF Entries
<1>5. ZlibFinish(s) = IF s.pos <= MaxOffset /\ at[n] <= MaxOffset
                        THEN Put(Headed(s), <<Word(s.pos - TableStart), Word(n)>> \o entries)
                      ELSE Refuse(Put(Headed(s), <<Word(s.pos - TableStart), Word(n)>> \o entries),
                                  "offset")
  BY DEF ZlibFinish, Headed, Trailed, at
<1> HIDE DEF entries
<1> QED BY <1>4, <1>5 DEF Tabled, Table

\* ZLIB: the trailer goes behind the blocks, header and table before them.
LEMMA ZlibSealed ==
  ASSUME kind = "zlib", sizes \in Seq(Nat), Len(sizes) = Need, Limit \in Nat, Header \in Nat,
         NEW s, Sound(s)
  PROVE  /\ Sound(ZlibFinish(s))
         /\ ZlibFinish(s).err = "none" /\ Raw(s) => Layout(ZlibFinish(s).cells)
<1> DEFINE n == Len(sizes)
           one == Put(s, Trailer)
           two == Put(Trailed(s), ZlibHeader(s.pos))
           head == ZlibHeader(s.pos)
           table == Table(s)
           three == Tabled(s)
<1>1. /\ n \in Nat /\ Header = TableStart + 1 + 2 * n
      /\ TableStart \in Nat /\ TableStart > 4 /\ TrailerLen \in Nat /\ s.pos \in Nat
  <2>1. n \in Nat /\ Header = TableStart + 1 + 2 * n
    BY DEF Header, header_size, ZlibHeaderSize
  <2>2. s.pos \in Nat
    BY DEF Sound, Streams
  <2> QED BY <2>1, <2>2, CompressedFileAssumption
<1>2. head \in Seq(Cell) /\ Len(head) = 4
  BY <1>1, ZlibHeaderIs
<1>3. /\ table \in Seq(Cell) /\ Len(table) = 2 + 2 * n
      /\ table[1] = Word(s.pos - TableStart) /\ table[2] = Word(n)
      /\ \A i \in 1 .. 2 * n : table[2 + i] = Entries[i]
  <2>1. Word(s.pos - TableStart) \in Cell /\ Word(n) \in Cell
    BY <1>1, CellsAre
  <2>2. Entries \in Seq(Cell) /\ Len(Entries) = 2 * n
    BY EntriesAre
  <2> QED BY <2>1, <2>2, TwoInFront DEF Table
<1>4. /\ Sound(one)
      /\ one.err = "none" => s.err = "none" /\ Overlaid(one.cells, s.cells, s.pos, Trailer)
  BY TrailerIs, PutIs
<1>5. /\ Sound(Trailed(s)) /\ Trailed(s).cells = one.cells
      /\ Trailed(s).err = "none" => one.err = "none" /\ Trailed(s).pos = 0
  BY <1>4, RewindIs DEF Trailed
<1>6. /\ Sound(two)
      /\ two.err = "none" => /\ Trailed(s).err = "none"
                             /\ Overlaid(two.cells, Trailed(s).cells, Trailed(s).pos, head)
  BY <1>2, <1>5, PutIs
<1>7. /\ Sound(Headed(s)) /\ Headed(s).cells = two.cells
      /\ Headed(s).err = "none" => two.err = "none" /\ Headed(s).pos = TableStart - 1
  <2>1. TableStart - 1 \in Nat
    BY <1>1
  <2> QED BY <1>6, <2>1, RewindIs DEF Headed
<1>8. /\ Sound(three)
      /\ three.err = "none" => /\ Headed(s).err = "none"
                               /\ Overlaid(three.cells, Headed(s).cells, Headed(s).pos, table)
  <2> HIDE DEF table
  <2> QED BY <1>3, <1>7, PutIs DEF Tabled, table
<1>9. Sound(Refuse(three, "offset")) /\ Refuse(three, "offset").err # "none"
  BY <1>8, RefuseSound
<1>10. ZlibFinish(s) = three \/ ZlibFinish(s) = Refuse(three, "offset")
  BY ZlibFinishIs
<1>11. ASSUME ZlibFinish(s).err = "none", Raw(s)
       PROVE  Layout(ZlibFinish(s).cells)
  <2> DEFINE a == s.cells
             b == one.cells
             c == two.cells
             d == three.cells
  <2>1. /\ ZlibFinish(s) = three
        /\ Overlaid(d, c, TableStart - 1, table) /\ Overlaid(c, b, 0, head)
        /\ Overlaid(b, a, s.pos, Trailer)
    BY <1>4, <1>5, <1>6, <1>7, <1>8, <1>9, <1>10, <1>11
  <2>2. a \in Seq(Cell) /\ Len(a) = Last /\ s.pos = Last
    BY <1>11 DEF Raw, Sound, Streams
  <2>3. Last \in Nat /\ Last >= Header
    BY Inside
  <2>4. head = ZlibHeader(Last)
    BY <2>2
  <2>5. table[1] = Word(Last - TableStart)
    BY <1>3, <2>2
  <2> HIDE DEF a, b, c, d, one, two, three, head, table, n
  <2>6. /\ Len(b) = Last + TrailerLen
        /\ \A i \in 1 .. TrailerLen : b[Last + i] = Trailer[i]
        /\ \A i \in 1 .. Last : b[i] = a[i]
    <3>1. /\ Len(b) = Greater(Last, Last + TrailerLen)
          /\ \A i \in 1 .. TrailerLen : b[Last + i] = Trailer[i]
          /\ \A i \in 1 .. Last : i <= Last => b[i] = a[i]
      BY ONLY <2>1, <2>2, TrailerIs DEF Overlaid
    <3> QED BY <1>1, <2>3, <3>1 DEF Greater
  <2>7. /\ Len(c) = Last + TrailerLen
        /\ \A i \in 1 .. 4 : c[i] = head[i]
        /\ \A i \in 1 .. Last + TrailerLen : i > 4 => c[i] = b[i]
    <3>1. /\ Len(c) = Greater(Last + TrailerLen, 0 + 4)
          /\ \A i \in 1 .. 4 : c[0 + i] = head[i]
          /\ \A i \in 1 .. Last + TrailerLen : i > 0 + 4 => c[i] = b[i]
      BY ONLY <2>1, <2>6, <1>2 DEF Overlaid
    <3> QED BY <1>1, <2>3, <3>1 DEF Greater
  <2>8. /\ Len(d) = Last + TrailerLen
        /\ \A i \in 1 .. 2 + 2 * n : d[(TableStart - 1) + i] = table[i]
        /\ \A i \in 1 .. Last + TrailerLen : i <= TableStart - 1 => d[i] = c[i]
        /\ \A i \in 1 .. Last + TrailerLen : i > Header => d[i] = c[i]
    <3>1. /\ Len(d) = Greater(Last + TrailerLen, (TableStart - 1) + (2 + 2 * n))
          /\ \A i \in 1 .. 2 + 2 * n : d[(TableStart - 1) + i] = table[i]
          /\ \A i \in 1 .. Last + TrailerLen : i <= TableStart - 1 => d[i] = c[i]
          /\ \A i \in 1 .. Last + TrailerLen : i > (TableStart - 1) + (2 + 2 * n) => d[i] = c[i]
      BY ONLY <2>1, <2>7, <1>3 DEF Overlaid
    <3>2. (TableStart - 1) + (2 + 2 * n) = Header
      BY <1>1
    <3>3. Greater(Last + TrailerLen, Header) = Last + TrailerLen
      BY <1>1, <2>3 DEF Greater
    <3> QED BY <3>1, <3>2, <3>3
  <2>9. Placed(d)
    <3>1. \A p \in Nat : p > Header /\ p <= Last => d[p] = a[p]
      BY ONLY <1>1, <2>3, <2>6, <2>7, <2>8
    <3>2. Placed(a)
      BY <1>11 DEF Raw, a
    <3> QED BY <3>1, <3>2, PlacedKept
  <2>10. \A i \in 1 .. 4 : d[i] = head[i]
    BY ONLY <1>1, <2>3, <2>7, <2>8
  <2>11. \A p \in 5 .. TableStart - 1 : d[p] = Hole
    <3>1. \A p \in 5 .. TableStart - 1 : d[p] = a[p] /\ p \in 1 .. Header
      BY ONLY <1>1, <2>3, <2>6, <2>7, <2>8
    <3>2. \A p \in 1 .. Header : a[p] = Hole
      BY <1>11 DEF Raw, a
    <3> QED BY <3>1, <3>2
  <2>12. d[TableStart] = table[1] /\ d[TableStart + 1] = table[2]
    <3>1. /\ 1 \in 1 .. 2 + 2 * n /\ (TableStart - 1) + 1 = TableStart
          /\ 2 \in 1 .. 2 + 2 * n /\ (TableStart - 1) + 2 = TableStart + 1
      BY <1>1
    <3> QED BY <2>8, <3>1
  <2>13. ASSUME NEW k \in 1 .. n
         PROVE  /\ d[TableStart + 2 * k] = Word(Start[k - 1] - TableStart)
                /\ d[TableStart + 2 * k + 1] = Word(sizes[k])
    <3>1. /\ 2 * k - 1 \in 1 .. 2 * n /\ 2 * k \in 1 .. 2 * n
          /\ 2 + (2 * k - 1) \in 1 .. 2 + 2 * n /\ 2 + 2 * k \in 1 .. 2 + 2 * n
          /\ (TableStart - 1) + (2 + (2 * k - 1)) = TableStart + 2 * k
          /\ (TableStart - 1) + (2 + 2 * k) = TableStart + 2 * k + 1
      BY ONLY <1>1, k \in 1 .. n
    <3>2. /\ d[TableStart + 2 * k] = table[2 + (2 * k - 1)]
          /\ d[TableStart + 2 * k + 1] = table[2 + 2 * k]
      BY <2>8, <3>1
    <3>3. /\ table[2 + (2 * k - 1)] = Entries[2 * k - 1]
          /\ table[2 + 2 * k] = Entries[2 * k]
      BY <1>3, <3>1
    <3>4. /\ Entries[2 * k - 1] = Word(Start[k - 1] - TableStart)
          /\ Entries[2 * k] = Word(sizes[k])
      BY EntriesAre DEF n
    <3> QED BY <3>2, <3>3, <3>4
  <2>14. \A i \in 1 .. TrailerLen : d[Last + i] = Trailer[i]
    <3>1. ASSUME NEW i \in 1 .. TrailerLen
          PROVE  d[Last + i] = c[Last + i] /\ c[Last + i] = b[Last + i]
      <4>1. /\ Last + i \in 1 .. Last + TrailerLen /\ Last + i > Header /\ Last + i > 4
        BY ONLY <1>1, <2>3, i \in 1 .. TrailerLen
      <4> QED BY <2>7, <2>8, <4>1
    <3> QED BY <2>6, <3>1
  <2>15. ZlibLayout(d)
    BY <1>3, <2>8, <2>10, <2>11, <2>12, <2>13, <2>14, <2>4, <2>5 DEF ZlibLayout, n
  <2> QED BY <2>1, <2>9, <2>15 DEF Layout, d
<1> QED BY <1>8, <1>9, <1>10, <1>11

-----------------------------------------------------------------------------
(* What reading finds. *)

Info(k) == [offset |-> Start[k - 1], len |-> sizes[k]]
Infos == [k \in 1 .. Len(sizes) |-> Info(k)]

\* A word is read as its number.
LEMMA WordRead ==
  ASSUME NEW c, NEW p, NEW v \in Int, p < Len(c), c[p + 1] = Word(v)
  PROVE  WordAt(c, p) = v
BY CellsAre DEF WordAt

\* A part that agrees with a sequence is that sequence.
LEMMA SubSeqIs ==
  ASSUME NEW c \in Seq(Cell), NEW s \in Seq(Cell), NEW a \in Nat, a + Len(s) <= Len(c),
         \A i \in 1 .. Len(s) : c[a + i] = s[i]
  PROVE  SubSeq(c, a + 1, a + Len(s)) = s
<1> DEFINE n == Len(s)
           part == SubSeq(c, a + 1, a + n)
<1>1. n \in Nat /\ Len(c) \in Nat /\ a + 1 \in Int /\ a + n \in Int
  OBVIOUS
<1>2. \A i \in a + 1 .. a + n : c[i] \in Cell
  BY <1>1
<1>3. /\ part \in Seq(Cell)
      /\ Len(part) = IF a + 1 <= a + n THEN (a + n) - (a + 1) + 1 ELSE 0
      /\ \A i \in 1 .. (a + n) - (a + 1) + 1 : part[i] = c[(a + 1) + i - 1]
  <2> HIDE DEF n
  <2> QED BY ONLY <1>1, <1>2, SubSeqProperties, SMTT(30)
<1>4. /\ (IF a + 1 <= a + n THEN (a + n) - (a + 1) + 1 ELSE 0) = n
      /\ (a + n) - (a + 1) + 1 = n
      /\ \A i \in 1 .. n : (a + 1) + i - 1 = a + i
  <2>1. n \in Nat /\ a \in Int
    BY <1>1
  <2> HIDE DEF n
  <2> QED BY ONLY <2>1
<1>5. /\ Len(part) = n
      /\ \A i \in 1 .. n : part[i] = s[i]
  BY <1>3, <1>4
<1>6. part \in Seq(Cell) /\ s \in Seq(Cell) /\ Len(s) = n
  BY <1>3
<1> HIDE DEF part, n
<1> QED BY <1>5, <1>6, SeqEqual DEF part, n

\* The LZVN and LZFSE table lists the blocks where they are.
LEMMA LzTableRead ==
  ASSUME kind # "zlib", sizes \in Seq(Nat), Len(sizes) = Need, Header \in Nat,
         NEW c \in Seq(Cell), LzLayout(c)
  PROVE  LET table == LzTable(c, Need) IN table.ok /\ table.infos = Infos
<1> DEFINE n == Len(sizes)
           at(i) == WordAt(c, i)
<1>1. /\ n \in Nat /\ Header = n + 1 /\ Header = header_size(kind, n)
      /\ Last \in Nat /\ Last >= Header /\ Len(c) = Last
  BY Inside DEF Header, header_size, LzHeaderSize, LzLayout
<1>2. /\ \A k \in 0 .. n : Start[k] \in Nat
      /\ \A k \in 1 .. n : Start[k] = Start[k - 1] + sizes[k] /\ sizes[k] \in Nat
      /\ Start[0] = Header
  BY StartsAre
<1>3. ASSUME NEW i \in 0 .. n PROVE at(i) = Start[i]
  <2>1. i < Len(c) /\ c[i + 1] = Word(Start[i]) /\ Start[i] \in Int
    BY <1>1, <1>2 DEF LzLayout
  <2> QED BY <2>1, WordRead
<1>4. ASSUME NEW i \in 1 .. n
      PROVE  /\ at(i) >= at(i - 1)
             /\ at(i - 1) = Start[i - 1] /\ at(i) - at(i - 1) = sizes[i]
  <2>1. i \in 0 .. n /\ i - 1 \in 0 .. n
    BY <1>1
  <2>2. /\ at(i) = Start[i] /\ at(i - 1) = Start[i - 1]
        /\ Start[i] = Start[i - 1] + sizes[i] /\ sizes[i] \in Nat /\ Start[i - 1] \in Nat
    BY <1>2, <1>3, <2>1
  <2> QED BY <2>2
<1>5. at(0) = Header /\ at(n) = Len(c)
  BY <1>1, <1>2, <1>3 DEF Last
<1> HIDE DEF at
<1> DEFINE infs == [i \in 1 .. n |-> [offset |-> at(i - 1), len |-> at(i) - at(i - 1)]]
<1>6. infs = Infos
  BY <1>4 DEF Infos, Info
<1>7. LzTable(c, n) = [ok |-> TRUE, infos |-> infs]
  BY <1>1, <1>4, <1>5 DEF LzTable, at
<1> HIDE DEF infs
<1> QED BY <1>6, <1>7

\* So does the ZLIB table.
LEMMA ZlibTableRead ==
  ASSUME kind = "zlib", sizes \in Seq(Nat), Len(sizes) = Need, Header \in Nat,
         NEW c \in Seq(Cell), ZlibLayout(c), Len(c) <= MaxOffset
  PROVE  LET table == ZlibTable(c, Need) IN table.ok /\ table.infos = Infos
<1> DEFINE n == Len(sizes)
           end == Len(c) - TrailerLen
           at(i) == WordAt(c, TableStart + i)
<1>1. /\ n \in Nat /\ Header = TableStart + 1 + 2 * n
      /\ TableStart \in Nat /\ TableStart > 4 /\ TrailerLen \in Nat
      /\ Last \in Nat /\ Last >= Header /\ Len(c) = Last + TrailerLen
  BY Inside, CompressedFileAssumption
     DEF Header, header_size, ZlibHeaderSize, ZlibLayout
<1>2. end = Last
  BY <1>1
<1>3. \A k \in 0 .. n : Start[k] \in Nat /\ Start[k] >= Header
  BY StartsAre
<1>4. at(-1) = end - TableStart /\ at(0) = n
  <2>1. /\ TableStart + (-1) < Len(c) /\ (TableStart + (-1)) + 1 = TableStart
        /\ TableStart + 0 < Len(c) /\ TableStart + 0 = TableStart
        /\ end - TableStart \in Int /\ n \in Int
    BY ONLY <1>1, <1>2
  <2>2. c[TableStart] = Word(end - TableStart) /\ c[TableStart + 1] = Word(n)
    BY <1>2 DEF ZlibLayout
  <2> HIDE DEF end, n
  <2>3. WordAt(c, TableStart + (-1)) = end - TableStart
    BY <2>1, <2>2, WordRead
  <2>4. WordAt(c, TableStart) = n
    BY <2>1, <2>2, WordRead
  <2> QED BY <2>1, <2>3, <2>4
<1>5. ASSUME NEW k \in 1 .. n
      PROVE  at(2 * k - 1) = Start[k - 1] - TableStart /\ at(2 * k) = sizes[k]
             /\ at(2 * k - 1) >= 0 /\ at(2 * k) >= 0 /\ at(2 * k - 1) + TableStart = Start[k - 1]
  <2> DEFINE p == TableStart + (2 * k - 1)
             q == TableStart + 2 * k
  <2>1. /\ p < Len(c) /\ p + 1 = TableStart + 2 * k
        /\ q < Len(c) /\ q + 1 = TableStart + 2 * k + 1
        /\ k - 1 \in 0 .. n
    BY ONLY <1>1, k \in 1 .. n
  <2>2. /\ Start[k - 1] \in Nat /\ Start[k - 1] >= TableStart /\ sizes[k] \in Nat
    <3>1. Start[k - 1] \in Nat /\ Start[k - 1] >= Header
      BY ONLY <1>3, <2>1
    <3>2. Start[k - 1] >= TableStart
      BY ONLY <1>1, <3>1
    <3> QED BY <3>1, <3>2
  <2>3. c[p + 1] = Word(Start[k - 1] - TableStart) /\ c[q + 1] = Word(sizes[k])
    BY <2>1 DEF ZlibLayout
  <2>4. Start[k - 1] - TableStart \in Int /\ sizes[k] \in Int
    BY ONLY <1>1, <2>2
  <2> HIDE DEF p, q
  <2>5. WordAt(c, p) = Start[k - 1] - TableStart /\ WordAt(c, q) = sizes[k]
    BY <2>1, <2>3, <2>4, WordRead
  <2>6. at(2 * k - 1) = Start[k - 1] - TableStart /\ at(2 * k) = sizes[k]
    BY <2>5 DEF p, q
  <2> HIDE DEF at
  <2>7. /\ Start[k - 1] - TableStart >= 0 /\ sizes[k] >= 0
        /\ (Start[k - 1] - TableStart) + TableStart = Start[k - 1]
    BY ONLY <1>1, <2>2
  <2> QED BY ONLY <2>6, <2>7, Zenon
<1>6. ASSUME NEW i \in 1 .. 2 * n PROVE at(i) >= 0
  <2>1. PICK k \in 1 .. n : i = 2 * k - 1 \/ i = 2 * k
    <3>1. \/ (i + 1) \div 2 \in 1 .. n /\ i = 2 * ((i + 1) \div 2) - 1
          \/ (i + 1) \div 2 \in 1 .. n /\ i = 2 * ((i + 1) \div 2)
      BY ONLY <1>1, i \in 1 .. 2 * n
    <3> QED BY <3>1
  <2> HIDE DEF at
  <2> QED BY <1>5, <2>1
<1>7. SubSeq(c, 1, 4) = ZlibHeader(end)
  <2>1. ZlibHeader(end) \in Seq(Cell) /\ Len(ZlibHeader(end)) = 4
    BY <1>1, <1>2, ZlibHeaderIs
  <2>2. 0 \in Nat /\ 0 + 4 <= Len(c) /\ \A i \in 1 .. 4 : c[0 + i] = ZlibHeader(end)[i]
    BY <1>1, <1>2 DEF ZlibLayout
  <2> DEFINE h == ZlibHeader(end)
  <2> HIDE DEF h, end
  <2>3. SubSeq(c, 0 + 1, 0 + Len(h)) = h
    BY <2>1, <2>2, SubSeqIs DEF h
  <2> QED BY <2>1, <2>3 DEF h
<1>8. SubSeq(c, end + 1, Len(c)) = Trailer
  <2>1. SubSeq(c, end + 1, end + Len(Trailer)) = Trailer
    BY <1>1, <1>2, TrailerIs, SubSeqIs DEF ZlibLayout
  <2> QED BY <1>1, <2>1, TrailerIs
<1>9. end >= 0 /\ \A p \in 5 .. TableStart - 1 : c[p] = Hole
  BY <1>1, <1>2 DEF ZlibLayout
<1> DEFINE infs == [i \in 1 .. n |-> [offset |-> at(2 * i - 1) + TableStart, len |-> at(2 * i)]]
<1>10. ZlibTable(c, n) = [ok |-> TRUE, infos |-> infs]
  <2> HIDE DEF infs, end, at, n
  <2> QED BY <1>4, <1>6, <1>7, <1>8, <1>9 DEF ZlibTable, infs, end, at
<1>11. infs = Infos
  <2> HIDE DEF at
  <2> QED BY <1>5 DEF Infos, Info
<1> HIDE DEF infs
<1> QED BY <1>10, <1>11

\* The table that was written is the one that is read.
LEMMA TableRead ==
  ASSUME sizes \in Seq(Nat), Len(sizes) = Need, Header \in Nat,
         NEW c \in Seq(Cell), Layout(c), Len(c) <= MaxOffset
  PROVE  LET table == read_block_info(kind, c, Need) IN table.ok /\ table.infos = Infos
BY LzTableRead, ZlibTableRead DEF Layout, read_block_info

\* And so are the blocks.
LEMMA BlockRead ==
  ASSUME sizes \in Seq(Nat), Header \in Nat, NEW s, s.cells \in Seq(Cell), Layout(s.cells),
         NEW k \in 1 .. Len(sizes), written[k] \in Seq(Cell), Len(written[k]) = sizes[k]
  PROVE  Read(s, Info(k).offset, Info(k).len) = written[k]
<1> DEFINE c == s.cells
           a == Start[k - 1]
           w == written[k]
<1>1. c \in Seq(Cell) /\ Placed(c) /\ Len(c) >= Last
  <2>1. Last \in Nat /\ TrailerLen \in Nat
    BY Inside, CompressedFileAssumption
  <2> QED BY <2>1 DEF Layout, LzLayout, ZlibLayout
<1>2. a \in Nat /\ a + sizes[k] <= Last /\ sizes[k] \in Nat /\ Last \in Nat
  <2>1. k \in 1 .. Len(sizes) /\ k - 1 \in 0 .. Len(sizes) /\ k \in 0 .. Len(sizes)
        /\ Len(sizes) \in 0 .. Len(sizes) /\ k \in 0 .. Len(sizes)
    OBVIOUS
  <2>2. /\ Start[k - 1] \in Nat /\ Start[k] = Start[k - 1] + sizes[k]
        /\ Start[k] <= Start[Len(sizes)] /\ Start[Len(sizes)] \in Nat
    BY <2>1, StartsAre
  <2> QED BY <2>2 DEF Last
<1>3. \A i \in 1 .. sizes[k] : c[a + i] = w[i]
  BY <1>1 DEF Placed
<1>4. Len(c) \in Nat
  BY <1>1
<1>5. w \in Seq(Cell) /\ Len(w) = sizes[k]
  OBVIOUS
<1> HIDE DEF a, c, w
<1>6. a + Len(w) <= Len(c) /\ \A i \in 1 .. Len(w) : c[a + i] = w[i]
  BY <1>1, <1>2, <1>3, <1>4, <1>5
<1>7. SubSeq(c, a + 1, a + Len(w)) = w
  BY <1>1, <1>2, <1>5, <1>6, SubSeqIs
<1>8. Lesser(a + sizes[k], Len(c)) = a + Len(w)
  <2>1. /\ a \in Nat /\ sizes[k] \in Nat /\ Len(c) \in Nat
        /\ Len(w) = sizes[k] /\ a + Len(w) <= Len(c)
    BY <1>2, <1>4, <1>5, <1>6
  <2>2. a + sizes[k] < Len(c) \/ a + sizes[k] = Len(c)
    BY ONLY <2>1
  <2> QED BY <2>1, <2>2 DEF Lesser
<1>9. Read(s, a, sizes[k]) = SubSeq(c, a + 1, a + Len(w))
  BY <1>8 DEF Read, c
<1> QED BY <1>7, <1>9 DEF Info, a, w

-----------------------------------------------------------------------------
(* The invariant of the round trip. *)

Control ==
  /\ kind \in Kinds /\ storage \in Storages /\ size \in 1 .. MaxSize /\ taken \in 0 .. size
  /\ phase \in {"new", "writing", "sealing", "sealed", "copying", "labelling", "published",
                "reading", "read", "stopped"}
  /\ phase = "stopped" <=> why # "none"
  /\ why # "unreadable"

Contents ==
  /\ sizes \in Seq(1 .. BlockCapacity) /\ inline \in Seq(Cell) /\ written \in Seq(Seq(Cell))
  /\ Sound(store)
  /\ fork \in Streams /\ fork.pos <= MaxOffset /\ Len(fork.cells) <= MaxOffset
  /\ out \in Streams /\ out.err = "none"

\* What the writer was given.
Added ==
  /\ phase = "new" => ~multiple /\ written = <<>> /\ inline = <<>>
  /\ phase # "stopped" =>
       IF multiple
         THEN /\ Len(sizes) = Len(written)
              /\ \A k \in 1 .. Len(sizes) : Len(written[k]) = sizes[k]
       ELSE /\ written = IF inline = <<>> THEN <<>> ELSE <<inline>>
            /\ phase # "new" => Need = 1
            /\ sizes = <<>> /\ store = Empty

\* What it has written before it is sealed.
Laid ==
  phase \in {"writing", "sealing"} /\ multiple =>
    /\ store.err = "none"
    /\ IF sizes = <<>> THEN store.cells = <<>> /\ store.pos = Header ELSE Raw(store)

\* What it has written afterwards, and where that is copied to.
Formatted ==
  /\ phase \in {"sealed", "copying", "labelling", "published", "reading", "read"} =>
       /\ multiple => Len(sizes) = Need
       /\ attr = IF multiple THEN Value("fork", <<>>) ELSE Value("xattr", inline)
  /\ phase \in {"sealed", "copying"} /\ multiple => Layout(store.cells)
  /\ phase \in {"labelling", "published", "reading"} /\ multiple => Layout(fork.cells)

Copies ==
  /\ copied \in 0 .. Len(store.cells)
  /\ phase \in {"new", "writing", "sealing", "sealed"} => fork = Empty /\ copied = 0
  /\ phase = "copying" =>
       /\ fork.pos = copied /\ Len(fork.cells) = copied /\ fork.err = "none"
       /\ \A i \in 1 .. copied : fork.cells[i] = store.cells[i]

\* What the reader has read, and what it has still to read.
ReadBack ==
  /\ phase \notin {"reading", "read", "stopped"} => got = <<>>
  /\ phase \in {"reading", "read"} =>
       IF multiple
         THEN /\ got \in Seq(Seq(Cell)) /\ Len(got) + Len(infos) = Len(written)
              /\ infos \in Seq([offset : Nat, len : Nat])
              /\ \A k \in 1 .. Len(got) : got[k] = written[k]
              /\ \A j \in 1 .. Len(infos) : infos[j] = Info(Len(got) + j)
       ELSE infos = <<>> /\ (got = <<>> \/ got = written)
  /\ phase = "read" => got = written

Trip == Control /\ Contents /\ Added /\ Laid /\ Formatted /\ Copies /\ ReadBack

\* Numbers that all steps need.
LEMMA Basics ==
  ASSUME IInv, Control, Contents
  PROVE  /\ size \in Nat /\ size >= 1 /\ Need \in Nat /\ Need >= 1 /\ Header \in Nat
         /\ Limit \in Nat /\ sizes \in Seq(Nat)
<1>1. size \in Nat /\ size >= 1
  BY CompressedFileAssumption DEF Control
<1>2. Need >= 1
  BY <1>1, CompressedFileAssumption DEF Need, num_blocks
<1> QED BY <1>1, <1>2, LimitIs DEF IInv, Job

\* A layout depends only on the blocks, and on the cells.
LEMMA LayoutKept ==
  ASSUME UNCHANGED <<kind, size, sizes, written>>, NEW c
  PROVE  /\ Layout(c) /\ store'.cells = c => Layout(store.cells)'
         /\ Layout(c) /\ fork'.cells = c => Layout(fork.cells)'
<1>1. Need' = Need /\ Header' = Header
  BY DEF Need, Header
<1>2. Start' = Start
  BY <1>1 DEF Start
<1>3. Last' = Last
  BY <1>2 DEF Last
<1>4. ASSUME Layout(c), store'.cells = c PROVE Layout(store.cells)'
  BY <1>2, <1>3, <1>4 DEF Layout, Placed, LzLayout, ZlibLayout
<1>5. ASSUME Layout(c), fork'.cells = c PROVE Layout(fork.cells)'
  BY <1>2, <1>3, <1>5 DEF Layout, Placed, LzLayout, ZlibLayout
<1> QED BY <1>4, <1>5

\* The next block is laid behind the others, or behind the room for the header.
LEMMA BlockLaid ==
  ASSUME sizes \in Seq(Nat), Header \in Nat, Limit \in Nat, UNCHANGED <<kind, size>>,
         written \in Seq(Seq(Cell)), Len(sizes) = Len(written),
         NEW s, Sound(s),
         IF sizes = <<>> THEN s.cells = <<>> /\ s.pos = Header ELSE Raw(s),
         NEW block \in Seq(Cell),
         sizes' = Append(sizes, Len(block)), written' = Append(written, block),
         store' = Put(s, block), store'.err = "none"
  PROVE  Raw(store)'
<1> DEFINE n == Len(sizes)
           x == Len(block)
           a == s.cells
           b == store'.cells
<1>1. n \in Nat /\ x \in Nat /\ Len(sizes') = n + 1 /\ Header' = Header
  BY DEF Header, Need
<1>2. /\ sizes' \in Seq(Nat) /\ sizes'[n + 1] = x
      /\ \A k \in 1 .. n : sizes'[k] = sizes[k]
  BY SMTT(30)
<1>3. /\ written'[n + 1] = block
      /\ \A k \in 1 .. n : written'[k] = written[k]
  OBVIOUS
<1>4. /\ Start'[n + 1] = Last + x /\ Last' = Last + x
      /\ \A k \in 0 .. n : Start'[k] = Start[k]
  BY <1>1, OneMore DEF Last
<1>5. /\ Last \in Nat /\ Last >= Header
      /\ \A k \in 1 .. n : \A i \in 1 .. sizes[k] :
              /\ Start[k - 1] + i \in Nat /\ Start[k - 1] + i > Header
              /\ Start[k - 1] + i <= Last
  BY Inside
<1>6. s.pos = Last /\ (n = 0 => Last = Header)
  BY <1>1, StartsAre DEF Raw, Last
<1>7. Overlaid(b, a, Last, block) /\ store'.pos = Last + x
  BY <1>6, PutIs
<1>8. a \in Seq(Cell) /\ Len(a) \in Nat /\ Len(a) = IF n = 0 THEN 0 ELSE Last
  BY DEF Raw, Sound, Streams
<1> HIDE DEF a, b, n, x
<1>9. /\ Len(b) = Greater(Len(a), Last + x)
      /\ \A i \in 1 .. x : b[Last + i] = block[i]
      /\ \A i \in 1 .. Len(a) : i <= Last => b[i] = a[i]
      /\ \A i \in 1 .. Last : i > Len(a) => b[i] = Hole
  BY ONLY <1>7 DEF Overlaid, x
<1>10. Len(b) = Last'
  BY <1>1, <1>4, <1>5, <1>8, <1>9 DEF Greater
<1>11. \A p \in 1 .. Header' : b[p] = Hole
  <2>1. CASE n = 0
    <3>1. \A p \in 1 .. Header : p \in 1 .. Last /\ p > Len(a)
      BY <1>5, <1>8, <2>1
    <3> QED BY <1>1, <1>9, <3>1
  <2>2. CASE n # 0
    <3>1. \A p \in 1 .. Header : p \in 1 .. Len(a) /\ p <= Last
      BY <1>5, <1>8, <2>2
    <3>2. \A p \in 1 .. Header : a[p] = Hole
      BY <2>2 DEF Raw, a, n
    <3> QED BY <1>1, <1>9, <3>1, <3>2
  <2> QED BY <2>1, <2>2
<1>12. ASSUME NEW k \in 1 .. n + 1, NEW i \in 1 .. sizes'[k]
       PROVE  b[Start'[k - 1] + i] = written'[k][i]
  <2>1. CASE k = n + 1
    <3>1. k - 1 = n /\ n \in 0 .. n
      BY <1>1, <2>1
    <3>2. Start'[k - 1] = Last
      BY <1>4, <3>1 DEF Last, n
    <3>3. i \in 1 .. x /\ written'[k] = block
      BY <1>2, <1>3, <2>1
    <3> QED BY <1>9, <3>2, <3>3
  <2>2. CASE k # n + 1
    <3>1. /\ k \in 1 .. n /\ k - 1 \in 0 .. n /\ n # 0
          /\ Start'[k - 1] = Start[k - 1] /\ sizes'[k] = sizes[k] /\ written'[k] = written[k]
      <4>1. k \in 1 .. n /\ k - 1 \in 0 .. n /\ n # 0
        BY ONLY <1>1, <2>2, k \in 1 .. n + 1
      <4> QED BY ONLY <1>2, <1>3, <1>4, <4>1
    <3>2. Start[k - 1] + i \in 1 .. Len(a) /\ Start[k - 1] + i <= Last
      <4>1. /\ Start[k - 1] + i \in Nat /\ Start[k - 1] + i > Header
            /\ Start[k - 1] + i <= Last
        BY <1>5, <3>1
      <4>2. Len(a) = Last /\ Last \in Nat /\ Header \in Nat
        BY <1>5, <1>8, <3>1
      <4> QED BY ONLY <4>1, <4>2
    <3>3. a[Start[k - 1] + i] = written[k][i]
      BY <3>1 DEF Raw, Placed, a, n
    <3> QED BY <1>9, <3>1, <3>2, <3>3
  <2> QED BY <2>1, <2>2
<1>13. Placed(store.cells)'
  BY <1>1, <1>12 DEF Placed, b
<1> QED BY <1>4, <1>7, <1>10, <1>11, <1>13 DEF Raw, b

-----------------------------------------------------------------------------
(* The steps of the writer. *)

\* Nothing more is asked of a file that is given up.
LEMMA GivenUp ==
  ASSUME Control, UNCHANGED <<kind, storage, size>>, taken' \in 0 .. size,
         phase' = "stopped", why' \notin {"none", "unreadable"},
         Contents', copied' \in 0 .. Len(store'.cells)
  PROVE  Trip'
<1>1. Control'
  BY DEF Control
<1>2. Added' /\ Laid' /\ Formatted' /\ Copies' /\ ReadBack'
  BY DEF Added, Laid, Formatted, Copies, ReadBack
<1> QED BY <1>1, <1>2 DEF Trip

\* At first there is nothing.
LEMMA InitIsTrip == Init => Trip
<1> SUFFICES ASSUME Init PROVE Trip
  OBVIOUS
<1>1. Empty \in Streams /\ Empty.cells = <<>> /\ Empty.pos = 0 /\ Empty.err = "none"
  <2>1. <<>> \in Seq(Cell)
    OBVIOUS
  <2> QED BY <2>1 DEF Empty, Streams
<1>2. Control
  BY CompressedFileAssumption DEF Init, Control
<1>3. Contents
  <2>1. /\ sizes \in Seq(1 .. BlockCapacity) /\ inline \in Seq(Cell)
        /\ written \in Seq(Seq(Cell))
    BY DEF Init
  <2>2. 0 <= MaxOffset /\ Len(<<>>) = 0
    BY CompressedFileAssumption
  <2> QED BY <1>1, <2>1, <2>2 DEF Init, Contents, Sound
<1>4. Added /\ Laid /\ Formatted /\ ReadBack
  BY DEF Init, Added, Laid, Formatted, ReadBack
<1>5. Copies
  <2>1. Len(store.cells) = 0
    BY <1>1 DEF Init
  <2> QED BY <2>1 DEF Init, Copies
<1> QED BY <1>2, <1>3, <1>4, <1>5 DEF Trip

\* The writer leaves a hole for the header.
LEMMA CreateTrips == ASSUME IInv, Trip, Create PROVE Trip'
<1>1. /\ phase = "new" /\ why = "none" /\ UNCHANGED <<kind, storage, size, taken>>
      /\ UNCHANGED <<written, inline, sizes, fork, attr, copied, infos, got, out>>
      /\ multiple' = (Need > 1)
      /\ store' = IF multiple' THEN Rewind(store, Header) ELSE store
      /\ GoOn(store', "writing")
  BY DEF Trip, Control, Create, job, reader, Need, Header
<1>2. /\ written = <<>> /\ inline = <<>> /\ sizes = <<>> /\ store = Empty /\ got = <<>>
      /\ fork = Empty /\ copied = 0
  BY <1>1 DEF IInv, Job, Trip, Added, Copies, ReadBack
<1>3. Need \in Nat /\ Need >= 1 /\ Header \in Nat /\ Header' = Header /\ Need' = Need
  BY <1>1, Basics DEF Trip, Header, Need
<1>4. /\ Sound(store') /\ store'.cells = <<>>
      /\ store'.err = "none" /\ multiple' => store'.pos = Header
  <2>1. Sound(store) /\ store.cells = <<>>
    BY <1>2 DEF Trip, Contents, Empty
  <2> QED BY <1>1, <1>3, <2>1, RewindIs
<1>5. Contents'
  BY <1>1, <1>4 DEF Trip, Contents, Sound
<1>6. copied' \in 0 .. Len(store'.cells) /\ taken' \in 0 .. size
  BY <1>1, <1>2, <1>4 DEF Trip, Control
<1>7. CASE store'.err # "none"
  BY <1>1, <1>5, <1>6, <1>7, GivenUp DEF GoOn, Stop, Trip
<1>8. CASE store'.err = "none"
  <2>1. phase' = "writing" /\ why' = "none"
    BY <1>1, <1>8 DEF GoOn
  <2>2. Control'
    BY <1>1, <2>1 DEF Trip, Control
  <2>3. Added'
    <3>1. ASSUME ~multiple' PROVE Need' = 1 /\ store' = Empty
      <4>1. ~(Need > 1)
        BY <1>1, <3>1, Zenon
      <4>2. store' = Empty
        BY <1>1, <1>2, <3>1, Zenon
      <4> QED BY <1>3, <4>1, <4>2
    <3>2. Len(<<>>) = 0
      OBVIOUS
    <3> QED BY <1>1, <1>2, <2>1, <3>1, <3>2 DEF Added
  <2>4. Laid'
    BY <1>1, <1>2, <1>3, <1>4, <1>8 DEF Laid
  <2>5. Formatted' /\ Copies' /\ ReadBack'
    BY <1>1, <1>2, <1>6, <2>1 DEF Formatted, Copies, ReadBack
  <2> QED BY <1>5, <2>2, <2>3, <2>4, <2>5 DEF Trip
<1> QED BY <1>7, <1>8

\* What arrives at the writer.
LEMMA ChunkIs ==
  ASSUME IInv, Control, Contents, Chunk
  PROVE  /\ phase = "writing" /\ why = "none" /\ taken' \in 0 .. size
         /\ UNCHANGED <<kind, storage, size, fork, attr, copied, infos, got, out>>
         /\ \E block \in Seq(Cell) :
              /\ Len(block) \in 1 .. BlockCapacity /\ block # <<>>
              /\ add_block(block)
              /\ written' = IF why' = "none" THEN Append(written, block) ELSE written
<1> DEFINE full == Lesser(BlockSize, size - taken)
<1>1. /\ phase = "writing" /\ why = "none" /\ taken < size
      /\ UNCHANGED <<kind, storage, size, fork, attr, copied, infos, got, out>>
  BY DEF Chunk, Control, job, reader
<1>2. /\ taken \in Nat /\ size \in Nat /\ BlockSize \in Nat \ {0}
      /\ full \in Nat /\ full >= 1 /\ full <= BlockSize /\ full <= size - taken
  BY <1>1, CompressedFileAssumption DEF IInv, Job, Lesser
<1>3. PICK n \in IF ShortReads THEN 1 .. full ELSE {full} :
        \E c \in Compressed(kind, n) :
          /\ taken' = taken + n
          /\ add_block(Data(Len(written) + 1, c))
          /\ written' = IF why' = "none" THEN Append(written, Data(Len(written) + 1, c))
                        ELSE written
  BY DEF Chunk
<1> HIDE DEF full
<1>4. n \in Nat /\ n >= 1 /\ n <= BlockSize /\ n <= size - taken
  BY <1>2, <1>3
<1>5. PICK c \in Compressed(kind, n) :
        /\ taken' = taken + n
        /\ add_block(Data(Len(written) + 1, c))
        /\ written' = IF why' = "none" THEN Append(written, Data(Len(written) + 1, c))
                      ELSE written
  BY <1>3
<1>6. c \in 1 .. BlockCapacity
  BY <1>4, CompressedFileAssumption
     DEF Compressed, ZlibCompressed, LzCompressed, BlockCapacity
<1>7. taken' \in 0 .. size
  BY <1>2, <1>4, <1>5
<1> DEFINE block == Data(Len(written) + 1, c)
<1>8. block \in Seq(Cell) /\ Len(block) = c
  <2>1. c \in Nat /\ Len(written) + 1 \in Nat
    BY <1>6 DEF Contents
  <2> QED BY <2>1, DataIs
<1> HIDE DEF block
<1>9. Len(block) \in 1 .. BlockCapacity /\ block # <<>>
  BY <1>6, <1>8
<1> QED BY <1>1, <1>5, <1>7, <1>8, <1>9 DEF block

\* A block goes behind the others in the fork.
LEMMA AddedToFork ==
  ASSUME IInv, Trip, phase = "writing", why = "none", taken' \in 0 .. size,
         UNCHANGED <<kind, storage, size, fork, attr, copied, infos, got, out>>,
         Len(sizes) = Len(written), \A k \in 1 .. Len(sizes) : Len(written[k]) = sizes[k],
         NEW block \in Seq(Cell), Len(block) \in 1 .. BlockCapacity,
         NEW s, Sound(s),
         s.err = "none" =>
           IF sizes = <<>> THEN s.cells = <<>> /\ s.pos = Header ELSE Raw(s),
         AddToFork(block, s),
         written' = IF why' = "none" THEN Append(written, block) ELSE written
  PROVE  Trip'
<1> DEFINE n == Len(sizes)
           x == Len(block)
<1>1. /\ multiple' = TRUE /\ sizes' = Append(sizes, x) /\ inline' = inline
      /\ store' = Put(s, block) /\ GoOn(store', "writing")
  BY DEF AddToFork
<1>2. /\ sizes \in Seq(Nat) /\ Limit \in Nat /\ Header \in Nat /\ n \in Nat
      /\ sizes \in Seq(1 .. BlockCapacity) /\ written \in Seq(Seq(Cell))
      /\ copied = 0 /\ got = <<>> /\ fork = Empty
  BY Basics DEF Trip, Contents, Copies, ReadBack
<1>3. Sound(store') /\ (store'.err = "none" => s.err = "none")
  BY <1>1, <1>2, PutIs
<1>4. Contents'
  <2>1. sizes' \in Seq(1 .. BlockCapacity) /\ written' \in Seq(Seq(Cell))
    BY <1>1, <1>2
  <2> QED BY <1>1, <1>3, <2>1 DEF Trip, Contents, Sound
<1>5. copied' \in 0 .. Len(store'.cells)
  BY <1>2, <1>3 DEF Sound, Streams
<1>6. CASE store'.err # "none"
  BY <1>1, <1>4, <1>5, <1>6, GivenUp DEF GoOn, Stop, Trip
<1>7. CASE store'.err = "none"
  <2>1. phase' = "writing" /\ why' = "none" /\ written' = Append(written, block)
    BY <1>1, <1>7 DEF GoOn
  <2>2. Control'
    BY <2>1 DEF Trip, Control
  <2>3. Added'
    <3>1. Len(sizes') = n + 1 /\ Len(written') = n + 1
      BY <1>2, <1>1, <2>1
    <3>2. ASSUME NEW k \in 1 .. n + 1 PROVE Len(written'[k]) = sizes'[k]
      BY <1>1, <1>2, <2>1
    <3> QED BY <1>1, <2>1, <3>1, <3>2 DEF Added
  <2>4. Laid'
    <3>1. Raw(store)'
      BY <1>1, <1>2, <1>3, <1>7, <2>1, BlockLaid
    <3> QED BY <1>1, <1>2, <1>7, <3>1 DEF Laid
  <2>5. Formatted' /\ Copies' /\ ReadBack'
    BY <1>2, <1>5, <2>1 DEF Formatted, Copies, ReadBack
  <2> QED BY <1>4, <2>2, <2>3, <2>4, <2>5 DEF Trip
<1> QED BY <1>6, <1>7

\* A block goes to the fork or stays in the attribute.
LEMMA ChunkTrips == ASSUME IInv, Trip, Chunk PROVE Trip'
<1>1. /\ phase = "writing" /\ why = "none" /\ taken' \in 0 .. size
      /\ UNCHANGED <<kind, storage, size, fork, attr, copied, infos, got, out>>
  BY ChunkIs DEF Trip
<1>2. PICK block \in Seq(Cell) :
        /\ Len(block) \in 1 .. BlockCapacity /\ block # <<>>
        /\ add_block(block)
        /\ written' = IF why' = "none" THEN Append(written, block) ELSE written
  BY ChunkIs DEF Trip
<1>3. /\ sizes \in Seq(Nat) /\ Header \in Nat /\ Sound(store) /\ Need \in Nat
      /\ copied \in 0 .. Len(store.cells)
  BY Basics DEF Trip, Contents, Copies
<1>4. CASE multiple
  <2>1. AddToFork(block, store)
    BY <1>2, <1>4 DEF add_block
  <2>2. /\ Len(sizes) = Len(written) /\ \A k \in 1 .. Len(sizes) : Len(written[k]) = sizes[k]
        /\ IF sizes = <<>> THEN store.cells = <<>> /\ store.pos = Header ELSE Raw(store)
    BY <1>1, <1>4 DEF Trip, Added, Laid
  <2> QED BY <1>1, <1>2, <1>3, <2>1, <2>2, AddedToFork
<1>5. CASE ~multiple /\ inline # <<>>
  <2>1. /\ phase' = "stopped" /\ why' = "second block" /\ UNCHANGED <<sizes, inline, store>>
        /\ written' = written
    BY <1>2, <1>5 DEF add_block, Stop, writer
  <2>2. Contents'
    BY <1>1, <2>1 DEF Trip, Contents, Sound
  <2> QED BY <1>1, <1>3, <2>1, <2>2, GivenUp DEF Trip
<1>6. CASE ~multiple /\ inline = <<>> /\ Len(block) > XattrMax - HeaderLen
  <2> DEFINE s == Rewind(store, Header)
  <2>1. AddToFork(block, s)
    BY <1>2, <1>6 DEF add_block, Header, Need
  <2>2. sizes = <<>> /\ written = <<>> /\ store = Empty
    BY <1>1, <1>6 DEF Trip, Added
  <2>3. Len(sizes) = Len(written) /\ Len(sizes) = 0
    BY <2>2
  <2>4. Sound(s) /\ (s.err = "none" => s.cells = <<>> /\ s.pos = Header)
    BY <1>3, <2>2, RewindIs DEF Empty
  <2> HIDE DEF s
  <2>5. \A k \in 1 .. Len(sizes) : Len(written[k]) = sizes[k]
    BY <2>3
  <2> QED BY <1>1, <1>2, <2>1, <2>2, <2>3, <2>4, <2>5, AddedToFork
<1>7. CASE ~multiple /\ inline = <<>> /\ ~(Len(block) > XattrMax - HeaderLen)
  <2>1. inline' = block /\ UNCHANGED <<phase, why, multiple, sizes, store>>
    BY <1>2, <1>7 DEF add_block
  <2>2. sizes = <<>> /\ written = <<>> /\ store = Empty /\ Need = 1
    BY <1>1, <1>7 DEF Trip, Added
  <2>3. written' = <<block>>
    BY <1>1, <1>2, <2>1, <2>2
  <2>4. Contents'
    <3>1. written' \in Seq(Seq(Cell))
      BY <2>3
    <3> QED BY <1>1, <2>1, <3>1 DEF Trip, Contents, Sound
  <2>5. Control' /\ Added'
    <3>1. Need' = 1
      BY <1>1, <2>2 DEF Need
    <3> QED BY <1>1, <1>2, <1>7, <2>1, <2>2, <2>3, <3>1 DEF Trip, Control, Added
  <2>6. Laid' /\ Formatted' /\ Copies' /\ ReadBack'
    BY <1>1, <1>7, <2>1 DEF Trip, Laid, Formatted, Copies, ReadBack
  <2> QED BY <2>4, <2>5, <2>6 DEF Trip
<1> QED BY <1>4, <1>5, <1>6, <1>7

-----------------------------------------------------------------------------
(* The steps after the last block. *)

\* What does not depend on how far the file has come.
LEMMA SameWriting ==
  ASSUME UNCHANGED <<kind, size, multiple, inline, sizes, written, store>>,
         Added, phase \notin {"stopped", "new"}, phase' # "new"
  PROVE  Added'
<1>1. Need' = Need
  BY DEF Need
<1> QED BY <1>1 DEF Added

\* The end of the stream changes nothing.
LEMMA EndTrips == ASSUME IInv, Trip, EndOfStream PROVE Trip'
<1>1. /\ phase = "writing" /\ phase' = "sealing"
      /\ UNCHANGED <<kind, storage, size, why, taken, written, multiple, inline, sizes, store>>
      /\ UNCHANGED <<fork, attr, copied, infos, got, out>>
  BY DEF EndOfStream, job, writer, reader
<1>2. Control' /\ Contents' /\ Added'
  BY <1>1, SameWriting DEF Trip, Control, Contents, Sound
<1>3. Laid'
  <2>1. Header' = Header /\ (Raw(store) => Raw(store)')
    <3>1. Header' = Header
      BY <1>1 DEF Header, Need
    <3>2. Start' = Start
      BY <1>1, <3>1 DEF Start
    <3>3. Last' = Last
      BY <1>1, <3>2 DEF Last
    <3> QED BY <1>1, <3>1, <3>2, <3>3 DEF Raw, Placed
  <2> QED BY <1>1, <2>1 DEF Trip, Laid
<1>4. Formatted' /\ Copies' /\ ReadBack'
  BY <1>1 DEF Trip, Formatted, Copies, ReadBack
<1> QED BY <1>2, <1>3, <1>4 DEF Trip

\* A file is sealed in its format, or with its one block in the attribute.
LEMMA SealTrips == ASSUME IInv, Trip, Seal PROVE Trip'
<1>1. /\ phase = "sealing" /\ why = "none" /\ finish_decmpfs_data
      /\ UNCHANGED <<kind, storage, size, taken, written, multiple, inline, sizes>>
      /\ UNCHANGED <<fork, copied, infos, got, out>>
  BY DEF Seal, job, writer, reader, Trip, Control
<1>2. /\ sizes \in Seq(Nat) /\ Header \in Nat /\ Limit \in Nat /\ Sound(store)
      /\ Need \in Nat /\ Need >= 1 /\ Need' = Need
      /\ taken \in 0 .. size /\ copied \in 0 .. Len(store.cells)
      /\ copied = 0 /\ fork = Empty /\ got = <<>>
  BY <1>1, Basics DEF Trip, Control, Contents, Copies, ReadBack, Need
<1>3. CASE (multiple /\ Len(sizes) # Need) \/ (~multiple /\ inline = <<>> /\ DebugAssertions)
  <2>1. /\ UNCHANGED store
        /\ phase' = "stopped" /\ why' \in {"wrong number of blocks", "missing block"}
    BY <1>1, <1>3 DEF finish_decmpfs_data, Stop, Need
  <2>2. Contents'
    BY <1>1, <2>1 DEF Trip, Contents, Sound
  <2> QED BY <1>1, <1>2, <2>1, <2>2, GivenUp DEF Trip
<1>4. CASE multiple /\ Len(sizes) = Need
  <2>1. store' = Finish(store) /\ attr' = Value("fork", <<>>) /\ GoOn(store', "sealed")
    BY <1>1, <1>4 DEF finish_decmpfs_data, Need
  <2>2. Raw(store)
    <3>1. sizes # <<>>
      BY <1>2, <1>4
    <3> QED BY <1>1, <1>4, <3>1 DEF Trip, Laid
  <2>3. Sound(store') /\ (store'.err = "none" => Layout(store'.cells))
    BY <1>2, <1>4, <2>1, <2>2, LzSealed, ZlibSealed DEF Finish
  <2>4. Contents'
    BY <1>1, <2>3 DEF Trip, Contents, Sound
  <2>5. copied' \in 0 .. Len(store'.cells)
    BY <1>1, <1>2, <2>3 DEF Sound, Streams
  <2>6. CASE store'.err # "none"
    BY <1>1, <1>2, <2>1, <2>4, <2>5, <2>6, GivenUp DEF GoOn, Stop, Trip
  <2>7. CASE store'.err = "none"
    <3>1. phase' = "sealed" /\ why' = "none"
      BY <1>1, <2>1, <2>7 DEF GoOn
    <3>2. Control'
      BY <1>1, <3>1 DEF Trip, Control
    <3>3. Added'
      BY <1>1, <1>4, <3>1 DEF Trip, Added
    <3>4. Layout(store.cells)'
      BY <1>1, <2>3, <2>7, LayoutKept
    <3>5. Formatted'
      <4>1. attr' = Value("fork", <<>>)'
        BY <1>1, <2>1 DEF Value
      <4> QED BY <1>1, <1>2, <1>4, <3>1, <3>4, <4>1 DEF Formatted
    <3>6. Laid' /\ Copies' /\ ReadBack'
      BY <1>1, <1>2, <2>5, <3>1 DEF Laid, Copies, ReadBack
    <3> QED BY <2>4, <3>2, <3>3, <3>5, <3>6 DEF Trip
  <2> QED BY <2>6, <2>7
<1>5. CASE ~multiple /\ ~(inline = <<>> /\ DebugAssertions)
  <2>1. /\ attr' = Value("xattr", inline) /\ phase' = "sealed" /\ UNCHANGED <<store, why>>
    BY <1>1, <1>5 DEF finish_decmpfs_data
  <2>2. Control' /\ Contents' /\ Added'
    BY <1>1, <2>1, SameWriting DEF Trip, Control, Contents, Sound
  <2>3. Formatted'
    <3>1. attr' = Value("xattr", inline)'
      BY <1>1, <2>1 DEF Value
    <3> QED BY <1>1, <1>5, <2>1, <3>1 DEF Formatted
  <2>4. Laid' /\ Copies' /\ ReadBack'
    BY <1>1, <1>2, <2>1 DEF Laid, Copies, ReadBack
  <2> QED BY <2>2, <2>3, <2>4 DEF Trip
<1> QED BY <1>3, <1>4, <1>5

\* What was written directly is already in the fork.
LEMMA WrittenTrips == ASSUME IInv, Trip, Written PROVE Trip'
<1>1. /\ phase = "sealed" /\ phase' = "labelling" /\ storage = "fork" /\ fork' = store
      /\ UNCHANGED <<kind, storage, size, why, taken, written, multiple, inline, sizes, store>>
      /\ UNCHANGED <<attr, copied, infos, got, out>>
  BY DEF Written, job, writer, reader
<1>2. Control' /\ Contents' /\ Added'
  BY <1>1, SameWriting DEF Trip, Control, Contents, Sound
<1>3. Formatted'
  <2>1. multiple => Layout(fork.cells)'
    BY <1>1, LayoutKept DEF Trip, Formatted
  <2>2. Need' = Need /\ \A in, data : Value(in, data)' = Value(in, data)
    BY <1>1 DEF Need, Value
  <2> QED BY <1>1, <2>1, <2>2 DEF Trip, Formatted
<1>4. Laid' /\ Copies' /\ ReadBack'
  BY <1>1 DEF Trip, Laid, Copies, ReadBack
<1> QED BY <1>2, <1>3, <1>4 DEF Trip

\* A staged payload may give up room, but keeps its cells.
LEMMA StageTrips == ASSUME IInv, Trip, Stage PROVE Trip'
<1>1. /\ phase = "sealed" /\ why = "none" /\ storage # "fork"
      /\ store' \in FinishPayload(store)
      /\ UNCHANGED <<kind, storage, size, taken, written, multiple, inline, sizes>>
      /\ UNCHANGED <<fork, attr, copied, infos, got, out>>
  BY DEF Stage, job, writer, reader, Trip, Control
<1>2. /\ Sound(store) /\ copied = 0 /\ copied \in 0 .. Len(store.cells) /\ fork = Empty
      /\ got = <<>> /\ taken \in 0 .. size
  BY <1>1 DEF Trip, Contents, Copies, ReadBack, Control
<1>3. store' \in Streams /\ store'.cells = store.cells
  <2>1. Len(store.cells) \in Nat
    BY <1>2 DEF Sound, Streams
  <2> QED BY <1>1, <1>2, <2>1 DEF FinishPayload, Sound, Streams
<1>4. Contents'
  BY <1>1, <1>3 DEF Trip, Contents, Sound
<1>5. CASE Stop("shrink_to")
  BY <1>1, <1>2, <1>3, <1>4, <1>5, GivenUp DEF Stop, Trip
<1>6. CASE phase' = "copying" /\ why' = why
  <2>1. Control'
    BY <1>1, <1>6 DEF Trip, Control
  <2>2. Added'
    <3>1. ASSUME ~multiple PROVE store' = Empty
      <4>1. store = Empty
        BY <1>1, <3>1 DEF Trip, Added
      <4>2. Len(store.cells) = 0
        BY <4>1 DEF Empty
      <4>3. [store EXCEPT !.cap = Len(store.cells)] = Empty
        BY <4>1, <4>2 DEF Empty
      <4> QED BY <1>1, <4>1, <4>3 DEF FinishPayload
    <3>2. Need' = Need
      BY <1>1 DEF Need
    <3> QED BY <1>1, <1>6, <3>1, <3>2 DEF Trip, Added
  <2>3. Formatted'
    <3>1. multiple => Layout(store.cells)'
      BY <1>1, <1>3, LayoutKept DEF Trip, Formatted
    <3>2. Need' = Need /\ \A in, data : Value(in, data)' = Value(in, data)
      BY <1>1 DEF Need, Value
    <3> QED BY <1>1, <1>6, <3>1, <3>2 DEF Trip, Formatted
  <2>4. Copies'
    <3>1. fork.pos = 0 /\ fork.cells = <<>> /\ Len(fork.cells) = 0 /\ fork.err = "none"
      BY <1>2 DEF Empty
    <3> QED BY <1>1, <1>2, <1>3, <1>6, <3>1 DEF Copies
  <2>5. Laid' /\ ReadBack'
    BY <1>1, <1>2, <1>6 DEF Laid, ReadBack
  <2> QED BY <1>4, <2>1, <2>2, <2>3, <2>4, <2>5 DEF Trip
<1> QED BY <1>5, <1>6 DEF Stage

-----------------------------------------------------------------------------
(* The steps of the publisher. *)

\* What is copied is behind what was copied before.
LEMMA CopyTrips == ASSUME IInv, Trip, CopyPayload PROVE Trip'
<1> DEFINE c == store.cells
           buffer == Read(store, copied, CopyBuffer)
           m == Lesser(copied + CopyBuffer, Len(c))
           x == m - copied
<1>1. /\ phase = "copying" /\ why = "none" /\ copied < Len(store.cells)
      /\ copied' = copied + Len(buffer)
      /\ fork' = Write("fork", 0, fork, buffer) /\ GoOn(fork', "copying")
      /\ UNCHANGED <<kind, storage, size, taken, written, multiple, inline, sizes, store>>
      /\ UNCHANGED <<attr, infos, got, out>>
  BY DEF CopyPayload, job, writer, reader, Trip, Control
<1>2. /\ c \in Seq(Cell) /\ Len(c) \in Nat /\ copied \in Nat /\ CopyBuffer \in Nat \ {0}
      /\ taken \in 0 .. size /\ fork \in Streams /\ fork.pos <= MaxOffset
      /\ Len(fork.cells) <= MaxOffset /\ got = <<>> /\ MaxOffset \in Nat
      /\ fork.pos = copied /\ Len(fork.cells) = copied
      /\ \A i \in 1 .. copied : fork.cells[i] = c[i]
  BY <1>1, CompressedFileAssumption
     DEF Trip, Control, Contents, Copies, ReadBack, Sound, Streams
<1>3. /\ m \in Nat /\ copied < m /\ m <= Len(c) /\ x \in Nat /\ copied + x = m
  <2>1. /\ Len(c) \in Nat /\ copied \in Nat /\ CopyBuffer \in Nat /\ CopyBuffer > 0
        /\ copied < Len(c)
    BY <1>1, <1>2
  <2> HIDE DEF c
  <2>2. m \in Nat /\ copied < m /\ m <= Len(c)
    BY ONLY <2>1 DEF m, Lesser
  <2> HIDE DEF m
  <2> QED BY ONLY <2>1, <2>2 DEF x
<1> HIDE DEF m, x
<1>4. buffer \in Seq(Cell) /\ Len(buffer) = x /\ \A i \in 1 .. x : buffer[i] = c[copied + i]
  <2>1. buffer = SubSeq(c, copied + 1, m)
    BY DEF Read, m
  <2>2. copied + 1 \in Int /\ m \in Int /\ \A i \in copied + 1 .. m : c[i] \in Cell
    BY <1>2, <1>3
  <2> HIDE DEF buffer, c
  <2>3. /\ SubSeq(c, copied + 1, m) \in Seq(Cell)
        /\ Len(SubSeq(c, copied + 1, m))
             = IF copied + 1 <= m THEN m - (copied + 1) + 1 ELSE 0
        /\ \A i \in 1 .. m - (copied + 1) + 1 :
             SubSeq(c, copied + 1, m)[i] = c[(copied + 1) + i - 1]
    BY ONLY <1>2, <2>2, SubSeqProperties
  <2>4. /\ (IF copied + 1 <= m THEN m - (copied + 1) + 1 ELSE 0) = x
        /\ m - (copied + 1) + 1 = x
        /\ \A i \in 1 .. x : (copied + 1) + i - 1 = copied + i
    BY ONLY <1>2, <1>3
  <2> QED BY <2>1, <2>3, <2>4
<1> HIDE DEF buffer
<1> DEFINE d == fork'.cells
<1>5. /\ fork' \in Streams /\ fork'.pos <= MaxOffset
      /\ fork'.err = "none" => d = Overlay(fork.cells, fork.pos, buffer)
                               /\ fork'.pos = fork.pos + Len(buffer)
      /\ \/ fork'.pos = fork.pos /\ d = fork.cells
         \/ fork'.pos = fork.pos + Len(buffer) /\ d = Overlay(fork.cells, fork.pos, buffer)
  BY <1>1, <1>2, <1>4, WriteIs
<1>6. Overlaid(Overlay(fork.cells, fork.pos, buffer), fork.cells, fork.pos, buffer)
  BY <1>2, <1>4, OverlayIs DEF Streams
<1> HIDE DEF d
<1>7. Len(Overlay(fork.cells, fork.pos, buffer)) = m
  BY <1>2, <1>3, <1>4, <1>6 DEF Overlaid, Greater
<1>8. Contents'
  <2>1. Len(fork'.cells) <= MaxOffset
    BY <1>2, <1>3, <1>4, <1>5, <1>7 DEF d
  <2> QED BY <1>1, <1>5, <2>1 DEF Trip, Contents, Sound
<1>9. copied' = m /\ copied' \in 0 .. Len(store'.cells)
  BY <1>1, <1>2, <1>3, <1>4
<1>10. CASE fork'.err # "none"
  BY <1>1, <1>2, <1>8, <1>9, <1>10, GivenUp DEF GoOn, Stop, Trip
<1>11. CASE fork'.err = "none"
  <2>1. phase' = "copying" /\ why' = "none"
    BY <1>1, <1>11 DEF GoOn
  <2>2. Control' /\ Added'
    BY <1>1, <2>1, SameWriting DEF Trip, Control
  <2>3. Formatted'
    <3>1. multiple => Layout(store.cells)'
      BY <1>1, LayoutKept DEF Trip, Formatted
    <3>2. Need' = Need /\ \A in, data : Value(in, data)' = Value(in, data)
      BY <1>1 DEF Need, Value
    <3> QED BY <1>1, <2>1, <3>1, <3>2 DEF Trip, Formatted
  <2>4. ASSUME NEW i \in 1 .. m PROVE fork'.cells[i] = c[i]
    <3>1. Overlaid(d, fork.cells, copied, buffer)
      BY <1>2, <1>5, <1>6, <1>11
    <3>2. CASE i <= copied
      <4>1. d[i] = fork.cells[i] /\ fork.cells[i] = c[i]
        BY <1>2, <3>1, <3>2 DEF Overlaid
      <4> QED BY <4>1 DEF d
    <3>3. CASE ~(i <= copied)
      <4>1. i - copied \in 1 .. x /\ copied + (i - copied) = i
        BY <1>2, <1>3, <3>3
      <4>2. d[copied + (i - copied)] = buffer[i - copied]
        BY <1>4, <3>1, <4>1 DEF Overlaid
      <4> QED BY <1>4, <4>1, <4>2 DEF d
    <3> QED BY <3>2, <3>3
  <2>5. Copies'
    <3>1. fork'.pos = m /\ Len(fork'.cells) = m
      BY <1>2, <1>3, <1>4, <1>5, <1>7, <1>11 DEF d
    <3>2. \A i \in 1 .. copied' : fork'.cells[i] = store'.cells[i]
      BY <1>1, <1>9, <2>4
    <3> QED BY <1>9, <1>11, <2>1, <3>1, <3>2 DEF Copies
  <2>6. Laid' /\ ReadBack'
    BY <1>1, <1>2, <2>1 DEF Laid, ReadBack
  <2> QED BY <1>8, <2>2, <2>3, <2>5, <2>6 DEF Trip
<1> QED BY <1>10, <1>11

\* In the end the fork is the payload.
LEMMA CopiedTrips == ASSUME IInv, Trip, Copied PROVE Trip'
<1>1. /\ phase = "copying" /\ copied = Len(store.cells) /\ phase' = "labelling"
      /\ UNCHANGED <<kind, storage, size, why, taken, written, multiple, inline, sizes, store>>
      /\ UNCHANGED <<fork, attr, copied, infos, got, out>>
  BY DEF Copied, job, writer, reader
<1>2. Control' /\ Contents' /\ Added'
  BY <1>1, SameWriting DEF Trip, Control, Contents, Sound
<1>3. fork.cells = store.cells
  <2> DEFINE a == fork.cells
             b == store.cells
  <2>1. /\ a \in Seq(Cell) /\ b \in Seq(Cell) /\ Len(a) = Len(b)
        /\ \A i \in 1 .. Len(a) : a[i] = b[i]
    BY <1>1 DEF Trip, Contents, Copies, Sound, Streams
  <2> HIDE DEF a, b
  <2>2. a = b
    BY <2>1, SeqEqual
  <2> QED BY <2>2 DEF a, b
<1>4. Formatted'
  <2>1. multiple => Layout(fork.cells)'
    BY <1>1, <1>3, LayoutKept DEF Trip, Formatted
  <2>2. Need' = Need /\ \A in, data : Value(in, data)' = Value(in, data)
    BY <1>1 DEF Need, Value
  <2> QED BY <1>1, <2>1, <2>2 DEF Trip, Formatted
<1>5. Laid' /\ Copies' /\ ReadBack'
  BY <1>1 DEF Trip, Laid, Copies, ReadBack
<1> QED BY <1>2, <1>4, <1>5 DEF Trip

\* The attribute says what was sealed.
LEMMA LabelTrips == ASSUME IInv, Trip, Label PROVE Trip'
<1>1. /\ phase = "labelling" /\ phase' = "published"
      /\ UNCHANGED <<kind, storage, size, why, taken, written, multiple, inline, sizes, store>>
      /\ UNCHANGED <<fork, attr, copied, infos, got, out>>
  BY DEF Label, job, writer, reader
<1>2. Control' /\ Contents' /\ Added'
  BY <1>1, SameWriting DEF Trip, Control, Contents, Sound
<1>3. Formatted'
  <2>1. multiple => Layout(fork.cells)'
    BY <1>1, LayoutKept DEF Trip, Formatted
  <2>2. Need' = Need /\ \A in, data : Value(in, data)' = Value(in, data)
    BY <1>1 DEF Need, Value
  <2> QED BY <1>1, <2>1, <2>2 DEF Trip, Formatted
<1>4. Laid' /\ Copies' /\ ReadBack'
  BY <1>1 DEF Trip, Laid, Copies, ReadBack
<1> QED BY <1>2, <1>3, <1>4 DEF Trip

\* A failure gives the file up.
LEMMA FailTrips == ASSUME IInv, Trip, Fail PROVE Trip'
<1>1. /\ phase' = "stopped" /\ why' = "io error"
      /\ UNCHANGED <<kind, storage, size, taken, written, multiple, inline, sizes, store>>
      /\ UNCHANGED <<fork, copied, out>>
  BY DEF Fail, Stop, job, writer, reader
<1>2. Contents' /\ copied' \in 0 .. Len(store'.cells) /\ taken' \in 0 .. size
  BY <1>1 DEF Trip, Control, Contents, Copies, Sound
<1> QED BY <1>1, <1>2, GivenUp DEF Trip

-----------------------------------------------------------------------------
(* The steps of the reader. *)

\* The number in the attribute says which format the file has, and where its blocks are.
LEMMA StorageRead ==
  ASSUME NEW k \in {"zlib", "lzvn", "lzfse"}, NEW in \in {"xattr", "fork"}
  PROVE  compression_storage(CompressionType[k][in]) = <<k, in>>
<1> DEFINE Places == {"zlib", "lzvn", "lzfse"} \X {"xattr", "fork"}
           t == CompressionType[k][in]
           q == CHOOSE p \in Places : CompressionType[p[1]][p[2]] = t
<1>1. <<k, in>> \in Places /\ CompressionType[<<k, in>>[1]][<<k, in>>[2]] = t
  OBVIOUS
<1>2. q \in Places /\ CompressionType[q[1]][q[2]] = t
  <2> HIDE DEF t, Places
  <2> QED BY <1>1
<1>3. \A a, b \in {"zlib", "lzvn", "lzfse"} : \A x, y \in {"xattr", "fork"} :
        CompressionType[a][x] = CompressionType[b][y] => a = b /\ x = y
  BY DEF CompressionType
<1>4. q[1] = k /\ q[2] = in /\ q = <<q[1], q[2]>>
  <2>1. q[1] \in {"zlib", "lzvn", "lzfse"} /\ q[2] \in {"xattr", "fork"} /\ q = <<q[1], q[2]>>
    <3> HIDE DEF q
    <3> QED BY <1>2
  <2> HIDE DEF q
  <2> QED BY <1>2, <1>3, <2>1
<1> QED BY <1>4 DEF compression_storage

\* What the attribute of a finished file says.
LEMMA AttributeRead ==
  ASSUME IInv, Trip, phase \in {"published", "reading"}
  PROVE  /\ compression_storage(attr.type)
              = <<kind, IF multiple THEN "fork" ELSE "xattr">>
         /\ attr.size = size /\ num_blocks(attr.size) = Need
         /\ ~multiple => attr.data = inline
<1>1. attr = IF multiple THEN Value("fork", <<>>) ELSE Value("xattr", inline)
  BY DEF Trip, Formatted
<1>2. kind \in {"zlib", "lzvn", "lzfse"}
  BY DEF IInv, Job
<1>3. CASE multiple
  <2>1. attr.type = CompressionType[kind]["fork"] /\ attr.size = size
    BY <1>1, <1>3 DEF Value
  <2> QED BY <1>2, <1>3, <2>1, StorageRead DEF Need
<1>4. CASE ~multiple
  <2>1. /\ attr.type = CompressionType[kind]["xattr"] /\ attr.size = size
        /\ attr.data = inline
    BY <1>1, <1>4 DEF Value
  <2> QED BY <1>2, <1>4, <2>1, StorageRead DEF Need
<1> QED BY <1>3, <1>4

\* The reader finds the table that the writer wrote.
LEMMA OpenTrips == ASSUME IInv, Trip, OpenReader PROVE Trip'
<1>1. /\ phase = "published" /\ why = "none" /\ got = <<>>
      /\ UNCHANGED <<kind, storage, size, taken, written, multiple, inline, sizes, store>>
      /\ UNCHANGED <<fork, attr, copied, got, out>>
  BY DEF OpenReader, job, writer, Trip, Control, ReadBack
<1>2. /\ sizes \in Seq(Nat) /\ Header \in Nat /\ Need \in Nat
      /\ fork.cells \in Seq(Cell) /\ Len(fork.cells) <= MaxOffset
      /\ written \in Seq(Seq(Cell))
  BY Basics DEF Trip, Contents, Streams
<1>3. ASSUME phase' = "reading", why' = why,
             infos' = IF multiple THEN Infos ELSE <<>>
      PROVE  Trip'
  <2>1. Control' /\ Contents' /\ Added'
    BY <1>1, <1>3, SameWriting DEF Trip, Control, Contents, Sound
  <2>2. Formatted'
    <3>1. multiple => Layout(fork.cells)'
      BY <1>1, LayoutKept DEF Trip, Formatted
    <3>2. Need' = Need /\ \A in, data : Value(in, data)' = Value(in, data)
      BY <1>1 DEF Need, Value
    <3> QED BY <1>1, <1>3, <3>1, <3>2 DEF Trip, Formatted
  <2>3. ReadBack'
    <3>1. ASSUME multiple
          PROVE  /\ got' \in Seq(Seq(Cell)) /\ Len(got') + Len(infos') = Len(written')
                 /\ infos' \in Seq([offset : Nat, len : Nat])
                 /\ \A k \in 1 .. Len(got') : got'[k] = written'[k]
                 /\ \A j \in 1 .. Len(infos') : infos'[j] = Info(Len(got') + j)
      <4>1. infos' = Infos /\ Len(sizes) \in Nat /\ Len(sizes) = Len(written)
        BY <1>1, <1>2, <1>3, <3>1 DEF Trip, Added
      <4>2. \A k \in 1 .. Len(sizes) : Info(k) \in [offset : Nat, len : Nat]
        <5>1. \A k \in 1 .. Len(sizes) : k - 1 \in 0 .. Len(sizes) /\ sizes[k] \in Nat
          BY <1>2
        <5> QED BY <1>2, <5>1, StartsAre DEF Info
      <4>3. Infos \in Seq([offset : Nat, len : Nat]) /\ Len(Infos) = Len(sizes)
        <5>1. Infos \in [1 .. Len(sizes) -> [offset : Nat, len : Nat]]
          BY <4>2 DEF Infos
        <5> QED BY <4>1, <5>1, Listed
      <4>4. \A j \in 1 .. Len(sizes) : Infos[j] = Info(j)
        BY DEF Infos
      <4>5. Len(got') = 0 /\ got' \in Seq(Seq(Cell)) /\ \A j \in Nat : 0 + j = j
        BY <1>1
      <4> QED BY <1>1, <4>1, <4>3, <4>4, <4>5
    <3>2. \A k : Info(k)' = Info(k)
      <4>1. Start' = Start
        BY <1>1 DEF Start, Header, Need
      <4> QED BY <1>1, <4>1 DEF Info
    <3> QED BY <1>1, <1>3, <3>1, <3>2 DEF ReadBack
  <2>4. Laid' /\ Copies'
    BY <1>1, <1>3 DEF Trip, Laid, Copies
  <2> QED BY <2>1, <2>2, <2>3, <2>4 DEF Trip
<1>4. CASE multiple
  <2>1. Len(sizes) = Need /\ Layout(fork.cells)
    BY <1>1, <1>4 DEF Trip, Formatted
  <2>2. LET table == read_block_info(kind, fork.cells, Need) IN table.ok /\ table.infos = Infos
    BY <1>2, <2>1, TableRead
  <2>3. compression_storage(attr.type) = <<kind, "fork">> /\ num_blocks(attr.size) = Need
    BY <1>1, <1>4, AttributeRead
  <2>4. infos' = Infos /\ phase' = "reading" /\ why' = why
    BY <2>2, <2>3 DEF OpenReader
  <2> QED BY <1>3, <1>4, <2>4
<1>5. CASE ~multiple
  <2>1. compression_storage(attr.type) = <<kind, "xattr">>
    BY <1>1, <1>5, AttributeRead
  <2>2. infos' = <<>> /\ phase' = "reading" /\ why' = why
    BY <2>1 DEF OpenReader
  <2> QED BY <1>3, <1>5, <2>2
<1> QED BY <1>4, <1>5

\* A decompressed block is written in full, or too long.
LEMMA PlainWritten ==
  ASSUME IInv, IInv', Contents, size' = size, NEW n \in Nat, write_uncompressed_block(n)
  PROVE  /\ out' \in Streams /\ out'.err = "none"
         /\ \/ phase' = "reading" /\ why' = why
            \/ phase' = "stopped" /\ why' = "longer than expected"
<1>1. out \in Streams /\ out.err = "none" /\ size \in Nat
  BY DEF Contents, IInv, Job
<1>2. CASE out.pos + n > size
  BY <1>1, <1>2 DEF write_uncompressed_block, Stop
<1>3. CASE ~(out.pos + n > size)
  <2> DEFINE new == [i \in 1 .. n |-> <<"plain", i>>]
  <2>1. new \in Seq(Cell)
    <3>1. \A i \in 1 .. n : <<"plain", i>> \in Cell
      BY DEF Cell
    <3>2. new \in [1 .. n -> Cell]
      BY <3>1
    <3> HIDE DEF new
    <3> QED BY <3>2, Listed
  <2>2. out' = Write("memory", size, out, new) /\ GoOn(out', "reading")
    BY <1>3 DEF write_uncompressed_block
  <2> HIDE DEF new
  <2>3. out' \in Streams
    BY <1>1, <2>1, <2>2, WriteIs
  <2>4. out'.err \in {"none", "limit"}
    BY <1>1, <2>2 DEF Write, Refuse, Streams
  <2>5. out'.err # "limit"
    BY DEF IInv, Plain, Fits
  <2> QED BY <2>2, <2>3, <2>4, <2>5 DEF GoOn
<1> QED BY <1>2, <1>3

\* What a step of the reader leaves alone.
LEMMA SameFile ==
  ASSUME Trip, phase = "reading",
         UNCHANGED <<kind, storage, size, taken, written, multiple, inline, sizes, store>>,
         UNCHANGED <<fork, attr, copied>>, phase' \in {"reading", "read", "stopped"},
         out' \in Streams, out'.err = "none", phase' = "stopped" <=> why' # "none",
         why' # "unreadable"
  PROVE  /\ Control' /\ Contents' /\ Laid' /\ Formatted' /\ Copies'
         /\ phase' # "stopped" => Added'
         /\ \A k : Info(k)' = Info(k)
<1>1. Control' /\ Contents' /\ Laid' /\ Copies'
  BY DEF Trip, Control, Contents, Sound, Laid, Copies
<1>2. Formatted'
  <2>1. multiple => Layout(fork.cells)'
    BY LayoutKept DEF Trip, Formatted
  <2>2. Need' = Need /\ \A in, data : Value(in, data)' = Value(in, data)
    BY DEF Need, Value
  <2> QED BY <2>1, <2>2 DEF Trip, Formatted
<1>3. phase' # "stopped" => Added'
  BY SameWriting DEF Trip
<1>4. \A k : Info(k)' = Info(k)
  <2>1. Start' = Start
    BY DEF Start, Header, Need
  <2> QED BY <2>1 DEF Info
<1> QED BY <1>1, <1>2, <1>3, <1>4

\* The block that is read is the next that was written.
LEMMA ReadIs ==
  ASSUME IInv, Trip, read_block_into
  PROVE  /\ Len(got) \in Nat /\ Len(got) < Len(written)
         /\ got' = Append(got, written[Len(got) + 1])
         /\ multiple => infos # <<>>
         /\ infos' = IF multiple THEN Tail(infos) ELSE <<>>
         /\ \E n \in Nat : write_uncompressed_block(n)
<1>1. phase = "reading" /\ HasBlock
  BY DEF read_block_into
<1>2. /\ sizes \in Seq(Nat) /\ Header \in Nat /\ fork.cells \in Seq(Cell)
      /\ written \in Seq(Seq(Cell)) /\ kind \in {"zlib", "lzvn", "lzfse"}
  BY Basics DEF Trip, Contents, Streams, IInv, Job
<1>3. \A n, k, c : n \in Decompressed(k, c) => n \in Nat
  BY CompressedFileAssumption
     DEF Decompressed, ZlibDecompressed, LzDecompressed, BlockCapacity
<1>4. CASE multiple
  <2>1. /\ got \in Seq(Seq(Cell)) /\ Len(got) + Len(infos) = Len(written)
        /\ infos \in Seq([offset : Nat, len : Nat])
        /\ \A j \in 1 .. Len(infos) : infos[j] = Info(Len(got) + j)
    BY <1>1, <1>4 DEF Trip, ReadBack
  <2>2. /\ Len(sizes) = Len(written) /\ Layout(fork.cells)
        /\ \A k \in 1 .. Len(sizes) : Len(written[k]) = sizes[k]
    BY <1>1, <1>4 DEF Trip, Added, Formatted
  <2>3. infos # <<>>
    <3>1. compression_storage(attr.type)[2] = "fork"
      BY <1>1, <1>4, AttributeRead
    <3> QED BY <1>1, <3>1 DEF HasBlock
  <2> DEFINE k == Len(got) + 1
             w == written[k]
  <2>4. /\ k \in 1 .. Len(sizes) /\ Head(infos) = Info(k) /\ w \in Seq(Cell)
        /\ Len(w) = sizes[k] /\ Len(got) \in Nat /\ Len(got) < Len(written)
    <3>1. Len(infos) >= 1 /\ Len(got) \in Nat /\ Len(infos) \in Nat /\ Head(infos) = infos[1]
      BY <2>1, <2>3
    <3>2. k \in 1 .. Len(sizes) /\ 1 \in 1 .. Len(infos) /\ Len(got) < Len(written)
      BY <2>1, <2>2, <3>1
    <3>3. Head(infos) = Info(k)
      BY <2>1, <3>1, <3>2
    <3> HIDE DEF k
    <3> QED BY <1>2, <2>2, <3>1, <3>2, <3>3
  <2>5. Read(fork, Head(infos).offset, Head(infos).len) = w /\ Head(infos).len = sizes[k]
    <3> HIDE DEF k
    <3>1. Read(fork, Info(k).offset, Info(k).len) = written[k]
      BY ONLY <1>2, <2>2, <2>4, BlockRead
    <3>2. Info(k).len = sizes[k]
      BY DEF Info
    <3> QED BY <2>4, <3>1, <3>2
  <2>6. /\ infos' = Tail(infos) /\ got' = Append(got, w)
        /\ \E n \in Decompressed(kind, Len(w)) : write_uncompressed_block(n)
    <3> HIDE DEF w
    <3> QED BY <2>3, <2>4, <2>5 DEF read_block_into
  <2>7. \E n \in Nat : write_uncompressed_block(n)
    BY <1>3, <2>6
  <2> QED BY <1>4, <2>3, <2>4, <2>6, <2>7
<1>5. CASE ~multiple
  <2>1. infos = <<>> /\ attr.data = inline /\ compression_storage(attr.type)[2] = "xattr"
    BY <1>1, <1>5, AttributeRead DEF Trip, ReadBack
  <2>2. got = <<>> /\ inline # <<>> /\ written = <<inline>>
    BY <1>1, <1>5, <2>1 DEF HasBlock, Trip, Added
  <2>3. /\ infos' = <<>> /\ got' = <<inline>>
        /\ \E n \in Decompressed(kind, Len(inline)) : write_uncompressed_block(n)
    BY <2>1 DEF read_block_into
  <2>4. \E n \in Nat : write_uncompressed_block(n)
    BY <1>3, <2>3
  <2>5. Len(got) = 0 /\ Len(written) = 1 /\ got' = Append(got, written[1])
    BY <2>2, <2>3
  <2> QED BY <1>5, <2>3, <2>4, <2>5
<1> QED BY <1>4, <1>5

\* And leaves the others to be read.
LEMMA ReadTrips == ASSUME IInv, IInv', Trip, read_block_into PROVE Trip'
<1>1. /\ phase = "reading" /\ why = "none"
      /\ UNCHANGED <<kind, storage, size, taken, written, multiple, inline, sizes, store>>
      /\ UNCHANGED <<fork, attr, copied>>
  BY DEF read_block_into, job, writer, Trip, Control
<1>2. PICK n \in Nat : write_uncompressed_block(n)
  BY ReadIs
<1>3. /\ out' \in Streams /\ out'.err = "none"
      /\ \/ phase' = "reading" /\ why' = why
         \/ phase' = "stopped" /\ why' = "longer than expected"
  BY <1>1, <1>2, PlainWritten DEF Trip
<1>4. /\ Control' /\ Contents' /\ Laid' /\ Formatted' /\ Copies'
      /\ phase' # "stopped" => Added'
  BY <1>1, <1>3, SameFile
<1>5. \A i : Info(i)' = Info(i)
  BY <1>1, <1>3, SameFile
<1>6. CASE phase' = "stopped"
  <2>1. taken' \in 0 .. size /\ copied' \in 0 .. Len(store'.cells)
    BY <1>1 DEF Trip, Control, Copies
  <2> QED BY <1>1, <1>3, <1>4, <1>6, <2>1, GivenUp DEF Trip
<1>7. CASE phase' = "reading"
  <2>1. CASE multiple
    <3>1. /\ got \in Seq(Seq(Cell)) /\ infos \in Seq([offset : Nat, len : Nat])
          /\ Len(got) + Len(infos) = Len(written) /\ written \in Seq(Seq(Cell))
          /\ \A k \in 1 .. Len(got) : got[k] = written[k]
          /\ \A j \in 1 .. Len(infos) : infos[j] = Info(Len(got) + j)
      BY <1>1, <2>1 DEF Trip, Contents, ReadBack
    <3>2. /\ infos # <<>> /\ infos' = Tail(infos)
          /\ got' = Append(got, written[Len(got) + 1]) /\ Len(got) + 1 \in 1 .. Len(written)
      <4>1. Len(written) \in Nat
        BY <3>1
      <4> QED BY <2>1, <4>1, ReadIs
    <3>3. written[Len(got) + 1] \in Seq(Cell)
      BY <3>1, <3>2
    <3>4. /\ got' \in Seq(Seq(Cell)) /\ Len(got') = Len(got) + 1
          /\ infos' \in Seq([offset : Nat, len : Nat]) /\ Len(infos') = Len(infos) - 1
          /\ Len(got) \in Nat /\ Len(infos) \in Nat
      BY <3>1, <3>2, <3>3
    <3>5. Len(got') + Len(infos') = Len(written)
      <4>1. /\ Len(got) + Len(infos) = Len(written)
            /\ Len(got') = Len(got) + 1 /\ Len(infos') = Len(infos) - 1
            /\ Len(got) \in Nat /\ Len(infos) \in Nat
        BY <3>1, <3>4
      <4> QED BY ONLY <4>1
    <3>6. ASSUME NEW j \in 1 .. Len(got') PROVE got'[j] = written[j]
      <4>1. /\ got \in Seq(Seq(Cell)) /\ Len(got) \in Nat
            /\ got' = Append(got, written[Len(got) + 1])
            /\ j \in 1 .. Len(got) + 1 /\ \A k \in 1 .. Len(got) : got[k] = written[k]
        BY <3>1, <3>2, <3>4
      <4>2. CASE j = Len(got) + 1
        <5>1. Append(got, written[Len(got) + 1])[Len(got) + 1] = written[Len(got) + 1]
          BY ONLY <4>1, <3>3, SMTT(30)
        <5> QED BY ONLY <4>1, <4>2, <5>1
      <4>3. CASE j \in 1 .. Len(got)
        <5>1. Append(got, written[Len(got) + 1])[j] = got[j]
          BY ONLY <4>1, <4>3, <3>3, SMTT(30)
        <5> QED BY ONLY <4>1, <4>3, <5>1
      <4>4. j = Len(got) + 1 \/ j \in 1 .. Len(got)
        BY ONLY <4>1
      <4> QED BY <4>2, <4>3, <4>4
    <3>7. ASSUME NEW j \in 1 .. Len(infos') PROVE infos'[j] = Info(Len(got') + j)
      <4>1. j + 1 \in 1 .. Len(infos) /\ Len(got) + (j + 1) = Len(got') + j
        BY <3>4
      <4>2. infos'[j] = infos[j + 1]
        BY <3>1, <3>2, <3>4
      <4> QED BY <3>1, <4>1, <4>2
    <3>8. ReadBack'
      BY <1>1, <1>5, <1>7, <2>1, <3>4, <3>5, <3>6, <3>7 DEF ReadBack
    <3> QED BY <1>4, <1>7, <3>8 DEF Trip
  <2>2. CASE ~multiple
    <3>1. written = IF inline = <<>> THEN <<>> ELSE <<inline>>
      BY <1>1, <2>2 DEF Trip, Added
    <3>2. Len(got) = 0 /\ (got = <<>> \/ got = written) /\ infos' = <<>>
      <4>1. (got = <<>> \/ got = written) /\ Len(got) < Len(written) /\ infos' = <<>>
        BY <1>1, <2>2, ReadIs DEF Trip, ReadBack
      <4>2. Len(written) \in Nat
        BY DEF Trip, Contents
      <4> QED BY <4>1, <4>2
    <3>3. got = <<>> /\ written = <<inline>>
      <4>1. (Len(written) = 1 /\ Len(<<>>) = 0) \/ written = <<>>
        BY <3>1
      <4>2. written # <<>>
        <5>1. Len(got) < Len(written)
          BY ReadIs
        <5> QED BY <3>2, <5>1
      <4> QED BY <3>1, <3>2, <4>1, <4>2
    <3>4. got' = written
      <4>1. got' = Append(<<>>, written[0 + 1])
        BY <3>2, <3>3, ReadIs
      <4> QED BY <3>3, <4>1
    <3>5. ReadBack'
      BY <1>1, <1>7, <2>2, <3>2, <3>4 DEF ReadBack
    <3> QED BY <1>4, <1>7, <3>5 DEF Trip
  <2> QED BY <2>1, <2>2
<1> QED BY <1>3, <1>6, <1>7

\* When there are no more blocks, all were read.
LEMMA AllRead ==
  ASSUME IInv, Trip, phase = "reading", ~HasBlock
  PROVE  got = written
<1>1. CASE multiple
  <2>1. compression_storage(attr.type)[2] = "fork"
    BY <1>1, AttributeRead
  <2>2. infos = <<>>
    BY <2>1 DEF HasBlock
  <2>3. /\ got \in Seq(Seq(Cell)) /\ written \in Seq(Seq(Cell))
        /\ Len(got) + Len(infos) = Len(written)
        /\ \A k \in 1 .. Len(got) : got[k] = written[k]
    BY <1>1 DEF Trip, Contents, ReadBack
  <2>4. Len(infos) = 0 /\ Len(got) \in Nat
    BY <2>2, <2>3
  <2>5. Len(got) = Len(written)
    BY <2>3, <2>4
  <2> QED BY <2>3, <2>5, SeqEqual
<1>2. CASE ~multiple
  <2>1. compression_storage(attr.type)[2] = "xattr" /\ attr.data = inline
    BY <1>2, AttributeRead
  <2>2. /\ got = <<>> \/ got = written
        /\ written = IF inline = <<>> THEN <<>> ELSE <<inline>>
    BY <1>2 DEF Trip, ReadBack, Added
  <2> QED BY <2>1, <2>2 DEF HasBlock
<1> QED BY <1>1, <1>2

\* So the file was read in full.
LEMMA NoMoreTrips == ASSUME IInv, Trip, NoMoreBlocks PROVE Trip'
<1>1. /\ phase = "reading" /\ why = "none" /\ ~HasBlock
      /\ UNCHANGED <<kind, storage, size, taken, written, multiple, inline, sizes, store>>
      /\ UNCHANGED <<fork, attr, copied, infos, got, out>>
      /\ \/ phase' = "read" /\ why' = why
         \/ phase' = "stopped" /\ why' = "shorter than expected"
  BY DEF NoMoreBlocks, Stop, job, writer, reader, Trip, Control
<1>2. out' \in Streams /\ out'.err = "none"
  BY <1>1 DEF Trip, Contents
<1>3. /\ Control' /\ Contents' /\ Laid' /\ Formatted' /\ Copies'
      /\ phase' # "stopped" => Added'
  BY <1>1, <1>2, SameFile
<1>4. \A k : Info(k)' = Info(k)
  BY <1>1, <1>2, SameFile
<1>5. CASE phase' = "stopped"
  <2>1. taken' \in 0 .. size /\ copied' \in 0 .. Len(store'.cells)
    BY <1>1 DEF Trip, Control, Copies
  <2> QED BY <1>1, <1>3, <1>5, <2>1, GivenUp DEF Trip
<1>6. CASE phase' = "read"
  <2>1. got = written
    BY <1>1, AllRead
  <2>2. ReadBack'
    BY <1>1, <1>4, <1>6, <2>1 DEF Trip, ReadBack
  <2> QED BY <1>3, <1>6, <2>2 DEF Trip
<1> QED BY <1>1, <1>5, <1>6

-----------------------------------------------------------------------------
(* The round trip. *)

\* Every step of the system preserves the invariant.
LEMMA NextTrips == IInv /\ IInv' /\ Trip /\ [Next]_vars => Trip'
<1> SUFFICES ASSUME IInv, IInv', Trip, [Next]_vars PROVE Trip'
  OBVIOUS
<1>1. CASE Create \/ Chunk \/ EndOfStream \/ Seal
  BY <1>1, CreateTrips, ChunkTrips, EndTrips, SealTrips
<1>2. CASE Written \/ Stage \/ CopyPayload \/ Copied \/ Label \/ Fail
  BY <1>2, WrittenTrips, StageTrips, CopyTrips, CopiedTrips, LabelTrips, FailTrips
<1>3. CASE OpenReader \/ read_block_into \/ NoMoreBlocks
  BY <1>3, OpenTrips, ReadTrips, NoMoreTrips
<1>4. CASE UNCHANGED vars
  <2>1. /\ UNCHANGED <<kind, storage, size, phase, why, taken, written, multiple, inline>>
        /\ UNCHANGED <<sizes, store, fork, attr, copied, infos, got, out>>
    BY <1>4 DEF vars
  <2>2. Need' = Need /\ Header' = Header /\ \A in, data : Value(in, data)' = Value(in, data)
    BY <2>1 DEF Need, Header, Value
  <2>3. Start' = Start
    BY <2>1, <2>2 DEF Start
  <2>4. Last' = Last /\ \A k : Info(k)' = Info(k)
    BY <2>1, <2>3 DEF Last, Info
  <2>5. Control' /\ Contents' /\ Added' /\ Copies'
    BY <2>1, <2>2 DEF Trip, Control, Contents, Sound, Added, Copies
  <2>6. Laid'
    <3>1. Raw(store)' = Raw(store)
      BY <2>1, <2>2, <2>3, <2>4 DEF Raw, Placed
    <3> QED BY <2>1, <2>2, <3>1 DEF Trip, Laid
  <2>7. Formatted'
    <3>1. /\ Layout(store.cells) => Layout(store.cells)'
          /\ Layout(fork.cells) => Layout(fork.cells)'
      BY <2>1, LayoutKept
    <3> QED BY <2>1, <2>2, <3>1 DEF Trip, Formatted
  <2>8. ReadBack'
    BY <2>1, <2>4 DEF Trip, ReadBack
  <2> QED BY <2>5, <2>6, <2>7, <2>8 DEF Trip
<1> QED BY <1>1, <1>2, <1>3, <1>4 DEF Next, Terminated

\* What was written is laid out as the reader expects it, and what was read is what was
\* written, in every state that the system can be in.
THEOREM RoundTrip == Spec => []Trip
<1>1. Init => Trip
  BY InitIsTrip
<1>2. IInv /\ IInv' /\ Trip /\ [Next]_vars => Trip'
  BY NextTrips
<1> QED BY <1>1, <1>2, InvariantHolds, PTL DEF Spec

\* All variables have their types.
THEOREM TypeCorrect == Spec => []TypeOK
<1>1. Stream = Streams
  BY DEF Stream, Streams, Cell
<1>2. IInv /\ Trip => TypeOK
  BY <1>1 DEF IInv, Job, Trip, Control, Contents, Copies, Sound, TypeOK
<1> QED BY <1>2, InvariantHolds, RoundTrip, PTL

\* For every source, every format and every place to write to: the reader finds the table
\* that the writer's finish wrote, and all of every block that it lists.
THEOREM PublishedCanBeRead == Spec => []PublishedIsReadable
<1>1. Trip => PublishedIsReadable
  BY DEF Trip, Control, PublishedIsReadable
<1> QED BY <1>1, RoundTrip, PTL

-----------------------------------------------------------------------------
(* The refinement. *)

\* A file with one block that was given to the writer has it in the attribute.
GivenBlock ==
  /\ phase = "new" => taken = 0
  /\ phase = "writing" /\ ~multiple /\ taken > 0 => inline # <<>>
  /\ phase = "sealing" /\ ~multiple /\ ~LostBlocks => inline # <<>>

\* Nor does it lose that block before it is labelled.
SealedWithBlock ==
  phase \in {"sealed", "copying", "labelling"} /\ ~multiple => inline # <<>>

\* The block is there when the stream ends, if all of the source arrives.
LEMMA GivenBlockKept ==
  ASSUME IInv, Trip, GivenBlock, [Next]_vars
  PROVE  GivenBlock'
<1>1. CASE Create
  <2>1. taken' = 0 /\ phase' \in {"writing", "stopped"}
    BY <1>1 DEF Create, GivenBlock, GoOn, Stop
  <2> QED BY <2>1 DEF GivenBlock
<1>2. CASE Chunk
  <2>1. PICK block \in Seq(Cell) : block # <<>> /\ add_block(block)
    BY <1>2, ChunkIs DEF Trip
  <2>2. phase = "writing"
    BY <1>2 DEF Chunk
  <2>3. phase' \in {"writing", "stopped"} /\ (phase' = "writing" /\ ~multiple' => inline' # <<>>)
    BY <2>1, <2>2 DEF add_block, AddToFork, GoOn, Stop
  <2> QED BY <2>3 DEF GivenBlock
<1>3. CASE EndOfStream
  <2>1. /\ phase = "writing" /\ phase' = "sealing" /\ UNCHANGED <<multiple, inline>>
        /\ taken = size \/ LostBlocks
    BY <1>3 DEF EndOfStream, writer
  <2>2. size > 0
    BY Basics DEF Trip
  <2> QED BY <2>1, <2>2 DEF GivenBlock
<1>4. CASE \/ Seal \/ Written \/ Stage \/ CopyPayload \/ Copied \/ Label \/ Fail
           \/ OpenReader \/ read_block_into \/ NoMoreBlocks
  <2>1. phase' \notin {"new", "writing", "sealing"}
    BY <1>4 DEF Seal, finish_decmpfs_data, Written, Stage, CopyPayload, Copied, Label, Fail,
       OpenReader, read_block_into, write_uncompressed_block, NoMoreBlocks, GoOn, Stop
  <2> QED BY <2>1 DEF GivenBlock
<1>5. CASE UNCHANGED vars
  BY <1>5 DEF vars, GivenBlock
<1> QED
  BY <1>1, <1>2, <1>3, <1>4, <1>5 DEF Next, Terminated

\* Where the assertion is evaluated, or no block can be lost, it holds.
LEMMA AssertionKept ==
  ASSUME IInv, Trip, GivenBlock, OnlyBlockPresent, [Next]_vars, DebugAssertions \/ ~LostBlocks
  PROVE  OnlyBlockPresent'
<1>1. CASE Seal
  <2>1. phase = "sealing" /\ finish_decmpfs_data /\ UNCHANGED <<multiple, inline>>
    BY <1>1 DEF Seal, writer
  <2>2. ~multiple /\ inline = <<>> => DebugAssertions
    BY <2>1 DEF GivenBlock
  <2>3. ~multiple /\ inline = <<>> => phase' = "stopped"
    BY <2>1, <2>2 DEF finish_decmpfs_data, Stop
  <2> QED BY <2>1, <2>3 DEF OnlyBlockPresent
<1>2. CASE Chunk
  <2>1. PICK block \in Seq(Cell) : add_block(block)
    BY <1>2, ChunkIs DEF Trip
  <2>2. phase' # "sealed"
    BY <1>2, <2>1 DEF Chunk, add_block, AddToFork, GoOn, Stop
  <2> QED BY <2>2 DEF OnlyBlockPresent
<1>3. CASE \/ Create \/ EndOfStream \/ Written \/ Stage \/ CopyPayload \/ Copied \/ Label \/ Fail
           \/ OpenReader \/ read_block_into \/ NoMoreBlocks
  <2>1. phase' # "sealed"
    BY <1>3 DEF Create, EndOfStream, Written, Stage, CopyPayload, Copied, Label, Fail,
       OpenReader, read_block_into, write_uncompressed_block, NoMoreBlocks, GoOn, Stop
  <2> QED BY <2>1 DEF OnlyBlockPresent
<1>4. CASE UNCHANGED vars
  BY <1>4 DEF vars, OnlyBlockPresent
<1> QED
  BY <1>1, <1>2, <1>3, <1>4 DEF Next, Terminated

\* What it is sealed with stays.
LEMMA SealedWithBlockKept ==
  ASSUME IInv, Trip, SealedWithBlock, OnlyBlockPresent', [Next]_vars
  PROVE  SealedWithBlock'
<1>1. CASE Chunk
  <2>1. PICK block \in Seq(Cell) : add_block(block)
    BY <1>1, ChunkIs DEF Trip
  <2>2. phase' \in {"writing", "stopped"}
    BY <1>1, <2>1 DEF Chunk, add_block, AddToFork, GoOn, Stop
  <2> QED BY <2>2 DEF SealedWithBlock
<1>2. CASE Seal
  <2>1. phase' \in {"sealed", "stopped"}
    BY <1>2 DEF Seal, finish_decmpfs_data, GoOn, Stop
  <2> QED BY <2>1 DEF SealedWithBlock, OnlyBlockPresent
<1>3. CASE Written \/ Stage \/ CopyPayload \/ Copied
  <2>1. phase \in {"sealed", "copying"} /\ UNCHANGED <<multiple, inline>>
    BY <1>3 DEF Written, Stage, CopyPayload, Copied, writer
  <2> QED BY <2>1 DEF SealedWithBlock
<1>4. CASE Create \/ EndOfStream \/ Label \/ Fail \/ OpenReader \/ read_block_into \/ NoMoreBlocks
  <2>1. phase' \notin {"sealed", "copying", "labelling"}
    BY <1>4 DEF Create, EndOfStream, Label, Fail, OpenReader, read_block_into,
       write_uncompressed_block, NoMoreBlocks, GoOn, Stop
  <2> QED BY <2>1 DEF SealedWithBlock
<1>5. CASE UNCHANGED vars
  BY <1>5 DEF vars, SealedWithBlock
<1> QED
  BY <1>1, <1>2, <1>3, <1>4, <1>5 DEF Next, Terminated

\* A sequence is the beginning of what it is extended to.
LEMMA FrontIs ==
  ASSUME NEW S, NEW s \in Seq(S), NEW e \in S
  PROVE  /\ Len(Append(s, e)) = Len(s) + 1
         /\ SubSeq(Append(s, e), 1, Len(s)) = s
OBVIOUS

\* Until it is labelled, a file is not sealed.
LEMMA NotSealed ==
  ASSUME Control
  PROVE  /\ phase \in {"new", "writing", "sealing", "sealed", "copying", "labelling"}
              => Sealed = FALSE /\ ReadToEnd = FALSE
         /\ phase \in {"published", "reading"} => Sealed = TRUE /\ ReadToEnd = FALSE
BY DEF Control, Sealed, ReadToEnd

\* A new file has no blocks.
LEMMA InitMaps == Init => File!Init
<1> SUFFICES ASSUME Init PROVE File!Init
  OBVIOUS
<1>1. size \in Nat
  BY CompressedFileAssumption DEF Init
<1>2. num_blocks(size) \in Nat
  BY <1>1, Numbers
<1> QED BY <1>2 DEF Init, File!Init, Sealed, ReadToEnd

\* The blocks come one by one.
LEMMA ChunkMaps ==
  ASSUME IInv, Trip, Chunk
  PROVE  File!Add \/ UNCHANGED File!vars
<1>1. /\ phase = "writing" /\ UNCHANGED <<size, got>>
      /\ \E block \in Seq(Cell) :
           /\ add_block(block)
           /\ written' = IF why' = "none" THEN Append(written, block) ELSE written
  BY ChunkIs DEF Trip
<1>2. why = "none"
  BY <1>1 DEF Trip, Control
<1>3. Sealed = FALSE /\ ReadToEnd = FALSE
  BY <1>1, NotSealed DEF Trip
<1>4. \/ phase' = "writing" /\ why' = "none"
      \/ phase' = "stopped" /\ why' \in {"second block", "does not fit"}
  BY <1>1, <1>2 DEF add_block, AddToFork, GoOn, Stop
<1>5. Sealed' = FALSE /\ ReadToEnd' = FALSE
  BY <1>4 DEF Sealed, ReadToEnd
<1>6. num_blocks(size)' = num_blocks(size)
  BY <1>1
<1>7. CASE \E block \in Seq(Cell) : written' = Append(written, block)
  <2>1. PICK block \in Seq(Cell) : written' = Append(written, block)
    BY <1>7
  <2>2. Len(written') = Len(written) + 1 /\ SubSeq(written', 1, Len(written)) = written
    <3>1. written \in Seq(Seq(Cell))
      BY DEF Trip, Contents
    <3> QED BY <2>1, <3>1, FrontIs
  <2> QED BY <1>1, <1>3, <1>5, <1>6, <2>2 DEF File!Add
<1>8. CASE UNCHANGED written
  BY <1>1, <1>3, <1>5, <1>6, <1>8 DEF File!vars
<1> QED BY <1>1, <1>7, <1>8

\* A file is labelled with as many blocks as it needs, if its only one was not missing.
LEMMA LabelMaps == ASSUME IInv, Trip, SealedWithBlock, Label PROVE File!Seal
<1>1. /\ phase = "labelling" /\ phase' = "published" /\ why = "none" /\ why' = "none"
      /\ UNCHANGED <<size, written, got>>
  BY DEF Label, job, reader, Trip, Control
<1>2. Sealed = FALSE /\ ReadToEnd = FALSE
  BY <1>1, NotSealed DEF Trip
<1>3. Sealed' = TRUE /\ ReadToEnd' = FALSE
  BY <1>1 DEF Sealed, ReadToEnd
<1>4. Len(written) = num_blocks(size)
  <2>1. CASE multiple
    BY <1>1, <2>1 DEF Trip, Added, Formatted, Need
  <2>2. CASE ~multiple
    <3>1. Need = 1 /\ inline # <<>> /\ written = IF inline = <<>> THEN <<>> ELSE <<inline>>
      BY <1>1, <2>2 DEF Trip, Added, SealedWithBlock
    <3>2. Len(<<inline>>) = 1
      OBVIOUS
    <3> QED BY <3>1, <3>2 DEF Need
  <2> QED BY <2>1, <2>2
<1>5. num_blocks(size)' = num_blocks(size)
  BY <1>1
<1> QED BY <1>1, <1>2, <1>3, <1>4, <1>5 DEF File!Seal

\* The blocks are read one by one, in order.
LEMMA ReadMaps == ASSUME IInv, IInv', Trip, read_block_into PROVE File!Read
<1>1. /\ phase = "reading" /\ why = "none" /\ UNCHANGED <<size, written>>
  BY DEF read_block_into, job, Trip, Control
<1>2. Sealed = TRUE /\ ReadToEnd = FALSE
  BY <1>1, NotSealed DEF Trip
<1>3. \/ phase' = "reading" /\ why' = "none"
      \/ phase' = "stopped" /\ why' = "longer than expected"
  BY <1>1, ReadIs, PlainWritten DEF Trip
<1>4. Sealed' = TRUE /\ ReadToEnd' = FALSE
  BY <1>3 DEF Sealed, ReadToEnd
<1>5. num_blocks(size)' = num_blocks(size)
  BY <1>1
<1> QED BY <1>1, <1>2, <1>4, <1>5, ReadIs DEF File!Read

\* The reader ends when it has read them all.
LEMMA NoMoreMaps == ASSUME IInv, Trip, NoMoreBlocks PROVE File!End
<1>1. /\ phase = "reading" /\ why = "none" /\ ~HasBlock /\ UNCHANGED <<size, written, got>>
      /\ \/ phase' = "read" /\ why' = why
         \/ phase' = "stopped" /\ why' = "shorter than expected"
  BY DEF NoMoreBlocks, Stop, job, reader, Trip, Control
<1>2. Sealed = TRUE /\ got = written
  BY <1>1, NotSealed, AllRead DEF Trip
<1>3. Sealed' = TRUE /\ ReadToEnd' = TRUE
  BY <1>1 DEF Sealed, ReadToEnd
<1>4. num_blocks(size)' = num_blocks(size)
  BY <1>1
<1> QED BY <1>1, <1>2, <1>3, <1>4 DEF File!End

\* The other steps are not visible.
LEMMA OthersMap ==
  ASSUME IInv, Trip, Trip',
         \/ Create \/ EndOfStream \/ Seal \/ Written \/ Stage \/ CopyPayload \/ Copied \/ Fail
         \/ OpenReader \/ UNCHANGED vars
  PROVE  UNCHANGED File!vars
<1>1. UNCHANGED <<size, written, got>>
  BY DEF Create, EndOfStream, Seal, Written, Stage, CopyPayload, Copied, Fail,
         OpenReader, vars,
         job, reader
<1>2. num_blocks(size)' = num_blocks(size)
  BY <1>1
<1>3. Sealed' = Sealed /\ ReadToEnd' = ReadToEnd
  <2>1. CASE Create \/ EndOfStream \/ Seal \/ Written \/ Stage \/ CopyPayload \/ Copied \/ Fail
    <3>1. phase \in {"new", "writing", "sealing", "sealed", "copying", "labelling"} /\ why = "none"
      BY <2>1 DEF Create, EndOfStream, Seal, Written, Stage, CopyPayload, Copied, Fail,
             Trip,
                  Control
    <3>2. \/ phase' \in {"new", "writing", "sealing", "sealed", "copying", "labelling"}
          \/ phase' = "stopped"
               /\ why' \in {"does not fit", "wrong number of blocks", "missing block",
                            "shrink_to", "io error"}
      BY <2>1 DEF Create, EndOfStream, Seal, finish_decmpfs_data, Written, Stage,
             CopyPayload,
                  Copied, Fail, GoOn, Stop
    <3>3. Sealed = FALSE /\ ReadToEnd = FALSE
      BY <3>1, NotSealed DEF Trip
    <3>4. Sealed' = FALSE /\ ReadToEnd' = FALSE
      <4>1. phase' # "stopped" => why' = "none"
        BY DEF Trip, Control
      <4> QED BY <3>2, <4>1 DEF Sealed, ReadToEnd
    <3> QED BY <3>3, <3>4
  <2>2. CASE OpenReader
    <3>1. phase = "published" /\ (phase' = "reading" \/ why' = "unreadable")
      BY <2>2 DEF OpenReader, Stop
    <3>2. phase' = "reading" /\ why' = "none"
      BY <3>1 DEF Trip, Control
    <3>3. Sealed = TRUE /\ ReadToEnd = FALSE
      BY <3>1, NotSealed DEF Trip
    <3> QED BY <3>2, <3>3 DEF Sealed, ReadToEnd
  <2>3. CASE UNCHANGED vars
    BY <2>3 DEF vars, Sealed, ReadToEnd
  <2> QED BY <2>1, <2>2, <2>3
<1> QED BY <1>1, <1>2, <1>3 DEF File!vars

\* What writer.rs asserts of a file with one block is true in every build that evaluates
\* debug_assert!, and in the others if no compressor panics.
THEOREM OnlyBlockIsThere ==
  ASSUME DebugAssertions \/ ~LostBlocks
  PROVE  Spec => []OnlyBlockPresent
<1>1. Init => GivenBlock /\ OnlyBlockPresent
  BY DEF Init, GivenBlock, OnlyBlockPresent
<1>2. IInv /\ Trip /\ GivenBlock /\ OnlyBlockPresent /\ [Next]_vars
        => GivenBlock' /\ OnlyBlockPresent'
  BY GivenBlockKept, AssertionKept
<1> QED
  BY <1>1, <1>2, InvariantHolds, RoundTrip, PTL DEF Spec

\* For every source, format and place to write to, every failure and every outcome of the
\* codecs: a file that was published gives back the blocks that were added to it, as many
\* as its size takes, unchanged and in order (applesauce-core writer.rs, reader.rs) - as
\* long as what writer.rs asserts of a file with one block is true.
THEOREM BlocksComeBack == Spec /\ []OnlyBlockPresent => ImplementsBlockFile
<1>1. Init => File!Init /\ SealedWithBlock
  BY InitMaps DEF Init, SealedWithBlock
<1>2. IInv /\ Trip /\ SealedWithBlock /\ OnlyBlockPresent' /\ [Next]_vars => SealedWithBlock'
  BY SealedWithBlockKept
<1>3. IInv /\ IInv' /\ Trip /\ Trip' /\ SealedWithBlock /\ [Next]_vars
        => [File!Add \/ File!Seal \/ File!Read \/ File!End]_(File!vars)
  <2> SUFFICES ASSUME IInv, IInv', Trip, Trip', SealedWithBlock, [Next]_vars
               PROVE  [File!Add \/ File!Seal \/ File!Read \/ File!End]_(File!vars)
    OBVIOUS
  <2>1. CASE Chunk
    BY <2>1, ChunkMaps
  <2>2. CASE Label
    BY <2>2, LabelMaps
  <2>3. CASE read_block_into
    BY <2>3, ReadMaps
  <2>4. CASE NoMoreBlocks
    BY <2>4, NoMoreMaps
  <2>5. CASE \/ Create \/ EndOfStream \/ Seal \/ Written \/ Stage \/ CopyPayload \/ Copied \/ Fail
             \/ OpenReader \/ UNCHANGED vars
    BY <2>5, OthersMap
  <2> QED BY <2>1, <2>2, <2>3, <2>4, <2>5 DEF Next, Terminated
<1> QED
  BY <1>1, <1>2, <1>3, InvariantHolds, RoundTrip, PTL DEF Spec, ImplementsBlockFile, File!Spec

\* A compressed file implements its abstraction in every build with debug_assert!, and in
\* the others if no compressor panics.
THEOREM BlockFileImplemented ==
  ASSUME DebugAssertions \/ ~LostBlocks
  PROVE  Spec => ImplementsBlockFile
<1> QED
  BY OnlyBlockIsThere, BlocksComeBack, PTL
=============================================================================
