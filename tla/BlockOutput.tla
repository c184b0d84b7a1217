---------------------------- MODULE BlockOutput ----------------------------
(***************************************************************************)
(* FileStore's BlockOutputStream (io/BlockOutputStream.java): small files  *)
(* are packed one after another into one node file through a buffer of     *)
(* BufferSize bytes (IO.BLOCK_BUFFER_SIZE).  write, flush and close are    *)
(* synchronized; getSize is not, so the two halves of writeBlock (reserve  *)
(* the place, then store the bytes) are separate steps.  A crash of the    *)
(* process loses the buffer, and may cut a write to the file short.        *)
(***************************************************************************)
EXTENDS Naturals, Sequences

CONSTANTS Byte,        \* the alphabet of file contents
          Chunks,      \* the byte arrays callers pass to write
          BufferSize,  \* IO.BLOCK_BUFFER_SIZE
          MaxSize,     \* bound: a node file is written up to this length
          IntMax       \* the largest Java int

ASSUME ChunkAssumption == Chunks \subseteq Seq(Byte)

ASSUME SizeAssumption ==
    /\ BufferSize \in Nat \ {0}
    /\ IntMax \in Nat
    /\ MaxSize \in 0 .. IntMax

VARIABLES phase,    \* "open", or "closed" (no stream object for the file)
          offset,   \* the field offset: where the next block will start
          buffer,   \* buffer[0 .. bufferOffset - 1]
          writing,  \* bytes of the writeBlock call that has reserved its place
          disk,     \* the contents of the node file
          blocks    \* the Blocks returned by write, with the bytes written

vars == <<phase, offset, buffer, writing, disk, blocks>>

Block == [off : Nat, data : Seq(Byte)]

BlockEnd(b) == b.off + Len(b.data)

(* Mutant: the largest int is taken for an overflow. *)
AsIntOffByOne(n) == IF n < IntMax THEN n ELSE n - 2 * (IntMax + 1)

(* The length of a file as the (int) cast of the constructor sees it. *)
AsInt(n) == IF n <= IntMax THEN n ELSE n - 2 * (IntMax + 1)

TypeOK ==
    /\ phase \in {"open", "closed"}
    /\ offset \in Nat
    /\ buffer \in Seq(Byte)
    /\ writing \in Seq(Byte)
    /\ disk \in Seq(Byte)
    /\ blocks \subseteq Block

Init ==
    /\ phase = "closed"
    /\ offset = 0
    /\ buffer = <<>>
    /\ writing = <<>>
    /\ disk = <<>>
    /\ blocks = {}

-----------------------------------------------------------------------------
(* new BlockOutputStream(fileName): go on at the end of what is there. *)
Open ==
    /\ phase = "closed"
    /\ phase' = "open"
    /\ offset' = AsInt(Len(disk))
    /\ buffer' = <<>>
    /\ UNCHANGED <<writing, disk, blocks>>

(* The first half of writeBlock.  write passes an array on as one block:  *)
(* an empty one makes no block at all, and one longer than the buffer is  *)
(* refused by an exception before anything is changed.                    *)
Reserve(bts) ==
    /\ phase = "open"
    /\ writing = <<>>
    /\ Len(bts) \in 1 .. BufferSize
    /\ offset + Len(bts) <= MaxSize
    /\ writing' = bts
    /\ offset' = offset + Len(bts)
    /\ UNCHANGED <<phase, buffer, disk, blocks>>

(* Mutant: the buffer array is twice as long as BLOCK_BUFFER_SIZE. *)
OverflowsTwice == Len(buffer) + Len(writing) > 2 * BufferSize

Overflows == Len(buffer) + Len(writing) > BufferSize

(* What the next write to the file would put there: the buffer, filled up *)
(* first when the block being written does not fit.                       *)
Room == BufferSize - Len(buffer)

Unwritten ==
    IF Overflows THEN buffer \o SubSeq(writing, 1, Room) ELSE buffer

(* The second half when the bytes fit in the buffer. *)
StoreInBuffer ==
    /\ writing # <<>>
    /\ ~Overflows
    /\ buffer' = buffer \o writing
    /\ writing' = <<>>
    /\ blocks' = blocks \union
                   {[off |-> offset - Len(writing), data |-> writing]}
    /\ UNCHANGED <<phase, offset, disk>>

(* Mutant: after filling the buffer, off is not advanced. *)
StoreAndSpillSameOff ==
    /\ writing # <<>>
    /\ Overflows
    /\ disk' = disk \o Unwritten
    /\ buffer' = SubSeq(writing, 1, Len(writing) - Room)
    /\ writing' = <<>>
    /\ blocks' = blocks \union
                   {[off |-> offset - Len(writing), data |-> writing]}
    /\ UNCHANGED <<phase, offset>>

(* The second half when they do not: fill the buffer, write it to the     *)
(* file, and start the next buffer with the bytes that are left over.     *)
StoreAndSpill ==
    /\ writing # <<>>
    /\ Overflows
    /\ disk' = disk \o Unwritten
    /\ buffer' = SubSeq(writing, Room + 1, Len(writing))
    /\ writing' = <<>>
    /\ blocks' = blocks \union
                   {[off |-> offset - Len(writing), data |-> writing]}
    /\ UNCHANGED <<phase, offset>>

(* Mutant: the file is opened for writing, not for appending. *)
FlushNoAppend ==
    /\ phase = "open"
    /\ writing = <<>>
    /\ buffer # <<>>
    /\ disk' = buffer
    /\ buffer' = <<>>
    /\ UNCHANGED <<phase, offset, writing, blocks>>

Flush ==
    /\ phase = "open"
    /\ writing = <<>>
    /\ buffer # <<>>
    /\ disk' = disk \o buffer
    /\ buffer' = <<>>
    /\ UNCHANGED <<phase, offset, writing, blocks>>

(* Mutant: close drops what is still in the buffer. *)
CloseDropsBuffer ==
    /\ phase = "open"
    /\ writing = <<>>
    /\ phase' = "closed"
    /\ buffer' = <<>>
    /\ UNCHANGED <<offset, writing, disk, blocks>>

Close ==
    /\ phase = "open"
    /\ writing = <<>>
    /\ phase' = "closed"
    /\ disk' = disk \o buffer
    /\ buffer' = <<>>
    /\ UNCHANGED <<offset, writing, blocks>>

(* The process dies, perhaps in the middle of writing the buffer out. *)
Crash(k) ==
    /\ phase = "open"
    /\ phase' = "closed"
    /\ disk' = disk \o SubSeq(Unwritten, 1, k)
    /\ blocks' = {b \in blocks : BlockEnd(b) <= Len(disk) + k}
    /\ buffer' = <<>>
    /\ writing' = <<>>
    /\ UNCHANGED offset

Next ==
    \/ Open
    \/ \E bts \in Chunks : Reserve(bts)
    \/ StoreInBuffer
    \/ StoreAndSpill
    \/ Flush
    \/ Close
    \/ \E k \in 0 .. Len(Unwritten) : Crash(k)

Spec == Init /\ [][Next]_vars

-----------------------------------------------------------------------------
(* The bytes the stream has accepted, whether or not they left the buffer. *)
Log == disk \o buffer

(* The sequence s has the bytes of block b at the place b names. *)
Holds(b, s) ==
    /\ BlockEnd(b) <= Len(s)
    /\ SubSeq(s, b.off + 1, BlockEnd(b)) = b.data

(* BlockFileInputStream reading one block: what the file has of it. *)
ReadBlock(b) ==
    SubSeq(disk, b.off + 1,
           IF BlockEnd(b) <= Len(disk) THEN BlockEnd(b) ELSE Len(disk))

(***************************************************************************)
(* Every block handed out by write holds, at its place, the bytes that     *)
(* were written, across overflows, flushes, closes, crashes and reopenings *)
(* (the arithmetic of writeBlock, lines 69-86, and of the constructor).    *)
(***************************************************************************)
BlocksIntact == \A b \in blocks : Holds(b, Log)

(***************************************************************************)
(* FileStore.getBlocks (lines 263-274) reads a block without flushing when *)
(* its end is at most getSize() - BLOCK_BUFFER_SIZE.  While no write is    *)
(* half done that test is enough: the file alone gives the whole block.    *)
(***************************************************************************)
FlushTestSound ==
    phase = "open" /\ writing = <<>> =>
        \A b \in blocks :
            BlockEnd(b) + BufferSize <= offset => ReadBlock(b) = b.data

(***************************************************************************)
(* The append-only design ("基于Append的设计模式", FileStore.java:18): no  *)
(* step rewrites or drops a byte that has reached the file, so a reader    *)
(* needs no lock against the writer.                                       *)
(***************************************************************************)
FileOnlyGrows ==
    [][Len(disk) <= Len(disk') /\ SubSeq(disk', 1, Len(disk)) = disk]_vars

(***************************************************************************)
(* The stream implements an append-only log whose durable part is what is  *)
(* in the file: buffering is invisible but for what a crash can lose.      *)
(***************************************************************************)
Abstract == INSTANCE AppendLog WITH log <- Log, durable <- Len(disk)

ImplementsLog == Abstract!LogSpec
=============================================================================
