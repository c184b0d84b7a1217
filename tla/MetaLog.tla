------------------------------ MODULE MetaLog ------------------------------
(***************************************************************************)
(* What FileStore.java keeps on disk, across closes, crashes of the        *)
(* process and reopening: the meta files, written through a gzip stream    *)
(* (MetaOutputStream.java) and read back by MetaUtils.readMeta, beside the *)
(* node files.  One thread uses the store, and the process may die between *)
(* any two of its steps; what was handed to the operating system stays.    *)
(*                                                                         *)
(* A meta file is a sequence of tokens of one unit of length each: the     *)
(* header of a gzip member (10 bytes), a compressed record, and the end of *)
(* a member with its checksum (10 bytes).  What is cut off or run into     *)
(* another member cannot be inflated.  A node file is the sequence of the  *)
(* values it holds, a value being one unit long; the bytes themselves are  *)
(* the business of the module BlockOutput.                                 *)
(***************************************************************************)
EXTENDS Naturals, Sequences, FiniteSets

CONSTANTS Keys,
          Uses,        \* how the store may be used:
                       \*   calls       the operations called
                       \*   recordSize  units of a record before it is compressed
                       \*   heldBack    records the deflater gathers before it
                       \*               emits them
                       \*   metaBuffer  IO.META_BUFFER_SIZE
                       \*   dataBuffer  IO.BLOCK_BUFFER_SIZE
                       \*   nodeSize    storeFileSize
                       \*   sync        writeSyn
                       \*   cacheKept   whether metaFileCache lasts until the
                       \*               process ends, or is collected before it
                       \*               is looked at again
                       \*   sameProcess whether the same process reopens it
                       \*   mayBeEmpty  whether the directory may be empty at first
                       \*   maxPuts, maxOpens, maxCrashes   bounds
          MaxNode,     \* bound: the last node that may be opened
          None

ASSUME MetaLogAssumption ==
    /\ MaxNode \in Nat
    /\ \A u \in Uses :
          /\ u.recordSize \in Nat \ {0} /\ u.heldBack \in Nat \ {0}
          /\ u.metaBuffer \in Nat /\ u.dataBuffer \in Nat \ {0} /\ u.nodeSize \in Nat
          /\ {u.sync, u.cacheKept, u.sameProcess, u.mayBeEmpty} \subseteq BOOLEAN
          /\ u.calls \subseteq {"put", "remove", "flush", "pack", "close"}
          /\ {u.maxPuts, u.maxOpens, u.maxCrashes} \subseteq Nat

Node == 0 .. MaxNode

VARIABLES
    use,        \* the one of the uses that this behaviour is about
    metaFile,   \* the tokens of each meta file, None when there is no file
    nodeFile,   \* the values of each node file
    metaCache,  \* MetaUtils.metaFileCache: by file, None or a meta per key
    state,      \* the store is open, or was closed, or failed to open, or
                \* the process died
    node, fileMeta,   \* the fields of those names
    buffer,     \* the values in the buffer of outputStream
    opened,     \* whether it has a FileOutputStream
    held,       \* the records in the deflater of metaOutputStream
    buffered,   \* the tokens in its BufferedOutputStream
    job,        \* the operation under way
    toPack,     \* the nodes that pack has yet to go through
    entries,    \* what pack has yet to copy of the first of them
    puts, opens, crashes,      \* how many there were
    current, closed, flushed,  \* the put each key has, 0 for none: now, at the
                               \* last close before any crash, at the last
                               \* flush (0 again when removed since)
    torn        \* whether the correction of a file has done harm

disk == <<metaFile, nodeFile, metaCache>>
streams == <<node, buffer, opened, held, buffered>>
packing == <<toPack, entries>>
counts == <<puts, opens, crashes>>
history == <<current, closed, flushed, torn>>
vars == <<use, disk, state, streams, fileMeta, job, packing, counts, history>>

Value == [key : Keys \union {None}, put : 0 .. use.maxPuts \union {None}]
Short == [key |-> None, put |-> 0]   \* what lies beyond the end of a file

(* What readMeta makes of a record, and all the tokens. *)
Meta == [flag : {"normal", "delete"}, key : Keys \union {None}, node : Node, off : Nat]
Header == [flag |-> "header", key |-> None, node |-> 0, off |-> 0]
End == [flag |-> "end", key |-> None, node |-> 0, off |-> 0]
Token == Meta \union {Header, End}
IsRecord(t) == t.flag \in {"normal", "delete"}

(* None is what a map or a directory does not have. *)
ASSUME NoneAssumption == None \notin Nat /\ None \notin Token /\ None \notin Seq(Token)

NoMetas == [k \in Keys |-> None]
NoJob == [pc |-> "idle", value |-> Short, then |-> "idle", next |-> "idle"]

Init ==
    /\ use \in Uses
    /\ \E file \in {<<>>} \union (IF use.mayBeEmpty THEN {None} ELSE {}) :
           metaFile = [n \in Node |-> IF n = 0 THEN file ELSE None]
    /\ nodeFile = [n \in Node |-> <<>>]
    /\ metaCache = [n \in Node |-> None]
    /\ state = "closed" /\ node = 0 /\ fileMeta = NoMetas
    /\ buffer = <<>> /\ opened = FALSE /\ held = <<>> /\ buffered = <<>>
    /\ job = NoJob /\ toPack = {} /\ entries = NoMetas
    /\ puts = 0 /\ opens = 0 /\ crashes = 0
    /\ current = [k \in Keys |-> 0] /\ closed = current /\ flushed = current
    /\ torn = FALSE

-----------------------------------------------------------------------------
(* MetaUtils.readMeta *)

(* The token cannot be read after the one before it. *)
Broken(file, i) ==
    IF i = 1 THEN file[i] # Header
    ELSE (file[i] = Header) # (file[i - 1] = End)

(* The tokens that can be inflated. *)
Readable(file) ==
    {i \in DOMAIN file : \A j \in 1 .. i : ~Broken(file, j)}

(* Mutant: of several records of a key the first one counts. *)
RecordsFirstWins(file) ==
    [k \in Keys |->
        LET normal == {i \in Readable(file) :
                          file[i].flag = "normal" /\ file[i].key = k}
        IN  IF normal = {} THEN None
            ELSE file[CHOOSE i \in normal : \A j \in normal : i <= j]]

(* Of each key the last record that is not flagged as deleted. *)
Records(file) ==
    [k \in Keys |->
        LET normal == {i \in Readable(file) :
                          file[i].flag = "normal" /\ file[i].key = k}
        IN  IF normal = {} THEN None
            ELSE file[CHOOSE i \in normal : \A j \in normal : i >= j]]

(* Mutant: the position is where the last record begins. *)
PositionOfLast(file) ==
    LET read == {i \in Readable(file) : IsRecord(file[i])}
    IN  use.recordSize * Cardinality({i \in read : \E j \in read : i < j})

(* Bytes of the records read, as FormatInputStream counts them: inflated. *)
Position(file) ==
    use.recordSize * Cardinality({i \in Readable(file) : IsRecord(file[i])})

(* Whether the file is read to its end without an exception; then it is    *)
(* cached.  A lone header at the end is taken for trailing garbage.        *)
ReadsWell(file) ==
    /\ file # <<>>
    /\ Readable(file) = DOMAIN file
    /\ Position(file) >= Len(file)
    /\ file[Len(file)] \in {End, Header}
    /\ file # <<Header>>

Smaller(i, j) == IF i <= j THEN i ELSE j

(* "correct meta file": cut to the number of bytes counted. *)
Corrected(file) == SubSeq(file, 1, Smaller(Len(file), Position(file)))

(* It takes away a record, or leaves a part of a member behind.            *)
Tears(file) ==
    LET rest == Corrected(file)
    IN  /\ rest # file
        /\ Records(rest) # Records(file) \/ (rest # <<>> /\ rest[Len(rest)] # End)

ReadMeta(n) ==
    IF metaCache[n] # None THEN metaCache[n] ELSE Records(metaFile[n])

(* What reading the files of the nodes ns does to them and to the cache. *)
AfterReading(ns) ==
    /\ metaFile' = [n \in Node |-> IF n \in ns /\ metaCache[n] = None
                                   THEN Corrected(metaFile[n]) ELSE metaFile[n]]
    /\ metaCache' = [n \in Node |->
           IF n \in ns /\ metaCache[n] = None /\ ReadsWell(metaFile[n]) /\ use.cacheKept
           THEN Records(metaFile[n]) ELSE metaCache[n]]
    /\ torn' = (torn \/ \E n \in ns : metaCache[n] = None /\ Tears(metaFile[n]))

-----------------------------------------------------------------------------
(* The streams *)

Size == Len(nodeFile[node]) + Len(buffer)

(* The file is opened when there is something to write.                    *)
WriteData == /\ nodeFile' = [nodeFile EXCEPT ![node] = @ \o buffer]
             /\ buffer' = <<>>
             /\ opened' = (opened \/ buffer # <<>>)

(* GZIPOutputStream.flush() writes what the deflater has emitted, no more. *)
FlushMeta == /\ metaFile' = [metaFile EXCEPT ![node] = @ \o buffered]
             /\ buffered' = <<>>
             /\ UNCHANGED held

(* A record goes to the deflater, which emits what it has gathered when it *)
(* is enough; a full buffer is written to the file.                        *)
WriteMeta(m) ==
    LET gathered == Append(held, m)
    IN  IF Len(gathered) < use.heldBack
        THEN held' = gathered /\ UNCHANGED <<buffered, metaFile>>
        ELSE /\ held' = <<>>
             /\ IF Len(buffered) + Len(gathered) > use.metaBuffer
                THEN /\ metaFile' = [metaFile EXCEPT ![node] = @ \o buffered]
                     /\ buffered' = gathered
                ELSE buffered' = buffered \o gathered /\ UNCHANGED metaFile

At(pc) == state = "open" /\ job.pc = pc

Goto(pc) == job' = [job EXCEPT !.pc = pc]

(* MetaOutputStream and BlockOutputStream on the files of node n. *)
OpenStreams(n) ==
    /\ node' = n
    /\ buffer' = <<>> /\ opened' = FALSE /\ held' = <<>> /\ buffered' = <<Header>>

-----------------------------------------------------------------------------
(* The constructor *)

MetaNodes == {n \in Node : metaFile[n] # None}

Last(ns) == CHOOSE n \in ns : \A m \in ns : m <= n
First(ns) == CHOOSE n \in ns : \A m \in ns : n <= m

(* fileMeta.putAll, file by file. *)
AllMetas ==
    [k \in Keys |->
        LET ns == {n \in MetaNodes : ReadMeta(n)[k] # None}
        IN  IF ns = {} THEN None ELSE ReadMeta(Last(ns))[k]]

(* What a get returns through the meta m, when the buffer has been flushed. *)
Content(m, file) ==
    IF m = None THEN 0
    ELSE IF m.off < Len(file) /\ file[m.off + 1].key = m.key
         THEN file[m.off + 1].put ELSE None

Open ==
    /\ state \in {"closed", "crashed"} /\ opens < use.maxOpens
    /\ opens' = opens + 1
    /\ MetaNodes # {}
    /\ fileMeta' = AllMetas
    /\ AfterReading(MetaNodes)
    /\ OpenStreams(Last(MetaNodes))
    /\ current' = IF state = "closed" THEN current
                  ELSE [k \in Keys |-> Content(AllMetas[k],
                           IF AllMetas[k] = None THEN <<>>
                           ELSE nodeFile[AllMetas[k].node])]
    /\ state' = "open"
    /\ UNCHANGED <<nodeFile, job, packing, puts, crashes, closed, flushed>>

(* newFixedThreadPool(0) throws. *)
OpenFails ==
    /\ state \in {"closed", "crashed"} /\ opens < use.maxOpens
    /\ opens' = opens + 1
    /\ MetaNodes = {}
    /\ state' = "failed"
    /\ UNCHANGED <<disk, streams, fileMeta, job, packing, puts, crashes, history>>

-----------------------------------------------------------------------------
(* putData, called by put and by pack *)

(* write: a full buffer goes to the file, which is closed, and the         *)
(* callback follows.                                                       *)
Write(v, next) ==
    IF Len(buffer) = use.dataBuffer
    THEN /\ nodeFile' = [nodeFile EXCEPT ![node] = @ \o buffer]
         /\ buffer' = <<v>> /\ opened' = FALSE
         /\ job' = [pc |-> "callback", value |-> v, then |-> "meta", next |-> next]
    ELSE /\ buffer' = Append(buffer, v)
         /\ job' = [pc |-> "meta", value |-> v, then |-> "meta", next |-> next]
         /\ UNCHANGED <<nodeFile, opened>>

Put(k) ==
    /\ At("idle") /\ "put" \in use.calls
    /\ puts < use.maxPuts
    /\ puts' = puts + 1
    /\ Write([key |-> k, put |-> puts + 1], "idle")
    /\ UNCHANGED <<metaFile, metaCache, state, node, held, buffered, fileMeta,
                   packing, opens, crashes, history>>

(* onDisk(), after the data; flush() ends with the same. *)
Callback ==
    /\ At("callback")
    /\ FlushMeta
    /\ Goto(job.then)
    /\ flushed' = IF job.then = "idle" THEN current ELSE flushed
    /\ UNCHANGED <<nodeFile, metaCache, state, node, buffer, opened, fileMeta, packing,
                   counts, current, closed, torn>>

(* Mutant: the place of a value is taken from the length of the file. *)
PutMetaFileLength ==
    /\ At("meta")
    /\ LET k == job.value.key
           m == [flag |-> "normal", key |-> k, node |-> node,
                 off |-> Len(nodeFile[node]) - 1]
       IN  /\ fileMeta' = [fileMeta EXCEPT ![k] = m]
           /\ WriteMeta(m)
           /\ current' = IF job.next = "idle"
                         THEN [current EXCEPT ![k] = job.value.put] ELSE current
    /\ Goto("sync")
    /\ UNCHANGED <<nodeFile, metaCache, state, node, buffer, opened, packing, counts,
                   closed, flushed, torn>>

(* createMeta, fileMeta.put and writeMeta. *)
PutMeta ==
    /\ At("meta")
    /\ LET k == job.value.key
           m == [flag |-> "normal", key |-> k, node |-> node, off |-> Size - 1]
       IN  /\ fileMeta' = [fileMeta EXCEPT ![k] = m]
           /\ WriteMeta(m)
           /\ current' = IF job.next = "idle"
                         THEN [current EXCEPT ![k] = job.value.put] ELSE current
    /\ Goto("sync")
    /\ UNCHANGED <<nodeFile, metaCache, state, node, buffer, opened, packing, counts,
                   closed, flushed, torn>>

(* Mutant: the metas are flushed, the data is not. *)
PutSyncOnlyMeta ==
    /\ At("sync")
    /\ IF use.sync THEN FlushMeta ELSE UNCHANGED <<metaFile, held, buffered>>
    /\ Goto("size")
    /\ UNCHANGED <<nodeFile, metaCache, state, node, buffer, opened, fileMeta, packing,
                   counts, history>>

PutSync ==
    /\ At("sync")
    /\ IF use.sync /\ buffer # <<>>
       THEN /\ WriteData
            /\ job' = [job EXCEPT !.pc = "callback", !.then = "size"]
       ELSE UNCHANGED <<nodeFile, buffer, opened>> /\ Goto("size")
    /\ UNCHANGED <<metaFile, metaCache, state, node, held, buffered, fileMeta,
                   packing, counts, history>>

PutSize ==
    /\ At("size")
    /\ IF Size > use.nodeSize
       THEN job' = [job EXCEPT !.pc = "closeData", !.then = "newNode"]
       ELSE Goto(job.next)
    /\ UNCHANGED <<disk, state, streams, fileMeta, packing, counts, history>>

-----------------------------------------------------------------------------
(* close and newStore *)

Close ==
    /\ At("idle") /\ "close" \in use.calls
    /\ job' = [NoJob EXCEPT !.pc = "closeData", !.then = "closed"]
    /\ UNCHANGED <<disk, state, streams, fileMeta, packing, counts, history>>

(* The stream of the data has the callback called if it had opened its     *)
(* file; when it has just written, twice, the second time for nothing.     *)
CloseData ==
    /\ At("closeData")
    /\ WriteData
    /\ \/ opened' /\ Goto("closeCallback")
       \/ ~opened' /\ Goto("closeMeta")
    /\ UNCHANGED <<metaFile, metaCache, state, node, held, buffered, fileMeta,
                   packing, counts, history>>

CloseCallback ==
    /\ At("closeCallback")
    /\ FlushMeta
    /\ Goto("closeMeta")
    /\ UNCHANGED <<nodeFile, metaCache, state, node, buffer, opened, fileMeta,
                   packing, counts, history>>

(* Mutant: the stream is flushed where it should be closed. *)
CloseMetaFlushes ==
    /\ At("closeMeta")
    /\ metaFile' = [metaFile EXCEPT ![node] = @ \o buffered]
    /\ Goto(job.then)
    /\ UNCHANGED <<nodeFile, metaCache, state, streams, fileMeta, packing,
                   counts, history>>

CloseMeta ==
    /\ At("closeMeta")
    /\ metaFile' = [metaFile EXCEPT ![node] = @ \o buffered \o held \o <<End>>]
    /\ Goto(job.then)
    /\ UNCHANGED <<nodeFile, metaCache, state, streams, fileMeta, packing,
                   counts, history>>

(* The streams of the next node are made, which creates its meta file. *)
NewNode ==
    /\ At("newNode")
    /\ node < MaxNode
    /\ OpenStreams(node + 1)
    /\ metaFile' = [metaFile EXCEPT ![node + 1] = <<>>]
    /\ Goto(job.next)
    /\ UNCHANGED <<nodeFile, metaCache, state, fileMeta, packing, counts, history>>

(* close() is done; the process ends, or opens the store again. *)
Closed ==
    /\ At("closed")
    /\ state' = "closed"
    /\ fileMeta' = NoMetas /\ buffer' = <<>> /\ opened' = FALSE
    /\ held' = <<>> /\ buffered' = <<>>
    /\ job' = NoJob
    /\ metaCache' = IF use.sameProcess THEN metaCache ELSE [n \in Node |-> None]
    /\ closed' = IF crashes = 0 THEN current ELSE closed
    /\ UNCHANGED <<metaFile, nodeFile, node, packing, counts, current, flushed, torn>>

-----------------------------------------------------------------------------
(* remove and flush *)

(* Marks the Meta object, which the cache of a file may share, and writes  *)
(* it once more.                                                           *)
Remove(k) ==
    /\ At("idle") /\ "remove" \in use.calls
    /\ fileMeta[k] # None
    /\ LET m == [fileMeta[k] EXCEPT !.flag = "delete"]
       IN  /\ WriteMeta(m)
           /\ metaCache' = [n \in Node |->
                  IF metaCache[n] = None \/ metaCache[n][k] # fileMeta[k]
                  THEN metaCache[n] ELSE [metaCache[n] EXCEPT ![k] = m]]
    /\ fileMeta' = [fileMeta EXCEPT ![k] = None]
    /\ current' = [current EXCEPT ![k] = 0]
    /\ closed' = [closed EXCEPT ![k] = 0] /\ flushed' = [flushed EXCEPT ![k] = 0]
    /\ UNCHANGED <<nodeFile, state, node, buffer, opened, job, packing, counts, torn>>

Flush ==
    /\ At("idle") /\ "flush" \in use.calls
    /\ WriteData
    /\ job' = [NoJob EXCEPT !.pc = "callback"]
    /\ UNCHANGED <<metaFile, metaCache, state, node, held, buffered, fileMeta,
                   packing, counts, history>>

-----------------------------------------------------------------------------
(* pack *)

Pack ==
    /\ At("idle") /\ "pack" \in use.calls
    /\ toPack' = MetaNodes
    /\ job' = [NoJob EXCEPT !.pc = "closeData", !.then = "newNode",
                            !.next = "readMeta"]
    /\ UNCHANGED <<disk, state, streams, fileMeta, entries, counts, history>>

PackReadMeta ==
    /\ At("readMeta")
    /\ IF toPack = {}
       THEN job' = NoJob /\ UNCHANGED <<metaFile, metaCache, entries, torn>>
       ELSE /\ entries' = ReadMeta(First(toPack))
            /\ AfterReading({First(toPack)})
            /\ Goto("entry")
    /\ UNCHANGED <<nodeFile, state, streams, fileMeta, toPack, counts, current, closed, flushed>>

(* An entry is copied if it is what fileMeta has for its key. *)
PackEntry(k) ==
    /\ At("entry")
    /\ entries[k] # None
    /\ entries' = [entries EXCEPT ![k] = None]
    /\ IF entries[k].flag = "normal" /\ fileMeta[k] = entries[k]
       THEN LET v == Content(entries[k], nodeFile[entries[k].node])
            IN  Write([key |-> k, put |-> v], "entry")
       ELSE UNCHANGED <<nodeFile, buffer, opened, job>>
    /\ UNCHANGED <<metaFile, metaCache, state, node, held, buffered, fileMeta,
                   toPack, counts, history>>

PackDeleteMeta ==
    /\ At("entry")
    /\ entries = NoMetas
    /\ metaFile' = [metaFile EXCEPT ![First(toPack)] = None]
    /\ Goto("deleteNode")
    /\ UNCHANGED <<nodeFile, metaCache, state, streams, fileMeta, packing,
                   counts, history>>

PackDeleteNode ==
    /\ At("deleteNode")
    /\ nodeFile' = [nodeFile EXCEPT ![First(toPack)] = <<>>]
    /\ toPack' = toPack \ {First(toPack)}
    /\ Goto("readMeta")
    /\ UNCHANGED <<metaFile, metaCache, state, streams, fileMeta, entries,
                   counts, history>>

-----------------------------------------------------------------------------
(* The process dies: what is in its memory is gone. *)
Crash ==
    /\ state = "open" /\ crashes < use.maxCrashes
    /\ crashes' = crashes + 1
    /\ state' = "crashed"
    /\ metaCache' = [n \in Node |-> None]
    /\ fileMeta' = NoMetas /\ buffer' = <<>> /\ opened' = FALSE
    /\ held' = <<>> /\ buffered' = <<>>
    /\ job' = NoJob /\ toPack' = {} /\ entries' = NoMetas
    /\ UNCHANGED <<metaFile, nodeFile, node, puts, opens, history>>

Step ==
    \/ Open \/ OpenFails \/ Crash
    \/ \E k \in Keys : Put(k) \/ Remove(k) \/ PackEntry(k)
    \/ Callback \/ PutMeta \/ PutSync \/ PutSize
    \/ Close \/ CloseData \/ CloseCallback \/ CloseMeta \/ NewNode \/ Closed
    \/ Flush \/ Pack \/ PackReadMeta \/ PackDeleteMeta \/ PackDeleteNode

Next == Step /\ UNCHANGED use

Spec == Init /\ [][Next]_vars

-----------------------------------------------------------------------------
TypeOK ==
    /\ use \in Uses
    /\ metaFile \in [Node -> Seq(Token) \union {None}]
    /\ nodeFile \in [Node -> Seq(Value)]
    /\ metaCache \in [Node -> [Keys -> Token \union {None}] \union {None}]
    /\ state \in {"closed", "crashed", "open", "failed"}
    /\ node \in Node
    /\ {fileMeta, entries} \subseteq [Keys -> Token \union {None}]
    /\ buffer \in Seq(Value) /\ opened \in BOOLEAN
    /\ {held, buffered} \subseteq Seq(Token)
    /\ job \in [pc : {"idle", "meta", "callback", "sync", "size", "closeData",
                      "closeCallback", "closeMeta", "newNode", "closed",
                      "readMeta", "entry", "deleteNode"},
                value : Value,
                then : {"idle", "meta", "size", "newNode", "closed"},
                next : {"idle", "readMeta", "entry"}]
    /\ toPack \subseteq Node
    /\ puts \in 0 .. use.maxPuts /\ opens \in 0 .. use.maxOpens /\ crashes \in 0 .. use.maxCrashes
    /\ {current, closed, flushed} \subseteq [Keys -> 0 .. use.maxPuts \union {None}]
    /\ torn \in BOOLEAN

(* What a get of the key returns: the number of a put, 0 for no file, None *)
(* for anything that was not put there.                                    *)
Shown(k) ==
    Content(fileMeta[k],
            IF fileMeta[k] = None THEN <<>>
            ELSE IF fileMeta[k].node = node THEN nodeFile[node] \o buffer
            ELSE nodeFile[fileMeta[k].node])

(***************************************************************************)
(* A store that was closed and is opened again has every file as it was    *)
(* left (FileStoreTest.java:174-208 puts, closes, reopens and compares);   *)
(* neither moving to the next node nor pack changes any.                   *)
(***************************************************************************)
ReopenShowsCurrent == state = "open" => \A k \in Keys : Shown(k) = current[k]

(***************************************************************************)
(* So it is as long as nothing is removed, no process dies and no reading  *)
(* of a meta file tears it, whatever the sizes of records and buffers and  *)
(* the moments at which nodes end and pack is called                       *)
(* (FileStore.java:96-152, 189-204, 335-403).                              *)
(***************************************************************************)
SessionsKeep ==
    "remove" \notin use.calls /\ ~use.cacheKept /\ crashes = 0 /\ ~torn => ReopenShowsCurrent

(***************************************************************************)
(* Reading does not tear a file in which every member has a record, if a   *)
(* record is longer than what a member adds to it (MetaUtils.java:50-74).  *)
(***************************************************************************)
Filled(file) == \A i \in 1 .. Len(file) - 1 : file[i] = Header => IsRecord(file[i + 1])

CorrectionSpares ==
    state = "closed" /\ crashes = 0 /\ ~torn /\ use.recordSize >= 3 =>
        \A n \in MetaNodes : Filled(metaFile[n]) => Corrected(metaFile[n]) = metaFile[n]

(***************************************************************************)
(* After a crash a file may be an older one or gone, but what is shown was *)
(* put under that very key: no meta on disk is ahead of the data it points *)
(* to, where the next session would write the bytes of another file.  It   *)
(* takes synchronous writing, and that no file is packed (FileStore.java:  *)
(* 189-204, 335-403).                                                      *)
(***************************************************************************)
RecoveredIsWhole ==
    use.sync /\ "pack" \notin use.calls /\ state = "open" => \A k \in Keys : Shown(k) # None

(***************************************************************************)
(* What was closed before the first crash outlives it: no later crash, and *)
(* no later correction of the meta file, takes a key back further, as long *)
(* as the corrections tear nothing (MetaUtils.java:58-74).                 *)
(***************************************************************************)
ClosedSurvives ==
    use.sync /\ "pack" \notin use.calls /\ ~use.cacheKept /\ ~torn /\ state = "open" =>
        \A k \in Keys : Shown(k) \in closed[k] .. use.maxPuts

(***************************************************************************)
(* "flush the data to disk" (FileStore.java:301): what was flushed is      *)
(* there after a crash.                                                    *)
(***************************************************************************)
FlushedSurvives ==
    state = "open" => \A k \in Keys : Shown(k) \in flushed[k] .. use.maxPuts
=============================================================================
