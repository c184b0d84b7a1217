----------------------------- MODULE FileStore -----------------------------
(***************************************************************************)
(* FileStore.java while the process runs: threads putting, getting,        *)
(* removing, flushing and packing.  putData, remove, flush and the start   *)
(* of pack hold the monitor of the store; get holds nothing, and only a    *)
(* get that flushes enters the monitor of the stream.                      *)
(*                                                                         *)
(* A block stands for its place and the value written there: that the      *)
(* stream keeps the bytes of every block at its place is what the module   *)
(* BlockOutput shows.  What is left of a node file here is its length, how *)
(* much of it has been handed to the operating system, and whether the     *)
(* file exists.  Persistence of the meta files is the module MetaLog.      *)
(***************************************************************************)
EXTENDS Naturals

CONSTANTS Threads, Keys, Values,
          Uses,           \* how the store may be used:
                          \*   calls     the operations each thread may call
                          \*   values    what is put
                          \*   nodeSize  storeFileSize: a node is left when longer
                          \*   sync      writeSyn at the start
                          \*   maxCalls  bound: operations called in a behaviour
          StoredSize,     \* length of a value as it is stored
          Zipped,         \* whether put stores the value compressed
          BufferSize,     \* IO.BLOCK_BUFFER_SIZE
          MaxNode         \* bound: the last node that may be opened

CONSTANTS None, Garbage, Failed, Nobody   \* distinct from all values

Node == 0 .. MaxNode

ASSUME StoreAssumption ==
    /\ StoredSize \in [Values -> Nat \ {0}]
    /\ Zipped \in [Values -> BOOLEAN]
    /\ BufferSize \in Nat \ {0}
    /\ MaxNode \in Nat
    /\ Nobody \notin Threads
    /\ None \notin Values \union Node /\ Garbage \notin Values \union {None}
    /\ \A u \in Uses :
          /\ u.calls \in [Threads -> SUBSET {"put", "get", "remove", "flush",
                                           "pack", "mode", "close"}]
          /\ u.values \subseteq Values
          /\ u.nodeSize \in Nat /\ u.sync \in BOOLEAN /\ u.maxCalls \in Nat

VARIABLES
    use,        \* the one of the uses that this behaviour is about
    writeSyn,   \* the field writeSyn
    node,       \* the field node
    stream,     \* the node whose file outputStream appends to, or None
    length,     \* bytes accepted for each node file, reserved ones included
    written,    \* bytes of each node file that have been written to it
    nodeFiles,  \* the nodes whose .node file exists
    metaFiles,  \* the nodes whose .meta file exists
    metaOf,     \* what readMeta finds in each meta file: a Meta per key
    fileMeta,   \* the map of the live files
    cache,      \* nodeMemoryCache
    storeLock,  \* who holds the monitor of the store
    streamLock, \* who holds the monitor of the stream
    th,         \* what each thread is doing
    ops,        \* operations called so far
    current,    \* what each key was last given by a put or a remove
    seen        \* what a get may return, by thread

storage == <<node, stream, length, written, nodeFiles, metaFiles, metaOf>>
vars == <<use, writeSyn, storage, fileMeta, cache, storeLock, streamLock, th, ops,
          current, seen>>

(* The bytes a read of a file gave: those of a value, or only some of them. *)
Content == Values \union {Garbage}

Bytes(v) == IF v \in Values THEN StoredSize[v] ELSE 1

Meta == [node : Node, off : Nat, val : Content, zip : BOOLEAN]

ASSUME NoneAssumption == None \notin Meta

MetaEnd(m) == m.off + Bytes(m.val)

(* A file as get returns it: the bytes of a value decoded by a header.     *)
(* Bytes that do not match the header cannot be unzipped, or are returned  *)
(* still zipped.                                                           *)
Decode(v, zip) == IF v \in Values /\ zip = Zipped[v] THEN v ELSE Garbage

Idle == [pc |-> "idle", op |-> "none", key |-> None, val |-> None,
         zip |-> FALSE, meta |-> None, next |-> "idle", list |-> {},
         file |-> None, todo |-> {}, res |-> None]

Init ==  \* opened on a directory with one empty meta file
    /\ use \in Uses
    /\ writeSyn = use.sync
    /\ node = 0 /\ stream = 0
    /\ length = [n \in Node |-> 0] /\ written = [n \in Node |-> 0]
    /\ nodeFiles = {} /\ metaFiles = {0}
    /\ metaOf = [n \in Node |-> [k \in Keys |-> None]]
    /\ fileMeta = [k \in Keys |-> None]
    /\ cache = [k \in Keys |-> None]
    /\ storeLock = Nobody /\ streamLock = Nobody
    /\ th = [t \in Threads |-> Idle]
    /\ ops = 0
    /\ current = [k \in Keys |-> None]
    /\ seen = [t \in Threads |-> {}]

-----------------------------------------------------------------------------
At(t, pc) == th[t].pc = pc

Goto(t, pc) == th' = [th EXCEPT ![t].pc = pc]

Finish(t) == th' = [th EXCEPT ![t] = Idle]

EmptyCache == [k \in Keys |-> None]

(* A thread calls an operation. *)
Call(t, op, rec) ==
    /\ At(t, "idle")
    /\ op \in use.calls[t]
    /\ ops < use.maxCalls
    /\ ops' = ops + 1
    /\ th' = [th EXCEPT ![t] = rec]

(* What a get of k that starts now may return: what the key has, or what a *)
(* put that is under way is giving it.                                     *)
MayReturn(k) ==
    {current[k]} \union
    {th[t].val : t \in {u \in Threads : th[u].op = "put" /\ th[u].key = k}}

(* The gets of k that are under way may also return v. *)
AlsoReturn(k, v) ==
    seen' = [t \in Threads |-> IF th[t].op = "get" /\ th[t].key = k
                               THEN seen[t] \union {v} ELSE seen[t]]

-----------------------------------------------------------------------------
(* get and getBlocks *)

GetStart(t, k) ==
    /\ Call(t, "get",
            IF fileMeta[k] = None
            THEN [Idle EXCEPT !.pc = "got", !.op = "get", !.key = k]
            ELSE [Idle EXCEPT !.pc = "blocks", !.op = "get", !.key = k,
                              !.meta = fileMeta[k]])
    /\ seen' = [seen EXCEPT ![t] = MayReturn(k)]
    /\ UNCHANGED <<writeSyn, storage, fileMeta, cache, storeLock, streamLock, current>>

(* Where getBlocks hands its bytes: get decodes them by the header of the  *)
(* meta it has read, pack puts them back under the header of its meta.     *)
Deliver(t, v) ==
    th' = IF th[t].op = "pack"
          THEN [th EXCEPT ![t].pc = "lock", ![t].val = v,
                          ![t].zip = th[t].meta.zip, ![t].next = "entry"]
          ELSE [th EXCEPT ![t].pc = "got",
                          ![t].res = Decode(v, th[t].meta.zip)]

(* An exception leaves getBlocks, and with it the operation. *)
Throw(t) ==
    IF th[t].op = "get"
    THEN th' = [th EXCEPT ![t].pc = "got", ![t].res = Failed]
    ELSE Finish(t)

LookInCache(t) ==
    /\ At(t, "blocks")
    /\ LET v == cache[th[t].key]
       IN  IF v # None THEN Deliver(t, v)
           ELSE Goto(t, IF writeSyn THEN "read" ELSE "isCurrent")
    /\ UNCHANGED <<writeSyn, storage, fileMeta, cache, storeLock, streamLock,
                   ops, current, seen>>

IsCurrentNode(t) ==
    /\ At(t, "isCurrent")
    /\ Goto(t, IF th[t].meta.node = node THEN "needsFlush" ELSE "read")
    /\ UNCHANGED <<writeSyn, storage, fileMeta, cache, storeLock, streamLock,
                   ops, current, seen>>

(* Mutant: only blocks beyond the end are flushed for. *)
NeedsFlushNever(t) ==
    /\ At(t, "needsFlush")
    /\ IF stream = None THEN Throw(t)
       ELSE Goto(t, IF MetaEnd(th[t].meta) > length[stream]
                    THEN "flush" ELSE "read")
    /\ UNCHANGED <<writeSyn, storage, fileMeta, cache, storeLock, streamLock,
                   ops, current, seen>>

(* Reads outputStream.getSize() without any lock. *)
NeedsFlush(t) ==
    /\ At(t, "needsFlush")
    /\ IF stream = None THEN Throw(t)
       ELSE Goto(t, IF MetaEnd(th[t].meta) + BufferSize > length[stream]
                    THEN "flush" ELSE "read")
    /\ UNCHANGED <<writeSyn, storage, fileMeta, cache, storeLock, streamLock,
                   ops, current, seen>>

(* outputStream.flush() by thread t, and the callback that empties the     *)
(* cache; nothing happens when the buffer is empty.                        *)
FlushStream ==
    IF stream # None /\ written[stream] < length[stream]
    THEN /\ written' = [written EXCEPT ![stream] = length[stream]]
         /\ nodeFiles' = nodeFiles \union {stream}
         /\ cache' = EmptyCache
    ELSE UNCHANGED <<written, nodeFiles, cache>>

GetFlushes(t) ==
    /\ At(t, "flush")
    /\ stream = None \/ streamLock = Nobody
    /\ FlushStream
    /\ Goto(t, "read")
    /\ UNCHANGED <<writeSyn, node, stream, length, metaFiles, metaOf, fileMeta,
                   storeLock, streamLock, ops, current, seen>>

(* The stream was closed between the test for null and the call. *)
FlushTooLate(t) ==
    /\ At(t, "flush")
    /\ stream = None
    /\ Throw(t)
    /\ UNCHANGED <<writeSyn, storage, fileMeta, cache, storeLock, streamLock,
                   ops, current, seen>>

(* Reads the block from the node file: a missing file is an exception, and *)
(* what the file does not have yet is silently left out.                   *)
ReadFile(t) ==
    /\ At(t, "read")
    /\ LET m == th[t].meta
       IN  IF m.node \notin nodeFiles THEN Throw(t)
           ELSE Deliver(t, IF MetaEnd(m) <= written[m.node] THEN m.val
                                                            ELSE Garbage)
    /\ UNCHANGED <<writeSyn, storage, fileMeta, cache, storeLock, streamLock,
                   ops, current, seen>>

GetReturns(t) ==
    /\ At(t, "got")
    /\ Finish(t)
    /\ seen' = [seen EXCEPT ![t] = {}]
    /\ UNCHANGED <<writeSyn, storage, fileMeta, cache, storeLock, streamLock,
                   ops, current>>

-----------------------------------------------------------------------------
(* putData *)

PutStart(t, k, v) ==
    /\ Call(t, "put", [Idle EXCEPT !.pc = "lock", !.op = "put", !.key = k,
                                   !.val = v, !.zip = Zipped[v]])
    /\ AlsoReturn(k, v)
    /\ UNCHANGED <<writeSyn, storage, fileMeta, cache, storeLock, streamLock, current>>

(* Takes the monitor and puts the bytes into the cache. *)
PutCache(t) ==
    /\ At(t, "lock")
    /\ storeLock = Nobody
    /\ storeLock' = t
    /\ cache' = [cache EXCEPT ![th[t].key] = th[t].val]
    /\ Goto(t, "reserve")
    /\ UNCHANGED <<writeSyn, storage, fileMeta, streamLock, ops, current, seen>>

(* close() has taken the streams away: the put is left by an exception,    *)
(* with its bytes in the cache.                                            *)
PutClosed(t) ==
    /\ At(t, "reserve")
    /\ stream = None
    /\ storeLock' = Nobody
    /\ Finish(t)
    /\ UNCHANGED <<writeSyn, storage, fileMeta, cache, streamLock, ops, current, seen>>

(* The first half of writeBlock; the offset moves before any byte does. *)
PutReserve(t) ==
    /\ At(t, "reserve")
    /\ stream # None
    /\ Bytes(th[t].val) <= BufferSize
    /\ streamLock = Nobody
    /\ streamLock' = t
    /\ length' = [length EXCEPT ![stream] = @ + Bytes(th[t].val)]
    /\ Goto(t, "store")
    /\ UNCHANGED <<writeSyn, node, stream, written, nodeFiles, metaFiles,
                   metaOf, fileMeta, cache, storeLock, ops, current, seen>>

(* Mutant: the monitor is not released on the way out. *)
PutRefusedKeepsLock(t) ==
    /\ At(t, "reserve")
    /\ stream # None
    /\ Bytes(th[t].val) > BufferSize
    /\ Finish(t)
    /\ UNCHANGED <<writeSyn, storage, fileMeta, cache, storeLock, streamLock,
                   ops, current, seen>>

(* writeBlock refuses a value longer than the buffer, and putData is left  *)
(* with the value in the cache and nothing else done.                      *)
PutRefused(t) ==
    /\ At(t, "reserve")
    /\ stream # None
    /\ Bytes(th[t].val) > BufferSize
    /\ storeLock' = Nobody
    /\ Finish(t)
    /\ UNCHANGED <<writeSyn, storage, fileMeta, cache, streamLock, ops, current, seen>>

(* The second half of writeBlock: a full buffer is written to the file,    *)
(* and the callback empties the cache.                                     *)
PutStore(t) ==
    /\ At(t, "store")
    /\ IF length[stream] - written[stream] > BufferSize
       THEN /\ written' = [written EXCEPT ![stream] = @ + BufferSize]
            /\ nodeFiles' = nodeFiles \union {stream}
            /\ cache' = EmptyCache
       ELSE UNCHANGED <<written, nodeFiles, cache>>
    /\ streamLock' = Nobody
    /\ Goto(t, "publish")
    /\ UNCHANGED <<writeSyn, node, stream, length, metaFiles, metaOf, fileMeta,
                   storeLock, ops, current, seen>>

(* Mutant: the place of a block is taken from the length of the file. *)
PutPublishFileLength(t) ==
    /\ At(t, "publish")
    /\ LET k == th[t].key
           m == [node |-> node, off |-> written[stream] - Bytes(th[t].val),
                 val |-> th[t].val, zip |-> th[t].zip]
       IN  /\ fileMeta' = [fileMeta EXCEPT ![k] = m]
           /\ metaOf' = [metaOf EXCEPT ![node][k] = m]
           /\ current' = IF th[t].op = "put"
                         THEN [current EXCEPT ![k] = th[t].val] ELSE current
    /\ Goto(t, "sync")
    /\ UNCHANGED <<writeSyn, node, stream, length, written, nodeFiles,
                   metaFiles, cache, storeLock, streamLock, ops, seen>>

(* createMeta, fileMeta.put and writeMeta.  The meta of a value and the    *)
(* place it was written to become visible together.                        *)
PutPublish(t) ==
    /\ At(t, "publish")
    /\ LET k == th[t].key
           m == [node |-> node, off |-> length[stream] - Bytes(th[t].val),
                 val |-> th[t].val, zip |-> th[t].zip]
       IN  /\ fileMeta' = [fileMeta EXCEPT ![k] = m]
           /\ metaOf' = [metaOf EXCEPT ![node][k] = m]
           /\ current' = IF th[t].op = "put"
                         THEN [current EXCEPT ![k] = th[t].val] ELSE current
    /\ Goto(t, "sync")
    /\ UNCHANGED <<writeSyn, node, stream, length, written, nodeFiles,
                   metaFiles, cache, storeLock, streamLock, ops, seen>>

(* Mutant: putData never flushes. *)
PutNoSync(t) ==
    /\ At(t, "sync")
    /\ IF length[stream] > use.nodeSize
       THEN node < MaxNode /\ node' = node + 1 /\ Goto(t, "newStore")
       ELSE UNCHANGED node /\ Goto(t, "unlock")
    /\ UNCHANGED <<writeSyn, stream, length, written, nodeFiles, metaFiles, metaOf,
                   fileMeta, cache, storeLock, streamLock, ops, current, seen>>

(* if(writeSyn) outputStream.flush(), and the test of the node's size. *)
PutSync(t) ==
    /\ At(t, "sync")
    /\ streamLock = Nobody
    /\ IF writeSyn THEN FlushStream ELSE UNCHANGED <<written, nodeFiles, cache>>
    /\ IF length[stream] > use.nodeSize
       THEN /\ node < MaxNode
            /\ node' = node + 1
            /\ Goto(t, "newStore")
       ELSE /\ UNCHANGED node
            /\ Goto(t, "unlock")
    /\ UNCHANGED <<writeSyn, stream, length, metaFiles, metaOf, fileMeta,
                   storeLock, streamLock, ops, current, seen>>

(* newStore, first half: close() flushes and forgets the stream. *)
CloseNode(t) ==
    /\ At(t, "newStore")
    /\ streamLock = Nobody
    /\ FlushStream
    /\ stream' = None
    /\ Goto(t, "open")
    /\ UNCHANGED <<writeSyn, node, length, metaFiles, metaOf, fileMeta,
                   storeLock, streamLock, ops, current, seen>>

(* newStore, second half: close() clears the cache once more, whatever was *)
(* in the buffer, and the streams of the new node are made.                *)
OpenNode(t) ==
    /\ At(t, "open")
    /\ cache' = EmptyCache
    /\ IF th[t].op = "close" THEN UNCHANGED <<stream, metaFiles>>
       ELSE stream' = node /\ metaFiles' = metaFiles \union {node}
    /\ Goto(t, "unlock")
    /\ UNCHANGED <<writeSyn, node, length, written, nodeFiles, metaOf, fileMeta,
                   storeLock, streamLock, ops, current, seen>>

Unlock(t) ==
    /\ At(t, "unlock")
    /\ storeLock' = Nobody
    /\ IF th[t].next = "idle" THEN Finish(t) ELSE Goto(t, th[t].next)
    /\ UNCHANGED <<writeSyn, storage, fileMeta, cache, streamLock, ops, current, seen>>

-----------------------------------------------------------------------------
(* remove, flush and setWriteSyn *)

RemoveStart(t, k) ==
    /\ Call(t, "remove", [Idle EXCEPT !.pc = "remove", !.op = "remove", !.key = k])
    /\ fileMeta[k] # None
    /\ UNCHANGED <<writeSyn, storage, fileMeta, cache, storeLock, streamLock, current, seen>>

(* Mutant: the cached bytes stay. *)
RemoveLeavesCache(t) ==
    /\ At(t, "remove")
    /\ storeLock = Nobody
    /\ fileMeta' = [fileMeta EXCEPT ![th[t].key] = None]
    /\ current' = [current EXCEPT ![th[t].key] = None]
    /\ AlsoReturn(th[t].key, None)
    /\ Finish(t)
    /\ UNCHANGED <<writeSyn, storage, cache, storeLock, streamLock, ops>>

Remove(t) ==
    /\ At(t, "remove")
    /\ storeLock = Nobody
    /\ fileMeta' = [fileMeta EXCEPT ![th[t].key] = None]
    /\ cache' = [cache EXCEPT ![th[t].key] = None]
    /\ current' = [current EXCEPT ![th[t].key] = None]
    /\ AlsoReturn(th[t].key, None)
    /\ Finish(t)
    /\ UNCHANGED <<writeSyn, storage, storeLock, streamLock, ops>>

Flush(t) ==
    /\ Call(t, "flush", Idle)
    /\ storeLock = Nobody
    /\ streamLock = Nobody
    /\ FlushStream
    /\ UNCHANGED <<writeSyn, node, stream, length, metaFiles, metaOf, fileMeta,
                   storeLock, streamLock, current, seen>>

SetWriteSyn(t) ==
    /\ Call(t, "mode", Idle)
    /\ storeLock = Nobody
    /\ writeSyn' = ~writeSyn
    /\ UNCHANGED <<storage, fileMeta, cache, storeLock, streamLock, current, seen>>

(* close, which is also the first half of newStore. *)
Close(t) ==
    /\ Call(t, "close", [Idle EXCEPT !.pc = "newStore", !.op = "close"])
    /\ storeLock = Nobody
    /\ storeLock' = t
    /\ UNCHANGED <<writeSyn, storage, fileMeta, cache, streamLock, current, seen>>

-----------------------------------------------------------------------------
(* pack, when there is disk space enough for it *)

PackStart(t) ==
    /\ Call(t, "pack", [Idle EXCEPT !.pc = "newStore", !.op = "pack",
                                    !.list = metaFiles, !.next = "readMeta"])
    /\ storeLock = Nobody
    /\ storeLock' = t
    /\ node < MaxNode
    /\ node' = node + 1
    /\ UNCHANGED <<writeSyn, stream, length, written, nodeFiles, metaFiles,
                   metaOf, fileMeta, cache, streamLock, current, seen>>

(* Reads the next meta file, or is done: listSortMeta has sorted them. *)
PackReadMeta(t) ==
    /\ At(t, "readMeta")
    /\ \/ th[t].list = {} /\ Finish(t)
       \/ \E n \in th[t].list :
             /\ \A m \in th[t].list : n <= m
             /\ th' = [th EXCEPT ![t].pc = IF n \in metaFiles THEN "entry" ELSE "delNode",
                                 ![t].file = n, ![t].list = @ \ {n},
                                 ![t].todo = {k \in Keys : metaOf[n][k] # None}]
    /\ UNCHANGED <<writeSyn, storage, fileMeta, cache, storeLock, streamLock,
                   ops, current, seen>>

(* Mutant: entries that were overwritten or removed since are copied too. *)
PackEveryEntry(t, k) ==
    /\ At(t, "entry")
    /\ k \in th[t].todo
    /\ th' = [th EXCEPT ![t].todo = @ \ {k}, ![t].pc = "blocks", ![t].key = k,
                        ![t].meta = metaOf[th[t].file][k]]
    /\ UNCHANGED <<writeSyn, storage, fileMeta, cache, storeLock, streamLock,
                   ops, current, seen>>

(* One entry: copied only if it is still what fileMeta has for the key.    *)
PackEntry(t, k) ==
    /\ At(t, "entry")
    /\ k \in th[t].todo
    /\ LET m == metaOf[th[t].file][k]
       IN  th' = [th EXCEPT ![t].todo = @ \ {k},
                            ![t].pc = IF fileMeta[k] = m THEN "blocks" ELSE "entry",
                            ![t].key = k, ![t].meta = m]
    /\ UNCHANGED <<writeSyn, storage, fileMeta, cache, storeLock, streamLock,
                   ops, current, seen>>

PackDeleteMeta(t) ==
    /\ At(t, "entry")
    /\ th[t].todo = {}
    /\ metaFiles' = metaFiles \ {th[t].file}
    /\ Goto(t, "delNode")
    /\ UNCHANGED <<writeSyn, node, stream, length, written, nodeFiles, metaOf,
                   fileMeta, cache, storeLock, streamLock, ops, current, seen>>

PackDeleteNode(t) ==
    /\ At(t, "delNode")
    /\ nodeFiles' = nodeFiles \ {th[t].file}
    /\ Goto(t, "readMeta")
    /\ UNCHANGED <<writeSyn, node, stream, length, written, metaFiles, metaOf,
                   fileMeta, cache, storeLock, streamLock, ops, current, seen>>

-----------------------------------------------------------------------------
Step(t) ==
    \/ \E k \in Keys : GetStart(t, k) \/ RemoveStart(t, k) \/ PackEntry(t, k)
    \/ \E k \in Keys, v \in use.values : PutStart(t, k, v)
    \/ LookInCache(t) \/ IsCurrentNode(t) \/ NeedsFlush(t) \/ GetFlushes(t)
    \/ FlushTooLate(t) \/ ReadFile(t) \/ GetReturns(t)
    \/ PutCache(t) \/ PutReserve(t) \/ PutRefused(t) \/ PutStore(t)
    \/ PutPublish(t) \/ PutSync(t) \/ CloseNode(t) \/ OpenNode(t) \/ Unlock(t)
    \/ PutClosed(t) \/ Remove(t) \/ Flush(t) \/ SetWriteSyn(t) \/ Close(t)
    \/ PackStart(t) \/ PackReadMeta(t) \/ PackDeleteMeta(t) \/ PackDeleteNode(t)

Next == UNCHANGED use /\ \E t \in Threads : Step(t)

Spec == Init /\ [][Next]_vars

(* Threads are scheduled, and a thread waiting for a monitor gets it at    *)
(* the latest when the finitely many other operations are done.            *)
FairSpec == Spec /\ \A t \in Threads : WF_vars(UNCHANGED use /\ ~At(t, "idle") /\ Step(t))

-----------------------------------------------------------------------------
Pcs == {"idle", "blocks", "isCurrent", "needsFlush", "flush", "read", "got",
        "lock", "reserve", "store", "publish", "sync", "newStore", "open",
        "unlock", "remove", "readMeta", "entry", "delNode"}

Thread == [pc : Pcs,
           op : {"none", "get", "put", "remove", "pack", "close"},
           key : Keys \union {None}, val : Content \union {None},
           zip : BOOLEAN, meta : Meta \union {None},
           next : {"idle", "readMeta", "entry"}, list : SUBSET Node,
           file : Node \union {None}, todo : SUBSET Keys, res : Content \union {None, Failed}]

TypeOK ==
    /\ writeSyn \in BOOLEAN
    /\ node \in Node /\ stream \in Node \union {None}
    /\ length \in [Node -> Nat] /\ written \in [Node -> Nat]
    /\ nodeFiles \subseteq Node /\ metaFiles \subseteq Node
    /\ metaOf \in [Node -> [Keys -> Meta \union {None}]]
    /\ fileMeta \in [Keys -> Meta \union {None}]
    /\ cache \in [Keys -> Content \union {None}]
    /\ storeLock \in Threads \union {Nobody}
    /\ streamLock \in Threads \union {Nobody}
    /\ th \in [Threads -> Thread]
    /\ use \in Uses /\ ops \in 0 .. use.maxCalls
    /\ current \in [Keys -> Values \union {None}]
    /\ seen \in [Threads -> SUBSET (Values \union {None})]

(***************************************************************************)
(* "returns null if the file does not exist, the content if it does"       *)
(* (FileStore.java:236-238): a get returns what the key had at some moment *)
(* of the call, or what a put running beside it gives it.                  *)
(***************************************************************************)
GetReturnsContent ==
    \A t \in Threads : At(t, "got") => th[t].res \in seen[t]

(* Nobody puts, removes or packs beside a pack: it would bring back what   *)
(* another thread has replaced since pack looked at the entry.             *)
PackAlone ==
    \A t, u \in Threads :
        "pack" \in use.calls[t] /\ use.calls[u] \cap {"put", "remove", "pack"} # {} => t = u

(* No put is refused for its length. *)
AllFit == \A v \in use.values : StoredSize[v] <= BufferSize

Alone == \A t, u \in Threads : use.calls[t] # {} /\ use.calls[u] # {} => t = u
Called(set) == \E t \in Threads : use.calls[t] \cap set # {}

(***************************************************************************)
(* The uses in which that is so, as long as no put is refused and the mode *)
(* stays what it was: by one thread, in either mode, with nodes filling up *)
(* and packing between, or by several that put and remove with synchronous *)
(* writing, if all values are stored alike, zipped or not.                 *)
(***************************************************************************)
GetReturnsCurrent ==
    /\ AllFit /\ ~Called({"mode", "close"})
    /\ \/ Alone
       \/ /\ use.sync /\ ~Called({"pack"})
          /\ \A v, w \in use.values : Zipped[v] = Zipped[w]
    => GetReturnsContent

(* What reading through a meta gives, once the buffer is flushed. *)
Stored(m) ==
    IF m = None THEN None
    ELSE IF \/ m.node = stream /\ MetaEnd(m) <= length[m.node]
            \/ m.node \in nodeFiles /\ MetaEnd(m) <= written[m.node]
         THEN Decode(m.val, m.zip) ELSE Garbage

(***************************************************************************)
(* Nothing but put and remove changes what a key has: neither buffering,   *)
(* flushing, moving to a new node, closing nor packing, nor a put that     *)
(* fails half way because it is refused or the store is closed (putData,   *)
(* newStore, close, pack).                                                 *)
(***************************************************************************)
StoredIsCurrent == PackAlone => \A k \in Keys : Stored(fileMeta[k]) = current[k]

(***************************************************************************)
(* Synchronous writing from the start: when no operation holds the store,  *)
(* every live file is in its node file, and a crash loses no data of it    *)
(* (putData:197-199).                                                      *)
(***************************************************************************)
SyncIsWritten ==
    use.sync /\ ~Called({"mode"}) /\ storeLock = Nobody =>
        \A k \in Keys : fileMeta[k] # None =>
            /\ fileMeta[k].node \in nodeFiles
            /\ MetaEnd(fileMeta[k]) <= written[fileMeta[k].node]

(***************************************************************************)
(* The cache never holds anything but what its key has, or is being given  *)
(* by the put that holds the monitor, as long as no put fails: one that is *)
(* refused or comes after close leaves its bytes there.                    *)
(***************************************************************************)
CacheIsCurrent ==
    PackAlone /\ AllFit /\ ~Called({"close"}) =>
    \A k \in Keys : cache[k] # None =>
        \/ cache[k] = current[k]
        \/ /\ storeLock # Nobody
           /\ th[storeLock].key = k /\ th[storeLock].val = cache[k]

(* Every operation comes to its end: no lock is kept, nobody waits in a    *)
(* circle for the monitors of the store and of the stream.                 *)
OpsReturn == \A t \in Threads : ~At(t, "idle") ~> At(t, "idle")
=============================================================================
