--------------------------- MODULE FileStoreProofs ---------------------------
(* *********************************************************************** *)
(* The proof that the store keeps what it was given. First where a thread  *)
(* and the files are: the types, the places of a thread in its operation,  *)
(* the two monitors, the stream and what its buffer holds. On this the     *)
(* other parts of the inductive invariant build, one on another: every     *)
(* live key has its bytes and its record (Live), a pack leaves no live key *)
(* behind in a file it deletes (Packs), the index tells what the keys have *)
(* (Kept), with synchronous writing nothing is only in the buffer (Synced, *)
(* Direct), the cache agrees (Cached), and from these a get returns what   *)
(* its key had.                                                            *)
(* *********************************************************************** *)
EXTENDS FileStore, TLAPS

(* What each step does to the thread that takes it. *)

(* The part of TypeOK about the threads, which every step proves first. *)
Typed == th \in [Threads -> Thread]

(* What a step of t leaves alone. *)
Others(t) == \A u \in Threads : u # t => th'[u] = th[u]

(* The fields of one thread, each in its set. *)
Fields(t) ==
    /\ th[t].pc \in Pcs /\ th[t].op \in {"none", "get", "put", "remove", "pack", "close"}
    /\ th[t].key \in Keys \union {None} /\ th[t].val \in Content \union {None}
    /\ th[t].zip \in BOOLEAN /\ th[t].meta \in Meta \union {None}
    /\ th[t].next \in {"idle", "readMeta", "entry"} /\ th[t].list \subseteq Node
    /\ th[t].file \in Node \union {None} /\ th[t].todo \subseteq Keys
    /\ th[t].res \in Content \union {None, Failed}

(* All but the place of t stays. *)
Keeps(t) ==
    /\ th'[t].op = th[t].op /\ th'[t].key = th[t].key /\ th'[t].val = th[t].val
    /\ th'[t].zip = th[t].zip /\ th'[t].meta = th[t].meta /\ th'[t].next = th[t].next
    /\ th'[t].list = th[t].list /\ th'[t].file = th[t].file /\ th'[t].todo = th[t].todo
    /\ th'[t].res = th[t].res

(* The thread has nothing to do any more. *)
Rests(t) == th'[t].pc = "idle" /\ th'[t].op = "none" /\ th'[t].next = "idle"

(* It has been handed the bytes v. *)
Gets(t, v) ==
    /\ th'[t].op = th[t].op /\ th'[t].key = th[t].key /\ th'[t].meta = th[t].meta
    /\ th'[t].list = th[t].list /\ th'[t].file = th[t].file /\ th'[t].todo = th[t].todo
    /\ th[t].op = "pack" => /\ th'[t].pc = "lock" /\ th'[t].val = v
                            /\ th'[t].zip = th[t].meta.zip /\ th'[t].next = "entry"
    /\ th[t].op # "pack" => /\ th'[t].pc = "got" /\ th'[t].next = th[t].next
                            /\ th'[t].res = Decode(v, th[t].meta.zip)

(* It has been left by an exception. *)
Leaves(t) ==
    /\ th[t].op = "get" => /\ th'[t].pc = "got" /\ th'[t].res = Failed
                           /\ th'[t].op = "get" /\ th'[t].key = th[t].key
                           /\ th'[t].next = th[t].next
    /\ th[t].op # "get" => Rests(t)

(* The values of a use are values, and are among those that may be stored. *)
LEMMA UseTypes == ASSUME use \in Uses
   PROVE use.values \subseteq Values /\ use.maxCalls \in Nat
  BY StoreAssumption

(* The bytes of a content are at least one. *)
LEMMA BytesType == ASSUME NEW v \in Content PROVE Bytes(v) \in Nat /\ Bytes(v) >= 1
  BY StoreAssumption, SMT DEF Bytes, Content

(* In Typed, the fields of a thread are each in their set. *)
LEMMA FieldTypes == ASSUME Typed, NEW t \in Threads PROVE Fields(t)
  BY DEF Typed, Thread, Fields

(* A step that gives t the fields of r. *)
LEMMA SetEffect ==
    ASSUME Typed, NEW t \in Threads, NEW r \in Thread, th' = [th EXCEPT ![t] = r]
    PROVE  Typed' /\ Others(t) /\ th'[t] = r
  BY DEF Typed, Others

(* A thread that only goes to another place. *)
LEMMA GotoEffect ==
    ASSUME Typed, NEW t \in Threads, NEW p \in Pcs, Goto(t, p)
    PROVE  Typed' /\ Others(t) /\ Keeps(t) /\ th'[t].pc = p
  <1>1. th[t] \in Thread
    BY DEF Typed
  <1>2. [th[t] EXCEPT !.pc = p] \in Thread
    BY <1>1 DEF Thread
  <1>3. th' = [th EXCEPT ![t] = [th[t] EXCEPT !.pc = p]]
    BY DEF Goto
  <1>4. Typed' /\ Others(t) /\ th'[t] = [th[t] EXCEPT !.pc = p]
    BY <1>2, <1>3, SetEffect
  <1> QED BY <1>1, <1>4 DEF Keeps, Thread

(* A thread that rests is a thread. *)
LEMMA IdleType == Idle \in Thread
  BY DEF Idle, Thread, Pcs

(* The end of an operation: the thread rests, or goes on with its pack. *)
LEMMA FinishEffect ==
    ASSUME Typed, NEW t \in Threads, Finish(t)
    PROVE  Typed' /\ Others(t) /\ Rests(t)
  <1>1. Typed' /\ Others(t) /\ th'[t] = Idle
    BY IdleType, SetEffect DEF Finish
  <1> QED BY <1>1 DEF Rests, Idle

(* The bytes are handed to the get, or to the put inside a pack. *)
LEMMA DeliverEffect ==
    ASSUME Typed, NEW t \in Threads, NEW v \in Content, th[t].meta \in Meta, Deliver(t, v)
    PROVE  Typed' /\ Others(t) /\ Gets(t, v)
  <1>1. th[t] \in Thread
    BY DEF Typed
  <1>2. th[t].meta.zip \in BOOLEAN
    BY DEF Meta
  <1>3. Decode(v, th[t].meta.zip) \in Content
    BY DEF Decode, Content
  <1>4. CASE th[t].op = "pack"
    <2> DEFINE r == [th[t] EXCEPT !.pc = "lock", !.val = v, !.zip = th[t].meta.zip, !.next = "entry"]
    <2>1. r \in Thread
      BY <1>1, <1>2 DEF Thread, Pcs
    <2>2. th' = [th EXCEPT ![t] = r]
      BY <1>4 DEF Deliver
    <2> HIDE DEF r
    <2>3. Typed' /\ Others(t) /\ th'[t] = r
      BY <2>1, <2>2, SetEffect
    <2> QED BY <1>1, <1>4, <2>3 DEF r, Gets, Thread
  <1>5. CASE th[t].op # "pack"
    <2> DEFINE r == [th[t] EXCEPT !.pc = "got", !.res = Decode(v, th[t].meta.zip)]
    <2>1. r \in Thread
      BY <1>1, <1>3 DEF Thread, Pcs
    <2>2. th' = [th EXCEPT ![t] = r]
      BY <1>5 DEF Deliver
    <2> HIDE DEF r
    <2>3. Typed' /\ Others(t) /\ th'[t] = r
      BY <2>1, <2>2, SetEffect
    <2> QED BY <1>1, <1>5, <2>3 DEF r, Gets, Thread
  <1> QED BY <1>4, <1>5

(* A call is one of the use, made by a thread at rest. *)
LEMMA CallEffect ==
    ASSUME Typed, NEW t \in Threads, NEW op, NEW r \in Thread, Call(t, op, r)
    PROVE  Typed' /\ Others(t) /\ th'[t] = r /\ th[t].pc = "idle" /\ op \in use.calls[t]
  BY SetEffect DEF Call, At

(* The fields of the thread after GetStart. *)
LEMMA GetStartEffect ==
    ASSUME TypeOK, NEW t \in Threads, NEW k \in Keys, GetStart(t, k)
    PROVE  /\ Typed' /\ Others(t) /\ th[t].pc = "idle" /\ "get" \in use.calls[t]
           /\ th'[t].op = "get" /\ th'[t].key = k /\ th'[t].next = "idle"
           /\ fileMeta[k] = None => th'[t].pc = "got" /\ th'[t].res = None
           /\ fileMeta[k] # None => /\ th'[t].pc = "blocks" /\ th'[t].meta = fileMeta[k]
                                    /\ fileMeta[k] \in Meta
  <1> DEFINE r == IF fileMeta[k] = None
                  THEN [Idle EXCEPT !.pc = "got", !.op = "get", !.key = k]
                  ELSE [Idle EXCEPT !.pc = "blocks", !.op = "get", !.key = k,
                                    !.meta = fileMeta[k]]
  <1>1. fileMeta[k] \in Meta \union {None}
    BY DEF TypeOK
  <1>2. r \in Thread
    BY <1>1, IdleType DEF Idle, Thread, Pcs
  <1>3. Call(t, "get", r)
    BY DEF GetStart
  <1> HIDE DEF r
  <1>4. Typed' /\ Others(t) /\ th'[t] = r /\ th[t].pc = "idle" /\ "get" \in use.calls[t]
    BY <1>2, <1>3, CallEffect DEF TypeOK, Typed
  <1> QED BY <1>1, <1>4 DEF r, Idle

(* The fields of the thread after PutStart. *)
LEMMA PutStartEffect ==
    ASSUME TypeOK, NEW t \in Threads, NEW k \in Keys, NEW v \in use.values, PutStart(t, k, v)
    PROVE  /\ Typed' /\ Others(t) /\ th[t].pc = "idle" /\ "put" \in use.calls[t]
           /\ th'[t].pc = "lock" /\ th'[t].op = "put" /\ th'[t].key = k /\ th'[t].val = v
           /\ th'[t].zip = Zipped[v] /\ th'[t].next = "idle"
           /\ v \in Values
  <1> DEFINE r == [Idle EXCEPT !.pc = "lock", !.op = "put", !.key = k, !.val = v, !.zip = Zipped[v]]
  <1>1. v \in Values /\ Zipped[v] \in BOOLEAN
    BY UseTypes, StoreAssumption DEF TypeOK
  <1>2. r \in Thread
    BY <1>1, IdleType DEF Idle, Thread, Pcs, Content
  <1>3. Call(t, "put", r)
    BY DEF PutStart
  <1> HIDE DEF r
  <1>4. Typed' /\ Others(t) /\ th'[t] = r /\ th[t].pc = "idle" /\ "put" \in use.calls[t]
    BY <1>2, <1>3, CallEffect DEF TypeOK, Typed
  <1> QED BY <1>1, <1>4 DEF r, Idle

(* The fields of the thread after RemoveStart. *)
LEMMA RemoveStartEffect ==
    ASSUME TypeOK, NEW t \in Threads, NEW k \in Keys, RemoveStart(t, k)
    PROVE  /\ Typed' /\ Others(t) /\ th[t].pc = "idle" /\ "remove" \in use.calls[t]
           /\ th'[t].pc = "remove" /\ th'[t].op = "remove" /\ th'[t].key = k
           /\ th'[t].next = "idle"
  <1> DEFINE r == [Idle EXCEPT !.pc = "remove", !.op = "remove", !.key = k]
  <1>2. r \in Thread
    BY IdleType DEF Idle, Thread, Pcs
  <1>3. Call(t, "remove", r)
    BY DEF RemoveStart
  <1> HIDE DEF r
  <1>4. Typed' /\ Others(t) /\ th'[t] = r /\ th[t].pc = "idle" /\ "remove" \in use.calls[t]
    BY <1>2, <1>3, CallEffect DEF TypeOK, Typed
  <1> QED BY <1>4 DEF r, Idle

(* The fields of the thread after Close. *)
LEMMA CloseEffect ==
    ASSUME TypeOK, NEW t \in Threads, Close(t)
    PROVE  /\ Typed' /\ Others(t) /\ th[t].pc = "idle" /\ "close" \in use.calls[t]
           /\ th'[t].pc = "newStore" /\ th'[t].op = "close" /\ th'[t].next = "idle"
  <1> DEFINE r == [Idle EXCEPT !.pc = "newStore", !.op = "close"]
  <1>2. r \in Thread
    BY IdleType DEF Idle, Thread, Pcs
  <1>3. Call(t, "close", r)
    BY DEF Close
  <1> HIDE DEF r
  <1>4. Typed' /\ Others(t) /\ th'[t] = r /\ th[t].pc = "idle" /\ "close" \in use.calls[t]
    BY <1>2, <1>3, CallEffect DEF TypeOK, Typed
  <1> QED BY <1>4 DEF r, Idle

(* The fields of the thread after PackStart. *)
LEMMA PackStartEffect ==
    ASSUME TypeOK, NEW t \in Threads, PackStart(t)
    PROVE  /\ Typed' /\ Others(t) /\ th[t].pc = "idle" /\ "pack" \in use.calls[t]
           /\ th'[t].pc = "newStore" /\ th'[t].op = "pack" /\ th'[t].next = "readMeta"
           /\ th'[t].list = metaFiles
  <1> DEFINE r == [Idle EXCEPT !.pc = "newStore", !.op = "pack", !.list = metaFiles,
                               !.next = "readMeta"]
  <1>2. r \in Thread
    BY IdleType DEF Idle, Thread, Pcs, TypeOK
  <1>3. Call(t, "pack", r)
    BY DEF PackStart
  <1> HIDE DEF r
  <1>4. Typed' /\ Others(t) /\ th'[t] = r /\ th[t].pc = "idle" /\ "pack" \in use.calls[t]
    BY <1>2, <1>3, CallEffect DEF TypeOK, Typed
  <1> QED BY <1>4 DEF r, Idle

(* The calls that are over in one step. *)
LEMMA BriefEffect ==
    ASSUME TypeOK, NEW t \in Threads, Flush(t) \/ SetWriteSyn(t)
    PROVE  Typed' /\ Others(t) /\ th[t].pc = "idle" /\ Rests(t)
  <1>1. Typed' /\ Others(t) /\ th[t].pc = "idle" /\ th'[t] = Idle
    BY IdleType, CallEffect DEF Flush, SetWriteSyn, TypeOK, Typed
  <1> QED BY <1>1 DEF Rests, Idle

(* An exception ends the operation. *)
LEMMA ThrowEffect ==
    ASSUME Typed, NEW t \in Threads, Throw(t)
    PROVE  Typed' /\ Others(t) /\ Leaves(t)
  <1>1. th[t] \in Thread
    BY DEF Typed
  <1>2. CASE th[t].op = "get"
    <2> DEFINE r == [th[t] EXCEPT !.pc = "got", !.res = Failed]
    <2>1. r \in Thread
      BY <1>1 DEF Thread, Pcs
    <2>2. th' = [th EXCEPT ![t] = r]
      BY <1>2 DEF Throw
    <2> HIDE DEF r
    <2>3. Typed' /\ Others(t) /\ th'[t] = r
      BY <2>1, <2>2, SetEffect
    <2> QED BY <1>1, <1>2, <2>3 DEF r, Leaves, Thread
  <1>3. CASE th[t].op # "get"
    BY <1>3, FinishEffect DEF Throw, Leaves
  <1> QED BY <1>2, <1>3

(* The fields of the thread after PackReadMeta. *)
LEMMA PackReadMetaEffect ==
    ASSUME TypeOK, NEW t \in Threads, PackReadMeta(t)
    PROVE  /\ Typed' /\ Others(t) /\ th[t].pc = "readMeta"
           /\ \/ Rests(t)
              \/ /\ th'[t].file \in th[t].list /\ th'[t].file \in Node
                 /\ th'[t].pc = IF th'[t].file \in metaFiles THEN "entry" ELSE "delNode"
                 /\ th'[t].list = th[t].list \ {th'[t].file}
                 /\ th'[t].todo = {k \in Keys : metaOf[th'[t].file][k] # None}
                 /\ th'[t].op = th[t].op /\ th'[t].key = th[t].key /\ th'[t].next = th[t].next
  <1>0. Typed /\ th[t] \in Thread /\ th[t].pc = "readMeta" /\ th[t].list \subseteq Node
    BY DEF TypeOK, Typed, PackReadMeta, At, Thread
  <1>1. CASE th[t].list = {} /\ Finish(t)
    BY <1>0, <1>1, FinishEffect
  <1>2. ASSUME NEW n \in th[t].list,
               th' = [th EXCEPT ![t].pc = IF n \in metaFiles THEN "entry" ELSE "delNode",
                                 ![t].file = n, ![t].list = @ \ {n},
                                 ![t].todo = {k \in Keys : metaOf[n][k] # None}]
        PROVE  /\ Typed' /\ Others(t) /\ n \in Node
               /\ th'[t].pc = IF n \in metaFiles THEN "entry" ELSE "delNode"
               /\ th'[t].file = n /\ th'[t].list = th[t].list \ {n}
               /\ th'[t].todo = {k \in Keys : metaOf[n][k] # None}
               /\ th'[t].op = th[t].op /\ th'[t].key = th[t].key /\ th'[t].next = th[t].next
    <2> DEFINE r == [th[t] EXCEPT !.pc = IF n \in metaFiles THEN "entry" ELSE "delNode",
                                 !.file = n, !.list = th[t].list \ {n},
                                 !.todo = {k \in Keys : metaOf[n][k] # None}]
    <2>0. /\ n \in Node /\ th[t].list \ {n} \in SUBSET Node
          /\ {k \in Keys : metaOf[n][k] # None} \in SUBSET Keys
          /\ (IF n \in metaFiles THEN "entry" ELSE "delNode") \in Pcs
      BY <1>0 DEF Pcs
    <2>1. r \in Thread
      BY <1>0, <2>0 DEF Thread
    <2>2. th' = [th EXCEPT ![t] = r]
      BY <1>2
    <2> HIDE DEF r
    <2>3. Typed' /\ Others(t) /\ th'[t] = r
      BY <1>0, <2>1, <2>2, SetEffect
    <2>4. /\ r.pc = (IF n \in metaFiles THEN "entry" ELSE "delNode")
          /\ r.file = n /\ r.list = th[t].list \ {n}
          /\ r.todo = {k \in Keys : metaOf[n][k] # None}
          /\ r.op = th[t].op /\ r.key = th[t].key /\ r.next = th[t].next
      BY <1>0 DEF r, Thread
    <2>5. n \in Node
      BY <1>0
    <2> QED BY <2>3, <2>4, <2>5
  <1> QED BY <1>0, <1>1, <1>2 DEF PackReadMeta

(* The fields of the thread after PackEntry. *)
LEMMA PackEntryEffect ==
    ASSUME TypeOK, NEW t \in Threads, NEW k \in Keys, PackEntry(t, k), th[t].file \in Node
    PROVE  /\ Typed' /\ Others(t) /\ th[t].pc = "entry" /\ k \in th[t].todo
           /\ th'[t].pc = IF fileMeta[k] = metaOf[th[t].file][k] THEN "blocks" ELSE "entry"
           /\ th'[t].key = k /\ th'[t].meta = metaOf[th[t].file][k]
           /\ th'[t].todo = th[t].todo \ {k} /\ th'[t].list = th[t].list
           /\ th'[t].op = th[t].op /\ th'[t].next = th[t].next /\ th'[t].file = th[t].file
  <1> DEFINE m == metaOf[th[t].file][k]
             r == [th[t] EXCEPT !.todo = th[t].todo \ {k},
                            !.pc = IF fileMeta[k] = m THEN "blocks" ELSE "entry",
                            !.key = k, !.meta = m]
  <1>0. /\ Typed /\ th[t] \in Thread /\ th[t].pc = "entry" /\ k \in th[t].todo
        /\ m \in Meta \union {None}
    BY DEF TypeOK, Typed, PackEntry, At
  <1>2. th' = [th EXCEPT ![t] = r]
    BY DEF PackEntry
  <1> HIDE DEF m
  <1>1. r \in Thread
    BY <1>0 DEF Thread, Pcs
  <1> HIDE DEF r
  <1>3. Typed' /\ Others(t) /\ th'[t] = r
    BY <1>0, <1>1, <1>2, SetEffect
  <1>4. /\ r.pc = (IF fileMeta[k] = m THEN "blocks" ELSE "entry")
        /\ r.key = k /\ r.meta = m /\ r.todo = th[t].todo \ {k} /\ r.list = th[t].list
        /\ r.op = th[t].op /\ r.next = th[t].next /\ r.file = th[t].file
    BY <1>0 DEF r, Thread
  <1> QED BY <1>0, <1>3, <1>4 DEF m

(* The fields of the thread after LookInCache. *)
LEMMA LookInCacheEffect ==
    ASSUME TypeOK, NEW t \in Threads, LookInCache(t), th[t].key \in Keys, th[t].meta \in Meta
    PROVE  /\ Typed' /\ Others(t) /\ th[t].pc = "blocks"
           /\ \/ /\ cache[th[t].key] \in Content /\ cache[th[t].key] # None
                 /\ Gets(t, cache[th[t].key])
              \/ /\ cache[th[t].key] = None /\ Keeps(t)
                 /\ th'[t].pc = IF writeSyn THEN "read" ELSE "isCurrent"
  <1> DEFINE v == cache[th[t].key]
  <1>1. Typed /\ th[t].pc = "blocks" /\ (v # None => v \in Content)
    BY DEF TypeOK, Typed, LookInCache, At
  <1>2. CASE v # None
    <2>1. Deliver(t, v)
      BY <1>2 DEF LookInCache
    <2> HIDE DEF v
    <2>2. Typed' /\ Others(t) /\ Gets(t, v)
      BY <1>1, <1>2, <2>1, DeliverEffect
    <2> QED BY <1>1, <1>2, <2>2 DEF v
  <1>3. CASE v = None
    <2>1. Goto(t, IF writeSyn THEN "read" ELSE "isCurrent")
      BY <1>3 DEF LookInCache
    <2>2. (IF writeSyn THEN "read" ELSE "isCurrent") \in Pcs
      BY DEF Pcs
    <2> HIDE DEF v
    <2> QED BY <1>1, <1>3, <2>1, <2>2, GotoEffect DEF v
  <1> QED BY <1>2, <1>3

(* What the file of a meta gives. *)
Found(m) == IF MetaEnd(m) <= written[m.node] THEN m.val ELSE Garbage

(* The fields of the thread after ReadFile. *)
LEMMA ReadFileEffect ==
    ASSUME TypeOK, NEW t \in Threads, ReadFile(t), th[t].meta \in Meta
    PROVE  /\ Typed' /\ Others(t) /\ th[t].pc = "read"
           /\ \/ th[t].meta.node \notin nodeFiles /\ Leaves(t)
              \/ /\ th[t].meta.node \in nodeFiles /\ Gets(t, Found(th[t].meta))
                 /\ Found(th[t].meta) \in Content
  <1> DEFINE m == th[t].meta
  <1>1. Typed /\ th[t].pc = "read"
    BY DEF TypeOK, Typed, ReadFile, At
  <1>2. Found(m) \in Content
    BY DEF Meta, Content, Found
  <1>3. CASE m.node \notin nodeFiles
    <2>1. Throw(t)
      BY <1>3 DEF ReadFile
    <2> QED BY <1>1, <1>2, <1>3, <2>1, ThrowEffect
  <1>4. CASE m.node \in nodeFiles
    <2>1. Deliver(t, Found(m))
      BY <1>4 DEF ReadFile, Found
    <2>2. Typed' /\ Others(t) /\ Gets(t, Found(m))
      BY <1>1, <1>2, <2>1, DeliverEffect
    <2> QED BY <1>1, <1>2, <1>4, <2>2
  <1> QED BY <1>3, <1>4


-----------------------------------------------------------------------------
(* The places of a thread. *)

(* The places of get, of put inside the monitor of the stream, and of the    *)
(* monitor of the store.                                                     *)
Reading == {"blocks", "isCurrent", "needsFlush", "flush", "read"}
Writing == {"lock", "reserve", "store", "publish"}
Holding == {"reserve", "store", "publish", "sync", "newStore", "open", "unlock"}

(* What goes with each place in an operation. *)
Form(t) ==
    /\ th[t].op = "none" <=> th[t].pc = "idle"
    /\ th[t].op # "none" => th[t].op \in use.calls[t]
    /\ th[t].op = "put" => /\ th[t].pc \in Writing \union {"sync", "newStore", "open", "unlock"}
                           /\ th[t].key \in Keys /\ th[t].val \in use.values
                           /\ th[t].zip = Zipped[th[t].val] /\ th[t].next = "idle"
    /\ th[t].op = "get" => /\ th[t].pc \in Reading \union {"got"}
                           /\ th[t].key \in Keys
    /\ th[t].op = "remove" => th[t].pc = "remove" /\ th[t].key \in Keys
    /\ th[t].op = "close" => th[t].pc \in {"newStore", "open", "unlock"} /\ th[t].next = "idle"
    /\ th[t].op = "pack" => /\ th[t].pc \in Reading \union Writing \union
                                 {"sync", "newStore", "open", "unlock", "readMeta", "entry", "delNode"}
                            /\ th[t].next \in {"readMeta", "entry"}
                            /\ th[t].pc \in Reading \union Writing => th[t].key \in Keys
    /\ th[t].pc \in Reading => th[t].meta \in Meta
    /\ th[t].pc \in Writing => th[t].val \in Content
    /\ th[t].pc \in Writing \union {"sync"} => th[t].next \in {"idle", "entry"}

(* Form is kept by every step of its thread; a pack finds the entry it is    *)
(* at.                                                                       *)
LEMMA FormStep ==
    ASSUME TypeOK, NEW t \in Threads, Form(t), UNCHANGED use, Step(t),
           th[t].pc = "entry" => /\ th[t].file \in Node
                                 /\ \A k \in th[t].todo : metaOf[th[t].file][k] # None
    PROVE  Typed' /\ Others(t) /\ Form(t)'
<1>0. Typed /\ Fields(t) /\ use.values \subseteq Values
  BY FieldTypes, UseTypes DEF TypeOK, Typed
<1> USE DEF Reading, Writing
<1>1. ASSUME NEW k \in Keys, GetStart(t, k) PROVE Typed' /\ Others(t) /\ Form(t)'
  BY <1>0, <1>1, GetStartEffect DEF Form, Keeps, Rests, Gets, Fields
<1>2. ASSUME NEW k \in Keys, RemoveStart(t, k) PROVE Typed' /\ Others(t) /\ Form(t)'
  BY <1>0, <1>2, RemoveStartEffect DEF Form, Keeps, Rests, Gets, Fields
<1>3. ASSUME NEW k \in Keys, PackEntry(t, k) PROVE Typed' /\ Others(t) /\ Form(t)'
  <2>1. th[t].pc = "entry" /\ k \in th[t].todo
    BY <1>3 DEF PackEntry, At
  <2>2. th[t].file \in Node /\ metaOf[th[t].file][k] \in Meta
    BY <2>1 DEF TypeOK
  <2> QED BY <1>0, <1>3, <2>2, PackEntryEffect DEF Form
<1>4. ASSUME NEW k \in Keys, NEW v \in use.values, PutStart(t, k, v) PROVE Typed' /\ Others(t) /\ Form(t)'
  <2>1. v \in Content
    BY <1>0 DEF Content
  <2> QED BY <1>0, <1>4, <2>1, PutStartEffect DEF Form
<1>5. CASE LookInCache(t)
  <2>1. th[t].pc = "blocks" /\ th[t].key \in Keys /\ th[t].meta \in Meta
    BY <1>0, <1>5 DEF LookInCache, At, Form, Fields
  <2>2. CASE th[t].op = "pack"
    BY <1>0, <2>1, <2>2, <1>5, LookInCacheEffect DEF Form, Keeps, Gets, Fields
  <2>3. CASE th[t].op = "get"
    BY <1>0, <2>1, <2>3, <1>5, LookInCacheEffect DEF Form, Keeps, Gets, Fields
  <2> QED BY <1>0, <2>1, <2>2, <2>3 DEF Form, Fields
<1>6. CASE IsCurrentNode(t)
  BY <1>0, <1>6, GotoEffect DEF IsCurrentNode, At, Keeps, Pcs, Form
<1>7. CASE NeedsFlush(t)
  BY <1>0, <1>7, GotoEffect, ThrowEffect DEF NeedsFlush, At, Keeps, Rests, Leaves, Pcs, Form
<1>8. CASE GetFlushes(t)
  BY <1>0, <1>8, GotoEffect DEF GetFlushes, At, Keeps, Pcs, Form
<1>9. CASE FlushTooLate(t)
  BY <1>0, <1>9, ThrowEffect DEF FlushTooLate, Rests, Leaves, Form
<1>10. CASE ReadFile(t)
  <2>1. th[t].pc = "read" /\ th[t].key \in Keys /\ th[t].meta \in Meta
    BY <1>0, <1>10 DEF ReadFile, At, Form, Fields
  <2>2. CASE th[t].op = "pack"
    BY <1>0, <2>1, <2>2, <1>10, ReadFileEffect DEF Form, Rests, Leaves, Gets, Fields
  <2>3. CASE th[t].op = "get"
    BY <1>0, <2>1, <2>3, <1>10, ReadFileEffect DEF Form, Rests, Leaves, Gets, Fields
  <2> QED BY <1>0, <2>1, <2>2, <2>3 DEF Form, Fields
<1>11. CASE GetReturns(t)
  BY <1>0, <1>11, FinishEffect DEF GetReturns, Rests, Form
<1>12. CASE PutCache(t)
  BY <1>0, <1>12, GotoEffect DEF PutCache, At, Keeps, Pcs, Form
<1>13. CASE PutReserve(t)
  BY <1>0, <1>13, GotoEffect DEF PutReserve, At, Keeps, Pcs, Form
<1>14. CASE PutRefused(t)
  BY <1>0, <1>14, FinishEffect DEF PutRefused, Rests, Form
<1>15. CASE PutStore(t)
  BY <1>0, <1>15, GotoEffect DEF PutStore, At, Keeps, Pcs, Form
<1>16. CASE PutPublish(t)
  BY <1>0, <1>16, GotoEffect DEF PutPublish, At, Keeps, Pcs, Form
<1>17. CASE PutSync(t)
  BY <1>0, <1>17, GotoEffect DEF PutSync, At, Keeps, Pcs, Form
<1>18. CASE CloseNode(t)
  BY <1>0, <1>18, GotoEffect DEF CloseNode, At, Keeps, Pcs, Form
<1>19. CASE OpenNode(t)
  BY <1>0, <1>19, GotoEffect DEF OpenNode, At, Keeps, Pcs, Form
<1>20. CASE Unlock(t)
  BY <1>0, <1>20, GotoEffect, FinishEffect DEF Unlock, At, Keeps, Rests, Pcs, Fields, Form
<1>21. CASE PutClosed(t)
  BY <1>0, <1>21, FinishEffect DEF PutClosed, Rests, Form
<1>22. CASE Remove(t)
  BY <1>0, <1>22, FinishEffect DEF Remove, Rests, Form
<1>23. CASE Flush(t)
  BY <1>0, <1>23, BriefEffect DEF Form, Keeps, Rests, Gets, Fields
<1>24. CASE SetWriteSyn(t)
  BY <1>0, <1>24, BriefEffect DEF Form, Keeps, Rests, Gets, Fields
<1>25. CASE Close(t)
  BY <1>0, <1>25, CloseEffect DEF Form, Keeps, Rests, Gets, Fields
<1>26. CASE PackStart(t)
  BY <1>0, <1>26, PackStartEffect DEF Form, Keeps, Rests, Gets, Fields
<1>27. CASE PackReadMeta(t)
  BY <1>0, <1>27, PackReadMetaEffect DEF Form, Keeps, Rests, Gets, Fields
<1>28. CASE PackDeleteMeta(t)
  BY <1>0, <1>28, GotoEffect DEF PackDeleteMeta, At, Keeps, Pcs, Form
<1>29. CASE PackDeleteNode(t)
  BY <1>0, <1>29, GotoEffect DEF PackDeleteNode, At, Keeps, Pcs, Form
<1> QED BY <1>1, <1>2, <1>3, <1>4, <1>5, <1>6, <1>7, <1>8, <1>9, <1>10, <1>11, <1>12, <1>13, <1>14,
           <1>15, <1>16, <1>17, <1>18, <1>19, <1>20, <1>21, <1>22, <1>23, <1>24, <1>25, <1>26,
           <1>27, <1>28, <1>29 DEF Step


-----------------------------------------------------------------------------
(* The types of the rest. *)

(* TypeOK without the threads. *)
Rest ==
    /\ writeSyn \in BOOLEAN
    /\ node \in Node /\ stream \in Node \union {None}
    /\ length \in [Node -> Nat] /\ written \in [Node -> Nat]
    /\ nodeFiles \subseteq Node /\ metaFiles \subseteq Node
    /\ metaOf \in [Node -> [Keys -> Meta \union {None}]]
    /\ fileMeta \in [Keys -> Meta \union {None}]
    /\ cache \in [Keys -> Content \union {None}]
    /\ storeLock \in Threads \union {Nobody}
    /\ streamLock \in Threads \union {Nobody}
    /\ use \in Uses /\ ops \in 0 .. use.maxCalls
    /\ current \in [Keys -> Values \union {None}]
    /\ seen \in [Threads -> SUBSET (Values \union {None})]

(* There is a stream where a thread uses it. *)
Open(t) ==
    /\ th[t].pc \in {"store", "publish", "sync"} => stream # None
    /\ th[t].pc \in {"store", "publish"} => Bytes(th[t].val) <= length[stream]

(* A flush keeps the types of what it changes. *)
LEMMA FlushTypes ==
    ASSUME TypeOK, FlushStream
    PROVE  /\ written' \in [Node -> Nat] /\ nodeFiles' \subseteq Node
           /\ cache' \in [Keys -> Content \union {None}]
<1>1. CASE stream # None /\ written[stream] < length[stream]
  <2>1. stream \in Node /\ length[stream] \in Nat
    BY <1>1 DEF TypeOK
  <2> QED BY <1>1, <2>1 DEF FlushStream, TypeOK, EmptyCache
<1>2. CASE ~(stream # None /\ written[stream] < length[stream])
  BY <1>2 DEF FlushStream, TypeOK
<1> QED BY <1>1, <1>2

(* Every step keeps the types of the storage, the index, the cache and the   *)
(* history.                                                                  *)
LEMMA RestStep ==
    ASSUME TypeOK, NEW t \in Threads, \A u \in Threads : Form(u), Open(t), UNCHANGED use, Step(t)
    PROVE  Rest'
<1>0. Form(t) /\ Fields(t) /\ Rest /\ use.values \subseteq Values
  BY FieldTypes, UseTypes DEF TypeOK, Typed, Rest
<1>1. ASSUME NEW k \in Keys, GetStart(t, k) PROVE Rest'
  <2>1. MayReturn(k) \subseteq Values \union {None}
    <3>1. \A u \in Threads : th[u].op = "put" => th[u].val \in Values
      BY <1>0 DEF Form
    <3> QED BY <1>0, <3>1 DEF MayReturn, Rest
  <2>2. ops' \in 0 .. use.maxCalls
    BY <1>0, <1>1, UseTypes DEF GetStart, Call, Rest
  <2>3. seen' \in [Threads -> SUBSET (Values \union {None})]
    BY <1>0, <1>1, <2>1 DEF GetStart, Rest
  <2> QED BY <1>0, <1>1, <2>2, <2>3 DEF GetStart, Rest, storage
<1>2. ASSUME NEW k \in Keys, RemoveStart(t, k) PROVE Rest'
  BY <1>0, <1>2, StoreAssumption DEF RemoveStart, Rest, storage, Call
<1>3. ASSUME NEW k \in Keys, PackEntry(t, k) PROVE Rest'
  BY <1>0, <1>3 DEF PackEntry, Rest, storage
<1>4. ASSUME NEW k \in Keys, NEW v \in use.values, PutStart(t, k, v) PROVE Rest'
  BY <1>0, <1>4, StoreAssumption DEF PutStart, Rest, storage, Call, AlsoReturn
<1>5. CASE LookInCache(t)
  BY <1>0, <1>5 DEF LookInCache, Rest, storage
<1>6. CASE IsCurrentNode(t)
  BY <1>0, <1>6 DEF IsCurrentNode, Rest, storage
<1>7. CASE NeedsFlush(t)
  BY <1>0, <1>7 DEF NeedsFlush, Rest, storage
<1>8. CASE GetFlushes(t)
  BY <1>0, <1>8, FlushTypes DEF GetFlushes, Rest, EmptyCache
<1>9. CASE FlushTooLate(t)
  BY <1>0, <1>9 DEF FlushTooLate, Rest, storage
<1>10. CASE ReadFile(t)
  BY <1>0, <1>10 DEF ReadFile, Rest, storage
<1>11. CASE GetReturns(t)
  BY <1>0, <1>11 DEF GetReturns, Rest, storage
<1>12. CASE PutCache(t)
  BY <1>0, <1>12 DEF PutCache, Rest, storage, At, Form, Writing
<1>13. CASE PutReserve(t)
  <2>1. th[t].val \in Content /\ stream \in Node
    BY <1>0, <1>13 DEF PutReserve, At, Form, Writing, Rest
  <2>2. Bytes(th[t].val) \in Nat
    BY <2>1, BytesType
  <2>3. length' \in [Node -> Nat]
    BY <1>0, <1>13, <2>1, <2>2 DEF PutReserve, Rest
  <2> QED BY <1>0, <1>13, <2>3 DEF PutReserve, Rest
<1>14. CASE PutRefused(t)
  BY <1>0, <1>14 DEF PutRefused, Rest, storage
<1>15. CASE PutStore(t)
  <2>1. th[t].pc = "store" /\ stream \in Node
    BY <1>0, <1>15 DEF PutStore, At, Open, Rest
  <2>2. /\ written' \in [Node -> Nat] /\ nodeFiles' \subseteq Node
        /\ cache' \in [Keys -> Content \union {None}]
    <3>1. CASE length[stream] - written[stream] > BufferSize
      <4>1. written[stream] + BufferSize \in Nat
        BY <1>0, <2>1, StoreAssumption DEF Rest
      <4> QED BY <1>0, <2>1, <3>1, <4>1, <1>15 DEF PutStore, Rest, EmptyCache
    <3>2. CASE ~(length[stream] - written[stream] > BufferSize)
      BY <1>0, <3>2, <1>15 DEF PutStore, Rest
    <3> QED BY <3>1, <3>2
  <2> QED BY <1>0, <1>15, <2>2 DEF PutStore, Rest
<1>16. CASE PutPublish(t)
  <2>1. th[t].pc = "publish" /\ stream \in Node /\ Bytes(th[t].val) <= length[stream]
    BY <1>0, <1>16 DEF PutPublish, At, Open, Rest
  <2>2. th[t].key \in Keys /\ th[t].val \in Content /\ th[t].zip \in BOOLEAN
        /\ (th[t].op = "put" => th[t].val \in Values)
    BY <1>0, <2>1 DEF Form, Writing, Fields
  <2>3. length[stream] - Bytes(th[t].val) \in Nat
    BY <1>0, <2>1, <2>2, BytesType DEF Rest
  <2> DEFINE m == [node |-> node, off |-> length[stream] - Bytes(th[t].val),
                   val |-> th[t].val, zip |-> th[t].zip]
  <2>4. m \in Meta
    BY <1>0, <2>2, <2>3 DEF Meta, Rest
  <2>5. /\ fileMeta' = [fileMeta EXCEPT ![th[t].key] = m]
        /\ metaOf' = [metaOf EXCEPT ![node][th[t].key] = m]
        /\ current' = IF th[t].op = "put" THEN [current EXCEPT ![th[t].key] = th[t].val] ELSE current
    BY <1>16 DEF PutPublish
  <2> HIDE DEF m
  <2>6. /\ fileMeta' \in [Keys -> Meta \union {None}]
        /\ metaOf' \in [Node -> [Keys -> Meta \union {None}]]
        /\ current' \in [Keys -> Values \union {None}]
    BY <1>0, <2>2, <2>4, <2>5 DEF Rest
  <2> QED BY <1>0, <1>16, <2>6 DEF PutPublish, Rest
<1>17. CASE PutSync(t)
  <2>1. /\ written' \in [Node -> Nat] /\ nodeFiles' \subseteq Node
        /\ cache' \in [Keys -> Content \union {None}]
    BY <1>0, <1>17, FlushTypes DEF PutSync, Rest
  <2>2. node' \in Node
    BY <1>0, <1>17, StoreAssumption DEF PutSync, Rest, Node
  <2> QED BY <1>0, <1>17, <2>1, <2>2 DEF PutSync, Rest
<1>18. CASE CloseNode(t)
  BY <1>0, <1>18, FlushTypes DEF CloseNode, Rest, EmptyCache
<1>19. CASE OpenNode(t)
  BY <1>0, <1>19 DEF OpenNode, Rest, EmptyCache
<1>20. CASE Unlock(t)
  BY <1>0, <1>20 DEF Unlock, Rest, storage
<1>21. CASE PutClosed(t)
  BY <1>0, <1>21 DEF PutClosed, Rest, storage
<1>22. CASE Remove(t)
  BY <1>0, <1>22 DEF Remove, Rest, storage, AlsoReturn
<1>23. CASE Flush(t)
  BY <1>0, <1>23, FlushTypes, StoreAssumption DEF Flush, Rest, Call, EmptyCache
<1>24. CASE SetWriteSyn(t)
  BY <1>0, <1>24, StoreAssumption DEF SetWriteSyn, Rest, storage, Call
<1>25. CASE Close(t)
  BY <1>0, <1>25, StoreAssumption DEF Close, Rest, storage, Call
<1>26. CASE PackStart(t)
  <2>2. node' \in Node
    BY <1>0, <1>26, StoreAssumption DEF PackStart, Rest, Node
  <2> QED BY <1>0, <1>26, <2>2, UseTypes DEF PackStart, Call, Rest
<1>27. CASE PackReadMeta(t)
  BY <1>0, <1>27 DEF PackReadMeta, Rest, storage
<1>28. CASE PackDeleteMeta(t)
  BY <1>0, <1>28 DEF PackDeleteMeta, Rest
<1>29. CASE PackDeleteNode(t)
  BY <1>0, <1>29 DEF PackDeleteNode, Rest
<1> QED BY <1>1, <1>2, <1>3, <1>4, <1>5, <1>6, <1>7, <1>8, <1>9, <1>10, <1>11, <1>12, <1>13, <1>14,
           <1>15, <1>16, <1>17, <1>18, <1>19, <1>20, <1>21, <1>22, <1>23, <1>24, <1>25, <1>26,
           <1>27, <1>28, <1>29 DEF Step


-----------------------------------------------------------------------------
(* The monitors. *)

(* Every thread is at a place of its operation. *)
Shape == \A t \in Threads : Form(t)

(* A monitor is held by the one thread that is inside its synchronized       *)
(* block.                                                                    *)
Monitors ==
    /\ \A t \in Threads : storeLock = t <=> th[t].pc \in Holding
    /\ \A t \in Threads : streamLock = t <=> th[t].pc = "store"

(* t keeps the monitors it has, and takes none. *)
LEMMA MonitorsStay ==
    ASSUME Monitors, NEW t \in Threads, Others(t), UNCHANGED <<storeLock, streamLock>>,
           th'[t].pc \in Holding <=> th[t].pc \in Holding,
           th'[t].pc = "store" <=> th[t].pc = "store"
    PROVE  Monitors'
BY DEF Monitors, Others

(* t enters the monitor of the store. *)
LEMMA MonitorsTaken ==
    ASSUME Monitors, NEW t \in Threads, Others(t), UNCHANGED streamLock,
           storeLock = Nobody, storeLock' = t, th'[t].pc \in Holding,
           th'[t].pc = "store" <=> th[t].pc = "store"
    PROVE  Monitors'
BY StoreAssumption DEF Monitors, Others

(* t leaves it. *)
LEMMA MonitorsGiven ==
    ASSUME Monitors, NEW t \in Threads, Others(t), UNCHANGED streamLock,
           th[t].pc \in Holding, storeLock' = Nobody, th'[t].pc \notin Holding,
           th'[t].pc = "store" <=> th[t].pc = "store"
    PROVE  Monitors'
BY StoreAssumption DEF Monitors, Others

(* Every step keeps the two monitors with the threads inside them. *)
LEMMA MonitorsStep ==
    ASSUME TypeOK, Monitors, NEW t \in Threads, Form(t), UNCHANGED use, Step(t),
           th[t].pc = "entry" => th[t].file \in Node
    PROVE  Monitors'
<1>0. Typed /\ Fields(t)
  BY FieldTypes DEF TypeOK, Typed
<1> USE DEF Holding, Reading
<1>1. ASSUME NEW k \in Keys, GetStart(t, k) PROVE Monitors'
  BY <1>0, <1>1, GetStartEffect, MonitorsStay DEF GetStart
<1>2. ASSUME NEW k \in Keys, RemoveStart(t, k) PROVE Monitors'
  BY <1>0, <1>2, RemoveStartEffect, MonitorsStay DEF RemoveStart
<1>3. ASSUME NEW k \in Keys, PackEntry(t, k) PROVE Monitors'
  <2>1. th[t].pc = "entry" /\ th[t].file \in Node
    BY <1>3 DEF PackEntry, At
  <2>2. Others(t) /\ th'[t].pc \in {"blocks", "entry"}
    BY <2>1, <1>3, PackEntryEffect
  <2>3. UNCHANGED <<storeLock, streamLock>>
    BY <1>3 DEF PackEntry
  <2> QED BY <2>1, <2>2, <2>3, MonitorsStay
<1>4. ASSUME NEW k \in Keys, NEW v \in use.values, PutStart(t, k, v) PROVE Monitors'
  BY <1>0, <1>4, PutStartEffect, MonitorsStay DEF PutStart
<1>5. CASE LookInCache(t)
  <2>1. th[t].pc = "blocks" /\ th[t].key \in Keys /\ th[t].meta \in Meta
    BY <1>0, <1>5 DEF LookInCache, At, Form, Fields
  <2> QED BY <1>0, <1>5, <2>1, LookInCacheEffect, MonitorsStay DEF LookInCache, Gets
<1>6. CASE IsCurrentNode(t)
  BY <1>0, <1>6, GotoEffect, MonitorsStay DEF IsCurrentNode, At, Pcs
<1>7. CASE NeedsFlush(t)
  BY <1>0, <1>7, GotoEffect, ThrowEffect, MonitorsStay DEF NeedsFlush, At, Rests, Leaves, Pcs
<1>8. CASE GetFlushes(t)
  BY <1>0, <1>8, GotoEffect, MonitorsStay DEF GetFlushes, At, Pcs
<1>9. CASE FlushTooLate(t)
  BY <1>0, <1>9, ThrowEffect, MonitorsStay DEF FlushTooLate, At, Rests, Leaves
<1>10. CASE ReadFile(t)
  <2>1. th[t].pc = "read" /\ th[t].key \in Keys /\ th[t].meta \in Meta
    BY <1>0, <1>10 DEF ReadFile, At, Form, Fields
  <2> QED BY <1>0, <1>10, <2>1, ReadFileEffect, MonitorsStay DEF ReadFile, Gets, Leaves, Rests
<1>11. CASE GetReturns(t)
  BY <1>0, <1>11, FinishEffect, MonitorsStay DEF GetReturns, At, Rests
<1>12. CASE PutCache(t)
  BY <1>0, <1>12, GotoEffect, MonitorsTaken DEF PutCache, At, Pcs
<1>13. CASE PutReserve(t)
  <2>1. Others(t) /\ th[t].pc = "reserve" /\ th'[t].pc = "store"
    BY <1>0, <1>13, GotoEffect DEF PutReserve, At, Pcs
  <2> QED BY <1>0, <1>13, <2>1 DEF PutReserve, Monitors, Others
<1>14. CASE PutRefused(t)
  BY <1>0, <1>14, FinishEffect, MonitorsGiven DEF PutRefused, At, Rests
<1>15. CASE PutStore(t)
  <2>1. Others(t) /\ th[t].pc = "store" /\ th'[t].pc = "publish"
    BY <1>0, <1>15, GotoEffect DEF PutStore, At, Pcs
  <2> QED BY <1>0, <1>15, <2>1, StoreAssumption DEF PutStore, Monitors, Others
<1>16. CASE PutPublish(t)
  BY <1>0, <1>16, GotoEffect, MonitorsStay DEF PutPublish, At, Pcs
<1>17. CASE PutSync(t)
  BY <1>0, <1>17, GotoEffect, MonitorsStay DEF PutSync, At, Pcs
<1>18. CASE CloseNode(t)
  BY <1>0, <1>18, GotoEffect, MonitorsStay DEF CloseNode, At, Pcs
<1>19. CASE OpenNode(t)
  BY <1>0, <1>19, GotoEffect, MonitorsStay DEF OpenNode, At, Pcs
<1>20. CASE Unlock(t)
  BY <1>0, <1>20, GotoEffect, FinishEffect, MonitorsGiven DEF Unlock, At, Rests, Pcs, Fields
<1>21. CASE PutClosed(t)
  BY <1>0, <1>21, FinishEffect, MonitorsGiven DEF PutClosed, At, Rests
<1>22. CASE Remove(t)
  BY <1>0, <1>22, FinishEffect, MonitorsStay DEF Remove, At, Rests
<1>23. CASE Flush(t)
  BY <1>0, <1>23, BriefEffect, MonitorsStay DEF Flush, Rests
<1>24. CASE SetWriteSyn(t)
  BY <1>0, <1>24, BriefEffect, MonitorsStay DEF SetWriteSyn, Rests
<1>25. CASE Close(t)
  BY <1>0, <1>25, CloseEffect, MonitorsTaken DEF Close
<1>26. CASE PackStart(t)
  BY <1>0, <1>26, PackStartEffect, MonitorsTaken DEF PackStart
<1>27. CASE PackReadMeta(t)
  BY <1>0, <1>27, PackReadMetaEffect, MonitorsStay DEF PackReadMeta, Rests
<1>28. CASE PackDeleteMeta(t)
  BY <1>0, <1>28, GotoEffect, MonitorsStay DEF PackDeleteMeta, At, Pcs
<1>29. CASE PackDeleteNode(t)
  BY <1>0, <1>29, GotoEffect, MonitorsStay DEF PackDeleteNode, At, Pcs
<1> QED BY <1>1, <1>2, <1>3, <1>4, <1>5, <1>6, <1>7, <1>8, <1>9, <1>10, <1>11, <1>12, <1>13, <1>14,
           <1>15, <1>16, <1>17, <1>18, <1>19, <1>20, <1>21, <1>22, <1>23, <1>24, <1>25, <1>26,
           <1>27, <1>28, <1>29 DEF Step


-----------------------------------------------------------------------------
(* The stream and the lengths of the files. *)

(* The stream is that of the last node, but for the moment of a rollover. *)
Streams ==
    /\ \A n \in metaFiles : n <= node
    /\ stream # None => /\ stream \in metaFiles
                        /\ written[stream] > 0 => stream \in nodeFiles
                        /\ stream = node \/ \E t \in Threads : th[t].pc = "newStore"
    /\ \A t \in Threads :
          /\ Open(t)
          /\ th[t].pc = "open" => stream = None
          /\ th[t].pc \in {"newStore", "open"} /\ th[t].op # "close" => length[node] = 0
    /\ \A n \in Node : n > node => length[n] = 0

(* A file has what it was handed, but for what is in the buffer. *)
Lengths ==
    /\ \A n \in Node : written[n] <= length[n]
    /\ \A n \in Node : n # stream => written[n] = length[n]
    /\ stream # None => /\ length[stream] - written[stream] <= 2 * BufferSize
                        /\ streamLock = Nobody => length[stream] - written[stream] <= BufferSize

(* The storage stays, and t does not come to a place that uses the stream. *)
LEMMA StreamsStay ==
    ASSUME Streams, NEW t \in Threads, Others(t), UNCHANGED storage, th[t].pc # "newStore",
           th'[t].pc \notin {"store", "publish", "sync", "newStore", "open"}
    PROVE  Streams'
BY DEF Streams, Others, Open, storage

(* Lengths speaks of the storage and of the monitor of the stream only. *)
LEMMA LengthsStay ==
    ASSUME Lengths, UNCHANGED <<storage, streamLock>>
    PROVE  Lengths'
BY DEF Lengths, storage

(* A flush writes what is in the buffer, and nothing else. *)
LEMMA FlushEffect ==
    ASSUME TypeOK, Lengths, FlushStream
    PROVE  /\ \A n \in Node : n # stream => written'[n] = written[n]
           /\ stream # None => written'[stream] = length[stream]
           /\ nodeFiles \subseteq nodeFiles'
           /\ stream # None /\ (written[stream] > 0 => stream \in nodeFiles)
                 => (length[stream] > 0 => stream \in nodeFiles')
<1>1. CASE stream # None /\ written[stream] < length[stream]
  BY <1>1 DEF FlushStream, TypeOK
<1>2. CASE ~(stream # None /\ written[stream] < length[stream])
  <2>1. UNCHANGED <<written, nodeFiles>>
    BY <1>2 DEF FlushStream
  <2>2. stream # None => written[stream] = length[stream]
    <3>1. stream # None => /\ written[stream] \in Nat /\ length[stream] \in Nat
                          /\ written[stream] <= length[stream]
      BY DEF TypeOK, Lengths
    <3> QED BY <1>2, <3>1
  <2> QED BY <2>1, <2>2
<1> QED BY <1>1, <1>2

(* A flush that leaves the stream where it is keeps Streams. *)
LEMMA StreamsFlush ==
    ASSUME TypeOK, Streams, Lengths, NEW t \in Threads, Others(t), FlushStream,
           UNCHANGED <<node, stream, length, metaFiles>>, th[t].pc # "newStore",
           th'[t].pc \notin {"store", "publish", "sync", "newStore", "open"}
    PROVE  Streams'
<1>1. stream # None => (written'[stream] > 0 => stream \in nodeFiles')
  BY FlushEffect DEF Streams
<1> QED BY <1>1 DEF Streams, Others, Open

(* Every step keeps the stream at the last node, open where a thread uses    *)
(* it.                                                                       *)
LEMMA StreamsStep ==
    ASSUME TypeOK, Monitors, Streams, Lengths, NEW t \in Threads, Form(t), UNCHANGED use, Step(t),
           th[t].pc = "entry" => th[t].file \in Node,
           th[t].pc \in {"entry", "delNode"} =>
               /\ \A n \in Node : th[t].file = n /\ stream # None => n < stream
    PROVE  Streams'
<1>0. Typed /\ Fields(t)
  BY FieldTypes DEF TypeOK, Typed
<1>00. \A u \in Threads : u # t /\ th[t].pc \in Holding => th[u].pc \notin Holding
  BY DEF Monitors
<1> USE DEF Reading
<1>1. ASSUME NEW k \in Keys, GetStart(t, k) PROVE Streams'
  BY <1>0, <1>1, GetStartEffect, StreamsStay DEF GetStart
<1>2. ASSUME NEW k \in Keys, RemoveStart(t, k) PROVE Streams'
  BY <1>0, <1>2, RemoveStartEffect, StreamsStay DEF RemoveStart
<1>3. ASSUME NEW k \in Keys, PackEntry(t, k) PROVE Streams'
  <2>1. th[t].pc = "entry" /\ th[t].file \in Node
    BY <1>3 DEF PackEntry, At
  <2>2. Others(t) /\ th'[t].pc \in {"blocks", "entry"}
    BY <2>1, <1>3, PackEntryEffect
  <2>3. UNCHANGED storage
    BY <1>3 DEF PackEntry
  <2> QED BY <2>1, <2>2, <2>3, StreamsStay
<1>4. ASSUME NEW k \in Keys, NEW v \in use.values, PutStart(t, k, v) PROVE Streams'
  BY <1>0, <1>4, PutStartEffect, StreamsStay DEF PutStart
<1>5. CASE LookInCache(t)
  <2>1. th[t].pc = "blocks" /\ th[t].key \in Keys /\ th[t].meta \in Meta
    BY <1>0, <1>5 DEF LookInCache, At, Form, Fields
  <2> QED BY <1>0, <1>5, <2>1, LookInCacheEffect, StreamsStay DEF LookInCache, Gets
<1>6. CASE IsCurrentNode(t)
  BY <1>0, <1>6, GotoEffect, StreamsStay DEF IsCurrentNode, At, Pcs
<1>7. CASE NeedsFlush(t)
  BY <1>0, <1>7, GotoEffect, ThrowEffect, StreamsStay DEF NeedsFlush, At, Rests, Leaves, Pcs
<1>8. CASE GetFlushes(t)
  <2>1. Others(t) /\ th[t].pc = "flush" /\ th'[t].pc = "read"
    BY <1>0, <1>8, GotoEffect DEF GetFlushes, At, Pcs
  <2>2. FlushStream /\ UNCHANGED <<node, stream, length, metaFiles>>
    BY <1>8 DEF GetFlushes
  <2> QED BY <2>1, <2>2, StreamsFlush
<1>9. CASE FlushTooLate(t)
  BY <1>0, <1>9, ThrowEffect, StreamsStay DEF FlushTooLate, At, Rests, Leaves
<1>10. CASE ReadFile(t)
  <2>1. th[t].pc = "read" /\ th[t].key \in Keys /\ th[t].meta \in Meta
    BY <1>0, <1>10 DEF ReadFile, At, Form, Fields
  <2> QED BY <1>0, <1>10, <2>1, ReadFileEffect, StreamsStay DEF ReadFile, Gets, Leaves, Rests
<1>11. CASE GetReturns(t)
  BY <1>0, <1>11, FinishEffect, StreamsStay DEF GetReturns, At, Rests
<1>12. CASE PutCache(t)
  BY <1>0, <1>12, GotoEffect, StreamsStay DEF PutCache, At, Pcs
<1>13. CASE PutReserve(t)
  <2>1. Others(t) /\ th[t].pc = "reserve" /\ th'[t].pc = "store" /\ th'[t].val = th[t].val
    BY <1>0, <1>13, GotoEffect DEF PutReserve, At, Pcs, Keeps
  <2>2. /\ stream # None /\ length' = [length EXCEPT ![stream] = length[stream] + Bytes(th[t].val)]
        /\ UNCHANGED <<node, stream, written, nodeFiles, metaFiles>>
    BY <1>13 DEF PutReserve
  <2>3. Bytes(th[t].val) \in Nat /\ stream \in Node /\ length[stream] \in Nat /\ node \in Nat
    BY <2>1, <2>2, BytesType DEF Form, Writing, TypeOK, Node
  <2>4. /\ length'[stream] = length[stream] + Bytes(th[t].val)
        /\ \A n \in Node : n # stream => length'[n] = length[n]
    BY <2>2, <2>3 DEF TypeOK
  <2>5. \A u \in Threads : u # t => th'[u] = th[u] /\ th[u].pc \notin Holding
    BY <1>00, <2>1 DEF Others, Holding
  <2>6. stream = node
    BY <2>1, <2>2, <2>5 DEF Streams, Holding
  <2> QED BY <2>1, <2>2, <2>3, <2>4, <2>5, <2>6 DEF Streams, Open, Holding, Bytes
<1>14. CASE PutRefused(t)
  BY <1>0, <1>14, FinishEffect, StreamsStay DEF PutRefused, At, Rests
<1>15. CASE PutStore(t)
  <2>1. Others(t) /\ th[t].pc = "store" /\ th'[t].pc = "publish" /\ th'[t].val = th[t].val
    BY <1>0, <1>15, GotoEffect DEF PutStore, At, Pcs, Keeps
  <2>2. UNCHANGED <<node, stream, length, metaFiles>> /\ stream # None /\ stream \in Node
    BY <2>1, <1>15 DEF PutStore, Streams, Open, TypeOK
  <2>3. written'[stream] > 0 => stream \in nodeFiles'
    BY <2>2, <1>15 DEF PutStore, Streams
  <2> QED BY <2>1, <2>2, <2>3 DEF Streams, Open, Others, Bytes
<1>16. CASE PutPublish(t)
  <2>1. Others(t) /\ th[t].pc = "publish" /\ th'[t].pc = "sync"
    BY <1>0, <1>16, GotoEffect DEF PutPublish, At, Pcs
  <2>2. UNCHANGED <<node, stream, length, written, nodeFiles, metaFiles>>
    BY <1>16 DEF PutPublish
  <2> QED BY <2>1, <2>2 DEF Streams, Open, Others
<1>17. CASE PutSync(t)
  <2>1. /\ Others(t) /\ th[t].pc = "sync" /\ th'[t].op = th[t].op
        /\ \/ th'[t].pc = "newStore" /\ node' = node + 1 /\ node < MaxNode
           \/ th'[t].pc = "unlock" /\ node' = node
    BY <1>0, <1>17, GotoEffect DEF PutSync, At, Pcs, Keeps
  <2>2. UNCHANGED <<stream, length, metaFiles>> /\ stream # None /\ stream \in Node
    BY <2>1, <1>17 DEF PutSync, Streams, Open, TypeOK
  <2>3. written'[stream] > 0 => stream \in nodeFiles'
    BY <2>2, <1>17, FlushEffect DEF PutSync, Streams
  <2>4. \A u \in Threads : u # t => th'[u] = th[u] /\ th[u].pc \notin Holding
    BY <1>00, <2>1 DEF Others, Holding
  <2>5. stream = node
    BY <2>1, <2>2, <2>4 DEF Streams, Holding
  <2>6. node \in Node /\ MaxNode \in Nat /\ metaFiles \subseteq Node
    BY StoreAssumption DEF TypeOK
  <2>7. \A n \in metaFiles : n <= node'
    <3>1. node <= node' /\ node \in Nat /\ node' \in Nat
      BY <2>1, <2>6 DEF Node
    <3>2. \A n \in metaFiles : n \in Nat /\ n <= node
      BY <2>6 DEF Streams, Node
    <3> QED BY <3>1, <3>2
  <2>8. \A n \in Node : n > node' => length[n] = 0
    BY <2>1, <2>6 DEF Streams, Node
  <2>9. th'[t].pc = "newStore" => length[node'] = 0
    BY <2>1, <2>6 DEF Streams, Node
  <2> QED BY <2>1, <2>2, <2>3, <2>4, <2>5, <2>7, <2>8, <2>9 DEF Streams, Open, Holding
<1>18. CASE CloseNode(t)
  <2>1. Others(t) /\ th[t].pc = "newStore" /\ th'[t].pc = "open" /\ th'[t].op = th[t].op
    BY <1>0, <1>18, GotoEffect DEF CloseNode, At, Pcs, Keeps
  <2>2. UNCHANGED <<node, length, metaFiles>> /\ stream' = None
    BY <1>18 DEF CloseNode
  <2>4. \A u \in Threads : u # t => th'[u] = th[u] /\ th[u].pc \notin Holding
    BY <1>00, <2>1 DEF Others, Holding
  <2> QED BY <2>1, <2>2, <2>4 DEF Streams, Open, Holding
<1>19. CASE OpenNode(t)
  <2>1. Others(t) /\ th[t].pc = "open" /\ th'[t].pc = "unlock"
    BY <1>0, <1>19, GotoEffect DEF OpenNode, At, Pcs
  <2>2. /\ UNCHANGED <<node, length, written, nodeFiles>>
        /\ \/ th[t].op = "close" /\ UNCHANGED <<stream, metaFiles>>
           \/ th[t].op # "close" /\ stream' = node /\ metaFiles' = metaFiles \union {node}
    BY <1>19 DEF OpenNode
  <2>3. stream = None /\ (th[t].op # "close" => length[node] = 0)
    BY <2>1 DEF Streams
  <2>4. \A u \in Threads : u # t => th'[u] = th[u] /\ th[u].pc \notin Holding
    BY <1>00, <2>1 DEF Others, Holding
  <2>5. node \in Node /\ node <= node /\ written[node] \in Nat /\ written[node] <= length[node]
    BY DEF TypeOK, Lengths, Node
  <2>6. \A n \in metaFiles' : n <= node
    BY <2>2, <2>5 DEF Streams
  <2>7. stream' # None => /\ stream' = node /\ stream' \in metaFiles'
                         /\ ~(written[stream'] > 0)
    BY <2>2, <2>3, <2>5
  <2>8. \A n \in Node : n > node => length[n] = 0
    BY DEF Streams
  <2> QED BY <2>1, <2>2, <2>4, <2>6, <2>7, <2>8 DEF Streams, Open, Holding
<1>20. CASE Unlock(t)
  BY <1>0, <1>20, GotoEffect, FinishEffect, StreamsStay DEF Unlock, At, Rests, Pcs, Fields
<1>21. CASE PutClosed(t)
  BY <1>0, <1>21, FinishEffect, StreamsStay DEF PutClosed, At, Rests
<1>22. CASE Remove(t)
  BY <1>0, <1>22, FinishEffect, StreamsStay DEF Remove, At, Rests
<1>23. CASE Flush(t)
  <2>1. Others(t) /\ th[t].pc = "idle" /\ th'[t].pc = "idle"
    BY <1>23, BriefEffect DEF Rests
  <2>2. FlushStream /\ UNCHANGED <<node, stream, length, metaFiles>>
    BY <1>23 DEF Flush
  <2> QED BY <2>1, <2>2, StreamsFlush
<1>24. CASE SetWriteSyn(t)
  BY <1>0, <1>24, BriefEffect, StreamsStay DEF SetWriteSyn, Rests
<1>25. CASE Close(t)
  <2>1. Others(t) /\ th[t].pc = "idle" /\ th'[t].pc = "newStore" /\ th'[t].op = "close"
    BY <1>25, CloseEffect
  <2>2. UNCHANGED storage
    BY <1>25 DEF Close
  <2> QED BY <2>1, <2>2 DEF Streams, Open, Others, storage
<1>26. CASE PackStart(t)
  <2>1. /\ Others(t) /\ th[t].pc = "idle" /\ th'[t].pc = "newStore" /\ th'[t].op = "pack"
        /\ UNCHANGED <<stream, length, written, nodeFiles, metaFiles>> /\ storeLock = Nobody
        /\ node' = node + 1 /\ node < MaxNode
    BY <1>26, PackStartEffect DEF PackStart
  <2>4. \A u \in Threads : u # t => th'[u] = th[u] /\ th[u].pc \notin Holding
    BY <2>1, StoreAssumption DEF Others, Monitors
  <2>6. node \in Node /\ MaxNode \in Nat /\ metaFiles \subseteq Node
    BY StoreAssumption DEF TypeOK
  <2>7. \A n \in metaFiles : n <= node'
    <3>1. node <= node' /\ node \in Nat /\ node' \in Nat
      BY <2>1, <2>6 DEF Node
    <3>2. \A n \in metaFiles : n \in Nat /\ n <= node
      BY <2>6 DEF Streams, Node
    <3> QED BY <3>1, <3>2
  <2>8. \A n \in Node : n > node' => length[n] = 0
    BY <2>1, <2>6 DEF Streams, Node
  <2>9. length[node'] = 0
    BY <2>1, <2>6 DEF Streams, Node
  <2> QED BY <2>1, <2>4, <2>7, <2>8, <2>9 DEF Streams, Open, Holding
<1>27. CASE PackReadMeta(t)
  BY <1>0, <1>27, PackReadMetaEffect, StreamsStay DEF PackReadMeta, Rests
<1>28. CASE PackDeleteMeta(t)
  <2>1. Others(t) /\ th[t].pc = "entry" /\ th'[t].pc = "delNode"
    BY <1>0, <1>28, GotoEffect DEF PackDeleteMeta, At, Pcs
  <2>2. /\ UNCHANGED <<node, stream, length, written, nodeFiles>>
        /\ metaFiles' = metaFiles \ {th[t].file}
    BY <1>28 DEF PackDeleteMeta
  <2>3. stream # None => stream # th[t].file
    BY <2>1 DEF TypeOK, Node
  <2> QED BY <2>1, <2>2, <2>3 DEF Streams, Open, Others
<1>29. CASE PackDeleteNode(t)
  <2>1. Others(t) /\ th[t].pc = "delNode" /\ th'[t].pc = "readMeta"
    BY <1>0, <1>29, GotoEffect DEF PackDeleteNode, At, Pcs
  <2>2. /\ UNCHANGED <<node, stream, length, written, metaFiles>>
        /\ nodeFiles' = nodeFiles \ {th[t].file}
    BY <1>29 DEF PackDeleteNode
  <2>3. stream # None => stream # th[t].file
    BY <2>1 DEF TypeOK, Node
  <2> QED BY <2>1, <2>2, <2>3 DEF Streams, Open, Others
<1> QED BY <1>1, <1>2, <1>3, <1>4, <1>5, <1>6, <1>7, <1>8, <1>9, <1>10, <1>11, <1>12, <1>13, <1>14,
           <1>15, <1>16, <1>17, <1>18, <1>19, <1>20, <1>21, <1>22, <1>23, <1>24, <1>25, <1>26,
           <1>27, <1>28, <1>29 DEF Step

(* A meta of k that is live: where its bytes and its record are. *)
LiveMeta(k, m) ==
    /\ m.node <= node
    /\ MetaEnd(m) <= length[m.node]
    /\ metaOf[m.node][k] = m
    /\ m.node \in metaFiles
    /\ m.node # stream => m.node \in nodeFiles

(* What fileMeta tells of a key is in the logs: the record of it, and room   *)
(* for its bytes.                                                            *)
Live ==
    /\ \A k \in Keys : fileMeta[k] # None => LiveMeta(k, fileMeta[k])
    /\ \A n \in Node, k \in Keys : metaOf[n][k] # None => metaOf[n][k].node = n

(* After a flush every file has all it was handed. *)
LEMMA AllFlushed ==
    ASSUME TypeOK, Lengths, FlushStream, UNCHANGED length, stream' \in {stream, None}
    PROVE  Lengths' /\ \A n \in Node : written'[n] = length'[n]
<1>1. \A n \in Node : written'[n] = length'[n]
  <2>1. \A n \in Node : n # stream => written'[n] = length'[n]
    BY FlushEffect DEF Lengths
  <2>2. stream # None => written'[stream] = length'[stream]
    BY FlushEffect
  <2> QED BY <2>1, <2>2, StoreAssumption
<1>2. \A n \in Node : length'[n] \in Nat /\ length'[n] - length'[n] = 0
  BY DEF TypeOK
<1>3. stream' # None => stream' \in Node
  BY DEF TypeOK
<1> QED BY <1>1, <1>2, <1>3, StoreAssumption DEF Lengths

(* Every step keeps what a file lacks inside the buffer. *)
LEMMA LengthsStep ==
    ASSUME TypeOK, Monitors, Streams, Lengths, NEW t \in Threads, Form(t), UNCHANGED use, Step(t)
    PROVE  Lengths'
<1>0. Typed /\ Fields(t)
  BY FieldTypes DEF TypeOK, Typed
<1>1. ASSUME NEW k \in Keys, GetStart(t, k) PROVE Lengths'
  BY <1>1, LengthsStay DEF GetStart
<1>2. ASSUME NEW k \in Keys, RemoveStart(t, k) PROVE Lengths'
  BY <1>2, LengthsStay DEF RemoveStart
<1>3. ASSUME NEW k \in Keys, PackEntry(t, k) PROVE Lengths'
  BY <1>3, LengthsStay DEF PackEntry
<1>4. ASSUME NEW k \in Keys, NEW v \in use.values, PutStart(t, k, v) PROVE Lengths'
  BY <1>4, LengthsStay DEF PutStart
<1>5. CASE LookInCache(t)
  BY <1>5, LengthsStay DEF LookInCache
<1>6. CASE IsCurrentNode(t)
  BY <1>6, LengthsStay DEF IsCurrentNode
<1>7. CASE NeedsFlush(t)
  BY <1>7, LengthsStay DEF NeedsFlush
<1>8. CASE GetFlushes(t)
  <2>1. FlushStream /\ UNCHANGED length /\ stream' \in {stream, None}
    BY <1>8 DEF GetFlushes
  <2> QED BY <2>1, AllFlushed
<1>9. CASE FlushTooLate(t)
  BY <1>9, LengthsStay DEF FlushTooLate
<1>10. CASE ReadFile(t)
  BY <1>10, LengthsStay DEF ReadFile
<1>11. CASE GetReturns(t)
  BY <1>11, LengthsStay DEF GetReturns
<1>12. CASE PutCache(t)
  BY <1>12, LengthsStay DEF PutCache
<1>13. CASE PutReserve(t)
  <2>1. th[t].pc = "reserve" /\ streamLock = Nobody /\ streamLock' = t
        /\ UNCHANGED <<stream, written>> /\ stream # None /\ Bytes(th[t].val) <= BufferSize
        /\ length' = [length EXCEPT ![stream] = length[stream] + Bytes(th[t].val)]
    BY <1>13 DEF PutReserve, At
  <2>2. Bytes(th[t].val) \in Nat /\ stream \in Node /\ length[stream] \in Nat
        /\ written[stream] \in Nat /\ BufferSize \in Nat
    BY <2>1, BytesType, StoreAssumption DEF Form, Writing, TypeOK
  <2>3. /\ length'[stream] = length[stream] + Bytes(th[t].val)
        /\ \A n \in Node : n # stream => length'[n] = length[n]
    BY <2>1, <2>2 DEF TypeOK
  <2>4. written[stream] <= length[stream] /\ length[stream] - written[stream] <= BufferSize
    BY <2>1, <2>2 DEF Lengths
  <2>5. written'[stream] <= length'[stream] /\ length'[stream] - written'[stream] <= 2 * BufferSize
    BY <2>1, <2>2, <2>3, <2>4
  <2>6. streamLock' # Nobody
    BY <2>1, StoreAssumption
  <2>7. \A n \in Node : n # stream => written[n] = length'[n] /\ written[n] <= length'[n]
    BY <2>3 DEF Lengths
  <2> QED BY <2>1, <2>5, <2>6, <2>7 DEF Lengths
<1>14. CASE PutRefused(t)
  BY <1>14, LengthsStay DEF PutRefused
<1>15. CASE PutStore(t)
  <2>1. th[t].pc = "store" /\ UNCHANGED <<stream, length>>
    BY <1>15 DEF PutStore, At
  <2>2. stream # None /\ stream \in Node /\ length[stream] \in Nat
        /\ written[stream] \in Nat /\ BufferSize \in Nat
    BY <2>1, StoreAssumption DEF Streams, Open, TypeOK
  <2>3. written[stream] <= length[stream] /\ length[stream] - written[stream] <= 2 * BufferSize
    BY <2>2 DEF Lengths
  <2>4. CASE length[stream] - written[stream] > BufferSize
    <3>1. /\ written'[stream] = written[stream] + BufferSize
          /\ \A n \in Node : n # stream => written'[n] = written[n]
      BY <2>2, <2>4, <1>15 DEF PutStore, TypeOK
    <3>2. /\ written'[stream] <= length[stream]
          /\ length[stream] - written'[stream] <= BufferSize
          /\ length[stream] - written'[stream] <= 2 * BufferSize
      BY <2>2, <2>3, <2>4, <3>1
    <3>3. \A n \in Node : n # stream => written'[n] = length[n] /\ written'[n] <= length[n]
      BY <3>1 DEF Lengths
    <3> QED BY <2>1, <3>2, <3>3 DEF Lengths
  <2>5. CASE ~(length[stream] - written[stream] > BufferSize)
    <3>1. UNCHANGED written
      BY <2>5, <1>15 DEF PutStore
    <3>2. length[stream] - written[stream] <= BufferSize
      BY <2>2, <2>5
    <3> QED BY <2>1, <3>1, <3>2 DEF Lengths
  <2> QED BY <2>4, <2>5
<1>16. CASE PutPublish(t)
  <2>1. UNCHANGED <<stream, length, written, streamLock>>
    BY <1>16 DEF PutPublish
  <2> QED BY <2>1 DEF Lengths
<1>17. CASE PutSync(t)
  <2>1. UNCHANGED <<length, stream, streamLock>>
    BY <1>17 DEF PutSync
  <2>2. CASE writeSyn
    <3>1. FlushStream
      BY <1>17, <2>2 DEF PutSync
    <3> QED BY <2>1, <3>1, AllFlushed
  <2>3. CASE ~writeSyn
    <3>1. UNCHANGED written
      BY <1>17, <2>3 DEF PutSync
    <3> QED BY <2>1, <3>1 DEF Lengths
  <2> QED BY <2>2, <2>3
<1>18. CASE CloseNode(t)
  <2>1. FlushStream /\ UNCHANGED length /\ stream' \in {stream, None}
    BY <1>18 DEF CloseNode
  <2> QED BY <2>1, AllFlushed
<1>19. CASE OpenNode(t)
  <2>1. th[t].pc = "open" /\ UNCHANGED <<length, written>>
        /\ \/ th[t].op = "close" /\ stream' = stream
           \/ th[t].op # "close" /\ stream' = node
    BY <1>19 DEF OpenNode, At
  <2>2. stream = None /\ (th[t].op # "close" => length[node] = 0)
    BY <2>1 DEF Streams
  <2>3. node \in Node /\ length[node] \in Nat /\ written[node] \in Nat /\ BufferSize \in Nat
    BY StoreAssumption DEF TypeOK
  <2>4. \A n \in Node : written[n] = length[n] /\ written[n] <= length[n]
    BY <2>2, StoreAssumption DEF Lengths
  <2>5. th[t].op # "close" => length[node] - written[node] <= 2 * BufferSize
                             /\ length[node] - written[node] <= BufferSize
    BY <2>2, <2>3, <2>4
  <2> QED BY <2>1, <2>2, <2>4, <2>5 DEF Lengths
<1>20. CASE Unlock(t)
  BY <1>20, LengthsStay DEF Unlock
<1>21. CASE PutClosed(t)
  BY <1>21, LengthsStay DEF PutClosed
<1>22. CASE Remove(t)
  BY <1>22, LengthsStay DEF Remove
<1>23. CASE Flush(t)
  <2>1. FlushStream /\ UNCHANGED length /\ stream' \in {stream, None}
    BY <1>23 DEF Flush
  <2> QED BY <2>1, AllFlushed
<1>24. CASE SetWriteSyn(t)
  BY <1>24, LengthsStay DEF SetWriteSyn
<1>25. CASE Close(t)
  BY <1>25, LengthsStay DEF Close
<1>26. CASE PackStart(t)
  <2>1. UNCHANGED <<stream, length, written, streamLock>>
    BY <1>26 DEF PackDeleteMeta, PackDeleteNode, PackStart
  <2> QED BY <2>1 DEF Lengths
<1>27. CASE PackReadMeta(t)
  BY <1>27, LengthsStay DEF PackReadMeta
<1>28. CASE PackDeleteMeta(t)
  <2>1. UNCHANGED <<stream, length, written, streamLock>>
    BY <1>28 DEF PackDeleteMeta, PackDeleteNode, PackStart
  <2> QED BY <2>1 DEF Lengths
<1>29. CASE PackDeleteNode(t)
  <2>1. UNCHANGED <<stream, length, written, streamLock>>
    BY <1>29 DEF PackDeleteMeta, PackDeleteNode, PackStart
  <2> QED BY <2>1 DEF Lengths
<1> QED BY <1>1, <1>2, <1>3, <1>4, <1>5, <1>6, <1>7, <1>8, <1>9, <1>10, <1>11, <1>12, <1>13, <1>14,
           <1>15, <1>16, <1>17, <1>18, <1>19, <1>20, <1>21, <1>22, <1>23, <1>24, <1>25, <1>26,
           <1>27, <1>28, <1>29 DEF Step

-----------------------------------------------------------------------------
(* A live key has its bytes and its record. *)

(* Live speaks of the storage and of fileMeta only. *)
LEMMA LiveStay ==
    ASSUME Live, UNCHANGED <<storage, fileMeta>>
    PROVE  Live'
BY DEF Live, LiveMeta, MetaEnd, Bytes, storage

(* More is in the files. *)
LEMMA LiveGrows ==
    ASSUME TypeOK, Live, UNCHANGED <<fileMeta, metaOf, stream>>, node' \in Node, node <= node',
           length' \in [Node -> Nat], \A n \in Node : length[n] <= length'[n],
           metaFiles \subseteq metaFiles', nodeFiles \subseteq nodeFiles'
    PROVE  Live'
<1>1. ASSUME NEW k \in Keys, fileMeta[k] # None
      PROVE  LiveMeta(k, fileMeta[k])'
  <2> DEFINE m == fileMeta[k]
             e == MetaEnd(m)
  <2>1. m \in Meta /\ LiveMeta(k, m) /\ m.node \in Node /\ m.off \in Nat /\ m.val \in Content
    BY <1>1 DEF TypeOK, Live, Meta
  <2>2. e \in Nat
    BY <2>1, BytesType DEF MetaEnd
  <2>3. fileMeta'[k] = m /\ MetaEnd(fileMeta[k])' = e
    BY DEF MetaEnd, Bytes
  <2>4. e <= length[m.node] /\ length[m.node] \in Nat /\ length'[m.node] \in Nat
        /\ length[m.node] <= length'[m.node]
    BY <2>1 DEF LiveMeta, TypeOK
  <2> HIDE DEF e
  <2>5. e <= length'[m.node]
    BY <2>2, <2>4
  <2>6. m.node <= node'
    BY <2>1 DEF LiveMeta, Node, TypeOK
  <2> HIDE DEF m
  <2> QED BY <2>1, <2>3, <2>5, <2>6 DEF LiveMeta
<1> QED BY <1>1 DEF Live

(* Every step keeps Live: a pack deletes the files of a node after its last  *)
(* live entry.                                                               *)
LEMMA LiveStep ==
    ASSUME TypeOK, TypeOK', Monitors, Streams, Lengths, Live, NEW t \in Threads, Form(t),
           UNCHANGED use, Step(t),
           th[t].pc = "entry" => \A k \in Keys : fileMeta[k] # None /\ fileMeta[k].node = th[t].file
                                                => k \in th[t].todo,
           th[t].pc = "delNode" => \A k \in Keys : fileMeta[k] # None => fileMeta[k].node # th[t].file
    PROVE  Live'
<1>0. Typed /\ Fields(t)
  BY FieldTypes DEF TypeOK, Typed
<1>00. node' \in Node /\ length' \in [Node -> Nat] /\ \A n \in Node : length[n] <= length[n]
  BY DEF TypeOK
<1>1. ASSUME NEW k \in Keys, GetStart(t, k) PROVE Live'
  BY <1>1, LiveStay DEF GetStart
<1>2. ASSUME NEW k \in Keys, RemoveStart(t, k) PROVE Live'
  BY <1>2, LiveStay DEF RemoveStart
<1>3. ASSUME NEW k \in Keys, PackEntry(t, k) PROVE Live'
  BY <1>3, LiveStay DEF PackEntry
<1>4. ASSUME NEW k \in Keys, NEW v \in use.values, PutStart(t, k, v) PROVE Live'
  BY <1>4, LiveStay DEF PutStart
<1>5. CASE LookInCache(t)
  BY <1>5, LiveStay DEF LookInCache
<1>6. CASE IsCurrentNode(t)
  BY <1>6, LiveStay DEF IsCurrentNode
<1>7. CASE NeedsFlush(t)
  BY <1>7, LiveStay DEF NeedsFlush
<1>8. CASE GetFlushes(t)
  <2>1. FlushStream /\ UNCHANGED <<node, stream, length, metaFiles, metaOf, fileMeta>>
    BY <1>8 DEF GetFlushes
  <2>2. nodeFiles \subseteq nodeFiles'
    BY <2>1, FlushEffect
  <2>3. node <= node'
    BY <2>1, <1>00 DEF Node
  <2> QED BY <1>00, <2>1, <2>2, <2>3, LiveGrows
<1>9. CASE FlushTooLate(t)
  BY <1>9, LiveStay DEF FlushTooLate
<1>10. CASE ReadFile(t)
  BY <1>10, LiveStay DEF ReadFile
<1>11. CASE GetReturns(t)
  BY <1>11, LiveStay DEF GetReturns
<1>12. CASE PutCache(t)
  BY <1>12, LiveStay DEF PutCache
<1>13. CASE PutReserve(t)
  <2>1. th[t].pc = "reserve" /\ stream # None
        /\ UNCHANGED <<node, stream, nodeFiles, metaFiles, metaOf, fileMeta>>
        /\ length' = [length EXCEPT ![stream] = length[stream] + Bytes(th[t].val)]
    BY <1>13 DEF PutReserve, At
  <2>2. Bytes(th[t].val) \in Nat /\ stream \in Node /\ length[stream] \in Nat
    BY <2>1, BytesType DEF Form, Writing, TypeOK
  <2>3. \A n \in Node : length[n] <= length'[n]
    BY <2>1, <2>2 DEF TypeOK
  <2>4. node <= node'
    BY <2>1, <1>00 DEF Node
  <2> QED BY <1>00, <2>1, <2>3, <2>4, LiveGrows
<1>14. CASE PutRefused(t)
  BY <1>14, LiveStay DEF PutRefused
<1>15. CASE PutStore(t)
  <2>1. UNCHANGED <<node, stream, length, metaFiles, metaOf, fileMeta>>
        /\ nodeFiles \subseteq nodeFiles'
    BY <1>15 DEF PutStore
  <2>4. node <= node'
    BY <2>1, <1>00 DEF Node
  <2> QED BY <1>00, <2>1, <2>4, LiveGrows
<1>16. CASE PutPublish(t)
  <2>1. th[t].pc = "publish" /\ UNCHANGED <<node, stream, length, nodeFiles, metaFiles>>
    BY <1>16 DEF PutPublish, At
  <2>2. th[t].key \in Keys /\ th[t].val \in Content /\ Bytes(th[t].val) \in Nat /\ node \in Node
    BY <1>0, <2>1, BytesType DEF Form, Writing, Reading, Fields, TypeOK
  <2>3. stream = node /\ stream \in metaFiles /\ Bytes(th[t].val) <= length[stream]
        /\ length[stream] \in Nat
    <3>1. stream # None /\ Bytes(th[t].val) <= length[stream] /\ stream \in Node
      BY <2>1 DEF Streams, Open, TypeOK
    <3>2. \A u \in Threads : th[u].pc # "newStore"
      BY <2>1 DEF Monitors, Holding
    <3> QED BY <3>1, <3>2 DEF Streams, TypeOK
  <2>40. PICK key \in Keys : key = th[t].key
    BY <2>2
  <2>41. PICK m : m = [node |-> node, off |-> length[stream] - Bytes(th[t].val),
                      val |-> th[t].val, zip |-> th[t].zip]
    OBVIOUS
  <2>4. fileMeta' = [fileMeta EXCEPT ![key] = m] /\ metaOf' = [metaOf EXCEPT ![node][key] = m]
    BY <1>16, <2>40, <2>41 DEF PutPublish
  <2>5. m.node = node /\ MetaEnd(m) = length[stream]
    BY <2>2, <2>3, <2>41 DEF MetaEnd
  <2>6. /\ fileMeta'[key] = m /\ metaOf'[node][key] = m
        /\ \A k \in Keys : k # key => fileMeta'[k] = fileMeta[k]
        /\ \A k \in Keys, n \in Node : k # key \/ n # node => metaOf'[n][k] = metaOf[n][k]
    BY <2>2, <2>4 DEF TypeOK
  <2>7. LiveMeta(key, m)'
    <3>1. node <= node /\ length[stream] <= length[stream]
      BY <2>2, <2>3 DEF Node
    <3> QED BY <2>1, <2>3, <2>5, <2>6, <3>1 DEF LiveMeta, MetaEnd, Bytes
  <2>8. ASSUME NEW k \in Keys, k # key, fileMeta[k] # None
        PROVE  LiveMeta(k, fileMeta[k])'
    <3>1. LiveMeta(k, fileMeta[k]) /\ fileMeta'[k] = fileMeta[k] /\ fileMeta[k].node \in Node
      BY <2>6, <2>8 DEF Live, TypeOK, Meta
    <3>2. PICK f : f = fileMeta[k]
      OBVIOUS
    <3>3. metaOf'[f.node][k] = metaOf[f.node][k]
      BY <2>6, <2>8, <3>1, <3>2
    <3>4. LiveMeta(k, f)'
      BY <2>1, <3>1, <3>2, <3>3 DEF LiveMeta, MetaEnd, Bytes
    <3> QED BY <3>1, <3>2, <3>4
  <2> QED BY <2>5, <2>6, <2>7, <2>8 DEF Live
<1>17. CASE PutSync(t)
  <2>1. UNCHANGED <<stream, length, metaFiles, metaOf, fileMeta>>
    BY <1>17 DEF PutSync
  <2>2. nodeFiles \subseteq nodeFiles'
    BY <1>17, FlushEffect DEF PutSync
  <2>4. node <= node'
    BY <1>17, <1>00 DEF PutSync, Node, TypeOK
  <2> QED BY <1>00, <2>1, <2>2, <2>4, LiveGrows
<1>18. CASE CloseNode(t)
  <2>1. FlushStream /\ UNCHANGED <<node, length, metaFiles, metaOf, fileMeta>> /\ stream' = None
    BY <1>18 DEF CloseNode
  <2>2. nodeFiles \subseteq nodeFiles'
    BY <2>1, FlushEffect
  <2>3. ASSUME NEW k \in Keys, fileMeta[k] # None PROVE fileMeta[k].node \in nodeFiles'
    <3>1. CASE fileMeta[k].node # stream
      BY <2>2, <2>3, <3>1 DEF Live, LiveMeta
    <3>2. CASE fileMeta[k].node = stream
      <4>1. fileMeta[k] \in Meta /\ stream \in Node /\ stream # None
        BY <2>3, <3>2, StoreAssumption DEF TypeOK, Meta
      <4>2. MetaEnd(fileMeta[k]) \in Nat /\ MetaEnd(fileMeta[k]) >= 1
        <5>1. fileMeta[k].off \in Nat /\ fileMeta[k].val \in Content
          BY <4>1 DEF Meta
        <5> QED BY <5>1, BytesType DEF MetaEnd
      <4>3. MetaEnd(fileMeta[k]) <= length[stream] /\ length[stream] \in Nat
        BY <2>3, <3>2, <4>1 DEF Live, LiveMeta, TypeOK
      <4>4. length[stream] > 0
        BY <4>2, <4>3
      <4> QED BY <2>1, <3>2, <4>1, <4>4, FlushEffect DEF Streams
    <3> QED BY <3>1, <3>2
  <2> QED BY <2>1, <2>3 DEF Live, LiveMeta, MetaEnd, Bytes
<1>19. CASE OpenNode(t)
  <2>1. th[t].pc = "open" /\ UNCHANGED <<node, length, nodeFiles, metaOf, fileMeta>>
        /\ metaFiles \subseteq metaFiles'
    BY <1>19 DEF OpenNode, At
  <2>2. stream = None
    BY <2>1 DEF Streams
  <2>3. \A k \in Keys : fileMeta[k] # None => fileMeta[k].node # None
    BY StoreAssumption DEF TypeOK, Meta
  <2> QED BY <2>1, <2>2, <2>3 DEF Live, LiveMeta, MetaEnd, Bytes
<1>20. CASE Unlock(t)
  BY <1>20, LiveStay DEF Unlock
<1>21. CASE PutClosed(t)
  BY <1>21, LiveStay DEF PutClosed
<1>22. CASE Remove(t)
  <2>1. th[t].key \in Keys /\ fileMeta' = [fileMeta EXCEPT ![th[t].key] = None] /\ UNCHANGED storage
    BY <1>22, <1>0 DEF Remove, Form, At, Fields
  <2>2. \A k \in Keys : fileMeta'[k] = None \/ fileMeta'[k] = fileMeta[k]
    BY <2>1 DEF TypeOK
  <2> QED BY <2>1, <2>2 DEF Live, LiveMeta, storage, MetaEnd, Bytes
<1>23. CASE Flush(t)
  <2>1. FlushStream /\ UNCHANGED <<node, stream, length, metaFiles, metaOf, fileMeta>>
    BY <1>23 DEF Flush
  <2>2. nodeFiles \subseteq nodeFiles'
    BY <2>1, FlushEffect
  <2>3. node <= node'
    BY <2>1, <1>00 DEF Node
  <2> QED BY <1>00, <2>1, <2>2, <2>3, LiveGrows
<1>24. CASE SetWriteSyn(t)
  BY <1>24, LiveStay DEF SetWriteSyn
<1>25. CASE Close(t)
  BY <1>25, LiveStay DEF Close
<1>26. CASE PackStart(t)
  <2>1. UNCHANGED <<stream, length, metaFiles, nodeFiles, metaOf, fileMeta>> /\ node' = node + 1
    BY <1>26 DEF PackStart
  <2>4. node <= node'
    BY <2>1, <1>00 DEF Node, TypeOK
  <2> QED BY <1>00, <2>1, <2>4, LiveGrows
<1>27. CASE PackReadMeta(t)
  BY <1>27, LiveStay DEF PackReadMeta
<1>28. CASE PackDeleteMeta(t)
  <2>1. th[t].pc = "entry" /\ UNCHANGED <<node, stream, length, nodeFiles, metaOf, fileMeta>>
        /\ th[t].todo = {} /\ metaFiles' = metaFiles \ {th[t].file}
    BY <1>28 DEF PackDeleteMeta, At
  <2>2. \A k \in Keys : fileMeta[k] # None => fileMeta[k].node # th[t].file
    BY <2>1
  <2> QED BY <2>1, <2>2 DEF Live, LiveMeta, MetaEnd, Bytes
<1>29. CASE PackDeleteNode(t)
  <2>1. th[t].pc = "delNode" /\ UNCHANGED <<node, stream, length, metaFiles, metaOf, fileMeta>>
        /\ nodeFiles' = nodeFiles \ {th[t].file}
    BY <1>29 DEF PackDeleteNode, At
  <2>2. \A k \in Keys : fileMeta[k] # None => fileMeta[k].node # th[t].file
    BY <2>1
  <2> QED BY <2>1, <2>2 DEF Live, LiveMeta, MetaEnd, Bytes
<1> QED BY <1>1, <1>2, <1>3, <1>4, <1>5, <1>6, <1>7, <1>8, <1>9, <1>10, <1>11, <1>12, <1>13, <1>14,
           <1>15, <1>16, <1>17, <1>18, <1>19, <1>20, <1>21, <1>22, <1>23, <1>24, <1>25, <1>26,
           <1>27, <1>28, <1>29 DEF Step


-----------------------------------------------------------------------------
(* Where a pack is. *)

(* A pack is at its newStore. *)
Begins(t) == th[t].next = "readMeta" /\ th[t].pc \in {"newStore", "open"}

(* It is between the first look at a file and the end of it. *)
AtFile(t) == \/ th[t].pc \in {"entry", "delNode"} \union Reading
             \/ th[t].next = "entry" /\ th[t].pc # "readMeta"

(* The keys it has not copied yet of the file it is at. *)
Undone(t) ==
    IF th[t].pc = "delNode" THEN {}
    ELSE th[t].todo \union (IF th[t].pc \in Reading \union Writing THEN {th[t].key} ELSE {})

(* Where a pack is: it reads only files before the stream, has every live    *)
(* key of the file it is at still before it, and copies an entry of that     *)
(* file.                                                                     *)
PackOf(t) == th[t].op = "pack" =>
    /\ \A n \in th[t].list : n < node
    /\ ~Begins(t) /\ stream # None => \A n \in th[t].list : n < stream
    /\ AtFile(t) =>
          /\ th[t].file \in Node /\ th[t].file < node
          /\ stream # None => th[t].file < stream
          /\ \A k \in Keys : fileMeta[k] # None /\ fileMeta[k].node = th[t].file
                               => k \in Undone(t)
          /\ th[t].pc # "delNode" => \A k \in th[t].todo : metaOf[th[t].file][k] # None
    /\ th[t].pc \in Reading \union Writing =>
          th[t].meta \in Meta /\ th[t].meta.node = th[t].file

(* Every pack is in order. *)
Packs == \A t \in Threads : PackOf(t)

(* What other threads do to the storage does not disturb a pack. *)
LEMMA PackSurvives ==
    ASSUME TypeOK, TypeOK', NEW u \in Threads, PackOf(u), th'[u] = th[u], node <= node',
           stream' \in {stream, None} \/ (stream' = node /\ stream = None /\ ~Begins(u)) ,
           \A n \in Node, k \in Keys : n < node => metaOf'[n][k] = metaOf[n][k],
           \A k \in Keys : fileMeta'[k] \in {fileMeta[k], None} \/ fileMeta'[k].node = node
    PROVE  PackOf(u)'
<1>1. SUFFICES ASSUME th[u].op = "pack" PROVE PackOf(u)'
  BY DEF PackOf
<1>2. Fields(u) /\ node \in Nat /\ node' \in Nat
  BY FieldTypes DEF TypeOK, Typed, Node
<1>3. /\ Begins(u)' = Begins(u) /\ AtFile(u)' = AtFile(u) /\ Undone(u)' = Undone(u)
  BY DEF Begins, AtFile, Undone
<1>4. \A n \in th[u].list : n < node'
  <2>1. \A n \in th[u].list : n \in Nat /\ n < node
    BY <1>1, <1>2 DEF PackOf, Fields, Node
  <2> QED BY <1>2, <2>1
<1>5. ~Begins(u) /\ stream' # None => \A n \in th[u].list : n < stream'
  BY <1>1 DEF PackOf
<1>6. ASSUME AtFile(u)
      PROVE  /\ th[u].file \in Node /\ th[u].file < node'
             /\ stream' # None => th[u].file < stream'
             /\ \A k \in Keys : fileMeta'[k] # None /\ fileMeta'[k].node = th[u].file
                                 => k \in Undone(u)
             /\ th[u].pc # "delNode" => \A k \in th[u].todo : metaOf'[th[u].file][k] # None
  <2>1. /\ th[u].file \in Node /\ th[u].file < node /\ th[u].file \in Nat
        /\ stream # None => th[u].file < stream
        /\ \A k \in Keys : fileMeta[k] # None /\ fileMeta[k].node = th[u].file => k \in Undone(u)
        /\ th[u].pc # "delNode" => \A k \in th[u].todo : metaOf[th[u].file][k] # None
    BY <1>1, <1>6 DEF PackOf, Node
  <2>2. th[u].file < node' /\ th[u].file # node
    BY <1>2, <2>1
  <2>3. stream' # None => th[u].file < stream'
    BY <2>1
  <2>4. ASSUME NEW k \in Keys, fileMeta'[k] # None, fileMeta'[k].node = th[u].file
        PROVE  k \in Undone(u)
    BY <2>1, <2>2, <2>4
  <2>5. \A k \in th[u].todo : k \in Keys
    BY <1>2 DEF Fields
  <2> QED BY <2>1, <2>2, <2>3, <2>4, <2>5
<1>7. th[u].pc \in Reading \union Writing => th[u].meta \in Meta /\ th[u].meta.node = th[u].file
  BY <1>1 DEF PackOf
<1> QED BY <1>3, <1>4, <1>5, <1>6, <1>7 DEF PackOf

(* A pack goes on between looking up an entry and copying it. *)
LEMMA PackMoves ==
    ASSUME NEW t \in Threads, Form(t), PackOf(t), UNCHANGED <<node, stream, metaOf, fileMeta>>,
           th'[t].op = th[t].op, th'[t].key = th[t].key, th'[t].meta = th[t].meta,
           th'[t].list = th[t].list, th'[t].file = th[t].file, th'[t].todo = th[t].todo,
           th[t].pc \in Reading \union Writing, th'[t].pc \in Reading \union Writing
    PROVE  PackOf(t)'
<1>1. SUFFICES ASSUME th[t].op = "pack" PROVE PackOf(t)'
  BY DEF PackOf
<1>2. AtFile(t) /\ ~Begins(t)
  BY <1>1 DEF Form, AtFile, Begins, Reading, Writing
<1>3. Undone(t)' = Undone(t) /\ ~Begins(t)' /\ th[t].pc # "delNode" /\ th'[t].pc # "delNode"
  BY DEF Undone, Begins, Reading, Writing
<1> QED BY <1>1, <1>2, <1>3 DEF PackOf

(* A step of the thread that packs. *)
LEMMA PackStep ==
    ASSUME TypeOK, TypeOK', Monitors, Streams, Live, NEW t \in Threads, Form(t), PackOf(t),
           UNCHANGED use, Step(t)
    PROVE  PackOf(t)'
<1>0. Typed /\ Fields(t) /\ node \in Nat /\ node' \in Nat
  BY FieldTypes DEF TypeOK, Typed, Node
<1> USE DEF Reading, Writing
<1>1. ASSUME NEW k \in Keys, GetStart(t, k) PROVE PackOf(t)'
  BY <1>1, GetStartEffect DEF PackOf, Rests
<1>2. ASSUME NEW k \in Keys, RemoveStart(t, k) PROVE PackOf(t)'
  BY <1>2, RemoveStartEffect DEF PackOf, Rests
<1>3. ASSUME NEW k \in Keys, PackEntry(t, k) PROVE PackOf(t)'
  <2>1. /\ th[t].pc = "entry" /\ k \in th[t].todo
        /\ UNCHANGED <<node, stream, metaOf, fileMeta>>
    BY <1>3 DEF PackEntry, At, storage
  <2>2. th[t].op = "pack" /\ AtFile(t) /\ th[t].file \in Node
    BY <1>0, <2>1 DEF Form, Fields, AtFile, PackOf
  <2>3. PICK m : m = metaOf[th[t].file][k]
    OBVIOUS
  <2>4. /\ th'[t].pc = (IF fileMeta[k] = m THEN "blocks" ELSE "entry")
        /\ th'[t].key = k /\ th'[t].meta = m
        /\ th'[t].todo = th[t].todo \ {k} /\ th'[t].list = th[t].list
        /\ th'[t].op = th[t].op /\ th'[t].next = th[t].next /\ th'[t].file = th[t].file
    BY <1>3, <2>2, <2>3, PackEntryEffect
  <2>5. m # None /\ m \in Meta /\ m.node = th[t].file
    <3>1. m # None
      BY <2>1, <2>2, <2>3 DEF PackOf
    <3> QED BY <2>2, <2>3, <3>1 DEF Live, TypeOK
  <2>6. ~Begins(t) /\ ~Begins(t)'
    BY <2>1, <2>4 DEF Begins
  <2>7. Undone(t) = th[t].todo
    BY <2>1 DEF Undone
  <2>8. Undone(t)' = IF fileMeta[k] = m THEN (th[t].todo \ {k}) \union {k} ELSE th[t].todo \ {k}
    BY <2>4 DEF Undone
  <2>9. fileMeta[k] # None /\ fileMeta[k].node = th[t].file => fileMeta[k] = m
    BY <2>3 DEF Live, LiveMeta
  <2>10. \A i \in Keys : fileMeta[i] # None /\ fileMeta[i].node = th[t].file => i \in Undone(t)'
    BY <2>2, <2>7, <2>8, <2>9 DEF PackOf
  <2> QED BY <2>1, <2>2, <2>4, <2>5, <2>6, <2>10 DEF PackOf
<1>4. ASSUME NEW k \in Keys, NEW v \in use.values, PutStart(t, k, v) PROVE PackOf(t)'
  BY <1>4, PutStartEffect DEF PackOf, Rests
<1>5. CASE LookInCache(t)
  <2>1. CASE th[t].op = "pack"
    <3>1. th[t].pc = "blocks" /\ th[t].key \in Keys /\ th[t].meta \in Meta
          /\ UNCHANGED <<node, stream, metaOf, fileMeta>>
      BY <1>0, <1>5 DEF LookInCache, At, Form, Fields, storage
    <3>2. Gets(t, cache[th[t].key]) \/ (Keeps(t) /\ th'[t].pc \in {"read", "isCurrent"})
      BY <1>5, <3>1, LookInCacheEffect
    <3>3. CASE Gets(t, cache[th[t].key])
      BY <2>1, <3>1, <3>3, PackMoves DEF Gets
    <3>4. CASE Keeps(t) /\ th'[t].pc \in {"read", "isCurrent"}
      BY <3>1, <3>4, PackMoves DEF Keeps
    <3> QED BY <3>2, <3>3, <3>4
  <2>2. CASE th[t].op # "pack"
    <3>1. th[t].pc = "blocks" /\ th[t].key \in Keys /\ th[t].meta \in Meta
      BY <1>0, <1>5 DEF LookInCache, At, Form, Fields
    <3> QED BY <1>5, <2>2, <3>1, LookInCacheEffect DEF Gets, Keeps, PackOf
  <2> QED BY <2>1, <2>2
<1>6. CASE IsCurrentNode(t)
  <2>1. /\ Keeps(t) /\ th[t].pc = "isCurrent" /\ th'[t].pc \in {"needsFlush", "read"}
        /\ UNCHANGED <<node, stream, metaOf, fileMeta>>
    BY <1>0, <1>6, GotoEffect DEF IsCurrentNode, At, Pcs, storage
  <2> QED BY <2>1, PackMoves DEF Keeps
<1>7. CASE NeedsFlush(t)
  <2>0. /\ th[t].pc = "needsFlush" /\ UNCHANGED <<node, stream, metaOf, fileMeta>>
        /\ Throw(t) \/ Goto(t, "flush") \/ Goto(t, "read")
    BY <1>7 DEF NeedsFlush, At, storage
  <2>1. CASE Throw(t)
    BY <1>0, <2>0, <2>1, ThrowEffect DEF Leaves, Rests, PackOf, Form
  <2>2. CASE Goto(t, "flush") \/ Goto(t, "read")
    <3>1. Keeps(t) /\ th'[t].pc \in {"flush", "read"}
      BY <1>0, <2>2, GotoEffect DEF Pcs
    <3> QED BY <2>0, <3>1, PackMoves DEF Keeps
  <2> QED BY <2>0, <2>1, <2>2
<1>8. CASE GetFlushes(t)
  <2>1. /\ Keeps(t) /\ th[t].pc = "flush" /\ th'[t].pc \in {"read"}
        /\ UNCHANGED <<node, stream, metaOf, fileMeta>>
    BY <1>0, <1>8, GotoEffect DEF GetFlushes, At, Pcs
  <2> QED BY <2>1, PackMoves DEF Keeps
<1>9. CASE FlushTooLate(t)
  <2>0. th[t].pc = "flush" /\ Throw(t)
    BY <1>9 DEF FlushTooLate, At
  <2> QED BY <1>0, <2>0, ThrowEffect DEF Leaves, Rests, PackOf, Form
<1>10. CASE ReadFile(t)
  <2>0. th[t].pc = "read" /\ th[t].meta \in Meta
    BY <1>0, <1>10 DEF ReadFile, At, Form
  <2>1. CASE th[t].op = "pack"
    <3>1. UNCHANGED <<node, stream, metaOf, fileMeta>>
      BY <1>10 DEF ReadFile, storage
    <3>2. Gets(t, Found(th[t].meta)) \/ Leaves(t)
      BY <1>10, <2>0, ReadFileEffect
    <3>3. CASE Gets(t, Found(th[t].meta))
      BY <2>0, <2>1, <3>1, <3>3, PackMoves DEF Gets
    <3>4. CASE Leaves(t)
      BY <2>1, <3>4 DEF Leaves, Rests, PackOf
    <3> QED BY <3>2, <3>3, <3>4
  <2>2. CASE th[t].op # "pack"
    BY <1>10, <2>0, <2>2, ReadFileEffect DEF Gets, Leaves, Rests, PackOf
  <2> QED BY <2>1, <2>2
<1>11. CASE GetReturns(t)
  BY <1>0, <1>11, FinishEffect DEF GetReturns, PackOf, Rests
<1>12. CASE PutCache(t)
  <2>1. /\ Keeps(t) /\ th[t].pc = "lock" /\ th'[t].pc \in {"reserve"}
        /\ UNCHANGED <<node, stream, metaOf, fileMeta>>
    BY <1>0, <1>12, GotoEffect DEF PutCache, At, Pcs, storage
  <2> QED BY <2>1, PackMoves DEF Keeps
<1>13. CASE PutReserve(t)
  <2>1. /\ Keeps(t) /\ th[t].pc = "reserve" /\ th'[t].pc \in {"store"}
        /\ UNCHANGED <<node, stream, metaOf, fileMeta>>
    BY <1>0, <1>13, GotoEffect DEF PutReserve, At, Pcs
  <2> QED BY <2>1, PackMoves DEF Keeps
<1>14. CASE PutRefused(t)
  BY <1>0, <1>14, FinishEffect DEF PutRefused, PackOf, Rests
<1>15. CASE PutStore(t)
  <2>1. /\ Keeps(t) /\ th[t].pc = "store" /\ th'[t].pc \in {"publish"}
        /\ UNCHANGED <<node, stream, metaOf, fileMeta>>
    BY <1>0, <1>15, GotoEffect DEF PutStore, At, Pcs
  <2> QED BY <2>1, PackMoves DEF Keeps
<1>16. CASE PutPublish(t)
  <2>1. Keeps(t) /\ th[t].pc = "publish" /\ th'[t].pc = "sync"
    BY <1>0, <1>16, GotoEffect DEF PutPublish, At, Pcs
  <2>9. SUFFICES ASSUME th[t].op = "pack" PROVE PackOf(t)'
    BY <2>1 DEF PackOf, Keeps
  <2>2. PICK m : m = [node |-> node, off |-> length[stream] - Bytes(th[t].val),
                      val |-> th[t].val, zip |-> th[t].zip]
    OBVIOUS
  <2>3. /\ m.node = node /\ UNCHANGED <<node, stream>>
        /\ fileMeta' = [fileMeta EXCEPT ![th[t].key] = m]
        /\ metaOf' = [metaOf EXCEPT ![node][th[t].key] = m]
    BY <2>2, <1>16 DEF PutPublish
  <2>4. AtFile(t) /\ ~Begins(t) /\ AtFile(t)' /\ ~Begins(t)' /\ Undone(t)' = th[t].todo
        /\ Undone(t) = th[t].todo \union {th[t].key} /\ th[t].key \in Keys
    BY <2>1, <2>9 DEF Form, AtFile, Begins, Undone, Keeps
  <2>5. th[t].file \in Node /\ th[t].file < node /\ th[t].file # node
    BY <2>4, <2>9, <1>0 DEF PackOf, Node
  <2>6. /\ \A k \in Keys : fileMeta'[k] = IF k = th[t].key THEN m ELSE fileMeta[k]
        /\ \A k \in Keys : metaOf'[th[t].file][k] = metaOf[th[t].file][k]
    BY <2>3, <2>4, <2>5 DEF TypeOK
  <2>7. ASSUME NEW k \in Keys, fileMeta'[k] # None, fileMeta'[k].node = th[t].file
        PROVE  k \in th[t].todo
    BY <2>3, <2>4, <2>5, <2>6, <2>7, <2>9 DEF PackOf
  <2>8. th[t].todo \subseteq Keys
    BY <1>0 DEF Fields
  <2> QED BY <2>1, <2>3, <2>4, <2>5, <2>6, <2>7, <2>8, <2>9 DEF PackOf, Keeps
<1>17. CASE PutSync(t)
  <2>1. Keeps(t) /\ th[t].pc = "sync" /\ th'[t].pc \in {"newStore", "unlock"}
    BY <1>0, <1>17, GotoEffect DEF PutSync, At, Pcs
  <2>9. SUFFICES ASSUME th[t].op = "pack" PROVE PackOf(t)'
    BY <2>1 DEF PackOf, Keeps
  <2>2. UNCHANGED <<stream, metaOf, fileMeta>> /\ node' \in {node, node + 1}
    BY <1>17 DEF PutSync
  <2>4. AtFile(t) /\ ~Begins(t) /\ AtFile(t)' /\ ~Begins(t)' /\ Undone(t)' = Undone(t)
    BY <2>1, <2>9 DEF Form, AtFile, Begins, Undone, Keeps
  <2>5. /\ \A n \in th[t].list : n < node'
        /\ th[t].file \in Node /\ th[t].file < node'
    <3>1. \A n \in th[t].list : n \in Nat /\ n < node
      BY <1>0, <2>9 DEF PackOf, Fields, Node
    <3>2. th[t].file \in Node /\ th[t].file \in Nat /\ th[t].file < node
      BY <2>4, <2>9 DEF PackOf, Node
    <3> QED BY <1>0, <2>2, <3>1, <3>2
  <2> QED BY <2>1, <2>2, <2>4, <2>5, <2>9 DEF PackOf, Keeps
<1>18. CASE CloseNode(t)
  <2>1. Keeps(t) /\ th[t].pc = "newStore" /\ th'[t].pc = "open"
    BY <1>0, <1>18, GotoEffect DEF CloseNode, At, Pcs
  <2>9. SUFFICES ASSUME th[t].op = "pack" PROVE PackOf(t)'
    BY <2>1 DEF PackOf, Keeps
  <2>2. UNCHANGED <<node, metaOf, fileMeta>> /\ stream' = None
    BY <1>18 DEF CloseNode
  <2>4. AtFile(t)' = AtFile(t) /\ Undone(t)' = Undone(t)
    BY <2>1, <2>9 DEF AtFile, Undone, Keeps
  <2> QED BY <2>1, <2>2, <2>4, <2>9 DEF PackOf, Keeps
<1>19. CASE OpenNode(t)
  <2>1. Keeps(t) /\ th[t].pc = "open" /\ th'[t].pc = "unlock"
    BY <1>0, <1>19, GotoEffect DEF OpenNode, At, Pcs
  <2>9. SUFFICES ASSUME th[t].op = "pack" PROVE PackOf(t)'
    BY <2>1 DEF PackOf, Keeps
  <2>2. UNCHANGED <<node, metaOf, fileMeta>> /\ stream' = node
    BY <1>19, <2>9 DEF OpenNode
  <2>4. AtFile(t)' = AtFile(t) /\ Undone(t)' = Undone(t)
    BY <2>1, <2>9 DEF AtFile, Undone, Keeps
  <2> QED BY <2>1, <2>2, <2>4, <2>9 DEF PackOf, Keeps
<1>20. CASE Unlock(t)
  <2>0. /\ th[t].pc = "unlock" /\ UNCHANGED <<node, stream, metaOf, fileMeta>>
        /\ IF th[t].next = "idle" THEN Finish(t) ELSE Goto(t, th[t].next)
    BY <1>20 DEF Unlock, At, storage
  <2>1. CASE th[t].next = "idle"
    BY <1>0, <2>0, <2>1, FinishEffect DEF Rests, PackOf
  <2>2. CASE th[t].next # "idle"
    <3>1. Keeps(t) /\ th'[t].pc = th[t].next /\ th[t].next \in {"readMeta", "entry"}
      BY <1>0, <2>0, <2>2, GotoEffect DEF Fields, Pcs
    <3>2. SUFFICES ASSUME th[t].op = "pack" PROVE PackOf(t)'
      BY <3>1 DEF PackOf, Keeps
    <3>3. ~Begins(t) /\ (AtFile(t)' => AtFile(t)) /\ Undone(t)' = Undone(t)
      BY <2>0, <3>1 DEF Begins, AtFile, Undone, Keeps
    <3>4. th'[t].pc # "delNode" /\ th[t].pc # "delNode" /\ th'[t].pc \notin Reading \union Writing
      BY <2>0, <3>1
    <3> QED BY <2>0, <3>1, <3>2, <3>3, <3>4 DEF PackOf, Keeps
  <2> QED BY <2>1, <2>2
<1>21. CASE PutClosed(t)
  BY <1>0, <1>21, FinishEffect DEF PutClosed, PackOf, Rests
<1>22. CASE Remove(t)
  BY <1>0, <1>22, FinishEffect DEF Remove, PackOf, Rests
<1>23. CASE Flush(t)
  BY <1>23, BriefEffect DEF PackOf, Rests
<1>24. CASE SetWriteSyn(t)
  BY <1>24, BriefEffect DEF PackOf, Rests
<1>25. CASE Close(t)
  BY <1>25, CloseEffect DEF PackOf, Rests
<1>26. CASE PackStart(t)
  <2>1. /\ th'[t].pc = "newStore" /\ th'[t].op = "pack" /\ th'[t].next = "readMeta"
        /\ th'[t].list = metaFiles /\ node' = node + 1 /\ UNCHANGED <<stream, metaOf, fileMeta>>
    BY <1>26, PackStartEffect DEF PackStart
  <2>2. Begins(t)' /\ ~AtFile(t)'
    BY <2>1 DEF Begins, AtFile
  <2>3. \A n \in metaFiles : n < node'
    <3>1. \A n \in metaFiles : n \in Nat /\ n <= node
      BY DEF Streams, TypeOK, Node
    <3> QED BY <1>0, <2>1, <3>1
  <2> QED BY <2>1, <2>2, <2>3 DEF PackOf
<1>27. CASE PackReadMeta(t)
  <2>1. CASE Rests(t)
    BY <2>1 DEF Rests, PackOf
  <2>2. CASE ~Rests(t)
    <3>1. PICK n : n = th'[t].file
      OBVIOUS
    <3>2. /\ th[t].pc = "readMeta" /\ n \in th[t].list /\ n \in Node
          /\ th'[t].pc = IF n \in metaFiles THEN "entry" ELSE "delNode"
          /\ th'[t].list = th[t].list \ {n}
          /\ th'[t].todo = {k \in Keys : metaOf[n][k] # None}
          /\ th'[t].op = th[t].op /\ th'[t].next = th[t].next
          /\ UNCHANGED <<node, stream, metaOf, fileMeta, metaFiles>>
      <4>1. UNCHANGED <<node, stream, metaOf, fileMeta, metaFiles>>
        BY <1>27 DEF PackReadMeta, storage
      <4> QED BY <2>2, <3>1, <4>1, <1>27, PackReadMetaEffect
    <3>3. SUFFICES ASSUME th[t].op = "pack" PROVE PackOf(t)'
      BY <3>2 DEF PackOf
    <3>4. ~Begins(t) /\ ~Begins(t)' /\ th'[t].pc \notin Reading \union Writing
      BY <3>2 DEF Begins
    <3>5. Undone(t)' = IF n \in metaFiles THEN th'[t].todo ELSE {}
      BY <3>2 DEF Undone
    <3>6. ASSUME NEW k \in Keys, fileMeta[k] # None, fileMeta[k].node = n
          PROVE  n \in metaFiles /\ metaOf[n][k] # None
      BY <3>6 DEF Live, LiveMeta
    <3>7. \A k \in Keys : fileMeta[k] # None /\ fileMeta[k].node = n => k \in Undone(t)'
      BY <3>2, <3>5, <3>6
    <3>8. n < node /\ (stream # None => n < stream)
      BY <3>2, <3>3, <3>4 DEF PackOf
    <3>9. /\ \A i \in th'[t].list : i < node
          /\ stream # None => \A i \in th'[t].list : i < stream
      BY <3>2, <3>3, <3>4 DEF PackOf
    <3> QED BY <3>1, <3>2, <3>4, <3>7, <3>8, <3>9 DEF PackOf
  <2> QED BY <2>1, <2>2
<1>28. CASE PackDeleteMeta(t)
  <2>1. /\ Keeps(t) /\ th[t].pc = "entry" /\ th'[t].pc = "delNode" /\ th[t].todo = {}
        /\ UNCHANGED <<node, stream, metaOf, fileMeta>>
    BY <1>0, <1>28, GotoEffect DEF PackDeleteMeta, At, Pcs
  <2>2. AtFile(t) /\ ~Begins(t) /\ ~Begins(t)' /\ Undone(t) = {} /\ Undone(t)' = {}
    BY <2>1 DEF AtFile, Begins, Undone
  <2> QED BY <2>1, <2>2 DEF PackOf, Keeps
<1>29. CASE PackDeleteNode(t)
  <2>1. /\ Keeps(t) /\ th[t].pc = "delNode" /\ th'[t].pc = "readMeta"
        /\ UNCHANGED <<node, stream, metaOf, fileMeta>>
    BY <1>0, <1>29, GotoEffect DEF PackDeleteNode, At, Pcs
  <2>2. ~AtFile(t)' /\ ~Begins(t)
    BY <2>1 DEF AtFile, Begins
  <2> QED BY <2>1, <2>2 DEF PackOf, Keeps
<1> QED BY <1>1, <1>2, <1>3, <1>4, <1>5, <1>6, <1>7, <1>8, <1>9, <1>10, <1>11, <1>12, <1>13, <1>14,
           <1>15, <1>16, <1>17, <1>18, <1>19, <1>20, <1>21, <1>22, <1>23, <1>24, <1>25, <1>26,
           <1>27, <1>28, <1>29 DEF Step

(* What a step of one thread may do to the storage another thread packs. *)
Tame(u) ==
    /\ node <= node'
    /\ stream' \in {stream, None} \/ (stream' = node /\ stream = None /\ ~Begins(u))
    /\ \A n \in Node, k \in Keys : n < node => metaOf'[n][k] = metaOf[n][k]
    /\ \A k \in Keys : fileMeta'[k] \in {fileMeta[k], None} \/ fileMeta'[k].node = node

(* A step of another thread is tame for a pack: it appends to the last node  *)
(* only.                                                                     *)
LEMMA StepIsTame ==
    ASSUME TypeOK, TypeOK', Monitors, Streams, NEW t \in Threads, Form(t), UNCHANGED use, Step(t),
           NEW u \in Threads, u # t
    PROVE  Tame(u)
<1>0. Fields(t) /\ node <= node /\ node \in Nat
  BY FieldTypes DEF TypeOK, Typed, Node
<1>1. ASSUME NEW k \in Keys, GetStart(t, k) PROVE Tame(u)
  BY <1>0, <1>1 DEF GetStart, storage, Tame
<1>2. ASSUME NEW k \in Keys, RemoveStart(t, k) PROVE Tame(u)
  BY <1>0, <1>2 DEF RemoveStart, storage, Tame
<1>3. ASSUME NEW k \in Keys, PackEntry(t, k) PROVE Tame(u)
  BY <1>0, <1>3 DEF PackEntry, storage, Tame
<1>4. ASSUME NEW k \in Keys, NEW v \in use.values, PutStart(t, k, v) PROVE Tame(u)
  BY <1>0, <1>4 DEF PutStart, storage, Tame
<1>5. CASE LookInCache(t)
  BY <1>0, <1>5 DEF LookInCache, storage, Tame
<1>6. CASE IsCurrentNode(t)
  BY <1>0, <1>6 DEF IsCurrentNode, storage, Tame
<1>7. CASE NeedsFlush(t)
  BY <1>0, <1>7 DEF NeedsFlush, storage, Tame
<1>8. CASE GetFlushes(t)
  BY <1>0, <1>8 DEF GetFlushes, Tame
<1>9. CASE FlushTooLate(t)
  BY <1>0, <1>9 DEF FlushTooLate, storage, Tame
<1>10. CASE ReadFile(t)
  BY <1>0, <1>10 DEF ReadFile, storage, Tame
<1>11. CASE GetReturns(t)
  BY <1>0, <1>11 DEF GetReturns, storage, Tame
<1>12. CASE PutCache(t)
  BY <1>0, <1>12 DEF PutCache, storage, Tame
<1>13. CASE PutReserve(t)
  BY <1>0, <1>13 DEF PutReserve, Tame
<1>14. CASE PutRefused(t)
  BY <1>0, <1>14 DEF PutRefused, storage, Tame
<1>15. CASE PutStore(t)
  BY <1>0, <1>15 DEF PutStore, Tame
<1>16. CASE PutPublish(t)
  <2>0. th[t].pc = "publish" /\ th[t].key \in Keys
    BY <1>0, <1>16 DEF PutPublish, At, Form, Fields
  <2>1. PICK m : m = [node |-> node, off |-> length[stream] - Bytes(th[t].val),
                      val |-> th[t].val, zip |-> th[t].zip]
    OBVIOUS
  <2>2. /\ m.node = node /\ UNCHANGED <<node, stream>>
        /\ fileMeta' = [fileMeta EXCEPT ![th[t].key] = m]
        /\ metaOf' = [metaOf EXCEPT ![node][th[t].key] = m]
    BY <2>1, <1>16 DEF PutPublish
  <2>3. \A n \in Node, k \in Keys : n < node => metaOf'[n][k] = metaOf[n][k]
    BY <1>0, <2>2 DEF TypeOK
  <2>4. \A k \in Keys : fileMeta'[k] = fileMeta[k] \/ fileMeta'[k] = m
    BY <2>0, <2>2 DEF TypeOK
  <2> QED BY <1>0, <2>2, <2>3, <2>4 DEF Tame
<1>17. CASE PutSync(t)
  <2>1. node' \in {node, node + 1} /\ UNCHANGED <<stream, metaOf, fileMeta>>
    BY <1>17 DEF PutSync, PackStart
  <2> QED BY <1>0, <2>1 DEF Tame
<1>18. CASE CloseNode(t)
  BY <1>0, <1>18 DEF CloseNode, Tame
<1>19. CASE OpenNode(t)
  <2>1. th[t].pc = "open" /\ stream' \in {stream, node} /\ UNCHANGED <<node, metaOf, fileMeta>>
    BY <1>19 DEF OpenNode, At
  <2>2. stream = None /\ ~Begins(u)
    BY <2>1 DEF Streams, Monitors, Holding, Begins
  <2> QED BY <1>0, <2>1, <2>2 DEF Tame
<1>20. CASE Unlock(t)
  BY <1>0, <1>20 DEF Unlock, storage, Tame
<1>21. CASE PutClosed(t)
  BY <1>0, <1>21 DEF PutClosed, storage, Tame
<1>22. CASE Remove(t)
  <2>1. UNCHANGED <<node, stream, metaOf>> /\ fileMeta' = [fileMeta EXCEPT ![th[t].key] = None]
    BY <1>22 DEF Remove, storage
  <2>2. \A k \in Keys : fileMeta'[k] \in {fileMeta[k], None}
    BY <2>1 DEF TypeOK
  <2> QED BY <1>0, <2>1, <2>2 DEF Tame
<1>23. CASE Flush(t)
  BY <1>0, <1>23 DEF Flush, Tame
<1>24. CASE SetWriteSyn(t)
  BY <1>0, <1>24 DEF SetWriteSyn, storage, Tame
<1>25. CASE Close(t)
  BY <1>0, <1>25 DEF Close, storage, Tame
<1>26. CASE PackStart(t)
  <2>1. node' \in {node, node + 1} /\ UNCHANGED <<stream, metaOf, fileMeta>>
    BY <1>26 DEF PutSync, PackStart
  <2> QED BY <1>0, <2>1 DEF Tame
<1>27. CASE PackReadMeta(t)
  BY <1>0, <1>27 DEF PackReadMeta, storage, Tame
<1>28. CASE PackDeleteMeta(t)
  BY <1>0, <1>28 DEF PackDeleteMeta, Tame
<1>29. CASE PackDeleteNode(t)
  BY <1>0, <1>29 DEF PackDeleteNode, Tame
<1> QED BY <1>1, <1>2, <1>3, <1>4, <1>5, <1>6, <1>7, <1>8, <1>9, <1>10, <1>11, <1>12, <1>13, <1>14,
           <1>15, <1>16, <1>17, <1>18, <1>19, <1>20, <1>21, <1>22, <1>23, <1>24, <1>25, <1>26,
           <1>27, <1>28, <1>29 DEF Step

(* Every step keeps every pack in order. *)
LEMMA PacksStep ==
    ASSUME TypeOK, TypeOK', Monitors, Streams, Live, Packs, NEW t \in Threads, Form(t),
           UNCHANGED use, Step(t), Others(t)
    PROVE  Packs'
<1>1. PackOf(t)'
  BY PackStep DEF Packs
<1>2. ASSUME NEW u \in Threads, u # t PROVE PackOf(u)'
  BY <1>2, StepIsTame, PackSurvives DEF Packs, Others, Tame
<1> QED BY <1>1, <1>2 DEF Packs


-----------------------------------------------------------------------------
(* The index tells what the keys have. *)

(* What a key has and what its meta tells. *)
Agree(k) ==
    /\ current[k] = IF fileMeta[k] = None THEN None ELSE fileMeta[k].val
    /\ fileMeta[k] # None => /\ fileMeta[k].val \in use.values
                             /\ fileMeta[k].zip = Zipped[fileMeta[k].val]

(* A pack that nobody disturbs copies what the key has. *)
KeptOf(t) == th[t].op = "pack" =>
    /\ th[t].pc \in Reading \union Writing => fileMeta[th[t].key] = th[t].meta
    /\ th[t].pc \in Writing => th[t].val = th[t].meta.val /\ th[t].zip = th[t].meta.zip
    /\ ~Begins(t) => \A k \in Keys : cache[k] # None =>
                         fileMeta[k] # None /\ cache[k] = fileMeta[k].val

(* With no other writer beside a pack, the index tells what every key has. *)
Kept == PackAlone => (\A k \in Keys : Agree(k)) /\ (\A t \in Threads : KeptOf(t))

(* What the threads beside a pack do to the cache and to fileMeta. *)
Harmless ==
    /\ fileMeta' = fileMeta
    /\ \A k \in Keys : cache'[k] \in {cache[k], None}

(* A flush, a failed write and a step that leaves the cache alone only drop  *)
(* from it.                                                                  *)
LEMMA FlushHarmless ==
    ASSUME FlushStream \/ UNCHANGED cache \/ cache' = EmptyCache
    PROVE  \A k \in Keys : cache'[k] \in {cache[k], None}
BY DEF FlushStream, EmptyCache

(* With no other writer, a step beside a pack is harmless to it. *)
LEMMA BesideIsHarmless ==
    ASSUME TypeOK, PackAlone, NEW t \in Threads, Form(t), UNCHANGED use, Step(t),
           NEW u \in Threads, u # t, Form(u), th[u].op = "pack"
    PROVE  Harmless
<1>0. Fields(t)
  BY FieldTypes DEF TypeOK, Typed
<1>00. use.calls[t] \cap {"put", "remove", "pack"} = {}
  BY DEF Form, PackAlone
<1>000. th[t].pc \notin {"lock", "publish", "remove"}
  BY <1>0, <1>00 DEF Form, Fields, Reading, Writing
<1>1. ASSUME NEW k \in Keys, GetStart(t, k) PROVE Harmless
  BY <1>000, <1>1, FlushHarmless DEF GetStart, Harmless
<1>2. ASSUME NEW k \in Keys, RemoveStart(t, k) PROVE Harmless
  BY <1>000, <1>2, FlushHarmless DEF RemoveStart, Harmless
<1>3. ASSUME NEW k \in Keys, PackEntry(t, k) PROVE Harmless
  BY <1>000, <1>3, FlushHarmless DEF PackEntry, Harmless
<1>4. ASSUME NEW k \in Keys, NEW v \in use.values, PutStart(t, k, v) PROVE Harmless
  BY <1>000, <1>4, FlushHarmless DEF PutStart, Harmless
<1>5. CASE LookInCache(t)
  BY <1>000, <1>5, FlushHarmless DEF LookInCache, Harmless
<1>6. CASE IsCurrentNode(t)
  BY <1>000, <1>6, FlushHarmless DEF IsCurrentNode, Harmless
<1>7. CASE NeedsFlush(t)
  BY <1>000, <1>7, FlushHarmless DEF NeedsFlush, Harmless
<1>8. CASE GetFlushes(t)
  BY <1>000, <1>8, FlushHarmless DEF GetFlushes, Harmless
<1>9. CASE FlushTooLate(t)
  BY <1>000, <1>9, FlushHarmless DEF FlushTooLate, Harmless
<1>10. CASE ReadFile(t)
  BY <1>000, <1>10, FlushHarmless DEF ReadFile, Harmless
<1>11. CASE GetReturns(t)
  BY <1>000, <1>11, FlushHarmless DEF GetReturns, Harmless
<1>12. CASE PutCache(t)
  BY <1>000, <1>12, FlushHarmless DEF PutCache, Harmless, At
<1>13. CASE PutReserve(t)
  BY <1>000, <1>13, FlushHarmless DEF PutReserve, Harmless
<1>14. CASE PutRefused(t)
  BY <1>000, <1>14, FlushHarmless DEF PutRefused, Harmless
<1>15. CASE PutStore(t)
  BY <1>000, <1>15, FlushHarmless DEF PutStore, Harmless
<1>16. CASE PutPublish(t)
  BY <1>000, <1>16, FlushHarmless DEF PutPublish, Harmless, At
<1>17. CASE PutSync(t)
  BY <1>000, <1>17, FlushHarmless DEF PutSync, Harmless
<1>18. CASE CloseNode(t)
  BY <1>000, <1>18, FlushHarmless DEF CloseNode, Harmless
<1>19. CASE OpenNode(t)
  BY <1>000, <1>19, FlushHarmless DEF OpenNode, Harmless
<1>20. CASE Unlock(t)
  BY <1>000, <1>20, FlushHarmless DEF Unlock, Harmless
<1>21. CASE PutClosed(t)
  BY <1>000, <1>21, FlushHarmless DEF PutClosed, Harmless
<1>22. CASE Remove(t)
  BY <1>000, <1>22, FlushHarmless DEF Remove, Harmless, At
<1>23. CASE Flush(t)
  BY <1>000, <1>23, FlushHarmless DEF Flush, Harmless
<1>24. CASE SetWriteSyn(t)
  BY <1>000, <1>24, FlushHarmless DEF SetWriteSyn, Harmless
<1>25. CASE Close(t)
  BY <1>000, <1>25, FlushHarmless DEF Close, Harmless
<1>26. CASE PackStart(t)
  BY <1>000, <1>26, FlushHarmless DEF PackStart, Harmless
<1>27. CASE PackReadMeta(t)
  BY <1>000, <1>27, FlushHarmless DEF PackReadMeta, Harmless
<1>28. CASE PackDeleteMeta(t)
  BY <1>000, <1>28, FlushHarmless DEF PackDeleteMeta, Harmless
<1>29. CASE PackDeleteNode(t)
  BY <1>000, <1>29, FlushHarmless DEF PackDeleteNode, Harmless
<1> QED BY <1>1, <1>2, <1>3, <1>4, <1>5, <1>6, <1>7, <1>8, <1>9, <1>10, <1>11, <1>12, <1>13, <1>14,
           <1>15, <1>16, <1>17, <1>18, <1>19, <1>20, <1>21, <1>22, <1>23, <1>24, <1>25, <1>26,
           <1>27, <1>28, <1>29 DEF Step

(* A meta is not the absence of one. *)
LEMMA MetaNotNone ==
    ASSUME TypeOK, NEW m, m \in Meta PROVE m # None
BY NoneAssumption

(* What putData makes is a meta of its node. *)
LEMMA PublishedMeta ==
    ASSUME TypeOK, Streams, NEW t \in Threads, Form(t), PutPublish(t)
    PROVE  [node |-> node, off |-> length[stream] - Bytes(th[t].val),
            val |-> th[t].val, zip |-> th[t].zip] \in Meta
<1>1. th[t].pc = "publish" /\ Fields(t)
  BY FieldTypes DEF PutPublish, At, TypeOK, Typed
<1>2. /\ th[t].val \in Content /\ th[t].zip \in BOOLEAN /\ stream \in Node
      /\ Bytes(th[t].val) <= length[stream]
  BY <1>1 DEF Form, Writing, Fields, Streams, Open, TypeOK
<1>3. length[stream] - Bytes(th[t].val) \in Nat
  BY <1>2, BytesType DEF TypeOK
<1> QED BY <1>2, <1>3 DEF Meta, TypeOK

(* The pack itself goes on, and keeps cache and fileMeta. *)
LEMMA KeptMoves ==
    ASSUME NEW t \in Threads, Form(t), KeptOf(t), Harmless,
           th'[t].op = th[t].op, th'[t].key = th[t].key, th'[t].meta = th[t].meta,
           th'[t].val = th[t].val, th'[t].zip = th[t].zip,
           Begins(t) => Begins(t)',
           th'[t].pc \in Reading => th[t].pc \in Reading \union Writing,
           th'[t].pc \in Writing => th[t].pc \in Writing
    PROVE  KeptOf(t)'
<1>1. SUFFICES ASSUME th[t].op = "pack" PROVE KeptOf(t)'
  BY DEF KeptOf
<1>2. \A k \in Keys : /\ fileMeta'[k] = fileMeta[k]
                      /\ cache'[k] # None => cache[k] # None /\ cache'[k] = cache[k]
  BY DEF Harmless
<1>3. th'[t].pc \in Reading \union Writing => th[t].pc \in Reading \union Writing
  OBVIOUS
<1>4. th'[t].pc \in Reading \union Writing => fileMeta'[th'[t].key] = th'[t].meta
  BY <1>1, <1>3 DEF KeptOf, Harmless
<1> QED BY <1>1, <1>2, <1>4 DEF KeptOf

(* It has got the bytes of the entry it copies. *)
LEMMA KeptGets ==
    ASSUME NEW t \in Threads, KeptOf(t), UNCHANGED <<fileMeta, cache>>, NEW v, Gets(t, v),
           th[t].pc \in Reading, th[t].op = "pack" => v = th[t].meta.val
    PROVE  KeptOf(t)'
BY DEF KeptOf, Gets, Begins, Reading, Writing

(* A step of the pack itself keeps what it copies. *)
LEMMA PackKeeps ==
    ASSUME TypeOK, TypeOK', Streams, Lengths, Live, NEW t \in Threads, PackOf(t), Form(t), KeptOf(t),
           UNCHANGED use, Step(t)
    PROVE  KeptOf(t)'
<1>0. Typed /\ Fields(t)
  BY FieldTypes DEF TypeOK, Typed
<1> USE DEF Reading, Writing
<1>1. ASSUME NEW k \in Keys, GetStart(t, k) PROVE KeptOf(t)'
  BY <1>1, GetStartEffect DEF KeptOf, Rests
<1>2. ASSUME NEW k \in Keys, RemoveStart(t, k) PROVE KeptOf(t)'
  BY <1>2, RemoveStartEffect DEF KeptOf, Rests
<1>3. ASSUME NEW k \in Keys, PackEntry(t, k) PROVE KeptOf(t)'
  <2>1. /\ th[t].pc = "entry" /\ UNCHANGED <<fileMeta, cache>>
    BY <1>3 DEF PackEntry, At
  <2>2. th[t].op = "pack" /\ th[t].file \in Node
    BY <1>0, <2>1 DEF Form, Fields, AtFile, PackOf
  <2>3. PICK m : m = metaOf[th[t].file][k]
    OBVIOUS
  <2>4. /\ th'[t].pc = (IF fileMeta[k] = m THEN "blocks" ELSE "entry")
        /\ th'[t].key = k /\ th'[t].meta = m /\ th'[t].op = th[t].op
    BY <1>3, <2>2, <2>3, PackEntryEffect
  <2> QED BY <2>1, <2>2, <2>4 DEF KeptOf, Begins
<1>4. ASSUME NEW k \in Keys, NEW v \in use.values, PutStart(t, k, v) PROVE KeptOf(t)'
  BY <1>4, PutStartEffect DEF KeptOf, Rests
<1>5. CASE LookInCache(t)
  <2>1. th[t].pc = "blocks" /\ th[t].key \in Keys /\ th[t].meta \in Meta /\ ~Begins(t)
    BY <1>0, <1>5 DEF LookInCache, At, Form, Fields, Begins
  <2>2. UNCHANGED <<fileMeta, cache>> /\ Harmless
    BY <1>5, FlushHarmless DEF LookInCache, Harmless
  <2>3. \/ cache[th[t].key] # None /\ Gets(t, cache[th[t].key])
        \/ Keeps(t) /\ th'[t].pc \in {"read", "isCurrent"}
    BY <1>5, <2>1, LookInCacheEffect
  <2>4. CASE cache[th[t].key] # None /\ Gets(t, cache[th[t].key])
    <3>1. th[t].op = "pack" => cache[th[t].key] = th[t].meta.val
      BY <2>1, <2>4 DEF KeptOf
    <3> QED BY <2>1, <2>2, <2>4, <3>1, KeptGets
  <2>5. CASE Keeps(t) /\ th'[t].pc \in {"read", "isCurrent"}
    BY <2>1, <2>2, <2>5, KeptMoves DEF Keeps
  <2> QED BY <2>3, <2>4, <2>5
<1>6. CASE IsCurrentNode(t)
  <2>1. Keeps(t) /\ th[t].pc = "isCurrent" /\ th'[t].pc \in {"needsFlush", "read"}
    BY <1>0, <1>6, GotoEffect DEF IsCurrentNode, At, Pcs
  <2>2. Harmless
    BY <1>6, FlushHarmless DEF IsCurrentNode, Harmless
  <2>3. Begins(t) => Begins(t)'
    BY <2>1 DEF Keeps, Begins
  <2> QED BY <2>1, <2>2, <2>3, KeptMoves DEF Keeps
<1>7. CASE NeedsFlush(t)
  <2>0. /\ th[t].pc = "needsFlush" /\ Harmless
        /\ Throw(t) \/ Goto(t, "flush") \/ Goto(t, "read")
    BY <1>7, FlushHarmless DEF NeedsFlush, At, Harmless
  <2>1. CASE Throw(t)
    BY <1>0, <2>0, <2>1, ThrowEffect DEF Leaves, Rests, KeptOf, Form
  <2>2. CASE Goto(t, "flush") \/ Goto(t, "read")
    <3>1. Keeps(t) /\ th'[t].pc \in {"flush", "read"} /\ ~Begins(t)
      BY <1>0, <2>0, <2>2, GotoEffect DEF Pcs, Begins
    <3> QED BY <2>0, <3>1, KeptMoves DEF Keeps
  <2> QED BY <2>0, <2>1, <2>2
<1>8. CASE GetFlushes(t)
  <2>1. Keeps(t) /\ th[t].pc = "flush" /\ th'[t].pc \in {"read"}
    BY <1>0, <1>8, GotoEffect DEF GetFlushes, At, Pcs
  <2>2. Harmless
    BY <1>8, FlushHarmless DEF GetFlushes, Harmless
  <2>3. Begins(t) => Begins(t)'
    BY <2>1 DEF Keeps, Begins
  <2> QED BY <2>1, <2>2, <2>3, KeptMoves DEF Keeps
<1>9. CASE FlushTooLate(t)
  <2>0. th[t].pc = "flush" /\ Throw(t)
    BY <1>9 DEF FlushTooLate, At
  <2> QED BY <1>0, <2>0, ThrowEffect DEF Leaves, Rests, KeptOf, Form
<1>10. CASE ReadFile(t)
  <2>1. th[t].pc = "read" /\ th[t].key \in Keys /\ th[t].meta \in Meta
    BY <1>0, <1>10 DEF ReadFile, At, Form, Fields
  <2>2. UNCHANGED <<fileMeta, cache>>
    BY <1>10 DEF ReadFile
  <2>3. Leaves(t) \/ Gets(t, Found(th[t].meta))
    BY <1>10, <2>1, ReadFileEffect
  <2>4. CASE Leaves(t)
    BY <2>4 DEF Leaves, Rests, KeptOf
  <2>5. CASE Gets(t, Found(th[t].meta))
    <3>1. ASSUME th[t].op = "pack" PROVE Found(th[t].meta) = th[t].meta.val
      <4>1. fileMeta[th[t].key] = th[t].meta /\ th[t].meta # None /\ th[t].meta.node = th[t].file
        BY <2>1, <3>1, MetaNotNone DEF KeptOf, PackOf
      <4>2. th[t].file \in Node /\ (stream # None => th[t].file < stream)
        BY <2>1, <3>1 DEF PackOf, AtFile
      <4>3. th[t].file # stream
        <5>1. None \notin Node
          BY StoreAssumption
        <5>2. ~(th[t].file < th[t].file)
          BY <4>2, StoreAssumption DEF Node
        <5> QED BY <4>2, <5>1, <5>2
      <4>4. written[th[t].meta.node] = length[th[t].meta.node]
        BY <4>1, <4>2, <4>3 DEF Lengths
      <4> QED BY <2>1, <4>1, <4>4 DEF Live, LiveMeta, Found
    <3> QED BY <2>1, <2>2, <2>5, <3>1, KeptGets
  <2> QED BY <2>3, <2>4, <2>5
<1>11. CASE GetReturns(t)
  BY <1>0, <1>11, FinishEffect DEF GetReturns, KeptOf, Rests
<1>12. CASE PutCache(t)
  <2>1. Keeps(t) /\ th[t].pc = "lock" /\ th'[t].pc = "reserve"
    BY <1>0, <1>12, GotoEffect DEF PutCache, At, Pcs
  <2>9. SUFFICES ASSUME th[t].op = "pack" PROVE KeptOf(t)'
    BY <2>1 DEF KeptOf, Keeps
  <2>2. fileMeta' = fileMeta /\ cache' = [cache EXCEPT ![th[t].key] = th[t].val]
    BY <1>12 DEF PutCache
  <2>3. th[t].key \in Keys /\ th[t].meta \in Meta /\ ~Begins(t) /\ ~Begins(t)'
        /\ fileMeta[th[t].key] = th[t].meta /\ th[t].val = th[t].meta.val
        /\ th[t].zip = th[t].meta.zip
    BY <2>1, <2>9 DEF Form, PackOf, KeptOf, Begins
  <2>4. th[t].meta # None
    BY <2>3, MetaNotNone
  <2>5. \A k \in Keys : cache'[k] = IF k = th[t].key THEN th[t].val ELSE cache[k]
    BY <2>2 DEF TypeOK
  <2> QED BY <2>1, <2>2, <2>3, <2>4, <2>5, <2>9 DEF KeptOf, Keeps
<1>13. CASE PutReserve(t)
  <2>1. Keeps(t) /\ th[t].pc = "reserve" /\ th'[t].pc \in {"store"}
    BY <1>0, <1>13, GotoEffect DEF PutReserve, At, Pcs
  <2>2. Harmless
    BY <1>13, FlushHarmless DEF PutReserve, Harmless
  <2>3. Begins(t) => Begins(t)'
    BY <2>1 DEF Keeps, Begins
  <2> QED BY <2>1, <2>2, <2>3, KeptMoves DEF Keeps
<1>14. CASE PutRefused(t)
  BY <1>0, <1>14, FinishEffect DEF PutRefused, KeptOf, Rests
<1>15. CASE PutStore(t)
  <2>1. Keeps(t) /\ th[t].pc = "store" /\ th'[t].pc \in {"publish"}
    BY <1>0, <1>15, GotoEffect DEF PutStore, At, Pcs
  <2>2. Harmless
    BY <1>15, FlushHarmless DEF PutStore, Harmless
  <2>3. Begins(t) => Begins(t)'
    BY <2>1 DEF Keeps, Begins
  <2> QED BY <2>1, <2>2, <2>3, KeptMoves DEF Keeps
<1>16. CASE PutPublish(t)
  <2>1. Keeps(t) /\ th[t].pc = "publish" /\ th'[t].pc = "sync"
    BY <1>0, <1>16, GotoEffect DEF PutPublish, At, Pcs
  <2>9. SUFFICES ASSUME th[t].op = "pack" PROVE KeptOf(t)'
    BY <2>1 DEF KeptOf, Keeps
  <2>2. PICK m : m = [node |-> node, off |-> length[stream] - Bytes(th[t].val),
                      val |-> th[t].val, zip |-> th[t].zip]
    OBVIOUS
  <2>3. /\ m.val = th[t].val /\ UNCHANGED cache /\ m # None
        /\ fileMeta' = [fileMeta EXCEPT ![th[t].key] = m]
    <3>1. m.val = th[t].val /\ UNCHANGED cache
          /\ fileMeta' = [fileMeta EXCEPT ![th[t].key] = m]
      BY <2>2, <1>16 DEF PutPublish
    <3>2. th[t].key \in Keys
      BY <2>1, <2>9 DEF Form
    <3>3. fileMeta'[th[t].key] = m
      BY <3>1, <3>2 DEF TypeOK
    <3>4. m \in Meta
      BY <1>0, <2>1, <2>2, <1>16, PublishedMeta
    <3> QED BY <3>1, <3>4, MetaNotNone
  <2>4. ~Begins(t) /\ ~Begins(t)' /\ th[t].key \in Keys
    BY <2>1, <2>9 DEF Form, Begins
  <2>5. \A k \in Keys : fileMeta'[k] = IF k = th[t].key THEN m ELSE fileMeta[k]
    BY <2>3, <2>4 DEF TypeOK
  <2>6. th[t].val = th[t].meta.val /\ fileMeta[th[t].key] = th[t].meta
    BY <2>1, <2>9 DEF KeptOf
  <2>7. \A k \in Keys : cache'[k] # None => fileMeta'[k] # None /\ cache'[k] = fileMeta'[k].val
    BY <2>3, <2>4, <2>5, <2>6, <2>9 DEF KeptOf
  <2> QED BY <2>1, <2>7, <2>9 DEF KeptOf, Keeps
<1>17. CASE PutSync(t)
  <2>1. Keeps(t) /\ th[t].pc = "sync" /\ th'[t].pc \in {"newStore", "unlock"}
    BY <1>0, <1>17, GotoEffect DEF PutSync, At, Pcs
  <2>2. Harmless
    BY <1>17, FlushHarmless DEF PutSync, Harmless
  <2>3. Begins(t) => Begins(t)'
    BY <2>1 DEF Keeps, Begins
  <2> QED BY <2>1, <2>2, <2>3, KeptMoves DEF Keeps
<1>18. CASE CloseNode(t)
  <2>1. Keeps(t) /\ th[t].pc = "newStore" /\ th'[t].pc \in {"open"}
    BY <1>0, <1>18, GotoEffect DEF CloseNode, At, Pcs
  <2>2. Harmless
    BY <1>18, FlushHarmless DEF CloseNode, Harmless
  <2>3. Begins(t) => Begins(t)'
    BY <2>1 DEF Keeps, Begins
  <2> QED BY <2>1, <2>2, <2>3, KeptMoves DEF Keeps
<1>19. CASE OpenNode(t)
  <2>1. Keeps(t) /\ th[t].pc = "open" /\ th'[t].pc = "unlock"
    BY <1>0, <1>19, GotoEffect DEF OpenNode, At, Pcs
  <2>9. SUFFICES ASSUME th[t].op = "pack" PROVE KeptOf(t)'
    BY <2>1 DEF KeptOf, Keeps
  <2>2. fileMeta' = fileMeta /\ cache' = EmptyCache
    BY <1>19 DEF OpenNode
  <2> QED BY <2>1, <2>2 DEF KeptOf, EmptyCache
<1>20. CASE Unlock(t)
  <2>0. /\ th[t].pc = "unlock" /\ Harmless
        /\ IF th[t].next = "idle" THEN Finish(t) ELSE Goto(t, th[t].next)
    BY <1>20, FlushHarmless DEF Unlock, At, Harmless
  <2>1. CASE th[t].next = "idle"
    BY <1>0, <2>0, <2>1, FinishEffect DEF Rests, KeptOf
  <2>2. CASE th[t].next # "idle"
    <3>1. Keeps(t) /\ th'[t].pc \in {"readMeta", "entry"} /\ ~Begins(t)
      BY <1>0, <2>0, <2>2, GotoEffect DEF Fields, Pcs, Begins
    <3> QED BY <2>0, <3>1, KeptMoves DEF Keeps
  <2> QED BY <2>1, <2>2
<1>21. CASE PutClosed(t)
  BY <1>0, <1>21, FinishEffect DEF PutClosed, KeptOf, Rests
<1>22. CASE Remove(t)
  BY <1>0, <1>22, FinishEffect DEF Remove, KeptOf, Rests
<1>23. CASE Flush(t)
  BY <1>23, BriefEffect DEF KeptOf, Rests
<1>24. CASE SetWriteSyn(t)
  BY <1>24, BriefEffect DEF KeptOf, Rests
<1>25. CASE Close(t)
  BY <1>25, CloseEffect DEF KeptOf, Rests
<1>26. CASE PackStart(t)
  <2>1. th'[t].pc = "newStore" /\ th'[t].next = "readMeta"
    BY <1>26, PackStartEffect
  <2> QED BY <2>1 DEF KeptOf, Begins
<1>27. CASE PackReadMeta(t)
  <2>1. CASE Rests(t)
    BY <2>1 DEF Rests, KeptOf
  <2>2. CASE ~Rests(t)
    <3>1. /\ th[t].pc = "readMeta" /\ th'[t].pc \in {"entry", "delNode"}
          /\ th'[t].op = th[t].op /\ UNCHANGED <<fileMeta, cache>>
      <4>1. UNCHANGED <<fileMeta, cache>>
        BY <1>27 DEF PackReadMeta
      <4> QED BY <2>2, <4>1, <1>27, PackReadMetaEffect
    <3> QED BY <3>1 DEF KeptOf, Begins
  <2> QED BY <2>1, <2>2
<1>28. CASE PackDeleteMeta(t)
  <2>1. Keeps(t) /\ th[t].pc = "entry" /\ th'[t].pc \in {"delNode"}
    BY <1>0, <1>28, GotoEffect DEF PackDeleteMeta, At, Pcs
  <2>2. Harmless
    BY <1>28, FlushHarmless DEF PackDeleteMeta, Harmless
  <2>3. Begins(t) => Begins(t)'
    BY <2>1 DEF Keeps, Begins
  <2> QED BY <2>1, <2>2, <2>3, KeptMoves DEF Keeps
<1>29. CASE PackDeleteNode(t)
  <2>1. Keeps(t) /\ th[t].pc = "delNode" /\ th'[t].pc \in {"readMeta"}
    BY <1>0, <1>29, GotoEffect DEF PackDeleteNode, At, Pcs
  <2>2. Harmless
    BY <1>29, FlushHarmless DEF PackDeleteNode, Harmless
  <2>3. Begins(t) => Begins(t)'
    BY <2>1 DEF Keeps, Begins
  <2> QED BY <2>1, <2>2, <2>3, KeptMoves DEF Keeps
<1> QED BY <1>1, <1>2, <1>3, <1>4, <1>5, <1>6, <1>7, <1>8, <1>9, <1>10, <1>11, <1>12, <1>13, <1>14,
           <1>15, <1>16, <1>17, <1>18, <1>19, <1>20, <1>21, <1>22, <1>23, <1>24, <1>25, <1>26,
           <1>27, <1>28, <1>29 DEF Step

(* Agree speaks of current and fileMeta only. *)
LEMMA AgreeStays ==
    ASSUME NEW k \in Keys, Agree(k), UNCHANGED <<use, current, fileMeta>>
    PROVE  Agree(k)'
BY DEF Agree

(* Every step keeps the index at what a key has. *)
LEMMA AgreeStep ==
    ASSUME TypeOK, Streams, NEW t \in Threads, Form(t), PackOf(t), KeptOf(t), UNCHANGED use, Step(t),
           \A k \in Keys : Agree(k), NEW i \in Keys
    PROVE  Agree(i)'
<1>0. Fields(t)
  BY FieldTypes DEF TypeOK, Typed
<1>1. ASSUME NEW k \in Keys, GetStart(t, k) PROVE Agree(i)'
  BY <1>1, AgreeStays DEF GetStart
<1>2. ASSUME NEW k \in Keys, RemoveStart(t, k) PROVE Agree(i)'
  BY <1>2, AgreeStays DEF RemoveStart
<1>3. ASSUME NEW k \in Keys, PackEntry(t, k) PROVE Agree(i)'
  BY <1>3, AgreeStays DEF PackEntry
<1>4. ASSUME NEW k \in Keys, NEW v \in use.values, PutStart(t, k, v) PROVE Agree(i)'
  BY <1>4, AgreeStays DEF PutStart
<1>5. CASE LookInCache(t)
  BY <1>5, AgreeStays DEF LookInCache
<1>6. CASE IsCurrentNode(t)
  BY <1>6, AgreeStays DEF IsCurrentNode
<1>7. CASE NeedsFlush(t)
  BY <1>7, AgreeStays DEF NeedsFlush
<1>8. CASE GetFlushes(t)
  BY <1>8, AgreeStays DEF GetFlushes
<1>9. CASE FlushTooLate(t)
  BY <1>9, AgreeStays DEF FlushTooLate
<1>10. CASE ReadFile(t)
  BY <1>10, AgreeStays DEF ReadFile
<1>11. CASE GetReturns(t)
  BY <1>11, AgreeStays DEF GetReturns
<1>12. CASE PutCache(t)
  BY <1>12, AgreeStays DEF PutCache
<1>13. CASE PutReserve(t)
  BY <1>13, AgreeStays DEF PutReserve
<1>14. CASE PutRefused(t)
  BY <1>14, AgreeStays DEF PutRefused
<1>15. CASE PutStore(t)
  BY <1>15, AgreeStays DEF PutStore
<1>16. CASE PutPublish(t)
  <2>1. PICK m : m = [node |-> node, off |-> length[stream] - Bytes(th[t].val),
                      val |-> th[t].val, zip |-> th[t].zip]
    OBVIOUS
  <2>2. /\ th[t].pc = "publish" /\ m.val = th[t].val /\ m.zip = th[t].zip
        /\ fileMeta' = [fileMeta EXCEPT ![th[t].key] = m]
        /\ current' = IF th[t].op = "put" THEN [current EXCEPT ![th[t].key] = th[t].val] ELSE current
    BY <2>1, <1>16 DEF PutPublish, At
  <2>3. m # None
    BY <2>1, <1>16, PublishedMeta, MetaNotNone
  <2>4. th[t].key \in Keys /\ th[t].op \in {"put", "pack"}
    BY <1>0, <2>2 DEF Form, Fields, Reading, Writing
  <2>5. CASE i # th[t].key
    <3>1. fileMeta'[i] = fileMeta[i] /\ current'[i] = current[i]
      BY <2>2, <2>4, <2>5 DEF TypeOK
    <3> QED BY <3>1 DEF Agree
  <2>6. CASE i = th[t].key
    <3>1. fileMeta'[i] = m
      BY <2>2, <2>4, <2>6 DEF TypeOK
    <3>2. CASE th[t].op = "put"
      <4>1. th[t].val \in use.values /\ th[t].zip = Zipped[th[t].val]
        BY <3>2 DEF Form
      <4>2. current'[i] = th[t].val
        BY <2>2, <2>4, <2>6, <3>2 DEF TypeOK
      <4> QED BY <2>2, <2>3, <3>1, <4>1, <4>2 DEF Agree
    <3>3. CASE th[t].op = "pack"
      <4>1. fileMeta[i] = th[t].meta /\ th[t].meta \in Meta
            /\ th[t].val = th[t].meta.val /\ th[t].zip = th[t].meta.zip
        BY <2>2, <2>6, <3>3 DEF KeptOf, PackOf, Writing
      <4>2. fileMeta[i] # None
        BY <4>1, MetaNotNone
      <4>3. current'[i] = current[i]
        BY <2>2, <3>3
      <4> QED BY <2>2, <2>3, <3>1, <4>1, <4>2, <4>3 DEF Agree
    <3> QED BY <2>4, <3>2, <3>3
  <2> QED BY <2>5, <2>6
<1>17. CASE PutSync(t)
  BY <1>17, AgreeStays DEF PutSync
<1>18. CASE CloseNode(t)
  BY <1>18, AgreeStays DEF CloseNode
<1>19. CASE OpenNode(t)
  BY <1>19, AgreeStays DEF OpenNode
<1>20. CASE Unlock(t)
  BY <1>20, AgreeStays DEF Unlock
<1>21. CASE PutClosed(t)
  BY <1>21, AgreeStays DEF PutClosed
<1>22. CASE Remove(t)
  <2>1. th[t].key \in Keys /\ fileMeta' = [fileMeta EXCEPT ![th[t].key] = None]
        /\ current' = [current EXCEPT ![th[t].key] = None]
    BY <1>0, <1>22 DEF Remove, At, Form, Fields
  <2>2. \/ fileMeta'[i] = None /\ current'[i] = None
        \/ fileMeta'[i] = fileMeta[i] /\ current'[i] = current[i]
    BY <2>1 DEF TypeOK
  <2> QED BY <2>2 DEF Agree
<1>23. CASE Flush(t)
  BY <1>23, AgreeStays DEF Flush
<1>24. CASE SetWriteSyn(t)
  BY <1>24, AgreeStays DEF SetWriteSyn
<1>25. CASE Close(t)
  BY <1>25, AgreeStays DEF Close
<1>26. CASE PackStart(t)
  BY <1>26, AgreeStays DEF PackStart
<1>27. CASE PackReadMeta(t)
  BY <1>27, AgreeStays DEF PackReadMeta
<1>28. CASE PackDeleteMeta(t)
  BY <1>28, AgreeStays DEF PackDeleteMeta
<1>29. CASE PackDeleteNode(t)
  BY <1>29, AgreeStays DEF PackDeleteNode
<1> QED BY <1>1, <1>2, <1>3, <1>4, <1>5, <1>6, <1>7, <1>8, <1>9, <1>10, <1>11, <1>12, <1>13, <1>14,
           <1>15, <1>16, <1>17, <1>18, <1>19, <1>20, <1>21, <1>22, <1>23, <1>24, <1>25, <1>26,
           <1>27, <1>28, <1>29 DEF Step

(* Every step keeps Kept. *)
LEMMA KeptStep ==
    ASSUME TypeOK, TypeOK', Shape, Streams, Lengths, Live, Packs, Kept, NEW t \in Threads,
           UNCHANGED use, Step(t), Others(t)
    PROVE  Kept'
<1>1. SUFFICES ASSUME PackAlone
               PROVE  /\ \A k \in Keys : Agree(k)'
                      /\ \A u \in Threads : KeptOf(u)'
  BY DEF Kept, PackAlone
<1>2. (\A k \in Keys : Agree(k)) /\ (\A u \in Threads : KeptOf(u) /\ Form(u) /\ PackOf(u))
  BY <1>1 DEF Kept, Shape, Packs
<1>3. \A k \in Keys : Agree(k)'
  BY <1>2, AgreeStep
<1>4. KeptOf(t)'
  BY <1>2, PackKeeps
<1>5. ASSUME NEW u \in Threads, u # t PROVE KeptOf(u)'
  <2>1. CASE th[u].op # "pack"
    BY <1>5, <2>1 DEF KeptOf, Others
  <2>2. CASE th[u].op = "pack"
    <3>1. Harmless
      BY <1>1, <1>2, <1>5, <2>2, BesideIsHarmless
    <3>2. th'[u] = th[u] /\ Begins(u)' = Begins(u)
      BY <1>5 DEF Others, Begins
    <3>3. \A k \in Keys : /\ fileMeta'[k] = fileMeta[k]
                          /\ cache'[k] # None => cache[k] # None /\ cache'[k] = cache[k]
      BY <3>1 DEF Harmless
    <3>4. th[u].pc \in Reading \union Writing => fileMeta'[th[u].key] = th[u].meta
      BY <1>2, <2>2, <3>1 DEF KeptOf, Harmless
    <3> QED BY <1>2, <2>2, <3>2, <3>3, <3>4 DEF KeptOf
  <2> QED BY <2>1, <2>2
<1> QED BY <1>3, <1>4, <1>5

(* The bytes of m are in its node file, not in the buffer. *)
InFile(m) == m.node \in nodeFiles /\ MetaEnd(m) <= written[m.node]

(* With synchronous writing a live file is in its node file, but for the   *)
(* one that a thread is about to flush.                                    *)
Synced == use.sync /\ ~Called({"mode"}) =>
    /\ writeSyn
    /\ \A k \in Keys : fileMeta[k] # None =>
          InFile(fileMeta[k]) \/ \E t \in Threads : th[t].pc = "sync" /\ th[t].key = k

(* Nothing that is in a file is lost, and nobody has flushed yet. *)
LEMMA SyncedGrows ==
    ASSUME TypeOK, Synced, NEW t \in Threads, Others(t), UNCHANGED <<use, writeSyn>>,
           th[t].pc # "sync", written' \in [Node -> Nat],
           \A k \in Keys : fileMeta'[k] \in {fileMeta[k], None},
           \A n \in Node : written[n] <= written'[n],
           \A k \in Keys : fileMeta[k] # None /\ fileMeta[k].node \in nodeFiles
                             => fileMeta[k].node \in nodeFiles'
    PROVE  Synced'
<1>1. SUFFICES ASSUME use.sync, ~Called({"mode"}), NEW k \in Keys, fileMeta'[k] # None
               PROVE  InFile(fileMeta[k])' \/ \E u \in Threads : th'[u].pc = "sync" /\ th'[u].key = k
  BY DEF Synced, Called
<1>2. PICK m : m = fileMeta[k]
  OBVIOUS
<1>3. m = fileMeta'[k] /\ m # None /\ m \in Meta /\ m.node \in Node /\ m.off \in Nat /\ m.val \in Content
  BY <1>1, <1>2 DEF TypeOK, Meta
<1>4. CASE InFile(m)
  <2>1. PICK e : e = MetaEnd(m)
    OBVIOUS
  <2>2. e \in Nat /\ written[m.node] \in Nat /\ written'[m.node] \in Nat
    BY <1>3, <2>1, BytesType DEF MetaEnd, TypeOK
  <2>3. e <= written[m.node] /\ written[m.node] <= written'[m.node]
    BY <1>3, <1>4, <2>1 DEF InFile
  <2>4. e <= written'[m.node]
    BY <2>2, <2>3
  <2>5. m.node \in nodeFiles'
    BY <1>2, <1>3, <1>4 DEF InFile
  <2>6. fileMeta'[k] = m /\ MetaEnd(m)' = e
    BY <1>3, <2>1 DEF MetaEnd, Bytes
  <2> QED BY <2>4, <2>5, <2>6 DEF InFile, MetaEnd, Bytes
<1>5. CASE ~InFile(m)
  <2>1. PICK u \in Threads : th[u].pc = "sync" /\ th[u].key = k
    BY <1>1, <1>2, <1>3, <1>5 DEF Synced
  <2> QED BY <2>1 DEF Others
<1> QED BY <1>4, <1>5

(* Every step keeps Synced: a put with synchronous writing flushes before it *)
(* leaves the monitor.                                                       *)
LEMMA SyncedStep ==
    ASSUME TypeOK, TypeOK', Streams, Lengths, Live, Live', NEW t \in Threads, PackOf(t), Form(t), Synced,
           UNCHANGED use, Step(t), Others(t)
    PROVE  Synced'
<1>0. Typed /\ Fields(t) /\ written' \in [Node -> Nat] /\ written \in [Node -> Nat]
      /\ \A n \in Node : written[n] <= written[n]
  BY FieldTypes DEF TypeOK, Typed
<1>1. ASSUME NEW k \in Keys, GetStart(t, k) PROVE Synced'
  BY <1>0, <1>1, SyncedGrows DEF GetStart, storage, At, Call
<1>2. ASSUME NEW k \in Keys, RemoveStart(t, k) PROVE Synced'
  BY <1>0, <1>2, SyncedGrows DEF RemoveStart, storage, At, Call
<1>3. ASSUME NEW k \in Keys, PackEntry(t, k) PROVE Synced'
  BY <1>0, <1>3, SyncedGrows DEF PackEntry, storage, At
<1>4. ASSUME NEW k \in Keys, NEW v \in use.values, PutStart(t, k, v) PROVE Synced'
  BY <1>0, <1>4, SyncedGrows DEF PutStart, storage, At, Call
<1>5. CASE LookInCache(t)
  BY <1>0, <1>5, SyncedGrows DEF LookInCache, storage, At
<1>6. CASE IsCurrentNode(t)
  BY <1>0, <1>6, SyncedGrows DEF IsCurrentNode, storage, At
<1>7. CASE NeedsFlush(t)
  BY <1>0, <1>7, SyncedGrows DEF NeedsFlush, storage, At
<1>8. CASE GetFlushes(t)
  <2>1. UNCHANGED <<writeSyn, fileMeta>> /\ th[t].pc # "sync"
    BY <1>8 DEF GetFlushes, At
  <2>2. \A n \in Node : written[n] <= written'[n]
    <3>1. FlushStream
      BY <1>8 DEF GetFlushes
    <3>2. \A n \in Node : n # stream => written'[n] = written[n]
      BY <3>1, FlushEffect
    <3>3. stream # None => written'[stream] = length[stream]
      BY <3>1, FlushEffect
    <3> QED BY <1>0, <3>2, <3>3, StoreAssumption DEF Lengths
  <2>3. nodeFiles \subseteq nodeFiles'
    BY <1>8, FlushEffect DEF GetFlushes
  <2> QED BY <1>0, <2>1, <2>2, <2>3, SyncedGrows
<1>9. CASE FlushTooLate(t)
  BY <1>0, <1>9, SyncedGrows DEF FlushTooLate, storage, At
<1>10. CASE ReadFile(t)
  BY <1>0, <1>10, SyncedGrows DEF ReadFile, storage, At
<1>11. CASE GetReturns(t)
  BY <1>0, <1>11, SyncedGrows DEF GetReturns, storage, At
<1>12. CASE PutCache(t)
  BY <1>0, <1>12, SyncedGrows DEF PutCache, storage, At
<1>13. CASE PutReserve(t)
  BY <1>0, <1>13, SyncedGrows DEF PutReserve, At
<1>14. CASE PutRefused(t)
  BY <1>0, <1>14, SyncedGrows DEF PutRefused, storage, At
<1>15. CASE PutStore(t)
  <2>1. UNCHANGED <<writeSyn, fileMeta>> /\ th[t].pc # "sync"
    BY <1>15 DEF PutStore, At
  <2>2. \A n \in Node : written[n] <= written'[n]
    <3>1. CASE length[stream] - written[stream] > BufferSize
      <4>1. written' = [written EXCEPT ![stream] = written[stream] + BufferSize]
        BY <1>15, <3>1 DEF PutStore
      <4>2. \A n \in Node : written'[n] = written[n] \/ written'[n] = written[n] + BufferSize
        BY <1>0, <4>1
      <4> QED BY <1>0, <4>2, StoreAssumption
    <3>2. CASE ~(length[stream] - written[stream] > BufferSize)
      BY <1>15, <1>0, <3>2 DEF PutStore
    <3> QED BY <3>1, <3>2
  <2>3. nodeFiles \subseteq nodeFiles'
    BY <1>15 DEF PutStore
  <2> QED BY <1>0, <2>1, <2>2, <2>3, SyncedGrows
<1>16. CASE PutPublish(t)
  <2>1. th[t].pc = "publish" /\ th'[t].pc = "sync" /\ Keeps(t)
    BY <1>0, <1>16, GotoEffect DEF PutPublish, At, Pcs
  <2>2. PICK m : fileMeta' = [fileMeta EXCEPT ![th[t].key] = m]
    BY <1>16 DEF PutPublish
  <2>3. UNCHANGED <<writeSyn, written, nodeFiles>>
    BY <1>16 DEF PutPublish
  <2>4. SUFFICES ASSUME use.sync, ~Called({"mode"}), NEW k \in Keys, fileMeta'[k] # None
                 PROVE  InFile(fileMeta[k])' \/ \E u \in Threads : th'[u].pc = "sync" /\ th'[u].key = k
    BY <2>3 DEF Synced, Called
  <2>5. CASE k = th[t].key
    BY <2>1, <2>5 DEF Keeps
  <2>6. CASE k # th[t].key
    <3>1. fileMeta'[k] = fileMeta[k]
      BY <2>2, <2>6 DEF TypeOK
    <3>2. CASE InFile(fileMeta[k])
      BY <2>3, <3>1, <3>2 DEF InFile, MetaEnd, Bytes
    <3>3. CASE ~InFile(fileMeta[k])
      <4>1. PICK u \in Threads : th[u].pc = "sync" /\ th[u].key = k
        BY <2>4, <3>1, <3>3 DEF Synced
      <4> QED BY <2>1, <4>1 DEF Others
    <3> QED BY <3>2, <3>3
  <2> QED BY <2>5, <2>6
<1>17. CASE PutSync(t)
  <2>1. SUFFICES ASSUME use.sync, ~Called({"mode"}) PROVE Synced'
    BY DEF Synced, Called
  <2>2. writeSyn /\ writeSyn' = writeSyn /\ UNCHANGED <<length, stream, fileMeta>> /\ FlushStream
        /\ th[t].pc = "sync"
    BY <2>1, <1>17 DEF Synced, PutSync, At
  <2>3. stream # None /\ stream \in Node
    BY <2>2 DEF Streams, Open, TypeOK
  <2>4. \A n \in Node : written'[n] = length'[n]
    BY <2>2, AllFlushed
  <2>5. ASSUME NEW k \in Keys, fileMeta'[k] # None PROVE InFile(fileMeta[k])'
    <3>1. PICK m : m = fileMeta'[k]
      OBVIOUS
    <3>2. m \in Meta /\ m.node \in Node /\ LiveMeta(k, m)' /\ m.off \in Nat /\ m.val \in Content
      BY <2>5, <3>1 DEF Live, TypeOK, Meta
    <3>3. MetaEnd(m)' = MetaEnd(m) /\ MetaEnd(m) \in Nat /\ MetaEnd(m) >= 1
      BY <3>2, BytesType DEF MetaEnd, Bytes
    <3>4. MetaEnd(m) <= length[m.node] /\ (m.node # stream => m.node \in nodeFiles')
      BY <2>2, <3>2, <3>3 DEF LiveMeta
    <3>5. m.node \in nodeFiles'
      <4>1. CASE m.node = stream
        <5>1. length[stream] > 0
          BY <2>3, <3>3, <3>4, <4>1 DEF TypeOK
        <5> QED BY <2>2, <2>3, <4>1, <5>1, FlushEffect DEF Streams
      <4> QED BY <3>4, <4>1
    <3> QED BY <2>2, <2>4, <3>1, <3>2, <3>3, <3>4, <3>5 DEF InFile
  <2> QED BY <2>2, <2>5 DEF Synced
<1>18. CASE CloseNode(t)
  <2>1. UNCHANGED <<writeSyn, fileMeta>> /\ th[t].pc # "sync"
    BY <1>18 DEF CloseNode, At
  <2>2. \A n \in Node : written[n] <= written'[n]
    <3>1. FlushStream
      BY <1>18 DEF CloseNode
    <3>2. \A n \in Node : n # stream => written'[n] = written[n]
      BY <3>1, FlushEffect
    <3>3. stream # None => written'[stream] = length[stream]
      BY <3>1, FlushEffect
    <3> QED BY <1>0, <3>2, <3>3, StoreAssumption DEF Lengths
  <2>3. nodeFiles \subseteq nodeFiles'
    BY <1>18, FlushEffect DEF CloseNode
  <2> QED BY <1>0, <2>1, <2>2, <2>3, SyncedGrows
<1>19. CASE OpenNode(t)
  BY <1>0, <1>19, SyncedGrows DEF OpenNode, At
<1>20. CASE Unlock(t)
  BY <1>0, <1>20, SyncedGrows DEF Unlock, storage, At
<1>21. CASE PutClosed(t)
  BY <1>0, <1>21, SyncedGrows DEF PutClosed, storage, At
<1>22. CASE Remove(t)
  <2>1. UNCHANGED <<writeSyn, storage>> /\ th[t].pc # "sync"
        /\ fileMeta' = [fileMeta EXCEPT ![th[t].key] = None]
    BY <1>22 DEF Remove, At
  <2>2. \A k \in Keys : fileMeta'[k] \in {fileMeta[k], None}
    BY <2>1 DEF TypeOK
  <2> QED BY <1>0, <2>1, <2>2, SyncedGrows DEF storage
<1>23. CASE Flush(t)
  <2>1. UNCHANGED <<writeSyn, fileMeta>> /\ th[t].pc # "sync"
    BY <1>23 DEF Flush, At, Call
  <2>2. \A n \in Node : written[n] <= written'[n]
    <3>1. FlushStream
      BY <1>23 DEF Flush
    <3>2. \A n \in Node : n # stream => written'[n] = written[n]
      BY <3>1, FlushEffect
    <3>3. stream # None => written'[stream] = length[stream]
      BY <3>1, FlushEffect
    <3> QED BY <1>0, <3>2, <3>3, StoreAssumption DEF Lengths
  <2>3. nodeFiles \subseteq nodeFiles'
    BY <1>23, FlushEffect DEF Flush
  <2> QED BY <1>0, <2>1, <2>2, <2>3, SyncedGrows
<1>24. CASE SetWriteSyn(t)
  <2>1. "mode" \in use.calls[t]
    BY <1>24 DEF SetWriteSyn, Call
  <2> QED BY <2>1 DEF Synced, Called
<1>25. CASE Close(t)
  BY <1>0, <1>25, SyncedGrows DEF Close, storage, At, Call
<1>26. CASE PackStart(t)
  BY <1>0, <1>26, SyncedGrows DEF PackStart, At, Call
<1>27. CASE PackReadMeta(t)
  BY <1>0, <1>27, SyncedGrows DEF PackReadMeta, storage, At
<1>28. CASE PackDeleteMeta(t)
  BY <1>0, <1>28, SyncedGrows DEF PackDeleteMeta, At
<1>29. CASE PackDeleteNode(t)
  <2>1. th[t].pc = "delNode" /\ UNCHANGED <<writeSyn, written, fileMeta>>
        /\ nodeFiles' = nodeFiles \ {th[t].file}
    BY <1>29 DEF PackDeleteNode, At
  <2>2. \A k \in Keys : fileMeta[k] # None => fileMeta[k].node # th[t].file
    BY <1>0, <2>1 DEF PackOf, AtFile, Undone, Form, Fields, Reading, Writing
  <2> QED BY <1>0, <2>1, <2>2, SyncedGrows
<1> QED BY <1>1, <1>2, <1>3, <1>4, <1>5, <1>6, <1>7, <1>8, <1>9, <1>10, <1>11, <1>12, <1>13, <1>14,
           <1>15, <1>16, <1>17, <1>18, <1>19, <1>20, <1>21, <1>22, <1>23, <1>24, <1>25, <1>26,
           <1>27, <1>28, <1>29 DEF Step


-----------------------------------------------------------------------------
(* The cache. *)

(* A put between its cache entry and its meta. *)
Filling == {"reserve", "store", "publish"}

(* Unless the store is closed, it has a stream but for the moment of a     *)
(* rollover.                                                               *)
Opened == ~Called({"close"}) /\ stream = None => \E t \in Threads : th[t].pc = "open"

(* What a put has put into the cache stays there or is dropped. *)
Filled == \A t \in Threads : th[t].pc \in Filling => cache[th[t].key] \in {None, th[t].val}

(* A put has handed the cache what it is about to publish for k. *)
Given(k) == \E t \in Threads : th[t].pc \in Filling /\ th[t].key = k /\ th[t].val = cache[k]

(* The cache has what the key has, or what a put is about to give it. *)
Cached == PackAlone /\ AllFit /\ ~Called({"close"}) =>
    \A k \in Keys : cache[k] # None => cache[k] = current[k] \/ Given(k)

(* A step that leaves the stream where it is. *)
LEMMA OpenedStays ==
    ASSUME Opened, NEW t \in Threads, Others(t), UNCHANGED <<use, stream>>, th[t].pc # "open"
    PROVE  Opened'
BY DEF Opened, Others, Called

(* Every step but close leaves the store with a stream. *)
LEMMA OpenedStep ==
    ASSUME TypeOK, Opened, NEW t \in Threads, Form(t), UNCHANGED use, Step(t), Others(t)
    PROVE  Opened'
<1>0. Typed /\ Fields(t)
  BY FieldTypes DEF TypeOK, Typed
<1>1. ASSUME NEW k \in Keys, GetStart(t, k) PROVE Opened'
  BY <1>1, OpenedStays DEF GetStart, storage, At, Call
<1>2. ASSUME NEW k \in Keys, RemoveStart(t, k) PROVE Opened'
  BY <1>2, OpenedStays DEF RemoveStart, storage, At, Call
<1>3. ASSUME NEW k \in Keys, PackEntry(t, k) PROVE Opened'
  BY <1>3, OpenedStays DEF PackEntry, storage, At
<1>4. ASSUME NEW k \in Keys, NEW v \in use.values, PutStart(t, k, v) PROVE Opened'
  BY <1>4, OpenedStays DEF PutStart, storage, At, Call
<1>5. CASE LookInCache(t)
  BY <1>5, OpenedStays DEF LookInCache, storage, At
<1>6. CASE IsCurrentNode(t)
  BY <1>6, OpenedStays DEF IsCurrentNode, storage, At
<1>7. CASE NeedsFlush(t)
  BY <1>7, OpenedStays DEF NeedsFlush, storage, At
<1>8. CASE GetFlushes(t)
  BY <1>8, OpenedStays DEF GetFlushes, At
<1>9. CASE FlushTooLate(t)
  BY <1>9, OpenedStays DEF FlushTooLate, storage, At
<1>10. CASE ReadFile(t)
  BY <1>10, OpenedStays DEF ReadFile, storage, At
<1>11. CASE GetReturns(t)
  BY <1>11, OpenedStays DEF GetReturns, storage, At
<1>12. CASE PutCache(t)
  BY <1>12, OpenedStays DEF PutCache, storage, At
<1>13. CASE PutReserve(t)
  BY <1>13, OpenedStays DEF PutReserve, At
<1>14. CASE PutRefused(t)
  BY <1>14, OpenedStays DEF PutRefused, storage, At
<1>15. CASE PutStore(t)
  BY <1>15, OpenedStays DEF PutStore, At
<1>16. CASE PutPublish(t)
  BY <1>16, OpenedStays DEF PutPublish, At
<1>17. CASE PutSync(t)
  BY <1>17, OpenedStays DEF PutSync, At
<1>18. CASE CloseNode(t)
  <2>1. th'[t].pc = "open"
    BY <1>0, <1>18, GotoEffect DEF CloseNode, Pcs
  <2> QED BY <2>1 DEF Opened
<1>19. CASE OpenNode(t)
  <2>1. th[t].op = "close" => "close" \in use.calls[t]
    BY DEF Form
  <2>2. th[t].op # "close" => stream' = node /\ node # None
    BY <1>19, StoreAssumption DEF OpenNode, TypeOK
  <2> QED BY <2>1, <2>2 DEF Opened, Called
<1>20. CASE Unlock(t)
  BY <1>20, OpenedStays DEF Unlock, storage, At
<1>21. CASE PutClosed(t)
  BY <1>21, OpenedStays DEF PutClosed, storage, At
<1>22. CASE Remove(t)
  BY <1>22, OpenedStays DEF Remove, storage, At
<1>23. CASE Flush(t)
  BY <1>23, OpenedStays DEF Flush, At, Call
<1>24. CASE SetWriteSyn(t)
  BY <1>24, OpenedStays DEF SetWriteSyn, storage, At, Call
<1>25. CASE Close(t)
  BY <1>25, OpenedStays DEF Close, storage, At, Call
<1>26. CASE PackStart(t)
  BY <1>26, OpenedStays DEF PackStart, At, Call
<1>27. CASE PackReadMeta(t)
  BY <1>27, OpenedStays DEF PackReadMeta, storage, At
<1>28. CASE PackDeleteMeta(t)
  BY <1>28, OpenedStays DEF PackDeleteMeta, At
<1>29. CASE PackDeleteNode(t)
  BY <1>29, OpenedStays DEF PackDeleteNode, At
<1> QED BY <1>1, <1>2, <1>3, <1>4, <1>5, <1>6, <1>7, <1>8, <1>9, <1>10, <1>11, <1>12, <1>13, <1>14,
           <1>15, <1>16, <1>17, <1>18, <1>19, <1>20, <1>21, <1>22, <1>23, <1>24, <1>25, <1>26,
           <1>27, <1>28, <1>29 DEF Step

(* A step that only drops from the cache. *)
LEMMA FilledStays ==
    ASSUME Filled, NEW t \in Threads, Others(t),
           \A u \in Threads : th[u].pc \in Filling => th[u].key \in Keys,
           \A k \in Keys : cache'[k] \in {cache[k], None},
           th'[t].pc \in Filling => th[t].pc \in Filling /\ th'[t].key = th[t].key /\ th'[t].val = th[t].val
    PROVE  Filled'
BY DEF Filled, Others

(* Every step keeps Filled: only the holder of the monitor fills the cache. *)
LEMMA FilledStep ==
    ASSUME TypeOK, Shape, Monitors, Filled, NEW t \in Threads, UNCHANGED use, Step(t), Others(t)
    PROVE  Filled'
<1>0. Typed /\ Fields(t) /\ Form(t)
  BY FieldTypes DEF TypeOK, Typed, Shape
<1>30. \A u \in Threads : th[u].pc \in Filling => th[u].key \in Keys
  BY FieldTypes DEF TypeOK, Typed, Shape, Form, Fields, Filling, Reading, Writing
<1>1. ASSUME NEW k \in Keys, GetStart(t, k) PROVE Filled'
  BY <1>0, <1>30, <1>1, GetStartEffect, FilledStays DEF GetStart, Filling
<1>2. ASSUME NEW k \in Keys, RemoveStart(t, k) PROVE Filled'
  BY <1>0, <1>30, <1>2, RemoveStartEffect, FilledStays DEF RemoveStart, Filling
<1>3. ASSUME NEW k \in Keys, PackEntry(t, k) PROVE Filled'
  <2>1. th[t].pc = "entry" /\ UNCHANGED cache
    BY <1>3 DEF PackEntry, At
  <2>2. th'[t].pc \in {"blocks", "entry"}
    BY <1>0, <1>3 DEF PackEntry, Typed, Thread
  <2> QED BY <1>30, <2>1, <2>2, FilledStays DEF Filling
<1>4. ASSUME NEW k \in Keys, NEW v \in use.values, PutStart(t, k, v) PROVE Filled'
  BY <1>0, <1>30, <1>4, PutStartEffect, FilledStays DEF PutStart, Filling
<1>5. CASE LookInCache(t)
  <2>1. th[t].key \in Keys /\ th[t].meta \in Meta
    BY <1>0, <1>5 DEF LookInCache, At, Form, Fields, Writing
  <2> QED BY <1>0, <1>30, <2>1, <1>5, LookInCacheEffect, FilledStays DEF LookInCache, At, Gets,
             Filling, Form, Fields
<1>6. CASE IsCurrentNode(t)
  BY <1>0, <1>30, <1>6, GotoEffect, FilledStays DEF IsCurrentNode, Pcs, Filling
<1>7. CASE NeedsFlush(t)
  BY <1>0, <1>30, <1>7, GotoEffect, ThrowEffect, FilledStays DEF NeedsFlush, Rests, Leaves, Pcs,
     Filling
<1>8. CASE GetFlushes(t)
  BY <1>0, <1>30, <1>8, GotoEffect, FilledStays, FlushHarmless DEF GetFlushes, Pcs, Filling
<1>9. CASE FlushTooLate(t)
  BY <1>0, <1>30, <1>9, ThrowEffect, FilledStays DEF FlushTooLate, Rests, Leaves, Filling
<1>10. CASE ReadFile(t)
  <2>1. th[t].key \in Keys /\ th[t].meta \in Meta
    BY <1>0, <1>10 DEF ReadFile, At, Form, Fields, Writing
  <2> QED BY <1>0, <1>30, <2>1, <1>10, ReadFileEffect, FilledStays DEF ReadFile, At, Gets, Leaves,
             Rests, Filling, Form, Fields
<1>11. CASE GetReturns(t)
  BY <1>0, <1>30, <1>11, FinishEffect, FilledStays DEF GetReturns, Rests, Filling
<1>12. CASE PutCache(t)
  <2>1. th'[t].pc = "reserve" /\ Keeps(t) /\ th[t].key \in Keys
    BY <1>0, <1>12, GotoEffect DEF PutCache, At, Pcs, Form, Fields, Writing
  <2>2. cache'[th[t].key] = th[t].val
    BY <1>12, <2>1 DEF PutCache, TypeOK
  <2>3. ASSUME NEW u \in Threads, u # t PROVE th'[u].pc \notin Filling
    BY <1>12, <2>3, StoreAssumption DEF PutCache, Monitors, Holding, Filling, Others
  <2> QED BY <2>1, <2>2, <2>3 DEF Filled, Keeps
<1>13. CASE PutReserve(t)
  BY <1>0, <1>30, <1>13, GotoEffect, FilledStays DEF PutReserve, At, Keeps, Pcs, Filling
<1>14. CASE PutRefused(t)
  BY <1>0, <1>30, <1>14, FinishEffect, FilledStays DEF PutRefused, Rests, Filling
<1>15. CASE PutStore(t)
  <2>1. th'[t].pc = "publish" /\ Keeps(t) /\ th[t].pc = "store"
    BY <1>0, <1>15, GotoEffect DEF PutStore, At, Pcs
  <2>2. cache' = EmptyCache \/ UNCHANGED cache
    BY <1>15 DEF PutStore
  <2> QED BY <1>30, <2>1, <2>2, FlushHarmless, FilledStays DEF Keeps, Filling
<1>16. CASE PutPublish(t)
  BY <1>0, <1>30, <1>16, GotoEffect, FilledStays DEF PutPublish, Pcs, Filling
<1>17. CASE PutSync(t)
  BY <1>0, <1>30, <1>17, GotoEffect, FilledStays, FlushHarmless DEF PutSync, Pcs, Filling
<1>18. CASE CloseNode(t)
  BY <1>0, <1>30, <1>18, GotoEffect, FilledStays, FlushHarmless DEF CloseNode, Pcs, Filling
<1>19. CASE OpenNode(t)
  BY <1>0, <1>30, <1>19, GotoEffect, FilledStays DEF OpenNode, Pcs, Filling, EmptyCache
<1>20. CASE Unlock(t)
  BY <1>0, <1>30, <1>20, GotoEffect, FinishEffect, FilledStays DEF Unlock, Rests, Pcs, Filling,
     Fields
<1>21. CASE PutClosed(t)
  BY <1>0, <1>30, <1>21, FinishEffect, FilledStays DEF PutClosed, Rests, Filling
<1>22. CASE Remove(t)
  <2>1. Rests(t) /\ cache' = [cache EXCEPT ![th[t].key] = None]
    BY <1>0, <1>22, FinishEffect DEF Remove
  <2>2. \A k \in Keys : cache'[k] \in {cache[k], None}
    BY <2>1 DEF TypeOK
  <2> QED BY <1>30, <2>1, <2>2, FilledStays DEF Rests, Filling
<1>23. CASE Flush(t)
  BY <1>0, <1>30, <1>23, BriefEffect, FilledStays, FlushHarmless DEF Flush, Rests, Filling
<1>24. CASE SetWriteSyn(t)
  BY <1>0, <1>30, <1>24, BriefEffect, FilledStays DEF SetWriteSyn, Rests, Filling
<1>25. CASE Close(t)
  BY <1>0, <1>30, <1>25, CloseEffect, FilledStays DEF Close, Filling
<1>26. CASE PackStart(t)
  BY <1>0, <1>30, <1>26, PackStartEffect, FilledStays DEF PackStart, Filling
<1>27. CASE PackReadMeta(t)
  BY <1>0, <1>30, <1>27, PackReadMetaEffect, FilledStays DEF PackReadMeta, Rests, Filling
<1>28. CASE PackDeleteMeta(t)
  BY <1>0, <1>30, <1>28, GotoEffect, FilledStays DEF PackDeleteMeta, Pcs, Filling
<1>29. CASE PackDeleteNode(t)
  BY <1>0, <1>30, <1>29, GotoEffect, FilledStays DEF PackDeleteNode, Pcs, Filling
<1> QED BY <1>1, <1>2, <1>3, <1>4, <1>5, <1>6, <1>7, <1>8, <1>9, <1>10, <1>11, <1>12, <1>13, <1>14,
           <1>15, <1>16, <1>17, <1>18, <1>19, <1>20, <1>21, <1>22, <1>23, <1>24, <1>25, <1>26,
           <1>27, <1>28, <1>29 DEF Step

(* A step that keeps the index and only drops from the cache. *)
LEMMA CachedStays ==
    ASSUME Cached, NEW t \in Threads, Others(t), UNCHANGED <<use, current>>,
           \A k \in Keys : cache'[k] \in {cache[k], None},
           th[t].pc \in Filling => th'[t].pc \in Filling /\ th'[t].key = th[t].key /\ th'[t].val = th[t].val
    PROVE  Cached'
<1>1. SUFFICES ASSUME PackAlone, AllFit, ~Called({"close"}), NEW k \in Keys, cache'[k] # None
               PROVE  cache'[k] = current[k] \/ Given(k)'
  BY DEF Cached, PackAlone, AllFit, Called
<1>2. cache'[k] = cache[k] /\ (cache[k] = current[k] \/ Given(k))
  BY <1>1 DEF Cached
<1>3. ASSUME Given(k) PROVE Given(k)'
  BY <1>2, <1>3 DEF Given, Others
<1> QED BY <1>2, <1>3

(* Every step keeps Cached. *)
LEMMA CachedStep ==
    ASSUME TypeOK, Shape, Monitors, Streams, Packs, Kept, Opened, Filled, Cached, NEW t \in Threads,
           UNCHANGED use, Step(t), Others(t)
    PROVE  Cached'
<1>0. Typed /\ Fields(t) /\ Form(t)
  BY FieldTypes DEF TypeOK, Typed, Shape
<1>1. ASSUME NEW k \in Keys, GetStart(t, k) PROVE Cached'
  BY <1>0, <1>1, GetStartEffect, CachedStays DEF GetStart, Filling
<1>2. ASSUME NEW k \in Keys, RemoveStart(t, k) PROVE Cached'
  BY <1>0, <1>2, RemoveStartEffect, CachedStays DEF RemoveStart, Filling
<1>3. ASSUME NEW k \in Keys, PackEntry(t, k) PROVE Cached'
  BY <1>3, CachedStays DEF PackEntry, At, Filling
<1>4. ASSUME NEW k \in Keys, NEW v \in use.values, PutStart(t, k, v) PROVE Cached'
  BY <1>0, <1>4, PutStartEffect, CachedStays DEF PutStart, Filling
<1>5. CASE LookInCache(t)
  BY <1>5, CachedStays DEF LookInCache, At, Filling
<1>6. CASE IsCurrentNode(t)
  BY <1>0, <1>6, CachedStays DEF IsCurrentNode, At, Filling
<1>7. CASE NeedsFlush(t)
  BY <1>0, <1>7, ThrowEffect, CachedStays DEF NeedsFlush, At, Filling
<1>8. CASE GetFlushes(t)
  BY <1>0, <1>8, CachedStays, FlushHarmless DEF GetFlushes, At, Filling
<1>9. CASE FlushTooLate(t)
  BY <1>0, <1>9, ThrowEffect, CachedStays DEF FlushTooLate, At, Filling
<1>10. CASE ReadFile(t)
  BY <1>10, CachedStays DEF ReadFile, At, Filling
<1>11. CASE GetReturns(t)
  BY <1>0, <1>11, CachedStays DEF GetReturns, At, Filling
<1>12. CASE PutCache(t)
  <2>1. th'[t].pc = "reserve" /\ Keeps(t) /\ th[t].key \in Keys /\ th[t].pc = "lock"
    BY <1>0, <1>12, GotoEffect DEF PutCache, At, Pcs, Form, Fields, Writing
  <2>2. UNCHANGED current /\ cache' = [cache EXCEPT ![th[t].key] = th[t].val]
    BY <1>12 DEF PutCache
  <2>3. SUFFICES ASSUME PackAlone, AllFit, ~Called({"close"}), NEW k \in Keys, cache'[k] # None
                 PROVE  cache'[k] = current[k] \/ Given(k)'
    BY <2>2 DEF Cached, PackAlone, AllFit, Called
  <2>4. CASE k = th[t].key
    <3>1. cache'[k] = th'[t].val
      BY <2>1, <2>2, <2>4 DEF TypeOK, Keeps
    <3> QED BY <2>1, <2>4, <3>1 DEF Given, Keeps, Filling
  <2>5. CASE k # th[t].key
    <3>1. cache'[k] = cache[k]
      BY <2>2, <2>5 DEF TypeOK
    <3>2. CASE Given(k)
      BY <2>1, <3>1, <3>2 DEF Given, Others, Filling
    <3> QED BY <2>3, <3>1, <3>2 DEF Cached
  <2> QED BY <2>4, <2>5
<1>13. CASE PutReserve(t)
  BY <1>0, <1>13, GotoEffect, CachedStays DEF PutReserve, Keeps, Pcs, Filling
<1>14. CASE PutRefused(t)
  <2>1. SUFFICES ASSUME PackAlone, AllFit PROVE FALSE
    BY DEF Cached, PackAlone, AllFit
  <2>2. th[t].pc = "reserve" /\ Bytes(th[t].val) > BufferSize
    BY <1>14 DEF PutRefused, At
  <2>3. th[t].op \in {"put", "pack"}
    BY <1>0, <2>2 DEF Form, Fields, Reading, Writing
  <2>4. th[t].val \in use.values
    <3>1. CASE th[t].op = "put"
      BY <1>0, <3>1 DEF Form
    <3>2. CASE th[t].op = "pack"
      <4>1. KeptOf(t) /\ Agree(th[t].key) /\ th[t].meta \in Meta /\ th[t].key \in Keys
        BY <1>0, <2>1, <2>2, <3>2 DEF Kept, Packs, PackOf, Form, Writing
      <4>2. th[t].val = fileMeta[th[t].key].val /\ fileMeta[th[t].key] = th[t].meta
        BY <2>2, <3>2, <4>1 DEF KeptOf, Writing
      <4> QED BY <4>1, <4>2, MetaNotNone DEF Agree
    <3> QED BY <2>3, <3>1, <3>2
  <2>5. th[t].val \in Values /\ StoredSize[th[t].val] \in Nat
    BY <2>4, UseTypes, StoreAssumption DEF TypeOK
  <2> QED BY <2>1, <2>2, <2>4, <2>5, StoreAssumption DEF AllFit, Bytes
<1>15. CASE PutStore(t)
  <2>1. th'[t].pc = "publish" /\ Keeps(t) /\ th[t].pc = "store"
    BY <1>0, <1>15, GotoEffect DEF PutStore, At, Pcs
  <2>2. cache' = EmptyCache \/ UNCHANGED cache
    BY <1>15 DEF PutStore
  <2> QED BY <1>15, <2>1, <2>2, FlushHarmless, CachedStays DEF PutStore, Keeps, Filling
<1>16. CASE PutPublish(t)
  <2>1. th[t].pc = "publish" /\ th'[t].pc = "sync" /\ Keeps(t) /\ th[t].key \in Keys
    BY <1>0, <1>16, GotoEffect DEF PutPublish, At, Pcs, Form, Fields, Writing
  <2>2. UNCHANGED cache
        /\ current' = IF th[t].op = "put" THEN [current EXCEPT ![th[t].key] = th[t].val] ELSE current
    BY <1>16 DEF PutPublish
  <2>3. SUFFICES ASSUME PackAlone, AllFit, ~Called({"close"}), NEW k \in Keys, cache[k] # None
                 PROVE  cache[k] = current'[k]
    BY <2>2 DEF Cached, PackAlone, AllFit, Called
  <2>4. \A u \in Threads : th[u].pc \in Filling => u = t
    BY <2>1 DEF Monitors, Holding, Filling
  <2>5. CASE k = th[t].key
    <3>1. cache[k] = th[t].val
      BY <2>1, <2>3, <2>5 DEF Filled, Filling
    <3>2. CASE th[t].op = "put"
      BY <2>2, <2>5, <3>1, <3>2 DEF TypeOK
    <3>3. CASE th[t].op # "put"
      <4>1. th[t].op = "pack"
        BY <1>0, <2>1, <3>3 DEF Form, Fields, Reading, Writing
      <4>2. KeptOf(t) /\ Agree(k) /\ th[t].meta \in Meta
        BY <2>1, <2>3, <4>1 DEF Kept, Packs, PackOf, Writing
      <4>3. th[t].val = fileMeta[k].val /\ fileMeta[k] = th[t].meta
        BY <2>1, <2>5, <4>1, <4>2 DEF KeptOf, Writing
      <4>4. current[k] = fileMeta[k].val
        BY <4>2, <4>3, MetaNotNone DEF Agree
      <4> QED BY <2>2, <3>1, <3>3, <4>3, <4>4
    <3> QED BY <3>2, <3>3
  <2>6. CASE k # th[t].key
    <3>1. current'[k] = current[k]
      BY <2>2, <2>6 DEF TypeOK
    <3>2. ~Given(k)
      BY <2>4, <2>6 DEF Given
    <3> QED BY <2>3, <3>1, <3>2 DEF Cached
  <2> QED BY <2>5, <2>6
<1>17. CASE PutSync(t)
  BY <1>0, <1>17, CachedStays, FlushHarmless DEF PutSync, At, Filling
<1>18. CASE CloseNode(t)
  BY <1>0, <1>18, CachedStays, FlushHarmless DEF CloseNode, At, Filling
<1>19. CASE OpenNode(t)
  BY <1>0, <1>19, CachedStays DEF OpenNode, At, Filling, EmptyCache
<1>20. CASE Unlock(t)
  BY <1>0, <1>20, CachedStays DEF Unlock, At, Filling
<1>21. CASE PutClosed(t)
  <2>1. SUFFICES ASSUME ~Called({"close"}) PROVE FALSE
    BY DEF Cached, Called
  <2>2. th[t].pc = "reserve" /\ stream = None
    BY <1>21 DEF PutClosed, At
  <2>3. PICK u \in Threads : th[u].pc = "open"
    BY <2>1, <2>2 DEF Opened
  <2> QED BY <2>2, <2>3 DEF Monitors, Holding
<1>22. CASE Remove(t)
  <2>1. th[t].pc = "remove" /\ th[t].key \in Keys
    BY <1>0, <1>22 DEF Remove, At, Form, Fields, Writing
  <2>2. cache' = [cache EXCEPT ![th[t].key] = None] /\ current' = [current EXCEPT ![th[t].key] = None]
    BY <1>22 DEF Remove
  <2>3. SUFFICES ASSUME PackAlone, AllFit, ~Called({"close"}), NEW k \in Keys, cache'[k] # None
                 PROVE  cache'[k] = current'[k] \/ Given(k)'
    BY DEF Cached, PackAlone, AllFit, Called
  <2>4. cache'[k] = cache[k] /\ current'[k] = current[k]
    BY <2>1, <2>2, <2>3 DEF TypeOK
  <2>5. ASSUME Given(k) PROVE Given(k)'
    BY <2>1, <2>4, <2>5 DEF Given, Others, Filling
  <2> QED BY <2>3, <2>4, <2>5 DEF Cached
<1>23. CASE Flush(t)
  BY <1>0, <1>23, BriefEffect, CachedStays, FlushHarmless DEF Flush, Filling
<1>24. CASE SetWriteSyn(t)
  BY <1>0, <1>24, BriefEffect, CachedStays DEF SetWriteSyn, Filling
<1>25. CASE Close(t)
  BY <1>0, <1>25, CloseEffect, CachedStays DEF Close, Filling
<1>26. CASE PackStart(t)
  BY <1>0, <1>26, PackStartEffect, CachedStays DEF PackStart, Filling
<1>27. CASE PackReadMeta(t)
  BY <1>0, <1>27, PackReadMetaEffect, CachedStays DEF PackReadMeta, Filling
<1>28. CASE PackDeleteMeta(t)
  BY <1>0, <1>28, CachedStays DEF PackDeleteMeta, At, Filling
<1>29. CASE PackDeleteNode(t)
  BY <1>0, <1>29, CachedStays DEF PackDeleteNode, At, Filling
<1> QED BY <1>1, <1>2, <1>3, <1>4, <1>5, <1>6, <1>7, <1>8, <1>9, <1>10, <1>11, <1>12, <1>13, <1>14,
           <1>15, <1>16, <1>17, <1>18, <1>19, <1>20, <1>21, <1>22, <1>23, <1>24, <1>25, <1>26,
           <1>27, <1>28, <1>29 DEF Step


-----------------------------------------------------------------------------
(* Synchronous writing. *)

(* The mode is that of the constructor until it is set. *)
Mode == ~Called({"mode"}) => writeSyn = use.sync

(* Only setWriteSyn changes the mode. *)
LEMMA ModeStep ==
    ASSUME Mode, NEW t \in Threads, UNCHANGED use, Step(t)
    PROVE  Mode'
<1>1. ASSUME NEW k \in Keys, GetStart(t, k) PROVE Mode'
  BY <1>1 DEF Mode, Called, GetStart
<1>2. ASSUME NEW k \in Keys, RemoveStart(t, k) PROVE Mode'
  BY <1>2 DEF Mode, Called, RemoveStart
<1>3. ASSUME NEW k \in Keys, PackEntry(t, k) PROVE Mode'
  BY <1>3 DEF Mode, Called, PackEntry
<1>4. ASSUME NEW k \in Keys, NEW v \in use.values, PutStart(t, k, v) PROVE Mode'
  BY <1>4 DEF Mode, Called, PutStart
<1>5. CASE LookInCache(t)
  BY <1>5 DEF Mode, Called, LookInCache
<1>6. CASE IsCurrentNode(t)
  BY <1>6 DEF Mode, Called, IsCurrentNode
<1>7. CASE NeedsFlush(t)
  BY <1>7 DEF Mode, Called, NeedsFlush
<1>8. CASE GetFlushes(t)
  BY <1>8 DEF Mode, Called, GetFlushes
<1>9. CASE FlushTooLate(t)
  BY <1>9 DEF Mode, Called, FlushTooLate
<1>10. CASE ReadFile(t)
  BY <1>10 DEF Mode, Called, ReadFile
<1>11. CASE GetReturns(t)
  BY <1>11 DEF Mode, Called, GetReturns
<1>12. CASE PutCache(t)
  BY <1>12 DEF Mode, Called, PutCache
<1>13. CASE PutReserve(t)
  BY <1>13 DEF Mode, Called, PutReserve
<1>14. CASE PutRefused(t)
  BY <1>14 DEF Mode, Called, PutRefused
<1>15. CASE PutStore(t)
  BY <1>15 DEF Mode, Called, PutStore
<1>16. CASE PutPublish(t)
  BY <1>16 DEF Mode, Called, PutPublish
<1>17. CASE PutSync(t)
  BY <1>17 DEF Mode, Called, PutSync
<1>18. CASE CloseNode(t)
  BY <1>18 DEF Mode, Called, CloseNode
<1>19. CASE OpenNode(t)
  BY <1>19 DEF Mode, Called, OpenNode
<1>20. CASE Unlock(t)
  BY <1>20 DEF Mode, Called, Unlock
<1>21. CASE PutClosed(t)
  BY <1>21 DEF Mode, Called, PutClosed
<1>22. CASE Remove(t)
  BY <1>22 DEF Mode, Called, Remove
<1>23. CASE Flush(t)
  BY <1>23 DEF Mode, Called, Flush
<1>24. CASE SetWriteSyn(t)
  BY <1>24 DEF Mode, Called, SetWriteSyn, Call
<1>25. CASE Close(t)
  BY <1>25 DEF Mode, Called, Close
<1>26. CASE PackStart(t)
  BY <1>26 DEF Mode, Called, PackStart
<1>27. CASE PackReadMeta(t)
  BY <1>27 DEF Mode, Called, PackReadMeta
<1>28. CASE PackDeleteMeta(t)
  BY <1>28 DEF Mode, Called, PackDeleteMeta
<1>29. CASE PackDeleteNode(t)
  BY <1>29 DEF Mode, Called, PackDeleteNode
<1> QED BY <1>1, <1>2, <1>3, <1>4, <1>5, <1>6, <1>7, <1>8, <1>9, <1>10, <1>11, <1>12, <1>13, <1>14,
           <1>15, <1>16, <1>17, <1>18, <1>19, <1>20, <1>21, <1>22, <1>23, <1>24, <1>25, <1>26,
           <1>27, <1>28, <1>29 DEF Step

(* The places where a get asks whether it has to flush. *)
Asking == {"isCurrent", "needsFlush", "flush"}

(* With synchronous writing a value leaves the buffer with the put that    *)
(* brought it, and stays in the cache until then; no get has to flush.     *)
Direct == use.sync /\ ~Called({"mode"}) =>
    /\ \A t \in Threads :
          /\ th[t].pc \notin Asking
          /\ th[t].pc = "store" => Bytes(th[t].val) <= BufferSize
          /\ th[t].pc \in {"store", "publish"} => length[stream] = written[stream] + Bytes(th[t].val)
          /\ th[t].pc \in Filling \union {"sync"} => cache[th[t].key] = th[t].val
    /\ stream # None /\ written[stream] # length[stream] =>
          \E t \in Threads : th[t].pc \in {"store", "publish", "sync"}

(* A step that leaves the stream alone, and nothing to put. *)
LEMMA DirectStays ==
    ASSUME Direct, NEW t \in Threads, Others(t), UNCHANGED <<use, stream, length, written, cache>>,
           th[t].pc \notin {"store", "publish", "sync"},
           use.sync /\ ~Called({"mode"}) => th'[t].pc \notin Filling \union Asking \union {"sync"}
    PROVE  Direct'
<1>1. SUFFICES ASSUME use.sync, ~Called({"mode"}) PROVE Direct'
  BY DEF Direct, Called
<1>2. \A u \in Threads :
          /\ th'[u].pc \notin Asking
          /\ th'[u].pc \in Filling \union {"sync"} => th'[u] = th[u]
  BY <1>1 DEF Direct, Others
<1>3. \A u \in Threads : th[u].pc \in {"store", "publish", "sync"} => th'[u] = th[u]
  BY DEF Others
<1>4. \A u \in Threads : Bytes(th[u].val)' = Bytes(th'[u].val)
  BY DEF Bytes
<1> QED BY <1>1, <1>2, <1>3, <1>4 DEF Direct, Filling

(* Nobody is putting, and the buffer is empty. *)
LEMMA DirectFree ==
    ASSUME Direct, NEW t \in Threads, Others(t), UNCHANGED use,
           \A u \in Threads : u # t => th[u].pc \notin Filling \union {"sync"},
           use.sync /\ ~Called({"mode"}) =>
               /\ th'[t].pc \notin Filling \union Asking \union {"sync"}
               /\ stream' # None => written'[stream'] = length'[stream']
    PROVE  Direct'
<1>1. SUFFICES ASSUME use.sync, ~Called({"mode"}) PROVE Direct'
  BY DEF Direct, Called
<1>2. \A u \in Threads : th'[u].pc \notin Asking \union Filling \union {"sync"}
  BY <1>1 DEF Direct, Others
<1> QED BY <1>1, <1>2 DEF Direct, Filling

(* Who holds the monitor of the store is the only one to put. *)
LEMMA Lone ==
    ASSUME Monitors, NEW t \in Threads, th[t].pc \in Holding \/ storeLock = Nobody
    PROVE  \A u \in Threads : u # t => th[u].pc \notin Filling \union {"sync"}
BY StoreAssumption DEF Monitors, Holding, Filling

(* Every step keeps Direct. *)
LEMMA DirectStep ==
    ASSUME TypeOK, TypeOK', Shape, Monitors, Streams, Lengths, Mode, Direct, NEW t \in Threads,
           UNCHANGED use, Step(t), Others(t)
    PROVE  Direct'
<1>0. Typed /\ Fields(t) /\ Form(t)
  BY FieldTypes DEF TypeOK, Typed, Shape
<1>1. ASSUME NEW k \in Keys, GetStart(t, k) PROVE Direct'
  BY <1>0, <1>1, GetStartEffect, DirectStays DEF GetStart, storage, Filling, Asking
<1>2. ASSUME NEW k \in Keys, RemoveStart(t, k) PROVE Direct'
  BY <1>0, <1>2, RemoveStartEffect, DirectStays DEF RemoveStart, storage, Filling, Asking
<1>3. ASSUME NEW k \in Keys, PackEntry(t, k) PROVE Direct'
  <2>1. th'[t].pc \in {"blocks", "entry"}
    BY <1>0, <1>3 DEF PackEntry, Typed, Thread
  <2> QED BY <1>3, <2>1, DirectStays DEF PackEntry, At, storage, Filling, Asking
<1>4. ASSUME NEW k \in Keys, NEW v \in use.values, PutStart(t, k, v) PROVE Direct'
  BY <1>0, <1>4, PutStartEffect, DirectStays DEF PutStart, storage, Filling, Asking
<1>5. CASE LookInCache(t)
  <2>1. th[t].key \in Keys /\ th[t].meta \in Meta
    BY <1>0, <1>5 DEF LookInCache, At, Form, Fields, Writing
  <2>2. use.sync /\ ~Called({"mode"}) => th'[t].pc \in {"lock", "got", "read"}
    BY <2>1, <1>5, LookInCacheEffect DEF Mode, Gets
  <2> QED BY <2>2, <1>5, DirectStays DEF LookInCache, At, storage, Filling, Asking
<1>6. CASE IsCurrentNode(t)
  <2>1. th[t].pc \in Asking
    BY <1>6 DEF IsCurrentNode, At, Asking
  <2> QED BY <2>1 DEF Direct, Called
<1>7. CASE NeedsFlush(t)
  <2>1. th[t].pc \in Asking
    BY <1>7 DEF NeedsFlush, At, Asking
  <2> QED BY <2>1 DEF Direct, Called
<1>8. CASE GetFlushes(t)
  <2>1. th[t].pc \in Asking
    BY <1>8 DEF GetFlushes, At, Asking
  <2> QED BY <2>1 DEF Direct, Called
<1>9. CASE FlushTooLate(t)
  <2>1. th[t].pc \in Asking
    BY <1>9 DEF FlushTooLate, At, Asking
  <2> QED BY <2>1 DEF Direct, Called
<1>10. CASE ReadFile(t)
  <2>1. th[t].meta \in Meta
    BY <1>0, <1>10 DEF ReadFile, At, Form, Reading, Writing
  <2>2. th'[t].pc \in {"lock", "got", "idle"}
    BY <1>0, <2>1, <1>10, ReadFileEffect DEF Gets, Leaves, Rests, Form, Fields
  <2> QED BY <2>2, <1>10, DirectStays DEF ReadFile, At, storage, Filling, Asking
<1>11. CASE GetReturns(t)
  BY <1>0, <1>11, FinishEffect, DirectStays DEF GetReturns, At, storage, Rests, Filling, Asking
<1>12. CASE PutCache(t)
  <2>1. th'[t].pc = "reserve" /\ Keeps(t) /\ th[t].key \in Keys /\ th[t].pc = "lock"
    BY <1>0, <1>12, GotoEffect DEF PutCache, At, Pcs, Form, Fields, Writing
  <2>2. cache'[th[t].key] = th[t].val
    BY <1>12, <2>1 DEF PutCache, TypeOK
  <2>3. \A u \in Threads : u # t => th[u].pc \notin Filling \union {"sync"}
    BY <1>12, Lone DEF PutCache
  <2>4. UNCHANGED <<use, stream, length, written>>
    BY <1>12 DEF PutCache, storage
  <2>5. SUFFICES ASSUME use.sync, ~Called({"mode"}) PROVE Direct'
    BY DEF Direct, Called
  <2>6. ~(stream # None /\ written[stream] # length[stream])
    BY <2>1, <2>3, <2>5 DEF Direct, Filling
  <2>7. \A u \in Threads : u # t => th'[u].pc \notin Asking \union Filling \union {"sync"}
    BY <2>3, <2>5 DEF Direct, Others
  <2> QED BY <2>1, <2>2, <2>4, <2>6, <2>7 DEF Direct, Keeps, Asking, Filling
<1>13. CASE PutReserve(t)
  <2>1. th'[t].pc = "store" /\ Keeps(t) /\ th[t].key \in Keys /\ th[t].pc = "reserve" /\ th[t].val \in Content
    BY <1>0, <1>13, GotoEffect DEF PutReserve, At, Pcs, Form, Fields, Writing
  <2>2. stream # None /\ Bytes(th[t].val) <= BufferSize /\ UNCHANGED <<use, stream, written, cache>>
        /\ length' = [length EXCEPT ![stream] = length[stream] + Bytes(th[t].val)]
    BY <1>13 DEF PutReserve
  <2>3. \A u \in Threads : u # t => th[u].pc \notin Filling \union {"sync"}
    BY <2>1, Lone DEF Holding
  <2>4. SUFFICES ASSUME use.sync, ~Called({"mode"}) PROVE Direct'
    BY DEF Direct, Called
  <2>5. written[stream] = length[stream]
    BY <2>1, <2>2, <2>3, <2>4 DEF Direct, Filling
  <2>6. length'[stream] = written[stream] + Bytes(th[t].val)
    BY <2>2, <2>5 DEF TypeOK
  <2>7. cache[th[t].key] = th[t].val
    BY <2>1, <2>4 DEF Direct, Filling
  <2>8. \A u \in Threads : u # t => th'[u].pc \notin Asking \union Filling \union {"sync"}
    BY <2>3, <2>4 DEF Direct, Others
  <2>9. Bytes(th[t].val) = Bytes(th[t].val)'
    BY <2>1 DEF Keeps, Bytes
  <2> QED BY <2>1, <2>2, <2>6, <2>7, <2>8, <2>9 DEF Direct, Keeps, Asking, Filling
<1>14. CASE PutRefused(t)
  BY <1>0, <1>14, FinishEffect, DirectStays DEF PutRefused, At, storage, Rests, Filling, Asking
<1>15. CASE PutStore(t)
  <2>1. th'[t].pc = "publish" /\ Keeps(t) /\ th[t].pc = "store" /\ th[t].val \in Content
    BY <1>0, <1>15, GotoEffect DEF PutStore, At, Pcs, Form, Writing
  <2>2. \A u \in Threads : u # t => th[u].pc \notin Filling \union {"sync"}
    BY <2>1, Lone DEF Holding
  <2>3. SUFFICES ASSUME use.sync, ~Called({"mode"}) PROVE Direct'
    BY DEF Direct, Called
  <2>4. /\ length[stream] = written[stream] + Bytes(th[t].val) /\ cache[th[t].key] = th[t].val
        /\ th[t].pc = "store" => Bytes(th[t].val) <= BufferSize
    BY <2>1, <2>3 DEF Direct, Filling
  <2>5. UNCHANGED <<use, stream, length, written, cache>>
    <3>1. stream \in Node
      BY <2>1 DEF Streams, Open, TypeOK
    <3>2. length[stream] \in Nat /\ written[stream] \in Nat /\ Bytes(th[t].val) \in Nat
      BY <2>1, <3>1, BytesType DEF TypeOK
    <3>3. ~(length[stream] - written[stream] > BufferSize)
      BY <2>1, <2>4, <3>2, StoreAssumption
    <3> QED BY <1>15, <3>3 DEF PutStore
  <2>6. \A u \in Threads : u # t => th'[u].pc \notin Asking \union Filling \union {"sync"}
    BY <2>2, <2>3 DEF Direct, Others
  <2>7. Bytes(th[t].val) = Bytes(th[t].val)'
    BY <2>1 DEF Keeps, Bytes
  <2> QED BY <2>1, <2>3, <2>4, <2>5, <2>6, <2>7 DEF Direct, Keeps, Asking, Filling
<1>16. CASE PutPublish(t)
  <2>1. th'[t].pc = "sync" /\ Keeps(t) /\ th[t].pc = "publish" /\ th[t].val \in Content
    BY <1>0, <1>16, GotoEffect DEF PutPublish, At, Pcs, Form, Writing
  <2>2. \A u \in Threads : u # t => th[u].pc \notin Filling \union {"sync"}
    BY <2>1, Lone DEF Holding
  <2>3. SUFFICES ASSUME use.sync, ~Called({"mode"}) PROVE Direct'
    BY DEF Direct, Called
  <2>4. /\ length[stream] = written[stream] + Bytes(th[t].val) /\ cache[th[t].key] = th[t].val
        /\ th[t].pc = "store" => Bytes(th[t].val) <= BufferSize
    BY <2>1, <2>3 DEF Direct, Filling
  <2>5. UNCHANGED <<use, stream, length, written, cache>>
    BY <1>16 DEF PutPublish
  <2>6. \A u \in Threads : u # t => th'[u].pc \notin Asking \union Filling \union {"sync"}
    BY <2>2, <2>3 DEF Direct, Others
  <2>7. Bytes(th[t].val) = Bytes(th[t].val)'
    BY <2>1 DEF Keeps, Bytes
  <2> QED BY <2>1, <2>3, <2>4, <2>5, <2>6, <2>7 DEF Direct, Keeps, Asking, Filling
<1>17. CASE PutSync(t)
  <2>1. th[t].pc = "sync" /\ th'[t].pc \in {"newStore", "unlock"}
    BY <1>0, <1>17, GotoEffect DEF PutSync, At, Pcs
  <2>2. use.sync /\ ~Called({"mode"}) => FlushStream
    BY <1>17 DEF PutSync, Mode
  <2>3. UNCHANGED <<stream, length>>
    BY <1>17 DEF PutSync
  <2> QED BY <2>1, <2>2, <2>3, Lone, FlushEffect, DirectFree DEF Holding, Filling, Asking
<1>18. CASE CloseNode(t)
  <2>1. th[t].pc = "newStore" /\ th'[t].pc = "open" /\ stream' = None
    BY <1>0, <1>18, GotoEffect DEF CloseNode, At, Pcs
  <2> QED BY <2>1, Lone, DirectFree DEF Holding, Filling, Asking
<1>19. CASE OpenNode(t)
  <2>1. th[t].pc = "open" /\ th'[t].pc = "unlock" /\ UNCHANGED <<length, written>>
    BY <1>0, <1>19, GotoEffect DEF OpenNode, At, Pcs
  <2>2. stream = None
    BY <2>1 DEF Streams
  <2>3. stream' # None => stream' = node /\ length[node] = 0
    BY <1>19, <2>1, <2>2 DEF OpenNode, Streams
  <2>4. stream' # None => written'[stream'] = length'[stream']
    BY <2>1, <2>3 DEF Lengths, TypeOK
  <2> QED BY <2>1, <2>4, Lone, DirectFree DEF Holding, Filling, Asking
<1>20. CASE Unlock(t)
  BY <1>0, <1>20, GotoEffect, FinishEffect, DirectStays DEF Unlock, At, storage, Rests, Pcs,
     Filling, Asking, Fields
<1>21. CASE PutClosed(t)
  BY <1>0, <1>21, FinishEffect, DirectStays DEF PutClosed, At, storage, Rests, Filling, Asking
<1>22. CASE Remove(t)
  <2>1. th[t].pc = "remove" /\ Rests(t) /\ UNCHANGED <<stream, length, written>> /\ storeLock = Nobody
    BY <1>0, <1>22, FinishEffect DEF Remove, At, storage
  <2>2. \A u \in Threads : u # t => th[u].pc \notin Filling \union {"sync"}
    BY <2>1, Lone
  <2>3. use.sync /\ ~Called({"mode"}) => (stream # None => written[stream] = length[stream])
    BY <2>1, <2>2 DEF Direct, Filling
  <2> QED BY <2>1, <2>2, <2>3, DirectFree DEF Rests, Filling, Asking
<1>23. CASE Flush(t)
  <2>1. Rests(t) /\ FlushStream /\ storeLock = Nobody /\ UNCHANGED <<stream, length>>
    BY <1>23, BriefEffect DEF Flush
  <2> QED BY <2>1, Lone, FlushEffect, DirectFree DEF Rests, Filling, Asking
<1>24. CASE SetWriteSyn(t)
  BY <1>0, <1>24, BriefEffect, DirectStays DEF SetWriteSyn, storage, Rests, Filling, Asking
<1>25. CASE Close(t)
  BY <1>0, <1>25, CloseEffect, DirectStays DEF Close, storage, Filling, Asking
<1>26. CASE PackStart(t)
  BY <1>0, <1>26, PackStartEffect, DirectStays DEF PackStart, Filling, Asking
<1>27. CASE PackReadMeta(t)
  BY <1>0, <1>27, PackReadMetaEffect, DirectStays DEF PackReadMeta, storage, Rests, Filling, Asking
<1>28. CASE PackDeleteMeta(t)
  BY <1>0, <1>28, GotoEffect, DirectStays DEF PackDeleteMeta, At, Pcs, Filling, Asking
<1>29. CASE PackDeleteNode(t)
  BY <1>0, <1>29, GotoEffect, DirectStays DEF PackDeleteNode, At, Pcs, Filling, Asking
<1> QED BY <1>1, <1>2, <1>3, <1>4, <1>5, <1>6, <1>7, <1>8, <1>9, <1>10, <1>11, <1>12, <1>13, <1>14,
           <1>15, <1>16, <1>17, <1>18, <1>19, <1>20, <1>21, <1>22, <1>23, <1>24, <1>25, <1>26,
           <1>27, <1>28, <1>29 DEF Step

(* A get may return what its key has now, and what a put under way brings. *)
Seen == \A t \in Threads : th[t].op = "get" =>
    /\ current[th[t].key] \in seen[t]
    /\ \A u \in Threads : th[u].op = "put" /\ th[u].key = th[t].key => th[u].val \in seen[t]

(* A step that neither starts nor changes a get or a put. *)
LEMMA SeenStays ==
    ASSUME Seen, NEW t \in Threads, Others(t), UNCHANGED <<current, seen>>,
           th'[t].op \in {"get", "put"} => /\ th'[t].op = th[t].op /\ th'[t].key = th[t].key
                                          /\ th'[t].val = th[t].val
    PROVE  Seen'
BY DEF Seen, Others

(* Every step keeps Seen. *)
LEMMA SeenStep ==
    ASSUME TypeOK, Shape, Seen, NEW t \in Threads, UNCHANGED use, Step(t), Others(t)
    PROVE  Seen'
<1>0. Typed /\ Fields(t) /\ Form(t)
  BY FieldTypes DEF TypeOK, Typed, Shape
<1>30. \A u \in Threads : th[u].op = "get" => th[u].key \in Keys
  BY DEF Shape, Form
<1>1. ASSUME NEW k \in Keys, GetStart(t, k) PROVE Seen'
  <2>1. th'[t].op = "get" /\ th'[t].key = k /\ UNCHANGED current
    BY <1>1, GetStartEffect DEF GetStart
  <2>2. seen' = [seen EXCEPT ![t] = MayReturn(k)] /\ th[t].op = "none"
    BY <1>0, <1>1 DEF GetStart, Call, At, Form
  <2>3. seen'[t] = MayReturn(k) /\ \A u \in Threads : u # t => seen'[u] = seen[u]
    BY <2>2 DEF TypeOK
  <2>4. current[k] \in MayReturn(k)
    BY DEF MayReturn
  <2>5. \A u \in Threads : th[u].op = "put" /\ th[u].key = k => th[u].val \in MayReturn(k)
    BY DEF MayReturn
  <2> QED BY <2>1, <2>2, <2>3, <2>4, <2>5 DEF Seen, Others
<1>2. ASSUME NEW k \in Keys, RemoveStart(t, k) PROVE Seen'
  BY <1>0, <1>2, RemoveStartEffect, SeenStays DEF RemoveStart
<1>3. ASSUME NEW k \in Keys, PackEntry(t, k) PROVE Seen'
  <2>1. th[t].op = "pack" /\ UNCHANGED <<current, seen>>
    BY <1>0, <1>3 DEF PackEntry, At, Form, Fields, Reading, Writing
  <2>2. th'[t].op = th[t].op
    BY <1>0, <1>3 DEF PackEntry, Typed, Thread
  <2> QED BY <2>1, <2>2, SeenStays
<1>4. ASSUME NEW k \in Keys, NEW v \in use.values, PutStart(t, k, v) PROVE Seen'
  <2>1. th'[t].op = "put" /\ th'[t].key = k /\ th'[t].val = v /\ UNCHANGED current
    <3>1. UNCHANGED current
      BY <1>4 DEF PutStart
    <3> QED BY <1>4, <3>1, PutStartEffect
  <2>2. \A u \in Threads : seen'[u] = IF th[u].op = "get" /\ th[u].key = k
                                       THEN seen[u] \union {v} ELSE seen[u]
    BY <1>4 DEF PutStart, AlsoReturn
  <2> QED BY <2>1, <2>2 DEF Seen, Others
<1>5. CASE LookInCache(t)
  <2>1. th[t].key \in Keys /\ th[t].meta \in Meta /\ th[t].op \in {"get", "pack"}
    BY <1>0, <1>5 DEF LookInCache, At, Form, Fields, Writing
  <2>2. Typed' /\ UNCHANGED <<current, seen>> /\ th'[t].op = th[t].op /\ th'[t].key = th[t].key
    BY <2>1, <1>5, LookInCacheEffect DEF LookInCache, Gets, Keeps
  <2> QED BY <2>1, <2>2 DEF Seen, Others
<1>6. CASE IsCurrentNode(t)
  BY <1>0, <1>6, GotoEffect, SeenStays DEF IsCurrentNode, Keeps, Pcs
<1>7. CASE NeedsFlush(t)
  <2>1. th[t].op \in {"get", "pack"}
    BY <1>0, <1>7 DEF NeedsFlush, At, Form, Fields, Writing
  <2>2. UNCHANGED <<current, seen>> /\ (th'[t].op # "none" => th'[t].op = th[t].op /\ th'[t].key = th[t].key)
    BY <1>0, <2>1, <1>7, ThrowEffect, GotoEffect DEF NeedsFlush, Leaves, Rests, Keeps, Pcs
  <2> QED BY <2>1, <2>2 DEF Seen, Others
<1>8. CASE GetFlushes(t)
  BY <1>0, <1>8, GotoEffect, SeenStays DEF GetFlushes, Keeps, Pcs
<1>9. CASE FlushTooLate(t)
  <2>1. th[t].op \in {"get", "pack"}
    BY <1>0, <1>9 DEF FlushTooLate, At, Form, Fields, Writing
  <2>2. UNCHANGED <<current, seen>> /\ (th'[t].op # "none" => th'[t].op = th[t].op /\ th'[t].key = th[t].key)
    BY <1>0, <2>1, <1>9, ThrowEffect DEF FlushTooLate, Leaves, Rests
  <2> QED BY <2>1, <2>2 DEF Seen, Others
<1>10. CASE ReadFile(t)
  <2>1. th[t].meta \in Meta /\ th[t].op \in {"get", "pack"}
    BY <1>0, <1>10 DEF ReadFile, At, Form, Fields, Writing
  <2>2. UNCHANGED <<current, seen>> /\ (th'[t].op # "none" => th'[t].op = th[t].op /\ th'[t].key = th[t].key)
    BY <2>1, <1>10, ReadFileEffect DEF ReadFile, Gets, Leaves, Rests
  <2> QED BY <2>1, <2>2 DEF Seen, Others
<1>11. CASE GetReturns(t)
  <2>1. Rests(t) /\ UNCHANGED current /\ seen' = [seen EXCEPT ![t] = {}]
    BY <1>0, <1>11, FinishEffect DEF GetReturns
  <2>2. \A u \in Threads : u # t => seen'[u] = seen[u]
    BY <2>1 DEF TypeOK
  <2> QED BY <2>1, <2>2 DEF Seen, Others, Rests
<1>12. CASE PutCache(t)
  BY <1>0, <1>12, GotoEffect, SeenStays DEF PutCache, Keeps, Pcs
<1>13. CASE PutReserve(t)
  BY <1>0, <1>13, GotoEffect, SeenStays DEF PutReserve, Keeps, Pcs
<1>14. CASE PutRefused(t)
  BY <1>0, <1>14, FinishEffect, SeenStays DEF PutRefused, Rests
<1>15. CASE PutStore(t)
  BY <1>0, <1>15, GotoEffect, SeenStays DEF PutStore, Keeps, Pcs
<1>16. CASE PutPublish(t)
  <2>1. Keeps(t) /\ th[t].pc = "publish" /\ UNCHANGED seen
        /\ current' = IF th[t].op = "put" THEN [current EXCEPT ![th[t].key] = th[t].val] ELSE current
    BY <1>0, <1>16, GotoEffect DEF PutPublish, At, Pcs
  <2>2. \A u \in Threads : th[u].op = "get" => current'[th[u].key] \in seen[u]
    BY <1>30, <2>1 DEF TypeOK, Seen
  <2> QED BY <2>1, <2>2 DEF Seen, Others, Keeps
<1>17. CASE PutSync(t)
  BY <1>0, <1>17, GotoEffect, SeenStays DEF PutSync, Keeps, Pcs
<1>18. CASE CloseNode(t)
  BY <1>0, <1>18, GotoEffect, SeenStays DEF CloseNode, Keeps, Pcs
<1>19. CASE OpenNode(t)
  BY <1>0, <1>19, GotoEffect, SeenStays DEF OpenNode, Keeps, Pcs
<1>20. CASE Unlock(t)
  BY <1>0, <1>20, GotoEffect, FinishEffect, SeenStays DEF Unlock, Keeps, Rests, Pcs, Fields
<1>21. CASE PutClosed(t)
  BY <1>0, <1>21, FinishEffect, SeenStays DEF PutClosed, Rests
<1>22. CASE Remove(t)
  <2>1. Rests(t) /\ current' = [current EXCEPT ![th[t].key] = None]
    BY <1>0, <1>22, FinishEffect DEF Remove
  <2>2. \A u \in Threads : seen'[u] = IF th[u].op = "get" /\ th[u].key = th[t].key
                                       THEN seen[u] \union {None} ELSE seen[u]
    BY <1>22 DEF Remove, AlsoReturn
  <2>3. \A u \in Threads : th[u].op = "get" => current'[th[u].key] \in seen'[u]
    BY <1>30, <2>1, <2>2 DEF TypeOK, Seen
  <2>4. ASSUME NEW u \in Threads, th'[u].op = "get"
        PROVE  u # t /\ th'[u] = th[u] /\ seen[u] \subseteq seen'[u]
    BY <2>1, <2>2, <2>4 DEF Others, Rests
  <2>5. ASSUME NEW u \in Threads, th'[u].op = "put" PROVE th'[u] = th[u]
    BY <2>1, <2>5 DEF Others, Rests
  <2> QED BY <2>3, <2>4, <2>5 DEF Seen
<1>23. CASE Flush(t)
  BY <1>0, <1>23, BriefEffect, SeenStays DEF Flush, Rests
<1>24. CASE SetWriteSyn(t)
  BY <1>0, <1>24, BriefEffect, SeenStays DEF SetWriteSyn, Rests
<1>25. CASE Close(t)
  BY <1>0, <1>25, CloseEffect, SeenStays DEF Close
<1>26. CASE PackStart(t)
  BY <1>0, <1>26, PackStartEffect, SeenStays DEF PackStart
<1>27. CASE PackReadMeta(t)
  <2>1. th[t].op = "pack" /\ UNCHANGED <<current, seen>>
    BY <1>0, <1>27 DEF PackReadMeta, At, Form, Fields, Reading, Writing
  <2>2. th'[t].op \in {"none", "pack"}
    BY <2>1, <1>27, PackReadMetaEffect DEF Rests
  <2> QED BY <2>1, <2>2, SeenStays
<1>28. CASE PackDeleteMeta(t)
  BY <1>0, <1>28, GotoEffect, SeenStays DEF PackDeleteMeta, Keeps, Pcs
<1>29. CASE PackDeleteNode(t)
  BY <1>0, <1>29, GotoEffect, SeenStays DEF PackDeleteNode, Keeps, Pcs
<1> QED BY <1>1, <1>2, <1>3, <1>4, <1>5, <1>6, <1>7, <1>8, <1>9, <1>10, <1>11, <1>12, <1>13, <1>14,
           <1>15, <1>16, <1>17, <1>18, <1>19, <1>20, <1>21, <1>22, <1>23, <1>24, <1>25, <1>26,
           <1>27, <1>28, <1>29 DEF Step


-----------------------------------------------------------------------------
(* What the other threads do to a get. *)

(* The steps that lead to a place in a get. *)
LEMMA GetSteps ==
    ASSUME TypeOK, NEW t \in Threads, Form(t), UNCHANGED use, Step(t), th'[t].op = "get"
    PROVE  \/ \E k \in Keys : GetStart(t, k)
           \/ LookInCache(t) \/ IsCurrentNode(t) \/ NeedsFlush(t) \/ GetFlushes(t)
           \/ FlushTooLate(t) \/ ReadFile(t)
<1> DEFINE Goal == \/ \E k \in Keys : GetStart(t, k)
                   \/ LookInCache(t) \/ IsCurrentNode(t) \/ NeedsFlush(t) \/ GetFlushes(t)
                   \/ FlushTooLate(t) \/ ReadFile(t)
<1>0. Typed /\ Fields(t)
  BY FieldTypes DEF TypeOK, Typed
<1>1. ASSUME NEW k \in Keys, GetStart(t, k) PROVE Goal
  BY <1>1
<1>2. ASSUME NEW k \in Keys, RemoveStart(t, k) PROVE Goal
  BY <1>0, <1>2, RemoveStartEffect DEF RemoveStart
<1>3. ASSUME NEW k \in Keys, PackEntry(t, k) PROVE Goal
  <2>1. th[t].op = "pack"
    BY <1>0, <1>3 DEF PackEntry, At, Form, Fields, Reading, Writing
  <2>2. th'[t].op = th[t].op
    BY <1>0, <1>3 DEF PackEntry, Typed, Thread
  <2> QED BY <2>1, <2>2
<1>4. ASSUME NEW k \in Keys, NEW v \in use.values, PutStart(t, k, v) PROVE Goal
  BY <1>0, <1>4, PutStartEffect DEF PutStart
<1>5. CASE LookInCache(t)
  BY <1>5
<1>6. CASE IsCurrentNode(t)
  BY <1>6
<1>7. CASE NeedsFlush(t)
  BY <1>7
<1>8. CASE GetFlushes(t)
  BY <1>8
<1>9. CASE FlushTooLate(t)
  BY <1>9
<1>10. CASE ReadFile(t)
  BY <1>10
<1>11. CASE GetReturns(t)
  BY <1>0, <1>11, FinishEffect DEF GetReturns, Rests
<1>12. CASE PutCache(t)
  BY <1>0, <1>12, GotoEffect DEF PutCache, At, Keeps, Pcs, Form, Reading
<1>13. CASE PutReserve(t)
  BY <1>0, <1>13, GotoEffect DEF PutReserve, At, Keeps, Pcs, Form, Reading
<1>14. CASE PutRefused(t)
  BY <1>0, <1>14, FinishEffect DEF PutRefused, Rests
<1>15. CASE PutStore(t)
  BY <1>0, <1>15, GotoEffect DEF PutStore, At, Keeps, Pcs, Form, Reading
<1>16. CASE PutPublish(t)
  BY <1>0, <1>16, GotoEffect DEF PutPublish, At, Keeps, Pcs, Form, Reading
<1>17. CASE PutSync(t)
  BY <1>0, <1>17, GotoEffect DEF PutSync, At, Keeps, Pcs, Form, Reading
<1>18. CASE CloseNode(t)
  BY <1>0, <1>18, GotoEffect DEF CloseNode, At, Keeps, Pcs, Form, Reading
<1>19. CASE OpenNode(t)
  BY <1>0, <1>19, GotoEffect DEF OpenNode, At, Keeps, Pcs, Form, Reading
<1>20. CASE Unlock(t)
  BY <1>0, <1>20, GotoEffect, FinishEffect DEF Unlock, At, Keeps, Rests, Pcs, Form, Fields, Reading
<1>21. CASE PutClosed(t)
  BY <1>0, <1>21, FinishEffect DEF PutClosed, Rests
<1>22. CASE Remove(t)
  BY <1>0, <1>22, FinishEffect DEF Remove, Rests
<1>23. CASE Flush(t)
  BY <1>0, <1>23, BriefEffect DEF Flush, Rests
<1>24. CASE SetWriteSyn(t)
  BY <1>0, <1>24, BriefEffect DEF SetWriteSyn, Rests
<1>25. CASE Close(t)
  BY <1>0, <1>25, CloseEffect DEF Close
<1>26. CASE PackStart(t)
  BY <1>0, <1>26, PackStartEffect DEF PackStart
<1>27. CASE PackReadMeta(t)
  <2>1. th[t].op = "pack"
    BY <1>0, <1>27 DEF PackReadMeta, At, Form, Fields, Reading, Writing
  <2> QED BY <2>1, <1>27, PackReadMetaEffect DEF Rests
<1>28. CASE PackDeleteMeta(t)
  BY <1>0, <1>28, GotoEffect DEF PackDeleteMeta, At, Keeps, Pcs, Form, Reading
<1>29. CASE PackDeleteNode(t)
  BY <1>0, <1>29, GotoEffect DEF PackDeleteNode, At, Keeps, Pcs, Form, Reading
<1> QED BY <1>1, <1>2, <1>3, <1>4, <1>5, <1>6, <1>7, <1>8, <1>9, <1>10, <1>11, <1>12, <1>13, <1>14,
           <1>15, <1>16, <1>17, <1>18, <1>19, <1>20, <1>21, <1>22, <1>23, <1>24, <1>25, <1>26,
           <1>27, <1>28, <1>29 DEF Step

(* Who steps has called an operation. *)
LEMMA CallerCalls ==
    ASSUME NEW t \in Threads, Form(t), Step(t)
    PROVE  use.calls[t] # {}
<1>1. ASSUME NEW k \in Keys, GetStart(t, k) PROVE use.calls[t] # {}
  BY <1>1 DEF GetStart, Call
<1>2. ASSUME NEW k \in Keys, RemoveStart(t, k) PROVE use.calls[t] # {}
  BY <1>2 DEF RemoveStart, Call
<1>3. ASSUME NEW k \in Keys, PackEntry(t, k) PROVE use.calls[t] # {}
  BY <1>3 DEF PackEntry, At, Form
<1>4. ASSUME NEW k \in Keys, NEW v \in use.values, PutStart(t, k, v) PROVE use.calls[t] # {}
  BY <1>4 DEF PutStart, Call
<1>5. CASE LookInCache(t)
  BY <1>5 DEF LookInCache, At, Form
<1>6. CASE IsCurrentNode(t)
  BY <1>6 DEF IsCurrentNode, At, Form
<1>7. CASE NeedsFlush(t)
  BY <1>7 DEF NeedsFlush, At, Form
<1>8. CASE GetFlushes(t)
  BY <1>8 DEF GetFlushes, At, Form
<1>9. CASE FlushTooLate(t)
  BY <1>9 DEF FlushTooLate, At, Form
<1>10. CASE ReadFile(t)
  BY <1>10 DEF ReadFile, At, Form
<1>11. CASE GetReturns(t)
  BY <1>11 DEF GetReturns, At, Form
<1>12. CASE PutCache(t)
  BY <1>12 DEF PutCache, At, Form
<1>13. CASE PutReserve(t)
  BY <1>13 DEF PutReserve, At, Form
<1>14. CASE PutRefused(t)
  BY <1>14 DEF PutRefused, At, Form
<1>15. CASE PutStore(t)
  BY <1>15 DEF PutStore, At, Form
<1>16. CASE PutPublish(t)
  BY <1>16 DEF PutPublish, At, Form
<1>17. CASE PutSync(t)
  BY <1>17 DEF PutSync, At, Form
<1>18. CASE CloseNode(t)
  BY <1>18 DEF CloseNode, At, Form
<1>19. CASE OpenNode(t)
  BY <1>19 DEF OpenNode, At, Form
<1>20. CASE Unlock(t)
  BY <1>20 DEF Unlock, At, Form
<1>21. CASE PutClosed(t)
  BY <1>21 DEF PutClosed, At, Form
<1>22. CASE Remove(t)
  BY <1>22 DEF Remove, At, Form
<1>23. CASE Flush(t)
  BY <1>23 DEF Flush, Call
<1>24. CASE SetWriteSyn(t)
  BY <1>24 DEF SetWriteSyn, Call
<1>25. CASE Close(t)
  BY <1>25 DEF Close, Call
<1>26. CASE PackStart(t)
  BY <1>26 DEF PackStart, Call
<1>27. CASE PackReadMeta(t)
  BY <1>27 DEF PackReadMeta, At, Form
<1>28. CASE PackDeleteMeta(t)
  BY <1>28 DEF PackDeleteMeta, At, Form
<1>29. CASE PackDeleteNode(t)
  BY <1>29 DEF PackDeleteNode, At, Form
<1> QED BY <1>1, <1>2, <1>3, <1>4, <1>5, <1>6, <1>7, <1>8, <1>9, <1>10, <1>11, <1>12, <1>13, <1>14,
           <1>15, <1>16, <1>17, <1>18, <1>19, <1>20, <1>21, <1>22, <1>23, <1>24, <1>25, <1>26,
           <1>27, <1>28, <1>29 DEF Step

(* Files only grow. *)
Grow ==
    /\ \A n \in Node : length[n] <= length'[n] /\ written[n] <= written'[n]
    /\ nodeFiles \subseteq nodeFiles'

(* A flush takes nothing from a file. *)
LEMMA FlushGrows ==
    ASSUME TypeOK, Lengths, FlushStream, NEW n \in Node
    PROVE  written[n] <= written'[n]
<1>1. written[n] \in Nat /\ written[n] <= length[n] /\ (n = stream => stream # None)
  BY StoreAssumption DEF TypeOK, Lengths
<1> QED BY <1>1, FlushEffect

(* But for pack nothing takes away what a file has. *)
LEMMA GrowStep ==
    ASSUME TypeOK, Streams, Lengths, NEW t \in Threads, Form(t), UNCHANGED use, Step(t), ~Called({"pack"})
    PROVE  Grow
<1>0. /\ \A n \in Node : /\ length[n] \in Nat /\ written[n] \in Nat
                         /\ length[n] <= length[n] /\ written[n] <= written[n]
      /\ Typed /\ Fields(t)
  BY FieldTypes DEF TypeOK, Typed
<1>1. ASSUME NEW k \in Keys, GetStart(t, k) PROVE Grow
  BY <1>0, <1>1 DEF GetStart, Grow, storage
<1>2. ASSUME NEW k \in Keys, RemoveStart(t, k) PROVE Grow
  BY <1>0, <1>2 DEF RemoveStart, Grow, storage
<1>3. ASSUME NEW k \in Keys, PackEntry(t, k) PROVE Grow
  BY <1>0, <1>3 DEF PackEntry, Grow, storage
<1>4. ASSUME NEW k \in Keys, NEW v \in use.values, PutStart(t, k, v) PROVE Grow
  BY <1>0, <1>4 DEF PutStart, Grow, storage
<1>5. CASE LookInCache(t)
  BY <1>0, <1>5 DEF LookInCache, Grow, storage
<1>6. CASE IsCurrentNode(t)
  BY <1>0, <1>6 DEF IsCurrentNode, Grow, storage
<1>7. CASE NeedsFlush(t)
  BY <1>0, <1>7 DEF NeedsFlush, Grow, storage
<1>8. CASE GetFlushes(t)
  <2>1. FlushStream /\ UNCHANGED length
    BY <1>8 DEF GetFlushes
  <2>2. \A n \in Node : written[n] <= written'[n]
    BY <1>0, <2>1, FlushGrows
  <2> QED BY <1>0, <2>1, <2>2, FlushEffect DEF Grow
<1>9. CASE FlushTooLate(t)
  BY <1>0, <1>9 DEF FlushTooLate, Grow, storage
<1>10. CASE ReadFile(t)
  BY <1>0, <1>10 DEF ReadFile, Grow, storage
<1>11. CASE GetReturns(t)
  BY <1>0, <1>11 DEF GetReturns, Grow, storage
<1>12. CASE PutCache(t)
  BY <1>0, <1>12 DEF PutCache, Grow, storage
<1>13. CASE PutReserve(t)
  <2>1. th[t].pc = "reserve" /\ UNCHANGED <<written, nodeFiles>> /\ stream # None
        /\ length' = [length EXCEPT ![stream] = length[stream] + Bytes(th[t].val)]
    BY <1>13 DEF PutReserve, At
  <2>2. Bytes(th[t].val) \in Nat
    BY <2>1, BytesType DEF Form, Writing
  <2>3. \A n \in Node : length'[n] = length[n] \/ length'[n] = length[n] + Bytes(th[t].val)
    BY <1>0, <2>1 DEF TypeOK
  <2> QED BY <1>0, <2>1, <2>2, <2>3 DEF Grow
<1>14. CASE PutRefused(t)
  BY <1>0, <1>14 DEF PutRefused, Grow, storage
<1>15. CASE PutStore(t)
  <2>1. UNCHANGED length /\ nodeFiles \subseteq nodeFiles'
        /\ (written' = written \/ written' = [written EXCEPT ![stream] = written[stream] + BufferSize])
    BY <1>15 DEF PutStore
  <2>2. \A n \in Node : written'[n] = written[n] \/ written'[n] = written[n] + BufferSize
    BY <1>0, <2>1 DEF TypeOK
  <2> QED BY <1>0, <2>1, <2>2, StoreAssumption DEF Grow
<1>16. CASE PutPublish(t)
  BY <1>0, <1>16 DEF PutPublish, Grow
<1>17. CASE PutSync(t)
  <2>1. UNCHANGED length /\ (FlushStream \/ UNCHANGED <<written, nodeFiles>>)
    BY <1>17 DEF PutSync
  <2>2. \A n \in Node : written[n] <= written'[n]
    BY <1>0, <2>1, FlushGrows
  <2> QED BY <1>0, <2>1, <2>2, FlushEffect DEF Grow
<1>18. CASE CloseNode(t)
  <2>1. FlushStream /\ UNCHANGED length
    BY <1>18 DEF CloseNode
  <2>2. \A n \in Node : written[n] <= written'[n]
    BY <1>0, <2>1, FlushGrows
  <2> QED BY <1>0, <2>1, <2>2, FlushEffect DEF Grow
<1>19. CASE OpenNode(t)
  BY <1>0, <1>19 DEF OpenNode, Grow
<1>20. CASE Unlock(t)
  BY <1>0, <1>20 DEF Unlock, Grow, storage
<1>21. CASE PutClosed(t)
  BY <1>0, <1>21 DEF PutClosed, Grow, storage
<1>22. CASE Remove(t)
  BY <1>0, <1>22 DEF Remove, Grow, storage
<1>23. CASE Flush(t)
  <2>1. FlushStream /\ UNCHANGED length
    BY <1>23 DEF Flush
  <2>2. \A n \in Node : written[n] <= written'[n]
    BY <1>0, <2>1, FlushGrows
  <2> QED BY <1>0, <2>1, <2>2, FlushEffect DEF Grow
<1>24. CASE SetWriteSyn(t)
  BY <1>0, <1>24 DEF SetWriteSyn, Grow, storage
<1>25. CASE Close(t)
  BY <1>0, <1>25 DEF Close, Grow, storage
<1>26. CASE PackStart(t)
  BY <1>0, <1>26 DEF PackStart, Grow
<1>27. CASE PackReadMeta(t)
  BY <1>0, <1>27 DEF PackReadMeta, Grow, storage
<1>28. CASE PackDeleteMeta(t)
  BY <1>0, <1>28 DEF PackDeleteMeta, Grow
<1>29. CASE PackDeleteNode(t)
  <2>1. th[t].op = "pack"
    BY <1>0, <1>29 DEF PackDeleteNode, At, Form, Fields, Reading, Writing
  <2> QED BY <2>1 DEF Form, Called
<1> QED BY <1>1, <1>2, <1>3, <1>4, <1>5, <1>6, <1>7, <1>8, <1>9, <1>10, <1>11, <1>12, <1>13, <1>14,
           <1>15, <1>16, <1>17, <1>18, <1>19, <1>20, <1>21, <1>22, <1>23, <1>24, <1>25, <1>26,
           <1>27, <1>28, <1>29 DEF Step

(* A get that is under way loses nothing that it may return. *)
LEMMA SeenGrows ==
    ASSUME TypeOK, NEW t \in Threads, Step(t), NEW u \in Threads, u # t
    PROVE  seen[u] \subseteq seen'[u]
<1>1. ASSUME NEW k \in Keys, GetStart(t, k) PROVE seen[u] \subseteq seen'[u]
  BY <1>1 DEF GetStart, TypeOK
<1>2. ASSUME NEW k \in Keys, RemoveStart(t, k) PROVE seen[u] \subseteq seen'[u]
  BY <1>2 DEF RemoveStart, TypeOK
<1>3. ASSUME NEW k \in Keys, PackEntry(t, k) PROVE seen[u] \subseteq seen'[u]
  BY <1>3 DEF PackEntry, TypeOK
<1>4. ASSUME NEW k \in Keys, NEW v \in use.values, PutStart(t, k, v) PROVE seen[u] \subseteq seen'[u]
  BY <1>4 DEF PutStart, AlsoReturn, TypeOK
<1>5. CASE LookInCache(t)
  BY <1>5 DEF LookInCache, TypeOK
<1>6. CASE IsCurrentNode(t)
  BY <1>6 DEF IsCurrentNode, TypeOK
<1>7. CASE NeedsFlush(t)
  BY <1>7 DEF NeedsFlush, TypeOK
<1>8. CASE GetFlushes(t)
  BY <1>8 DEF GetFlushes, TypeOK
<1>9. CASE FlushTooLate(t)
  BY <1>9 DEF FlushTooLate, TypeOK
<1>10. CASE ReadFile(t)
  BY <1>10 DEF ReadFile, TypeOK
<1>11. CASE GetReturns(t)
  BY <1>11 DEF GetReturns, TypeOK
<1>12. CASE PutCache(t)
  BY <1>12 DEF PutCache, TypeOK
<1>13. CASE PutReserve(t)
  BY <1>13 DEF PutReserve, TypeOK
<1>14. CASE PutRefused(t)
  BY <1>14 DEF PutRefused, TypeOK
<1>15. CASE PutStore(t)
  BY <1>15 DEF PutStore, TypeOK
<1>16. CASE PutPublish(t)
  BY <1>16 DEF PutPublish, TypeOK
<1>17. CASE PutSync(t)
  BY <1>17 DEF PutSync, TypeOK
<1>18. CASE CloseNode(t)
  BY <1>18 DEF CloseNode, TypeOK
<1>19. CASE OpenNode(t)
  BY <1>19 DEF OpenNode, TypeOK
<1>20. CASE Unlock(t)
  BY <1>20 DEF Unlock, TypeOK
<1>21. CASE PutClosed(t)
  BY <1>21 DEF PutClosed, TypeOK
<1>22. CASE Remove(t)
  BY <1>22 DEF Remove, AlsoReturn, TypeOK
<1>23. CASE Flush(t)
  BY <1>23 DEF Flush, TypeOK
<1>24. CASE SetWriteSyn(t)
  BY <1>24 DEF SetWriteSyn, TypeOK
<1>25. CASE Close(t)
  BY <1>25 DEF Close, TypeOK
<1>26. CASE PackStart(t)
  BY <1>26 DEF PackStart, TypeOK
<1>27. CASE PackReadMeta(t)
  BY <1>27 DEF PackReadMeta, TypeOK
<1>28. CASE PackDeleteMeta(t)
  BY <1>28 DEF PackDeleteMeta, TypeOK
<1>29. CASE PackDeleteNode(t)
  BY <1>29 DEF PackDeleteNode, TypeOK
<1> QED BY <1>1, <1>2, <1>3, <1>4, <1>5, <1>6, <1>7, <1>8, <1>9, <1>10, <1>11, <1>12, <1>13, <1>14,
           <1>15, <1>16, <1>17, <1>18, <1>19, <1>20, <1>21, <1>22, <1>23, <1>24, <1>25, <1>26,
           <1>27, <1>28, <1>29 DEF Step

(* Only the flush of the put that holds the monitor disturbs the stream    *)
(* while a put is about to flush.                                          *)
LEMMA SyncKeepsStream ==
    ASSUME TypeOK, Monitors, NEW t \in Threads, Form(t), Step(t), NEW u \in Threads, th[u].pc = "sync"
    PROVE  UNCHANGED stream /\ (u = t => PutSync(t))
<1>0. storeLock = u /\ storeLock # Nobody
  BY StoreAssumption DEF Monitors, Holding
<1>1. ASSUME NEW k \in Keys, GetStart(t, k) PROVE UNCHANGED stream /\ (u = t => PutSync(t))
  BY <1>0, <1>1 DEF GetStart, storage, At, Call
<1>2. ASSUME NEW k \in Keys, RemoveStart(t, k) PROVE UNCHANGED stream /\ (u = t => PutSync(t))
  BY <1>0, <1>2 DEF RemoveStart, storage, At, Call
<1>3. ASSUME NEW k \in Keys, PackEntry(t, k) PROVE UNCHANGED stream /\ (u = t => PutSync(t))
  BY <1>0, <1>3 DEF PackEntry, storage, At
<1>4. ASSUME NEW k \in Keys, NEW v \in use.values, PutStart(t, k, v)
      PROVE  UNCHANGED stream /\ (u = t => PutSync(t))
  BY <1>0, <1>4 DEF PutStart, storage, At, Call
<1>5. CASE LookInCache(t)
  BY <1>0, <1>5 DEF LookInCache, storage, At
<1>6. CASE IsCurrentNode(t)
  BY <1>0, <1>6 DEF IsCurrentNode, storage, At
<1>7. CASE NeedsFlush(t)
  BY <1>0, <1>7 DEF NeedsFlush, storage, At
<1>8. CASE GetFlushes(t)
  BY <1>0, <1>8 DEF GetFlushes, At
<1>9. CASE FlushTooLate(t)
  BY <1>0, <1>9 DEF FlushTooLate, storage, At
<1>10. CASE ReadFile(t)
  BY <1>0, <1>10 DEF ReadFile, storage, At
<1>11. CASE GetReturns(t)
  BY <1>0, <1>11 DEF GetReturns, storage, At
<1>12. CASE PutCache(t)
  BY <1>0, <1>12 DEF PutCache
<1>13. CASE PutReserve(t)
  BY <1>0, <1>13 DEF PutReserve, At
<1>14. CASE PutRefused(t)
  BY <1>0, <1>14 DEF PutRefused, storage, At
<1>15. CASE PutStore(t)
  BY <1>0, <1>15 DEF PutStore, At
<1>16. CASE PutPublish(t)
  BY <1>0, <1>16 DEF PutPublish, At
<1>17. CASE PutSync(t)
  BY <1>17 DEF PutSync
<1>18. CASE CloseNode(t)
  <2>1. th[t].pc \in {"newStore", "open"}
    BY <1>18 DEF CloseNode, At
  <2>2. storeLock = t
    BY <2>1 DEF Monitors, Holding
  <2> QED BY <1>0, <2>1, <2>2
<1>19. CASE OpenNode(t)
  <2>1. th[t].pc \in {"newStore", "open"}
    BY <1>19 DEF OpenNode, At
  <2>2. storeLock = t
    BY <2>1 DEF Monitors, Holding
  <2> QED BY <1>0, <2>1, <2>2
<1>20. CASE Unlock(t)
  BY <1>0, <1>20 DEF Unlock, storage, At
<1>21. CASE PutClosed(t)
  BY <1>0, <1>21 DEF PutClosed, storage, At
<1>22. CASE Remove(t)
  BY <1>0, <1>22 DEF Remove
<1>23. CASE Flush(t)
  BY <1>0, <1>23 DEF Flush
<1>24. CASE SetWriteSyn(t)
  BY <1>0, <1>24 DEF SetWriteSyn
<1>25. CASE Close(t)
  BY <1>0, <1>25 DEF Close
<1>26. CASE PackStart(t)
  BY <1>0, <1>26 DEF PackStart
<1>27. CASE PackReadMeta(t)
  BY <1>0, <1>27 DEF PackReadMeta, storage, At
<1>28. CASE PackDeleteMeta(t)
  BY <1>0, <1>28 DEF PackDeleteMeta, At
<1>29. CASE PackDeleteNode(t)
  BY <1>0, <1>29 DEF PackDeleteNode, At
<1> QED BY <1>1, <1>2, <1>3, <1>4, <1>5, <1>6, <1>7, <1>8, <1>9, <1>10, <1>11, <1>12, <1>13, <1>14,
           <1>15, <1>16, <1>17, <1>18, <1>19, <1>20, <1>21, <1>22, <1>23, <1>24, <1>25, <1>26,
           <1>27, <1>28, <1>29 DEF Step


-----------------------------------------------------------------------------
(* The gets. *)

(* Several threads with synchronous writing: what a get has looked up is   *)
(* in its file, or a put is about to flush it and it is in the cache.      *)
Together ==
    /\ AllFit /\ use.sync /\ ~Called({"mode"}) /\ ~Called({"close"}) /\ ~Called({"pack"})
    /\ \A v, w \in use.values : Zipped[v] = Zipped[w]

(* A get is given a meta it may return, whose bytes it will find in the file *)
(* or in the cache.                                                          *)
SyncGet(t) == th[t].op = "get" =>
    /\ th[t].pc \in Reading =>
          /\ th[t].meta.val \in seen[t] /\ th[t].meta.val \in use.values
          /\ \A v \in use.values : th[t].meta.zip = Zipped[v]
          /\ MetaEnd(th[t].meta) <= length[th[t].meta.node]
          /\ \/ InFile(th[t].meta)
             \/ /\ th[t].pc = "blocks" /\ th[t].meta.node = stream
                /\ \E u \in Threads : th[u].pc = "sync" /\ th[u].key = th[t].key
    /\ th[t].pc = "got" => th[t].res \in seen[t]

(* So with every get, in the uses of Together. *)
SyncGets == Together => \A t \in Threads : SyncGet(t)

(* One thread alone: what a get has looked up is still what the key has.   *)
ByOne == AllFit /\ Alone /\ ~Called({"mode"}) /\ ~Called({"close"})

(* What a get has looked up is still in the index, and flushed before it is  *)
(* read.                                                                     *)
LoneGet(t) == th[t].op = "get" =>
    /\ th[t].pc \in Reading => fileMeta[th[t].key] = th[t].meta
    /\ th[t].pc \in {"needsFlush", "flush"} => th[t].meta.node = node
    /\ th[t].pc = "read" => InFile(th[t].meta)
    /\ th[t].pc = "got" => th[t].res \in seen[t]

(* So with every get, in the uses of ByOne. *)
LoneGets == ByOne => \A t \in Threads : LoneGet(t)

(* What the two invariants about gets rest on. *)
Base == /\ TypeOK /\ Shape /\ Monitors /\ Streams /\ Lengths /\ Live /\ Packs /\ Kept /\ Synced
        /\ Opened /\ Filled /\ Cached /\ Mode /\ Direct /\ Seen

(* What is in a file stays in it, as files only grow. *)
LEMMA InFileStays ==
    ASSUME TypeOK, TypeOK', NEW m \in Meta, InFile(m), Grow
    PROVE  m.node \in nodeFiles' /\ MetaEnd(m) <= written'[m.node]
<1>1. PICK e : e = MetaEnd(m)
  OBVIOUS
<1>2. m.node \in Node /\ m.off \in Nat /\ m.val \in Content
  BY DEF Meta
<1>3. e \in Nat /\ written[m.node] \in Nat /\ written'[m.node] \in Nat
  BY <1>1, <1>2, BytesType DEF MetaEnd, TypeOK
<1>4. e <= written[m.node] /\ written[m.node] <= written'[m.node] /\ m.node \in nodeFiles'
  BY <1>1, <1>2 DEF InFile, Grow
<1> QED BY <1>1, <1>3, <1>4

(* A step of another thread leaves to a get what it may return. *)
LEMMA SyncGetBeside ==
    ASSUME Base, TypeOK', Together, NEW a \in Threads, UNCHANGED use, Step(a), Others(a),
           NEW t \in Threads, t # a, SyncGet(t)
    PROVE  SyncGet(t)'
<1>0. /\ TypeOK /\ Monitors /\ Streams /\ Lengths /\ Form(a) /\ Form(t) /\ Fields(t) /\ Mode
      /\ th'[t] = th[t] /\ use.sync /\ ~Called({"mode"})
  BY FieldTypes DEF Base, Shape, Others, TypeOK, Typed, Together
<1>1. seen[t] \subseteq seen'[t]
  BY <1>0, SeenGrows
<1>2. Grow
  BY <1>0, GrowStep DEF Together
<1>3. SUFFICES ASSUME th[t].op = "get", th[t].pc \in Reading
      PROVE /\ MetaEnd(th[t].meta) <= length'[th[t].meta.node]
            /\ \/ th[t].meta.node \in nodeFiles' /\ MetaEnd(th[t].meta) <= written'[th[t].meta.node]
               \/ /\ th[t].pc = "blocks" /\ th[t].meta.node = stream'
                  /\ \E u \in Threads : th'[u].pc = "sync" /\ th'[u].key = th[t].key
  BY <1>0, <1>1 DEF SyncGet, InFile, MetaEnd, Bytes
<1>4. PICK m : m = th[t].meta
  OBVIOUS
<1>5. m \in Meta /\ m.node \in Node /\ m.off \in Nat /\ m.val \in Content
  BY <1>0, <1>3, <1>4 DEF Form, Meta
<1>6. PICK e : e = MetaEnd(m)
  OBVIOUS
<1>7. e \in Nat /\ e >= 1 /\ length[m.node] \in Nat /\ length'[m.node] \in Nat
      /\ e <= length[m.node] /\ length[m.node] <= length'[m.node]
  <2>1. e \in Nat /\ e >= 1
    BY <1>5, <1>6, BytesType DEF MetaEnd
  <2>2. e <= length[m.node]
    BY <1>3, <1>4, <1>6 DEF SyncGet
  <2> QED BY <1>0, <1>2, <1>5, <2>1, <2>2 DEF TypeOK, Grow
<1>8. CASE InFile(m)
  BY <1>0, <1>2, <1>4, <1>5, <1>6, <1>7, <1>8, InFileStays
<1>9. CASE ~InFile(m)
  <2>1. PICK u \in Threads : th[u].pc = "sync" /\ th[u].key = th[t].key
    BY <1>3, <1>4, <1>9 DEF SyncGet
  <2>2. th[t].pc = "blocks" /\ m.node = stream
    BY <1>3, <1>4, <1>9 DEF SyncGet
  <2>3. stream' = stream /\ (u = a => PutSync(a))
    BY <1>0, <2>1, SyncKeepsStream
  <2>4. CASE u # a
    BY <1>4, <1>6, <1>7, <2>1, <2>2, <2>3, <2>4 DEF Others
  <2>5. CASE u = a
    <3>1. FlushStream
      BY <1>0, <2>3, <2>5 DEF PutSync, Mode
    <3>2. stream # None /\ written'[stream] = length[stream] /\ length[stream] > 0
      BY <1>0, <1>5, <1>7, <2>2, <3>1, FlushEffect, StoreAssumption
    <3>3. stream \in nodeFiles'
      BY <1>0, <3>1, <3>2, FlushEffect DEF Streams
    <3> QED BY <1>4, <1>6, <1>7, <2>2, <3>2, <3>3
  <2> QED BY <2>4, <2>5
<1> QED BY <1>8, <1>9

(* What a get finds when it starts. *)
LEMMA LookedUp ==
    ASSUME Base, PackAlone, NEW k \in Keys, fileMeta[k] # None
    PROVE  /\ fileMeta[k] \in Meta /\ LiveMeta(k, fileMeta[k])
           /\ fileMeta[k].val = current[k] /\ fileMeta[k].val \in use.values
           /\ fileMeta[k].zip = Zipped[fileMeta[k].val]
BY DEF Base, TypeOK, Kept, Agree, Live

(* A key the index does not have has nothing. *)
LEMMA NothingThere ==
    ASSUME Base, PackAlone, NEW k \in Keys, fileMeta[k] = None
    PROVE  current[k] = None
BY DEF Base, Kept, Agree

(* Bytes with the header they were put with. *)
LEMMA Decoded ==
    ASSUME Base, NEW v \in use.values
    PROVE  v \in Values /\ v # None /\ Decode(v, Zipped[v]) = v
BY UseTypes, StoreAssumption DEF Base, TypeOK, Decode

(* What a get finds in the cache. *)
LEMMA CachedMayReturn ==
    ASSUME Base, PackAlone, AllFit, ~Called({"close"}), NEW t \in Threads, th[t].op = "get",
           cache[th[t].key] # None, \A u \in Threads : th[u].pc \in Filling => th[u].op # "pack"
    PROVE  cache[th[t].key] \in seen[t] /\ cache[th[t].key] \in use.values
<1>1. th[t].key \in Keys
  BY DEF Base, Shape, Form
<1>2. PICK v : v = cache[th[t].key]
  OBVIOUS
<1>3. CASE v = current[th[t].key]
  <2>1. fileMeta[th[t].key] # None
    BY <1>1, <1>2, <1>3, NothingThere
  <2> QED BY <1>1, <1>2, <1>3, <2>1, LookedUp DEF Base, Seen
<1>4. CASE Given(th[t].key)
  <2>1. PICK u \in Threads : th[u].pc \in Filling /\ th[u].key = th[t].key /\ th[u].val = v
    BY <1>2, <1>4 DEF Given
  <2>2. th[u].op = "put"
    <3>1. Form(u) /\ Fields(u)
      BY FieldTypes DEF Base, Shape, TypeOK, Typed
    <3> QED BY <2>1, <3>1 DEF Form, Fields, Filling, Reading, Writing
  <2>3. v \in use.values
    BY <2>1, <2>2 DEF Base, Shape, Form
  <2> QED BY <1>2, <2>1, <2>2, <2>3 DEF Base, Seen
<1> QED BY <1>1, <1>2, <1>3, <1>4 DEF Base, Cached

(* What a thread that reads has: its operation, its key and its meta. *)
LEMMA OwnKept ==
    ASSUME Base, NEW t \in Threads, th[t].pc \in Reading
    PROVE  th[t].op \in {"get", "pack"} /\ th[t].key \in Keys /\ th[t].meta \in Meta
           /\ Form(t) /\ Fields(t) /\ Typed
BY FieldTypes DEF Base, Shape, TypeOK, Typed, Form, Fields, Reading, Writing

(* A step of the get itself keeps SyncGet. *)
LEMMA SyncGetOwn ==
    ASSUME Base, Together, NEW t \in Threads, UNCHANGED use, Step(t), Others(t), SyncGet(t)
    PROVE  SyncGet(t)'
<1>0. /\ TypeOK /\ Form(t) /\ Fields(t) /\ Typed /\ PackAlone /\ AllFit /\ ~Called({"close"})
      /\ writeSyn /\ \A u \in Threads : th[u].op # "pack"
  BY FieldTypes DEF Base, Shape, TypeOK, Typed, Together, PackAlone, Called, Synced, Form
<1>1. SUFFICES ASSUME th'[t].op = "get" PROVE SyncGet(t)'
  BY DEF SyncGet
<1>2. ASSUME NEW k \in Keys, GetStart(t, k) PROVE SyncGet(t)'
  <2>1. /\ th[t].pc = "idle" /\ th'[t].key = k /\ UNCHANGED <<storage, fileMeta, current>>
        /\ fileMeta[k] = None => th'[t].pc = "got" /\ th'[t].res = None
        /\ fileMeta[k] # None => th'[t].pc = "blocks" /\ th'[t].meta = fileMeta[k]
    BY <1>0, <1>2, GetStartEffect DEF GetStart
  <2>2. current[k] \in seen'[t]
    BY <1>0, <1>2 DEF GetStart, MayReturn, TypeOK
  <2>3. CASE fileMeta[k] = None
    BY <1>0, <2>1, <2>2, <2>3, NothingThere DEF SyncGet, Reading
  <2>4. CASE fileMeta[k] # None
    <3>1. PICK m : m = fileMeta[k]
      OBVIOUS
    <3>2. m \in Meta /\ LiveMeta(k, m) /\ m.val = current[k] /\ m.val \in use.values /\ m.zip = Zipped[m.val]
      BY <1>0, <2>4, <3>1, LookedUp
    <3>3. \/ InFile(m)
          \/ m.node = stream /\ \E u \in Threads : th[u].pc = "sync" /\ th[u].key = k
      <4>1. InFile(m) \/ \E u \in Threads : th[u].pc = "sync" /\ th[u].key = k
        BY <2>4, <3>1 DEF Base, Synced, Together
      <4>2. m.node # stream => InFile(m)
        <5>1. m.node \in Node
          BY <3>2 DEF Meta
        <5> QED BY <3>2, <5>1 DEF LiveMeta, InFile, Base, Lengths
      <4> QED BY <4>1, <4>2
    <3>4. \A u \in Threads : th[u].pc = "sync" => th'[u] = th[u]
      BY <2>1 DEF Others
    <3>5. \A v \in use.values : m.zip = Zipped[v]
      BY <3>2 DEF Together
    <3>6. /\ th'[t].meta = m /\ th'[t].pc = "blocks"
          /\ MetaEnd(m) <= length'[m.node]
          /\ InFile(m) => m.node \in nodeFiles' /\ MetaEnd(m) <= written'[m.node]
      BY <2>1, <2>4, <3>1, <3>2 DEF storage, LiveMeta, InFile
    <3>7. \/ m.node \in nodeFiles' /\ MetaEnd(m) <= written'[m.node]
          \/ m.node = stream' /\ \E u \in Threads : th'[u].pc = "sync" /\ th'[u].key = k
      BY <2>1, <3>3, <3>4, <3>6 DEF storage
    <3> QED BY <1>1, <2>1, <2>2, <3>2, <3>5, <3>6, <3>7 DEF SyncGet, InFile, MetaEnd, Bytes
  <2> QED BY <2>3, <2>4
<1>3. CASE LookInCache(t)
  <2>1. th[t].pc = "blocks" /\ UNCHANGED <<storage, fileMeta, current, seen>>
    BY <1>3 DEF LookInCache, At
  <2>2. th[t].op = "get" /\ th[t].key \in Keys /\ th[t].meta \in Meta
    BY <1>0, <2>1, OwnKept DEF Reading
  <2>3. PICK v : v = cache[th[t].key]
    OBVIOUS
  <2>4. CASE v # None
    <3>1. th'[t].pc = "got" /\ th'[t].res = Decode(v, th[t].meta.zip)
      BY <1>0, <1>3, <2>2, <2>3, <2>4, LookInCacheEffect DEF Gets
    <3>2. v \in seen[t] /\ v \in use.values
      BY <1>0, <2>2, <2>3, <2>4, CachedMayReturn
    <3>3. th[t].meta.zip = Zipped[v]
      BY <2>1, <2>2, <3>2 DEF SyncGet, Reading
    <3> QED BY <2>1, <3>1, <3>2, <3>3, Decoded DEF SyncGet, Reading
  <2>5. CASE v = None
    <3>1. Keeps(t) /\ th'[t].pc = "read"
      BY <1>0, <1>3, <2>2, <2>3, <2>5, LookInCacheEffect
    <3>2. ASSUME NEW u \in Threads, th[u].pc = "sync", th[u].key = th[t].key PROVE FALSE
      <4>1. cache[th[t].key] = th[u].val
        BY <3>2 DEF Base, Direct, Together
      <4>2. th[u].op = "put"
        <5>1. Form(u) /\ Fields(u)
          BY FieldTypes DEF Base, Shape, TypeOK, Typed
        <5> QED BY <1>0, <3>2, <5>1 DEF Form, Fields, Reading
      <4>3. th[u].val \in use.values
        BY <4>2 DEF Base, Shape, Form
      <4> QED BY <2>3, <2>5, <4>1, <4>3, Decoded
    <3>3. InFile(th[t].meta)
      BY <2>1, <2>2, <3>2 DEF SyncGet, Reading
    <3> QED BY <2>1, <2>2, <3>1, <3>3 DEF SyncGet, Keeps, Reading, InFile, MetaEnd, Bytes, storage
  <2> QED BY <2>4, <2>5
<1>4. CASE IsCurrentNode(t) \/ NeedsFlush(t) \/ GetFlushes(t) \/ FlushTooLate(t)
  <2>1. th[t].pc \in Asking
    BY <1>4 DEF IsCurrentNode, NeedsFlush, GetFlushes, FlushTooLate, At, Asking
  <2> QED BY <2>1 DEF Base, Direct, Together
<1>5. CASE ReadFile(t)
  <2>1. th[t].pc = "read" /\ UNCHANGED seen
    BY <1>5 DEF ReadFile, At
  <2>2. th[t].op = "get" /\ th[t].meta \in Meta
    BY <1>0, <2>1, OwnKept DEF Reading
  <2>3. /\ InFile(th[t].meta) /\ th[t].meta.val \in seen[t] /\ th[t].meta.val \in use.values
        /\ th[t].meta.zip = Zipped[th[t].meta.val]
    BY <2>1, <2>2 DEF SyncGet, Reading
  <2>4. th'[t].pc = "got" /\ th'[t].res = Decode(th[t].meta.val, th[t].meta.zip)
    BY <1>0, <1>5, <2>2, <2>3, ReadFileEffect DEF InFile, Gets, Found
  <2> QED BY <2>1, <2>3, <2>4, Decoded DEF SyncGet, Reading
<1> QED BY <1>0, <1>1, <1>2, <1>3, <1>4, <1>5, GetSteps

(* A step of the get itself keeps LoneGet. *)
LEMMA LoneGetOwn ==
    ASSUME Base, ByOne, NEW t \in Threads, UNCHANGED use, Step(t), Others(t), LoneGet(t)
    PROVE  LoneGet(t)'
<1>0. /\ TypeOK /\ Form(t) /\ Fields(t) /\ Typed /\ AllFit /\ ~Called({"close"})
  BY FieldTypes DEF Base, Shape, TypeOK, Typed, ByOne
<1>1. SUFFICES ASSUME th'[t].op = "get" PROVE LoneGet(t)'
  BY DEF LoneGet
<1>2. PackAlone /\ \A u \in Threads : u # t => th[u].pc = "idle" /\ th[u].op = "none"
  <2>1. use.calls[t] # {}
    BY <1>0, CallerCalls
  <2>2. \A u \in Threads : u # t => th[u].op = "none"
    BY <2>1 DEF Base, Shape, Form, ByOne, Alone
  <2> QED BY <2>2 DEF Base, Shape, Form, ByOne, Alone, PackAlone
<1>3. ASSUME NEW k \in Keys, GetStart(t, k) PROVE LoneGet(t)'
  <2>1. /\ th'[t].key = k /\ UNCHANGED fileMeta
        /\ fileMeta[k] = None => th'[t].pc = "got" /\ th'[t].res = None
        /\ fileMeta[k] # None => th'[t].pc = "blocks" /\ th'[t].meta = fileMeta[k]
    BY <1>0, <1>3, GetStartEffect DEF GetStart
  <2>2. current[k] \in seen'[t]
    BY <1>0, <1>3 DEF GetStart, MayReturn, TypeOK
  <2> QED BY <1>2, <2>1, <2>2, NothingThere DEF LoneGet, Reading
<1>4. ASSUME th[t].pc \in Reading, th[t].op = "get"
      PROVE  /\ th[t].meta = fileMeta[th[t].key] /\ th[t].meta \in Meta /\ th[t].meta.node \in Node
             /\ LiveMeta(th[t].key, th[t].meta)
             /\ th[t].meta.val \in seen[t] /\ th[t].meta.val = current[th[t].key]
             /\ Decode(th[t].meta.val, th[t].meta.zip) = th[t].meta.val
             /\ th[t].key \in Keys
             /\ stream = node
  <2>1. th[t].meta = fileMeta[th[t].key] /\ th[t].meta \in Meta /\ th[t].key \in Keys
    BY <1>4, OwnKept DEF LoneGet
  <2>2. th[t].meta # None
    BY <1>0, <2>1, MetaNotNone
  <2>3. current[th[t].key] \in seen[t]
    BY <1>4 DEF Base, Seen
  <2>4. \A u \in Threads : th[u].pc \notin {"open", "newStore"}
    BY <1>2, <1>4 DEF Reading
  <2>5. stream = node
    BY <1>0, <2>4 DEF Base, Opened, Streams
  <2> QED BY <1>2, <2>1, <2>2, <2>3, <2>5, LookedUp, Decoded DEF Meta
<1>5. CASE LookInCache(t)
  <2>1. th[t].pc = "blocks" /\ UNCHANGED <<storage, fileMeta, current, seen>>
    BY <1>5 DEF LookInCache, At
  <2>2. th[t].key \in Keys /\ th[t].meta \in Meta /\ th[t].op = "get"
    BY <1>0, <1>1, <1>5, <2>1, OwnKept, LookInCacheEffect DEF Reading, Gets, Keeps
  <2>3. PICK v : v = cache[th[t].key]
    OBVIOUS
  <2>4. CASE v # None
    <3>1. th'[t].pc = "got" /\ th'[t].res = Decode(v, th[t].meta.zip)
      BY <1>0, <1>5, <2>2, <2>3, <2>4, LookInCacheEffect DEF Gets
    <3>2. ~Given(th[t].key)
      BY <1>2, <2>1 DEF Given, Filling
    <3>3. v = current[th[t].key]
      BY <1>0, <1>2, <2>2, <2>3, <2>4, <3>2 DEF Base, Cached
    <3>4. v = th[t].meta.val
      BY <1>4, <2>1, <2>2, <3>3 DEF Reading
    <3> QED BY <1>4, <2>1, <2>2, <3>1, <3>4 DEF LoneGet, Reading
  <2>5. CASE v = None
    <3>1. Keeps(t) /\ th'[t].pc = IF writeSyn THEN "read" ELSE "isCurrent"
      BY <1>0, <1>5, <2>2, <2>3, <2>5, LookInCacheEffect
    <3>2. writeSyn => InFile(th[t].meta)
      <4>1. writeSyn => use.sync /\ ~Called({"mode"})
        BY DEF Base, Mode, ByOne
      <4>2. \A u \in Threads : th[u].pc # "sync"
        BY <1>2, <2>1
      <4>3. fileMeta[th[t].key] # None /\ fileMeta[th[t].key] = th[t].meta
        BY <1>0, <1>4, <2>1, <2>2, MetaNotNone DEF Reading
      <4> QED BY <2>2, <4>1, <4>2, <4>3 DEF Base, Synced
    <3>3. th[t].meta = fileMeta[th[t].key]
      BY <1>4, <2>1, <2>2 DEF Reading
    <3> QED BY <2>1, <3>1, <3>2, <3>3 DEF LoneGet, Keeps, Reading, InFile, MetaEnd, Bytes, storage
  <2> QED BY <2>4, <2>5
<1>6. CASE IsCurrentNode(t)
  <2>1. th[t].pc = "isCurrent" /\ UNCHANGED <<storage, fileMeta>> /\ Keeps(t)
        /\ th'[t].pc = IF th[t].meta.node = node THEN "needsFlush" ELSE "read"
    BY <1>0, <1>6, GotoEffect DEF IsCurrentNode, At, Pcs
  <2>2. th[t].op = "get"
    BY <1>1, <2>1 DEF Keeps
  <2>3. th[t].meta.node # node => InFile(th[t].meta)
    BY <1>4, <2>1, <2>2 DEF Reading, LiveMeta, InFile, Base, Lengths
  <2>4. th[t].meta = fileMeta[th[t].key]
    BY <1>4, <2>1, <2>2 DEF Reading
  <2> QED BY <2>1, <2>3, <2>4 DEF LoneGet, Keeps, Reading, InFile, MetaEnd, Bytes, storage
<1>7. CASE NeedsFlush(t)
  <2>1. th[t].pc = "needsFlush" /\ UNCHANGED <<storage, fileMeta>>
    BY <1>7 DEF NeedsFlush, At
  <2>2. th[t].op = "get"
    BY <1>0, <2>1, OwnKept, <1>1, <1>7, ThrowEffect, GotoEffect DEF NeedsFlush, Leaves, Rests,
       Keeps, Reading, Pcs
  <2>3. stream = node /\ th[t].meta.node = node /\ th[t].meta = fileMeta[th[t].key] /\ node # None
        /\ th[t].meta \in Meta /\ node \in Node
    BY <1>0, <1>4, <2>1, <2>2, StoreAssumption DEF Reading, LoneGet, TypeOK
  <2>4. Keeps(t) /\ th'[t].pc = IF MetaEnd(th[t].meta) + BufferSize > length[stream] THEN "flush" ELSE "read"
    BY <1>0, <1>7, <2>3, GotoEffect DEF NeedsFlush, Pcs
  <2>5. MetaEnd(th[t].meta) + BufferSize <= length[stream] => InFile(th[t].meta)
    <3>1. PICK e : e = MetaEnd(th[t].meta)
      OBVIOUS
    <3>2. e \in Nat /\ e >= 1
      BY <2>3, <3>1, BytesType DEF MetaEnd, Meta
    <3>3. streamLock = Nobody
      BY <1>2, <2>1 DEF Base, Monitors, TypeOK
    <3>4. length[node] - written[node] <= BufferSize /\ length[node] \in Nat /\ written[node] \in Nat
          /\ (written[node] > 0 => node \in nodeFiles)
      BY <2>3, <3>3 DEF Base, Lengths, Streams, TypeOK
    <3>5. e + BufferSize <= length[node] => e <= written[node] /\ written[node] > 0
      BY <3>2, <3>4, StoreAssumption
    <3> QED BY <2>3, <3>1, <3>4, <3>5 DEF InFile
  <2>6. MetaEnd(th[t].meta) \in Nat /\ length[stream] \in Nat
    BY <1>0, <2>3, BytesType DEF MetaEnd, Meta, TypeOK
  <2>7. th'[t].pc = "read" => InFile(th[t].meta)
    BY <2>4, <2>5, <2>6, StoreAssumption
  <2> QED BY <2>1, <2>3, <2>4, <2>7 DEF LoneGet, Keeps, Reading, InFile, MetaEnd, Bytes, storage
<1>8. CASE GetFlushes(t)
  <2>1. th[t].pc = "flush" /\ UNCHANGED <<fileMeta, length>> /\ Keeps(t) /\ th'[t].pc = "read" /\ FlushStream
    BY <1>0, <1>8, GotoEffect DEF GetFlushes, At, Pcs
  <2>2. th[t].op = "get"
    BY <1>1, <2>1 DEF Keeps
  <2>3. stream = node /\ th[t].meta.node = node /\ th[t].meta = fileMeta[th[t].key] /\ node # None
        /\ th[t].meta \in Meta /\ node \in Node /\ MetaEnd(th[t].meta) <= length[node]
    BY <1>0, <1>4, <2>1, <2>2, StoreAssumption DEF Reading, LoneGet, TypeOK, LiveMeta
  <2>4. PICK e : e = MetaEnd(th[t].meta)
    OBVIOUS
  <2>5. e \in Nat /\ e >= 1 /\ length[node] \in Nat
    BY <1>0, <2>3, <2>4, BytesType DEF MetaEnd, Meta, TypeOK
  <2>6. written'[node] = length[node] /\ (length[node] > 0 => node \in nodeFiles')
    BY <2>1, <2>3, FlushEffect DEF Base, Streams
  <2>7. node \in nodeFiles' /\ e <= written'[node]
    BY <2>3, <2>4, <2>5, <2>6
  <2> QED BY <2>1, <2>3, <2>4, <2>7 DEF LoneGet, Keeps, Reading, InFile, MetaEnd, Bytes
<1>9. CASE FlushTooLate(t)
  <2>1. th[t].pc = "flush" /\ stream = None
    BY <1>9 DEF FlushTooLate, At
  <2>2. th[t].op = "get"
    BY <1>0, <2>1, OwnKept, <1>1, <1>9, ThrowEffect DEF FlushTooLate, Leaves, Rests, Reading
  <2> QED BY <1>0, <1>4, <2>1, <2>2, StoreAssumption DEF Reading, TypeOK
<1>10. CASE ReadFile(t)
  <2>1. th[t].pc = "read" /\ UNCHANGED seen
    BY <1>10 DEF ReadFile, At
  <2>2. th[t].op = "get" /\ th[t].meta \in Meta
    BY <1>0, <2>1, OwnKept, <1>1, <1>10, ReadFileEffect DEF Reading, Gets, Leaves, Rests
  <2>3. InFile(th[t].meta)
    BY <2>1, <2>2 DEF LoneGet
  <2>4. th'[t].pc = "got" /\ th'[t].res = Decode(th[t].meta.val, th[t].meta.zip)
    BY <1>0, <1>10, <2>2, <2>3, ReadFileEffect DEF InFile, Gets, Found
  <2> QED BY <1>4, <2>1, <2>2, <2>4 DEF LoneGet, Reading
<1> QED BY <1>0, <1>1, <1>3, <1>5, <1>6, <1>7, <1>8, <1>9, <1>10, GetSteps


-----------------------------------------------------------------------------
(* The theorems. *)

(* The inductive invariant. *)
IInv == Base /\ SyncGets /\ LoneGets

(* It holds of an empty directory. *)
LEMMA InitHolds == Init => IInv
<1>1. SUFFICES ASSUME Init PROVE IInv
  OBVIOUS
<1>2. /\ 0 \in Node /\ 0 \in Nat /\ \A n \in Node : n \in Nat /\ 0 <= n
      /\ \A n \in Node : n # 0 => 0 <= n
  BY StoreAssumption DEF Node
<1>3. \A t \in Threads : th[t] = Idle
  BY <1>1 DEF Init
<1>4. Idle \in Thread
  BY DEF Idle, Thread, Pcs
<1>5. \A t \in Threads : th[t].pc = "idle" /\ th[t].op = "none"
  <2>1. Idle.pc = "idle" /\ Idle.op = "none"
    BY DEF Idle
  <2> QED BY <1>3, <2>1
<1>6. TypeOK
  <2>1. use.maxCalls \in Nat /\ use.sync \in BOOLEAN
    BY <1>1, StoreAssumption DEF Init
  <2> QED BY <1>1, <1>2, <1>4, <2>1 DEF Init, TypeOK
<1>7. Shape
  BY <1>5 DEF Shape, Form, Reading, Writing
<1>8. Monitors
  BY <1>1, <1>5, StoreAssumption DEF Init, Monitors, Holding
<1>9. Streams
  BY <1>1, <1>2, <1>5 DEF Init, Streams, Open
<1>10. Lengths
  <2>1. \A n \in Node : length[n] = 0 /\ written[n] = 0
    BY <1>1 DEF Init
  <2>2. stream = 0
    BY <1>1 DEF Init
  <2> QED BY <1>2, <2>1, <2>2, StoreAssumption DEF Lengths
<1>11. Live
  BY <1>1 DEF Init, Live
<1>12. Packs
  BY <1>5 DEF Packs, PackOf
<1>13. Kept
  BY <1>1, <1>5 DEF Init, Kept, Agree, KeptOf
<1>14. Synced
  BY <1>1 DEF Init, Synced
<1>15. Opened
  BY <1>1, <1>2, StoreAssumption DEF Init, Opened
<1>16. Filled /\ Seen
  BY <1>5 DEF Filled, Filling, Seen
<1>17. Cached
  BY <1>1 DEF Init, Cached
<1>18. Mode
  BY <1>1 DEF Init, Mode
<1>19. Direct
  BY <1>1, <1>2, <1>5 DEF Init, Direct, Asking, Filling
<1>20. SyncGets /\ LoneGets
  BY <1>5 DEF SyncGets, SyncGet, LoneGets, LoneGet
<1> QED BY <1>6, <1>7, <1>8, <1>9, <1>10, <1>11, <1>12, <1>13, <1>14, <1>15, <1>16, <1>17, <1>18,
           <1>19, <1>20 DEF IInv, Base

(* A step of any thread keeps it: the order below is that in which the parts *)
(* need each other.                                                          *)
LEMMA StepKeepsInv ==
    ASSUME IInv, NEW t \in Threads, UNCHANGED use, Step(t)
    PROVE  IInv'
<1>1. /\ TypeOK /\ Shape /\ Monitors /\ Streams /\ Lengths /\ Live /\ Packs /\ Kept /\ Synced
      /\ Opened /\ Filled /\ Cached /\ Mode /\ Direct /\ Seen /\ SyncGets /\ LoneGets
  BY DEF IInv, Base
<1>2. (\A u \in Threads : Form(u)) /\ PackOf(t) /\ Fields(t) /\ Open(t)
  BY <1>1, FieldTypes DEF Shape, Packs, TypeOK, Typed, Streams
<1>3. th[t].pc \in {"entry", "delNode"} =>
          /\ th[t].op = "pack" /\ AtFile(t) /\ th[t].file \in Node
          /\ stream # None => th[t].file < stream
          /\ \A k \in Keys : fileMeta[k] # None /\ fileMeta[k].node = th[t].file => k \in Undone(t)
          /\ th[t].pc # "delNode" => \A k \in th[t].todo : metaOf[th[t].file][k] # None
  <2>1. th[t].pc \in {"entry", "delNode"} => th[t].op = "pack" /\ AtFile(t)
    BY <1>2 DEF Form, Fields, Reading, Writing, AtFile
  <2> QED BY <1>2, <2>1 DEF PackOf
<1>4. th[t].pc = "entry" => \A k \in Keys : fileMeta[k] # None /\ fileMeta[k].node = th[t].file
                                             => k \in th[t].todo
  BY <1>3 DEF Undone, Reading, Writing
<1>5. th[t].pc = "delNode" => \A k \in Keys : fileMeta[k] # None => fileMeta[k].node # th[t].file
  BY <1>3 DEF Undone
<1>6. Typed' /\ Others(t) /\ Form(t)'
  BY <1>1, <1>2, <1>3, FormStep
<1>7. TypeOK'
  BY <1>1, <1>2, <1>6, RestStep DEF Rest, Typed, TypeOK
<1>8. Shape'
  <2>1. ASSUME NEW u \in Threads, u # t PROVE Form(u)'
    BY <1>2, <1>6, <2>1 DEF Form, Others
  <2> QED BY <1>6, <2>1 DEF Shape
<1>9. Monitors'
  BY <1>1, <1>2, <1>3, MonitorsStep
<1>10. Streams'
  BY <1>1, <1>2, <1>3, StreamsStep
<1>11. Lengths'
  BY <1>1, <1>2, LengthsStep
<1>12. Live'
  BY <1>1, <1>2, <1>4, <1>5, <1>7, LiveStep
<1>13. Packs'
  BY <1>1, <1>2, <1>6, <1>7, PacksStep
<1>14. Kept'
  BY <1>1, <1>6, <1>7, KeptStep
<1>15. Synced'
  BY <1>1, <1>2, <1>6, <1>7, <1>12, SyncedStep
<1>16. Opened' /\ Filled'
  BY <1>1, <1>2, <1>6, OpenedStep, FilledStep
<1>17. Cached'
  BY <1>1, <1>6, CachedStep
<1>18. Mode'
  BY <1>1, ModeStep
<1>19. Direct'
  BY <1>1, <1>6, <1>7, DirectStep
<1>20. Seen'
  BY <1>1, <1>6, SeenStep
<1>21. SyncGets'
  <2>1. SUFFICES ASSUME Together, NEW u \in Threads PROVE SyncGet(u)'
    BY DEF SyncGets, Together, AllFit, Called
  <2>2. SyncGet(u)
    BY <1>1, <2>1 DEF SyncGets
  <2> QED BY <1>6, <1>7, <2>1, <2>2, SyncGetBeside, SyncGetOwn DEF IInv
<1>22. LoneGets'
  <2>1. SUFFICES ASSUME ByOne, NEW u \in Threads PROVE LoneGet(u)'
    BY DEF LoneGets, ByOne, AllFit, Alone, Called
  <2>2. LoneGet(u)
    BY <1>1, <2>1 DEF LoneGets
  <2>3. CASE u = t
    BY <1>6, <2>1, <2>2, <2>3, LoneGetOwn DEF IInv
  <2>4. CASE u # t
    <3>1. use.calls[t] # {}
      BY <1>2, CallerCalls
    <3>2. th[u].op = "none"
      BY <1>2, <2>1, <2>4, <3>1 DEF Form, ByOne, Alone
    <3> QED BY <1>6, <2>4, <3>2 DEF Others, LoneGet
  <2> QED BY <2>3, <2>4
<1> QED BY <1>7, <1>8, <1>9, <1>10, <1>11, <1>12, <1>13, <1>14, <1>15, <1>16, <1>17, <1>18, <1>19,
           <1>20, <1>21, <1>22 DEF IInv, Base

(* It speaks of the variables only. *)
LEMMA StutterKeepsInv ==
    ASSUME IInv, UNCHANGED vars
    PROVE  IInv'
<1>1. UNCHANGED <<use, writeSyn, node, stream, length, written, nodeFiles, metaFiles, metaOf, fileMeta,
                  cache, storeLock, streamLock, th, ops, current, seen>>
  BY DEF vars, storage
<1>2. TypeOK' /\ Shape'
  BY <1>1 DEF IInv, Base, TypeOK, Shape, Form
<1>3. Monitors' /\ Streams' /\ Lengths'
  BY <1>1 DEF IInv, Base, Monitors, Streams, Open, Lengths
<1>4. Live'
  <2>1. \A k \in Keys : LiveMeta(k, fileMeta[k]) <=> LiveMeta(k, fileMeta[k])'
    BY <1>1 DEF LiveMeta, MetaEnd, Bytes
  <2> QED BY <1>1, <2>1 DEF IInv, Base, Live
<1>5. Packs'
  BY <1>1 DEF IInv, Base, Packs, PackOf, Begins, AtFile, Undone
<1>6. Kept'
  BY <1>1 DEF IInv, Base, Kept, PackAlone, Agree, KeptOf, Begins
<1>7. Synced'
  BY <1>1 DEF IInv, Base, Synced, Called, InFile, MetaEnd, Bytes
<1>8. Opened' /\ Filled' /\ Mode' /\ Seen'
  BY <1>1 DEF IInv, Base, Opened, Filled, Mode, Seen, Called
<1>9. Cached'
  BY <1>1 DEF IInv, Base, Cached, Given, PackAlone, AllFit, Called
<1>10. Direct'
  BY <1>1 DEF IInv, Base, Direct, Bytes, Called
<1>11. SyncGets'
  BY <1>1 DEF IInv, SyncGets, SyncGet, Together, AllFit, Called, InFile, MetaEnd, Bytes
<1>12. LoneGets'
  BY <1>1 DEF IInv, LoneGets, LoneGet, ByOne, Alone, AllFit, Called, InFile, MetaEnd, Bytes
<1> QED BY <1>2, <1>3, <1>4, <1>5, <1>6, <1>7, <1>8, <1>9, <1>10, <1>11, <1>12 DEF IInv, Base

(* The inductive invariant holds of every use of the store: any number of    *)
(* threads, keys, values and calls, and any sizes of block, buffer and       *)
(* cache.                                                                    *)
THEOREM InvHolds == Spec => []IInv
<1>1. Init => IInv
  BY InitHolds
<1>2. IInv /\ [Next]_vars => IInv'
  BY StepKeepsInv, StutterKeepsInv DEF Next
<1> QED BY <1>1, <1>2, PTL DEF Spec

(* Every operation leaves the fields, the files and the threads in their     *)
(* types.                                                                    *)
THEOREM TypeCorrect == Spec => []TypeOK
<1>1. IInv => TypeOK
  BY DEF IInv, Base
<1> QED BY <1>1, InvHolds, PTL

(* Where nobody else writes beside a pack, the bytes at the place fileMeta   *)
(* gives for a key, in the file or still in the buffer, decode to what the   *)
(* key has: neither a put, a rollover nor the copies of pack and its         *)
(* deletions lose it (FileStore.put, putData, pack).                         *)
THEOREM StoredCorrect == Spec => []StoredIsCurrent
<1>1. ASSUME IInv PROVE StoredIsCurrent
  <2>1. SUFFICES ASSUME PackAlone, NEW k \in Keys PROVE Stored(fileMeta[k]) = current[k]
    BY DEF StoredIsCurrent
  <2>2. PICK m : m = fileMeta[k]
    OBVIOUS
  <2>3. CASE m = None
    BY <1>1, <2>1, <2>2, <2>3 DEF IInv, Base, Kept, Agree, Stored
  <2>4. CASE m # None
    <3>1. m \in Meta /\ m.node \in Node /\ m.val \in use.values /\ m.zip = Zipped[m.val]
          /\ current[k] = m.val /\ LiveMeta(k, m)
      BY <1>1, <2>1, <2>2, <2>4 DEF IInv, Base, Kept, Agree, Live, TypeOK, Meta
    <3>2. m.node # stream => m.node \in nodeFiles /\ written[m.node] = length[m.node]
      BY <1>1, <3>1 DEF IInv, Base, Lengths, LiveMeta
    <3>3. Stored(m) = Decode(m.val, m.zip)
      BY <2>4, <3>1, <3>2 DEF Stored, LiveMeta
    <3>4. use.values \subseteq Values
      BY <1>1, UseTypes DEF IInv, Base, TypeOK
    <3> QED BY <2>2, <3>1, <3>3, <3>4, StoreAssumption DEF Decode
  <2> QED BY <2>3, <2>4
<1>2. IInv => StoredIsCurrent
  BY <1>1
<1> QED BY <1>2, InvHolds, PTL

(* With synchronous writing, once no put holds the monitor the bytes of      *)
(* every key are in its node file, past the buffer of the stream             *)
(* (FileStore.putData with writeSyn).                                        *)
THEOREM SyncCorrect == Spec => []SyncIsWritten
<1>1. ASSUME IInv PROVE SyncIsWritten
  <2>1. SUFFICES ASSUME use.sync, ~Called({"mode"}), storeLock = Nobody, NEW k \in Keys, fileMeta[k] # None
                 PROVE  InFile(fileMeta[k])
    BY DEF SyncIsWritten, InFile
  <2>2. \A t \in Threads : th[t].pc # "sync"
    BY <1>1, <2>1, StoreAssumption DEF IInv, Base, Monitors, Holding
  <2> QED BY <1>1, <2>1, <2>2 DEF IInv, Base, Synced
<1>2. IInv => SyncIsWritten
  BY <1>1
<1> QED BY <1>2, InvHolds, PTL

(* Where nobody else writes beside a pack and every block fits,              *)
(* nodeMemoryCache has for a key what the key has, or what the put that      *)
(* holds the monitor is about to publish (FileStore.put, get).               *)
THEOREM CacheCorrect == Spec => []CacheIsCurrent
<1>1. ASSUME IInv PROVE CacheIsCurrent
  <2>1. SUFFICES ASSUME PackAlone, AllFit, ~Called({"close"}), NEW k \in Keys, cache[k] # None,
                        cache[k] # current[k]
                 PROVE  storeLock # Nobody /\ th[storeLock].key = k /\ th[storeLock].val = cache[k]
    BY DEF CacheIsCurrent
  <2>2. PICK u \in Threads : th[u].pc \in Filling /\ th[u].key = k /\ th[u].val = cache[k]
    BY <1>1, <2>1 DEF IInv, Base, Cached, Given
  <2> QED BY <1>1, <2>2, StoreAssumption DEF IInv, Base, Monitors, Holding, Filling
<1>2. IInv => CacheIsCurrent
  BY <1>1
<1> QED BY <1>2, InvHolds, PTL

(* A get returns what its key had at some time between its call and its      *)
(* return: with one thread, and with several threads and synchronous writing *)
(* while nobody packs (FileStore.get).                                       *)
THEOREM GetCorrect == Spec => []GetReturnsCurrent
<1>1. ASSUME IInv PROVE GetReturnsCurrent
  <2>1. SUFFICES ASSUME AllFit, ~Called({"mode", "close"}), NEW t \in Threads, th[t].pc = "got",
                        \/ Alone
                        \/ /\ use.sync /\ ~Called({"pack"})
                           /\ \A v, w \in use.values : Zipped[v] = Zipped[w]
                 PROVE  th[t].res \in seen[t]
    BY DEF GetReturnsCurrent, GetReturnsContent, At
  <2>2. ~Called({"mode"}) /\ ~Called({"close"})
    BY <2>1 DEF Called
  <2>3. th[t].op = "get"
    <3>1. Form(t) /\ Fields(t)
      BY <1>1, FieldTypes DEF IInv, Base, Shape, TypeOK, Typed
    <3> QED BY <2>1, <3>1 DEF Form, Fields, Reading, Writing
  <2>4. CASE Alone
    BY <1>1, <2>1, <2>2, <2>3, <2>4 DEF IInv, LoneGets, LoneGet, ByOne
  <2>5. CASE ~Alone
    BY <1>1, <2>1, <2>2, <2>3, <2>5 DEF IInv, SyncGets, SyncGet, Together
  <2> QED BY <2>4, <2>5
<1>2. IInv => GetReturnsCurrent
  BY <1>1
<1> QED BY <1>2, InvHolds, PTL
=============================================================================
