# Verification of FileStore, BinderTest, wson and LiteBrowser

The repository is a collection of its author's experiments around mobile
rendering, together with vendored copies of WebKit, litehtml, gumbo and Yoga.
Four parts of it are concurrent, persistent or reentrant systems of their own,
and this project specifies those in TLA+:

* **FileStore**, an embedded store that packs many small files into a few large
  ones;
* the **page ring of BinderTest**, a protocol for synchronous calls over shared
  pages, between threads (semaphores) and between processes (futexes);
* **wson**, a binary form of JSON values that a JavaScript engine writes while
  it runs code of the values;
* **LiteBrowser**, a view that parses and lays out a page on one thread and draws
  it on another.

TLC checks the modules on small instances; the core results are theorems checked
by TLAPS for all values of the constants.

## 1. Inventory

| Component | State | Operations | Interacts with | Hard behaviour | What makes it correct | Status |
|---|---|---|---|---|---|---|
| FileStore block stream (`io/BlockOutputStream`, `BlockFileInputStream`, `Block`) | offset, buffer, the node file | write (in two halves), flush, close, getSize, read | called by FileStore, calls its flush callback | spill over the end of the buffer, unlocked getSize, crashes | every block reads back as written; the file only grows | modelled, proved |
| FileStore operations (`FileStore.java`) | node, fileMeta, nodeMemoryCache, writeSyn, two streams | put, get, remove, flush, setWriteSyn, pack, constructor, close | both streams, the meta files | lock-free get beside locked writers, rollover, pack, use after close, reopening | a get returns what the key had during the call; nothing but put and remove changes a key; operations end | partly: no empty values, no finalizer; proved |
| FileStore meta files (`meta/*`) | meta files, deflater, stream buffer, static cache | writeMeta, flush, close, readMeta with correction | constructor, pack, remove, the flush callback | crashes, gzip members without an end, stale cache | a closed store reopens as it was; a crash never shows foreign content | modelled, proved |
| FileStore binary formats (`Format*Stream`, `Bits`) | reader position | variable-length integers, strings | meta files | widths, boundaries | decoding inverts encoding | modelled and proved, but for the loop over blocks |
| BinderTest thread ring (`ThreadIpc`, `Server`) | a semaphore per page, two private page numbers per side | loop, run | client thread and server thread | hand-over of pages, waiting in a circle | each call is answered once, by its own reply; no page has two owners; calls return | modelled, proved |
| BinderTest futex ring (`ipc.c`) | futex words and data in shared memory, page numbers of each side | lockPage, unlockPage, clientIpc, ipcServerLoop, startServer, exit | two processes, the kernel | races of the word with the kernel, startup handshake, death of either process | no wake-up is lost; it implements the thread ring; a death does not leave the other side hanging | modelled, proved |
| BinderTest services | in the Android framework | timing of Binder calls | Binder | none of its own | | not modelled |
| wson codec (`wson.c`, `wsonjsc.cpp`) | growing buffer, stack of objects, caches of names | toWson, toJSValue, init, push and next of each type | JavaScriptCore values and their code | getters and functions that change what is being written; cycles; stale cache entries; counts announced before the entries | the reader stays in step with the writer; names are right; it ends; integers are read back | modelled, proved |
| LiteBrowser (`LiteBrowser.java`, `litebrowser.cpp`) | state, two rectangles, a native document, queues of two loopers | load, layout, draw, destory | UI thread, lite thread, Android's view system | no lock between the threads; double layout; destory in between | nothing unfinished is drawn, nothing freed is used, a page is shown in the end | partly: no images, no drawing callbacks; proved |
| FileDB | an earlier copy of FileStore | | | | | not modelled |
| WebCore, WebLayoutCore, litehtml, gumbo, yogac; AsmMain, SynCall, toy programs | | | | | | third-party code, or no state of interest |

`PROJECT.json` lists the hazards of this code at their lines, each with the
properties that catch it, or a note why none does. Where the code itself goes
wrong, a property that is to hold has to leave the case out; the note then refers
to the violation or to the change of a run in section 3 that shows it.

### How FileStore works

`put` compresses the bytes if that pays, then holds the monitor of the store
(`putData`): the bytes go into `nodeMemoryCache`, then to the
`BlockOutputStream`, which reserves their place at the end of the node file and
keeps them in a 1 MB buffer; a `Meta` with the place goes into `fileMeta` and to
the meta stream (gzip). With `writeSyn` the stream is flushed. Whenever the
stream writes its buffer it calls back: the meta stream is flushed and the cache
emptied. A node file that has grown too long is left for the next
(`newStore`). `get` takes no lock: it reads `fileMeta`, then the cache, then, if
writing is asynchronous and the block may still be in the buffer, flushes the
stream, and then reads the file. `pack` moves to a new node, copies every entry
that is still live from the older nodes, and deletes their files. The
constructor reads all meta files, in parallel, and appends to the last node.

### How the page ring works

Client and server own pages of a ring, the client the even ones for requests,
the server the odd ones for replies. To hand its page over, a writer first takes
the next page of its parity and only then releases the one it has written, so a
reader that gets the released page knows that it was handed over. Nothing else
signals. In `ipc.c` a page is locked by putting one's thread id into its first
word, and when that fails by the system call `FUTEX_LOCK_PI`, which sets a bit
for the owner to see; the owner then releases the page through the kernel, which
gives it to the sleeper. The server is a forked child that raises a flag once it
owns its first page.

### How wson works

`toWson` walks a value with a stack of the objects it is inside of; an object
already on the stack, or beyond the greatest depth, is written as null. A map is
walked twice, first to count the values to be skipped, then to write it. Looking
at a property may run a getter, and a function found as a value is called for
one. `toJSValue` reads back as many entries as were announced; names of
properties go through a cache for the message and one for the engine.

### How LiteBrowser works

The UI thread is told to lay the view out and to draw it; the lite thread takes
messages that load a page or lay it out, and posts runnables back. `state` says
how far a page is: parsed, laid out once but higher than the view (then the view
is asked to become as high as the page, which leads to a second layout), laid
out. The UI thread draws only in the last state. `destory` tells the lite thread
to quit and frees the native structure.

## 2. Modules

| Module | Models | Notes |
|---|---|---|
| `AppendLog` | abstract: an append-only log, a durable prefix, the blocks handed out | what a block stream promises |
| `BlockOutput` | `BlockOutputStream`, `BlockFileInputStream` byte for byte, and crashes | `writeBlock` is two steps, `Reserve` and `StoreInBuffer`/`StoreAndSpill`, since `getSize` may be read between them |
| `PingPong` | abstract: one call at a time, each answered, then returned | |
| `PageRing` | `ThreadIpc.loop` and `Server.run`; implements `PingPong` | pages carry the number of their call, a history of what the semaphores hand over |
| `FutexRing` | `ipc.c`; implements `PageRing` while nothing fails | words as owner, waiters bit and died bit; each exchange and each part of a system call that others can see is a step |
| `FileStore` | `FileStore.java` while the process runs: any threads, lock-free `get` step by step | a block stands for its place and value, since `BlockOutput` settles its bytes |
| `MetaLog` | `FileStore.java` and `meta/*` across closes, crashes and reopening: one thread, every buffer, every file | a meta file is a sequence of units of 10 bytes: gzip header, record, end of member |
| `Wson` | `wsonjsc.cpp` | a message is a sequence of tokens with the depth each was written at; the heap is drawn when it is first looked at, and changed by called code |
| `WsonBytes` | `wson.c`: integers, growth of the buffer | pure operators |
| `FormatBytes` | `Bits.java`, the fields of `Format*Stream`, `Block` and `Meta` in a meta file | pure operators |
| `LiteBrowser` | `LiteBrowser.java`, `LayoutRect`, `StringPool`, and the four native calls of `litebrowser.cpp` | each read or write of a shared field between two calls is a step |
| `*Proofs` | theorems about the module they are named after | |
| `MC*` | constants for TLC | |

In `FileStore`, `MetaLog`, `Wson` and `LiteBrowser` the constant `Uses` is a set
of records, each a way to use the component; a behaviour draws one of them in
`Init` and keeps it (`use`). One run thus covers several ways of use, and a
property that holds only for some says so in terms of `use`.

**State and actions of `FileStore`.** The variables have the names of the fields
(`node`, `fileMeta`, `writeSyn`; `cache` is `nodeMemoryCache`). `stream` is the
node whose file `outputStream` appends to; `length` and `written` are how much of
each node file has been accepted and how much has reached it. `storeLock` and
`streamLock` are the monitors of the store and of the stream. A thread's record
holds its place in the code and its local variables: `get` is the actions
`GetStart`, `LookInCache`, `IsCurrentNode`, `NeedsFlush`, `GetFlushes` or
`FlushTooLate`, `ReadFile` and `GetReturns`, one for each shared read; `putData`
is `PutCache`, `PutReserve`, `PutRefused` or `PutClosed`, `PutStore`,
`PutPublish`, `PutSync`, then `CloseNode` and `OpenNode` at a rollover, and
`Unlock`. `close` uses `CloseNode`; `pack` uses those of `newStore`, of
`getBlocks` and of `putData` in turn, as the code does. `current` and `seen` are
history: what each key was last given, and what each running get may return.

**State and actions of `MetaLog`.** `metaFile`, `nodeFile` and `metaCache` are
what outlasts an operation; `buffer` is the buffer of the block stream, `held`
what the deflater of the meta stream has gathered, `buffered` what waits in its
`BufferedOutputStream`. Every write to a file, and every step between two of
them, is an action of its own, and `Crash` may come before any of them; so `close`
is `CloseData`, the flush of the metas by its callback (`CloseCallback`, when the
block stream has opened its file, which `opened` tells), and `CloseMeta`. `Open`
models the constructor with `readMeta` for every file: which tokens can be
inflated (`Readable`), which records count (`Records`), and the "correction" of
the file (`Corrected`). `current`, `closed` and `flushed` are history, and so is
`torn`: whether a correction took away a record that could be read, or left a
gzip member without its end.

**State and actions of `FutexRing`.** `owner`, `waiters` and `died` are the parts
of each page's word. `pc` is a side's place in `clientIpc`, `ipcServerLoop` or
`startServer`, `phase` its place inside `lockPage` or `unlockPage`: before the
exchange, before the system call, asleep in it. `LockPage`, `FutexLock`,
`FutexSleep`, `FutexFails`, `FutexWakes` and `FutexInterrupted` are the ways
through `lockPage`; `UnlockPage` and `FutexUnlock` those through `unlockPage`.
`Die` is what the kernel does with the pages of a process that ends, by `exit`,
by `Killed`, or by the client's `Exit`. "page" and "got" carry the number of the
call, since the data words of the code are constants.

**State and actions of `Wson`.** `stack` is `objectStack` with the progress of
each loop, `todo` the argument of `wson_push_js_value`, `out` the buffer. `Count`
and `Announce` are the first pass over a map, `Element` a step of the second pass
or of the loop over an array; `Call` is code of the program, which returns
anything and may change an object (`MayChange`). So may what the log of a function
or an object around a string or number runs, in `PushSimple`. On the reader's side `open` holds what is left
of each announced count. `local` and `system` are the caches of names; `Find` is
`makeIdentifer`, with the partial comparison of the local cache and the texts
that may have been freed (`luck` is what such a comparison gives).

**State and actions of `LiteBrowser`.** Fields have their names; `native` is the
structure behind `ptr`, `document` its document with the place of its text.
`onLayout` is `OnLayout` and `OnLayoutBottom`, since the edges are set one after
another; `handleMessage` is `TakeHtml` and `Loaded`, or `TakeLayout`,
`EqualsRight`, `EqualsBottom`, `CopyRight`, `CopyBottom`, `LaidOut`, `Resize`
and `Pass`. `Framework` is the view system's own layouts and drawings.

## 3. What the runs check

Passing runs:

| Run | Question | Bounds, and why they are enough |
|---|---|---|
| `block_output` | Does every block read back as written, is the flush test of `getBlocks` sound, does the file only grow, is the stream an append-only log? | chunks of 1 to 3 bytes over two letters, a buffer of 3, files up to 7: fills the buffer exactly, spills by one byte and more, and reopens at every length up to the largest int of the instance |
| `page_ring` | Exclusive pages, right answers, no waiting for the next page, every call returns | 6 pages and 14 calls: more than four turns of each side's three pages |
| `futex_ring` | Do words and programs agree on the owners, is no wake-up lost, do answers match, what does a death do to the other side, do calls return and servers end, is it the ring of threads? | 6 pages, 8 calls, every kind of failure at every step: more than two turns of each side's pages, and the survivor of a death runs out of pages well before |
| `store` | Does a get return what the key has, does anything but put and remove change a key, are synchronous puts on file when they return, do operations end? | two keys and five calls in three uses: one thread, asynchronous, nodes of two values; two threads, synchronous, put, get and remove; one thread that puts, removes, packs, changes the mode and closes beside one that gets and flushes, with a value larger than the buffer |
| `sessions` | Does a store that is closed and opened again, rolled over and packed show every file as long as no correction tears one, and when does none; after crashes anywhere, is only shown what was put under the key, and nothing behind the last clean close? | three sessions, four puts, five nodes, metas spilling from their buffer; four openings, two crashes, two puts, removes and flushes, the directory empty at first or not; four openings with two puts, some of the sessions writing nothing |
| `wson` | Does the reader stay in step, do the caches give the right names, does writing end? | two maps and an array with up to two names and one element, one change of the heap by called code, depth 1; two messages with three names in two slots of each cache, texts freed or not; hashes modulo 2 ^ 24, which TLC can multiply by 33, where the code has 2 ^ 32 |
| `lite_browser` | Is only what is finished drawn, is nothing used after it is freed, are layouts bounded, is the right text drawn, is a page shown in the end? | pages shorter and higher than the view and one that never fits, two sizes, up to three layouts by the framework, three loads one after another, two calls of `destory` |

The bounded counters are the number of calls, puts, openings, crashes, nodes,
messages, loads and layouts; each is a constant or a field of a use and appears
in a guard, so the runs end when they are used up (hence `CHECK_DEADLOCK FALSE`).
In the rings the client has made its calls and the server waits for ever, as in
the code.

Runs that find the code at odds with what its documentation or tests say, one
property each:

| Run | Shows |
|---|---|
| `get_wrong_header` | a get beside a put decodes the newer cached bytes by the older meta's header |
| `reopen_idle` | sessions that write nothing make the meta file longer than what is read from it; it is cut inside a member, and what the next session writes is lost |
| `reopen_removed` | removed files are back after reopening |
| `flushed_then_crash` | flush does not make metas durable |
| `map_count` | a map is announced without its null and function values and written with them, so the reader gets out of step |

### The limits of the promises

The passing runs say under which use the code keeps its promises; several of the
properties name the use, and each leaves out what is known to break it. These
changes show what lies beyond (the first property TLC reports is named;
`GetReturnsContent` and `ReopenShowsCurrent` are `GetReturnsCurrent` and
`SessionsKeep` without their conditions, and `Shown(k) # None` is what
`RecoveredIsWhole` promises of every key of an open store):

| In | Change | TLC finds |
|---|---|---|
| `MCFileStore` | `OneThread` with "mode" among the calls, `MCFileStore.cfg` with `BufferSize = 3` | `GetReturnsContent`: after `setWriteSyn(true)` the tail in the buffer is no longer flushed for |
| `MCFileStore` | `CacheIsCurrent` without `AllFit` and `~Called({"close"})` | a put that is refused for its size, or comes after close, leaves its bytes in the cache, where a get finds them |
| `MCFileStore` | `StoredIsCurrent` without `PackAlone`, a put or a remove by the thread beside the pack | pack looks at an entry, copies it, and so brings back what was replaced or removed meanwhile |
| `MCFileStore` | `GetReturnsContent` over `WriteAndPack` | pack deletes the file under a get, or undoes a put made beside it; between `node++` and the end of `newStore` a get does not flush, or meets no stream; a get that sees `getSize()` in the middle of a write takes its block for written |
| `MCMetaLog` | `Reopening` with `cacheKept |-> TRUE` | `ReopenShowsCurrent`: reopened in the same process, the static cache hides what was put since the file was read |
| `MCMetaLog` | `ReopenShowsCurrent` over `Crashing` without "remove" | what is put after a crash goes behind a gzip member without an end, and cannot be read later |
| `MCMetaLog` | `Idling` with `recordSize |-> 1` | `ReopenShowsCurrent`: a file of few records that compress badly is cut as soon as it is read |
| `MCMetaLog` | `Crashing` with `sync |-> FALSE, metaBuffer |-> 1, dataBuffer |-> 4` | `Shown(k) # None`: a meta reaches the disk before its data |
| `MCMetaLog` | `Crashing` with "pack" among the calls, `mayBeEmpty |-> FALSE` | `Shown(k) # None`: pack after a crash deletes files whose metas it cannot read |
| `MCWson` | `Repeats` with the names abcd and abxd, `system |-> FALSE`, `freed |-> {FALSE}` | `name[1] = name[2]`: without `wson::init`, abxd read after abcd gets the name abcd: same length, first half, first and last unit, which is all the local cache compares |
| `MCLiteBrowser` | `DrawsFinished` without `use.loads = 1` | a second load replaces the document while it is drawn, or before it is laid out |
| `MCLiteBrowser` | `LoadShown` with two loads | a second page in a view of the same size is never laid out: the rectangles are equal and the state is `STATE_HTML_PASS` |
| `MCLiteBrowser` | `LoadShown` with `resized |-> TRUE` | a size read half old and half new, or given after the page was laid out, is kept for good |
| `MCLiteBrowser` | `NativeAlive` without `use.waits` | `destory` frees the structure while the lite thread is in `layout` or `loadHtml` |
| `MCLiteBrowser` | `Several` with `patient |-> FALSE` | `TextIsPages`: the pool is emptied before the old page is gone, and keeps its text under an address that the new page gets |

`OpenFails` is the constructor in a directory without a meta file, which asks for
a pool of no threads and throws: a store must be given its first, empty `.meta`
file.

## 4. Fairness

* `page_ring`: weak fairness of each of the two threads: each page has at most
  one waiter per side and nobody else takes its permit, so a thread whose permit
  is there stays enabled until it runs.
* `futex_ring`: weak fairness of the steps of each process. A system call that
  would sleep is not a step; `FUTEX_UNLOCK_PI` hands the page to the sleeper, so
  nobody can take it away in between. That a call is made, a signal comes or a
  process dies is not assumed. `CallsReturn` admits the parent that waits for a
  child that died before its flag.
* `store`: a thread inside an operation goes on when it can. Java's monitors are
  not fair, but a behaviour has finitely many operations, after which a waiting
  thread finds the monitor free for good; `OpsReturn` is about locks that are
  kept and circles of waiting, not about starvation by endless new calls. A
  thread need never start an operation.
* `wson`: one thread runs to the end, given that the code it calls returns.
* `lite_browser`: the loopers of both threads go on as long as they have
  something to do; nobody need load or destroy.

## 5. Proofs

`ASSUME`d of the constants: for `BlockOutput`, chunks are sequences of bytes, the
buffer has at least one byte, and node files stay within the Java int that the
constructor casts their length to; for `PageRing` and `FutexRing`, the number of
pages is even and at least four; for `LiteBrowser`, sizes are rectangles and
`None` is neither a page nor a document; for `Wson`, objects have finitely many
names, `None` is not a value, and the hash of a name is a natural number (a fold
over its units, of which the prover cannot know that by itself); for `FileStore`, values are stored in at
least one byte, the buffer has at least one, and `None`, `Garbage` and `Nobody`
differ from values, nodes, metas and threads.

*Block stream.* The inductive invariant adds to the type that the offset is the
length of file and buffer together plus that of the write in progress, that the
buffer never exceeds its size, that a closed stream has an empty buffer, and that
every block lies within file and buffer and holds there. The last conjunct is the
goal, and the others are what it takes to keep it: without the offset equation a
new block could be handed out at the wrong place. `ReadBack`, `FlushTestIsSound`
and `AppendOnly` follow from it, and `Refinement` shows that every step of the
stream is a step of `AppendLog` or leaves it unchanged, a torn write at a crash
included.

*Page ring.* The inductive invariant ties the private page numbers of both sides
together: where each side is in its loop says which pages of which parity it owns
and how many calls apart the two are. From it follow that pages are exclusive,
that the next page is always free, that replies match, and the refinement of the
safety part of `PingPong`.

*Futex ring.* The inductive invariant says, for a living side and each page, when
its word names the side: exactly the pages it may touch, and the one it was
handed in its sleep; that a sleeper's page has the waiters bit set and a living
owner; and that only the owner of the word can be about to call the kernel to
release it. `HandsAgree` and `NoLostWakeup` follow, for any number of failures;
`RingRefinement` shows step by step that, while nothing has failed, a futex step
is a step of `PageRing` or is invisible. `RightAnswer` carries the inductive
invariant of `PageRing` through this refinement and adds the calls that are cut off
by a failure. `Bounded`: of the page a dead side held last, and of how far the
survivor was ahead of it when it died, the invariant tells how many more pages the
survivor can take, which is less than the ring has.

*wson.* `WrittenIsRead` says that the reader stays in step. The argument needs a
witness: for each token of the message, the stack of containers with what is left
to come in each, as the reader has it before that token (`Parses`). It exists
because the walk writes a value only where one is owed (`Writes`: behind the last
token, the containers still to be filled are the announced entries of
`objectStack`, each with as many values as its loop has names left), and one token
more is again such a message (`Appended`). Called code may change what objects
hold, but not the names a loop goes over; a count of fewer values than names is the
one way to owe too much, and `short` tells it. The reader's own stack is then that
of the witness (`AtValue`, `Behind`), so each test on the next byte comes out as
intended, and when the stack is empty the message is at its end. `NamesFound`
needs that every entry of a cache holds a name of the heap under its own hash
(`Caches`); `WsonTypeCorrect` that the lists of names gone over are finite. Of
`WsonBytes`: every unsigned, signed and eight-byte number is read back from the
bytes pushed for it, by cases on the number of groups of seven bits; the buffer has
room for what is pushed as long as its length stays below 32 bits.

*Formats of the store.* The theorems are about `FormatBytes`: an int or long that
`put` takes is read back wherever it stands between other bytes, and the reader
stops right behind it; from that, a block and a meta up to its blocks are. The
numbers go beyond the 32 bits of TLC's integers, so no run covers this module.

*FileStore.* The theorems hold for any number of threads, keys, values and nodes
and any set of uses. The inductive invariant `IInv` is built in layers, each
needed for the next:

* `Shape`: the local variables that go with each place in an operation;
  `Monitors`: who is between taking and releasing a monitor holds it.
* `Streams`, `Lengths`: the stream is that of the last node but for the moment
  of a rollover; a file has all it was given but for what the buffer holds, and
  that is at most one buffer, two in the middle of a write.
* `Live`: a meta in `fileMeta` lies within its node, is what the meta file has for
  its key, and its files exist. `Packs`: a live meta of the file a pack is at is
  one it has not copied yet, and the files it is going to delete are not the
  current one; this is what keeps `Live` when pack deletes them.
* `Kept`: while nobody writes beside a pack, live metas have the values of
  `current`, and the pack copies exactly those. `StoredIsCurrent` follows from it
  with `Live` and `Lengths`.
* `Synced`: with synchronous writing a live meta is in its file, or its thread is
  about to flush; `SyncIsWritten` follows with `Monitors`.
* `Opened`, `Filled`, `Cached`: what is in the cache; `CacheIsCurrent` follows.
* `Mode`, `Direct`, `Seen`, `SyncGets`, `LoneGets`: what a get that is under way
  has looked up and where it will find it. With several threads the bytes are in
  the file, or still in the cache because the put that brought them has not
  flushed yet; alone, the test of `getBlocks` tells whether a flush is needed.
  `GetReturnsCurrent` follows.

`None` is assumed not to be a meta: `fileMeta` uses it where the map has no entry.

*LiteBrowser.* `Life` ties the freed structure to `ptr`, to `quit` and to where
the UI thread is in `destory`; `NoUseAfterFree` needs that a looper that has quit
gets no more messages. `Single` is about a view that loads one page: the page is
in the queue, being loaded, or loaded, and the announcement of it in the other
queue, one after the other, so `state` can pass `STATE_HTML_PASS` only once, and
while the UI thread draws the lite thread is past its work. `DrawsAreFinished`
follows. `GrowsOnce` counts: the layouts that were done, those the framework or
the queue may still bring, and two for each page under way never exceed two for
each load. `NoStaleText`: while the pool is not emptied too early, the address of a
new page is one that no string of the pool has had, so what the document shows is
the text of the page it was parsed from.

*MetaLog.* The theorems hold for any keys, uses and number of nodes, and any
number of openings and crashes. There are three layers.

* `Base`: `TypeOK`; `Phases`, the variables that go with each place in an
  operation (the open node has a meta file and no node behind it has one; a value
  whose meta is due is the last of the buffer); and `Packs`, what a pack has yet
  to do and that it is behind the open node.
* `Placed`, under synchronous writing and without pack: every meta in a file, in
  the static cache, in the streams or in `fileMeta` points to a value of its own
  key, and those in files to values in files. It is kept because the data is
  written before the metas of it can be: a put that fills the buffer, and the
  flush of a synchronous one, write the data first and the metas in the callback.
  No step shortens a node file, so it does not matter which metas a crash or a
  correction takes away. `RecoveredIsWhole` follows.
* `Files`, before any crash and any correction that tears: every meta file is a
  sequence of ended gzip members, the one being written to with an open member at
  its end once the streams are counted in (`Formed`), and its metas are of values
  of its own node (`Owned`), which is why pack may delete both files together.
  `Kept` then says that `fileMeta` has for each key the meta that reading all files
  would find (`Latest`) and that it shows `current`; `Copies`, that a running pack
  still has the entries of the file it is at for all metas that only this file has.
  `SessionsKeep` follows.
* `Surviving` joins the last two, under what `ClosedSurvives` asks for. What was
  closed must be shown not only by `fileMeta` but by the last meta on disk
  (`Stored`), which is what the next opening finds, and by every meta of the key
  that is still in the streams, since a crash may let any part of them reach the
  file before it (`Lasting`). New metas of a key lead to the newest put, data is
  never lost while a meta on disk points to it (`Placed`), and a correction that
  tears nothing leaves `Stored` as it is. Until the first crash `Awaited` says the
  same of `current` and `Latest`; at a close all that was latest is on disk
  (`Files`), so `Latest` is `Stored` and `current` becomes what was closed. After a
  crash new metas may land behind an unfinished member and be unreadable, so
  nothing is claimed of `current` there, only that `closed` is not undercut.
  `ClosedSurvives` follows with `RecoveredIsWhole`.

`CorrectionSpares` follows from `Formed` by counting: each header has a record
behind it, each end one before it, so a file has at most three tokens for each
record. `None` is assumed to be no number, no token and no file.

What is left to TLC: liveness (`CallsReturn`, `ServerEnds`, `OpsReturn`,
`MessagesEnd`, `LoadShown`, the fairness part of `ImplementsCalls`), since the
prover does no reasoning about ENABLED.  Every safety property of a passing run has
a theorem.

## 6. What is not modelled

* The vendored engines (WebKit, its layout code, litehtml, gumbo, Yoga) are
  third-party code; they make up nearly all lines of the repository.
* `FileDB` is an earlier copy of `FileStore`; the Android services keep their
  state in the framework; `AsmMain`, `SynCall` and the like are single-file trials.
* Damage inside `HashMap`, `LinkedHashMap` and `WeakHashMap` when they are
  changed and read at once: their operations are atomic steps here.
* The bytes after a cut in a gzip stream: they count as unreadable, although an
  inflater may make a few garbage bytes of them before it notices.
* A record that is cut in the middle counts for nothing in the position reached.
* Failures of the operating system other than the death of a process (a full
  disk, loss of power).
* In `FileStore`: empty values (listed as a hazard), the finalizer.
* Interruption of threads in the page ring. `native_ipc` is called by the UI
  thread alone, so `FutexRing` has one calling thread.
* In `Wson`: the characters of strings, exceptions thrown by called code (the
  callers do not look for them), garbage collection, running out of memory.
* In `LiteBrowser`: images, fonts and drawing calls of litehtml, the order in
  which `destory` frees container and document (a hazard that needs no model),
  memory orders weaker than sequential consistency.

## 7. Plan

1. *done* `AppendLog`, `BlockOutput`, `PingPong`, `PageRing`, `FutexRing`,
   `FileStore`, `MetaLog`, `FormatBytes`, `Wson`, `WsonBytes`, `LiteBrowser`, with the proofs
   above.
2. Empty values in `FileStore`.
