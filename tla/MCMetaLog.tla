----------------------------- MODULE MCMetaLog -----------------------------
(* Instances of MetaLog for TLC. *)
EXTENDS MetaLog

CONSTANTS k1, k2

(* Opening and closing in one process, asynchronously, with pack; every    *)
(* second block fills the buffer, every third one the node.                *)
Reopening ==
    [calls |-> {"put", "pack", "close"}, recordSize |-> 3, heldBack |-> 2,
     metaBuffer |-> 1, dataBuffer |-> 2, nodeSize |-> 2, sync |-> FALSE,
     cacheKept |-> FALSE, sameProcess |-> TRUE, mayBeEmpty |-> FALSE,
     maxPuts |-> 4, maxOpens |-> 3, maxCrashes |-> 0]

(* Two crashes at any moment, synchronously, without pack. *)
Crashing ==
    [calls |-> {"put", "flush", "close", "remove"}, recordSize |-> 5, heldBack |-> 1,
     metaBuffer |-> 9, dataBuffer |-> 2, nodeSize |-> 9, sync |-> TRUE,
     cacheKept |-> FALSE, sameProcess |-> FALSE, mayBeEmpty |-> TRUE,
     maxPuts |-> 2, maxOpens |-> 4, maxCrashes |-> 2]

(* Two sessions that write nothing between two that do. *)
Idling ==
    [calls |-> {"put", "close"}, recordSize |-> 4, heldBack |-> 1,
     metaBuffer |-> 9, dataBuffer |-> 2, nodeSize |-> 9, sync |-> TRUE,
     cacheKept |-> FALSE, sameProcess |-> FALSE, mayBeEmpty |-> FALSE,
     maxPuts |-> 2, maxOpens |-> 4, maxCrashes |-> 0]

Removing ==
    [calls |-> {"put", "remove", "close"}, recordSize |-> 3, heldBack |-> 2,
     metaBuffer |-> 9, dataBuffer |-> 2, nodeSize |-> 9, sync |-> TRUE,
     cacheKept |-> FALSE, sameProcess |-> FALSE, mayBeEmpty |-> FALSE,
     maxPuts |-> 1, maxOpens |-> 2, maxCrashes |-> 0]

(* A crash after flush(). *)
Flushing ==
    [calls |-> {"put", "flush", "close"}, recordSize |-> 3, heldBack |-> 2,
     metaBuffer |-> 9, dataBuffer |-> 2, nodeSize |-> 9, sync |-> TRUE,
     cacheKept |-> FALSE, sameProcess |-> FALSE, mayBeEmpty |-> FALSE,
     maxPuts |-> 1, maxOpens |-> 2, maxCrashes |-> 1]

AllUses == {Reopening, Crashing, Idling}
IdlingUses == {Idling}
RemovingUses == {Removing}
FlushingUses == {Flushing}
=============================================================================
