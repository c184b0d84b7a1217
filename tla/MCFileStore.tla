---------------------------- MODULE MCFileStore ----------------------------
(* Threads, keys and values for the runs of FileStore.  "raw" and "big"    *)
(* are stored as they are (put found that compressing does not pay, or the *)
(* suffix is excluded), "zip" is stored compressed.                        *)
EXTENDS FileStore

CONSTANTS t1, t2, k1, k2, raw, raw2, zip, big

SizeOf == [v \in Values |-> CASE v = raw -> 2 [] v = raw2 -> 1
                              [] v = zip -> 1 [] v = big -> 4]
ZippedOf == [v \in Values |-> v = zip]

By(calls1, calls2) == [t \in Threads |-> IF t = t1 THEN calls1 ELSE calls2]

(* One thread, asynchronously, small nodes. *)
OneThread ==
    [calls |-> By({"put", "get", "remove", "flush", "pack"}, {}), values |-> {raw, zip},
     nodeSize |-> 4, sync |-> FALSE, maxCalls |-> 5]

(* Two threads, synchronously. *)
TwoSync ==
    [calls |-> By({"put", "get", "remove"}, {"put", "get", "remove"}), values |-> {raw, raw2},
     nodeSize |-> 4, sync |-> TRUE, maxCalls |-> 5]

(* One writes, packs, closes and changes the mode; one reads and flushes.  *)
(* A value that is refused is among those put.                             *)
WriteAndPack ==
    [calls |-> By({"put", "remove", "pack", "mode", "close"}, {"get", "flush"}),
     values |-> {raw, big}, nodeSize |-> 3, sync |-> FALSE, maxCalls |-> 5]

(* One puts a value stored zipped and one stored raw, one reads. *)
TwoForms ==
    [calls |-> By({"put"}, {"get"}), values |-> {raw, zip},
     nodeSize |-> 9, sync |-> TRUE, maxCalls |-> 3]

AllUses == {OneThread, TwoSync, WriteAndPack}
FormUses == {TwoForms}
=============================================================================
