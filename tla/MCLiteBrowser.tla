--------------------------- MODULE MCLiteBrowser ---------------------------
(* A short, a long and an endless page in views of two sizes. *)
EXTENDS LiteBrowser, TLC

CONSTANTS short, long, tall

PageHeight == short :> 1 @@ long :> 3 @@ tall :> 0
TwoSizes == {[right |-> 1, bottom |-> 2], [right |-> 2, bottom |-> 1]}

(* As LiteBrowserActivity uses it, without its end. *)
Once == [loads |-> 1, patient |-> TRUE, layouts |-> 3, resized |-> FALSE,
         destroys |-> 0, waits |-> TRUE]
Turned == [Once EXCEPT !.resized = TRUE]

(* Ended at any moment, twice. *)
Ended == [loads |-> 1, patient |-> TRUE, layouts |-> 2, resized |-> FALSE,
          destroys |-> 2, waits |-> FALSE]
EndedIdle == [Ended EXCEPT !.waits = TRUE]

(* One page after another. *)
Several == [loads |-> 3, patient |-> TRUE, layouts |-> 1, resized |-> FALSE,
            destroys |-> 0, waits |-> TRUE]

AllUses == {Once, Turned, Ended, EndedIdle, Several}
=============================================================================
