------------------------------- MODULE MCWson -------------------------------
(* Wson with two maps and an array, and small sets of property names.      *)
EXTENDS Wson, WsonBytes

CONSTANTS outer, inner, array

(* Called code changes the heap once, while one message is written. *)
Walks == [names |-> outer :> {<<97>>, <<97, 98>>} @@ inner :> {},
          width |-> 1, changes |-> 1, messages |-> 1, system |-> FALSE, freed |-> {FALSE}]

(* Two messages share the system cache.  a, c and ab have one slot. *)
Repeats == [names |-> outer :> {<<97>>, <<99>>, <<97, 98>>} @@ inner :> {},
            width |-> 0, changes |-> 0, messages |-> 2, system |-> TRUE, freed |-> BOOLEAN]

(* The bytes at their boundaries, where numbers of TLC reach. *)
ASSUME BytesAssumption ==
    /\ \A num \in {0, 1, 127, 128, 16383, 16384, 2097151, 2097152,
                   268435455, 268435456, 2147483647} :
          NextUint(PushUint(num)) = num /\ TakesUint(PushUint(num)) = Len(PushUint(num))
    /\ \A value \in {0, 1, -1, 63, 64, -64, -65, 1073741823, -1073741823} :
          NextInt(PushInt(value)) = value

AllUses == {Walks, Repeats}
=============================================================================
