-------------------------------- MODULE Wson --------------------------------
(***************************************************************************)
(* The binary form of JSON values between JavaScript engines (wsonjsc.cpp):*)
(* toWson walks the objects of a heap with an explicit stack of those it   *)
(* is inside of, and writes a flat sequence; toJSValue reads it back and   *)
(* finds the names of properties through two caches.  Walking runs code of *)
(* the program: getters, and functions found as values, which are called   *)
(* and may change the heap that is being walked.                           *)
(*                                                                         *)
(* The sequence consists of tokens (a type with its number, or a property  *)
(* name); WsonBytes has their bytes.  A token also tells how deep in the   *)
(* walk it was written, a history that the reader does not see.            *)
(***************************************************************************)
EXTENDS Naturals, Sequences, SequencesExt, FiniteSets, TLC

CONSTANTS Objects, Lists,     \* the objects of the heap; those that are arrays
          MaxDeep,            \* WSON_MAX_DEEP
          Slots, SystemSlots, \* sizes of the caches of names (powers of two)
          HashSize,           \* 2 ^ 32, how many hashes there are
          Uses,               \* what the heap and the messages may be like:
                              \*   names    the names each map may have, sequences of units
                              \*   width    how long an array may be
                              \*   changes  how often called code changes the heap
                              \*   messages how many values go through
                              \*   system   whether wson::init has been called
              \*   freed    whether the engine may already have had a name,
              \*            so that the text in the cache is freed
          None

ASSUME WsonAssumption ==
    /\ Lists \subseteq Objects
    /\ MaxDeep \in Nat /\ Slots \in Nat \ {0} /\ SystemSlots \in Nat \ {0}
    /\ HashSize \in Nat \ {0}
    /\ \A u \in Uses : u.system \in BOOLEAN /\ u.width \in Nat /\ u.freed \subseteq BOOLEAN
    /\ \A u \in Uses : \A o \in Objects \ Lists : IsFiniteSet(u.names[o])

VARIABLE use       \* the one of the uses that this behaviour is about

Simple == {"null", "scalar", "function"}
Plain == Simple \union Objects
Value == Plain \union {"getter"}

ASSUME NoneAssumption == None \notin Plain

Contents(o) ==
    IF o \in Lists THEN UNION {[1 .. n -> Value] : n \in 0 .. use.width}
    ELSE UNION {[names -> Value] : names \in SUBSET use.names[o]}
Keys == UNION {use.names[o] : o \in Objects \ Lists}

VARIABLES heap,      \* what each object holds, None until it is looked at
          changes,   \* how often called code has changed it
          mode,      \* encode, decode, done, or lost: the reader is out of step
          stack,     \* objectStack, with the progress of each walk
          todo,      \* the value to be written next
          out,       \* the buffer
          short,     \* a map was announced with less than its names
          pos,       \* where the reader is
          open,      \* the arrays and maps the reader is inside of
          want,      \* what the reader looks for
          local, system,    \* the caches of names
          name,      \* the property name written and the one found
          sent       \* messages that have gone through

walk == <<stack, todo, out, short>>
reader == <<pos, open, want, local, system, name>>
vars == <<use, heap, changes, mode, walk, reader, sent>>

Token == [kind : {"null", "scalar", "array", "map", "key"}, level : Nat, count : Nat, key : Keys \union {None}]

TypeOK ==
    /\ \A o \in Objects : heap[o] \in Contents(o) \union {None}
    /\ mode \in {"encode", "decode", "done", "lost"}
    /\ todo \in Plain \union {None}
    /\ Len(stack) <= MaxDeep + 1
    /\ \A i \in 1 .. Len(stack) : stack[i].next \in 1 .. Len(stack[i].names) + 1
    /\ out \in Seq(Token) /\ short \in BOOLEAN
    /\ pos \in 1 .. Len(out) + 1 /\ want \in {"value", "next"}

EmptyCache(n) == [i \in 0 .. n - 1 |-> None]

Init ==
    /\ use \in Uses
    /\ heap = [o \in Objects |-> None]
    /\ changes = 0 /\ sent = 0 /\ mode = "encode"
    /\ todo \in Objects /\ stack = <<>> /\ out = <<>> /\ short = FALSE
    /\ pos = 1 /\ open = <<>> /\ want = "value"
    /\ local = EmptyCache(Slots) /\ system = EmptyCache(SystemSlots)
    /\ name = <<None, None>>

-----------------------------------------------------------------------------
(* wson_push_js_value *)

Top == stack[Len(stack)]
Advance == stack' = [stack EXCEPT ![Len(stack)].next = @ + 1]

Put(kind, level, count, key) ==
    out' = Append(out, [kind |-> kind, level |-> level, count |-> count, key |-> key])

(* Mutant: the depth is looked at one level late. *)
RefusedLate(o) ==
    \/ \E i \in 1 .. Len(stack) : stack[i].object = o
    \/ Len(stack) > MaxDeep + 1

(* check_js_deep_and_circle_reference *)
Refused(o) ==
    \/ \E i \in 1 .. Len(stack) : stack[i].object = o
    \/ Len(stack) > MaxDeep

(* Called code may empty an object or fill it anew, and returns anything.  *)
(* So may what JSONStringify calls for the log, around a call or in place  *)
(* of one.                                                                 *)
Refilled(o) == {c \in Contents(o) : \A i, j \in DOMAIN c : c[i] = c[j]}

MayChange ==
    \/ UNCHANGED <<heap, changes>>
    \/ /\ changes < use.changes
       /\ changes' = changes + 1
       /\ \E o \in Objects : \E c \in Refilled(o) : heap' = [heap EXCEPT ![o] = c]

Call(result) == result \in Plain /\ MayChange

Found == IF Top.names[Top.next] \in DOMAIN heap[Top.object]
         THEN heap[Top.object][Top.names[Top.next]] ELSE "absent"

(* A function is logged, and an object around a string or a number is      *)
(* asked for it.                                                           *)
PushSimple ==
    /\ todo \in Simple \/ (todo \in Objects /\ Refused(todo))
    /\ Put(IF todo = "scalar" THEN "scalar" ELSE "null", Len(stack), 0, None)
    /\ todo' = None
    /\ IF todo \in {"function", "scalar"} THEN MayChange ELSE UNCHANGED <<heap, changes>>
    /\ UNCHANGED <<mode, stack, short, reader, sent>>

(* The heap is given; what an object holds is drawn when it matters first. *)
Look(o) ==
    IF heap[o] # None THEN UNCHANGED heap
    ELSE \E c \in Contents(o) : heap' = [heap EXCEPT ![o] = c]

Enter(names, counting) ==
    /\ stack' = Append(stack, [object |-> todo, names |-> names, next |-> 1,
                               counting |-> counting, skipped |-> 0])
    /\ todo' = None
    /\ UNCHANGED <<changes, mode, short, reader, sent>>

OpenArray ==
    /\ todo \in Lists /\ ~Refused(todo)
    /\ Look(todo)
    /\ Put("array", Len(stack), Len(heap'[todo]), None)
    /\ Enter([i \in 1 .. Len(heap'[todo]) |-> i], FALSE)

OpenMap ==
    /\ todo \in Objects \ Lists /\ ~Refused(todo)
    /\ Look(todo)
    /\ Enter(SetToSeq(DOMAIN heap'[todo]), TRUE)
    /\ UNCHANGED out

(* The first pass over the names: the values to be skipped are counted. *)
Count ==
    /\ todo = None /\ stack # <<>> /\ Top.counting /\ Top.next <= Len(Top.names)
    /\ \E v \in Plain \union {"absent"} :
          /\ IF Found = "getter" THEN Call(v) ELSE v = Found /\ UNCHANGED <<heap, changes>>
          /\ stack' = [stack EXCEPT ![Len(stack)].next = @ + 1,
                         ![Len(stack)].skipped =
                             IF v \in {"null", "function", "absent"} THEN @ + 1 ELSE @]
    /\ UNCHANGED <<mode, todo, out, short, reader, sent>>

Announce ==
    /\ todo = None /\ stack # <<>> /\ Top.counting /\ Top.next > Len(Top.names)
    /\ Put("map", Len(stack) - 1, Len(Top.names) - Top.skipped, None)
    /\ short' = (short \/ Top.skipped > 0)
    /\ stack' = [stack EXCEPT ![Len(stack)].next = 1, ![Len(stack)].counting = FALSE]
    /\ UNCHANGED <<heap, changes, mode, todo, reader, sent>>

(* The value of the second look: a function is called for one. *)
Second ==
    \E v \in Plain :
        /\ IF Found \in {"getter", "function"} THEN Call(v)
           ELSE /\ v = IF Found = "absent" THEN "null" ELSE Found
                /\ UNCHANGED <<heap, changes>>
        /\ todo' = v

(* Mutant: the name is left out when the property is gone by now. *)
ElementUnlessGone ==
    /\ todo = None /\ stack # <<>> /\ ~Top.counting /\ Top.next <= Len(Top.names)
    /\ IF Top.object \in Lists \/ Found = "absent" THEN UNCHANGED out
       ELSE Put("key", Len(stack), 0, Top.names[Top.next])
    /\ Second
    /\ Advance
    /\ UNCHANGED <<mode, short, reader, sent>>

(* The second pass, and the elements of an array: a property is written    *)
(* with its name whatever it holds.                                        *)
Element ==
    /\ todo = None /\ stack # <<>> /\ ~Top.counting /\ Top.next <= Len(Top.names)
    /\ IF Top.object \in Lists THEN UNCHANGED out
       ELSE Put("key", Len(stack), 0, Top.names[Top.next])
    /\ Second
    /\ Advance
    /\ UNCHANGED <<mode, short, reader, sent>>

(* Mutant: the object is left one step after its last name. *)
LeaveLate ==
    /\ todo = None /\ stack # <<>> /\ ~Top.counting /\ Top.next > Len(Top.names) + 1
    /\ stack' = Front(stack)
    /\ UNCHANGED <<heap, changes, mode, todo, out, short, reader, sent>>

Leave ==
    /\ todo = None /\ stack # <<>> /\ ~Top.counting /\ Top.next > Len(Top.names)
    /\ stack' = Front(stack)
    /\ UNCHANGED <<heap, changes, mode, todo, out, short, reader, sent>>

(* toWson sets the length to what was written.  The heap does not matter   *)
(* to the reader, and by the next message it may be another.               *)
Encoded ==
    /\ mode = "encode" /\ todo = None /\ stack = <<>>
    /\ mode' = "decode"
    /\ heap' = [o \in Objects |-> None] /\ changes' = 0
    /\ UNCHANGED <<walk, reader, sent>>

Encode ==
    /\ mode = "encode"
    /\ PushSimple \/ OpenArray \/ OpenMap \/ Count \/ Announce \/ Element \/ Leave \/ Encoded

-----------------------------------------------------------------------------
(* wson_to_js_value *)

Within == open[Len(open)]
AtEnd == pos > Len(out)

(* A byte of another kind is taken for what is looked for.  What is read   *)
(* from there on has no meaning.                                           *)
Lost(kinds) == AtEnd \/ out[pos].kind \notin kinds

LoseStep(kinds) ==
    /\ Lost(kinds)
    /\ mode' = "lost"
    /\ UNCHANGED <<heap, changes, walk, reader, sent>>

ReadValue ==
    LET kinds == {"null", "scalar", "array", "map"} IN
    /\ mode = "decode" /\ want = "value"
    /\ \/ LoseStep(kinds)
       \/ /\ ~Lost(kinds)
          /\ open' = IF out[pos].kind \in {"array", "map"}
                     THEN Append(open, [map |-> out[pos].kind = "map", left |-> out[pos].count])
                     ELSE open
          /\ pos' = pos + 1 /\ want' = "next"
          /\ UNCHANGED <<heap, changes, mode, walk, local, system, name, sent>>

Reading == mode = "decode" /\ want = "next" /\ open # <<>> /\ Within.left > 0 /\ ~AtEnd

OneLess ==
    /\ open' = [open EXCEPT ![Len(open)].left = @ - 1]
    /\ want' = "value"
    /\ UNCHANGED <<heap, changes, mode, walk, sent>>

NextElement ==
    /\ Reading /\ ~Within.map
    /\ OneLess
    /\ UNCHANGED <<pos, local, system, name>>

(* makeIdentifer *)

Cached(k) == k # <<>> /\ k[1] \in 1 .. 126 /\ Len(k) <= 32

(* djb2 over the whole name, and over its first and last unit. *)
Hash(k) == FoldLeft(LAMBDA h, c : (33 * h + c) % HashSize, 5381, k)
Hash2(k) == Hash(IF Len(k) > 1 THEN <<k[1], k[Len(k)]>> ELSE k)
Key(k) == IF use.system THEN Hash(k) ELSE Hash2(k)

ASSUME HashAssumption ==
    \A u \in Uses : \A o \in Objects \ Lists : \A k \in u.names[o] : {Hash(k), Hash2(k)} \subseteq Nat

(* The first Len(k) bytes of two names of 2 * Len(k). *)
SameHalf(j, k) ==
    /\ \A i \in 1 .. Len(k) : 2 * i <= Len(k) => j[i] = k[i]
    /\ Len(k) % 2 = 1 => LET m == (Len(k) + 1) \div 2 IN j[m] % 256 = k[m] % 256

(* Mutant: what is in the slot is taken for the name. *)
AgreesInSlot(e, k, luck) == e # None

(* Length and hash are compared, then the text, in the system cache as a   *)
(* whole and in the local one in its first half.                           *)
(* When the engine already had the name, the text compared with has been   *)
(* freed by now, and may hold anything.                                    *)
Agrees(e, k, luck) ==
    /\ e # None /\ Len(e.text) = Len(k) /\ e.key = Key(k)
    /\ IF e.freed THEN luck
       ELSE e.text = k \/ (~e.global /\ SameHalf(e.text, k))

Find(k, luck, freed) ==
    LET global == system[Key(k) % SystemSlots]
        mine == local[Key(k) % Slots]
        new == [text |-> k, key |-> Key(k), freed |-> freed, global |-> use.system /\ global = None]
    IN
    \/ ~Cached(k) /\ name' = <<k, k>> /\ UNCHANGED <<local, system>>
    \/ /\ Cached(k) /\ use.system /\ Agrees(global, k, luck)
       /\ name' = <<k, global.text>> /\ UNCHANGED <<local, system>>
    \/ /\ Cached(k) /\ ~(use.system /\ Agrees(global, k, luck)) /\ Agrees(mine, k, luck)
       /\ name' = <<k, mine.text>> /\ UNCHANGED <<local, system>>
    \/ /\ Cached(k) /\ ~(use.system /\ Agrees(global, k, luck)) /\ ~Agrees(mine, k, luck)
       /\ name' = <<k, k>>
       /\ system' = IF new.global THEN [system EXCEPT ![Key(k) % SystemSlots] = new] ELSE system
       /\ local' = IF new.global THEN local ELSE [local EXCEPT ![Key(k) % Slots] = new]

ReadKey ==
    /\ Reading /\ Within.map
    /\ \/ LoseStep({"key"})
       \/ /\ ~Lost({"key"})
          /\ \E luck \in BOOLEAN, freed \in use.freed : Find(out[pos].key, luck, freed)
          /\ OneLess
          /\ pos' = pos + 1

(* The announced number is read, or the buffer is at its end. *)
CloseContainer ==
    /\ mode = "decode" /\ want = "next" /\ open # <<>> /\ (Within.left = 0 \/ AtEnd)
    /\ open' = Front(open)
    /\ UNCHANGED <<heap, changes, mode, walk, pos, want, local, system, name, sent>>

Decoded ==
    /\ mode = "decode" /\ want = "next" /\ open = <<>>
    /\ mode' = "done" /\ sent' = sent + 1
    /\ UNCHANGED <<heap, changes, walk, reader>>

Decode == ReadValue \/ NextElement \/ ReadKey \/ CloseContainer \/ Decoded

(* Another value goes through; only the system cache stays. *)
Again ==
    /\ mode = "done" /\ sent < use.messages
    /\ mode' = "encode" /\ todo' \in Objects /\ stack' = <<>> /\ out' = <<>> /\ short' = FALSE
    /\ pos' = 1 /\ open' = <<>> /\ want' = "value"
    /\ local' = EmptyCache(Slots) /\ name' = <<None, None>>
    /\ UNCHANGED <<heap, changes, system, sent>>

Next == (Encode \/ Decode \/ Again) /\ UNCHANGED use

Spec == Init /\ [][Next]_vars

(* One thread runs toWson and toJSValue to their end, given that the code  *)
(* they call returns.                                                      *)
FairSpec == Spec /\ WF_vars((Encode \/ Decode) /\ UNCHANGED use)

-----------------------------------------------------------------------------
(* The message is read as it was written: every token as what it is, at    *)
(* the same depth, and to the last one. *)
InStep ==
    /\ mode # "lost"
    /\ mode = "decode" /\ want = "value" => ~AtEnd /\ out[pos].level = Len(open)
    /\ mode = "done" => pos = Len(out) + 1

(***************************************************************************)
(* Whatever the code called from the walk changes on the way, and however  *)
(* the objects refer to each other, the reader stays in step with the      *)
(* writer, as long as no map was announced with less than its names        *)
(* (wsonjsc.cpp:230-299, 369-435).                                         *)
(***************************************************************************)
ReadBack == ~short => InStep

(***************************************************************************)
(* The comment of the first pass: "first check skip null or function"      *)
(* (wsonjsc.cpp:391).  The entries not counted are skipped, so that what   *)
(* is read is what was written.                                            *)
(***************************************************************************)
SkipsUncounted == InStep

(***************************************************************************)
(* The identifier found for a property name is that name, whatever the     *)
(* caches hold from before (wsonjsc.cpp:168-227), as long as no two names  *)
(* have all in common that is compared: length and hash, and, unless the   *)
(* text compared with may be freed, the first half.                        *)
(***************************************************************************)
Alike(j, k) == Len(j) = Len(k) /\ Key(j) = Key(k) /\ (TRUE \in use.freed \/ SameHalf(j, k))
NamesRight == (\A j, k \in Keys : Alike(j, k) => j = k) => name[1] = name[2]

(* Every message is through in the end: cycles and code that keeps making  *)
(* new references do not keep the walk going.                              *)
MessagesEnd == mode \in {"encode", "decode"} ~> mode \in {"done", "lost"}
=============================================================================
