----------------------------- MODULE WsonProofs -----------------------------
(***************************************************************************)
(* Of the codec: the types, that the caches of names never give another    *)
(* name, and that a message is read as it was written.  Of the bytes under *)
(* it (WsonBytes): what is written by wson.c is read back by it, for every *)
(* number of the width, and the buffer has room for what is pushed.        *)
(***************************************************************************)
EXTENDS Wson, WsonBytes, FiniteSetTheorems, FunctionTheorems, SequenceTheorems, TLAPS

(* One object that the walk is inside of, and one container that the       *)
(* reader is inside of.                                                    *)
Frame == [object : Objects, names : Seq(Nat) \union Seq(Keys), next : Nat,
          counting : BOOLEAN, skipped : Nat]
Container == [map : BOOLEAN, left : Nat]

Sound(f) ==
    /\ f.next \in 1 .. Len(f.names) + 1
    /\ f.object \notin Lists => f.names \in Seq(Keys)
    /\ f.counting => f.object \notin Lists /\ f.skipped < f.next

(* The type invariant, part by part. *)
Heaps == heap = [o \in Objects |-> heap[o]] /\ \A o \in Objects : heap[o] \in Contents(o) \union {None}
Stacks ==
    /\ stack \in Seq(Frame) /\ Len(stack) <= MaxDeep + 1
    /\ \A i \in 1 .. Len(stack) : Sound(stack[i])
Outs == out \in Seq(Token) /\ \A p \in 1 .. Len(out) : out[p].kind = "key" => out[p].key \in Keys
Reads ==
    /\ open \in Seq(Container) /\ want \in {"value", "next"}
    /\ pos \in 1 .. Len(out) + 1 /\ (mode = "encode" => pos = 1)
Rest ==
    /\ use \in Uses /\ mode \in {"encode", "decode", "done", "lost"}
    /\ todo \in Plain \union {None} /\ short \in BOOLEAN

Typed == Heaps /\ Stacks /\ Outs /\ Reads /\ Rest

LEMMA TypedSuffices == Typed => TypeOK
  BY DEF Typed, TypeOK, Heaps, Stacks, Outs, Reads, Rest, Sound

-----------------------------------------------------------------------------
(* The top of a stack. *)
LEMMA TopType ==
    ASSUME NEW S, NEW s \in Seq(S), s # <<>>
    PROVE  /\ Len(s) \in Nat \ {0} /\ s[Len(s)] \in S
           /\ Front(s) \in Seq(S) /\ Len(Front(s)) = Len(s) - 1
           /\ \A i \in 1 .. Len(s) - 1 : Front(s)[i] = s[i]
  <1>1. Len(s) \in Nat \ {0} /\ \A i \in 1 .. Len(s) : s[i] \in S
    OBVIOUS
  <1>2. PICK m \in Nat : m = Len(s) - 1
    BY <1>1
  <1>3. /\ SubSeq(s, 1, m) \in Seq(S) /\ Len(SubSeq(s, 1, m)) = IF 1 <= m THEN m - 1 + 1 ELSE 0
        /\ \A i \in 1 .. m - 1 + 1 : SubSeq(s, 1, m)[i] = s[1 + i - 1]
    BY <1>1, <1>2, SubSeqProperties
  <1>4. Len(SubSeq(s, 1, m)) = m
    BY <1>2, <1>3
  <1>5. \A i \in 1 .. m : SubSeq(s, 1, m)[i] = s[i]
    <2>1. \A i \in 1 .. m : i \in 1 .. m - 1 + 1 /\ 1 + i - 1 = i
      BY <1>2
    <2> QED BY <1>3, <2>1
  <1> QED BY <1>1, <1>2, <1>3, <1>4, <1>5 DEF Front

LEMMA TopChange ==
    ASSUME NEW S, NEW s \in Seq(S), s # <<>>, NEW f \in S, NEW t,
           t = [s EXCEPT ![Len(s)] = f]
    PROVE  /\ t \in Seq(S) /\ Len(t) = Len(s) /\ t # <<>> /\ t[Len(s)] = f
           /\ \A i \in 1 .. Len(s) - 1 : t[i] = s[i]
  OBVIOUS

LEMMA Pushed ==
    ASSUME NEW S, NEW s \in Seq(S), NEW f \in S
    PROVE  /\ Append(s, f) \in Seq(S) /\ Len(Append(s, f)) = Len(s) + 1 /\ Len(s) \in Nat
           /\ Append(s, f)[Len(s) + 1] = f
           /\ \A i \in 1 .. Len(s) : Append(s, f)[i] = s[i]
  OBVIOUS

LEMMA SameUse == [Next]_vars =>
    /\ UNCHANGED use /\ Keys' = Keys /\ Frame' = Frame /\ Token' = Token
    /\ \A o \in Objects : Contents(o)' = Contents(o)
  <1>1. [Next]_vars => UNCHANGED use
    BY DEF Next, vars
  <1> QED BY <1>1 DEF Keys, Frame, Token, Contents

-----------------------------------------------------------------------------
(* What an object holds has a size, and what called code puts there too. *)
LEMMA ListContents ==
    ASSUME use \in Uses, NEW o \in Lists, NEW c \in Contents(o)
    PROVE  /\ Len(c) \in Nat /\ [i \in 1 .. Len(c) |-> i] \in Seq(Nat)
           /\ Len([i \in 1 .. Len(c) |-> i]) = Len(c)
  <1>1. PICK n \in 0 .. use.width : c \in [1 .. n -> Value]
    BY DEF Contents
  <1>2. n \in Nat
    BY <1>1, WsonAssumption
  <1>3. Len(c) = n
    BY <1>1, <1>2
  <1> QED BY <1>2, <1>3

LEMMA MapContents ==
    ASSUME use \in Uses, NEW o \in Objects \ Lists, NEW c \in Contents(o)
    PROVE  SetToSeq(DOMAIN c) \in Seq(Keys)
  <1>1. PICK names \in SUBSET use.names[o] : c \in [names -> Value]
    BY DEF Contents
  <1>2. DOMAIN c = names /\ names \subseteq Keys /\ IsFiniteSet(names)
    BY <1>1, WsonAssumption, FS_Subset DEF Keys
  <1>3. Cardinality(names) \in Nat /\ ExistsBijection(1 .. Cardinality(names), names)
    BY <1>2, FS_CardinalityType
  <1>4. \E f \in [1 .. Cardinality(names) -> names] : IsInjective(f)
    BY <1>3 DEF ExistsBijection, Bijection, Injection
  <1>5. SetToSeq(names) \in [1 .. Cardinality(names) -> names]
    BY <1>4 DEF SetToSeq
  <1>6. SetToSeq(names) \in [1 .. Cardinality(names) -> Keys]
    BY <1>2, <1>5
  <1> QED BY <1>2, <1>3, <1>6

-----------------------------------------------------------------------------
(* The parts, as the steps change them. *)
LEMMA ChangeType ==
    ASSUME Heaps, [Next]_vars, MayChange
    PROVE  Heaps'
  <1>1. CASE UNCHANGED <<heap, changes>>
    BY <1>1, SameUse DEF Heaps
  <1>2. ASSUME NEW o \in Objects, NEW c \in Refilled(o), heap' = [heap EXCEPT ![o] = c] PROVE Heaps'
    BY <1>2, SameUse DEF Heaps, Refilled
  <1> QED BY <1>1, <1>2 DEF MayChange

LEMMA CallType ==
    ASSUME Heaps, [Next]_vars, NEW v, Call(v)
    PROVE  Heaps' /\ v \in Plain
  BY ChangeType DEF Call

LEMMA LookType ==
    ASSUME Heaps, [Next]_vars, NEW o \in Objects, Look(o)
    PROVE  Heaps' /\ heap'[o] \in Contents(o)
  <1>1. CASE heap[o] # None
    BY <1>1, SameUse DEF Heaps, Look
  <1>2. CASE heap[o] = None
    <2>1. PICK c \in Contents(o) : heap' = [heap EXCEPT ![o] = c]
      BY <1>2 DEF Look
    <2> QED BY <2>1, SameUse DEF Heaps
  <1> QED BY <1>1, <1>2

LEMMA StackChange ==
    ASSUME Stacks, [Next]_vars, stack # <<>>, NEW f \in Frame, Sound(f),
           stack' = [stack EXCEPT ![Len(stack)] = f]
    PROVE  Stacks'
  <1>1. /\ stack' \in Seq(Frame) /\ Len(stack') = Len(stack) /\ stack'[Len(stack)] = f
        /\ \A i \in 1 .. Len(stack) - 1 : stack'[i] = stack[i]
    BY TopChange DEF Stacks
  <1>2. \A i \in 1 .. Len(stack) : Sound(stack'[i])
    <2>1. \A i \in 1 .. Len(stack) : i = Len(stack) \/ i \in 1 .. Len(stack) - 1
      BY DEF Stacks
    <2> QED BY <1>1, <2>1 DEF Stacks
  <1> QED BY <1>1, <1>2, SameUse DEF Stacks, Sound

LEMMA EnterType ==
    ASSUME Stacks, [Next]_vars, todo \in Objects, ~Refused(todo),
           NEW names \in Seq(Nat) \union Seq(Keys), NEW counting \in BOOLEAN, Enter(names, counting),
           todo \notin Lists => names \in Seq(Keys), counting => todo \notin Lists
    PROVE  Stacks'
  <1> DEFINE f == [object |-> todo, names |-> names, next |-> 1, counting |-> counting, skipped |-> 0]
  <1>1. f \in Frame /\ Sound(f) /\ stack' = Append(stack, f)
    <2>1. Len(names) \in Nat
      OBVIOUS
    <2> QED BY <2>1 DEF Frame, Sound, Enter
  <1> HIDE DEF f
  <1>2. /\ stack' \in Seq(Frame) /\ Len(stack') = Len(stack) + 1 /\ Len(stack) \in Nat
        /\ stack'[Len(stack) + 1] = f
        /\ \A i \in 1 .. Len(stack) : stack'[i] = stack[i]
    BY <1>1, Pushed DEF Stacks
  <1>3. Len(stack) <= MaxDeep
    BY <1>2, WsonAssumption DEF Refused
  <1>4. \A i \in 1 .. Len(stack') : Sound(stack'[i])
    <2>1. \A i \in 1 .. Len(stack') : i = Len(stack) + 1 \/ i \in 1 .. Len(stack)
      BY <1>2
    <2> QED BY <1>1, <1>2, <2>1 DEF Stacks
  <1>5. Len(stack') <= MaxDeep + 1
    BY <1>2, <1>3, WsonAssumption
  <1> QED BY <1>2, <1>4, <1>5, SameUse DEF Stacks, Sound

LEMMA PutType ==
    ASSUME Outs, [Next]_vars, NEW kind, NEW level, NEW count, NEW key, Put(kind, level, count, key),
           kind \in {"null", "scalar", "array", "map", "key"}, level \in Nat, count \in Nat,
           key \in Keys \union {None}, kind = "key" => key \in Keys
    PROVE  Outs' /\ Len(out') = Len(out) + 1 /\ Len(out) \in Nat
  <1> DEFINE t == [kind |-> kind, level |-> level, count |-> count, key |-> key]
  <1>1. t \in Token /\ t.kind = kind /\ t.key = key /\ out' = Append(out, t)
    BY DEF Token, Put
  <1> HIDE DEF t
  <1>2. /\ out' \in Seq(Token) /\ Len(out') = Len(out) + 1 /\ Len(out) \in Nat
        /\ out'[Len(out) + 1] = t /\ \A i \in 1 .. Len(out) : out'[i] = out[i]
    BY <1>1, Pushed DEF Outs
  <1>3. \A p \in 1 .. Len(out') : out'[p].kind = "key" => out'[p].key \in Keys
    <2>1. \A p \in 1 .. Len(out') : p = Len(out) + 1 \/ p \in 1 .. Len(out)
      BY <1>2
    <2> QED BY <1>1, <1>2, <2>1 DEF Outs
  <1> QED BY <1>2, <1>3, SameUse DEF Outs

(* What the top of the stack is made of. *)
LEMMA TopFacts ==
    ASSUME Stacks, stack # <<>>
    PROVE  /\ Len(stack) \in Nat \ {0} /\ Top = stack[Len(stack)] /\ Top \in Frame /\ Sound(Top)
           /\ Top.object \in Objects /\ Top.names \in Seq(Nat) \union Seq(Keys)
           /\ Top.next \in Nat /\ Top.skipped \in Nat /\ Top.counting \in BOOLEAN
           /\ Len(Top.names) \in Nat
  <1>1. Len(stack) \in Nat \ {0} /\ stack[Len(stack)] \in Frame /\ Len(stack) \in 1 .. Len(stack)
    BY TopType DEF Stacks
  <1>2. Top \in Frame /\ Sound(Top)
    BY <1>1 DEF Top, Stacks
  <1> QED BY <1>1, <1>2 DEF Top, Frame

(* What the steps make of it. *)
LEMMA Advanced ==
    ASSUME Stacks, stack # <<>>, Advance
    PROVE  \E f \in Frame :
              /\ stack' = [stack EXCEPT ![Len(stack)] = f]
              /\ f.next = Top.next + 1 /\ f.skipped = Top.skipped
              /\ f.object = Top.object /\ f.names = Top.names /\ f.counting = Top.counting
  <1> DEFINE f == [Top EXCEPT !.next = @ + 1]
  <1>1. stack' = [stack EXCEPT ![Len(stack)] = f]
    BY DEF Stacks, Top, Advance
  <1>2. Top \in Frame /\ Top.next \in Nat
    BY TopFacts
  <1>3. /\ f \in Frame /\ f.next = Top.next + 1 /\ f.skipped = Top.skipped
        /\ f.object = Top.object /\ f.names = Top.names /\ f.counting = Top.counting
    BY <1>2 DEF Frame
  <1> QED BY <1>1, <1>3

LEMMA Counted ==
    ASSUME Stacks, stack # <<>>, NEW v,
           stack' = [stack EXCEPT ![Len(stack)].next = @ + 1,
                        ![Len(stack)].skipped =
                            IF v \in {"null", "function", "absent"} THEN @ + 1 ELSE @]
    PROVE  \E f \in Frame :
              /\ stack' = [stack EXCEPT ![Len(stack)] = f]
              /\ f.next = Top.next + 1 /\ f.skipped \in {Top.skipped, Top.skipped + 1}
              /\ f.object = Top.object /\ f.names = Top.names /\ f.counting = Top.counting
  <1> DEFINE f == [Top EXCEPT !.next = @ + 1,
                              !.skipped = IF v \in {"null", "function", "absent"} THEN @ + 1 ELSE @]
  <1>1. stack' = [stack EXCEPT ![Len(stack)] = f]
    BY DEF Stacks, Top
  <1>2. Top \in Frame /\ Top.next \in Nat /\ Top.skipped \in Nat
    BY TopFacts
  <1>3. PICK m \in {Top.skipped, Top.skipped + 1} :
           f = [Top EXCEPT !.next = Top.next + 1, !.skipped = m]
    OBVIOUS
  <1> HIDE DEF f
  <1>4. LET g == [Top EXCEPT !.next = Top.next + 1, !.skipped = m]
        IN  /\ g \in Frame /\ g.next = Top.next + 1 /\ g.skipped = m
            /\ g.object = Top.object /\ g.names = Top.names /\ g.counting = Top.counting
    <2>1. Top.next + 1 \in Nat /\ m \in Nat
      BY <1>2
    <2> QED BY <1>2, <2>1 DEF Frame
  <1> QED BY <1>1, <1>3, <1>4

LEMMA Restarted ==
    ASSUME Stacks, stack # <<>>,
           stack' = [stack EXCEPT ![Len(stack)].next = 1, ![Len(stack)].counting = FALSE]
    PROVE  \E f \in Frame :
              /\ stack' = [stack EXCEPT ![Len(stack)] = f]
              /\ f.next = 1 /\ f.skipped = Top.skipped /\ f.counting = FALSE
              /\ f.object = Top.object /\ f.names = Top.names
  <1> DEFINE f == [Top EXCEPT !.next = 1, !.counting = FALSE]
  <1>1. stack' = [stack EXCEPT ![Len(stack)] = f]
    BY DEF Stacks, Top
  <1>2. Top \in Frame
    BY TopFacts
  <1>3. /\ f \in Frame /\ f.next = 1 /\ f.skipped = Top.skipped /\ f.counting = FALSE
        /\ f.object = Top.object /\ f.names = Top.names
    BY <1>2 DEF Frame
  <1> QED BY <1>1, <1>3

LEMMA SameParts ==
    ASSUME [Next]_vars
    PROVE  /\ Heaps /\ UNCHANGED heap => Heaps'
           /\ Stacks /\ UNCHANGED stack => Stacks'
           /\ Outs /\ UNCHANGED out => Outs'
           /\ Reads /\ UNCHANGED <<open, want, pos, out, mode>> => Reads'
           /\ Rest /\ UNCHANGED <<mode, todo, short>> => Rest'
  BY SameUse DEF Heaps, Stacks, Outs, Reads, Rest, Sound

(* A token more, or none: the reader is still at the first. *)
LEMMA BeforeReading ==
    ASSUME Reads, mode = "encode", UNCHANGED <<open, want, pos, mode>>,
           Len(out) \in Nat, Len(out') \in Nat
    PROVE  Reads'
  BY DEF Reads

LEMMA EncodeType ==
    ASSUME Typed, [Next]_vars, Encode PROVE Typed'
  <1>1. Heaps /\ Stacks /\ Outs /\ Reads /\ Rest /\ mode = "encode" /\ Len(out) \in Nat
    BY DEF Typed, Encode, Outs
  <1>2. ASSUME UNCHANGED <<mode, reader>>, Len(out') \in Nat PROVE Reads'
    BY <1>1, <1>2, BeforeReading DEF reader
  <1>3. CASE PushSimple
    <2>1. Put(IF todo = "scalar" THEN "scalar" ELSE "null", Len(stack), 0, None)
      BY <1>3 DEF PushSimple
    <2>2. Outs' /\ Len(out') \in Nat
      <3>1. Len(stack) \in Nat
        BY <1>1 DEF Stacks
      <3> QED BY <1>1, <2>1, <3>1, PutType
    <2>3. todo' = None /\ UNCHANGED <<mode, stack, short, reader>>
      BY <1>3 DEF PushSimple
    <2>4. Rest'
      BY <1>1, <2>3, SameUse DEF Rest
    <2>5. Heaps'
      <3>1. MayChange \/ UNCHANGED heap
        BY <1>3 DEF PushSimple
      <3> QED BY <1>1, <3>1, ChangeType, SameParts
    <2> QED BY <1>1, <1>2, <2>2, <2>3, <2>4, <2>5, SameParts DEF Typed
  <1>4. CASE OpenArray
    <2> DEFINE names == [i \in 1 .. Len(heap'[todo]) |-> i]
    <2>1. todo \in Lists /\ todo \in Objects /\ ~Refused(todo) /\ Look(todo) /\ Enter(names, FALSE)
      BY <1>4, WsonAssumption DEF OpenArray
    <2>2. Heaps' /\ heap'[todo] \in Contents(todo)
      BY <1>1, <2>1, LookType
    <2>3. Len(heap'[todo]) \in Nat /\ names \in Seq(Nat) /\ use \in Uses
      BY <1>1, <2>1, <2>2, ListContents DEF Rest
    <2> HIDE DEF names
    <2>4. Stacks'
      BY <1>1, <2>1, <2>3, EnterType
    <2>5. Outs' /\ Len(out') \in Nat
      <3>1. Len(stack) \in Nat
        BY <1>1 DEF Stacks
      <3>2. Put("array", Len(stack), Len(heap'[todo]), None)
        BY <1>4 DEF OpenArray
      <3> QED BY <1>1, <2>3, <3>1, <3>2, PutType
    <2>6. todo' = None /\ UNCHANGED <<mode, short, reader>>
      BY <2>1 DEF Enter
    <2>7. Rest'
      BY <1>1, <2>6, SameUse DEF Rest
    <2> QED BY <1>1, <1>2, <2>2, <2>4, <2>5, <2>6, <2>7 DEF Typed
  <1>5. CASE OpenMap
    <2>1. /\ todo \in Objects \ Lists /\ ~Refused(todo) /\ Look(todo)
          /\ Enter(SetToSeq(DOMAIN heap'[todo]), TRUE) /\ UNCHANGED out
      BY <1>5 DEF OpenMap
    <2>2. Heaps' /\ heap'[todo] \in Contents(todo)
      BY <1>1, <2>1, LookType
    <2>3. SetToSeq(DOMAIN heap'[todo]) \in Seq(Keys)
      BY <1>1, <2>1, <2>2, MapContents DEF Rest
    <2>4. Stacks'
      BY <1>1, <2>1, <2>3, EnterType
    <2>5. todo' = None /\ UNCHANGED <<mode, short, reader>>
      BY <2>1 DEF Enter
    <2>6. Rest'
      BY <1>1, <2>5, SameUse DEF Rest
    <2> QED BY <1>1, <1>2, <2>1, <2>2, <2>4, <2>5, <2>6, SameParts DEF Typed
  <1>6. CASE Count
    <2>1. PICK v \in Plain \union {"absent"} :
             /\ IF Found = "getter" THEN Call(v) ELSE v = Found /\ UNCHANGED <<heap, changes>>
             /\ stack' = [stack EXCEPT ![Len(stack)].next = @ + 1,
                            ![Len(stack)].skipped =
                                IF v \in {"null", "function", "absent"} THEN @ + 1 ELSE @]
      BY <1>6 DEF Count
    <2>2. /\ stack # <<>> /\ Top.next <= Len(Top.names)
          /\ UNCHANGED <<mode, todo, out, short, reader>>
      BY <1>6 DEF Count
    <2>3. Heaps'
      BY <1>1, <2>1, CallType, SameParts
    <2>4. PICK f \in Frame :
             /\ stack' = [stack EXCEPT ![Len(stack)] = f]
             /\ f.next = Top.next + 1 /\ f.skipped \in {Top.skipped, Top.skipped + 1}
             /\ f.object = Top.object /\ f.names = Top.names /\ f.counting = Top.counting
      BY <1>1, <2>1, <2>2, Counted
    <2>5. Sound(f)
      <3>1. /\ Sound(Top) /\ Top.next \in Nat /\ Top.skipped \in Nat
            /\ Len(Top.names) \in Nat /\ Top.counting
        BY <1>1, <1>6, <2>2, TopFacts DEF Count
      <3> QED BY <2>2, <2>4, <3>1 DEF Sound
    <2>6. Stacks'
      BY <1>1, <2>2, <2>4, <2>5, StackChange
    <2> QED BY <1>1, <1>2, <2>2, <2>3, <2>6, SameParts DEF Typed
  <1>7. CASE Announce
    <2>1. /\ stack # <<>> /\ Top.counting
          /\ Put("map", Len(stack) - 1, Len(Top.names) - Top.skipped, None)
          /\ short' = (short \/ Top.skipped > 0)
          /\ stack' = [stack EXCEPT ![Len(stack)].next = 1, ![Len(stack)].counting = FALSE]
          /\ UNCHANGED <<heap, mode, todo, reader>>
      BY <1>7 DEF Announce
    <2>2. /\ Len(stack) \in Nat \ {0} /\ Top \in Frame /\ Sound(Top) /\ Top.next \in Nat
          /\ Top.skipped \in Nat /\ Len(Top.names) \in Nat
      BY <1>1, <2>1, TopFacts
    <2>3. PICK f \in Frame :
             /\ stack' = [stack EXCEPT ![Len(stack)] = f]
             /\ f.next = 1 /\ f.skipped = Top.skipped /\ f.counting = FALSE
             /\ f.object = Top.object /\ f.names = Top.names
      BY <1>1, <2>1, Restarted
    <2>4. Sound(f)
      BY <2>2, <2>3 DEF Sound
    <2>5. Stacks'
      BY <1>1, <2>1, <2>3, <2>4, StackChange
    <2>6. Outs' /\ Len(out') \in Nat
      <3>1. Len(stack) - 1 \in Nat /\ Len(Top.names) - Top.skipped \in Nat
        <4>1. Top.counting
          BY <2>1
        <4> QED BY <2>2, <4>1 DEF Sound
      <3> QED BY <1>1, <2>1, <3>1, PutType
    <2>7. Rest'
      BY <1>1, <2>1, SameUse DEF Rest
    <2> QED BY <1>1, <1>2, <2>1, <2>5, <2>6, <2>7, SameParts DEF Typed
  <1>8. CASE Element
    <2>1. /\ stack # <<>> /\ ~Top.counting /\ Top.next <= Len(Top.names)
          /\ IF Top.object \in Lists THEN UNCHANGED out
             ELSE Put("key", Len(stack), 0, Top.names[Top.next])
          /\ Second /\ Advance
          /\ UNCHANGED <<mode, short, reader>>
      BY <1>8 DEF Element
    <2>2. /\ Len(stack) \in Nat \ {0} /\ Top \in Frame /\ Sound(Top) /\ Top.next \in Nat
          /\ Top.skipped \in Nat /\ Len(Top.names) \in Nat
      BY <1>1, <2>1, TopFacts
    <2>3. PICK f \in Frame :
             /\ stack' = [stack EXCEPT ![Len(stack)] = f]
             /\ f.next = Top.next + 1 /\ f.skipped = Top.skipped
             /\ f.object = Top.object /\ f.names = Top.names /\ f.counting = Top.counting
      BY <1>1, <2>1, Advanced
    <2>4. Sound(f)
      BY <2>1, <2>2, <2>3 DEF Sound
    <2>5. Stacks'
      BY <1>1, <2>1, <2>3, <2>4, StackChange
    <2>6. Heaps' /\ todo' \in Plain
      BY <1>1, <2>1, CallType, SameParts DEF Second
    <2>7. Outs' /\ Len(out') \in Nat
      <3>1. CASE Top.object \in Lists
        BY <1>1, <2>1, <3>1, SameParts
      <3>2. CASE Top.object \notin Lists
        <4>1. Top.names[Top.next] \in Keys
          BY <2>1, <2>2, <3>2 DEF Sound
        <4> QED BY <1>1, <2>1, <2>2, <3>2, <4>1, PutType
      <3> QED BY <3>1, <3>2
    <2>8. Rest'
      BY <1>1, <2>1, <2>6, SameUse DEF Rest
    <2> QED BY <1>1, <1>2, <2>1, <2>5, <2>6, <2>7, <2>8 DEF Typed
  <1>9. CASE Leave
    <2>1. stack # <<>> /\ stack' = Front(stack) /\ UNCHANGED <<heap, mode, todo, out, short, reader>>
      BY <1>9 DEF Leave
    <2>2. /\ Len(stack) \in Nat \ {0} /\ stack' \in Seq(Frame) /\ Len(stack') = Len(stack) - 1
          /\ \A i \in 1 .. Len(stack) - 1 : stack'[i] = stack[i]
      BY <1>1, <2>1, TopType DEF Stacks
    <2>3. Len(stack') <= MaxDeep + 1
      BY <1>1, <2>2, WsonAssumption DEF Stacks
    <2>4. \A i \in 1 .. Len(stack') : Sound(stack'[i])
      BY <1>1, <2>2 DEF Stacks
    <2>5. Stacks'
      BY <2>2, <2>3, <2>4, SameUse DEF Stacks, Sound
    <2> QED BY <1>1, <1>2, <2>1, <2>5, SameParts DEF Typed
  <1>10. CASE Encoded
    <2>1. /\ mode' = "decode" /\ heap' = [o \in Objects |-> None]
          /\ UNCHANGED <<stack, todo, out, short, open, want, pos>>
      BY <1>10 DEF Encoded, walk, reader
    <2>2. Heaps' /\ Reads' /\ Rest'
      BY <1>1, <2>1, SameUse DEF Heaps, Reads, Rest
    <2> QED BY <1>1, <2>1, <2>2, SameParts DEF Typed
  <1> QED BY <1>3, <1>4, <1>5, <1>6, <1>7, <1>8, <1>9, <1>10 DEF Encode

LEMMA DecodeType ==
    ASSUME Typed, [Next]_vars, Decode PROVE Typed'
  <1>1. /\ Heaps /\ Stacks /\ Outs /\ Reads /\ Rest /\ Len(out) \in Nat
        /\ \A p \in 1 .. Len(out) : out[p].count \in Nat
    <2>1. Heaps /\ Stacks /\ Outs /\ Reads /\ Rest
      BY DEF Typed
    <2>2. Len(out) \in Nat /\ \A p \in 1 .. Len(out) : out[p] \in Token
      BY <2>1 DEF Outs
    <2> QED BY <2>1, <2>2 DEF Token
  <1>2. /\ mode = "decode" /\ UNCHANGED <<heap, walk>>
    BY DEF Decode, ReadValue, NextElement, ReadKey, CloseContainer, Decoded, LoseStep, Reading, OneLess
  <1>3. Heaps' /\ Stacks' /\ Outs' /\ UNCHANGED out
    BY <1>1, <1>2, SameParts DEF walk
  <1>4. ASSUME mode' \in {"decode", "done", "lost"}, open' \in Seq(Container), want' \in {"value", "next"},
               pos' \in 1 .. Len(out) + 1
        PROVE  Typed'
    <2>1. Reads'
      BY <1>3, <1>4 DEF Reads
    <2>2. Rest'
      BY <1>1, <1>2, <1>4, SameUse DEF Rest, walk
    <2> QED BY <1>3, <2>1, <2>2 DEF Typed
  <1>5. /\ open \in Seq(Container) /\ want \in {"value", "next"} /\ pos \in 1 .. Len(out) + 1
    BY <1>1 DEF Reads
  <1>6. ASSUME NEW kinds, LoseStep(kinds) PROVE Typed'
    BY <1>4, <1>5, <1>6 DEF LoseStep, reader
  <1>7. ASSUME NEW kinds, ~Lost(kinds) PROVE pos \in 1 .. Len(out)
    BY <1>1, <1>5, <1>7 DEF Lost, AtEnd
  <1>8. ASSUME Reading, OneLess PROVE open' \in Seq(Container) /\ want' \in {"value", "next"} /\ mode' = mode
    <2>1. open # <<>> /\ open[Len(open)] \in Container /\ open[Len(open)].left > 0
      BY <1>5, <1>8, TopType DEF Reading, Within
    <2> DEFINE c == [open[Len(open)] EXCEPT !.left = @ - 1]
    <2>2. c \in Container
      BY <2>1 DEF Container
    <2>3. open' = [open EXCEPT ![Len(open)] = c]
      BY <1>5, <1>8, <2>1 DEF OneLess
    <2> HIDE DEF c
    <2>4. open' \in Seq(Container)
      BY <1>5, <2>1, <2>2, <2>3, TopChange
    <2> QED BY <1>8, <2>4 DEF OneLess
  <1>9. CASE ReadValue
    <2> DEFINE kinds == {"null", "scalar", "array", "map"}
    <2>1. CASE LoseStep(kinds)
      BY <1>6, <2>1
    <2>2. CASE ~LoseStep(kinds)
      <3>1. /\ ~Lost(kinds) /\ pos' = pos + 1 /\ want' = "next" /\ mode' = mode
            /\ open' = IF out[pos].kind \in {"array", "map"}
                       THEN Append(open, [map |-> out[pos].kind = "map", left |-> out[pos].count])
                       ELSE open
        BY <1>9, <2>2 DEF ReadValue
      <3>2. pos \in 1 .. Len(out)
        BY <1>7, <3>1
      <3>3. [map |-> out[pos].kind = "map", left |-> out[pos].count] \in Container
        BY <1>1, <3>2 DEF Container
      <3>4. open' \in Seq(Container)
        BY <1>5, <3>1, <3>3, Pushed
      <3>5. pos' \in 1 .. Len(out) + 1
        BY <1>1, <3>1, <3>2
      <3> QED BY <1>2, <1>4, <3>1, <3>4, <3>5
    <2> QED BY <2>1, <2>2
  <1>10. CASE NextElement
    BY <1>2, <1>4, <1>5, <1>8, <1>10 DEF NextElement
  <1>11. CASE ReadKey
    <2>1. CASE LoseStep({"key"})
      BY <1>6, <2>1
    <2>2. CASE ~LoseStep({"key"})
      <3>1. ~Lost({"key"}) /\ Reading /\ OneLess /\ pos' = pos + 1
        BY <1>11, <2>2 DEF ReadKey
      <3>2. pos' \in 1 .. Len(out) + 1
        BY <1>1, <1>7, <3>1
      <3> QED BY <1>2, <1>4, <1>8, <3>1, <3>2
    <2> QED BY <2>1, <2>2
  <1>12. CASE CloseContainer
    <2>1. open' \in Seq(Container)
      BY <1>5, <1>12, TopType DEF CloseContainer
    <2> QED BY <1>2, <1>4, <1>5, <1>12, <2>1 DEF CloseContainer
  <1>13. CASE Decoded
    BY <1>4, <1>5, <1>13 DEF Decoded, reader
  <1> QED BY <1>9, <1>10, <1>11, <1>12, <1>13 DEF Decode

LEMMA TypeStep == Typed /\ [Next]_vars => Typed'
  <1> SUFFICES ASSUME Typed, [Next]_vars PROVE Typed'
    OBVIOUS
  <1>1. CASE Again
    <2>1. /\ UNCHANGED <<heap>> /\ mode' = "encode" /\ todo' \in Objects /\ stack' = <<>> /\ out' = <<>>
          /\ short' = FALSE /\ pos' = 1 /\ open' = <<>> /\ want' = "value"
      BY <1>1 DEF Again
    <2>2. Heaps'
      BY <2>1, SameParts DEF Typed
    <2>3. Stacks' /\ Outs' /\ Reads'
      BY <2>1, WsonAssumption DEF Stacks, Outs, Reads
    <2>4. Rest'
      BY <2>1, SameUse DEF Typed, Rest, Plain
    <2> QED BY <2>2, <2>3, <2>4 DEF Typed
  <1>2. CASE UNCHANGED vars
    BY <1>2, SameParts DEF vars, walk, reader, Typed
  <1> QED BY <1>1, <1>2, EncodeType, DecodeType DEF Next

LEMMA TypeInit == Init => Typed
  <1> SUFFICES ASSUME Init PROVE Typed
    OBVIOUS
  <1>1. Heaps
    BY DEF Init, Heaps
  <1>2. Stacks /\ Outs /\ Reads
    BY WsonAssumption DEF Init, Stacks, Outs, Reads
  <1>3. Rest
    BY DEF Init, Rest, Plain
  <1> QED BY <1>1, <1>2, <1>3 DEF Typed

(* The heap, the stack of the walk, the tokens and the reader are what they *)
(* are declared to be; the stack is never deeper than WSON_MAX_DEEP + 1    *)
(* (wsonjsc.cpp:230-299, 353-435).                                         *)
THEOREM WsonTypeCorrect == Spec => []TypeOK
  <1>1. Typed /\ [Next]_vars => Typed'
    BY TypeStep
  <1> QED BY <1>1, TypeInit, TypedSuffices, PTL DEF Spec

-----------------------------------------------------------------------------
(* An entry of a cache holds a name of the heap, with its own hash. *)
Entry(e, global) ==
    e # None => /\ e.text \in Keys /\ e.key = Key(e.text)
                /\ e.global = global /\ e.freed \in use.freed

Caches ==
    /\ local = [i \in 0 .. Slots - 1 |-> local[i]]
    /\ system = [i \in 0 .. SystemSlots - 1 |-> system[i]]
    /\ \A i \in 0 .. Slots - 1 : Entry(local[i], FALSE)
    /\ \A i \in 0 .. SystemSlots - 1 : Entry(system[i], TRUE)

Told == \A j, k \in Keys : Alike(j, k) => j = k

LEMMA KeyType ==
    ASSUME use \in Uses, NEW k \in Keys
    PROVE  Key(k) % Slots \in 0 .. Slots - 1 /\ Key(k) % SystemSlots \in 0 .. SystemSlots - 1
  <1>1. Hash(k) \in Nat /\ Hash2(k) \in Nat
    BY HashAssumption DEF Keys
  <1>2. Key(k) \in Nat
    BY <1>1 DEF Key
  <1> QED BY <1>2, WsonAssumption

(* What agrees with a name is the name, when the names are told apart. *)
LEMMA AgreesRight ==
    ASSUME use \in Uses, Told, NEW e, NEW global, Entry(e, global), NEW k \in Keys, NEW luck,
           Agrees(e, k, luck)
    PROVE  e.text = k
  <1>1. /\ e # None /\ Len(e.text) = Len(k) /\ e.key = Key(k)
        /\ IF e.freed THEN luck ELSE e.text = k \/ (~e.global /\ SameHalf(e.text, k))
    BY DEF Agrees
  <1>2. e.text \in Keys /\ Key(e.text) = Key(k) /\ e.freed \in use.freed
    BY <1>1 DEF Entry
  <1>3. use.freed \subseteq BOOLEAN
    BY WsonAssumption
  <1>4. CASE e.freed
    <2>1. TRUE \in use.freed
      BY <1>2, <1>3, <1>4
    <2> QED BY <1>1, <1>2, <2>1 DEF Told, Alike
  <1>5. CASE ~e.freed
    BY <1>1, <1>2, <1>5 DEF Told, Alike
  <1> QED BY <1>4, <1>5

LEMMA FindRight ==
    ASSUME use \in Uses, UNCHANGED use, Caches, NEW k \in Keys, NEW luck, NEW freed \in use.freed,
           Find(k, luck, freed)
    PROVE  Caches' /\ (Told => name'[1] = name'[2])
  <1> DEFINE global == system[Key(k) % SystemSlots]
             mine == local[Key(k) % Slots]
             new == [text |-> k, key |-> Key(k), freed |-> freed,
                     global |-> use.system /\ global = None]
  <1>1. Key(k) % Slots \in 0 .. Slots - 1 /\ Key(k) % SystemSlots \in 0 .. SystemSlots - 1
    BY KeyType
  <1>2. Entry(global, TRUE) /\ Entry(mine, FALSE)
    BY <1>1 DEF Caches
  <1>3. \A e, g : Entry(e, g) <=> Entry(e, g)'
    BY DEF Entry, Keys, Key
  <1>4. ASSUME UNCHANGED <<local, system>> PROVE Caches'
    BY <1>3, <1>4 DEF Caches
  <1>5. CASE ~Cached(k) /\ name' = <<k, k>> /\ UNCHANGED <<local, system>>
    BY <1>4, <1>5
  <1>6. CASE /\ Cached(k) /\ use.system /\ Agrees(global, k, luck)
             /\ name' = <<k, global.text>> /\ UNCHANGED <<local, system>>
    BY <1>2, <1>4, <1>6, AgreesRight
  <1>7. CASE /\ Cached(k) /\ ~(use.system /\ Agrees(global, k, luck)) /\ Agrees(mine, k, luck)
             /\ name' = <<k, mine.text>> /\ UNCHANGED <<local, system>>
    BY <1>2, <1>4, <1>7, AgreesRight
  <1>8. CASE /\ name' = <<k, k>>
             /\ system' = IF new.global THEN [system EXCEPT ![Key(k) % SystemSlots] = new] ELSE system
             /\ local' = IF new.global THEN local ELSE [local EXCEPT ![Key(k) % Slots] = new]
    <2>1. new.global \in BOOLEAN /\ Entry(new, new.global)
      BY WsonAssumption DEF Entry
    <2> HIDE DEF new
    <2>2. Caches'
      <3>1. CASE new.global
        <4>1. Entry(new, TRUE)
          BY <2>1, <3>1
        <4> QED BY <1>1, <1>3, <1>8, <3>1, <4>1 DEF Caches
      <3>2. CASE ~new.global
        <4>1. Entry(new, FALSE)
          BY <2>1, <3>2
        <4> QED BY <1>1, <1>3, <1>8, <3>2, <4>1 DEF Caches
      <3> QED BY <3>1, <3>2
    <2> QED BY <1>8, <2>2
  <1> QED BY <1>5, <1>6, <1>7, <1>8 DEF Find

LEMMA NameStep ==
    Typed /\ Caches /\ NamesRight /\ [Next]_vars => Caches' /\ NamesRight'
  <1> SUFFICES ASSUME Typed, Caches, NamesRight, [Next]_vars PROVE Caches' /\ NamesRight'
    OBVIOUS
  <1>1. UNCHANGED use /\ use \in Uses
    BY SameUse DEF Typed, Rest
  <1>2. Told' <=> Told
    BY <1>1 DEF Told, Alike, Key, Keys
  <1>3. \A e, g : Entry(e, g) <=> Entry(e, g)'
    BY <1>1 DEF Entry, Keys, Key
  <1>4. ASSUME UNCHANGED <<local, system, name>> PROVE Caches' /\ NamesRight'
    BY <1>2, <1>3, <1>4 DEF Caches, NamesRight, Told
  <1>5. CASE Encode
    <2>1. UNCHANGED reader
      BY <1>5 DEF Encode, PushSimple, OpenArray, OpenMap, Enter, Count, Announce, Element, Leave, Encoded
    <2> QED BY <1>4, <2>1 DEF reader
  <1>6. CASE ReadValue \/ NextElement \/ CloseContainer \/ Decoded
    <2>1. UNCHANGED <<local, system, name>>
      BY <1>6 DEF ReadValue, NextElement, CloseContainer, Decoded, LoseStep, reader
    <2> QED BY <1>4, <2>1
  <1>7. CASE ReadKey
    <2>1. CASE LoseStep({"key"})
      BY <1>4, <2>1 DEF LoseStep, reader
    <2>2. CASE ~LoseStep({"key"})
      <3>1. ~Lost({"key"})
        BY <1>7, <2>2 DEF ReadKey
      <3>2. PICK luck \in BOOLEAN, freed \in use.freed : Find(out[pos].key, luck, freed)
        BY <1>7, <2>2 DEF ReadKey
      <3>3. out[pos].key \in Keys
        BY <3>1 DEF Lost, AtEnd, Typed, Outs, Reads
      <3>4. Caches' /\ (Told => name'[1] = name'[2])
        BY <1>1, <3>2, <3>3, FindRight
      <3> QED BY <1>2, <3>4 DEF NamesRight, Told
    <2> QED BY <2>1, <2>2
  <1>8. CASE Again
    <2>1. UNCHANGED system /\ local' = EmptyCache(Slots) /\ name' = <<None, None>>
      BY <1>8 DEF Again
    <2>2. Caches'
      BY <1>3, <2>1 DEF Caches, EmptyCache, Entry
    <2> QED BY <2>1, <2>2 DEF NamesRight
  <1>9. CASE UNCHANGED vars
    BY <1>4, <1>9 DEF vars, reader
  <1> QED BY <1>5, <1>6, <1>7, <1>8, <1>9 DEF Next, Decode

LEMMA NameInit == Init => Caches /\ NamesRight
  BY DEF Init, Caches, EmptyCache, Entry, NamesRight

(* Whatever the two caches hold from earlier names and messages, the name  *)
(* found is the one that was written, if no two names have all in common   *)
(* that the caches compare (wsonjsc.cpp:168-227).                          *)
THEOREM NamesFound == Spec => []NamesRight
  <1>1. Spec => []Typed
    BY TypeInit, TypeStep, PTL DEF Spec
  <1> QED BY <1>1, NameInit, NameStep, PTL DEF Spec

-----------------------------------------------------------------------------
(* How the reader's stack goes along with the tokens of o: before token p  *)
(* it has the containers E[p][1], E[p][2] ... up to the level of p, and    *)
(* behind it those of After, up to Depth.                                  *)
Frames == [Nat -> [Nat -> Container]]
Values == {"null", "scalar", "array", "map"}
Opens(o, p) == o[p].kind \in {"array", "map"}
Depth(o, p) == IF Opens(o, p) THEN o[p].level + 1 ELSE o[p].level
After(o, E, p, i) ==
    IF Opens(o, p) /\ i = o[p].level + 1
    THEN [map |-> o[p].kind = "map", left |-> o[p].count] ELSE E[p][i]

Less(c) == [map |-> c.map, left |-> c.left - 1]

(* A token of this kind, at depth d, may come behind token p: what is      *)
(* deeper is complete, and a name comes in a map, where there is none yet. *)
MayFollow(o, E, p, kind, d) ==
    /\ d \in 1 .. Depth(o, p) /\ After(o, E, p, d).left > 0
    /\ \A i \in d + 1 .. Depth(o, p) : After(o, E, p, i).left = 0
    /\ kind = "key" <=> o[p].kind # "key" /\ After(o, E, p, d).map
    /\ o[p].kind = "key" => d = Depth(o, p)

(* The stack before it: a value is one less to come, a name is not.        *)
Turn(o, E, p, kind, d, s) ==
    /\ \A i \in 1 .. d - 1 : s[i] = After(o, E, p, i)
    /\ s[d] = IF kind = "key" THEN After(o, E, p, d) ELSE Less(After(o, E, p, d))

Parses(o, E) ==
    /\ E \in Frames
    /\ o # <<>> => o[1].kind \in Values /\ o[1].level = 0
    /\ \A p \in 1 .. Len(o) - 1 :
           /\ MayFollow(o, E, p, o[p + 1].kind, o[p + 1].level)
           /\ Turn(o, E, p, o[p + 1].kind, o[p + 1].level, E[p + 1])

LEMMA AfterType ==
    ASSUME NEW o \in Seq(Token), NEW E \in Frames, NEW p \in 1 .. Len(o), NEW i \in Nat
    PROVE  /\ After(o, E, p, i) \in Container /\ After(o, E, p, i).left \in Nat
           /\ Depth(o, p) \in Nat /\ o[p].level \in Nat
           /\ Depth(o, p) \in {o[p].level, o[p].level + 1}
  <1>1. o[p] \in Token /\ p \in Nat
    OBVIOUS
  <1>2. o[p].level \in Nat /\ o[p].count \in Nat /\ E[p][i] \in Container
    BY <1>1 DEF Token, Frames
  <1>3. After(o, E, p, i) \in Container
    BY <1>2 DEF After, Container
  <1>4. After(o, E, p, i).left \in Nat
    BY <1>3 DEF Container
  <1> QED BY <1>2, <1>3, <1>4 DEF Depth

(* One token more. *)
LEMMA Appended ==
    ASSUME NEW o \in Seq(Token), NEW E, Parses(o, E), NEW t \in Token,
           o = <<>> => t.kind \in Values /\ t.level = 0,
           o # <<>> => MayFollow(o, E, Len(o), t.kind, t.level)
    PROVE  LET q == Append(o, t)
           IN  \E F \in Frames :
                  /\ Parses(q, F)
                  /\ o # <<>> => Turn(o, E, Len(o), t.kind, t.level, F[Len(o) + 1])
  <1> DEFINE q == Append(o, t)
             L == Len(o)
             top(i) == IF t.kind # "key" /\ i = t.level THEN Less(After(o, E, L, i))
                       ELSE After(o, E, L, i)
             s == [i \in Nat |-> IF i \in 1 .. t.level THEN top(i) ELSE E[L][i]]
             F == IF o = <<>> THEN E ELSE [E EXCEPT ![L + 1] = s]
  <1>1. /\ q \in Seq(Token) /\ Len(q) = L + 1 /\ L \in Nat /\ q[L + 1] = t
        /\ \A i \in 1 .. L : q[i] = o[i]
    BY Pushed
  <1>2. E \in Frames
    BY DEF Parses
  <1>3. F \in Frames
    <2>1. CASE o = <<>>
      BY <1>2, <2>1
    <2>2. CASE o # <<>>
      <3>1. L \in 1 .. Len(o)
        BY <1>1, <2>2
      <3>2. \A i \in Nat : After(o, E, L, i) \in Container /\ After(o, E, L, i).left \in Nat
        BY <1>2, <3>1, AfterType
      <3>3. t.level \in Nat /\ (t.kind # "key" => After(o, E, L, t.level).left > 0)
        BY <2>2 DEF MayFollow, Token
      <3>4. \A i \in Nat : top(i) \in Container
        <4> TAKE i \in Nat
        <4>1. CASE t.kind # "key" /\ i = t.level
          <5>1. After(o, E, L, i).left - 1 \in Nat /\ After(o, E, L, i).map \in BOOLEAN
            <6>1. After(o, E, L, i).left \in Nat /\ After(o, E, L, i).left > 0
              BY <3>2, <3>3, <4>1
            <6>2. After(o, E, L, i).map \in BOOLEAN
              BY <3>2 DEF Container
            <6> QED BY <6>1, <6>2
          <5> QED BY <4>1, <5>1 DEF Less, Container
        <4>2. CASE ~(t.kind # "key" /\ i = t.level)
          BY <3>2, <4>2
        <4> QED BY <4>1, <4>2
      <3> HIDE DEF top
      <3>5. s \in [Nat -> Container]
        BY <1>1, <1>2, <3>4 DEF Frames
      <3> HIDE DEF s
      <3> QED BY <1>1, <1>2, <2>2, <3>5 DEF Frames
    <2> QED BY <2>1, <2>2
  <1>4. /\ \A p \in 1 .. L : F[p] = E[p]
        /\ o # <<>> => F[L + 1] = s
    <2> HIDE DEF s
    <2> QED BY <1>1, <1>2 DEF Frames
  <1> HIDE DEF F
  <1>5. \A p \in 1 .. L : /\ Depth(q, p) = Depth(o, p)
                          /\ \A i \in Nat : After(q, F, p, i) = After(o, E, p, i)
    BY <1>1, <1>4 DEF Depth, After, Opens
  <1>6. o # <<>> => Turn(o, E, L, t.kind, t.level, F[L + 1])
    <2> SUFFICES ASSUME o # <<>> PROVE Turn(o, E, L, t.kind, t.level, s)
      BY <1>4
    <2>1. t.level \in Nat /\ t.level >= 1
      BY DEF MayFollow, Token
    <2>2. \A i \in 1 .. t.level - 1 : s[i] = After(o, E, L, i)
      BY <2>1
    <2>3. s[t.level] = IF t.kind = "key" THEN After(o, E, L, t.level) ELSE Less(After(o, E, L, t.level))
      BY <2>1
    <2> QED BY <2>2, <2>3 DEF Turn
  <1>7. ASSUME NEW p \in 1 .. L, NEW kind, NEW d \in Nat, NEW r
        PROVE  /\ MayFollow(q, F, p, kind, d) <=> MayFollow(o, E, p, kind, d)
               /\ d >= 1 => (Turn(q, F, p, kind, d, r) <=> Turn(o, E, p, kind, d, r))
    <2>1. q[p] = o[p]
      BY <1>1
    <2>2. \A i : i \in d + 1 .. Depth(o, p) => i \in Nat
      OBVIOUS
    <2>3. \A i : i \in 1 .. d - 1 => i \in Nat
      OBVIOUS
    <2> QED BY <1>5, <2>1, <2>2, <2>3 DEF MayFollow, Turn
  <1>8. Parses(q, F)
    <2>1. q # <<>> /\ q[1].kind \in Values /\ q[1].level = 0
      BY <1>1 DEF Parses
    <2>2. ASSUME NEW p \in 1 .. Len(q) - 1
          PROVE  /\ MayFollow(q, F, p, q[p + 1].kind, q[p + 1].level)
                 /\ Turn(q, F, p, q[p + 1].kind, q[p + 1].level, F[p + 1])
      <3>1. p \in 1 .. L /\ q[p + 1] \in Token /\ q[p + 1].level \in Nat
        <4>1. p \in 1 .. L /\ p + 1 \in 1 .. Len(q)
          BY <1>1, <2>2
        <4>2. q[p + 1] \in Token
          BY <1>1, <4>1
        <4> QED BY <4>1, <4>2 DEF Token
      <3>2. CASE p = L
        <4>1. o # <<>> /\ q[p + 1] = t
          BY <1>1, <3>1, <3>2
        <4>2. MayFollow(o, E, p, t.kind, t.level) /\ Turn(o, E, p, t.kind, t.level, F[p + 1])
          BY <1>6, <3>2, <4>1
        <4>3. t.level >= 1 /\ t.level \in Nat
          BY <4>2 DEF MayFollow, Token
        <4> QED BY <1>7, <3>1, <4>1, <4>2, <4>3
      <3>3. CASE p # L
        <4>1. p \in 1 .. L - 1 /\ q[p + 1] = o[p + 1] /\ F[p + 1] = E[p + 1]
          BY <1>1, <1>4, <3>1, <3>3
        <4>2. /\ MayFollow(o, E, p, o[p + 1].kind, o[p + 1].level)
              /\ Turn(o, E, p, o[p + 1].kind, o[p + 1].level, E[p + 1])
          BY <4>1 DEF Parses
        <4>3. o[p + 1].level >= 1
          BY <3>1, <4>1, <4>2 DEF MayFollow
        <4> QED BY <1>7, <3>1, <4>1, <4>2, <4>3
      <3> QED BY <3>2, <3>3
    <2> QED BY <1>3, <2>1, <2>2 DEF Parses
  <1> QED BY <1>3, <1>6, <1>8

-----------------------------------------------------------------------------
(* The walk announces what it is inside of, but for a map whose values are *)
(* still being counted, and owes a value to the innermost of them from     *)
(* when it is announced by a name, or is the next element.                 *)
Announced == IF stack # <<>> /\ Top.counting THEN Len(stack) - 1 ELSE Len(stack)
Owed == todo # None \/ (stack # <<>> /\ Top.counting)
Due(f) == [map |-> f.object \notin Lists, left |-> Len(f.names) + 1 - f.next]
More(c) == [map |-> c.map, left |-> c.left + 1]
Expected(i) == IF Owed /\ i = Announced THEN More(Due(stack[i])) ELSE Due(stack[i])

Order ==
    /\ \A i \in 1 .. Len(stack) - 1 : ~stack[i].counting
    /\ todo # None /\ stack # <<>> => ~Top.counting
    /\ mode = "encode" => open = <<>> /\ want = "value"

(* What is written so far leaves the reader with what the walk is in.      *)
Writes(o, E) ==
    IF o = <<>> THEN Announced = 0 /\ Owed
    ELSE /\ Announced <= Depth(o, Len(o))
         /\ \A i \in 1 .. Announced : After(o, E, Len(o), i) = Expected(i)
         /\ \A i \in Announced + 1 .. Depth(o, Len(o)) : After(o, E, Len(o), i).left = 0
         /\ Owed => Announced >= 1
         /\ o[Len(o)].kind = "key" <=> Owed /\ stack[Announced].object \notin Lists
         /\ o[Len(o)].kind = "key" => Depth(o, Len(o)) = Announced

LEMMA MoreLess ==
    ASSUME NEW c \in Container
    PROVE  /\ More(c) \in Container /\ More(c).map = c.map
           /\ More(c).left > 0 /\ Less(More(c)) = c
  <1>1. c = [map |-> c.map, left |-> c.left] /\ c.map \in BOOLEAN /\ c.left \in Nat
    BY DEF Container
  <1>2. c.left + 1 > 0 /\ c.left + 1 \in Nat /\ c.left + 1 - 1 = c.left
    BY <1>1
  <1>3. More(c).left = c.left + 1 /\ More(c).map = c.map /\ More(c) \in Container
    BY <1>1, <1>2 DEF More, Container
  <1>4. Less(More(c)) = [map |-> c.map, left |-> c.left]
    <2>1. Less(More(c)) = [map |-> More(c).map, left |-> More(c).left - 1]
      BY DEF Less
    <2>2. More(c).left - 1 = c.left
      <3>1. More(c).left = c.left + 1 /\ c.left \in Nat
        BY <1>1, <1>3
      <3> QED BY <3>1
    <2> QED BY <1>3, <2>1, <2>2
  <1> QED BY <1>1, <1>2, <1>3, <1>4

LEMMA AnnouncedType ==
    ASSUME Stacks
    PROVE  /\ Announced \in Nat /\ Announced <= Len(stack) /\ Len(stack) \in Nat
           /\ \A i \in 1 .. Announced : /\ i \in 1 .. Len(stack)
                                        /\ Due(stack[i]) \in Container /\ Due(stack[i]).left \in Nat
                                        /\ stack[i].next \in Nat /\ Len(stack[i].names) \in Nat
                                        /\ stack[i].next <= Len(stack[i].names) + 1
  <1>1. Announced \in Nat /\ Announced <= Len(stack) /\ Len(stack) \in Nat
    <2>1. CASE stack # <<>> /\ Top.counting
      BY <2>1, TopFacts DEF Announced
    <2>2. CASE ~(stack # <<>> /\ Top.counting)
      BY <2>2 DEF Announced, Stacks
    <2> QED BY <2>1, <2>2
  <1>2. ASSUME NEW i \in 1 .. Len(stack)
        PROVE  /\ Due(stack[i]) \in Container /\ Due(stack[i]).left \in Nat
               /\ stack[i].next \in Nat /\ Len(stack[i].names) \in Nat
               /\ stack[i].next <= Len(stack[i].names) + 1
    <2>1. stack[i] \in Frame /\ Sound(stack[i])
      BY <1>2 DEF Stacks
    <2>2. stack[i].next \in Nat /\ stack[i].names \in Seq(Nat) \union Seq(Keys)
      BY <2>1 DEF Frame
    <2>3. Len(stack[i].names) \in Nat
      BY <2>2
    <2>4. stack[i].next <= Len(stack[i].names) + 1
      BY <2>1, <2>2, <2>3 DEF Sound
    <2>5. Len(stack[i].names) + 1 - stack[i].next \in Nat
      BY <2>2, <2>3, <2>4
    <2> QED BY <2>2, <2>3, <2>4, <2>5 DEF Due, Container
  <1> QED BY <1>1, <1>2

(* Of a value owed there is a place to go, and then it is no more owed.    *)
LEMMA ValueWritten ==
    ASSUME Typed, NEW E, Parses(out, E), Writes(out, E), Owed,
           NEW t \in Token, t.kind \in Values, t.level = Announced
    PROVE  LET q == Append(out, t)
           IN  \E F \in Frames :
                  /\ Parses(q, F)
                  /\ \A i \in 1 .. Announced : After(q, F, Len(q), i) = Due(stack[i])
  <1> DEFINE q == Append(out, t)
             L == Len(out)
             n == Announced
  <1>1. /\ q \in Seq(Token) /\ Len(q) = L + 1 /\ L \in Nat /\ q[L + 1] = t
        /\ \A i \in 1 .. L : q[i] = out[i]
    BY Pushed DEF Typed, Outs
  <1>2. n \in Nat /\ \A i \in 1 .. n : Due(stack[i]) \in Container /\ Due(stack[i]).left \in Nat
    BY AnnouncedType DEF Typed
  <1>3. CASE out = <<>>
    <2>1. n = 0 /\ t.level = 0
      BY <1>3 DEF Writes
    <2>2. PICK F \in Frames : Parses(q, F)
      BY <1>3, <2>1, Appended DEF Typed, Outs
    <2> QED BY <2>1, <2>2
  <1>4. CASE out # <<>>
    <2>1. /\ n <= Depth(out, L) /\ n >= 1
          /\ \A i \in 1 .. n : After(out, E, L, i) = Expected(i)
          /\ \A i \in n + 1 .. Depth(out, L) : After(out, E, L, i).left = 0
          /\ out[L].kind = "key" <=> stack[n].object \notin Lists
          /\ out[L].kind = "key" => Depth(out, L) = n
      BY <1>4 DEF Writes
    <2>2. L \in 1 .. L /\ E \in Frames /\ out \in Seq(Token)
      BY <1>1, <1>4 DEF Parses, Typed, Outs
    <2>3. Depth(out, L) \in Nat
      BY <2>2, AfterType
    <2>4. After(out, E, L, n) = More(Due(stack[n]))
      BY <1>2, <2>1 DEF Expected
    <2>5. /\ After(out, E, L, n).left > 0 /\ Less(After(out, E, L, n)) = Due(stack[n])
          /\ After(out, E, L, n).map <=> stack[n].object \notin Lists
      <3>1. Due(stack[n]) \in Container /\ Due(stack[n]).left \in Nat
        BY <1>2, <2>1
      <3>2. /\ More(Due(stack[n])).left > 0 /\ Less(More(Due(stack[n]))) = Due(stack[n])
            /\ More(Due(stack[n])).map = Due(stack[n]).map
        BY <3>1, MoreLess
      <3>3. Due(stack[n]).map <=> stack[n].object \notin Lists
        BY DEF Due
      <3> QED BY <2>4, <3>2, <3>3
    <2>6. t.kind # "key"
      BY DEF Values
    <2>7. MayFollow(out, E, L, t.kind, t.level)
      BY <1>2, <2>1, <2>3, <2>5, <2>6 DEF MayFollow
    <2>8. PICK F \in Frames : Parses(q, F) /\ Turn(out, E, L, t.kind, n, F[L + 1])
      BY <1>4, <2>2, <2>7, Appended
    <2>9. \A i \in 1 .. n : After(q, F, Len(q), i) = F[L + 1][i]
      BY <1>1, <1>2 DEF After
    <2>10. \A i \in 1 .. n : F[L + 1][i] = Due(stack[i])
      <3>1. \A i \in 1 .. n : i = n \/ i \in 1 .. n - 1
        BY <1>2
      <3>2. F[L + 1][n] = Due(stack[n])
        BY <2>5, <2>6, <2>8 DEF Turn
      <3>3. \A i \in 1 .. n - 1 : F[L + 1][i] = Due(stack[i])
        BY <1>2, <2>1, <2>8 DEF Turn, Expected
      <3> QED BY <3>1, <3>2, <3>3
    <2> QED BY <2>8, <2>9, <2>10
  <1> QED BY <1>3, <1>4

-----------------------------------------------------------------------------
(* The stack after the steps of the walk. *)
LEMMA Changed ==
    ASSUME Stacks, stack # <<>>, NEW f, f \in Frame, stack' = [stack EXCEPT ![Len(stack)] = f]
    PROVE  /\ stack' # <<>> /\ Len(stack') = Len(stack) /\ Top' = f
           /\ \A i \in 1 .. Len(stack) - 1 : stack'[i] = stack[i]
  BY TopChange DEF Stacks, Top

LEMMA Entered ==
    ASSUME Stacks, NEW names, NEW counting, Enter(names, counting)
    PROVE  /\ stack' # <<>> /\ Len(stack') = Len(stack) + 1 /\ Len(stack) \in Nat
           /\ \A i \in 1 .. Len(stack) : stack'[i] = stack[i]
           /\ Top' = [object |-> todo, names |-> names, next |-> 1,
                      counting |-> counting, skipped |-> 0]
           /\ Top' = stack'[Len(stack')]
  <1> DEFINE f == [object |-> todo, names |-> names, next |-> 1, counting |-> counting, skipped |-> 0]
  <1>1. stack' = Append(stack, f)
    BY DEF Enter
  <1> HIDE DEF f
  <1>2. \E S : stack \in Seq(S) /\ f \in S
    <2>1. stack \in Seq(Frame \union {f}) /\ f \in Frame \union {f}
      BY DEF Stacks
    <2> QED BY <2>1
  <1>3. /\ Len(stack') = Len(stack) + 1 /\ Len(stack) \in Nat /\ stack'[Len(stack) + 1] = f
        /\ \A i \in 1 .. Len(stack) : stack'[i] = stack[i]
        /\ stack' # <<>>
    BY <1>1, <1>2, Pushed
  <1>4. Top' = f
    BY <1>3 DEF Top
  <1> QED BY <1>3, <1>4 DEF f, Top

LEMMA OrderStep == Typed /\ Order /\ [Next]_vars => Order'
  <1> SUFFICES ASSUME Typed, Order, [Next]_vars PROVE Order'
    OBVIOUS
  <1>1. /\ Stacks /\ (\A i \in 1 .. Len(stack) - 1 : ~stack[i].counting)
        /\ (todo # None /\ stack # <<>> => ~Top.counting)
        /\ (mode = "encode" => open = <<>> /\ want = "value")
    BY DEF Typed, Order
  <1>2. CASE Encode
    <2>1. mode = "encode" /\ UNCHANGED reader
      BY <1>2 DEF Encode, PushSimple, OpenArray, OpenMap, Enter, Count, Announce, Element, Leave, Encoded
    <2>2. open' = <<>> /\ want' = "value"
      BY <1>1, <2>1 DEF reader
    <2>3. ASSUME UNCHANGED stack, todo' = None PROVE Order'
      BY <1>1, <2>2, <2>3 DEF Order
    <2>4. ASSUME stack # <<>>, NEW f \in Frame, stack' = [stack EXCEPT ![Len(stack)] = f],
                 todo' # None => ~f.counting
          PROVE  Order'
      <3>1. /\ stack' # <<>> /\ Len(stack') = Len(stack) /\ Top' = f
            /\ \A i \in 1 .. Len(stack) - 1 : stack'[i] = stack[i]
        BY <1>1, <2>4, Changed
      <3> QED BY <1>1, <2>2, <2>4, <3>1 DEF Order
    <2>5. ASSUME NEW names, NEW counting, Enter(names, counting), todo # None PROVE Order'
      <3>1. /\ Len(stack') = Len(stack) + 1 /\ Len(stack) \in Nat
            /\ \A i \in 1 .. Len(stack) : stack'[i] = stack[i]
        BY <1>1, <2>5, Entered
      <3>2. \A i \in 1 .. Len(stack') - 1 : ~stack'[i].counting
        <4> SUFFICES ASSUME NEW i \in 1 .. Len(stack') - 1 PROVE ~stack'[i].counting
          OBVIOUS
        <4>1. i \in 1 .. Len(stack) /\ stack'[i] = stack[i] /\ stack # <<>>
          BY <3>1
        <4>2. i = Len(stack) \/ i \in 1 .. Len(stack) - 1
          BY <3>1, <4>1
        <4> QED BY <1>1, <2>5, <4>1, <4>2 DEF Top
      <3>3. todo' = None
        BY <2>5 DEF Enter
      <3> QED BY <2>2, <3>2, <3>3 DEF Order
    <2>6. ASSUME stack # <<>> PROVE Top \in Frame /\ Len(stack) \in Nat \ {0}
      BY <1>1, <2>6, TopFacts
    <2>7. CASE PushSimple
      BY <2>3, <2>7 DEF PushSimple
    <2>8. CASE OpenArray \/ OpenMap
      <3>1. todo # None
        BY <2>8, NoneAssumption, WsonAssumption DEF OpenArray, OpenMap, Plain
      <3> QED BY <2>5, <2>8, <3>1 DEF OpenArray, OpenMap
    <2>9. CASE Count
      <3>1. stack # <<>> /\ todo' = None
        BY <2>9 DEF Count
      <3>2. PICK v : stack' = [stack EXCEPT ![Len(stack)].next = @ + 1,
                            ![Len(stack)].skipped =
                                IF v \in {"null", "function", "absent"} THEN @ + 1 ELSE @]
        BY <2>9 DEF Count
      <3>3. PICK f \in Frame : stack' = [stack EXCEPT ![Len(stack)] = f]
        BY <1>1, <3>1, <3>2, Counted
      <3> QED BY <2>4, <3>1, <3>3
    <2>10. CASE Announce
      <3>1. /\ stack # <<>> /\ todo' = None
            /\ stack' = [stack EXCEPT ![Len(stack)].next = 1, ![Len(stack)].counting = FALSE]
        BY <2>10 DEF Announce
      <3>2. PICK f \in Frame : stack' = [stack EXCEPT ![Len(stack)] = f]
        BY <1>1, <3>1, Restarted
      <3> QED BY <2>4, <3>1, <3>2
    <2>11. CASE Element
      <3>1. stack # <<>> /\ ~Top.counting /\ Advance
        BY <2>11 DEF Element
      <3>2. PICK f \in Frame : /\ stack' = [stack EXCEPT ![Len(stack)] = f]
                               /\ f.counting = Top.counting
        BY <1>1, <3>1, Advanced
      <3> QED BY <2>4, <3>1, <3>2
    <2>12. CASE Leave
      <3>1. stack # <<>> /\ stack' = Front(stack) /\ todo' = None
        BY <2>12 DEF Leave
      <3>2. /\ Len(stack) \in Nat \ {0} /\ Len(stack') = Len(stack) - 1
            /\ \A i \in 1 .. Len(stack) - 1 : stack'[i] = stack[i]
        BY <1>1, <3>1, TopType DEF Stacks
      <3> QED BY <1>1, <2>2, <3>1, <3>2 DEF Order
    <2>13. CASE Encoded
      BY <2>3, <2>13 DEF Encoded, walk
    <2> QED BY <1>2, <2>7, <2>8, <2>9, <2>10, <2>11, <2>12, <2>13 DEF Encode
  <1>3. CASE Decode
    <2>1. UNCHANGED <<stack, todo>> /\ mode' # "encode"
      BY <1>3 DEF Decode, ReadValue, NextElement, ReadKey, CloseContainer, Decoded, LoseStep,
                  Reading, OneLess, walk
    <2> QED BY <1>1, <2>1 DEF Order, Top
  <1>4. CASE Again
    BY <1>4 DEF Again, Order
  <1>5. CASE UNCHANGED vars
    BY <1>1, <1>5 DEF vars, walk, reader, Order, Top
  <1> QED BY <1>2, <1>3, <1>4, <1>5 DEF Next

-----------------------------------------------------------------------------
(* After the value that was owed, the walk is inside of it or owes nothing.*)
LEMMA AfterValue ==
    ASSUME Typed, NEW E, Parses(out, E), Writes(out, E), Owed,
           NEW t \in Token, t.kind \in Values, t.level = Announced, out' = Append(out, t),
           ~Owed', Announced' = IF t.kind \in {"array", "map"} THEN Announced + 1 ELSE Announced,
           \A i \in 1 .. Announced : stack'[i] = stack[i],
           t.kind \in {"array", "map"} =>
               Due(stack'[Announced + 1]) = [map |-> t.kind = "map", left |-> t.count]
    PROVE  \E F \in Frames : Parses(out', F) /\ Writes(out, F)'
  <1> DEFINE n == Announced
             L == Len(out)
  <1>1. PICK F \in Frames :
           /\ Parses(out', F)
           /\ \A i \in 1 .. n : After(out', F, Len(out'), i) = Due(stack[i])
    BY ValueWritten
  <1>2. n \in Nat
    BY AnnouncedType DEF Typed
  <1>3. Len(out') = L + 1 /\ L \in Nat /\ out'[Len(out')] = t /\ out' # <<>>
    BY Pushed DEF Typed, Outs
  <1>4. Depth(out', Len(out')) = Announced'
    BY <1>3 DEF Depth, Opens
  <1>5. \A i \in 1 .. Announced' : After(out', F, Len(out'), i) = Due(stack'[i])
    <2> SUFFICES ASSUME NEW i \in 1 .. Announced'
                 PROVE  After(out', F, Len(out'), i) = Due(stack'[i])
      OBVIOUS
    <2>1. CASE i \in 1 .. n
      BY <1>1, <2>1
    <2>2. CASE i \notin 1 .. n
      <3>1. t.kind \in {"array", "map"} /\ i = n + 1
        BY <1>2, <2>2
      <3>2. After(out', F, Len(out'), i) = [map |-> t.kind = "map", left |-> t.count]
        BY <1>3, <3>1 DEF After, Opens
      <3> QED BY <3>1, <3>2
    <2> QED BY <2>1, <2>2
  <1>6. t.kind # "key"
    BY DEF Values
  <1>7. Announced' \in Nat
    BY <1>2
  <1>8. /\ Announced' <= Depth(out', Len(out'))
        /\ \A i \in Announced' + 1 .. Depth(out', Len(out')) : After(out', F, Len(out'), i).left = 0
    BY <1>4, <1>7
  <1>9. \A i \in 1 .. Announced' : Expected(i)' = Due(stack'[i])
    BY DEF Expected, Due
  <1>10. Writes(out, F)'
    BY <1>3, <1>5, <1>6, <1>8, <1>9 DEF Writes
  <1> QED BY <1>1, <1>10

(* A step that writes nothing, owes the same and leaves the rest to come.  *)
LEMMA SameWritten ==
    ASSUME NEW E, Writes(out, E), UNCHANGED out, Announced' = Announced, Owed' <=> Owed,
           \A i \in 1 .. Announced : stack'[i] = stack[i], Announced \in Nat
    PROVE  Writes(out, E)'
  <1>1. \A i \in 1 .. Announced : Expected(i)' = Expected(i)
    BY DEF Expected, Due, More
  <1>2. Announced >= 1 => stack'[Announced].object = stack[Announced].object
    BY DEF Writes
  <1>3. \A i : After(out, E, Len(out), i)' = After(out, E, Len(out), i)
    BY DEF After, Opens
  <1>4. Depth(out, Len(out))' = Depth(out, Len(out))
    BY DEF Depth, Opens
  <1> QED BY <1>1, <1>2, <1>3, <1>4 DEF Writes

LEMMA InnerKnown ==
    ASSUME Typed, Order
    PROVE  /\ \A i \in 1 .. Len(stack) - 1 : ~stack[i].counting
           /\ todo # None => Announced = Len(stack) /\ Owed
           /\ stack # <<>> /\ ~Top.counting => Announced = Len(stack)
           /\ stack # <<>> /\ Top.counting => Announced = Len(stack) - 1 /\ Owed /\ todo = None
           /\ stack = <<>> => Announced = 0
           /\ Announced \in Nat /\ Len(stack) \in Nat
  <1>1. Stacks /\ Announced \in Nat /\ Len(stack) \in Nat
    BY AnnouncedType DEF Typed
  <1> QED BY <1>1 DEF Order, Announced, Owed

LEMMA SimpleWrites ==
    ASSUME Typed, Order, [Next]_vars, NEW E, Parses(out, E), Writes(out, E), PushSimple
    PROVE  \E F \in Frames : Parses(out', F) /\ Writes(out, F)'
  <1>1. Stacks /\ Outs /\ todo # None /\ todo' = None /\ UNCHANGED stack
    BY NoneAssumption, WsonAssumption DEF PushSimple, Typed, Plain
  <1>2. /\ \A i \in 1 .. Len(stack) - 1 : ~stack[i].counting
        /\ Announced = Len(stack) /\ Owed /\ Announced \in Nat
    BY <1>1, InnerKnown
  <1>3. stack # <<>> => ~Top.counting
    BY <1>1 DEF Order
  <1>4. Announced' = Announced /\ ~Owed'
    BY <1>1, <1>2, <1>3 DEF Announced, Owed, Top
  <1> DEFINE t == [kind |-> IF todo = "scalar" THEN "scalar" ELSE "null",
                   level |-> Len(stack), count |-> 0, key |-> None]
  <1>5. t \in Token /\ t.kind \in Values /\ t.kind \notin {"array", "map"} /\ t.level = Announced
    BY <1>2 DEF Token, Values
  <1>6. out' = Append(out, t)
    BY DEF PushSimple, Put
  <1> HIDE DEF t
  <1> QED BY <1>1, <1>2, <1>4, <1>5, <1>6, AfterValue

LEMMA ArrayWrites ==
    ASSUME Typed, Order, [Next]_vars, NEW E, Parses(out, E), Writes(out, E), OpenArray
    PROVE  \E F \in Frames : Parses(out', F) /\ Writes(out, F)'
  <1>1. Stacks /\ Outs /\ Heaps /\ use \in Uses /\ todo \in Lists /\ todo \in Objects /\ todo # None
    BY NoneAssumption, WsonAssumption DEF OpenArray, Typed, Plain, Rest
  <1>2. Announced = Len(stack) /\ Owed /\ Announced \in Nat
    BY <1>1, InnerKnown
  <1> DEFINE c == heap'[todo]
             names == [i \in 1 .. Len(c) |-> i]
  <1>3. Len(c) \in Nat /\ Len(names) = Len(c)
    <2>1. c \in Contents(todo)
      BY <1>1, LookType DEF OpenArray
    <2> QED BY <1>1, <2>1, ListContents
  <1>4. /\ Enter(names, FALSE)
        /\ out' = Append(out, [kind |-> "array", level |-> Len(stack), count |-> Len(c), key |-> None])
    BY DEF OpenArray, Put
  <1> HIDE DEF c, names
  <1> DEFINE t == [kind |-> "array", level |-> Len(stack), count |-> Len(c), key |-> None]
  <1>5. t \in Token /\ t.kind \in Values /\ t.kind = "array" /\ t.level = Announced /\ t.count = Len(c)
    BY <1>2, <1>3 DEF Token, Values
  <1>6. out' = Append(out, t)
    BY <1>4
  <1> HIDE DEF t
  <1>7. /\ stack' # <<>> /\ Len(stack') = Len(stack) + 1 /\ Len(stack) \in Nat
        /\ \A i \in 1 .. Len(stack) : stack'[i] = stack[i]
        /\ Top' = [object |-> todo, names |-> names, next |-> 1, counting |-> FALSE, skipped |-> 0]
        /\ Top' = stack'[Len(stack')] /\ todo' = None
    BY <1>1, <1>4, Entered DEF Enter
  <1>8. ~Top.counting' /\ Top'.object = todo /\ Top'.names = names /\ Top'.next = 1
    BY <1>7
  <1>9. Announced' = Announced + 1 /\ ~Owed'
    BY <1>2, <1>7, <1>8 DEF Announced, Owed
  <1>10. Due(stack'[Announced + 1]) = [map |-> t.kind = "map", left |-> t.count]
    <2>1. Due(stack'[Announced + 1]) = [map |-> todo \notin Lists, left |-> Len(names) + 1 - 1]
      BY <1>2, <1>7, <1>8 DEF Due
    <2>2. Len(names) + 1 - 1 = t.count
      BY <1>3, <1>5
    <2> QED BY <1>1, <1>5, <2>1, <2>2
  <1> QED BY <1>2, <1>5, <1>6, <1>7, <1>9, <1>10, AfterValue

LEMMA AnnounceWrites ==
    ASSUME Typed, Order, [Next]_vars, NEW E, Parses(out, E), Writes(out, E), Announce, ~short'
    PROVE  \E F \in Frames : Parses(out', F) /\ Writes(out, F)'
  <1>1. Stacks /\ Outs /\ stack # <<>> /\ Top.counting /\ todo = None /\ todo' = None
    BY DEF Announce, Typed
  <1>2. /\ \A i \in 1 .. Len(stack) - 1 : ~stack[i].counting
        /\ Announced = Len(stack) - 1 /\ Owed /\ Announced \in Nat /\ Len(stack) \in Nat
    BY <1>1, InnerKnown
  <1>3. /\ Top \in Frame /\ Top.skipped \in Nat /\ Len(Top.names) \in Nat
        /\ Top.object \notin Lists
    BY <1>1, TopFacts DEF Sound
  <1>4. Top.skipped = 0
    <2>1. ~(Top.skipped > 0)
      BY DEF Announce
    <2> QED BY <1>3, <2>1
  <1>5. PICK f \in Frame :
           /\ stack' = [stack EXCEPT ![Len(stack)] = f]
           /\ f.next = 1 /\ f.counting = FALSE /\ f.object = Top.object /\ f.names = Top.names
    BY <1>1, Restarted DEF Announce
  <1>6. /\ stack' # <<>> /\ Len(stack') = Len(stack) /\ Top' = f /\ stack'[Len(stack)] = f
        /\ \A i \in 1 .. Len(stack) - 1 : stack'[i] = stack[i]
    BY <1>1, <1>5, Changed DEF Top
  <1>7. Announced' = Announced + 1 /\ ~Owed'
    <2>1. stack' # <<>> /\ ~Top'.counting /\ todo' = None
      BY <1>1, <1>5, <1>6
    <2>2. Announced' = Len(stack)
      BY <1>6, <2>1 DEF Announced
    <2>3. Announced + 1 = Len(stack)
      BY <1>2
    <2> QED BY <2>1, <2>2, <2>3 DEF Owed
  <1> DEFINE n == Len(Top.names) - Top.skipped
             t == [kind |-> "map", level |-> Len(stack) - 1, count |-> n, key |-> None]
  <1>8. n = Len(Top.names)
    BY <1>3, <1>4
  <1>9. out' = Append(out, t)
    BY DEF Announce, Put
  <1> HIDE DEF n
  <1>10. t \in Token /\ t.kind \in Values /\ t.kind = "map" /\ t.level = Announced /\ t.count = n
    <2>1. Len(stack) - 1 \in Nat /\ n \in Nat
      BY <1>2, <1>3, <1>8
    <2> QED BY <1>2, <2>1 DEF Token, Values
  <1> HIDE DEF t
  <1>11. Due(stack'[Announced + 1]) = [map |-> t.kind = "map", left |-> t.count]
    <2>1. Announced + 1 = Len(stack)
      BY <1>2
    <2>2. Due(stack'[Len(stack)]) = [map |-> f.object \notin Lists, left |-> Len(f.names) + 1 - f.next]
      BY <1>6 DEF Due
    <2>3. Len(f.names) + 1 - f.next = n
      <3>1. Len(f.names) = n /\ f.next = 1 /\ n \in Nat
        BY <1>3, <1>5, <1>8
      <3> QED BY <3>1
    <2> QED BY <1>3, <1>5, <1>10, <2>1, <2>2, <2>3
  <1> QED BY <1>2, <1>6, <1>7, <1>9, <1>10, <1>11, AfterValue

LEMMA QuietWrites ==
    ASSUME Typed, Order, [Next]_vars, NEW E, Writes(out, E), OpenMap \/ Count
    PROVE  UNCHANGED out /\ Writes(out, E)'
  <1>1. Stacks /\ UNCHANGED out
    BY DEF OpenMap, Count, Typed
  <1>2. CASE OpenMap
    <2>1. todo # None
      BY <1>2, NoneAssumption DEF OpenMap, Plain
    <2>2. Announced = Len(stack) /\ Owed /\ Announced \in Nat
      BY <2>1, InnerKnown
    <2>3. PICK names : Enter(names, TRUE)
      BY <1>2 DEF OpenMap
    <2>4. /\ stack' # <<>> /\ Len(stack') = Len(stack) + 1
          /\ \A i \in 1 .. Len(stack) : stack'[i] = stack[i]
          /\ Top' = [object |-> todo, names |-> names, next |-> 1, counting |-> TRUE, skipped |-> 0]
      BY <1>1, <2>3, Entered
    <2>5. Announced' = Announced /\ Owed'
      BY <2>2, <2>4 DEF Announced, Owed
    <2> QED BY <1>1, <2>2, <2>4, <2>5, SameWritten
  <1>3. CASE Count
    <2>1. stack # <<>> /\ Top.counting /\ todo = None /\ todo' = None
      BY <1>3 DEF Count
    <2>2. Announced = Len(stack) - 1 /\ Owed /\ Announced \in Nat
      BY <2>1, InnerKnown
    <2>3. PICK v : stack' = [stack EXCEPT ![Len(stack)].next = @ + 1,
                          ![Len(stack)].skipped =
                              IF v \in {"null", "function", "absent"} THEN @ + 1 ELSE @]
      BY <1>3 DEF Count
    <2>4. PICK f \in Frame : /\ stack' = [stack EXCEPT ![Len(stack)] = f]
                             /\ f.counting = Top.counting
      BY <1>1, <2>1, <2>3, Counted
    <2>5. /\ stack' # <<>> /\ Len(stack') = Len(stack) /\ Top' = f
          /\ \A i \in 1 .. Len(stack) - 1 : stack'[i] = stack[i]
      BY <1>1, <2>1, <2>4, Changed
    <2>6. Announced' = Announced /\ Owed'
      BY <2>1, <2>2, <2>4, <2>5 DEF Announced, Owed
    <2> QED BY <1>1, <2>2, <2>5, <2>6, SameWritten
  <1> QED BY <1>1, <1>2, <1>3

(* The name comes before its value, and a value is one less to come.       *)
LEMMA ElementWrites ==
    ASSUME Typed, Order, [Next]_vars, NEW E, Parses(out, E), Writes(out, E), Element
    PROVE  \E F \in Frames : Parses(out', F) /\ Writes(out, F)'
  <1> DEFINE n == Announced
             L == Len(out)
  <1>1. Stacks /\ Outs /\ stack # <<>> /\ ~Top.counting /\ todo = None /\ Top.next <= Len(Top.names)
    BY DEF Element, Typed
  <1>2. n = Len(stack) /\ n \in Nat \ {0} /\ ~Owed /\ Top = stack[n]
    BY <1>1, InnerKnown DEF Owed, Top
  <1>3. /\ Top \in Frame /\ Top.next \in Nat /\ Len(Top.names) \in Nat
        /\ Top.object \notin Lists => Top.names \in Seq(Keys)
    BY <1>1, TopFacts DEF Sound
  <1>4. todo' # None
    BY NoneAssumption DEF Element, Second
  <1>5. PICK f \in Frame :
           /\ stack' = [stack EXCEPT ![Len(stack)] = f]
           /\ f.next = Top.next + 1 /\ f.counting = Top.counting
           /\ f.object = Top.object /\ f.names = Top.names
    BY <1>1, Advanced DEF Element
  <1>6. /\ stack' # <<>> /\ Len(stack') = n /\ Top' = f /\ stack'[n] = f
        /\ \A i \in 1 .. n - 1 : stack'[i] = stack[i]
    BY <1>1, <1>2, <1>5, Changed DEF Top
  <1>7. Announced' = n /\ Owed'
    BY <1>1, <1>4, <1>5, <1>6 DEF Announced, Owed
  <1>8. \A i \in 1 .. n : Expected(i)' = Due(stack[i])
    <2>1. More(Due(f)) = Due(Top)
      <3>1. Due(f) = [map |-> Top.object \notin Lists, left |-> Len(Top.names) + 1 - (Top.next + 1)]
        BY <1>5 DEF Due
      <3>2. Len(Top.names) + 1 - (Top.next + 1) + 1 = Len(Top.names) + 1 - Top.next
        BY <1>3
      <3> QED BY <3>1, <3>2 DEF More, Due
    <2>2. \A i : i = n => Expected(i)' = Due(stack[i])
      <3>1. \A i : i = n => Expected(i)' = More(Due(f))
        BY <1>6, <1>7 DEF Expected, Due, More
      <3> QED BY <1>2, <2>1, <3>1
    <2>3. \A i \in 1 .. n - 1 : Expected(i)' = Due(stack[i])
      <3>1. \A i \in 1 .. n - 1 : i # n
        BY <1>2
      <3> QED BY <1>6, <1>7, <3>1 DEF Expected, Due
    <2>4. \A i \in 1 .. n : i = n \/ i \in 1 .. n - 1
      BY <1>2
    <2> QED BY <2>2, <2>3, <2>4
  <1>9. /\ out # <<>> /\ n <= Depth(out, L)
        /\ \A i \in 1 .. n : After(out, E, L, i) = Due(stack[i])
        /\ \A i \in n + 1 .. Depth(out, L) : After(out, E, L, i).left = 0
        /\ out[L].kind # "key"
    BY <1>2 DEF Writes, Expected
  <1>10. stack'[n].object = Top.object
    BY <1>5, <1>6
  <1>11. CASE Top.object \in Lists
    <2>1. UNCHANGED out
      BY <1>11 DEF Element
    <2>2. \A i : After(out, E, Len(out), i)' = After(out, E, L, i)
      BY <2>1 DEF After, Opens
    <2>3. Depth(out, Len(out))' = Depth(out, L)
      BY <2>1 DEF Depth, Opens
    <2>4. Writes(out, E)'
      BY <1>2, <1>7, <1>8, <1>9, <1>10, <1>11, <2>1, <2>2, <2>3 DEF Writes
    <2> QED BY <2>1, <2>4 DEF Parses
  <1>12. CASE Top.object \notin Lists
    <2> DEFINE t == [kind |-> "key", level |-> Len(stack), count |-> 0, key |-> Top.names[Top.next]]
    <2>1. out' = Append(out, t)
      BY <1>12 DEF Element, Put
    <2>2. t \in Token /\ t.kind = "key" /\ t.level = n
      <3>1. Top.next \in 1 .. Len(Top.names)
        BY <1>1, <1>3, TopFacts DEF Sound
      <3>2. Top.names[Top.next] \in Keys
        BY <1>3, <1>12, <3>1
      <3> QED BY <1>2, <3>2 DEF Token
    <2> HIDE DEF t
    <2>3. L \in 1 .. L /\ L \in Nat /\ E \in Frames /\ out \in Seq(Token)
      BY <1>1, <1>9 DEF Outs, Parses
    <2>4. Depth(out, L) \in Nat
      BY <2>3, AfterType
    <2>5. After(out, E, L, n).left > 0 /\ After(out, E, L, n).map
      <3>1. After(out, E, L, n) = Due(Top)
        BY <1>2, <1>9
      <3>2. Due(Top).map /\ Due(Top).left = Len(Top.names) + 1 - Top.next
        BY <1>12 DEF Due
      <3>3. Len(Top.names) + 1 - Top.next > 0
        BY <1>1, <1>3
      <3> QED BY <3>1, <3>2, <3>3
    <2>6. n \in 1 .. Depth(out, L)
      BY <1>2, <1>9, <2>4
    <2>7. MayFollow(out, E, L, "key", n)
      BY <1>9, <2>5, <2>6 DEF MayFollow
    <2>8. PICK F \in Frames : Parses(out', F) /\ Turn(out, E, L, "key", n, F[L + 1])
      BY <1>9, <2>1, <2>2, <2>3, <2>7, Appended
    <2>9. /\ Len(out') = L + 1 /\ out'[L + 1] = t /\ out' # <<>>
      BY <2>1, <2>2, <2>3, Pushed
    <2>10. /\ Depth(out', L + 1) = n
           /\ \A i : After(out', F, L + 1, i) = F[L + 1][i]
      BY <2>2, <2>9 DEF Depth, After, Opens
    <2>11. \A i \in 1 .. n : F[L + 1][i] = Due(stack[i])
      <3>1. \A i \in 1 .. n : i = n \/ i \in 1 .. n - 1
        BY <1>2
      <3> QED BY <1>9, <2>8, <3>1 DEF Turn
    <2>12. /\ Announced' <= Depth(out', Len(out'))
           /\ \A i \in Announced' + 1 .. Depth(out', Len(out')) : After(out', F, Len(out'), i).left = 0
      BY <1>2, <1>7, <2>9, <2>10
    <2>13. \A i \in 1 .. Announced' : After(out', F, Len(out'), i) = Expected(i)'
      BY <1>7, <1>8, <2>9, <2>10, <2>11
    <2>14. out'[Len(out')].kind = "key" /\ stack'[Announced'].object \notin Lists /\ Announced' >= 1
      BY <1>2, <1>7, <1>10, <1>12, <2>2, <2>9
    <2>15. Depth(out', Len(out')) = Announced'
      BY <1>7, <2>9, <2>10
    <2>16. Writes(out, F)'
      BY <1>7, <2>9, <2>12, <2>13, <2>14, <2>15 DEF Writes
    <2> QED BY <2>8, <2>16
  <1> QED BY <1>11, <1>12

(* What is left is complete. *)
LEMMA LeaveWrites ==
    ASSUME Typed, Order, [Next]_vars, NEW E, Writes(out, E), Leave
    PROVE  UNCHANGED out /\ Writes(out, E)'
  <1> DEFINE n == Announced
             L == Len(out)
  <1>1. /\ Stacks /\ stack # <<>> /\ ~Top.counting /\ todo = None /\ Top.next > Len(Top.names)
        /\ UNCHANGED <<out, todo>> /\ stack' = Front(stack)
    BY DEF Leave, Typed
  <1>2. n = Len(stack) /\ n \in Nat \ {0} /\ ~Owed /\ Top = stack[n]
    BY <1>1, InnerKnown DEF Owed, Top
  <1>3. Len(stack') = n - 1 /\ \A i \in 1 .. n - 1 : stack'[i] = stack[i]
    BY <1>1, <1>2, TopType DEF Stacks
  <1>4. Announced' = n - 1 /\ ~Owed'
    <2>1. stack' # <<>> => ~Top'.counting
      <3> SUFFICES ASSUME stack' # <<>> PROVE ~Top'.counting
        OBVIOUS
      <3>1. n - 1 \in 1 .. n - 1
        <4>1. Len(stack') # 0
          <5>1. stack' \in Seq(Frame)
            BY <1>1, TopType DEF Stacks
          <5> QED BY <5>1
        <4> QED BY <1>2, <1>3, <4>1
      <3>2. Top' = stack[n - 1]
        BY <1>3, <3>1 DEF Top
      <3> QED BY <1>2, <3>1, <3>2 DEF Order
    <2> QED BY <1>1, <1>3, <2>1 DEF Announced, Owed
  <1>5. Due(stack[n]).left = 0
    <2>1. Top.next \in Nat /\ Len(Top.names) \in Nat /\ Top.next <= Len(Top.names) + 1
      BY <1>1, TopFacts DEF Sound
    <2>2. Len(Top.names) + 1 - Top.next = 0
      BY <1>1, <2>1
    <2> QED BY <1>2, <2>2 DEF Due
  <1>6. /\ out # <<>> /\ n <= Depth(out, L)
        /\ \A i \in 1 .. n : After(out, E, L, i) = Due(stack[i])
        /\ \A i \in n + 1 .. Depth(out, L) : After(out, E, L, i).left = 0
        /\ out[L].kind # "key"
    BY <1>2 DEF Writes, Expected
  <1>7. \A i : After(out, E, Len(out), i)' = After(out, E, L, i)
    BY <1>1 DEF After, Opens
  <1>8. Depth(out, Len(out))' = Depth(out, L)
    BY <1>1 DEF Depth, Opens
  <1>9. \A i \in 1 .. n - 1 : Expected(i)' = Due(stack[i])
    BY <1>3, <1>4 DEF Expected, Due
  <1>10. \A i \in 1 .. n - 1 : After(out, E, L, i) = Expected(i)'
    <2>1. \A i \in 1 .. n - 1 : i \in 1 .. n
      BY <1>2
    <2> QED BY <1>6, <1>9, <2>1
  <1>11. \A i \in n .. Depth(out, L) : After(out, E, L, i).left = 0
    <2>1. \A i \in n .. Depth(out, L) : i = n \/ i \in n + 1 .. Depth(out, L)
      BY <1>2
    <2>2. n \in 1 .. n
      BY <1>2
    <2> QED BY <1>5, <1>6, <2>1, <2>2
  <1>12. n - 1 <= Depth(out, L) /\ n - 1 + 1 = n
    <2>1. L \in 1 .. L /\ out \in Seq(Token)
      BY <1>6 DEF Typed, Outs
    <2>2. Depth(out, L) \in Nat
      <3>1. out[L] \in Token
        BY <2>1
      <3>2. out[L].level \in Nat
        BY <3>1 DEF Token
      <3> QED BY <3>2 DEF Depth
    <2> QED BY <1>2, <1>6, <2>2
  <1> QED BY <1>1, <1>4, <1>6, <1>7, <1>8, <1>10, <1>11, <1>12 DEF Writes

(* At the end all is told. *)
Complete(o, E) ==
    /\ o # <<>> /\ o[Len(o)].kind # "key"
    /\ \A i \in 1 .. Depth(o, Len(o)) : After(o, E, Len(o), i).left = 0

LEMMA EncodedComplete ==
    ASSUME Typed, Order, NEW E, Writes(out, E), Encoded
    PROVE  Complete(out, E)
  <1>1. Announced = 0 /\ ~Owed
    BY InnerKnown DEF Encoded, Owed
  <1> QED BY <1>1 DEF Writes, Complete

LEMMA EncodeWrites ==
    ASSUME Typed, Order, [Next]_vars, NEW E, Parses(out, E), Writes(out, E), Encode, ~Encoded, ~short'
    PROVE  \E F \in Frames : Parses(out', F) /\ Writes(out, F)'
  <1>1. E \in Frames
    BY DEF Parses
  <1>2. CASE OpenMap \/ Count
    BY <1>1, <1>2, QuietWrites DEF Parses
  <1>3. CASE Leave
    BY <1>1, <1>3, LeaveWrites DEF Parses
  <1> QED BY <1>2, <1>3, SimpleWrites, ArrayWrites, AnnounceWrites, ElementWrites DEF Encode

-----------------------------------------------------------------------------
(* Where the reader is, by the same tokens: at a value, inside of what its *)
(* stack tells, or behind token pos - 1, with what it has not closed yet.  *)
AtValue(E) ==
    /\ pos \in 1 .. Len(out) /\ out[pos].kind \in Values /\ Len(open) = out[pos].level
    /\ \A i \in 1 .. Len(open) : open[i] = E[pos][i]

Behind(E, p) ==
    /\ p \in 1 .. Len(out) /\ pos = p + 1 /\ out[p].kind # "key" /\ Len(open) <= Depth(out, p)
    /\ \A i \in 1 .. Len(open) : open[i] = After(out, E, p, i)
    /\ \A i \in Len(open) + 1 .. Depth(out, p) : After(out, E, p, i).left = 0

Reader(E) == IF want = "value" THEN AtValue(E) ELSE \E p \in Nat : Behind(E, p)

Written == \E E \in Frames : Parses(out, E) /\ Writes(out, E)
Followed == \E E \in Frames : Parses(out, E) /\ Complete(out, E) /\ Reader(E)

Balanced ==
    ~short => /\ mode # "lost"
              /\ mode = "encode" => Written
              /\ mode = "decode" => Followed
              /\ mode = "done" => pos = Len(out) + 1

LEMMA KindType ==
    ASSUME Typed
    PROVE  /\ out \in Seq(Token) /\ Len(out) \in Nat /\ open \in Seq(Container) /\ Len(open) \in Nat
           /\ \A p \in 1 .. Len(out) : /\ out[p] \in Token /\ out[p].level \in Nat
                                       /\ out[p].kind \in Values \/ out[p].kind = "key"
  <1>1. out \in Seq(Token) /\ open \in Seq(Container)
    BY DEF Typed, Outs, Reads
  <1>2. \A p \in 1 .. Len(out) : out[p] \in Token
    BY <1>1
  <1>3. \A t \in Token : t.level \in Nat /\ (t.kind \in Values \/ t.kind = "key")
    BY DEF Token, Values
  <1> QED BY <1>1, <1>2, <1>3

LEMMA ValueRead ==
    ASSUME Typed, NEW E, Parses(out, E), AtValue(E), ReadValue
    PROVE  (\E p \in Nat : Behind(E, p)') /\ want' = "next" /\ UNCHANGED <<mode, out>>
  <1>1. PICK p \in Nat : p = pos
    BY DEF AtValue
  <1>2. /\ out \in Seq(Token) /\ Len(out) \in Nat /\ open \in Seq(Container) /\ Len(open) \in Nat
        /\ p \in 1 .. Len(out) /\ out[p] \in Token /\ out[p].level \in Nat
        /\ out[p].kind \in Values /\ Len(open) = out[p].level
        /\ \A i \in 1 .. Len(open) : open[i] = E[p][i]
    BY <1>1, KindType DEF AtValue
  <1>3. ~Lost({"null", "scalar", "array", "map"})
    BY <1>1, <1>2 DEF Lost, AtEnd, Values
  <1>4. /\ open' = IF Opens(out, p)
                   THEN Append(open, [map |-> out[p].kind = "map", left |-> out[p].count])
                   ELSE open
        /\ pos' = p + 1 /\ want' = "next" /\ UNCHANGED <<mode, out>>
    BY <1>1, <1>3 DEF ReadValue, LoseStep, walk, Opens
  <1>5. /\ Len(open') = Depth(out, p)
        /\ \A i \in 1 .. Len(open') : open'[i] = After(out, E, p, i)
    <2>1. CASE Opens(out, p)
      <3> DEFINE c == [map |-> out[p].kind = "map", left |-> out[p].count]
      <3>1. c \in Container
        BY <1>2 DEF Container, Token
      <3>2. open' = Append(open, c)
        BY <1>4, <2>1
      <3>3. \A i : i = Len(open) + 1 => After(out, E, p, i) = c
        BY <1>2, <2>1 DEF After
      <3> HIDE DEF c
      <3>4. /\ Len(open') = Len(open) + 1 /\ open'[Len(open) + 1] = c
            /\ \A i \in 1 .. Len(open) : open'[i] = open[i]
        BY <1>2, <3>1, <3>2, Pushed
      <3>5. \A i \in 1 .. Len(open) : After(out, E, p, i) = E[p][i]
        BY <1>2 DEF After
      <3>6. \A i \in 1 .. Len(open') : i = Len(open) + 1 \/ i \in 1 .. Len(open)
        BY <1>2, <3>4
      <3>7. \A i \in 1 .. Len(open') : open'[i] = After(out, E, p, i)
        BY <1>2, <3>3, <3>4, <3>5, <3>6
      <3> QED BY <1>2, <2>1, <3>4, <3>7 DEF Depth
    <2>2. CASE ~Opens(out, p)
      BY <1>2, <1>4, <2>2 DEF Depth, After
    <2> QED BY <2>1, <2>2
  <1>6. Behind(E, p)'
    <2>1. /\ \A i : After(out, E, p, i)' = After(out, E, p, i)
          /\ Depth(out, p)' = Depth(out, p)
      BY <1>4 DEF After, Depth, Opens
    <2>2. out[p].kind # "key" /\ Len(open') \in Nat
      BY <1>2, <1>5 DEF Values, Depth
    <2> QED BY <1>2, <1>4, <1>5, <2>1, <2>2 DEF Behind
  <1> QED BY <1>4, <1>6

(* The token behind is the next of the container that the reader is in.    *)
LEMMA NextBehind ==
    ASSUME Typed, NEW E, Parses(out, E), NEW p \in Nat, Behind(E, p), Reading
    PROVE  /\ p \in 1 .. Len(out) - 1 /\ out[p + 1].level = Len(open) /\ Len(open) \in Nat \ {0}
           /\ Within = open[Len(open)] /\ Within \in Container
           /\ out[p + 1].kind = "key" <=> Within.map
           /\ \A i \in 1 .. Len(open) - 1 : E[p + 1][i] = open[i]
           /\ E[p + 1][Len(open)] = IF out[p + 1].kind = "key" THEN Within ELSE Less(Within)
  <1> DEFINE d == Len(open)
             l == out[p + 1].level
  <1>1. /\ out \in Seq(Token) /\ Len(out) \in Nat /\ open \in Seq(Container) /\ d \in Nat
        /\ p \in 1 .. Len(out) /\ pos = p + 1 /\ out[p].kind # "key" /\ d <= Depth(out, p)
        /\ \A i \in 1 .. d : open[i] = After(out, E, p, i)
        /\ \A i \in d + 1 .. Depth(out, p) : After(out, E, p, i).left = 0
        /\ E \in Frames
    BY KindType DEF Behind, Parses
  <1>2. open # <<>> /\ Within.left > 0 /\ p \in 1 .. Len(out) - 1
    BY <1>1 DEF Reading, AtEnd
  <1>3. d \in Nat \ {0} /\ Within = open[d] /\ Within \in Container
    BY <1>1, <1>2, TopType DEF Within
  <1>4. /\ MayFollow(out, E, p, out[p + 1].kind, l)
        /\ Turn(out, E, p, out[p + 1].kind, l, E[p + 1])
    BY <1>2 DEF Parses
  <1>5. /\ l \in 1 .. Depth(out, p) /\ After(out, E, p, l).left > 0
        /\ \A i \in l + 1 .. Depth(out, p) : After(out, E, p, i).left = 0
        /\ out[p + 1].kind = "key" <=> After(out, E, p, l).map
    BY <1>1, <1>4 DEF MayFollow
  <1>6. l = d
    <2>1. l \in Nat /\ Depth(out, p) \in Nat
      BY <1>1, <1>5, AfterType
    <2>2. ~(l < d)
      <3> SUFFICES ASSUME l < d PROVE FALSE
        OBVIOUS
      <3>1. d \in l + 1 .. Depth(out, p) /\ d \in 1 .. d
        BY <1>1, <1>3, <2>1
      <3>2. After(out, E, p, d).left = 0 /\ After(out, E, p, d) = Within
        BY <1>1, <1>3, <1>5, <3>1
      <3>3. Within.left = 0
        BY <3>2
      <3> QED BY <1>2, <3>3
    <2>3. ~(l > d)
      <3> SUFFICES ASSUME l > d PROVE FALSE
        OBVIOUS
      <3>1. l \in d + 1 .. Depth(out, p)
        BY <1>3, <1>5, <2>1
      <3>2. After(out, E, p, l).left = 0
        BY <1>1, <3>1
      <3> QED BY <1>5, <3>2
    <2> QED BY <1>3, <2>1, <2>2, <2>3
  <1> HIDE DEF l
  <1>7. After(out, E, p, d) = Within
    <2>1. d \in 1 .. d
      BY <1>3
    <2> QED BY <1>1, <1>3, <2>1
  <1>8. /\ out[p + 1].kind = "key" <=> Within.map
        /\ \A i \in 1 .. d - 1 : E[p + 1][i] = After(out, E, p, i)
        /\ E[p + 1][d] = IF out[p + 1].kind = "key" THEN Within ELSE Less(Within)
    BY <1>4, <1>5, <1>6, <1>7 DEF Turn
  <1>9. \A i \in 1 .. d - 1 : E[p + 1][i] = open[i]
    <2>1. \A i \in 1 .. d - 1 : i \in 1 .. d
      BY <1>3
    <2> QED BY <1>1, <1>8, <2>1
  <1> QED BY <1>2, <1>3, <1>6, <1>8, <1>9 DEF l

LEMMA LessOpen ==
    ASSUME Typed, open # <<>>, OneLess, Within.left > 0
    PROVE  /\ Len(open') = Len(open) /\ open'[Len(open)] = Less(Within)
           /\ \A i \in 1 .. Len(open) - 1 : open'[i] = open[i]
           /\ want' = "value" /\ UNCHANGED <<mode, out>>
  <1>1. open \in Seq(Container) /\ Within \in Container
    BY TopType DEF Typed, Reads, Within
  <1>2. PICK f : f = Less(Within)
    OBVIOUS
  <1>3. f \in Container
    <2>1. Within.left \in Nat /\ Within.map \in BOOLEAN
      BY <1>1 DEF Container
    <2>2. Within.left - 1 \in Nat
      BY <2>1
    <2> QED BY <1>2, <2>1, <2>2 DEF Less, Container
  <1>4. f = [Within EXCEPT !.left = @ - 1]
    BY <1>1, <1>2 DEF Less, Container
  <1>5. open' = [open EXCEPT ![Len(open)] = f]
    BY <1>1, <1>4 DEF OneLess, Within
  <1>6. /\ Len(open') = Len(open) /\ open'[Len(open)] = f
        /\ \A i \in 1 .. Len(open) - 1 : open'[i] = open[i]
    BY <1>1, <1>3, <1>5, TopChange
  <1> QED BY <1>2, <1>6 DEF OneLess, walk

LEMMA ElementRead ==
    ASSUME Typed, NEW E, Parses(out, E), NEW p \in Nat, Behind(E, p), NextElement
    PROVE  AtValue(E)' /\ want' = "value" /\ UNCHANGED <<mode, out>>
  <1>1. Reading /\ ~Within.map /\ OneLess /\ open # <<>> /\ Within.left > 0 /\ UNCHANGED pos
    BY DEF NextElement, Reading
  <1>2. /\ p \in 1 .. Len(out) - 1 /\ out[p + 1].level = Len(open) /\ Len(open) \in Nat \ {0}
        /\ out[p + 1].kind # "key"
        /\ \A i \in 1 .. Len(open) - 1 : E[p + 1][i] = open[i]
        /\ E[p + 1][Len(open)] = Less(Within)
    BY <1>1, NextBehind
  <1>3. /\ Len(open') = Len(open) /\ open'[Len(open)] = Less(Within)
        /\ \A i \in 1 .. Len(open) - 1 : open'[i] = open[i]
        /\ want' = "value" /\ UNCHANGED <<mode, out>>
    BY <1>1, LessOpen
  <1>4. \A i \in 1 .. Len(open') : open'[i] = E[p + 1][i]
    <2>1. \A i \in 1 .. Len(open') : i = Len(open) \/ i \in 1 .. Len(open) - 1
      BY <1>2, <1>3
    <2> QED BY <1>2, <1>3, <2>1
  <1>5. pos' = p + 1 /\ p + 1 \in 1 .. Len(out) /\ out[p + 1].kind \in Values
    <2>1. pos = p + 1
      BY DEF Behind
    <2>2. p + 1 \in 1 .. Len(out)
      BY <1>2, KindType
    <2> QED BY <1>1, <1>2, <2>1, <2>2, KindType
  <1> QED BY <1>2, <1>3, <1>4, <1>5 DEF AtValue

(* Behind a name there is its value, and at the end there is no name.      *)
LEMMA KeyRead ==
    ASSUME Typed, NEW E, Parses(out, E), Complete(out, E), NEW p \in Nat, Behind(E, p), ReadKey
    PROVE  AtValue(E)' /\ want' = "value" /\ UNCHANGED <<mode, out>>
  <1>1. Reading /\ Within.map /\ open # <<>> /\ Within.left > 0 /\ pos = p + 1
    BY DEF ReadKey, Reading, Behind
  <1>2. /\ p \in 1 .. Len(out) - 1 /\ out[p + 1].level = Len(open) /\ Len(open) \in Nat \ {0}
        /\ out[p + 1].kind = "key" /\ Within = open[Len(open)]
        /\ \A i \in 1 .. Len(open) - 1 : E[p + 1][i] = open[i]
        /\ E[p + 1][Len(open)] = Within
    BY <1>1, NextBehind
  <1>3. ~Lost({"key"})
    BY <1>1, <1>2 DEF Lost, Reading
  <1>4. OneLess /\ pos' = p + 2
    BY <1>1, <1>3 DEF ReadKey, LoseStep
  <1>5. /\ Len(open') = Len(open) /\ open'[Len(open)] = Less(Within)
        /\ \A i \in 1 .. Len(open) - 1 : open'[i] = open[i]
        /\ want' = "value" /\ UNCHANGED <<mode, out>>
    BY <1>1, <1>4, LessOpen
  <1>6. p + 1 \in 1 .. Len(out) - 1 /\ p + 2 \in 1 .. Len(out) /\ p + 1 + 1 = p + 2
    <2>1. p + 1 # Len(out)
      BY <1>2 DEF Complete
    <2> QED BY <1>2, <2>1, KindType
  <1>7. /\ MayFollow(out, E, p + 1, out[p + 2].kind, out[p + 2].level)
        /\ Turn(out, E, p + 1, out[p + 2].kind, out[p + 2].level, E[p + 2])
    BY <1>6 DEF Parses
  <1>8. /\ Depth(out, p + 1) = Len(open) /\ \A i : After(out, E, p + 1, i) = E[p + 1][i]
    BY <1>2 DEF Depth, After, Opens
  <1>9. out[p + 2].kind # "key" /\ out[p + 2].level = Len(open)
    BY <1>2, <1>7, <1>8 DEF MayFollow
  <1>10. out[p + 2].kind \in Values
    BY <1>6, <1>9, KindType
  <1>11. /\ \A i \in 1 .. Len(open) - 1 : E[p + 2][i] = open[i]
         /\ E[p + 2][Len(open)] = Less(Within)
    BY <1>2, <1>7, <1>8, <1>9 DEF Turn
  <1>12. \A i \in 1 .. Len(open') : open'[i] = E[p + 2][i]
    <2>1. \A i \in 1 .. Len(open') : i = Len(open) \/ i \in 1 .. Len(open) - 1
      BY <1>2, <1>5
    <2> QED BY <1>5, <1>11, <2>1
  <1> QED BY <1>4, <1>5, <1>6, <1>9, <1>10, <1>12 DEF AtValue

LEMMA Closed ==
    ASSUME Typed, NEW E, Parses(out, E), Complete(out, E), NEW p \in Nat, Behind(E, p), CloseContainer
    PROVE  Behind(E, p)' /\ UNCHANGED <<mode, out, want>>
  <1> DEFINE d == Len(open)
  <1>1. /\ out \in Seq(Token) /\ Len(out) \in Nat /\ open \in Seq(Container) /\ d \in Nat
        /\ p \in 1 .. Len(out) /\ pos = p + 1 /\ out[p].kind # "key" /\ d <= Depth(out, p)
        /\ \A i \in 1 .. d : open[i] = After(out, E, p, i)
        /\ \A i \in d + 1 .. Depth(out, p) : After(out, E, p, i).left = 0
        /\ E \in Frames
    BY KindType DEF Behind, Parses
  <1>2. /\ open # <<>> /\ open' = Front(open) /\ UNCHANGED <<mode, out, want, pos>>
        /\ Within.left = 0 \/ AtEnd
    BY DEF CloseContainer, walk
  <1>3. /\ d \in Nat \ {0} /\ Within = open[d] /\ Len(open') = d - 1
        /\ \A i \in 1 .. d - 1 : open'[i] = open[i]
    BY <1>1, <1>2, TopType DEF Within
  <1>4. d \in 1 .. d /\ d \in 1 .. Depth(out, p) /\ Depth(out, p) \in Nat
    BY <1>1, <1>3, AfterType
  <1>5. After(out, E, p, d).left = 0
    <2>1. CASE Within.left = 0
      BY <1>1, <1>3, <1>4, <2>1
    <2>2. CASE AtEnd
      <3>1. p = Len(out)
        BY <1>1, <2>2 DEF AtEnd
      <3> QED BY <1>4, <3>1 DEF Complete
    <2> QED BY <1>2, <2>1, <2>2
  <1>6. \A i \in Len(open') + 1 .. Depth(out, p) : After(out, E, p, i).left = 0
    <2>1. \A i \in Len(open') + 1 .. Depth(out, p) : i = d \/ i \in d + 1 .. Depth(out, p)
      BY <1>3, <1>4
    <2> QED BY <1>1, <1>5, <2>1
  <1>7. \A i \in 1 .. Len(open') : open'[i] = After(out, E, p, i)
    <2>1. \A i \in 1 .. Len(open') : i \in 1 .. d /\ i \in 1 .. d - 1
      BY <1>3
    <2> QED BY <1>1, <1>3, <2>1
  <1>8. Len(open') <= Depth(out, p)
    BY <1>1, <1>3, <1>4
  <1>9. /\ \A i : After(out, E, p, i)' = After(out, E, p, i)
        /\ Depth(out, p)' = Depth(out, p)
    BY <1>2 DEF After, Depth, Opens
  <1> QED BY <1>1, <1>2, <1>6, <1>7, <1>8, <1>9 DEF Behind

LEMMA ReadToTheEnd ==
    ASSUME Typed, NEW E, Parses(out, E), NEW p \in Nat, Behind(E, p), open = <<>>
    PROVE  pos = Len(out) + 1
  <1>1. /\ Len(out) \in Nat /\ p \in 1 .. Len(out) /\ pos = p + 1 /\ Len(open) = 0
        /\ \A i \in 1 .. Depth(out, p) : After(out, E, p, i).left = 0
    BY KindType DEF Behind
  <1>2. ~(p \in 1 .. Len(out) - 1)
    BY <1>1 DEF Parses, MayFollow
  <1> QED BY <1>1, <1>2

LEMMA EncodeStep ==
    ASSUME Typed, Order, Balanced, [Next]_vars, Encode PROVE Balanced'
  <1> SUFFICES ASSUME ~short' PROVE /\ mode' # "lost" /\ (mode' = "encode" => Written')
                                    /\ (mode' = "decode" => Followed') /\ mode' # "done"
    BY DEF Balanced
  <1>1. mode = "encode" /\ ~short
    BY DEF Encode, PushSimple, OpenArray, OpenMap, Enter, Count, Announce, Element, Leave, Encoded,
           walk, Typed, Rest
  <1>2. PICK E \in Frames : Parses(out, E) /\ Writes(out, E)
    BY <1>1 DEF Balanced, Written
  <1>3. CASE Encoded
    <2>1. Complete(out, E)
      BY <1>2, <1>3, EncodedComplete
    <2>2. UNCHANGED <<out, pos, open, want>> /\ mode' = "decode"
      BY <1>3 DEF Encoded, walk, reader
    <2>3. pos = 1 /\ open = <<>> /\ want = "value"
      BY <1>1 DEF Typed, Reads, Order
    <2>4. out # <<>> /\ out[1].kind \in Values /\ out[1].level = 0
      BY <1>2, <2>1 DEF Parses, Complete
    <2>5. 1 \in 1 .. Len(out)
      BY <2>4, KindType
    <2>6. Reader(E)
      BY <2>3, <2>4, <2>5 DEF Reader, AtValue
    <2>7. Reader(E)'
      BY <2>2, <2>6 DEF Reader, AtValue, Behind, After, Depth, Opens
    <2>8. Parses(out', E) /\ Complete(out', E)
      BY <1>2, <2>1, <2>2
    <2> QED BY <2>2, <2>7, <2>8 DEF Followed
  <1>4. CASE ~Encoded
    <2>1. mode' = "encode"
      BY <1>1, <1>4 DEF Encode, PushSimple, OpenArray, OpenMap, Enter, Count, Announce, Element, Leave
    <2>2. PICK F \in Frames : Parses(out', F) /\ Writes(out, F)'
      BY <1>2, <1>4, EncodeWrites
    <2>3. Written'
      BY <2>2 DEF Written
    <2> QED BY <2>1, <2>3
  <1> QED BY <1>3, <1>4

LEMMA DecodeStep ==
    ASSUME Typed, Balanced, [Next]_vars, Decode PROVE Balanced'
  <1>1. mode = "decode" /\ UNCHANGED <<out, short>>
    BY DEF Decode, ReadValue, NextElement, ReadKey, CloseContainer, Decoded, LoseStep, Reading, OneLess, walk
  <1> SUFFICES ASSUME ~short
               PROVE  \/ mode' = "decode" /\ Followed'
                      \/ mode' = "done" /\ pos' = Len(out') + 1
    BY <1>1 DEF Balanced
  <1>2. PICK E \in Frames : Parses(out, E) /\ Complete(out, E) /\ Reader(E)
    BY <1>1 DEF Balanced, Followed
  <1>3. Parses(out', E) /\ Complete(out', E)
    BY <1>1, <1>2
  <1>4. ASSUME AtValue(E)', want' = "value", mode' = mode PROVE mode' = "decode" /\ Followed'
    BY <1>1, <1>3, <1>4 DEF Followed, Reader
  <1>5. ASSUME NEW p \in Nat, Behind(E, p)', want' = "next", mode' = mode
        PROVE  mode' = "decode" /\ Followed'
    BY <1>1, <1>3, <1>5 DEF Followed, Reader
  <1>6. CASE ReadValue
    BY <1>2, <1>5, <1>6, ValueRead DEF Reader, ReadValue
  <1>7. CASE ~ReadValue
    <2>1. want = "next"
      BY <1>7 DEF Decode, NextElement, ReadKey, CloseContainer, Decoded, Reading
    <2>2. PICK p \in Nat : Behind(E, p)
      BY <1>2, <2>1 DEF Reader
    <2>3. CASE NextElement
      BY <1>2, <1>4, <2>2, <2>3, ElementRead
    <2>4. CASE ReadKey
      BY <1>2, <1>4, <2>2, <2>4, KeyRead
    <2>5. CASE CloseContainer
      BY <1>2, <1>5, <2>1, <2>2, <2>5, Closed
    <2>6. CASE Decoded
      <3>1. open = <<>> /\ mode' = "done" /\ UNCHANGED pos
        BY <2>6 DEF Decoded, reader
      <3>2. pos = Len(out) + 1
        BY <1>2, <2>2, <3>1, ReadToTheEnd
      <3> QED BY <1>1, <3>1, <3>2
    <2> QED BY <1>7, <2>3, <2>4, <2>5, <2>6 DEF Decode
  <1> QED BY <1>6, <1>7

(* Nothing written: a value is owed. *)
Empty == todo \in Objects /\ stack = <<>> /\ out = <<>>

LEMMA Fresh == Empty => Written
  <1> SUFFICES ASSUME Empty PROVE Written
    OBVIOUS
  <1> DEFINE E == [p \in Nat |-> [i \in Nat |-> [map |-> FALSE, left |-> 0]]]
  <1>1. E \in Frames
    BY DEF Frames, Container
  <1>2. Parses(out, E)
    BY <1>1 DEF Empty, Parses
  <1>3. Writes(out, E)
    BY NoneAssumption DEF Empty, Writes, Announced, Owed, Plain
  <1> QED BY <1>1, <1>2, <1>3 DEF Written

LEMMA BalancedStep == Typed /\ Order /\ Balanced /\ [Next]_vars => Balanced'
  <1> SUFFICES ASSUME Typed, Order, Balanced, [Next]_vars PROVE Balanced'
    OBVIOUS
  <1>1. CASE Again
    <2>1. mode' = "encode" /\ Empty'
      BY <1>1 DEF Again, Empty
    <2>2. Written'
      BY <2>1, Fresh, PTL
    <2> QED BY <2>1, <2>2 DEF Balanced
  <1>2. CASE UNCHANGED vars
    BY <1>2 DEF vars, walk, reader, Balanced, Written, Followed, Writes, Reader, AtValue, Behind,
                Announced, Owed, Expected, Due, Top, After, Depth, Opens
  <1> QED BY <1>1, <1>2, EncodeStep, DecodeStep DEF Next

LEMMA BalancedInStep == Typed /\ Balanced => ReadBack
  <1> SUFFICES ASSUME Typed, Balanced, ~short PROVE InStep
    BY DEF ReadBack
  <1>1. ASSUME mode = "decode", want = "value" PROVE ~AtEnd /\ out[pos].level = Len(open)
    <2>1. PICK E \in Frames : AtValue(E)
      BY <1>1 DEF Balanced, Followed, Reader
    <2> QED BY <2>1, KindType DEF AtValue, AtEnd
  <1> QED BY <1>1 DEF Balanced, InStep

(* The reader is in step with the writer, token by token and to the last   *)
(* one, whatever the code called from the walk changes on the way, unless  *)
(* a map was announced with less than its names (wsonjsc.cpp:230-435).     *)
THEOREM WrittenIsRead == Spec => []ReadBack
  <1>1. Init => Typed /\ Order /\ Balanced
    <2> SUFFICES ASSUME Init PROVE Typed /\ Order /\ Balanced
      OBVIOUS
    <2>1. /\ todo \in Objects /\ stack = <<>> /\ out = <<>> /\ mode = "encode"
          /\ open = <<>> /\ want = "value"
      BY DEF Init
    <2>2. Order
      BY <2>1 DEF Order
    <2>3. Balanced
      BY <2>1, Fresh DEF Balanced, Empty
    <2> QED BY <2>2, <2>3, TypeInit
  <1>2. Typed /\ Order /\ Balanced /\ [Next]_vars => (Typed /\ Order /\ Balanced)'
    BY TypeStep, OrderStep, BalancedStep
  <1> QED BY <1>1, <1>2, BalancedInStep, PTL DEF Spec

-----------------------------------------------------------------------------
(* A number is the sum of its groups of seven bits. *)
LEMMA SumOfGroups ==
    ASSUME NEW num \in Nat
    PROVE  num = (num % 128) + ((num \div 128) % 128) * 128
                 + ((num \div 16384) % 128) * 16384 + ((num \div 2097152) % 128) * 2097152
                 + (num \div 268435456) * 268435456
<1>1. num = (num % 128) + 128 * (num \div 128)
  BY SMT
<1>2. num \div 128 = ((num \div 128) % 128) + 128 * (num \div 16384)
  BY SMT
<1>3. num \div 16384 = ((num \div 16384) % 128) + 128 * (num \div 2097152)
  BY SMT
<1>4. num \div 2097152 = ((num \div 2097152) % 128) + 128 * (num \div 268435456)
  BY SMT
<1> QED BY <1>1, <1>2, <1>3, <1>4, SMT

LEMMA GroupsRange == ASSUME NEW num \in Uint32 PROVE Groups(num) \in 1 .. 5
BY SMT DEF Groups

(* What the writer puts into each byte. *)
LEMMA Bytes ==
    ASSUME NEW num \in Uint32, NEW i \in 1 .. Groups(num)
    PROVE  /\ PushUint(num)[i] = ((num \div Weight[i]) % 128) + (IF i < Groups(num) THEN 128 ELSE 0)
           /\ (num \div Weight[i]) % 128 \in 0 .. 127
<1>1. i \in 1 .. 5
  BY GroupsRange, SMT
<1>2. num \in Nat
  BY SMT DEF Uint32
<1>3. Weight[i] \in {1, 128, 16384, 2097152, 268435456}
  BY <1>1, SMT DEF Weight
<1>4. (num \div Weight[i]) % 128 \in 0 .. 127
  BY <1>2, <1>3, SMT
<1> QED BY <1>4, SMT DEF PushUint

(* The reader takes as many bytes as the writer wrote. *)
LEMMA SameLength ==
    ASSUME NEW num \in Uint32
    PROVE  TakesUint(PushUint(num)) = Groups(num)
<1>1. Groups(num) \in 1 .. 5
  BY GroupsRange
<1>2. \A i \in 1 .. Groups(num) : PushUint(num)[i] < 128 <=> i = Groups(num)
  <2> TAKE i \in 1 .. Groups(num)
  <2>1. (num \div Weight[i]) % 128 \in 0 .. 127
    BY Bytes
  <2>2. PushUint(num)[i] = ((num \div Weight[i]) % 128) + (IF i < Groups(num) THEN 128 ELSE 0)
    BY Bytes
  <2> QED BY <1>1, <2>1, <2>2, SMT
<1>3. \A i \in 1 .. Groups(num) : ~ PushUint(num)[i] < 128 <=> i < Groups(num)
  BY <1>1, <1>2, SMT
<1> QED BY <1>1, <1>2, <1>3, SMT DEF TakesUint

(* A number of 32 bits is read as it was written, in at most five bytes,   *)
(* and the reader stops behind them (wson_push_uint, wson_next_uint).      *)
THEOREM UintReadBack ==
    \A num \in Uint32 : /\ NextUint(PushUint(num)) = num
                        /\ TakesUint(PushUint(num)) = Groups(num)
                        /\ Groups(num) <= 5
<1> SUFFICES ASSUME NEW num \in Uint32
    PROVE  NextUint(PushUint(num)) = num
  BY SameLength, GroupsRange, SMT
<1> DEFINE part(i) == (num \div Weight[i]) % 128
<1> DEFINE group(i) == Group(PushUint(num), i)
<1>1. num \in Nat /\ num < 268435456 * 16
  BY SMT DEF Uint32
<1>2. Groups(num) \in 1 .. 5
  BY GroupsRange
<1>3. \A i \in 1 .. 5 : group(i) = IF i > Groups(num) THEN 0
                                  ELSE (part(i) % (IF i = 5 THEN 16 ELSE 128)) * Weight[i]
  <2> TAKE i \in 1 .. 5
  <2>1. CASE i > Groups(num)
    BY <2>1, SameLength, SMT DEF Group
  <2>2. CASE i <= Groups(num)
    <3>1. part(i) \in 0 .. 127
      BY <2>2, <1>2, Bytes, SMT
    <3>2. PushUint(num)[i] = part(i) + (IF i < Groups(num) THEN 128 ELSE 0)
      BY <2>2, <1>2, Bytes, SMT
    <3>3. PushUint(num)[i] % (IF i = 5 THEN 16 ELSE 128) = part(i) % (IF i = 5 THEN 16 ELSE 128)
      BY <1>2, <3>1, <3>2, SMT
    <3> HIDE DEF part
    <3> QED BY <2>2, <1>2, <3>3, SameLength, SMT DEF Group
  <2> QED BY <1>2, <2>1, <2>2, SMT
<1>4. /\ part(1) = num % 128
      /\ part(2) = (num \div 128) % 128
      /\ part(3) = (num \div 16384) % 128
      /\ part(4) = (num \div 2097152) % 128
      /\ part(5) = (num \div 268435456) % 128
  BY <1>1, SMT DEF Weight
<1>5. \A i \in 1 .. 4 : part(i) \in 0 .. 127
  BY <1>1, <1>4, SMT
<1>6. part(5) = num \div 268435456 /\ part(5) \in 0 .. 15
  BY <1>1, <1>4, SMT
<1>7. /\ part(1) % 128 = part(1) /\ part(2) % 128 = part(2) /\ part(3) % 128 = part(3)
      /\ part(4) % 128 = part(4) /\ part(5) % 16 = part(5)
  <2> HIDE DEF part
  <2> QED BY <1>5, <1>6, SMT
<1>8. num = part(1) + part(2) * 128 + part(3) * 16384 + part(4) * 2097152 + part(5) * 268435456
  <2>1. num = (num % 128) + ((num \div 128) % 128) * 128
              + ((num \div 16384) % 128) * 16384 + ((num \div 2097152) % 128) * 2097152
              + (num \div 268435456) * 268435456
    BY <1>1, SumOfGroups, SMT
  <2> HIDE DEF part
  <2> QED BY <2>1, <1>4, <1>6, SMT
<1>9. /\ Groups(num) < 2 => part(2) = 0
      /\ Groups(num) < 3 => part(3) = 0
      /\ Groups(num) < 4 => part(4) = 0
      /\ Groups(num) < 5 => part(5) = 0
  BY <1>1, <1>4, SMT DEF Groups, Weight
<1>10. /\ group(1) = part(1) /\ group(2) = part(2) * 128 /\ group(3) = part(3) * 16384
       /\ group(4) = part(4) * 2097152 /\ group(5) = part(5) * 268435456
  <2>1. group(1) = IF 1 > Groups(num) THEN 0 ELSE (part(1) % 128) * Weight[1]
    BY <1>3, SMT
  <2>2. group(2) = IF 2 > Groups(num) THEN 0 ELSE (part(2) % 128) * Weight[2]
    BY <1>3, SMT
  <2>3. group(3) = IF 3 > Groups(num) THEN 0 ELSE (part(3) % 128) * Weight[3]
    BY <1>3, SMT
  <2>4. group(4) = IF 4 > Groups(num) THEN 0 ELSE (part(4) % 128) * Weight[4]
    BY <1>3, SMT
  <2>5. group(5) = IF 5 > Groups(num) THEN 0 ELSE (part(5) % 16) * Weight[5]
    BY <1>3, SMT
  <2> HIDE DEF part, group
  <2> QED BY <1>2, <1>5, <1>6, <1>7, <1>9, <2>1, <2>2, <2>3, <2>4, <2>5, SMT DEF Weight
<1>11. NextUint(PushUint(num)) = group(1) + group(2) + group(3) + group(4) + group(5)
  BY DEF NextUint
<1> HIDE DEF part, group
<1> QED BY <1>8, <1>10, <1>11, SMT

(* A signed number is folded and unfolded without loss, also the smallest  *)
(* one (wson_push_int, wson_next_int).                                     *)
THEOREM IntReadBack == \A value \in Int32 : NextInt(PushInt(value)) = value
<1> SUFFICES ASSUME NEW value \in Int32 PROVE NextInt(PushInt(value)) = value
  OBVIOUS
<1>1. Zig(value) \in Uint32 /\ Zag(Zig(value)) = value
  BY SMT DEF Zig, Zag, Int32, Uint32
<1>2. NextUint(PushUint(Zig(value))) = Zig(value)
  BY <1>1, UintReadBack
<1> QED BY <1>1, <1>2 DEF NextInt, PushInt

(* The eight bytes of a double or a long are read in the order in which    *)
(* they are written (wson_push_long, wson_next_long).                      *)
THEOREM LongReadBack == \A num \in 0 .. Two64 - 1 : NextLong(PushLong(num)) = num
<1> SUFFICES ASSUME NEW num \in 0 .. Two64 - 1 PROVE NextLong(PushLong(num)) = num
  OBVIOUS
<1> USE DEF Two32, Two40, Two48, Two56, Two64
<1>1. num \in Nat /\ num = (num % 256) + 256 * (num \div 256)
  BY SMT
<1>2. num \div 256 = ((num \div 256) % 256) + 256 * (num \div 65536)
  BY <1>1, SMTT(60)
<1>3. num \div 65536 = ((num \div 65536) % 256) + 256 * (num \div 16777216)
  BY <1>1, SMTT(60)
<1>4. num \div 16777216 = ((num \div 16777216) % 256) + 256 * (num \div Two32)
  BY <1>1, SMTT(60)
<1>5. num \div Two32 = ((num \div Two32) % 256) + 256 * (num \div Two40)
  BY <1>1, SMTT(60)
<1>6. num \div Two40 = ((num \div Two40) % 256) + 256 * (num \div Two48)
  BY <1>1, SMTT(60)
<1>7. num \div Two48 = ((num \div Two48) % 256) + 256 * (num \div Two56)
  BY <1>1, SMTT(60)
<1>8. num \div Two56 < 256 /\ num \div Two56 \in Nat
  BY <1>1, SMTT(60)
<1>9. (num \div Two56) % 256 = num \div Two56
  BY <1>8, SMT
<1> HIDE DEF Two64
<1> QED BY <1>1, <1>2, <1>3, <1>4, <1>5, <1>6, <1>7, <1>9, SMTT(60) DEF NextLong, PushLong

(* After the test for room there is room, and nothing already written is   *)
(* cut off, unless the length goes beyond 32 bits (msg_buffer_resize).     *)
THEOREM RoomEnsured ==
    ASSUME NEW length \in Nat, NEW position \in 0 .. length, NEW size \in Nat,
           2 * length + size + 16384 < Two32
    PROVE  /\ Ensured(length, position, size) >= position + size
           /\ Ensured(length, position, size) >= length
BY SMT DEF Ensured, Resized, Two32
=============================================================================
