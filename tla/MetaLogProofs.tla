--------------------------- MODULE MetaLogProofs ---------------------------
(***************************************************************************)
(* Theorems about MetaLog for every set of keys and uses and any number of *)
(* nodes.                                                                  *)
(***************************************************************************)
EXTENDS MetaLog, FiniteSetTheorems, WellFoundedInduction, TLAPS

(* Numbers. *)

(* A set of numbers that is not empty has a smallest element: among the    *)
(* finite sets 0 .. i of its elements one has no other strictly within it. *)
LEMMA Smallest ==
    ASSUME NEW S, S \subseteq Nat, S # {}
    PROVE  \E i \in S : \A j \in S : i <= j
<1> DEFINE Below(i) == 0 .. i
           T == {Below(i) : i \in S}
<1>1. T \subseteq FiniteSubsetsOf(Nat)
  <2> SUFFICES ASSUME NEW i \in S PROVE Below(i) \in FiniteSubsetsOf(Nat)
    OBVIOUS
  <2>1. IsFiniteSet(0 .. i) /\ 0 .. i \subseteq Nat
    BY FS_Interval
  <2> QED BY <2>1 DEF FiniteSubsetsOf
<1>2. T # {}
  OBVIOUS
<1>3. IsWellFoundedOn(StrictSubsetOrdering(Nat), FiniteSubsetsOf(Nat))
  BY FS_StrictSubsetOrderingWellFounded
<1>4. \E x \in T : \A y \in T : ~(<<y, x>> \in StrictSubsetOrdering(Nat))
  <2> HIDE DEF T
  <2> QED BY <1>1, <1>2, <1>3, WFMin
<1>5. PICK i \in S : \A j \in S : ~(<<Below(j), Below(i)>> \in StrictSubsetOrdering(Nat))
  BY <1>4
<1>6. \A j \in S : i <= j
  <2> SUFFICES ASSUME NEW j \in S, ~(i <= j) PROVE FALSE
    OBVIOUS
  <2>1. i \in Nat /\ j \in Nat /\ j < i
    OBVIOUS
  <2>2. Below(j) \subseteq Below(i) /\ Below(j) # Below(i) /\ Below(i) \subseteq Nat
    BY <2>1
  <2> HIDE DEF Below
  <2>3. <<Below(j), Below(i)>> \in StrictSubsetOrdering(Nat)
    BY <2>2 DEF StrictSubsetOrdering
  <2> QED BY <2>3, <1>5
<1> QED BY <1>6

(* One that has a bound has a greatest. *)
LEMMA Greatest ==
    ASSUME NEW n \in Nat, NEW S, S \subseteq 0 .. n, S # {}
    PROVE  \E i \in S : \A j \in S : i >= j
<1> DEFINE T == {m \in Nat : n - m \in S}
<1>1. PICK x : x \in S
  OBVIOUS
<1>2. n - x \in T
  <2>1. n - x \in Nat /\ n - (n - x) = x
    BY <1>1
  <2> QED BY <1>1, <2>1
<1>3. PICK m \in T : \A k \in T : m <= k
  BY <1>2, Smallest
<1>4. n - m \in S /\ m \in Nat
  BY <1>3
<1>5. \A j \in S : n - m >= j
  <2> SUFFICES ASSUME NEW j \in S PROVE n - m >= j
    OBVIOUS
  <2>1. n - j \in Nat /\ n - (n - j) = j /\ j \in Nat
    OBVIOUS
  <2>2. n - j \in T
    BY <2>1
  <2>3. m <= n - j
    BY <1>3, <2>2
  <2> QED BY <1>4, <2>1, <2>3
<1> QED BY <1>4, <1>5

(* Last and First are the ends of a set of nodes. *)
LEMMA LastNode ==
    ASSUME NEW ns, ns \subseteq Node, ns # {}
    PROVE  Last(ns) \in ns /\ \A m \in ns : m <= Last(ns)
<1>1. MaxNode \in Nat
  BY MetaLogAssumption
<1>2. \E n \in ns : \A m \in ns : n >= m
  BY <1>1, Greatest DEF Node
<1>3. \E n \in ns : \A m \in ns : m <= n
  BY <1>1, <1>2 DEF Node
<1> QED BY <1>3 DEF Last

LEMMA FirstNode ==
    ASSUME NEW ns, ns \subseteq Node, ns # {}
    PROVE  First(ns) \in ns /\ \A m \in ns : First(ns) <= m
<1>1. ns \subseteq Nat
  BY MetaLogAssumption DEF Node
<1>2. \E n \in ns : \A m \in ns : n <= m
  BY <1>1, Smallest
<1> QED BY <1>2 DEF First

LEMMA NodeNat == Node \subseteq Nat
BY MetaLogAssumption DEF Node

LEMMA LastIs ==
    ASSUME NEW ns, ns \subseteq Node, NEW n \in ns, \A m \in ns : m <= n
    PROVE  Last(ns) = n
<1>1. Last(ns) \in ns /\ n <= Last(ns) /\ Last(ns) <= n
  BY LastNode
<1>2. n \in Nat /\ Last(ns) \in Nat
  BY <1>1, NodeNat
<1> QED BY <1>1, <1>2

-----------------------------------------------------------------------------
(* Records of a file *)

LEMMA TokenFields ==
    \A m \in Token : /\ m.flag \in {"header", "normal", "delete", "end"}
                     /\ m.key \in Keys \union {None} /\ m.node \in Node /\ m.off \in Nat
BY MetaLogAssumption DEF Token, Meta, Header, End, Node

Normal(file, k) == {i \in Readable(file) : file[i].flag = "normal" /\ file[i].key = k}

(* What Records has for a key is the last readable record of that key. *)
LEMMA RecordsAre ==
    ASSUME NEW file \in Seq(Token), NEW k \in Keys
    PROVE  /\ Normal(file, k) = {} => Records(file)[k] = None
           /\ Normal(file, k) # {} =>
                 \E i \in Normal(file, k) : /\ Records(file)[k] = file[i]
                                            /\ \A j \in Normal(file, k) : i >= j
<1> DEFINE normal == Normal(file, k)
<1>1. Records(file)[k] = IF normal = {} THEN None
                         ELSE file[CHOOSE i \in normal : \A j \in normal : i >= j]
  BY DEF Records, Normal
<1>2. ASSUME normal # {} PROVE \E i \in normal : \A j \in normal : i >= j
  <2>1. normal \subseteq 0 .. Len(file)
    BY DEF Normal, Readable
  <2>2. Len(file) \in Nat
    OBVIOUS
  <2> HIDE DEF normal
  <2> QED BY <1>2, <2>1, <2>2, Greatest
<1> HIDE DEF normal
<1>3. ASSUME normal # {}
      PROVE  \E i \in normal : Records(file)[k] = file[i] /\ \A j \in normal : i >= j
  <2> DEFINE c == CHOOSE i \in normal : \A j \in normal : i >= j
  <2>1. c \in normal /\ \A j \in normal : c >= j
    BY <1>2, <1>3
  <2> QED BY <1>1, <1>3, <2>1
<1> QED BY <1>1, <1>3 DEF normal

(* So it is a token of the file, or None. *)
LEMMA RecordsType ==
    ASSUME NEW file \in Seq(Token)
    PROVE  /\ Records(file) \in [Keys -> Token \union {None}]
           /\ \A k \in Keys : Records(file)[k] # None =>
                 \E i \in Normal(file, k) : Records(file)[k] = file[i]
<1>1. \A k \in Keys : Records(file)[k] = None
                      \/ \E i \in Normal(file, k) : Records(file)[k] = file[i]
  BY RecordsAre
<1>2. \A k \in Keys : \A i \in Normal(file, k) : file[i] \in Token
  BY DEF Normal, Readable
<1>3. \A k \in Keys : Records(file)[k] \in Token \union {None}
  BY <1>1, <1>2
<1>4. Records(file) = [k \in Keys |-> Records(file)[k]]
  BY DEF Records
<1> QED BY <1>1, <1>3, <1>4

-----------------------------------------------------------------------------
(* Types and phases *)

Pcs == {"idle", "meta", "callback", "sync", "size", "closeData", "closeCallback",
        "closeMeta", "newNode", "closed", "readMeta", "entry", "deleteNode"}

Thens == {"idle", "meta", "size", "newNode", "closed"}

Nexts == {"idle", "readMeta", "entry"}

(* The value is in the buffer, its meta is yet to be made. *)
Storing == job.pc = "meta" \/ (job.pc = "callback" /\ job.then = "meta")

(* pack is under way; it has begun to go through the files. *)
Packing == job.pc \in {"readMeta", "entry", "deleteNode"} \/ job.next \in {"readMeta", "entry"}

Deleting == job.pc \in {"readMeta", "entry", "deleteNode"} \/ job.next = "entry"

(* What goes with each place in an operation. *)
Phases ==
    /\ state # "open" => /\ job = NoJob /\ toPack = {} /\ entries = NoMetas
                         /\ buffer = <<>> /\ held = <<>> /\ buffered = <<>>
    /\ state = "open" => /\ metaFile[node] \in Seq(Token)
                         /\ \A n \in Node : node < n => metaFile[n] = None
    /\ job.then \in {"idle", "closed"} => job.next = "idle"
    /\ job.pc = "idle" => job.next = "idle"
    /\ job.pc = "closed" => job.then = "closed"
    /\ job.pc \in {"closeData", "closeCallback", "closeMeta"} => job.then \in {"newNode", "closed"}
    /\ job.pc = "callback" => job.then \in {"idle", "meta", "size"}
    /\ job.pc \in {"closeCallback", "closeMeta", "newNode", "closed"} => buffer = <<>>
    /\ Storing => /\ buffer # <<>> /\ buffer[Len(buffer)] = job.value
                  /\ job.value.key \in Keys

(* What pack has to go through lies before the current node and is there,  *)
(* but for the meta file it has just deleted.                              *)
Packs ==
    /\ ~Packing => toPack = {} /\ entries = NoMetas
    /\ \A n \in toPack : n <= node /\ (Deleting => n < node)
    /\ job.pc \in {"entry", "deleteNode"} \/ (job.next = "entry" /\ job.pc # "readMeta") =>
           toPack # {}
    /\ job.next = "readMeta" =>
           job.pc \in {"closeData", "closeCallback", "closeMeta", "newNode", "readMeta", "entry",
                      "deleteNode"}
    /\ job.pc \in {"readMeta", "deleteNode"} \/ (job.next = "readMeta" /\ job.pc # "entry") =>
           entries = NoMetas
    /\ \A n \in toPack : \/ metaFile[n] \in Seq(Token)
                         \/ job.pc = "deleteNode" /\ n = First(toPack)
    /\ job.pc = "deleteNode" => metaFile[First(toPack)] = None

Base == TypeOK /\ Phases /\ Packs

LEMMA UseTypes ==
    ASSUME use \in Uses
    PROVE  /\ use.recordSize \in Nat \ {0} /\ use.heldBack \in Nat \ {0}
           /\ use.metaBuffer \in Nat /\ use.dataBuffer \in Nat \ {0} /\ use.nodeSize \in Nat
           /\ use.maxPuts \in Nat /\ use.maxOpens \in Nat /\ use.maxCrashes \in Nat
BY MetaLogAssumption

Jobs == [pc : Pcs, value : Value, then : Thens, next : Nexts]

LEMMA JobType ==
    ASSUME TypeOK
    PROVE  job \in Jobs
BY DEF TypeOK, Jobs, Pcs, Thens, Nexts

LEMMA NoJobType ==
    ASSUME use \in Uses
    PROVE  /\ NoJob \in Jobs /\ Short \in Value
           /\ NoJob.pc = "idle" /\ NoJob.then = "idle" /\ NoJob.next = "idle"
<1>1. use.maxPuts \in Nat
  BY UseTypes
<1>2. 0 \in 0 .. use.maxPuts
  BY <1>1
<1> QED BY <1>2 DEF NoJob, Jobs, Pcs, Thens, Nexts, Short, Value

LEMMA GotoEffect ==
    ASSUME TypeOK, NEW pc \in Pcs, Goto(pc)
    PROVE  /\ job' \in Jobs
           /\ job'.pc = pc /\ job'.value = job.value /\ job'.then = job.then /\ job'.next = job.next
<1>1. job \in Jobs
  BY JobType
<1>2. job' = [job EXCEPT !.pc = pc]
  BY DEF Goto
<1> QED BY <1>1, <1>2 DEF Jobs

LEMMA GotoThen ==
    ASSUME TypeOK, NEW pc \in Pcs, NEW then \in Thens, job' = [job EXCEPT !.pc = pc, !.then = then]
    PROVE  /\ job' \in Jobs
           /\ job'.pc = pc /\ job'.value = job.value /\ job'.then = then /\ job'.next = job.next
<1>1. job \in Jobs
  BY JobType
<1>2. job' = [pc |-> pc, value |-> job.value, then |-> then, next |-> job.next]
  BY <1>1 DEF Jobs
<1>3. job.value \in Value /\ job.next \in Nexts
  BY <1>1 DEF Jobs
<1> QED BY <1>2, <1>3 DEF Jobs

LEMMA NewJob ==
    ASSUME TypeOK, NEW pc \in Pcs, NEW then \in Thens, NEW next \in Nexts,
           job' = [pc |-> pc, value |-> Short, then |-> then, next |-> next]
    PROVE  /\ job' \in Jobs
           /\ job'.pc = pc /\ job'.value = Short /\ job'.then = then /\ job'.next = next
<1>1. Short \in Value
  BY NoJobType DEF TypeOK
<1> QED BY <1>1 DEF Jobs

(* Write puts the value behind what the node has. *)
LEMMA WriteEffect ==
    ASSUME TypeOK, NEW v \in Value, NEW next \in Nexts, Write(v, next)
    PROVE  /\ job' \in Jobs
           /\ job'.pc \in {"callback", "meta"} /\ job'.value = v
           /\ job'.then = "meta" /\ job'.next = next
           /\ nodeFile' \in [Node -> Seq(Value)] /\ buffer' \in Seq(Value) /\ opened' \in BOOLEAN
           /\ buffer' # <<>> /\ buffer'[Len(buffer')] = v
           /\ \A n \in Node : n # node => nodeFile'[n] = nodeFile[n]
           /\ nodeFile'[node] \o buffer' = Append(nodeFile[node] \o buffer, v)
           /\ \/ nodeFile' = nodeFile /\ buffer' = Append(buffer, v) /\ job'.pc = "meta"
              \/ nodeFile'[node] = nodeFile[node] \o buffer /\ buffer' = <<v>>
                 /\ job'.pc = "callback"
<1>1. nodeFile \in [Node -> Seq(Value)] /\ node \in Node /\ buffer \in Seq(Value) /\ opened \in BOOLEAN
  BY DEF TypeOK
<1>2. CASE Len(buffer) = use.dataBuffer
  <2>1. /\ nodeFile' = [nodeFile EXCEPT ![node] = @ \o buffer] /\ buffer' = <<v>> /\ opened' = FALSE
        /\ job' = [pc |-> "callback", value |-> v, then |-> "meta", next |-> next]
    BY <1>2 DEF Write
  <2>2. nodeFile'[node] = nodeFile[node] \o buffer
    BY <1>1, <2>1
  <2>3. nodeFile[node] \in Seq(Value) /\ nodeFile[node] \o buffer \in Seq(Value)
    BY <1>1
  <2>4. nodeFile' \in [Node -> Seq(Value)]
    BY <1>1, <2>1, <2>3
  <2>5. (nodeFile[node] \o buffer) \o <<v>> = Append(nodeFile[node] \o buffer, v)
    BY <2>3
  <2>6. buffer' \in Seq(Value) /\ buffer' # <<>> /\ buffer'[Len(buffer')] = v
    BY <2>1
  <2>7. job' \in Jobs
    BY <2>1 DEF Jobs, Pcs, Thens
  <2> QED BY <1>1, <2>1, <2>2, <2>4, <2>5, <2>6, <2>7
<1>3. CASE Len(buffer) # use.dataBuffer
  <2>1. /\ nodeFile' = nodeFile /\ buffer' = Append(buffer, v) /\ opened' = opened
        /\ job' = [pc |-> "meta", value |-> v, then |-> "meta", next |-> next]
    BY <1>3 DEF Write
  <2>2. nodeFile[node] \in Seq(Value)
    BY <1>1
  <2>3. nodeFile[node] \o Append(buffer, v) = Append(nodeFile[node] \o buffer, v)
    BY <1>1, <2>2
  <2>4. buffer' \in Seq(Value) /\ buffer' # <<>> /\ buffer'[Len(buffer')] = v
    <3>1. buffer \in Seq(Value) /\ buffer' = Append(buffer, v)
      BY <1>1, <2>1
    <3> QED BY <3>1
  <2>5. job' \in Jobs
    BY <2>1 DEF Jobs, Pcs, Thens
  <2> QED BY <1>1, <2>1, <2>3, <2>4, <2>5
<1> QED BY <1>2, <1>3

LEMMA WriteDataEffect ==
    ASSUME TypeOK, WriteData
    PROVE  /\ nodeFile' \in [Node -> Seq(Value)] /\ buffer' = <<>> /\ opened' \in BOOLEAN
           /\ nodeFile'[node] = nodeFile[node] \o buffer
           /\ \A n \in Node : n # node => nodeFile'[n] = nodeFile[n]
<1>1. nodeFile \in [Node -> Seq(Value)] /\ node \in Node /\ buffer \in Seq(Value) /\ opened \in BOOLEAN
  BY DEF TypeOK
<1>2. nodeFile[node] \o buffer \in Seq(Value)
  BY <1>1
<1> QED BY <1>1, <1>2 DEF WriteData

(* Nothing of the records is lost on their way to the file. *)
LEMMA FlushMetaEffect ==
    ASSUME TypeOK, metaFile[node] \in Seq(Token), FlushMeta
    PROVE  /\ metaFile' \in [Node -> Seq(Token) \union {None}] /\ metaFile'[node] \in Seq(Token)
           /\ buffered' = <<>> /\ held' = held
           /\ metaFile'[node] = metaFile[node] \o buffered
           /\ metaFile'[node] \o buffered' \o held' = metaFile[node] \o buffered \o held
           /\ \A n \in Node : n # node => metaFile'[n] = metaFile[n]
<1>1. /\ metaFile \in [Node -> Seq(Token) \union {None}] /\ node \in Node
      /\ buffered \in Seq(Token) /\ held \in Seq(Token)
  BY DEF TypeOK
<1>2. metaFile[node] \o buffered \in Seq(Token)
  BY <1>1
<1>3. metaFile'[node] = metaFile[node] \o buffered /\ \A n \in Node : n # node => metaFile'[n] = metaFile[n]
  BY <1>1 DEF FlushMeta
<1>4. metaFile' \in [Node -> Seq(Token) \union {None}]
  BY <1>1, <1>2 DEF FlushMeta
<1>5. buffered' = <<>> /\ held' = held
  BY DEF FlushMeta
<1>6. metaFile[node] \o buffered \o <<>> = metaFile[node] \o buffered
  BY <1>2
<1> QED BY <1>2, <1>3, <1>4, <1>5, <1>6

LEMMA WriteMetaEffect ==
    ASSUME TypeOK, metaFile[node] \in Seq(Token), NEW m \in Token, WriteMeta(m)
    PROVE  /\ metaFile' \in [Node -> Seq(Token) \union {None}] /\ metaFile'[node] \in Seq(Token)
           /\ buffered' \in Seq(Token) /\ held' \in Seq(Token)
           /\ metaFile'[node] \o buffered' \o held' = Append(metaFile[node] \o buffered \o held, m)
           /\ \A n \in Node : n # node => metaFile'[n] = metaFile[n]
           /\ \/ metaFile'[node] = metaFile[node] /\ buffered' \o held' = Append(buffered \o held, m)
              \/ metaFile'[node] = metaFile[node] \o buffered /\ buffered' \o held' = Append(held, m)
<1> DEFINE file == metaFile[node]
           gathered == Append(held, m)
<1>1. /\ metaFile \in [Node -> Seq(Token) \union {None}] /\ node \in Node
      /\ buffered \in Seq(Token) /\ held \in Seq(Token) /\ file \in Seq(Token)
      /\ gathered \in Seq(Token)
  BY DEF TypeOK
<1> HIDE DEF file
<1>2. file \o buffered \in Seq(Token) /\ buffered \o held \in Seq(Token)
      /\ buffered \o gathered \in Seq(Token)
  BY <1>1
<1>3. CASE Len(gathered) < use.heldBack
  <2>1. held' = gathered /\ buffered' = buffered /\ metaFile' = metaFile
    BY <1>3 DEF WriteMeta
  <2>2. file \o buffered \o gathered = Append(file \o buffered \o held, m)
    BY <1>1, <1>2
  <2>3. buffered \o gathered = Append(buffered \o held, m)
    BY <1>1
  <2> QED BY <1>1, <2>1, <2>2, <2>3 DEF file
<1>4. CASE ~(Len(gathered) < use.heldBack) /\ Len(buffered) + Len(gathered) > use.metaBuffer
  <2>1. held' = <<>> /\ buffered' = gathered
        /\ metaFile' = [metaFile EXCEPT ![node] = file \o buffered]
    BY <1>4 DEF WriteMeta, file
  <2>2. /\ metaFile'[node] = file \o buffered /\ \A n \in Node : n # node => metaFile'[n] = metaFile[n]
        /\ metaFile' \in [Node -> Seq(Token) \union {None}]
    BY <1>1, <1>2, <2>1
  <2>3. gathered \o <<>> = gathered
    BY <1>1
  <2>4. (file \o buffered) \o gathered \o <<>> = Append(file \o buffered \o held, m)
    BY <1>1, <1>2
  <2> QED BY <1>1, <1>2, <2>1, <2>2, <2>3, <2>4 DEF file
<1>5. CASE ~(Len(gathered) < use.heldBack) /\ ~(Len(buffered) + Len(gathered) > use.metaBuffer)
  <2>1. held' = <<>> /\ buffered' = buffered \o gathered /\ metaFile' = metaFile
    BY <1>5 DEF WriteMeta
  <2>2. file \o (buffered \o gathered) \o <<>> = Append(file \o buffered \o held, m)
    BY <1>1, <1>2
  <2>3. (buffered \o gathered) \o <<>> = Append(buffered \o held, m)
    BY <1>1, <1>2
  <2>4. /\ metaFile'[node] = file /\ buffered' \in Seq(Token) /\ held' \in Seq(Token)
        /\ buffered' \o held' = Append(buffered \o held, m)
        /\ metaFile'[node] \o buffered' \o held' = Append(file \o buffered \o held, m)
    <3>1. metaFile'[node] = file
      BY <2>1 DEF file
    <3>2. buffered' \in Seq(Token) /\ held' \in Seq(Token)
      BY <1>2, <2>1
    <3> HIDE DEF gathered
    <3> QED BY <2>1, <2>2, <2>3, <3>1, <3>2, Zenon
  <2> QED BY <1>1, <2>1, <2>4 DEF file
<1> QED BY <1>3, <1>4, <1>5

LEMMA PositionType ==
    ASSUME TypeOK, NEW file \in Seq(Token)
    PROVE  Position(file) \in Nat
<1> DEFINE records == {i \in Readable(file) : IsRecord(file[i])}
<1>1. IsFiniteSet(records) /\ Cardinality(records) \in Nat
  <2>1. IsFiniteSet(1 .. Len(file)) /\ records \subseteq 1 .. Len(file)
    BY FS_Interval DEF Readable
  <2> HIDE DEF records
  <2> QED BY <2>1, FS_Subset, FS_CardinalityType
<1>2. use.recordSize \in Nat
  BY UseTypes DEF TypeOK
<1> HIDE DEF records
<1>3. use.recordSize * Cardinality(records) \in Nat
  BY <1>1, <1>2
<1> QED BY <1>3 DEF Position, records

LEMMA CorrectedType ==
    ASSUME TypeOK, NEW file \in Seq(Token)
    PROVE  /\ Corrected(file) \in Seq(Token)
           /\ Len(Corrected(file)) <= Len(file)
           /\ \A i \in 1 .. Len(Corrected(file)) : Corrected(file)[i] = file[i]
           /\ Position(file) >= Len(file) => Corrected(file) = file
<1> DEFINE n == Smaller(Len(file), Position(file))
<1>1. Position(file) \in Nat /\ Len(file) \in Nat
  BY PositionType
<1>2. n \in 0 .. Len(file) /\ (Position(file) >= Len(file) => n = Len(file))
  BY <1>1 DEF Smaller
<1>3. Corrected(file) = SubSeq(file, 1, n)
  BY DEF Corrected
<1> HIDE DEF n
<1>4. /\ SubSeq(file, 1, n) \in Seq(Token) /\ Len(SubSeq(file, 1, n)) = n
      /\ \A i \in 1 .. n : SubSeq(file, 1, n)[i] = file[i]
  BY <1>2
<1>5. SubSeq(file, 1, Len(file)) = file
  OBVIOUS
<1>6. n <= Len(file)
  BY <1>1, <1>2
<1>7. Position(file) >= Len(file) => Corrected(file) = file
  BY <1>2, <1>3, <1>5, Zenon
<1>8. Corrected(file) \in Seq(Token) /\ Len(Corrected(file)) = n
  BY <1>3, <1>4, Zenon
<1>9. \A i \in 1 .. Len(Corrected(file)) : Corrected(file)[i] = file[i]
  BY <1>3, <1>4, <1>8, Zenon
<1> QED BY <1>6, <1>7, <1>8, <1>9, Zenon

LEMMA ReadMetaType ==
    ASSUME TypeOK, NEW n \in Node, metaCache[n] = None => metaFile[n] \in Seq(Token)
    PROVE  ReadMeta(n) \in [Keys -> Token \union {None}]
<1>1. metaCache[n] \in [Keys -> Token \union {None}] \union {None}
  BY DEF TypeOK
<1>2. metaCache[n] = None => Records(metaFile[n]) \in [Keys -> Token \union {None}]
  BY RecordsType
<1> QED BY <1>1, <1>2 DEF ReadMeta

LEMMA AfterReadingEffect ==
    ASSUME TypeOK, NEW ns, ns \subseteq Node, AfterReading(ns),
           \A n \in ns : metaCache[n] = None => metaFile[n] \in Seq(Token)
    PROVE  /\ metaFile' \in [Node -> Seq(Token) \union {None}]
           /\ \A n \in Node : n \notin ns \/ metaCache[n] # None => metaFile'[n] = metaFile[n]
           /\ \A n \in ns : metaCache[n] = None => metaFile'[n] = Corrected(metaFile[n])
           /\ \A n \in Node : metaFile[n] \in Seq(Token) => metaFile'[n] \in Seq(Token)
           /\ metaCache' \in [Node -> [Keys -> Token \union {None}] \union {None}]
           /\ torn' \in BOOLEAN
<1>1. /\ metaFile \in [Node -> Seq(Token) \union {None}]
      /\ metaCache \in [Node -> [Keys -> Token \union {None}] \union {None}]
      /\ torn \in BOOLEAN
  BY DEF TypeOK
<1>2. \A n \in ns : metaCache[n] = None => /\ Corrected(metaFile[n]) \in Seq(Token)
                                          /\ Records(metaFile[n]) \in [Keys -> Token \union {None}]
  BY CorrectedType, RecordsType
<1>3. \A n \in Node : metaFile'[n] = IF n \in ns /\ metaCache[n] = None
                                     THEN Corrected(metaFile[n]) ELSE metaFile[n]
  BY DEF AfterReading
<1>4. metaFile' = [n \in Node |-> metaFile'[n]] /\ metaCache' = [n \in Node |-> metaCache'[n]]
  BY DEF AfterReading
<1>5. \A n \in Node : metaFile'[n] \in Seq(Token) \union {None}
  BY <1>1, <1>2, <1>3
<1>6. \A n \in Node : \/ metaCache'[n] = metaCache[n]
                      \/ n \in ns /\ metaCache[n] = None /\ metaCache'[n] = Records(metaFile[n])
  BY DEF AfterReading
<1>7. \A n \in Node : metaCache'[n] \in [Keys -> Token \union {None}] \union {None}
  BY <1>1, <1>2, <1>6
<1>8. torn' \in BOOLEAN
  BY <1>1 DEF AfterReading
<1> QED BY <1>2, <1>3, <1>4, <1>5, <1>7, <1>8

LEMMA ContentType ==
    ASSUME TypeOK, NEW m \in Token, NEW file \in Seq(Value)
    PROVE  Content(m, file) \in 0 .. use.maxPuts \union {None}
<1>1. m.off \in Nat
  BY DEF Token, Meta, Header, End
<1>2. m.off < Len(file) => file[m.off + 1] \in Value
  BY <1>1
<1>3. m.off < Len(file) => file[m.off + 1].put \in 0 .. use.maxPuts \union {None}
  BY <1>2 DEF Value
<1>4. use.maxPuts \in Nat
  BY UseTypes DEF TypeOK
<1>5. 0 \in 0 .. use.maxPuts
  BY <1>4
<1> QED BY <1>3, <1>5 DEF Content

(* The types after a step, given for each variable. *)
LEMMA TypesNext ==
    ASSUME use \in Uses, use' = use,
           metaFile' \in [Node -> Seq(Token) \union {None}],
           nodeFile' \in [Node -> Seq(Value)],
           metaCache' \in [Node -> [Keys -> Token \union {None}] \union {None}],
           state' \in {"closed", "crashed", "open", "failed"},
           node' \in Node,
           fileMeta' \in [Keys -> Token \union {None}], entries' \in [Keys -> Token \union {None}],
           buffer' \in Seq(Value), opened' \in BOOLEAN, held' \in Seq(Token), buffered' \in Seq(Token),
           job' \in Jobs, toPack' \subseteq Node,
           puts' \in 0 .. use.maxPuts, opens' \in 0 .. use.maxOpens,
           crashes' \in 0 .. use.maxCrashes,
           current' \in [Keys -> 0 .. use.maxPuts \union {None}],
           closed' \in [Keys -> 0 .. use.maxPuts \union {None}],
           flushed' \in [Keys -> 0 .. use.maxPuts \union {None}],
           torn' \in BOOLEAN
    PROVE  TypeOK'
<1>1. Value' = Value
  BY DEF Value
<1>2. job' \in [pc : Pcs, value : Value', then : Thens, next : Nexts]
  BY <1>1 DEF Jobs
<1> QED BY <1>1, <1>2, Zenon DEF TypeOK, Pcs, Thens, Nexts

-----------------------------------------------------------------------------
LEMMA InitBase == Init => Base
<1> SUFFICES ASSUME Init PROVE Base
  OBVIOUS
<1>1. use \in Uses /\ use.maxPuts \in Nat /\ use.maxOpens \in Nat /\ use.maxCrashes \in Nat
  BY UseTypes DEF Init
<1>2. 0 \in 0 .. use.maxPuts /\ 0 \in 0 .. use.maxOpens /\ 0 \in 0 .. use.maxCrashes /\ 0 \in Node
  BY <1>1, MetaLogAssumption DEF Node
<1>3. job = NoJob /\ job \in Jobs /\ job.pc = "idle" /\ job.then = "idle" /\ job.next = "idle"
  BY <1>1, NoJobType DEF Init
<1>4. TypeOK
  <2>1. metaFile \in [Node -> Seq(Token) \union {None}]
    BY DEF Init
  <2>2. NoMetas \in [Keys -> Token \union {None}]
    BY DEF NoMetas
  <2>3. current \in [Keys -> 0 .. use.maxPuts \union {None}] /\ closed = current /\ flushed = current
    BY <1>2 DEF Init
  <2>4. /\ nodeFile \in [Node -> Seq(Value)] /\ state = "closed" /\ node = 0 /\ toPack = {}
        /\ metaCache \in [Node -> [Keys -> Token \union {None}] \union {None}]
        /\ fileMeta = NoMetas /\ entries = NoMetas
        /\ puts = 0 /\ opens = 0 /\ crashes = 0 /\ torn = FALSE
    BY DEF Init
  <2>5. buffer \in Seq(Value) /\ held \in Seq(Token) /\ buffered \in Seq(Token)
    <3>1. buffer = <<>> /\ held = <<>> /\ buffered = <<>>
      BY DEF Init
    <3> QED BY <3>1
  <2>6. opened \in BOOLEAN
    BY DEF Init
  <2> QED BY <1>1, <1>2, <1>3, <2>1, <2>2, <2>3, <2>4, <2>5, <2>6 DEF TypeOK, Jobs, Pcs, Thens, Nexts
<1>5. Phases
  BY <1>3 DEF Init, Phases, Storing
<1>6. Packs
  BY <1>3 DEF Init, Packs, Packing
<1> QED BY <1>4, <1>5, <1>6 DEF Base

LEMMA OpenBase ==
    ASSUME Base, Open, use' = use
    PROVE  Base'
<1>1. TypeOK /\ Phases /\ Packs
  BY DEF Base
<1>2. /\ state # "open" /\ job = NoJob /\ job' = job /\ toPack = {} /\ toPack' = {}
      /\ entries = NoMetas /\ entries' = NoMetas
      /\ job.pc = "idle" /\ job.then = "idle" /\ job.next = "idle"
  BY <1>1, NoJobType DEF Open, Phases, packing, TypeOK
<1>3. MetaNodes \subseteq Node /\ MetaNodes # {}
      /\ \A n \in MetaNodes : metaFile[n] \in Seq(Token)
  BY <1>1 DEF MetaNodes, Open, TypeOK
<1>4. Last(MetaNodes) \in MetaNodes /\ \A m \in MetaNodes : m <= Last(MetaNodes)
  BY <1>3, LastNode
<1>5. node' = Last(MetaNodes) /\ node' \in Node /\ buffer' = <<>> /\ opened' = FALSE /\ held' = <<>> /\ buffered' = <<Header>>
      /\ state' = "open"
  BY <1>3, <1>4 DEF Open, OpenStreams
<1>6. /\ metaFile' \in [Node -> Seq(Token) \union {None}]
      /\ \A n \in Node : n \notin MetaNodes => metaFile'[n] = None
      /\ \A n \in MetaNodes : metaFile'[n] \in Seq(Token)
      /\ metaCache' \in [Node -> [Keys -> Token \union {None}] \union {None}]
      /\ torn' \in BOOLEAN
  <2>1. AfterReading(MetaNodes)
    BY DEF Open
  <2>2. \A n \in Node : n \notin MetaNodes => metaFile[n] = None
    BY DEF MetaNodes
  <2> QED BY <1>1, <1>3, <2>1, <2>2, AfterReadingEffect
<1>7. AllMetas \in [Keys -> Token \union {None}]
  <2>1. ASSUME NEW k \in Keys PROVE AllMetas[k] \in Token \union {None}
    <3> DEFINE ns == {n \in MetaNodes : ReadMeta(n)[k] # None}
    <3>1. AllMetas[k] = IF ns = {} THEN None ELSE ReadMeta(Last(ns))[k]
      BY DEF AllMetas
    <3>2. ns \subseteq Node /\ ns \subseteq MetaNodes
      BY <1>3
    <3>3. ns # {} => Last(ns) \in MetaNodes
      <4> HIDE DEF ns
      <4> QED BY <3>2, LastNode
    <3>4. \A n \in MetaNodes : ReadMeta(n) \in [Keys -> Token \union {None}]
      BY <1>1, <1>3, ReadMetaType
    <3> QED BY <3>1, <3>3, <3>4
  <2> QED BY <2>1 DEF AllMetas
<1>8. current' \in [Keys -> 0 .. use.maxPuts \union {None}]
  <2>1. CASE state = "closed"
    BY <1>1, <2>1 DEF Open, TypeOK
  <2>2. CASE state # "closed"
    <3> DEFINE c(k) == Content(AllMetas[k], IF AllMetas[k] = None THEN <<>> ELSE nodeFile[AllMetas[k].node])
    <3>1. current' = [k \in Keys |-> c(k)]
      BY <2>2 DEF Open
    <3>2. ASSUME NEW k \in Keys PROVE c(k) \in 0 .. use.maxPuts \union {None}
      <4>1. CASE AllMetas[k] = None
        <5>1. 0 \in 0 .. use.maxPuts
          BY <1>1, UseTypes DEF TypeOK
        <5> QED BY <4>1, <5>1 DEF Content
      <4>2. CASE AllMetas[k] # None
        <5>1. AllMetas[k] \in Token /\ AllMetas[k].node \in Node
          BY <1>7, <4>2, TokenFields
        <5>2. nodeFile[AllMetas[k].node] \in Seq(Value)
          BY <1>1, <5>1 DEF TypeOK
        <5> QED BY <1>1, <4>2, <5>1, <5>2, ContentType
      <4> QED BY <4>1, <4>2
    <3> HIDE DEF c
    <3> QED BY <3>1, <3>2
  <2> QED BY <2>1, <2>2
<1>9. TypeOK'
  <2>1. opens' \in 0 .. use.maxOpens
    BY <1>1, UseTypes DEF Open, TypeOK
  <2>2. Header \in Token
    BY MetaLogAssumption DEF Header, Token, Meta, Node
  <2>3. fileMeta' = AllMetas /\ UNCHANGED <<nodeFile, job, packing, puts, crashes, closed, flushed>>
    BY DEF Open
  <2>4. buffer' \in Seq(Value) /\ held' \in Seq(Token) /\ buffered' \in Seq(Token)
    BY <1>5, <2>2
  <2> QED BY <1>1, <1>2, <1>5, <1>6, <1>7, <1>8, <2>1, <2>3, <2>4, JobType, TypesNext DEF TypeOK
<1>10. Phases'
  <2>1. metaFile'[node'] \in Seq(Token)
    BY <1>4, <1>5, <1>6
  <2>2. \A n \in Node : node' < n => n \notin MetaNodes
    BY <1>3, <1>4, <1>5, NodeNat
  <2> QED BY <1>2, <1>5, <1>6, <2>1, <2>2 DEF Phases, Storing
<1>11. Packs'
  BY <1>2 DEF Packs, Packing, Deleting
<1> QED BY <1>9, <1>10, <1>11 DEF Base

LEMMA OpenFailsBase ==
    ASSUME Base, OpenFails, use' = use
    PROVE  Base'
<1>1. TypeOK /\ Phases /\ Packs /\ job \in Jobs
  BY JobType DEF Base
<1>2. /\ UNCHANGED <<metaFile, nodeFile, metaCache, node, buffer, opened, held, buffered, fileMeta,
                     job, toPack, entries, puts, crashes, current, closed, flushed, torn>>
      /\ state # "open" /\ state' = "failed"
  BY DEF OpenFails, disk, streams, packing, history
<1>3. opens' \in 0 .. use.maxOpens
  BY <1>1, UseTypes DEF OpenFails, TypeOK
<1>4. TypeOK'
  BY <1>1, <1>2, <1>3, TypesNext DEF TypeOK
<1>5. Phases'
  BY <1>1, <1>2 DEF Phases, Storing
<1>6. Packs'
  BY <1>1, <1>2 DEF Packs, Packing, Deleting
<1> QED BY <1>4, <1>5, <1>6 DEF Base

LEMMA PutBase ==
    ASSUME Base, NEW k \in Keys, Put(k), use' = use
    PROVE  Base'
<1>1. TypeOK /\ Phases /\ Packs /\ job \in Jobs
  BY JobType DEF Base
<1>2. /\ UNCHANGED <<metaFile, metaCache, state, node, held, buffered, fileMeta, toPack, entries,
                     opens, crashes, current, closed, flushed, torn>>
      /\ state = "open" /\ job.pc = "idle" /\ job.next = "idle" /\ puts < use.maxPuts /\ puts' = puts + 1
  BY <1>1 DEF Put, packing, history, At, Phases
<1> DEFINE v == [key |-> k, put |-> puts + 1]
<1>3. puts' \in 0 .. use.maxPuts /\ puts + 1 \in 0 .. use.maxPuts
  BY <1>1, <1>2, UseTypes DEF TypeOK
<1>4. v \in Value /\ v.key = k
  BY <1>3 DEF Value
<1>5. Write(v, "idle")
  BY DEF Put
<1> HIDE DEF v
<1>6. /\ job' \in Jobs /\ job'.pc \in {"callback", "meta"} /\ job'.value = v
      /\ job'.then = "meta" /\ job'.next = "idle"
      /\ nodeFile' \in [Node -> Seq(Value)] /\ buffer' \in Seq(Value) /\ opened' \in BOOLEAN
      /\ buffer' # <<>> /\ buffer'[Len(buffer')] = v
  BY <1>1, <1>4, <1>5, WriteEffect DEF Nexts
<1>7. TypeOK'
  BY <1>1, <1>2, <1>3, <1>6, TypesNext DEF TypeOK
<1>8. Phases'
  BY <1>1, <1>2, <1>4, <1>6 DEF Phases, Storing
<1>9. Packs'
  BY <1>1, <1>2, <1>6 DEF Packs, Packing, Deleting
<1> QED BY <1>7, <1>8, <1>9 DEF Base

LEMMA CallbackBase ==
    ASSUME Base, Callback \/ CloseCallback, use' = use
    PROVE  Base'
<1>1. TypeOK /\ Phases /\ Packs /\ job \in Jobs
  BY JobType DEF Base
<1>2. /\ UNCHANGED <<nodeFile, metaCache, state, node, buffer, opened, fileMeta, toPack, entries,
                     puts, opens, crashes, current, closed, torn>>
      /\ state = "open"
      /\ \/ job.pc = "callback" /\ job.then \in {"idle", "meta", "size"}
         \/ job.pc = "closeCallback" /\ job.then \in {"newNode", "closed"} /\ buffer = <<>>
  BY <1>1 DEF Callback, CloseCallback, packing, counts, history, At, Phases
<1>3. /\ metaFile' \in [Node -> Seq(Token) \union {None}] /\ metaFile'[node] \in Seq(Token)
      /\ \A n \in Node : n # node => metaFile'[n] = metaFile[n]
      /\ buffered' = <<>> /\ held' = held
  BY <1>1, <1>2, FlushMetaEffect DEF Callback, CloseCallback, Phases
<1>4. /\ job' \in Jobs
      /\ job'.pc = IF job.pc = "callback" THEN job.then ELSE "closeMeta"
      /\ job'.value = job.value /\ job'.then = job.then /\ job'.next = job.next
  BY <1>1, <1>2, GotoEffect DEF Callback, CloseCallback, At, Pcs
<1>5. flushed' \in {flushed, current}
  BY DEF Callback, CloseCallback, history
<1>6. TypeOK'
  BY <1>1, <1>2, <1>3, <1>4, <1>5, TypesNext DEF TypeOK
<1>7. Phases'
  BY <1>1, <1>2, <1>3, <1>4, NodeNat DEF Phases, Storing, TypeOK
<1>8. Packs'
  BY <1>1, <1>2, <1>3, <1>4 DEF Packs, Packing, Deleting, TypeOK
<1> QED BY <1>6, <1>7, <1>8 DEF Base

LEMMA PutMetaBase ==
    ASSUME Base, PutMeta, use' = use
    PROVE  Base'
<1>1. TypeOK /\ Phases /\ Packs /\ job \in Jobs
  BY JobType DEF Base
<1>2. /\ UNCHANGED <<nodeFile, metaCache, state, node, buffer, opened, toPack, entries,
                     puts, opens, crashes, closed, flushed, torn>>
      /\ state = "open" /\ job.pc = "meta" /\ buffer # <<>> /\ job.value.key \in Keys
  BY <1>1 DEF PutMeta, packing, counts, At, Phases, Storing
<1> DEFINE k == job.value.key
           m == [flag |-> "normal", key |-> k, node |-> node, off |-> Size - 1]
<1>3. m \in Token
  <2>1. Len(nodeFile[node]) \in Nat /\ Len(buffer) \in Nat /\ Len(buffer) # 0
    BY <1>1, <1>2 DEF TypeOK
  <2>2. Size - 1 \in Nat
    BY <2>1 DEF Size
  <2> QED BY <1>1, <1>2, <2>2 DEF Token, Meta, Header, End, TypeOK
<1>4. WriteMeta(m) /\ fileMeta' = [fileMeta EXCEPT ![k] = m]
      /\ current' \in {current, [current EXCEPT ![k] = job.value.put]} /\ Goto("sync")
  BY DEF PutMeta
<1> HIDE DEF m
<1>5. /\ metaFile' \in [Node -> Seq(Token) \union {None}] /\ metaFile'[node] \in Seq(Token)
      /\ \A n \in Node : n # node => metaFile'[n] = metaFile[n]
      /\ buffered' \in Seq(Token) /\ held' \in Seq(Token)
  BY <1>1, <1>2, <1>3, <1>4, WriteMetaEffect DEF Phases
<1>6. /\ job' \in Jobs
      /\ job'.pc = "sync" /\ job'.value = job.value /\ job'.then = job.then /\ job'.next = job.next
  BY <1>1, <1>4, GotoEffect DEF Pcs
<1>7. fileMeta' \in [Keys -> Token \union {None}]
  BY <1>1, <1>3, <1>4 DEF TypeOK
<1>8. current' \in [Keys -> 0 .. use.maxPuts \union {None}]
  <2>1. job.value \in Value
    BY <1>1 DEF Jobs
  <2>2. job.value.put \in 0 .. use.maxPuts \union {None}
    BY <2>1 DEF Value
  <2> QED BY <1>1, <1>4, <2>2 DEF TypeOK
<1>9. TypeOK'
  BY <1>1, <1>2, <1>5, <1>6, <1>7, <1>8, TypesNext DEF TypeOK
<1>10. Phases'
  BY <1>1, <1>2, <1>5, <1>6, NodeNat DEF Phases, Storing, TypeOK
<1>11. Packs'
  BY <1>1, <1>2, <1>5, <1>6 DEF Packs, Packing, Deleting, TypeOK
<1> QED BY <1>9, <1>10, <1>11 DEF Base

LEMMA PutSyncBase ==
    ASSUME Base, PutSync, use' = use
    PROVE  Base'
<1>1. TypeOK /\ Phases /\ Packs /\ job \in Jobs
  BY JobType DEF Base
<1>2. /\ UNCHANGED <<metaFile, metaCache, state, node, held, buffered, fileMeta, toPack, entries,
                     puts, opens, crashes, current, closed, flushed, torn>>
      /\ state = "open" /\ job.pc = "sync"
  BY DEF PutSync, packing, counts, history, At
<1>3. nodeFile' \in [Node -> Seq(Value)] /\ buffer' \in Seq(Value) /\ opened' \in BOOLEAN
  <2>1. WriteData \/ UNCHANGED <<nodeFile, buffer, opened>>
    BY DEF PutSync
  <2>2. <<>> \in Seq(Value)
    OBVIOUS
  <2> QED BY <1>1, <2>1, <2>2, WriteDataEffect DEF TypeOK
<1>4. /\ job' \in Jobs /\ job'.value = job.value /\ job'.next = job.next
      /\ \/ job'.pc = "size" /\ job'.then = job.then
         \/ job'.pc = "callback" /\ job'.then = "size"
  BY <1>1, GotoEffect, GotoThen DEF PutSync, Pcs, Thens
<1>5. TypeOK'
  BY <1>1, <1>2, <1>3, <1>4, TypesNext DEF TypeOK
<1>6. Phases'
  BY <1>1, <1>2, <1>4 DEF Phases, Storing
<1>7. Packs'
  BY <1>1, <1>2, <1>4 DEF Packs, Packing, Deleting
<1> QED BY <1>5, <1>6, <1>7 DEF Base

LEMMA PutSizeBase ==
    ASSUME Base, PutSize, use' = use
    PROVE  Base'
<1>1. TypeOK /\ Phases /\ Packs /\ job \in Jobs
  BY JobType DEF Base
<1>2. /\ UNCHANGED <<metaFile, nodeFile, metaCache, state, node, buffer, opened, held, buffered, fileMeta,
                     toPack, entries, puts, opens, crashes, current, closed, flushed, torn>>
      /\ state = "open" /\ job.pc = "size"
  BY DEF PutSize, disk, streams, packing, counts, history, At
<1>3. job.next \in Nexts
  BY <1>1 DEF Jobs
<1>4. /\ job' \in Jobs /\ job'.value = job.value /\ job'.next = job.next
      /\ \/ job'.pc = job.next /\ job'.then = job.then
         \/ job'.pc = "closeData" /\ job'.then = "newNode"
  BY <1>1, <1>3, GotoEffect, GotoThen DEF PutSize, Pcs, Thens, Nexts
<1>5. TypeOK'
  BY <1>1, <1>2, <1>4, TypesNext DEF TypeOK
<1>6. Phases'
  BY <1>1, <1>2, <1>3, <1>4 DEF Phases, Storing, Nexts
<1>7. Packs'
  BY <1>1, <1>2, <1>3, <1>4 DEF Packs, Packing, Deleting, Nexts
<1> QED BY <1>5, <1>6, <1>7 DEF Base

LEMMA CloseBase ==
    ASSUME Base, Close, use' = use
    PROVE  Base'
<1>1. TypeOK /\ Phases /\ Packs /\ job \in Jobs
  BY JobType DEF Base
<1>2. /\ UNCHANGED <<metaFile, nodeFile, metaCache, state, node, buffer, opened, held, buffered, fileMeta,
                     toPack, entries, puts, opens, crashes, current, closed, flushed, torn>>
      /\ state = "open" /\ job.pc = "idle" /\ job.next = "idle"
  BY <1>1 DEF Close, disk, streams, packing, counts, history, At, Phases
<1>3. /\ job' \in Jobs /\ job'.pc = "closeData" /\ job'.then = "closed" /\ job'.next = "idle"
  <2>1. job' = [pc |-> "closeData", value |-> Short, then |-> "closed", next |-> "idle"]
    BY DEF Close, NoJob
  <2> QED BY <1>1, <2>1, NewJob DEF Pcs, Thens, Nexts
<1>5. TypeOK'
  BY <1>1, <1>2, <1>3, TypesNext DEF TypeOK
<1>6. Phases'
  BY <1>1, <1>2, <1>3 DEF Phases, Storing
<1>7. Packs'
  BY <1>1, <1>2, <1>3 DEF Packs, Packing, Deleting
<1> QED BY <1>5, <1>6, <1>7 DEF Base

LEMMA CloseDataBase ==
    ASSUME Base, CloseData, use' = use
    PROVE  Base'
<1>1. TypeOK /\ Phases /\ Packs /\ job \in Jobs
  BY JobType DEF Base
<1>2. /\ UNCHANGED <<metaFile, metaCache, state, node, held, buffered, fileMeta, toPack, entries,
                     puts, opens, crashes, current, closed, flushed, torn>>
      /\ state = "open" /\ job.pc = "closeData"
  BY DEF CloseData, packing, counts, history, At
<1>3. nodeFile' \in [Node -> Seq(Value)] /\ buffer' = <<>> /\ opened' \in BOOLEAN
  BY <1>1, WriteDataEffect DEF CloseData
<1>4. /\ job' \in Jobs /\ job'.value = job.value /\ job'.next = job.next
      /\ job'.pc \in {"closeCallback", "closeMeta"} /\ job'.then = job.then
  BY <1>1, GotoEffect DEF CloseData, Pcs
<1>5. TypeOK'
  BY <1>1, <1>2, <1>3, <1>4, TypesNext DEF TypeOK
<1>6. Phases'
  BY <1>1, <1>2, <1>3, <1>4 DEF Phases, Storing
<1>7. Packs'
  BY <1>1, <1>2, <1>4 DEF Packs, Packing, Deleting
<1> QED BY <1>5, <1>6, <1>7 DEF Base

(* Closing the stream of metas empties it into the file and ends the member. *)
LEMMA CloseMetaEffect ==
    ASSUME TypeOK, metaFile[node] \in Seq(Token), CloseMeta
    PROVE  /\ metaFile' \in [Node -> Seq(Token) \union {None}] /\ metaFile'[node] \in Seq(Token)
           /\ metaFile'[node] = Append(metaFile[node] \o buffered \o held, End)
           /\ \A n \in Node : n # node => metaFile'[n] = metaFile[n]
<1>1. /\ metaFile \in [Node -> Seq(Token) \union {None}] /\ node \in Node
      /\ buffered \in Seq(Token) /\ held \in Seq(Token)
  BY DEF TypeOK
<1>2. End \in Token
  BY MetaLogAssumption DEF End, Token, Meta, Node
<1> DEFINE file == metaFile[node] \o buffered \o held
<1>3. file \in Seq(Token)
  BY <1>1
<1>4. metaFile' = [metaFile EXCEPT ![node] = file \o <<End>>]
  BY DEF CloseMeta
<1> HIDE DEF file
<1>5. file \o <<End>> = Append(file, End) /\ Append(file, End) \in Seq(Token)
  BY <1>2, <1>3
<1> QED BY <1>1, <1>4, <1>5 DEF file

LEMMA CloseMetaBase ==
    ASSUME Base, CloseMeta, use' = use
    PROVE  Base'
<1>1. TypeOK /\ Phases /\ Packs /\ job \in Jobs
  BY JobType DEF Base
<1>2. /\ UNCHANGED <<nodeFile, metaCache, state, node, buffer, opened, held, buffered, fileMeta, toPack, entries,
                     puts, opens, crashes, current, closed, flushed, torn>>
      /\ state = "open" /\ job.pc = "closeMeta" /\ job.then \in {"newNode", "closed"}
  BY <1>1 DEF CloseMeta, streams, packing, counts, history, At, Phases
<1>3. /\ metaFile' \in [Node -> Seq(Token) \union {None}] /\ metaFile'[node] \in Seq(Token)
      /\ \A n \in Node : n # node => metaFile'[n] = metaFile[n]
  BY <1>1, <1>2, CloseMetaEffect DEF Phases
<1>4. /\ job' \in Jobs /\ job'.value = job.value /\ job'.next = job.next
      /\ job'.pc = job.then /\ job'.then = job.then
  BY <1>1, <1>2, GotoEffect DEF CloseMeta, Pcs
<1>5. TypeOK'
  BY <1>1, <1>2, <1>3, <1>4, TypesNext DEF TypeOK
<1>6. Phases'
  BY <1>1, <1>2, <1>3, <1>4, NodeNat DEF Phases, Storing, TypeOK
<1>7. Packs'
  <2>1. job.then = "closed" => job.next = "idle"
    BY <1>1 DEF Phases
  <2> QED BY <1>1, <1>2, <1>3, <1>4, <2>1 DEF Packs, Packing, Deleting, TypeOK
<1> QED BY <1>5, <1>6, <1>7 DEF Base

LEMMA NewNodeBase ==
    ASSUME Base, NewNode, use' = use
    PROVE  Base'
<1>1. TypeOK /\ Phases /\ Packs /\ job \in Jobs
  BY JobType DEF Base
<1>2. /\ UNCHANGED <<nodeFile, metaCache, state, fileMeta, toPack, entries,
                     puts, opens, crashes, current, closed, flushed, torn>>
      /\ state = "open" /\ job.pc = "newNode" /\ node < MaxNode
      /\ node' = node + 1 /\ buffer' = <<>> /\ opened' = FALSE /\ held' = <<>> /\ buffered' = <<Header>>
      /\ metaFile' = [metaFile EXCEPT ![node + 1] = <<>>]
  BY DEF NewNode, OpenStreams, packing, counts, history, At
<1>3. node \in Node /\ node + 1 \in Node /\ node \in Nat
  BY <1>1, <1>2, MetaLogAssumption DEF TypeOK, Node
<1>4. /\ metaFile' \in [Node -> Seq(Token) \union {None}] /\ metaFile'[node'] = <<>>
      /\ \A n \in Node : n # node + 1 => metaFile'[n] = metaFile[n]
  BY <1>1, <1>2, <1>3 DEF TypeOK
<1>5. job.next \in Nexts
  BY <1>1 DEF Jobs
<1>6. /\ job' \in Jobs /\ job'.value = job.value /\ job'.next = job.next
      /\ job'.pc = job.next /\ job'.then = job.then
  BY <1>1, <1>5, GotoEffect DEF NewNode, Pcs, Nexts
<1>7. Header \in Token
  BY MetaLogAssumption DEF Header, Token, Meta, Node
<1>8. TypeOK'
  <2>1. buffer' \in Seq(Value) /\ held' \in Seq(Token) /\ buffered' \in Seq(Token)
    BY <1>2, <1>7
  <2> QED BY <1>1, <1>2, <1>3, <1>4, <1>6, <2>1, TypesNext DEF TypeOK
<1>9. Phases'
  <2>1. \A n \in Node : node' < n => metaFile'[n] = None
    BY <1>1, <1>2, <1>3, <1>4, NodeNat DEF Phases
  <2> QED BY <1>1, <1>2, <1>4, <1>5, <1>6, <2>1 DEF Phases, Storing, Nexts
<1>10. Packs'
  <2>1. \A n \in toPack : n \in Node /\ n <= node /\ n < node' /\ metaFile[n] \in Seq(Token)
    <3>1. \A n \in toPack : n <= node /\ metaFile[n] \in Seq(Token)
      BY <1>1, <1>2 DEF Packs
    <3>2. \A n \in toPack : n \in Node /\ n \in Nat
      BY <1>1, NodeNat DEF TypeOK
    <3> QED BY <1>2, <1>3, <3>1, <3>2
  <2>2. \A n \in toPack : n <= node' /\ metaFile'[n] = metaFile[n]
    <3> TAKE n \in toPack
    <3>1. n \in Nat /\ n <= node /\ n \in Node
      BY <2>1, NodeNat
    <3>2. n <= node + 1 /\ n # node + 1
      BY <1>3, <3>1
    <3> QED BY <1>2, <1>4, <3>1, <3>2
  <2> QED BY <1>1, <1>2, <1>5, <1>6, <2>1, <2>2 DEF Packs, Packing, Deleting, Nexts
<1> QED BY <1>8, <1>9, <1>10 DEF Base

LEMMA ClosedBase ==
    ASSUME Base, Closed, use' = use
    PROVE  Base'
<1>1. TypeOK /\ Phases /\ Packs /\ job \in Jobs
  BY JobType DEF Base
<1>2. /\ UNCHANGED <<metaFile, nodeFile, node, toPack, entries, puts, opens, crashes, current, flushed, torn>>
      /\ state = "open" /\ state' = "closed" /\ job.pc = "closed" /\ job' = NoJob
      /\ fileMeta' = NoMetas /\ buffer' = <<>> /\ opened' = FALSE /\ held' = <<>> /\ buffered' = <<>>
      /\ metaCache' \in {metaCache, [n \in Node |-> None]} /\ closed' \in {closed, current}
  BY DEF Closed, packing, counts, At
<1>3. NoJob \in Jobs /\ NoJob.pc = "idle" /\ NoJob.then = "idle" /\ NoJob.next = "idle"
  BY <1>1, NoJobType DEF TypeOK
<1>4. toPack = {} /\ entries = NoMetas
  BY <1>1, <1>2 DEF Phases, Packs, Packing
<1>5. NoMetas \in [Keys -> Token \union {None}]
  BY DEF NoMetas
<1>6. metaCache' \in [Node -> [Keys -> Token \union {None}] \union {None}]
  BY <1>1, <1>2 DEF TypeOK
<1>7. TypeOK'
  <2>1. buffer' \in Seq(Value) /\ held' \in Seq(Token) /\ buffered' \in Seq(Token)
    BY <1>2
  <2> QED BY <1>1, <1>2, <1>3, <1>5, <1>6, <2>1, TypesNext DEF TypeOK
<1>8. Phases'
  BY <1>2, <1>3, <1>4 DEF Phases, Storing
<1>9. Packs'
  BY <1>2, <1>3, <1>4 DEF Packs, Packing, Deleting
<1> QED BY <1>7, <1>8, <1>9 DEF Base

LEMMA RemoveBase ==
    ASSUME Base, NEW k \in Keys, Remove(k), use' = use
    PROVE  Base'
<1>1. TypeOK /\ Phases /\ Packs /\ job \in Jobs
  BY JobType DEF Base
<1>2. /\ UNCHANGED <<nodeFile, state, node, buffer, opened, job, toPack, entries, puts, opens, crashes, torn>>
      /\ state = "open" /\ job.pc = "idle" /\ fileMeta[k] # None
  BY DEF Remove, packing, counts, At
<1> DEFINE m == [fileMeta[k] EXCEPT !.flag = "delete"]
<1>3. m \in Token
  <2>1. fileMeta[k] \in Token
    BY <1>1, <1>2 DEF TypeOK
  <2> QED BY MetaLogAssumption, <2>1 DEF Token, Meta, Header, End, Node
<1>4. /\ WriteMeta(m) /\ fileMeta' = [fileMeta EXCEPT ![k] = None]
      /\ metaCache' = [n \in Node |->
                  IF metaCache[n] = None \/ metaCache[n][k] # fileMeta[k]
                  THEN metaCache[n] ELSE [metaCache[n] EXCEPT ![k] = m]]
      /\ current' = [current EXCEPT ![k] = 0] /\ closed' = [closed EXCEPT ![k] = 0]
      /\ flushed' = [flushed EXCEPT ![k] = 0]
  BY DEF Remove
<1> HIDE DEF m
<1>5. /\ metaFile' \in [Node -> Seq(Token) \union {None}] /\ metaFile'[node] \in Seq(Token)
      /\ \A n \in Node : n # node => metaFile'[n] = metaFile[n]
      /\ buffered' \in Seq(Token) /\ held' \in Seq(Token)
  BY <1>1, <1>2, <1>3, <1>4, WriteMetaEffect DEF Phases
<1>6. metaCache' \in [Node -> [Keys -> Token \union {None}] \union {None}]
  <2>1. ASSUME NEW n \in Node PROVE metaCache'[n] \in [Keys -> Token \union {None}] \union {None}
    <3>1. metaCache[n] \in [Keys -> Token \union {None}] \union {None}
      BY <1>1 DEF TypeOK
    <3>2. metaCache[n] # None => [metaCache[n] EXCEPT ![k] = m] \in [Keys -> Token \union {None}]
      BY <1>3, <3>1
    <3>3. metaCache'[n] = metaCache[n]
          \/ (metaCache[n] # None /\ metaCache'[n] = [metaCache[n] EXCEPT ![k] = m])
      BY <1>4
    <3> QED BY <3>1, <3>2, <3>3
  <2>2. metaCache' = [n \in Node |-> metaCache'[n]]
    BY <1>4
  <2> QED BY <2>1, <2>2
<1>7. 0 \in 0 .. use.maxPuts
  BY <1>1, UseTypes DEF TypeOK
<1>8. /\ current' \in [Keys -> 0 .. use.maxPuts \union {None}]
      /\ closed' \in [Keys -> 0 .. use.maxPuts \union {None}]
      /\ flushed' \in [Keys -> 0 .. use.maxPuts \union {None}]
      /\ fileMeta' \in [Keys -> Token \union {None}]
  BY <1>1, <1>4, <1>7 DEF TypeOK
<1>9. TypeOK'
  BY <1>1, <1>2, <1>5, <1>6, <1>8, TypesNext DEF TypeOK
<1>10. Phases'
  BY <1>1, <1>2, <1>5, NodeNat DEF Phases, Storing, TypeOK
<1>11. Packs'
  BY <1>1, <1>2, <1>5 DEF Packs, Packing, Deleting, TypeOK
<1> QED BY <1>9, <1>10, <1>11 DEF Base

LEMMA FlushBase ==
    ASSUME Base, Flush, use' = use
    PROVE  Base'
<1>1. TypeOK /\ Phases /\ Packs /\ job \in Jobs
  BY JobType DEF Base
<1>2. /\ UNCHANGED <<metaFile, metaCache, state, node, held, buffered, fileMeta, toPack, entries,
                     puts, opens, crashes, current, closed, flushed, torn>>
      /\ state = "open" /\ job.pc = "idle" /\ job.next = "idle"
  BY <1>1 DEF Flush, packing, counts, history, At, Phases
<1>3. nodeFile' \in [Node -> Seq(Value)] /\ buffer' = <<>> /\ opened' \in BOOLEAN
  BY <1>1, WriteDataEffect DEF Flush
<1>4. /\ job' \in Jobs /\ job'.pc = "callback" /\ job'.then = "idle" /\ job'.next = "idle"
  <2>1. job' = [pc |-> "callback", value |-> Short, then |-> "idle", next |-> "idle"]
    BY DEF Flush, NoJob
  <2> QED BY <1>1, <2>1, NewJob DEF Pcs, Thens, Nexts
<1>5. TypeOK'
  BY <1>1, <1>2, <1>3, <1>4, TypesNext DEF TypeOK
<1>6. Phases'
  BY <1>1, <1>2, <1>4 DEF Phases, Storing
<1>7. Packs'
  BY <1>1, <1>2, <1>4 DEF Packs, Packing, Deleting
<1> QED BY <1>5, <1>6, <1>7 DEF Base

LEMMA PackBase ==
    ASSUME Base, Pack, use' = use
    PROVE  Base'
<1>1. TypeOK /\ Phases /\ Packs /\ job \in Jobs
  BY JobType DEF Base
<1>2. /\ UNCHANGED <<metaFile, nodeFile, metaCache, state, node, buffer, opened, held, buffered, fileMeta,
                     entries, puts, opens, crashes, current, closed, flushed, torn>>
      /\ state = "open" /\ job.pc = "idle" /\ job.next = "idle" /\ toPack' = MetaNodes
  BY <1>1 DEF Pack, disk, streams, counts, history, At, Phases
<1>3. /\ job' \in Jobs /\ job'.pc = "closeData" /\ job'.then = "newNode" /\ job'.next = "readMeta"
  <2>1. job' = [pc |-> "closeData", value |-> Short, then |-> "newNode", next |-> "readMeta"]
    BY DEF Pack, NoJob
  <2> QED BY <1>1, <2>1, NewJob DEF Pcs, Thens, Nexts
<1>4. /\ MetaNodes \subseteq Node
      /\ \A n \in MetaNodes : n <= node /\ metaFile[n] \in Seq(Token)
  <2>1. \A n \in MetaNodes : n \in Node /\ metaFile[n] # None /\ metaFile[n] \in Seq(Token)
    BY <1>1 DEF MetaNodes, TypeOK
  <2>2. \A n \in MetaNodes : ~(node < n)
    BY <1>1, <1>2, <2>1 DEF Phases
  <2>3. \A n \in MetaNodes : n \in Nat /\ node \in Nat
    BY <1>1, <2>1, NodeNat DEF TypeOK
  <2> QED BY <2>1, <2>2, <2>3
<1>5. TypeOK'
  BY <1>1, <1>2, <1>3, <1>4, TypesNext DEF TypeOK
<1>6. Phases'
  BY <1>1, <1>2, <1>3 DEF Phases, Storing
<1>7. Packs'
  BY <1>1, <1>2, <1>3, <1>4 DEF Packs, Packing, Deleting
<1> QED BY <1>5, <1>6, <1>7 DEF Base

LEMMA PackReadMetaBase ==
    ASSUME Base, PackReadMeta, use' = use
    PROVE  Base'
<1>1. TypeOK /\ Phases /\ Packs /\ job \in Jobs
  BY JobType DEF Base
<1>2. /\ UNCHANGED <<nodeFile, state, node, buffer, opened, held, buffered, fileMeta,
                     toPack, puts, opens, crashes, current, closed, flushed>>
      /\ state = "open" /\ job.pc = "readMeta"
  BY DEF PackReadMeta, streams, counts, At
<1>3. CASE toPack = {}
  <2>1. /\ job' = NoJob /\ UNCHANGED <<metaFile, metaCache, entries, torn>>
        /\ NoJob \in Jobs /\ NoJob.pc = "idle" /\ NoJob.then = "idle" /\ NoJob.next = "idle"
    BY <1>1, <1>3, NoJobType DEF PackReadMeta, TypeOK
  <2>2. entries = NoMetas
    BY <1>1, <1>2 DEF Packs
  <2>3. TypeOK'
    BY <1>1, <1>2, <2>1, TypesNext DEF TypeOK
  <2>4. Phases'
    BY <1>1, <1>2, <2>1 DEF Phases, Storing
  <2>5. Packs'
    BY <1>1, <1>2, <1>3, <2>1, <2>2 DEF Packs, Packing, Deleting
  <2> QED BY <2>3, <2>4, <2>5 DEF Base
<1>4. CASE toPack # {}
  <2> DEFINE f == First(toPack)
  <2>1. f \in toPack /\ f \in Node
    BY <1>1, <1>4, FirstNode DEF TypeOK
  <2>2. entries' = ReadMeta(f) /\ AfterReading({f}) /\ Goto("entry")
    BY <1>4 DEF PackReadMeta
  <2> HIDE DEF f
  <2>3. /\ job' \in Jobs /\ job'.pc = "entry" /\ job'.value = job.value
        /\ job'.then = job.then /\ job'.next = job.next
    BY <1>1, <2>2, GotoEffect DEF Pcs
  <2>4. \A n \in toPack : n \in Node /\ metaFile[n] \in Seq(Token)
    BY <1>1, <1>2 DEF Packs, TypeOK
  <2>5. ReadMeta(f) \in [Keys -> Token \union {None}]
    BY <1>1, <2>1, <2>4, ReadMetaType
  <2>6. /\ metaFile' \in [Node -> Seq(Token) \union {None}]
        /\ \A n \in Node : n # f => metaFile'[n] = metaFile[n]
        /\ \A n \in Node : metaFile[n] \in Seq(Token) => metaFile'[n] \in Seq(Token)
        /\ metaCache' \in [Node -> [Keys -> Token \union {None}] \union {None}]
        /\ torn' \in BOOLEAN
    BY <1>1, <2>1, <2>2, <2>4, AfterReadingEffect
  <2>7. TypeOK'
    BY <1>1, <1>2, <2>2, <2>3, <2>5, <2>6, TypesNext DEF TypeOK
  <2>8. f < node /\ ~(node < f)
    <3>1. f < node
      BY <1>1, <1>2, <2>1 DEF Packs, Deleting
    <3>2. f \in Nat /\ node \in Nat
      BY <1>1, <2>1, NodeNat DEF TypeOK
    <3> QED BY <3>1, <3>2
  <2>9. Phases'
    BY <1>1, <1>2, <2>3, <2>6, <2>8 DEF Phases, Storing, TypeOK
  <2>10. Packs'
    BY <1>1, <1>2, <1>4, <2>3, <2>4, <2>6 DEF Packs, Packing, Deleting
  <2> QED BY <2>7, <2>9, <2>10 DEF Base
<1> QED BY <1>3, <1>4

LEMMA PackEntryBase ==
    ASSUME Base, NEW k \in Keys, PackEntry(k), use' = use
    PROVE  Base'
<1>1. TypeOK /\ Phases /\ Packs /\ job \in Jobs
  BY JobType DEF Base
<1>2. /\ UNCHANGED <<metaFile, metaCache, state, node, held, buffered, fileMeta,
                     toPack, puts, opens, crashes, current, closed, flushed, torn>>
      /\ state = "open" /\ job.pc = "entry" /\ entries[k] # None
      /\ entries' = [entries EXCEPT ![k] = None]
  BY DEF PackEntry, counts, history, At
<1>3. entries[k] \in Token /\ entries' \in [Keys -> Token \union {None}]
  BY <1>1, <1>2 DEF TypeOK
<1>4. entries[k].node \in Node /\ nodeFile[entries[k].node] \in Seq(Value)
  <2>1. entries[k].node \in Node
    BY <1>3, TokenFields
  <2> QED BY <1>1, <2>1 DEF TypeOK
<1>5. CASE entries[k].flag = "normal" /\ fileMeta[k] = entries[k]
  <2> DEFINE v == [key |-> k, put |-> Content(entries[k], nodeFile[entries[k].node])]
  <2>1. Write(v, "entry")
    BY <1>5 DEF PackEntry
  <2>2. Content(entries[k], nodeFile[entries[k].node]) \in 0 .. use.maxPuts \union {None}
    BY <1>1, <1>3, <1>4, ContentType
  <2>3. v \in Value /\ v.key = k
    BY <2>2 DEF Value
  <2> HIDE DEF v
  <2>4. /\ job' \in Jobs /\ job'.pc \in {"callback", "meta"} /\ job'.value = v
        /\ job'.then = "meta" /\ job'.next = "entry"
        /\ nodeFile' \in [Node -> Seq(Value)] /\ buffer' \in Seq(Value) /\ opened' \in BOOLEAN
        /\ buffer' # <<>> /\ buffer'[Len(buffer')] = v
    BY <1>1, <2>1, <2>3, WriteEffect DEF Nexts
  <2>5. TypeOK'
    BY <1>1, <1>2, <1>3, <2>4, TypesNext DEF TypeOK
  <2>6. Phases'
    BY <1>1, <1>2, <2>3, <2>4 DEF Phases, Storing
  <2>7. Packs'
    BY <1>1, <1>2, <2>4 DEF Packs, Packing, Deleting
  <2> QED BY <2>5, <2>6, <2>7 DEF Base
<1>6. CASE ~(entries[k].flag = "normal" /\ fileMeta[k] = entries[k])
  <2>1. UNCHANGED <<nodeFile, buffer, opened, job>>
    BY <1>6 DEF PackEntry
  <2>2. TypeOK'
    BY <1>1, <1>2, <1>3, <2>1, TypesNext DEF TypeOK
  <2>3. Phases'
    BY <1>1, <1>2, <2>1 DEF Phases, Storing
  <2>4. Packs'
    BY <1>1, <1>2, <2>1 DEF Packs, Packing, Deleting
  <2> QED BY <2>2, <2>3, <2>4 DEF Base
<1> QED BY <1>5, <1>6

LEMMA PackDeleteMetaBase ==
    ASSUME Base, PackDeleteMeta, use' = use
    PROVE  Base'
<1>1. TypeOK /\ Phases /\ Packs /\ job \in Jobs
  BY JobType DEF Base
<1> DEFINE f == First(toPack)
<1>2. /\ UNCHANGED <<nodeFile, metaCache, state, node, buffer, opened, held, buffered, fileMeta,
                     toPack, entries, puts, opens, crashes, current, closed, flushed, torn>>
      /\ state = "open" /\ job.pc = "entry" /\ entries = NoMetas
      /\ metaFile' = [metaFile EXCEPT ![f] = None] /\ Goto("deleteNode")
  BY DEF PackDeleteMeta, streams, packing, counts, history, At
<1>3. toPack # {} /\ f \in toPack /\ f \in Node /\ f < node
  BY <1>1, <1>2, FirstNode DEF Packs, Deleting, TypeOK
<1>4. /\ job' \in Jobs /\ job'.pc = "deleteNode" /\ job'.value = job.value
      /\ job'.then = job.then /\ job'.next = job.next
  BY <1>1, <1>2, GotoEffect DEF Pcs
<1>5. f' = f
  BY <1>2
<1> HIDE DEF f
<1>6. /\ metaFile' \in [Node -> Seq(Token) \union {None}] /\ metaFile'[f] = None
      /\ \A n \in Node : n # f => metaFile'[n] = metaFile[n]
  BY <1>1, <1>2, <1>3 DEF TypeOK
<1>7. f # node /\ ~(node < f) /\ node \in Node
  <2>1. f \in Nat /\ node \in Nat
    BY <1>1, <1>3, NodeNat DEF TypeOK
  <2> QED BY <1>1, <1>3, <2>1 DEF TypeOK
<1>8. TypeOK'
  BY <1>1, <1>2, <1>4, <1>6, TypesNext DEF TypeOK
<1>9. Phases'
  BY <1>1, <1>2, <1>4, <1>6, <1>7 DEF Phases, Storing
<1>10. Packs'
  <2>1. \A n \in toPack : n \in Node /\ metaFile[n] \in Seq(Token)
    BY <1>1, <1>2 DEF Packs, TypeOK
  <2>2. \A n \in toPack' : metaFile'[n] \in Seq(Token) \/ (job'.pc = "deleteNode" /\ n = First(toPack)')
    BY <1>2, <1>4, <1>5, <1>6, <2>1 DEF f
  <2>3. metaFile'[First(toPack)'] = None
    BY <1>5, <1>6 DEF f
  <2> QED BY <1>1, <1>2, <1>3, <1>4, <2>2, <2>3 DEF Packs, Packing, Deleting
<1> QED BY <1>8, <1>9, <1>10 DEF Base

LEMMA PackDeleteNodeBase ==
    ASSUME Base, PackDeleteNode, use' = use
    PROVE  Base'
<1>1. TypeOK /\ Phases /\ Packs /\ job \in Jobs
  BY JobType DEF Base
<1> DEFINE f == First(toPack)
<1>2. /\ UNCHANGED <<metaFile, metaCache, state, node, buffer, opened, held, buffered, fileMeta,
                     entries, puts, opens, crashes, current, closed, flushed, torn>>
      /\ state = "open" /\ job.pc = "deleteNode"
      /\ nodeFile' = [nodeFile EXCEPT ![f] = <<>>] /\ toPack' = toPack \ {f} /\ Goto("readMeta")
  BY DEF PackDeleteNode, streams, counts, history, At
<1>3. /\ job' \in Jobs /\ job'.pc = "readMeta" /\ job'.value = job.value
      /\ job'.then = job.then /\ job'.next = job.next
  BY <1>1, <1>2, GotoEffect DEF Pcs
<1>8. f \in toPack /\ f \in Node
  BY <1>1, <1>2, FirstNode DEF Packs, TypeOK
<1> HIDE DEF f
<1>4. nodeFile' \in [Node -> Seq(Value)]
  <2>1. nodeFile \in [Node -> Seq(Value)] /\ <<>> \in Seq(Value)
    BY <1>1 DEF TypeOK
  <2> QED BY <1>2, <1>8, <2>1
<1>5. TypeOK'
  BY <1>1, <1>2, <1>3, <1>4, TypesNext DEF TypeOK
<1>6. Phases'
  BY <1>1, <1>2, <1>3 DEF Phases, Storing
<1>7. Packs'
  <2>1. \A n \in toPack' : n \in toPack /\ n <= node /\ n < node /\ metaFile[n] \in Seq(Token)
    BY <1>1, <1>2 DEF Packs, Deleting, f
  <2> QED BY <1>1, <1>2, <1>3, <2>1 DEF Packs, Packing, Deleting
<1> QED BY <1>5, <1>6, <1>7 DEF Base

LEMMA CrashBase ==
    ASSUME Base, Crash, use' = use
    PROVE  Base'
<1>1. TypeOK /\ Phases /\ Packs /\ job \in Jobs
  BY JobType DEF Base
<1>2. /\ UNCHANGED <<metaFile, nodeFile, node, puts, opens, current, closed, flushed, torn>>
      /\ state' = "crashed" /\ metaCache' = [n \in Node |-> None]
      /\ fileMeta' = NoMetas /\ buffer' = <<>> /\ opened' = FALSE /\ held' = <<>> /\ buffered' = <<>>
      /\ job' = NoJob /\ toPack' = {} /\ entries' = NoMetas
  BY DEF Crash, history
<1>3. NoJob \in Jobs /\ NoJob.pc = "idle" /\ NoJob.then = "idle" /\ NoJob.next = "idle"
  BY <1>1, NoJobType DEF TypeOK
<1>4. NoMetas \in [Keys -> Token \union {None}]
  BY DEF NoMetas
<1>5. crashes' \in 0 .. use.maxCrashes
  BY <1>1, UseTypes DEF Crash, TypeOK
<1>6. TypeOK'
  <2>1. /\ buffer' \in Seq(Value) /\ held' \in Seq(Token) /\ buffered' \in Seq(Token)
        /\ metaCache' \in [Node -> [Keys -> Token \union {None}] \union {None}]
    BY <1>2
  <2> QED BY <1>1, <1>2, <1>3, <1>4, <1>5, <2>1, TypesNext DEF TypeOK
<1>7. Phases'
  BY <1>2, <1>3 DEF Phases, Storing
<1>8. Packs'
  BY <1>2, <1>3 DEF Packs, Packing, Deleting
<1> QED BY <1>6, <1>7, <1>8 DEF Base

LEMMA StutterBase ==
    ASSUME Base, UNCHANGED vars
    PROVE  Base'
<1>1. /\ UNCHANGED <<use, metaFile, nodeFile, metaCache, state, node, buffer, opened, held, buffered, fileMeta, job>>
      /\ UNCHANGED <<toPack, entries, puts, opens, crashes, current, closed, flushed, torn>>
  BY DEF vars, disk, streams, packing, counts, history
<1>2. TypeOK /\ Phases /\ Packs /\ job \in Jobs
  BY JobType DEF Base
<1>3. TypeOK'
  BY <1>1, <1>2, TypesNext DEF TypeOK
<1>4. Phases'
  BY <1>1, <1>2 DEF Phases, Storing
<1>5. Packs'
  BY <1>1, <1>2 DEF Packs, Packing, Deleting
<1> QED BY <1>3, <1>4, <1>5 DEF Base

LEMMA StepBase == Base /\ [Next]_vars => Base'
<1> SUFFICES ASSUME Base, [Next]_vars PROVE Base'
  OBVIOUS
<1>1. CASE Next
  <2>1. use' = use /\ Step
    BY <1>1 DEF Next
  <2> QED BY <2>1, OpenBase, OpenFailsBase, CrashBase, PutBase, RemoveBase, PackEntryBase,
             CallbackBase, PutMetaBase, PutSyncBase, PutSizeBase, CloseBase, CloseDataBase,
             CloseMetaBase, NewNodeBase, ClosedBase, FlushBase, PackBase, PackReadMetaBase,
             PackDeleteMetaBase, PackDeleteNodeBase DEF Step
<1>2. CASE UNCHANGED vars
  BY <1>2, StutterBase
<1> QED BY <1>1, <1>2

LEMMA BaseInvariant == Spec => []Base
<1> QED BY InitBase, StepBase, PTL DEF Spec

(* In every state each field has what the code keeps in it.                *)
THEOREM MetaLogTypeCorrect == Spec => []TypeOK
<1>1. Base => TypeOK
  BY DEF Base
<1> QED BY <1>1, BaseInvariant, PTL

-----------------------------------------------------------------------------
(* Metas and their data *)

(* The tokens of a sequence. *)
Tokens(s) == {s[i] : i \in 1 .. Len(s)}

LEMMA TokensConcat ==
    ASSUME NEW s \in Seq(Token), NEW t \in Seq(Token)
    PROVE  Tokens(s \o t) = Tokens(s) \union Tokens(t)
<1>1. ASSUME NEW i \in 1 .. Len(s \o t) PROVE (s \o t)[i] \in Tokens(s) \union Tokens(t)
  <2>1. CASE i <= Len(s)
    BY <2>1 DEF Tokens
  <2>2. CASE i > Len(s)
    <3>1. (s \o t)[i] = t[i - Len(s)] /\ i - Len(s) \in 1 .. Len(t)
      BY <2>2
    <3> QED BY <3>1 DEF Tokens
  <2> QED BY <2>1, <2>2
<1>2. ASSUME NEW i \in 1 .. Len(s) PROVE s[i] \in Tokens(s \o t)
  <2>1. (s \o t)[i] = s[i] /\ i \in 1 .. Len(s \o t)
    OBVIOUS
  <2> QED BY <2>1 DEF Tokens
<1>3. ASSUME NEW i \in 1 .. Len(t) PROVE t[i] \in Tokens(s \o t)
  <2>1. (s \o t)[Len(s) + i] = t[i] /\ Len(s) + i \in 1 .. Len(s \o t)
    OBVIOUS
  <2> QED BY <2>1 DEF Tokens
<1> QED BY <1>1, <1>2, <1>3 DEF Tokens

LEMMA TokensAppend ==
    ASSUME NEW s \in Seq(Token), NEW t \in Token
    PROVE  Tokens(Append(s, t)) = Tokens(s) \union {t}
<1>1. Append(s, t) = s \o <<t>> /\ <<t>> \in Seq(Token)
  OBVIOUS
<1>2. Tokens(<<t>>) = {t}
  BY DEF Tokens
<1> QED BY <1>1, <1>2, TokensConcat

LEMMA RecordsTokens ==
    ASSUME NEW file \in Seq(Token), NEW k \in Keys, Records(file)[k] # None
    PROVE  /\ Records(file)[k] \in Tokens(file) /\ Records(file)[k] \in Token
           /\ Records(file)[k].flag = "normal" /\ Records(file)[k].key = k
<1>1. PICK i \in Normal(file, k) : Records(file)[k] = file[i]
  BY RecordsType
<1>2. i \in 1 .. Len(file) /\ file[i].flag = "normal" /\ file[i].key = k
  BY DEF Normal, Readable
<1> QED BY <1>1, <1>2 DEF Tokens

LEMMA CorrectedTokens ==
    ASSUME TypeOK, NEW file \in Seq(Token)
    PROVE  Tokens(Corrected(file)) \subseteq Tokens(file)
<1>1. /\ Corrected(file) \in Seq(Token) /\ Len(Corrected(file)) <= Len(file)
      /\ \A i \in 1 .. Len(Corrected(file)) : Corrected(file)[i] = file[i]
  BY CorrectedType
<1>2. 1 .. Len(Corrected(file)) \subseteq 1 .. Len(file)
  BY <1>1
<1> QED BY <1>1, <1>2 DEF Tokens

(* The bytes the meta points to are there, and are those of a put of its key. *)
HasValue(m, file) ==
    m.off < Len(file) /\ file[m.off + 1].key = m.key /\ file[m.off + 1].put # None

LEMMA ValueStays ==
    ASSUME NEW m \in Token, NEW f \in Seq(Value), NEW g \in Seq(Value), HasValue(m, f)
    PROVE  HasValue(m, f \o g)
<1>1. m.off \in Nat /\ m.off < Len(f)
  BY DEF Token, Meta, Header, End, HasValue
<1>2. (f \o g)[m.off + 1] = f[m.off + 1] /\ m.off < Len(f \o g)
  BY <1>1
<1> QED BY <1>2 DEF HasValue

(* What a node has, in its file and in the buffer. *)
Data(n) == IF n = node THEN nodeFile[n] \o buffer ELSE nodeFile[n]

LEMMA DataType ==
    ASSUME TypeOK, NEW n \in Node
    PROVE  Data(n) \in Seq(Value) /\ nodeFile[n] \in Seq(Value)
<1>1. nodeFile[n] \in Seq(Value) /\ buffer \in Seq(Value)
  BY DEF TypeOK
<1> QED BY <1>1 DEF Data

LEMMA InData ==
    ASSUME TypeOK, NEW m \in Token, HasValue(m, nodeFile[m.node])
    PROVE  HasValue(m, Data(m.node))
<1>1. m.node \in Node
  BY TokenFields
<1>2. nodeFile[m.node] \in Seq(Value) /\ buffer \in Seq(Value)
  BY <1>1 DEF TypeOK
<1> QED BY <1>2, ValueStays DEF Data

Saved(m) == HasValue(m, nodeFile[m.node])

Known(m) == HasValue(m, Data(m.node))

(* With synchronous writing and without pack, the metas on disk and on the *)
(* way there point to data on disk, but for the last put while its value   *)
(* is in the buffer.                                                       *)
Placed ==
    /\ \A n \in Node : metaFile[n] \in Seq(Token) =>
           \A m \in Tokens(metaFile[n]) : IsRecord(m) => Saved(m)
    /\ \A n \in Node : metaCache[n] # None =>
           \A k \in Keys : \A m \in Token : metaCache[n][k] = m => Saved(m)
    /\ \A m \in Tokens(buffered) \union Tokens(held) : IsRecord(m) =>
           IF job.pc = "sync" THEN Known(m) ELSE Saved(m)
    /\ \A k \in Keys : \A m \in Token : fileMeta[k] = m => Known(m)
    /\ job.pc \notin {"meta", "sync"} => buffer = <<>>
    /\ job.pc = "callback" => job.then # "meta"
    /\ job.pc = "meta" => job.value.put # None
    /\ ~Packing

Synchronous == use.sync /\ "pack" \notin use.calls

(* Nothing that Placed is about has changed. *)
LEMMA PlacedSame ==
    ASSUME Placed, UNCHANGED <<metaFile, metaCache, nodeFile, node, buffer, held, buffered, fileMeta>>,
           job.pc # "meta", job.pc # "sync", job'.pc \notin {"meta", "sync"},
           job'.pc = "callback" => job'.then # "meta", ~Packing'
    PROVE  Placed'
<1>1. \A m : (Saved(m)' <=> Saved(m)) /\ (Known(m)' <=> Known(m))
  BY DEF Saved, Known, Data, HasValue
<1> QED BY <1>1 DEF Placed

LEMMA WriteMetaTokens ==
    ASSUME TypeOK, metaFile[node] \in Seq(Token), NEW m \in Token, WriteMeta(m)
    PROVE  /\ Tokens(metaFile'[node]) \subseteq Tokens(metaFile[node]) \union Tokens(buffered)
           /\ Tokens(buffered') \union Tokens(held')
                 \subseteq Tokens(buffered) \union Tokens(held) \union {m}
<1>1. buffered \in Seq(Token) /\ held \in Seq(Token)
  BY DEF TypeOK
<1>2. /\ buffered' \in Seq(Token) /\ held' \in Seq(Token)
      /\ \/ metaFile'[node] = metaFile[node] /\ buffered' \o held' = Append(buffered \o held, m)
         \/ metaFile'[node] = metaFile[node] \o buffered /\ buffered' \o held' = Append(held, m)
  BY WriteMetaEffect
<1>3. /\ Tokens(metaFile[node] \o buffered) = Tokens(metaFile[node]) \union Tokens(buffered)
      /\ Tokens(buffered \o held) = Tokens(buffered) \union Tokens(held)
      /\ Tokens(buffered' \o held') = Tokens(buffered') \union Tokens(held')
  BY <1>1, <1>2, TokensConcat
<1>4. /\ Tokens(Append(buffered \o held, m)) = Tokens(buffered \o held) \union {m}
      /\ Tokens(Append(held, m)) = Tokens(held) \union {m}
  <2>1. buffered \o held \in Seq(Token)
    BY <1>1
  <2> QED BY <1>1, <2>1, TokensAppend
<1>5. CASE metaFile'[node] = metaFile[node] /\ buffered' \o held' = Append(buffered \o held, m)
  <2>1. Tokens(buffered') \union Tokens(held') = Tokens(buffered) \union Tokens(held) \union {m}
    BY <1>3, <1>4, <1>5, Zenon
  <2>2. Tokens(metaFile'[node]) = Tokens(metaFile[node])
    BY <1>5, Zenon
  <2> QED BY <2>1, <2>2
<1>6. CASE metaFile'[node] = metaFile[node] \o buffered /\ buffered' \o held' = Append(held, m)
  <2>1. Tokens(buffered') \union Tokens(held') = Tokens(held) \union {m}
    BY <1>3, <1>4, <1>6, Zenon
  <2>2. Tokens(metaFile'[node]) = Tokens(metaFile[node]) \union Tokens(buffered)
    BY <1>3, <1>6, Zenon
  <2> QED BY <2>1, <2>2
<1> QED BY <1>2, <1>5, <1>6

LEMMA NoTokens == Tokens(<<>>) = {}
BY DEF Tokens

LEMMA HeaderIs == Header \in Token /\ ~IsRecord(Header) /\ Tokens(<<Header>>) = {Header}
<1>1. Header \in Token
  BY MetaLogAssumption DEF Header, Token, Meta, Node
<1>2. ~IsRecord(Header)
  BY DEF Header, IsRecord
<1>3. Tokens(<<Header>>) = {Header}
  <2> DEFINE t == Header
  <2>1. Tokens(<<t>>) = {t}
    <3> HIDE DEF t
    <3> QED BY DEF Tokens
  <2> QED BY <2>1
<1> QED BY <1>1, <1>2, <1>3

LEMMA EndIs == End \in Token /\ ~IsRecord(End)
BY MetaLogAssumption DEF End, Token, Meta, Node, IsRecord

(* Where a value is and what a node has depend on the data alone. *)
LEMMA DataSame ==
    ASSUME UNCHANGED <<nodeFile, node, buffer>>
    PROVE  \A m : (Saved(m)' <=> Saved(m)) /\ (Known(m)' <=> Known(m))
BY DEF Saved, Known, Data, HasValue

LEMMA InitPlaced == Init => Placed
<1> SUFFICES ASSUME Init PROVE Placed
  OBVIOUS
<1>1. /\ buffered = <<>> /\ held = <<>> /\ buffer = <<>> /\ fileMeta = NoMetas
      /\ metaCache = [n \in Node |-> None] /\ job = NoJob
      /\ \A n \in Node : metaFile[n] \in {<<>>, None}
  BY DEF Init
<1>2. \A n \in Node : metaFile[n] \in Seq(Token) => Tokens(metaFile[n]) = {}
  <2> TAKE n \in Node
  <2>1. CASE metaFile[n] = <<>>
    BY <2>1, NoTokens
  <2>2. CASE metaFile[n] = None
    BY <2>2, NoneAssumption
  <2> QED BY <1>1, <2>1, <2>2
<1>3. \A k \in Keys : fileMeta[k] = None /\ None \notin Token
  BY <1>1, NoneAssumption DEF NoMetas
<1>4. job.pc = "idle" /\ job.next = "idle"
  BY <1>1 DEF NoJob
<1>5. Tokens(buffered) = {} /\ Tokens(held) = {}
  BY <1>1, NoTokens
<1> QED BY <1>1, <1>2, <1>3, <1>4, <1>5 DEF Placed, Packing

(* The step does not touch the data and writes no meta but those it had. *)
LEMMA PlacedKept ==
    ASSUME TypeOK, Placed, UNCHANGED <<nodeFile, node, buffer>>, job.pc # "sync",
           \A n \in Node : metaFile'[n] \in Seq(Token) =>
               \A m \in Tokens(metaFile'[n]) : IsRecord(m) => Saved(m),
           \A m \in Tokens(buffered') \union Tokens(held') : IsRecord(m) => Saved(m),
           \A n \in Node : metaCache'[n] # None =>
               \A k \in Keys : \A m \in Token : metaCache'[n][k] = m => Saved(m),
           \A k \in Keys : \A m \in Token : fileMeta'[k] = m => Known(m),
           buffer = <<>>, ~Packing',
           job'.pc # "meta", job'.pc # "sync", job'.pc = "callback" => job'.then # "meta"
    PROVE  Placed'
BY DataSame DEF Placed

LEMMA OpenPlaced ==
    ASSUME Base, Synchronous, Placed, Open, use' = use
    PROVE  Placed'
<1>1. TypeOK /\ Phases /\ Packs
  BY DEF Base
<1>2. /\ job = NoJob /\ job' = job /\ buffer = <<>> /\ nodeFile' = nodeFile
      /\ job.pc = "idle" /\ job.next = "idle"
  BY <1>1, NoJobType DEF Open, Phases, TypeOK
<1>3. MetaNodes \subseteq Node /\ \A n \in MetaNodes : metaFile[n] \in Seq(Token)
  BY <1>1 DEF MetaNodes, TypeOK
<1>4. /\ node' = Last(MetaNodes) /\ buffer' = <<>> /\ held' = <<>> /\ buffered' = <<Header>>
      /\ fileMeta' = AllMetas /\ AfterReading(MetaNodes)
  BY DEF Open, OpenStreams
<1>5. \A n \in Node : nodeFile[n] \in Seq(Value) /\ nodeFile[n] \o <<>> = nodeFile[n]
  BY <1>1 DEF TypeOK
<1>6. \A m \in Token : (Saved(m)' <=> Saved(m)) /\ (Known(m)' <=> Saved(m)) /\ (Known(m) <=> Saved(m))
  <2> TAKE m \in Token
  <2>1. m.node \in Node
    BY TokenFields
  <2>2. nodeFile[m.node] \o <<>> = nodeFile[m.node]
    BY <1>5, <2>1
  <2>3. Data(m.node)' = nodeFile[m.node] /\ Data(m.node) = nodeFile[m.node]
    BY <1>2, <1>4, <2>2 DEF Data
  <2> QED BY <1>2, <2>3 DEF Saved, Known, HasValue
<1>7. \A n \in Node : metaFile'[n] \in Seq(Token) =>
          \A m \in Tokens(metaFile'[n]) : m \in Token /\ (IsRecord(m) => Saved(m))
  <2> TAKE n \in Node
  <2> HAVE metaFile'[n] \in Seq(Token)
  <2>1. metaFile[n] \in Seq(Token) => Tokens(metaFile'[n]) \subseteq Tokens(metaFile[n])
    BY <1>1, <1>3, <1>4, AfterReadingEffect, CorrectedTokens
  <2>2. metaFile[n] \notin Seq(Token) => metaFile'[n] = None
    BY <1>1, <1>3, <1>4, AfterReadingEffect DEF TypeOK
  <2>3. metaFile[n] \in Seq(Token)
    BY <2>2, NoneAssumption
  <2>4. \A m \in Tokens(metaFile[n]) : m \in Token
    BY <2>3 DEF Tokens
  <2> QED BY <2>1, <2>3, <2>4 DEF Placed
<1>8. \A n \in MetaNodes : \A k \in Keys : \A m \in Token : Records(metaFile[n])[k] = m => Saved(m)
  <2> TAKE n \in MetaNodes
  <2> TAKE k \in Keys
  <2> TAKE m \in Token
  <2> HAVE Records(metaFile[n])[k] = m
  <2>1. metaFile[n] \in Seq(Token) /\ n \in Node /\ m # None
    BY <1>3, NoneAssumption
  <2>2. m \in Tokens(metaFile[n]) /\ m.flag = "normal"
    BY <2>1, RecordsTokens
  <2> QED BY <2>1, <2>2 DEF Placed, IsRecord
<1>9. \A n \in MetaNodes : \A k \in Keys : \A m \in Token : ReadMeta(n)[k] = m => Saved(m)
  BY <1>3, <1>8 DEF ReadMeta, Placed
<1>10. \A n \in Node : metaCache'[n] # None =>
          \A k \in Keys : \A m \in Token : metaCache'[n][k] = m => Saved(m)
  <2> TAKE n \in Node
  <2>1. metaCache'[n] = metaCache[n] \/ (n \in MetaNodes /\ metaCache'[n] = Records(metaFile[n]))
    BY <1>4 DEF AfterReading
  <2> QED BY <1>8, <2>1 DEF Placed
<1>11. \A k \in Keys : \A m \in Token : fileMeta'[k] = m => Saved(m)
  <2> TAKE k \in Keys
  <2> TAKE m \in Token
  <2> HAVE fileMeta'[k] = m
  <2> DEFINE ns == {n \in MetaNodes : ReadMeta(n)[k] # None}
  <2>1. AllMetas[k] = IF ns = {} THEN None ELSE ReadMeta(Last(ns))[k]
    BY DEF AllMetas
  <2>2. ns # {} /\ ns \subseteq Node /\ ns \subseteq MetaNodes
    BY <1>3, <1>4, <2>1, NoneAssumption
  <2> HIDE DEF ns
  <2>3. Last(ns) \in MetaNodes
    BY <2>2, LastNode
  <2> QED BY <1>4, <1>9, <2>1, <2>2, <2>3
<1>12. Tokens(buffered') \union Tokens(held') = {Header}
  BY <1>4, NoTokens, HeaderIs
<1>13. ~Packing'
  BY <1>2 DEF Packing
<1> QED BY <1>2, <1>4, <1>6, <1>7, <1>10, <1>11, <1>12, <1>13, HeaderIs DEF Placed
LEMMA PutPlaced ==
    ASSUME Base, Synchronous, Placed, NEW k \in Keys, Put(k), use' = use
    PROVE  Placed'
<1>1. TypeOK /\ Phases /\ Packs
  BY DEF Base
<1>2. /\ UNCHANGED <<metaFile, metaCache, state, node, held, buffered, fileMeta>>
      /\ job.pc = "idle" /\ puts \in Nat /\ puts + 1 \in 0 .. use.maxPuts /\ buffer = <<>>
  BY <1>1, UseTypes DEF Put, At, TypeOK, Placed
<1> DEFINE v == [key |-> k, put |-> puts + 1]
<1>3. v \in Value /\ v.put # None
  BY <1>2, NoneAssumption DEF Value
<1>4. Write(v, "idle") /\ Len(buffer) # use.dataBuffer
  BY <1>1, <1>2, UseTypes DEF Put, TypeOK
<1>5. /\ nodeFile' = nodeFile /\ buffer' = Append(buffer, v)
      /\ job' = [pc |-> "meta", value |-> v, then |-> "meta", next |-> "idle"]
  BY <1>4 DEF Write
<1> HIDE DEF v
<1>6. job'.pc = "meta" /\ job'.value = v /\ job'.then = "meta" /\ job'.next = "idle"
  BY <1>5
<1>7. \A n \in Node : nodeFile[n] \in Seq(Value) /\ buffer \in Seq(Value) /\ <<v>> \in Seq(Value)
                      /\ nodeFile[n] \o buffer = nodeFile[n] /\ Append(buffer, v) = <<v>>
  BY <1>1, <1>2, <1>3 DEF TypeOK
<1>8. \A m \in Token : (Saved(m)' <=> Saved(m)) /\ (Known(m) => Known(m)')
  <2> TAKE m \in Token
  <2>1. m.node \in Node
    BY TokenFields
  <2>2. Saved(m)' <=> Saved(m)
    BY <1>5 DEF Saved, HasValue
  <2>3. Data(m.node) = nodeFile[m.node] /\ Data(m.node)' \in {nodeFile[m.node], nodeFile[m.node] \o <<v>>}
    BY <1>2, <1>5, <1>7, <2>1 DEF Data
  <2>4. Known(m) => HasValue(m, nodeFile[m.node])
    BY <2>3 DEF Known
  <2>5. HasValue(m, nodeFile[m.node]) => HasValue(m, nodeFile[m.node] \o <<v>>)
    BY <1>7, <2>1, ValueStays
  <2>6. Known(m)' <=> HasValue(m, Data(m.node)')
    BY DEF Known, HasValue
  <2> QED BY <2>2, <2>3, <2>4, <2>5, <2>6
<1>9. \A n \in Node : metaFile[n] \in Seq(Token) => Tokens(metaFile[n]) \subseteq Token
  BY DEF Tokens
<1>10. Tokens(buffered) \subseteq Token /\ Tokens(held) \subseteq Token
  BY <1>1 DEF Tokens, TypeOK
<1> QED BY <1>2, <1>3, <1>6, <1>8, <1>9, <1>10 DEF Placed, Packing

LEMMA CallbackPlaced ==
    ASSUME Base, Synchronous, Placed, Callback \/ CloseCallback, use' = use
    PROVE  Placed'
<1>1. TypeOK /\ Phases /\ Packs
  BY DEF Base
<1>2. /\ UNCHANGED <<nodeFile, metaCache, state, node, buffer, fileMeta>>
      /\ state = "open" /\ buffer = <<>> /\ ~Packing
      /\ \/ job.pc = "callback" /\ job.then \in {"idle", "size"}
         \/ job.pc = "closeCallback"
  BY <1>1 DEF Callback, CloseCallback, At, Phases, Placed
<1>3. /\ metaFile[node] \in Seq(Token) /\ buffered \in Seq(Token) /\ node \in Node
      /\ metaFile'[node] = metaFile[node] \o buffered
      /\ \A n \in Node : n # node => metaFile'[n] = metaFile[n]
      /\ buffered' = <<>> /\ held' = held
  BY <1>1, <1>2, FlushMetaEffect DEF Callback, CloseCallback, Phases, TypeOK
<1>4. job'.pc \in {"idle", "size", "closeMeta"} /\ job'.next = job.next
  BY <1>1, <1>2, GotoEffect DEF Callback, CloseCallback, At, Pcs
<1>5. Tokens(metaFile'[node]) = Tokens(metaFile[node]) \union Tokens(buffered)
  BY <1>3, TokensConcat
<1>6. Tokens(buffered') \union Tokens(held') \subseteq Tokens(buffered) \union Tokens(held)
  BY <1>3, NoTokens
<1>7. \A n \in Node : metaFile'[n] \in Seq(Token) =>
          \A m \in Tokens(metaFile'[n]) : IsRecord(m) => Saved(m)
  BY <1>2, <1>3, <1>5 DEF Placed
<1>8. \A m \in Tokens(buffered') \union Tokens(held') : IsRecord(m) => Saved(m)
  BY <1>2, <1>6 DEF Placed
<1>9. ~Packing'
  BY <1>2, <1>4 DEF Packing
<1>10. /\ \A n \in Node : metaCache'[n] # None =>
              \A k \in Keys : \A m \in Token : metaCache'[n][k] = m => Saved(m)
       /\ \A k \in Keys : \A m \in Token : fileMeta'[k] = m => Known(m)
  BY <1>2 DEF Placed
<1> QED BY <1>1, <1>2, <1>4, <1>7, <1>8, <1>9, <1>10, PlacedKept

(* The meta that a put makes points to the value put. *)
LEMMA NewMeta ==
    ASSUME TypeOK, Phases, PutMeta
    PROVE  LET m == [flag |-> "normal", key |-> job.value.key, node |-> node, off |-> Size - 1]
           IN  /\ m \in Token /\ m.off < Len(Data(node))
               /\ Data(node)[m.off + 1] = job.value
<1>1. /\ state = "open" /\ job.pc = "meta" /\ job.value.key \in Keys
      /\ buffer # <<>> /\ buffer[Len(buffer)] = job.value
  BY DEF PutMeta, At, Phases, Storing
<1>2. node \in Node /\ nodeFile[node] \in Seq(Value) /\ buffer \in Seq(Value)
  BY DEF TypeOK
<1>3. Size - 1 \in Nat /\ Size - 1 < Len(Data(node)) /\ Data(node)[Size - 1 + 1] = job.value
  <2> DEFINE f == nodeFile[node]
  <2>1. f \in Seq(Value) /\ Size = Len(f) + Len(buffer) /\ Data(node) = f \o buffer
    BY <1>2 DEF Size, Data
  <2> HIDE DEF f
  <2>2. Size - 1 \in Nat /\ Size - 1 + 1 = Size /\ Len(f \o buffer) = Size
    BY <1>1, <1>2, <2>1
  <2>3. (f \o buffer)[Len(f) + Len(buffer)] = buffer[Len(buffer)]
    BY <1>1, <1>2, <2>1
  <2> QED BY <1>1, <2>1, <2>2, <2>3
<1> QED BY <1>1, <1>2, <1>3 DEF Token, Meta

LEMMA PutMetaPlaced ==
    ASSUME Base, Synchronous, Placed, PutMeta, use' = use
    PROVE  Placed'
<1>1. TypeOK /\ Phases /\ Packs
  BY DEF Base
<1>2. /\ UNCHANGED <<nodeFile, metaCache, state, node, buffer>>
      /\ state = "open" /\ job.pc = "meta" /\ job.value.key \in Keys /\ ~Packing
      /\ buffer # <<>> /\ buffer[Len(buffer)] = job.value /\ job.value.put # None
  BY <1>1 DEF PutMeta, At, Phases, Storing, Placed
<1>3. /\ node \in Node /\ nodeFile[node] \in Seq(Value) /\ buffer \in Seq(Value)
      /\ metaFile[node] \in Seq(Token) /\ buffered \in Seq(Token) /\ held \in Seq(Token)
      /\ fileMeta \in [Keys -> Token \union {None}]
  BY <1>1, <1>2 DEF TypeOK, Phases
<1> DEFINE k == job.value.key
           m == [flag |-> "normal", key |-> k, node |-> node, off |-> Size - 1]
<1>4. m \in Token /\ m.off < Len(Data(node)) /\ Data(node)[m.off + 1] = job.value
  BY <1>1, NewMeta
<1>5. m \in Token /\ Known(m)
  <2>1. m.node = node /\ m.key = job.value.key
    OBVIOUS
  <2> HIDE DEF m
  <2>2. HasValue(m, Data(node))
    BY <1>2, <1>4, <2>1 DEF HasValue
  <2> QED BY <1>4, <2>1, <2>2 DEF Known
<1>6. WriteMeta(m) /\ fileMeta' = [fileMeta EXCEPT ![k] = m] /\ Goto("sync")
  BY DEF PutMeta
<1> HIDE DEF m
<1>7. job'.pc = "sync" /\ job'.next = job.next
  BY <1>1, <1>6, GotoEffect DEF Pcs
<1>8. /\ Tokens(metaFile'[node]) \subseteq Tokens(metaFile[node]) \union Tokens(buffered)
      /\ Tokens(buffered') \union Tokens(held') \subseteq Tokens(buffered) \union Tokens(held) \union {m}
  BY <1>1, <1>3, <1>5, <1>6, WriteMetaTokens
<1>9. \A n \in Node : n # node => metaFile'[n] = metaFile[n]
  BY <1>1, <1>3, <1>5, <1>6, WriteMetaEffect
<1>10. \A t : (Saved(t)' <=> Saved(t)) /\ (Known(t)' <=> Known(t))
  BY <1>2, DataSame
<1>11. \A t \in Tokens(buffered) \union Tokens(held) : t \in Token
  BY <1>3 DEF Tokens
<1>12. \A t \in Tokens(buffered) \union Tokens(held) : IsRecord(t) => Saved(t) /\ Known(t)
  BY <1>1, <1>2, <1>11, InData DEF Placed, Saved, Known
<1>13. \A n \in Node : metaFile'[n] \in Seq(Token) =>
          \A t \in Tokens(metaFile'[n]) : IsRecord(t) => Saved(t)
  BY <1>3, <1>8, <1>9, <1>12 DEF Placed
<1>14. \A t \in Tokens(buffered') \union Tokens(held') : IsRecord(t) => Known(t)
  BY <1>5, <1>8, <1>12
<1>15. \A l \in Keys : \A t \in Token : fileMeta'[l] = t => Known(t)
  BY <1>2, <1>3, <1>5, <1>6 DEF Placed
<1>16. ~Packing'
  BY <1>2, <1>7 DEF Packing
<1> QED BY <1>2, <1>7, <1>10, <1>13, <1>14, <1>15, <1>16 DEF Placed

(* Once the buffer is written, all that was known is on disk. *)
LEMMA DataWritten ==
    ASSUME TypeOK, WriteData, node' = node, NEW m \in Token
    PROVE  (Saved(m) => Saved(m)') /\ (Known(m) <=> Known(m)') /\ (Known(m) => Saved(m)')
<1>1. m.node \in Node
  BY TokenFields
<1>2. /\ buffer' = <<>> /\ nodeFile'[node] = nodeFile[node] \o buffer
      /\ \A n \in Node : n # node => nodeFile'[n] = nodeFile[n]
      /\ nodeFile' \in [Node -> Seq(Value)]
  BY WriteDataEffect
<1>3. nodeFile'[m.node] = Data(m.node)
  BY <1>1, <1>2 DEF Data
<1>4. nodeFile'[m.node] \in Seq(Value) /\ nodeFile'[m.node] \o <<>> = nodeFile'[m.node]
  BY <1>1, <1>2
<1>5. Data(m.node)' = Data(m.node)
  BY <1>2, <1>3, <1>4 DEF Data
<1>6. (Saved(m)' <=> HasValue(m, Data(m.node))) /\ (Known(m)' <=> HasValue(m, Data(m.node)))
  BY <1>3, <1>5 DEF Saved, Known, HasValue
<1>7. Saved(m) => HasValue(m, Data(m.node))
  BY InData DEF Saved
<1> QED BY <1>6, <1>7 DEF Known

(* The data alone are written. *)
LEMMA PlacedWritten ==
    ASSUME TypeOK, Placed, WriteData, UNCHANGED <<metaFile, metaCache, node, held, buffered, fileMeta>>,
           ~Packing', job'.pc \notin {"meta", "sync"}, job'.pc = "callback" => job'.then # "meta"
    PROVE  Placed'
<1>1. buffer' = <<>>
  BY DEF WriteData
<1>2. \A m \in Token : (Saved(m) => Saved(m)') /\ (Known(m) <=> Known(m)') /\ (Known(m) => Saved(m)')
  BY DataWritten
<1>3. \A n \in Node : metaFile[n] \in Seq(Token) => Tokens(metaFile[n]) \subseteq Token
  BY DEF Tokens
<1>4. Tokens(buffered) \subseteq Token /\ Tokens(held) \subseteq Token
  BY DEF Tokens, TypeOK
<1>5. \A m \in Tokens(buffered) \union Tokens(held) : IsRecord(m) => Saved(m)'
  BY <1>2, <1>4 DEF Placed
<1>6. \A n \in Node : metaFile[n] \in Seq(Token) =>
           \A m \in Tokens(metaFile[n]) : IsRecord(m) => Saved(m)'
  BY <1>2, <1>3 DEF Placed
<1>7. \A n \in Node : metaCache[n] # None =>
           \A k \in Keys : \A m \in Token : metaCache[n][k] = m => Saved(m)'
  BY <1>2 DEF Placed
<1>8. \A k \in Keys : \A m \in Token : fileMeta[k] = m => Known(m)'
  BY <1>2 DEF Placed
<1> QED BY <1>1, <1>5, <1>6, <1>7, <1>8 DEF Placed

LEMMA PutSyncPlaced ==
    ASSUME Base, Synchronous, Placed, PutSync, use' = use
    PROVE  Placed'
<1>1. TypeOK /\ Phases /\ Packs
  BY DEF Base
<1>2. /\ UNCHANGED <<metaFile, metaCache, node, held, buffered, fileMeta>>
      /\ job.pc = "sync" /\ ~Packing
  BY DEF PutSync, At, Placed
<1>3. /\ job'.next = job.next
      /\ \/ job'.pc = "size" /\ job'.then = job.then
         \/ job'.pc = "callback" /\ job'.then = "size"
  BY <1>1, GotoEffect, GotoThen DEF PutSync, Pcs, Thens
<1>4. ~Packing'
  BY <1>2, <1>3 DEF Packing
<1>5. CASE buffer # <<>>
  <2>1. WriteData
    BY <1>5 DEF PutSync, Synchronous
  <2> QED BY <1>1, <1>2, <1>3, <1>4, <2>1, PlacedWritten
<1>6. CASE buffer = <<>>
  <2>1. UNCHANGED <<nodeFile, buffer>>
    BY <1>6 DEF PutSync
  <2>2. \A m \in Token : (Saved(m)' <=> Saved(m)) /\ (Known(m)' <=> Known(m)) /\ (Known(m) <=> Saved(m))
    <3> TAKE m \in Token
    <3>1. m.node \in Node
      BY TokenFields
    <3>2. nodeFile[m.node] \in Seq(Value) /\ nodeFile[m.node] \o <<>> = nodeFile[m.node]
      BY <1>1, <3>1 DEF TypeOK
    <3>3. Data(m.node) = nodeFile[m.node]
      BY <1>6, <3>2 DEF Data
    <3>4. Known(m) <=> Saved(m)
      BY <3>3 DEF Known, Saved
    <3> QED BY <1>2, <2>1, <3>4, DataSame
  <2>3. Tokens(buffered) \subseteq Token /\ Tokens(held) \subseteq Token
    BY <1>1 DEF Tokens, TypeOK
  <2>4. \A n \in Node : metaFile[n] \in Seq(Token) => Tokens(metaFile[n]) \subseteq Token
    BY DEF Tokens
  <2> QED BY <1>2, <1>3, <1>4, <1>6, <2>1, <2>2, <2>3, <2>4 DEF Placed
<1> QED BY <1>5, <1>6
LEMMA PutSizePlaced ==
    ASSUME Base, Synchronous, Placed, PutSize, use' = use
    PROVE  Placed'
<1>1. TypeOK /\ job \in Jobs /\ Packs /\ Phases
  BY JobType DEF Base
<1>2. /\ UNCHANGED <<metaFile, metaCache, nodeFile, node, buffer, held, buffered, fileMeta>>
      /\ job.pc = "size" /\ ~Packing /\ job.next \in Nexts
  BY <1>1 DEF PutSize, disk, streams, At, Placed, Jobs
<1>3. /\ job'.next = job.next
      /\ \/ job'.pc = job.next
         \/ job'.pc = "closeData"
  BY <1>1, <1>2, GotoEffect, GotoThen DEF PutSize, Pcs, Thens, Nexts
<1>4. ~Packing' /\ job'.pc \notin {"meta", "sync", "callback"}
  BY <1>2, <1>3 DEF Packing, Nexts
<1> QED BY <1>2, <1>4, PlacedSame

LEMMA ClosePlaced ==
    ASSUME Base, Synchronous, Placed, Close, use' = use
    PROVE  Placed'
<1>1. TypeOK
  BY DEF Base
<1>2. /\ UNCHANGED <<metaFile, metaCache, nodeFile, node, buffer, held, buffered, fileMeta>>
      /\ job.pc = "idle"
  BY DEF Close, disk, streams, At
<1>3. job'.pc = "closeData" /\ job'.next = "idle"
  BY DEF Close, NoJob
<1>4. ~Packing'
  BY <1>3 DEF Packing
<1> QED BY <1>2, <1>3, <1>4, PlacedSame

LEMMA CloseDataPlaced ==
    ASSUME Base, Synchronous, Placed, CloseData, use' = use
    PROVE  Placed'
<1>1. TypeOK
  BY DEF Base
<1>2. /\ UNCHANGED <<metaFile, metaCache, node, held, buffered, fileMeta>>
      /\ job.pc = "closeData" /\ WriteData /\ ~Packing
  BY DEF CloseData, At, Placed
<1>3. job'.pc \in {"closeCallback", "closeMeta"} /\ job'.next = job.next
  BY <1>1, GotoEffect DEF CloseData, Pcs
<1>4. ~Packing'
  BY <1>2, <1>3 DEF Packing
<1> QED BY <1>1, <1>2, <1>3, <1>4, PlacedWritten

LEMMA CloseMetaPlaced ==
    ASSUME Base, Synchronous, Placed, CloseMeta, use' = use
    PROVE  Placed'
<1>1. TypeOK /\ Phases
  BY DEF Base
<1>2. /\ UNCHANGED <<nodeFile, metaCache, state, node, buffer, held, buffered, fileMeta>>
      /\ state = "open" /\ job.pc = "closeMeta" /\ job.then \in {"newNode", "closed"}
      /\ buffer = <<>> /\ ~Packing
  BY <1>1 DEF CloseMeta, streams, At, Phases, Placed
<1>3. /\ metaFile[node] \in Seq(Token) /\ buffered \in Seq(Token) /\ held \in Seq(Token)
      /\ metaFile'[node] = Append(metaFile[node] \o buffered \o held, End)
      /\ \A n \in Node : n # node => metaFile'[n] = metaFile[n]
  BY <1>1, <1>2, CloseMetaEffect DEF Phases, TypeOK
<1>4. job'.pc = job.then /\ job'.next = job.next
  BY <1>1, <1>2, GotoEffect DEF CloseMeta, Pcs
<1>5. Tokens(metaFile'[node]) = Tokens(metaFile[node]) \union Tokens(buffered) \union Tokens(held) \union {End}
  <2>1. metaFile[node] \o buffered \in Seq(Token) /\ (metaFile[node] \o buffered) \o held \in Seq(Token)
    BY <1>3
  <2>2. Tokens(metaFile[node] \o buffered \o held)
          = Tokens(metaFile[node]) \union Tokens(buffered) \union Tokens(held)
    <3>1. Tokens(metaFile[node] \o buffered) = Tokens(metaFile[node]) \union Tokens(buffered)
      BY <1>3, TokensConcat
    <3>2. Tokens(metaFile[node] \o buffered \o held) = Tokens(metaFile[node] \o buffered) \union Tokens(held)
      BY <1>3, <2>1, TokensConcat
    <3> QED BY <3>1, <3>2
  <2> QED BY <1>3, <2>1, <2>2, TokensAppend, EndIs
<1>6. \A n \in Node : metaFile'[n] \in Seq(Token) =>
          \A m \in Tokens(metaFile'[n]) : IsRecord(m) => Saved(m)
  BY <1>2, <1>3, <1>5, EndIs DEF Placed
<1>7. /\ \A m \in Tokens(buffered') \union Tokens(held') : IsRecord(m) => Saved(m)
      /\ \A n \in Node : metaCache'[n] # None =>
              \A k \in Keys : \A m \in Token : metaCache'[n][k] = m => Saved(m)
      /\ \A k \in Keys : \A m \in Token : fileMeta'[k] = m => Known(m)
  BY <1>2 DEF Placed
<1>8. ~Packing'
  BY <1>2, <1>4 DEF Packing
<1> QED BY <1>1, <1>2, <1>4, <1>6, <1>7, <1>8, PlacedKept

LEMMA NewNodePlaced ==
    ASSUME Base, Synchronous, Placed, NewNode, use' = use
    PROVE  Placed'
<1>1. TypeOK /\ Phases /\ job \in Jobs
  BY JobType DEF Base
<1>2. /\ UNCHANGED <<nodeFile, metaCache, fileMeta>>
      /\ state = "open" /\ job.pc = "newNode" /\ node < MaxNode /\ buffer = <<>> /\ ~Packing
      /\ node' = node + 1 /\ buffer' = <<>> /\ held' = <<>> /\ buffered' = <<Header>>
      /\ metaFile' = [metaFile EXCEPT ![node + 1] = <<>>] /\ Goto(job.next)
  BY <1>1 DEF NewNode, OpenStreams, At, Phases, Placed
<1>3. node + 1 \in Node /\ job.next \in Nexts
  BY <1>1, <1>2, MetaLogAssumption DEF TypeOK, Node, Jobs
<1>4. \A n \in Node : metaFile'[n] \in {metaFile[n], <<>>}
  BY <1>1, <1>2, <1>3 DEF TypeOK
<1>5. job'.pc = job.next /\ job'.next = job.next
  BY <1>1, <1>2, <1>3, GotoEffect DEF Pcs, Nexts
<1>6. \A m \in Token : (Saved(m)' <=> Saved(m)) /\ (Known(m)' <=> Known(m))
  <2> TAKE m \in Token
  <2>1. m.node \in Node
    BY TokenFields
  <2>2. nodeFile[m.node] \o <<>> = nodeFile[m.node]
    BY <1>1, <2>1 DEF TypeOK
  <2>3. Data(m.node)' = nodeFile[m.node] /\ Data(m.node) = nodeFile[m.node]
    BY <1>2, <2>2 DEF Data
  <2> QED BY <1>2, <2>3 DEF Saved, Known, HasValue
<1>7. \A n \in Node : metaFile'[n] \in Seq(Token) =>
          \A m \in Tokens(metaFile'[n]) : m \in Token /\ (IsRecord(m) => Saved(m))
  <2> TAKE n \in Node
  <2>1. metaFile[n] \in Seq(Token) => \A m \in Tokens(metaFile[n]) : m \in Token /\ (IsRecord(m) => Saved(m))
    BY DEF Placed, Tokens
  <2> QED BY <1>4, <2>1, NoTokens
<1>8. Tokens(buffered') \union Tokens(held') = {Header}
  BY <1>2, NoTokens, HeaderIs
<1>9. ~Packing' /\ job'.pc \notin {"meta", "sync", "callback"}
  BY <1>2, <1>3, <1>5 DEF Packing, Nexts
<1> QED BY <1>2, <1>6, <1>7, <1>8, <1>9, HeaderIs DEF Placed

(* The store is closed or dead: what it had in memory is gone. *)
LEMMA ShutPlaced ==
    ASSUME TypeOK, Placed, UNCHANGED <<metaFile, nodeFile, node>>, fileMeta' = NoMetas,
           buffer' = <<>>, held' = <<>>, buffered' = <<>>, job' = NoJob,
           metaCache' \in {metaCache, [n \in Node |-> None]}
    PROVE  Placed'
<1>1. job'.pc = "idle" /\ job'.next = "idle" /\ ~Packing'
  BY DEF NoJob, Packing
<1>2. \A m : Saved(m)' <=> Saved(m)
  BY DEF Saved, HasValue
<1>3. \A k \in Keys : fileMeta'[k] = None
  BY DEF NoMetas
<1>4. Tokens(buffered') \union Tokens(held') = {}
  BY NoTokens
<1>5. \A n \in Node : metaCache'[n] \in {metaCache[n], None}
  OBVIOUS
<1> QED BY <1>1, <1>2, <1>3, <1>4, <1>5, NoneAssumption DEF Placed

LEMMA RemovePlaced ==
    ASSUME Base, Synchronous, Placed, NEW k \in Keys, Remove(k), use' = use
    PROVE  Placed'
<1>1. TypeOK /\ Phases
  BY DEF Base
<1>2. /\ UNCHANGED <<nodeFile, state, node, buffer, job>>
      /\ state = "open" /\ job.pc = "idle" /\ fileMeta[k] # None /\ buffer = <<>> /\ ~Packing
  BY DEF Remove, At, Placed
<1>3. /\ node \in Node /\ metaFile[node] \in Seq(Token) /\ fileMeta[k] \in Token
      /\ fileMeta \in [Keys -> Token \union {None}]
      /\ metaCache \in [Node -> [Keys -> Token \union {None}] \union {None}]
      /\ nodeFile \in [Node -> Seq(Value)]
  BY <1>1, <1>2 DEF TypeOK, Phases
<1> DEFINE m == [fileMeta[k] EXCEPT !.flag = "delete"]
<1>4. m \in Token /\ m.off = fileMeta[k].off /\ m.node = fileMeta[k].node /\ m.key = fileMeta[k].key
  <2> HIDE DEF m
  <2>1. PICK t \in Token : t = fileMeta[k]
    BY <1>3
  <2>2. m = [t EXCEPT !.flag = "delete"]
    BY <2>1 DEF m
  <2>3. [t EXCEPT !.flag = "delete"] = [flag |-> "delete", key |-> t.key, node |-> t.node, off |-> t.off]
    BY MetaLogAssumption DEF Token, Meta, Header, End, Node
  <2>4. [flag |-> "delete", key |-> t.key, node |-> t.node, off |-> t.off] \in Meta
    BY TokenFields DEF Meta
  <2> QED BY <2>1, <2>2, <2>3, <2>4 DEF Token
<1>5. /\ WriteMeta(m) /\ fileMeta' = [fileMeta EXCEPT ![k] = None]
      /\ metaCache' = [n \in Node |->
                  IF metaCache[n] = None \/ metaCache[n][k] # fileMeta[k]
                  THEN metaCache[n] ELSE [metaCache[n] EXCEPT ![k] = m]]
  BY DEF Remove
<1> HIDE DEF m
<1>6. Saved(m)
  <2>1. Known(fileMeta[k])
    BY <1>3 DEF Placed
  <2>2. Data(m.node) = nodeFile[m.node]
    <3>1. m.node \in Node
      BY <1>4, TokenFields
    <3>2. nodeFile[m.node] \in Seq(Value) /\ nodeFile[m.node] \o <<>> = nodeFile[m.node]
      BY <1>3, <3>1
    <3> QED BY <1>2, <3>2 DEF Data
  <2> QED BY <1>4, <2>1, <2>2 DEF Known, Saved, HasValue
<1>7. /\ Tokens(metaFile'[node]) \subseteq Tokens(metaFile[node]) \union Tokens(buffered)
      /\ Tokens(buffered') \union Tokens(held') \subseteq Tokens(buffered) \union Tokens(held) \union {m}
  BY <1>1, <1>3, <1>4, <1>5, WriteMetaTokens
<1>8. \A n \in Node : n # node => metaFile'[n] = metaFile[n]
  BY <1>1, <1>3, <1>4, <1>5, WriteMetaEffect
<1>9. \A n \in Node : metaFile'[n] \in Seq(Token) =>
          \A t \in Tokens(metaFile'[n]) : IsRecord(t) => Saved(t)
  BY <1>2, <1>3, <1>7, <1>8 DEF Placed
<1>10. \A t \in Tokens(buffered') \union Tokens(held') : IsRecord(t) => Saved(t)
  BY <1>2, <1>6, <1>7 DEF Placed
<1>11. \A n \in Node : metaCache'[n] # None =>
           \A l \in Keys : \A t \in Token : metaCache'[n][l] = t => Saved(t)
  <2> TAKE n \in Node
  <2>1. CASE metaCache'[n] = metaCache[n]
    BY <2>1 DEF Placed
  <2>2. CASE metaCache[n] # None /\ metaCache'[n] = [metaCache[n] EXCEPT ![k] = m]
    <3>1. \A l \in Keys : metaCache'[n][l] \in {metaCache[n][l], m}
      BY <1>3, <2>2
    <3> QED BY <1>6, <2>2, <3>1 DEF Placed
  <2> QED BY <1>5, <2>1, <2>2
<1>12. \A l \in Keys : \A t \in Token : fileMeta'[l] = t => Known(t)
  BY <1>3, <1>5, NoneAssumption DEF Placed
<1>13. ~Packing'
  BY <1>2 DEF Packing
<1> QED BY <1>1, <1>2, <1>9, <1>10, <1>11, <1>12, <1>13, PlacedKept

LEMMA FlushPlaced ==
    ASSUME Base, Synchronous, Placed, Flush, use' = use
    PROVE  Placed'
<1>1. TypeOK /\ WriteData /\ UNCHANGED <<metaFile, metaCache, node, held, buffered, fileMeta>>
  BY DEF Base, Flush
<1>2. job'.pc = "callback" /\ job'.then = "idle" /\ job'.next = "idle"
  BY DEF Flush, NoJob
<1>3. ~Packing'
  BY <1>2 DEF Packing
<1> QED BY <1>1, <1>2, <1>3, PlacedWritten

Recovered == Base /\ (Synchronous => Placed)

LEMMA StepRecovered == Recovered /\ [Next]_vars => Recovered'
<1> SUFFICES ASSUME Recovered, [Next]_vars PROVE Recovered'
  OBVIOUS
<1>1. Base /\ Base'
  BY StepBase DEF Recovered
<1>2. use' = use /\ (Synchronous' <=> Synchronous)
  BY DEF Next, vars, Synchronous
<1>3. ASSUME Synchronous PROVE Placed'
  <2>1. Placed /\ TypeOK
    BY <1>1, <1>3 DEF Recovered, Base
  <2>2. CASE UNCHANGED vars
    <3>1. UNCHANGED <<metaFile, nodeFile, metaCache, node, buffer, held, buffered, fileMeta, job>>
      BY <2>2 DEF vars, disk, streams
    <3>2. \A m : (Saved(m)' <=> Saved(m)) /\ (Known(m)' <=> Known(m))
      BY <3>1, DataSame
    <3> QED BY <2>1, <3>1, <3>2 DEF Placed, Packing
  <2>3. CASE OpenFails
    <3>1. /\ UNCHANGED <<metaFile, nodeFile, metaCache, node, buffer, held, buffered, fileMeta, job>>
      BY <2>3 DEF OpenFails, disk, streams
    <3>2. \A m : (Saved(m)' <=> Saved(m)) /\ (Known(m)' <=> Known(m))
      BY <3>1, DataSame
    <3> QED BY <2>1, <3>1, <3>2 DEF Placed, Packing
  <2>4. CASE Crash
    <3>1. /\ UNCHANGED <<metaFile, nodeFile, node>> /\ fileMeta' = NoMetas
          /\ buffer' = <<>> /\ held' = <<>> /\ buffered' = <<>> /\ job' = NoJob
          /\ metaCache' \in {metaCache, [n \in Node |-> None]}
      BY <2>4 DEF Crash
    <3> QED BY <2>1, <3>1, ShutPlaced
  <2>5. CASE Closed
    <3>1. /\ UNCHANGED <<metaFile, nodeFile, node>> /\ fileMeta' = NoMetas
          /\ buffer' = <<>> /\ held' = <<>> /\ buffered' = <<>> /\ job' = NoJob
          /\ metaCache' \in {metaCache, [n \in Node |-> None]}
      BY <2>5 DEF Closed
    <3> QED BY <2>1, <3>1, ShutPlaced
  <2>6. ~Pack
    BY <1>3 DEF Pack, Synchronous
  <2>7. job.pc \notin {"readMeta", "entry", "deleteNode"}
    BY <2>1 DEF Placed, Packing
  <2>8. /\ ~PackReadMeta /\ ~PackDeleteMeta /\ ~PackDeleteNode /\ \A k \in Keys : ~PackEntry(k)
    BY <2>7 DEF PackReadMeta, PackDeleteMeta, PackDeleteNode, PackEntry, At
  <2>9. CASE Step
    BY <1>1, <1>2, <1>3, <2>1, <2>3, <2>4, <2>5, <2>6, <2>8, <2>9, OpenPlaced, PutPlaced,
       RemovePlaced, CallbackPlaced, PutMetaPlaced, PutSyncPlaced, PutSizePlaced, ClosePlaced,
       CloseDataPlaced, CloseMetaPlaced, NewNodePlaced, FlushPlaced DEF Step
  <2> QED BY <2>2, <2>9 DEF Next
<1> QED BY <1>1, <1>2, <1>3 DEF Recovered

LEMMA RecoveredInvariant == Spec => []Recovered
<1>1. Init => Recovered
  BY InitBase, InitPlaced DEF Recovered
<1> QED BY <1>1, StepRecovered, PTL DEF Spec

(***************************************************************************)
(* Written synchronously and never packed, a store shows for a key only    *)
(* what was put under that very key, after any number of crashes: at no    *)
(* moment is a meta on disk ahead of the data it points to                 *)
(* (FileStore.java:189-204, 335-403).                                      *)
(***************************************************************************)
THEOREM RecoveredShowsPuts == Spec => []RecoveredIsWhole
<1>1. Recovered => RecoveredIsWhole
  <2> SUFFICES ASSUME Recovered, use.sync, "pack" \notin use.calls, state = "open", NEW k \in Keys
               PROVE  Shown(k) # None
    BY DEF RecoveredIsWhole
  <2>1. TypeOK /\ Placed
    BY DEF Recovered, Base, Synchronous
  <2>2. 0 # None
    BY NoneAssumption
  <2>3. fileMeta[k] \in Token \union {None}
    BY <2>1 DEF TypeOK
  <2>4. CASE fileMeta[k] = None
    BY <2>2, <2>4 DEF Shown, Content
  <2>5. CASE fileMeta[k] # None
    <3> DEFINE m == fileMeta[k]
    <3>1. m \in Token /\ Known(m)
      BY <2>1, <2>3, <2>5 DEF Placed
    <3>2. Shown(k) = Content(m, Data(m.node))
      BY <2>5 DEF Shown, Data
    <3> HIDE DEF m
    <3>3. m # None
      BY <3>1, NoneAssumption
    <3> QED BY <3>1, <3>2, <3>3 DEF Known, HasValue, Content
  <2> QED BY <2>4, <2>5
<1> QED BY <1>1, RecoveredInvariant, PTL


-----------------------------------------------------------------------------
(* Whole files *)

Whole(file) == \A i \in 1 .. Len(file) : ~Broken(file, i)

(* A member has begun, to which a record may be added. *)
Begun(file) == Whole(file) /\ file # <<>> /\ file[Len(file)] # End

(* Every member has been ended. *)
Ended(file) == file = <<>> \/ (Whole(file) /\ file[Len(file)] = End)

LEMMA WholeReadable ==
    ASSUME NEW file \in Seq(Token), Whole(file)
    PROVE  Readable(file) = 1 .. Len(file)
BY DEF Readable, Whole

LEMMA WholePrefix ==
    ASSUME NEW file \in Seq(Token), NEW part \in Seq(Token), Len(part) <= Len(file),
           \A i \in 1 .. Len(part) : part[i] = file[i], Whole(file)
    PROVE  Whole(part)
<1> SUFFICES ASSUME NEW i \in 1 .. Len(part) PROVE ~Broken(part, i)
  BY DEF Whole
<1>1. ~Broken(file, i) /\ part[i] = file[i]
  BY DEF Whole
<1>2. CASE i = 1
  BY <1>1, <1>2 DEF Broken
<1>3. CASE i # 1
  <2>1. part[i - 1] = file[i - 1]
    BY <1>3
  <2> QED BY <1>1, <1>3, <2>1 DEF Broken
<1> QED BY <1>2, <1>3

LEMMA WholeAppend ==
    ASSUME NEW file \in Seq(Token), NEW t \in Token, Whole(file),
           file = <<>> => t = Header,
           file # <<>> => (t = Header <=> file[Len(file)] = End)
    PROVE  Whole(Append(file, t))
<1> DEFINE longer == Append(file, t)
<1>1. /\ Len(longer) = Len(file) + 1 /\ longer[Len(file) + 1] = t
      /\ \A i \in 1 .. Len(file) : longer[i] = file[i]
  OBVIOUS
<1> HIDE DEF longer
<1>2. ASSUME NEW i \in 1 .. Len(file) PROVE ~Broken(longer, i)
  <2>1. ~Broken(file, i) /\ longer[i] = file[i]
    BY <1>1 DEF Whole
  <2>2. CASE i = 1
    BY <2>1, <2>2 DEF Broken
  <2>3. CASE i # 1
    <3>1. longer[i - 1] = file[i - 1]
      BY <1>1, <2>3
    <3> QED BY <2>1, <2>3, <3>1 DEF Broken
  <2> QED BY <2>2, <2>3
<1>3. ~Broken(longer, Len(file) + 1)
  <2>1. CASE file = <<>>
    BY <1>1, <2>1 DEF Broken
  <2>2. CASE file # <<>>
    <3>1. Len(file) + 1 # 1 /\ Len(file) + 1 - 1 = Len(file) /\ Len(file) \in 1 .. Len(file)
      BY <2>2
    <3>2. longer[Len(file)] = file[Len(file)]
      BY <1>1, <3>1
    <3>3. Broken(longer, Len(file) + 1) <=> (t = Header) # (file[Len(file)] = End)
      BY <1>1, <3>1, <3>2 DEF Broken
    <3> QED BY <2>2, <3>3
  <2> QED BY <2>1, <2>2
<1>4. \A i \in 1 .. Len(longer) : i \in 1 .. Len(file) \/ i = Len(file) + 1
  BY <1>1
<1> QED BY <1>2, <1>3, <1>4 DEF Whole, longer

(* A record added to a whole file is the one that counts for its key. *)
LEMMA RecordsAppend ==
    ASSUME NEW file \in Seq(Token), NEW t \in Token, Whole(file), Whole(Append(file, t)), NEW k \in Keys
    PROVE  Records(Append(file, t))[k] = IF t.flag = "normal" /\ t.key = k THEN t
                                         ELSE Records(file)[k]
<1> DEFINE longer == Append(file, t)
<1>1. /\ longer \in Seq(Token) /\ Len(longer) = Len(file) + 1 /\ longer[Len(file) + 1] = t
      /\ \A i \in 1 .. Len(file) : longer[i] = file[i]
  OBVIOUS
<1> HIDE DEF longer
<1>2. Readable(file) = 1 .. Len(file) /\ Readable(longer) = 1 .. Len(longer)
  BY <1>1, WholeReadable DEF longer
<1>3. /\ Normal(longer, k) = {} => Records(longer)[k] = None
      /\ Normal(longer, k) # {} => \E i \in Normal(longer, k) :
            Records(longer)[k] = longer[i] /\ \A j \in Normal(longer, k) : i >= j
      /\ Normal(file, k) = {} => Records(file)[k] = None
      /\ Normal(file, k) # {} => \E i \in Normal(file, k) :
            Records(file)[k] = file[i] /\ \A j \in Normal(file, k) : i >= j
  BY <1>1, RecordsAre
<1>4. CASE t.flag = "normal" /\ t.key = k
  <2>1. Len(file) + 1 \in Normal(longer, k)
    BY <1>1, <1>2, <1>4 DEF Normal
  <2>2. PICK i \in Normal(longer, k) : Records(longer)[k] = longer[i]
                                        /\ \A j \in Normal(longer, k) : i >= j
    BY <1>3, <2>1
  <2>3. i \in 1 .. Len(file) + 1 /\ i >= Len(file) + 1
    BY <1>1, <1>2, <2>1, <2>2 DEF Normal
  <2>4. i = Len(file) + 1
    BY <2>3
  <2> QED BY <1>1, <1>4, <2>2, <2>4 DEF longer
<1>5. CASE ~(t.flag = "normal" /\ t.key = k)
  <2>1. Normal(longer, k) = Normal(file, k) /\ Normal(file, k) \subseteq 1 .. Len(file)
    BY <1>1, <1>2, <1>5 DEF Normal
  <2>2. Records(longer)[k] = Records(file)[k]
    <3>1. CASE Normal(file, k) = {}
      BY <1>3, <2>1, <3>1
    <3>2. CASE Normal(file, k) # {}
      <4>1. PICK i \in Normal(longer, k) : Records(longer)[k] = longer[i]
                                            /\ \A j \in Normal(longer, k) : i >= j
        BY <1>3, <2>1, <3>2
      <4>2. PICK j \in Normal(file, k) : Records(file)[k] = file[j]
                                         /\ \A l \in Normal(file, k) : j >= l
        BY <1>3, <3>2
      <4>3. i \in 1 .. Len(file) /\ j \in 1 .. Len(file) /\ i >= j /\ j >= i
        BY <2>1, <4>1, <4>2
      <4>4. i = j
        BY <4>3
      <4> QED BY <1>1, <4>1, <4>2, <4>3, <4>4
    <3> QED BY <3>1, <3>2
  <2> QED BY <1>5, <2>2 DEF longer
<1> QED BY <1>4, <1>5

LEMMA SameRecords ==
    ASSUME NEW file \in Seq(Token), NEW other \in Seq(Token),
           \A k \in Keys : Records(file)[k] = Records(other)[k]
    PROVE  Records(file) = Records(other)
<1>1. Records(file) \in [Keys -> Token \union {None}] /\ Records(other) \in [Keys -> Token \union {None}]
  BY RecordsType
<1> QED BY <1>1

(* A record is added to a member that has begun. *)
LEMMA AddRecord ==
    ASSUME NEW file \in Seq(Token), NEW t \in Token, Begun(file), IsRecord(t)
    PROVE  /\ Begun(Append(file, t))
           /\ \A k \in Keys : Records(Append(file, t))[k] = IF t.flag = "normal" /\ t.key = k THEN t
                                                            ELSE Records(file)[k]
<1>1. t # Header /\ t # End
  BY DEF IsRecord, Header, End
<1>2. Whole(Append(file, t))
  BY <1>1, WholeAppend DEF Begun
<1>3. Append(file, t) # <<>> /\ Append(file, t)[Len(Append(file, t))] = t
  OBVIOUS
<1> QED BY <1>1, <1>2, <1>3, RecordsAppend DEF Begun

LEMMA EndMember ==
    ASSUME NEW file \in Seq(Token), Begun(file)
    PROVE  Ended(Append(file, End)) /\ Records(Append(file, End)) = Records(file)
<1>1. End \in Token /\ End # Header /\ End.flag # "normal"
  BY EndIs DEF End, Header
<1>2. Whole(Append(file, End))
  BY <1>1, WholeAppend DEF Begun
<1>3. Append(file, End) # <<>> /\ Append(file, End)[Len(Append(file, End))] = End
      /\ Append(file, End) \in Seq(Token)
  BY <1>1
<1>4. Records(Append(file, End)) = Records(file)
  BY <1>1, <1>2, <1>3, RecordsAppend, SameRecords DEF Begun
<1> QED BY <1>2, <1>3, <1>4 DEF Ended

LEMMA BeginMember ==
    ASSUME NEW file \in Seq(Token), Ended(file)
    PROVE  Begun(Append(file, Header)) /\ Records(Append(file, Header)) = Records(file)
<1>1. Header \in Token /\ End # Header /\ Header.flag # "normal"
  BY HeaderIs DEF End, Header
<1>2. Whole(file)
  BY DEF Ended, Whole
<1>3. Whole(Append(file, Header))
  BY <1>1, <1>2, WholeAppend DEF Ended
<1>4. Append(file, Header) # <<>> /\ Append(file, Header)[Len(Append(file, Header))] = Header
      /\ Append(file, Header) \in Seq(Token)
  BY <1>1
<1>5. Records(Append(file, Header)) = Records(file)
  BY <1>1, <1>2, <1>3, <1>4, RecordsAppend, SameRecords
<1> QED BY <1>1, <1>3, <1>4, <1>5 DEF Begun

(* A correction that tears nothing leaves ended members and their records. *)
LEMMA NotTorn ==
    ASSUME TypeOK, NEW file \in Seq(Token), Ended(file), ~Tears(file)
    PROVE  Ended(Corrected(file)) /\ Records(Corrected(file)) = Records(file)
<1> DEFINE rest == Corrected(file)
<1>1. /\ rest \in Seq(Token) /\ Len(rest) <= Len(file)
      /\ \A i \in 1 .. Len(rest) : rest[i] = file[i]
  BY CorrectedType
<1>2. rest = file \/ (Records(rest) = Records(file) /\ (rest = <<>> \/ rest[Len(rest)] = End))
  BY DEF Tears
<1> HIDE DEF rest
<1>3. Whole(file)
  BY DEF Ended, Whole
<1>4. Whole(rest)
  BY <1>1, <1>3, WholePrefix
<1> QED BY <1>2, <1>4 DEF rest, Ended

-----------------------------------------------------------------------------
(* What is written *)

(* The streams of the node are closed; the next ones are not made yet. *)
Moved == job.pc \in {"newNode", "closed"}

Writing(n) == state = "open" /\ n = node /\ ~Moved

(* The tokens of a file, those on the way there included. *)
Written(n) == IF Writing(n) THEN metaFile[n] \o buffered \o held ELSE metaFile[n]

(* The metas a reading of it would find, were all of them there. *)
Found(n) == IF metaFile[n] \in Seq(Token) THEN Records(Written(n)) ELSE NoMetas

Undisturbed == crashes = 0 /\ ~torn

Formed ==
    \A n \in Node : metaFile[n] \in Seq(Token) =>
        IF Writing(n) THEN Begun(Written(n)) ELSE Ended(metaFile[n])

(* A meta file has the metas of the values of its own node. *)
Owned ==
    \A n \in Node : metaFile[n] \in Seq(Token) =>
        \A m \in Tokens(Written(n)) : m.flag = "normal" => m.node = n /\ m.off < Len(Data(n))

(* Before any crash, and before a correction has done harm. *)
Files ==
    /\ Formed /\ Owned
    /\ state # "crashed"
    /\ ~use.cacheKept => \A n \in Node : metaCache[n] = None

LEMMA WrittenType ==
    ASSUME TypeOK, NEW n \in Node, metaFile[n] \in Seq(Token)
    PROVE  Written(n) \in Seq(Token)
BY DEF Written, TypeOK

LEMMA NoRecords == Records(<<>>) = NoMetas
<1>1. \A k \in Keys : Normal(<<>>, k) = {}
  BY DEF Normal, Readable
<1>2. <<>> \in Seq(Token)
  OBVIOUS
<1>3. \A k \in Keys : Records(<<>>)[k] = None
  BY <1>1, <1>2, RecordsAre
<1>4. Records(<<>>) \in [Keys -> Token \union {None}]
  BY <1>2, RecordsType
<1> QED BY <1>3, <1>4 DEF NoMetas

(* A step leaves the metas where they are, and no data of theirs is lost. *)
LEMMA FilesStay ==
    ASSUME Files, use' = use, state' # "crashed",
           UNCHANGED <<metaFile, metaCache>>,
           \A n \in Node : Written(n)' = Written(n) /\ (Writing(n)' <=> Writing(n)),
           \A n \in Node : metaFile[n] \in Seq(Token) => Len(Data(n)') >= Len(Data(n)),
           TypeOK, TypeOK'
    PROVE  Files' /\ \A n \in Node : Found(n)' = Found(n)
<1>1. Formed'
  <2> SUFFICES ASSUME NEW n \in Node, metaFile[n] \in Seq(Token)
               PROVE  IF Writing(n)' THEN Begun(Written(n)') ELSE Ended(metaFile[n])
    BY DEF Formed
  <2> QED BY DEF Files, Formed
<1>2. Owned'
  <2> SUFFICES ASSUME NEW n \in Node, metaFile[n] \in Seq(Token),
                      NEW m \in Tokens(Written(n)), m.flag = "normal"
               PROVE  m.node = n /\ m.off < Len(Data(n)')
    BY DEF Owned
  <2>1. m.node = n /\ m.off < Len(Data(n)) /\ Len(Data(n)') >= Len(Data(n))
    BY DEF Files, Owned
  <2>2. m \in Token /\ m.off \in Nat
    <3>1. Written(n) \in Seq(Token)
      BY WrittenType
    <3>2. m \in Token
      BY <3>1 DEF Tokens
    <3> QED BY <3>2 DEF Token, Meta, Header, End
  <2>3. Data(n) \in Seq(Value) /\ Len(Data(n)) \in Nat
    BY DataType
  <2>4. Len(Data(n)') \in Nat
    <3>1. nodeFile'[n] \in Seq(Value') /\ buffer' \in Seq(Value')
      BY DEF TypeOK
    <3>2. Data(n)' \in Seq(Value')
      BY <3>1 DEF Data
    <3> QED BY <3>2
  <2> QED BY <2>1, <2>2, <2>3, <2>4
<1>3. \A n \in Node : Found(n)' = Found(n)
  BY DEF Found
<1> QED BY <1>1, <1>2, <1>3 DEF Files

(* In particular when the streams of metas are left alone. *)
LEMMA StreamsStay ==
    ASSUME Files, use' = use, UNCHANGED <<metaFile, metaCache, state, node, held, buffered>>,
           Moved' <=> Moved,
           \A n \in Node : metaFile[n] \in Seq(Token) => Len(Data(n)') >= Len(Data(n)),
           TypeOK, TypeOK'
    PROVE  Files' /\ \A n \in Node : Found(n)' = Found(n)
<1>1. \A n \in Node : Writing(n)' <=> Writing(n)
  BY DEF Writing
<1>2. \A n \in Node : Written(n)' = Written(n)
  BY <1>1 DEF Written
<1>3. state' # "crashed"
  BY DEF Files
<1> QED BY <1>1, <1>2, <1>3, FilesStay

(* Metas are written to the current node. *)
LEMMA MetaAdded ==
    ASSUME Files, TypeOK, use' = use, NEW m \in Token, IsRecord(m), metaFile[node] \in Seq(Token),
           WriteMeta(m), state = "open", ~Moved, ~Moved', UNCHANGED <<state, node, nodeFile, buffer>>,
           m.flag = "normal" => m.node = node /\ m.off < Len(Data(node)),
           ~use.cacheKept => \A n \in Node : metaCache'[n] = None
    PROVE  /\ Files'
           /\ \A n \in Node : n # node => Found(n)' = Found(n)
           /\ \A k \in Keys : Found(node)'[k] = IF m.flag = "normal" /\ m.key = k THEN m ELSE Found(node)[k]
<1>1. node \in Node /\ buffered \in Seq(Token) /\ held \in Seq(Token)
  BY DEF TypeOK
<1>2. /\ metaFile'[node] \in Seq(Token)
      /\ metaFile'[node] \o buffered' \o held' = Append(metaFile[node] \o buffered \o held, m)
      /\ \A n \in Node : n # node => metaFile'[n] = metaFile[n]
  BY WriteMetaEffect
<1>3. Writing(node) /\ Writing(node)' /\ \A n \in Node : n # node => ~Writing(n) /\ ~Writing(n)'
  BY DEF Writing
<1>4. Written(node)' = Append(Written(node), m)
  BY <1>2, <1>3 DEF Written
<1>5. \A n \in Node : n # node => Written(n)' = metaFile[n] /\ Written(n) = metaFile[n]
  BY <1>2, <1>3 DEF Written
<1>6. Written(node) \in Seq(Token) /\ Begun(Written(node))
  BY <1>1, <1>3, WrittenType DEF Files, Formed
<1>7. /\ Begun(Written(node)')
      /\ \A k \in Keys : Records(Written(node)')[k] = IF m.flag = "normal" /\ m.key = k THEN m
                                                     ELSE Records(Written(node))[k]
  BY <1>4, <1>6, AddRecord
<1>8. Formed'
  <2> SUFFICES ASSUME NEW n \in Node, metaFile'[n] \in Seq(Token)
               PROVE  IF Writing(n)' THEN Begun(Written(n)') ELSE Ended(metaFile'[n])
    BY DEF Formed
  <2>1. CASE n = node
    BY <1>3, <1>7, <2>1
  <2>2. CASE n # node
    BY <1>2, <1>3, <2>2 DEF Files, Formed
  <2> QED BY <2>1, <2>2
<1>9. \A n \in Node : Data(n)' = Data(n)
  BY DEF Data
<1>10. Owned'
  <2> SUFFICES ASSUME NEW n \in Node, metaFile'[n] \in Seq(Token),
                      NEW t \in Tokens(Written(n)'), t.flag = "normal"
               PROVE  t.node = n /\ t.off < Len(Data(n)')
    BY DEF Owned
  <2>1. CASE n = node
    <3>1. Written(n)' = Append(Written(node), m)
      BY <1>2, <1>3, <2>1 DEF Written
    <3>2. t \in Tokens(Written(node)) \/ t = m
      BY <1>6, <3>1, TokensAppend
    <3> QED BY <1>1, <1>9, <2>1, <3>2 DEF Files, Owned
  <2>2. CASE n # node
    BY <1>2, <1>5, <1>9, <2>2 DEF Files, Owned
  <2> QED BY <2>1, <2>2
<1>11. \A n \in Node : n # node => Found(n)' = Found(n)
  BY <1>2, <1>5 DEF Found
<1>12. Found(node)' = Records(Written(node)') /\ Found(node) = Records(Written(node))
  BY <1>2 DEF Found
<1> QED BY <1>7, <1>8, <1>10, <1>11, <1>12 DEF Files

(* Reading leaves members ended, and their records. *)
LEMMA ReadingSpares ==
    ASSUME TypeOK, NEW ns, ns \subseteq Node, AfterReading(ns), ~torn',
           \A n \in ns : metaFile[n] \in Seq(Token) /\ Ended(metaFile[n])
    PROVE  \A n \in ns : /\ metaFile'[n] \in Seq(Token) /\ Ended(metaFile'[n])
                         /\ Records(metaFile'[n]) = Records(metaFile[n])
                         /\ Tokens(metaFile'[n]) \subseteq Tokens(metaFile[n])
<1> SUFFICES ASSUME NEW n \in ns
             PROVE  /\ metaFile'[n] \in Seq(Token) /\ Ended(metaFile'[n])
                    /\ Records(metaFile'[n]) = Records(metaFile[n])
                    /\ Tokens(metaFile'[n]) \subseteq Tokens(metaFile[n])
  OBVIOUS
<1>1. CASE metaCache[n] # None
  <2>1. metaFile'[n] = metaFile[n]
    BY <1>1, AfterReadingEffect
  <2> QED BY <2>1
<1>2. CASE metaCache[n] = None
  <2>1. metaFile'[n] = Corrected(metaFile[n])
    BY <1>2, AfterReadingEffect
  <2>2. ~Tears(metaFile[n])
    BY <1>2 DEF AfterReading
  <2> QED BY <2>1, <2>2, NotTorn, CorrectedType, CorrectedTokens
<1> QED BY <1>1, <1>2

LEMMA CacheEmpty ==
    ASSUME NEW ns, AfterReading(ns), ~use.cacheKept, \A n \in Node : metaCache[n] = None
    PROVE  \A n \in Node : metaCache'[n] = None
BY DEF AfterReading

(* What the steps do to the data of the nodes. *)
LEMMA DataFlushed ==
    ASSUME TypeOK, WriteData, node' = node
    PROVE  \A n \in Node : Data(n)' = Data(n)
<1> TAKE n \in Node
<1>1. /\ buffer' = <<>> /\ nodeFile'[node] = nodeFile[node] \o buffer
      /\ \A p \in Node : p # node => nodeFile'[p] = nodeFile[p]
      /\ nodeFile' \in [Node -> Seq(Value)]
  BY WriteDataEffect
<1>2. nodeFile'[n] \in Seq(Value) /\ nodeFile'[n] \o <<>> = nodeFile'[n]
  BY <1>1
<1> QED BY <1>1, <1>2 DEF Data

LEMMA DataAppended ==
    ASSUME TypeOK, NEW v \in Value, NEW next \in Nexts, Write(v, next), node' = node
    PROVE  \A n \in Node : Data(n)' = IF n = node THEN Append(Data(n), v) ELSE Data(n)
<1>1. /\ \A n \in Node : n # node => nodeFile'[n] = nodeFile[n]
      /\ nodeFile'[node] \o buffer' = Append(nodeFile[node] \o buffer, v)
  BY WriteEffect
<1> QED BY <1>1 DEF Data

(* Where there is nothing in the buffer the current node is like the others. *)
LEMMA DataIs ==
    ASSUME TypeOK, buffer = <<>>, NEW n \in Node
    PROVE  Data(n) = nodeFile[n]
<1>1. nodeFile[n] \in Seq(Value) /\ nodeFile[n] \o <<>> = nodeFile[n]
  BY DEF TypeOK
<1> QED BY <1>1 DEF Data

(* A sequence goes on from another one. *)
Extends(s, t) == Len(s) >= Len(t) /\ \A i \in 1 .. Len(t) : s[i] = t[i]

LEMMA DataLonger ==
    ASSUME TypeOK, \/ UNCHANGED <<nodeFile, buffer>>
                   \/ WriteData
                   \/ \E v \in Value : \E next \in Nexts : Write(v, next),
           node' = node
    PROVE  \A n \in Node : Extends(Data(n)', Data(n))
<1> TAKE n \in Node
<1>1. Data(n) \in Seq(Value) /\ Len(Data(n)) \in Nat
  BY DataType
<1>2. CASE UNCHANGED <<nodeFile, buffer>>
  <2>1. Data(n)' = Data(n)
    BY <1>2 DEF Data
  <2> QED BY <1>1, <2>1 DEF Extends
<1>3. CASE WriteData
  <2>1. Data(n)' = Data(n)
    BY <1>3, DataFlushed
  <2> QED BY <1>1, <2>1 DEF Extends
<1>4. ASSUME NEW v \in Value, NEW next \in Nexts, Write(v, next)
      PROVE  Extends(Data(n)', Data(n))
  <2>1. Data(n)' \in {Append(Data(n), v), Data(n)}
    BY <1>4, DataAppended
  <2> QED BY <1>1, <2>1 DEF Extends
<1> QED BY <1>2, <1>3, <1>4

LEMMA InitFiles == Init => Files
<1> SUFFICES ASSUME Init PROVE Files
  OBVIOUS
<1>1. /\ \A n \in Node : metaFile[n] \in {<<>>, None}
      /\ state = "closed" /\ metaCache = [n \in Node |-> None]
  BY DEF Init
<1>2. \A n \in Node : ~Writing(n) /\ Written(n) = metaFile[n]
  BY <1>1 DEF Writing, Written
<1>3. \A n \in Node : metaFile[n] \in Seq(Token) => metaFile[n] = <<>>
  BY <1>1, NoneAssumption
<1>4. Formed
  BY <1>2, <1>3 DEF Formed, Ended
<1>5. Owned
  BY <1>2, <1>3, NoTokens DEF Owned
<1> QED BY <1>1, <1>4, <1>5 DEF Files

(* The steps at which the metas stay where they are. *)
LEMMA QuietSteps ==
    ASSUME Base,
           \/ \E k \in Keys : Put(k) \/ PackEntry(k)
           \/ PutSync \/ PutSize \/ Close \/ CloseData \/ Flush \/ Pack
    PROVE  /\ UNCHANGED <<metaFile, metaCache, state, node, held, buffered>>
           /\ ~Moved /\ ~Moved'
           /\ \A n \in Node : Extends(Data(n)', Data(n))
<1>1. TypeOK /\ Phases /\ job \in Jobs /\ job.next \in Nexts
  BY JobType DEF Base, Jobs
<1>2. UNCHANGED <<metaFile, metaCache, state, node, held, buffered>>
  BY DEF Put, PackEntry, PutSync, PutSize, Close, CloseData, Flush, Pack, disk, streams
<1>3. ~Moved
  BY DEF Put, PackEntry, PutSync, PutSize, Close, CloseData, Flush, Pack, At, Moved
<1>4. /\ ~Moved'
      /\ \/ UNCHANGED <<nodeFile, buffer>>
         \/ WriteData
         \/ \E v \in Value : \E next \in Nexts : Write(v, next)
  <2>1. ASSUME NEW v, NEW next, Write(v, next) PROVE ~Moved'
    BY <2>1 DEF Write, Moved
  <2>2. ASSUME NEW k \in Keys, Put(k)
        PROVE  ~Moved' /\ \E v \in Value : \E next \in Nexts : Write(v, next)
    <3>1. puts + 1 \in 0 .. use.maxPuts
      BY <1>1, <2>2, UseTypes DEF Put, TypeOK
    <3>2. [key |-> k, put |-> puts + 1] \in Value /\ "idle" \in Nexts
      BY <3>1 DEF Value, Nexts
    <3>3. Write([key |-> k, put |-> puts + 1], "idle")
      BY <2>2 DEF Put
    <3> QED BY <2>1, <3>2, <3>3
  <2>3. ASSUME NEW k \in Keys, PackEntry(k)
        PROVE  ~Moved' /\ (UNCHANGED <<nodeFile, buffer>>
                           \/ \E v \in Value : \E next \in Nexts : Write(v, next))
    <3>1. CASE entries[k].flag = "normal" /\ fileMeta[k] = entries[k]
      <4> DEFINE v == [key |-> k, put |-> Content(entries[k], nodeFile[entries[k].node])]
      <4>1. entries[k] \in Token /\ entries[k].node \in Node
        <5>1. entries[k] \in Token
          BY <1>1, <2>3 DEF PackEntry, TypeOK
        <5> QED BY <5>1, TokenFields
      <4>2. nodeFile[entries[k].node] \in Seq(Value)
        BY <1>1, <4>1 DEF TypeOK
      <4>3. Content(entries[k], nodeFile[entries[k].node]) \in 0 .. use.maxPuts \union {None}
        BY <1>1, <4>1, <4>2, ContentType
      <4>4. v \in Value /\ "entry" \in Nexts
        BY <4>3 DEF Value, Nexts
      <4>5. Write(v, "entry")
        BY <2>3, <3>1 DEF PackEntry
      <4> HIDE DEF v
      <4> QED BY <2>1, <4>4, <4>5
    <3>2. CASE ~(entries[k].flag = "normal" /\ fileMeta[k] = entries[k])
      <4>1. UNCHANGED <<nodeFile, buffer, job>>
        BY <2>3, <3>2 DEF PackEntry
      <4> QED BY <1>3, <4>1 DEF Moved
    <3> QED BY <3>1, <3>2
  <2>4. ASSUME PutSync PROVE ~Moved' /\ (UNCHANGED <<nodeFile, buffer>> \/ WriteData)
    BY <1>1, <2>4, GotoEffect, GotoThen DEF PutSync, Pcs, Thens, Moved
  <2>5. ASSUME PutSize PROVE ~Moved' /\ UNCHANGED <<nodeFile, buffer>>
    BY <1>1, <2>5, GotoEffect, GotoThen DEF PutSize, Pcs, Thens, Nexts, Moved, disk, streams
  <2>6. ASSUME Close \/ Pack PROVE ~Moved' /\ UNCHANGED <<nodeFile, buffer>>
    BY <2>6 DEF Close, Pack, NoJob, Moved, disk, streams
  <2>7. ASSUME CloseData \/ Flush PROVE ~Moved' /\ WriteData
    BY <1>1, <2>7, GotoEffect DEF CloseData, Flush, NoJob, Pcs, Moved
  <2> QED BY <2>2, <2>3, <2>4, <2>5, <2>6, <2>7
<1>5. \A n \in Node : Extends(Data(n)', Data(n))
  BY <1>1, <1>2, <1>4, DataLonger
<1> QED BY <1>2, <1>3, <1>4, <1>5

LEMMA QuietFiles ==
    ASSUME Base, Base', Files, use' = use,
           \/ \E k \in Keys : Put(k) \/ PackEntry(k)
           \/ PutSync \/ PutSize \/ Close \/ CloseData \/ Flush \/ Pack
    PROVE  Files' /\ \A n \in Node : Found(n)' = Found(n) /\ Extends(Data(n)', Data(n))
<1>1. /\ UNCHANGED <<metaFile, metaCache, state, node, held, buffered>>
      /\ ~Moved /\ ~Moved'
      /\ \A n \in Node : Extends(Data(n)', Data(n))
  BY QuietSteps
<1>2. \A n \in Node : Len(Data(n)') >= Len(Data(n))
  BY <1>1 DEF Extends
<1> QED BY <1>1, <1>2, StreamsStay DEF Base

LEMMA CallbackFiles ==
    ASSUME Base, Files, Callback \/ CloseCallback, use' = use
    PROVE  Files' /\ \A n \in Node : Found(n)' = Found(n)
<1>1. TypeOK /\ Phases
  BY DEF Base
<1>2. /\ UNCHANGED <<nodeFile, metaCache, state, node, buffer>>
      /\ state = "open"
      /\ \/ job.pc = "callback" /\ job.then \in {"idle", "meta", "size"}
         \/ job.pc = "closeCallback"
      /\ metaFile[node] \in Seq(Token) /\ node \in Node
  BY <1>1 DEF Callback, CloseCallback, At, Phases, TypeOK
<1>3. /\ metaFile'[node] \in Seq(Token)
      /\ metaFile'[node] \o buffered' \o held' = metaFile[node] \o buffered \o held
      /\ \A n \in Node : n # node => metaFile'[n] = metaFile[n]
  BY <1>1, <1>2, FlushMetaEffect DEF Callback, CloseCallback
<1>4. job'.pc \in {"idle", "meta", "size", "closeMeta"}
  BY <1>1, <1>2, GotoEffect DEF Callback, CloseCallback, At, Pcs
<1>5. ~Moved /\ ~Moved'
  BY <1>2, <1>4 DEF Moved
<1>6. \A n \in Node : /\ Writing(n)' <=> Writing(n)
                      /\ Writing(n) <=> n = node
                      /\ Written(n)' = Written(n)
                      /\ metaFile'[n] \in Seq(Token) <=> metaFile[n] \in Seq(Token)
                      /\ Data(n)' = Data(n)
  BY <1>2, <1>3, <1>5 DEF Writing, Written, Data
<1>7. Formed'
  <2> SUFFICES ASSUME NEW n \in Node, metaFile'[n] \in Seq(Token)
               PROVE  IF Writing(n)' THEN Begun(Written(n)') ELSE Ended(metaFile'[n])
    BY DEF Formed
  <2> QED BY <1>3, <1>6 DEF Files, Formed
<1>8. Owned'
  <2> SUFFICES ASSUME NEW n \in Node, metaFile'[n] \in Seq(Token),
                      NEW m \in Tokens(Written(n)'), m.flag = "normal"
               PROVE  m.node = n /\ m.off < Len(Data(n)')
    BY DEF Owned
  <2> QED BY <1>6 DEF Files, Owned
<1>9. \A n \in Node : Found(n)' = Found(n)
  BY <1>6 DEF Found
<1> QED BY <1>2, <1>7, <1>8, <1>9 DEF Files

LEMMA PutMetaFiles ==
    ASSUME Base, Files, PutMeta, use' = use
    PROVE  /\ Files'
           /\ \A n \in Node : n # node => Found(n)' = Found(n)
           /\ LET m == [flag |-> "normal", key |-> job.value.key, node |-> node, off |-> Size - 1]
              IN  /\ \A k \in Keys : Found(node)'[k] = IF k = m.key THEN m ELSE Found(node)[k]
                  /\ m \in Token /\ m.off < Len(Data(node))
                  /\ Data(node)[m.off + 1] = job.value
<1>1. TypeOK /\ Phases
  BY DEF Base
<1>2. /\ UNCHANGED <<nodeFile, metaCache, state, node, buffer>>
      /\ state = "open" /\ job.pc = "meta" /\ job.value.key \in Keys
      /\ buffer # <<>> /\ buffer[Len(buffer)] = job.value
  BY <1>1 DEF PutMeta, At, Phases, Storing
<1>3. /\ node \in Node /\ nodeFile[node] \in Seq(Value) /\ buffer \in Seq(Value)
      /\ metaFile[node] \in Seq(Token)
  BY <1>1, <1>2 DEF TypeOK, Phases
<1> DEFINE m == [flag |-> "normal", key |-> job.value.key, node |-> node, off |-> Size - 1]
<1>4. m \in Token /\ m.off < Len(Data(node)) /\ Data(node)[m.off + 1] = job.value
  BY <1>1, NewMeta
<1>5. IsRecord(m) /\ m.flag = "normal" /\ m.node = node /\ m.key = job.value.key
  BY DEF IsRecord
<1>6. WriteMeta(m) /\ Goto("sync")
  BY DEF PutMeta
<1> HIDE DEF m
<1>7. job'.pc = "sync"
  BY <1>1, <1>6, GotoEffect DEF Pcs
<1>8. ~Moved /\ ~Moved'
  BY <1>2, <1>7 DEF Moved
<1>9. /\ Files'
      /\ \A n \in Node : n # node => Found(n)' = Found(n)
      /\ \A k \in Keys : Found(node)'[k] = IF m.flag = "normal" /\ m.key = k THEN m ELSE Found(node)[k]
  <2>1. ~use.cacheKept => \A n \in Node : metaCache'[n] = None
    BY <1>2 DEF Files
  <2> QED BY <1>1, <1>2, <1>3, <1>4, <1>5, <1>6, <1>8, <2>1, MetaAdded
<1> QED BY <1>4, <1>5, <1>9 DEF m

LEMMA RemoveFiles ==
    ASSUME Base, Files, NEW k \in Keys, Remove(k), use' = use
    PROVE  Files' /\ \A n \in Node : \A l \in Keys : Found(n)'[l] = Found(n)[l]
<1>1. TypeOK /\ Phases
  BY DEF Base
<1>2. /\ UNCHANGED <<nodeFile, state, node, buffer, job>>
      /\ state = "open" /\ job.pc = "idle" /\ fileMeta[k] # None
      /\ metaFile[node] \in Seq(Token)
  BY <1>1 DEF Remove, At, Phases
<1> DEFINE m == [fileMeta[k] EXCEPT !.flag = "delete"]
<1>3. m \in Token /\ m.flag = "delete" /\ IsRecord(m)
  <2>1. fileMeta[k] \in Token
    BY <1>1, <1>2 DEF TypeOK
  <2> QED BY MetaLogAssumption, <2>1 DEF Token, Meta, Header, End, Node, IsRecord
<1>4. /\ WriteMeta(m)
      /\ metaCache' = [n \in Node |->
                  IF metaCache[n] = None \/ metaCache[n][k] # fileMeta[k]
                  THEN metaCache[n] ELSE [metaCache[n] EXCEPT ![k] = m]]
  BY DEF Remove
<1> HIDE DEF m
<1>5. ~use.cacheKept => \A n \in Node : metaCache'[n] = None
  BY <1>4 DEF Files
<1>6. ~Moved /\ ~Moved'
  BY <1>2 DEF Moved
<1>7. /\ Files'
      /\ \A n \in Node : n # node => Found(n)' = Found(n)
      /\ \A l \in Keys : Found(node)'[l] = Found(node)[l]
  BY <1>1, <1>2, <1>3, <1>4, <1>5, <1>6, MetaAdded
<1>8. PICK p \in Node : p = node
  BY <1>1 DEF TypeOK
<1>9. Found(p)' = Found(node)'
  BY <1>2, <1>8 DEF Found, Written, Writing
<1> QED BY <1>7, <1>8, <1>9

LEMMA CloseMetaFiles ==
    ASSUME Base, Files, CloseMeta, use' = use
    PROVE  Files' /\ \A n \in Node : Found(n)' = Found(n)
<1>1. TypeOK /\ Phases
  BY DEF Base
<1>2. /\ UNCHANGED <<nodeFile, metaCache, state, node, buffer, held, buffered>>
      /\ state = "open" /\ job.pc = "closeMeta" /\ job.then \in {"newNode", "closed"}
      /\ metaFile[node] \in Seq(Token) /\ node \in Node
  BY <1>1 DEF CloseMeta, streams, At, Phases, TypeOK
<1>3. /\ metaFile'[node] \in Seq(Token)
      /\ metaFile'[node] = Append(metaFile[node] \o buffered \o held, End)
      /\ \A n \in Node : n # node => metaFile'[n] = metaFile[n]
  BY <1>1, <1>2, CloseMetaEffect
<1>4. job'.pc = job.then
  BY <1>1, <1>2, GotoEffect DEF CloseMeta, Pcs
<1>5. ~Moved /\ Moved'
  BY <1>2, <1>4 DEF Moved
<1>6. \A n \in Node : ~Writing(n)' /\ (Writing(n) <=> n = node) /\ Data(n)' = Data(n)
                      /\ Written(n)' = metaFile'[n]
  BY <1>2, <1>5 DEF Writing, Data, Written
<1>7. Written(node) \in Seq(Token) /\ Begun(Written(node)) /\ metaFile'[node] = Append(Written(node), End)
  BY <1>1, <1>2, <1>3, <1>6, WrittenType DEF Files, Formed, Written
<1>8. Ended(metaFile'[node]) /\ Records(metaFile'[node]) = Records(Written(node))
  BY <1>7, EndMember
<1>9. Formed'
  <2> SUFFICES ASSUME NEW n \in Node, metaFile'[n] \in Seq(Token)
               PROVE  Ended(metaFile'[n])
    BY <1>6 DEF Formed
  <2> QED BY <1>3, <1>6, <1>8 DEF Files, Formed
<1>10. \A n \in Node : n # node => Written(n) = metaFile[n]
  BY <1>6 DEF Written
<1>11. Owned'
  <2> SUFFICES ASSUME NEW n \in Node, metaFile'[n] \in Seq(Token),
                      NEW m \in Tokens(metaFile'[n]), m.flag = "normal"
               PROVE  m.node = n /\ m.off < Len(Data(n))
    BY <1>6 DEF Owned
  <2>1. CASE n # node
    BY <1>3, <1>10, <2>1 DEF Files, Owned
  <2>2. CASE n = node
    <3> DEFINE file == Written(node)
    <3>4. file \in Seq(Token) /\ m \in Tokens(Append(file, End))
      BY <1>7, <2>2
    <3> HIDE DEF file
    <3>5. m \in Tokens(file) \/ m = End
      BY <3>4, TokensAppend, EndIs
    <3>1. m \in Tokens(Written(node)) \/ m = End
      BY <3>5 DEF file
    <3>2. m \in Tokens(Written(node))
      BY <3>1 DEF End
    <3> QED BY <1>2, <2>2, <3>2 DEF Files, Owned
  <2> QED BY <2>1, <2>2
<1>12. \A n \in Node : Found(n)' = Found(n)
  <2> TAKE n \in Node
  <2>1. CASE n # node
    BY <1>3, <1>6, <1>10, <2>1 DEF Found
  <2>2. CASE n = node
    BY <1>2, <1>3, <1>6, <1>8, <2>2 DEF Found
  <2> QED BY <2>1, <2>2
<1> QED BY <1>2, <1>9, <1>11, <1>12 DEF Files

LEMMA NewNodeFiles ==
    ASSUME Base, Files, NewNode, use' = use
    PROVE  Files' /\ \A n \in Node : Found(n)' = Found(n)
<1>1. TypeOK /\ Phases /\ job \in Jobs
  BY JobType DEF Base
<1>2. /\ UNCHANGED <<nodeFile, metaCache, state>>
      /\ state = "open" /\ job.pc = "newNode" /\ node < MaxNode /\ buffer = <<>>
      /\ node' = node + 1 /\ buffer' = <<>> /\ held' = <<>> /\ buffered' = <<Header>>
      /\ metaFile' = [metaFile EXCEPT ![node + 1] = <<>>] /\ Goto(job.next)
  BY <1>1 DEF NewNode, OpenStreams, At, Phases
<1>3. node \in Nat /\ node + 1 \in Node /\ node < node + 1 /\ job.next \in Nexts
  BY <1>1, <1>2, MetaLogAssumption DEF TypeOK, Node, Jobs
<1>4. job'.pc = job.next
  BY <1>1, <1>2, <1>3, GotoEffect DEF Pcs, Nexts
<1>5. Moved /\ ~Moved'
  BY <1>2, <1>3, <1>4 DEF Moved, Nexts
<1>6. /\ metaFile[node + 1] = None /\ metaFile'[node + 1] = <<>>
      /\ \A n \in Node : n # node + 1 => metaFile'[n] = metaFile[n]
  BY <1>1, <1>2, <1>3 DEF TypeOK, Phases
<1>7. \A n \in Node : ~Writing(n) /\ (Writing(n)' <=> n = node + 1) /\ Written(n) = metaFile[n]
  BY <1>2, <1>5 DEF Writing, Written
<1>8. \A n \in Node : Written(n)' = IF n = node + 1 THEN <<Header>> ELSE metaFile[n]
  <2> TAKE n \in Node
  <2>1. CASE n = node + 1
    <3>1. Written(n)' = <<>> \o <<Header>> \o <<>>
      BY <1>2, <1>6, <1>7, <2>1 DEF Written
    <3>2. <<>> \o <<Header>> \o <<>> = <<Header>>
      <4> DEFINE t == Header
      <4>1. <<>> \o <<t>> \o <<>> = <<t>>
        <5> HIDE DEF t
        <5> QED OBVIOUS
      <4> QED BY <4>1
    <3> QED BY <2>1, <3>1, <3>2
  <2>2. CASE n # node + 1
    BY <1>6, <1>7, <2>2 DEF Written
  <2> QED BY <2>1, <2>2
<1>9. Begun(<<Header>>) /\ Records(<<Header>>) = NoMetas
  <2>1. <<>> \in Seq(Token) /\ Ended(<<>>)
    BY DEF Ended
  <2>2. Append(<<>>, Header) = <<Header>>
    OBVIOUS
  <2>3. Begun(Append(<<>>, Header)) /\ Records(Append(<<>>, Header)) = Records(<<>>)
    BY <2>1, BeginMember
  <2> QED BY <2>2, <2>3, NoRecords
<1>10. \A n \in Node : Data(n)' = Data(n)
  <2> TAKE n \in Node
  <2>1. Data(n) = nodeFile[n]
    BY <1>1, <1>2, DataIs
  <2>2. nodeFile[n] \o <<>> = nodeFile[n]
    BY <1>1 DEF TypeOK
  <2>3. Data(n)' = nodeFile[n]
    BY <1>2, <2>2 DEF Data
  <2> QED BY <2>1, <2>3
<1>11. Formed'
  <2> SUFFICES ASSUME NEW n \in Node, metaFile'[n] \in Seq(Token)
               PROVE  IF Writing(n)' THEN Begun(Written(n)') ELSE Ended(metaFile'[n])
    BY DEF Formed
  <2>1. CASE n = node + 1
    BY <1>7, <1>8, <1>9, <2>1
  <2>2. CASE n # node + 1
    BY <1>6, <1>7, <2>2 DEF Files, Formed
  <2> QED BY <2>1, <2>2
<1>12. Owned'
  <2> SUFFICES ASSUME NEW n \in Node, metaFile'[n] \in Seq(Token),
                      NEW m \in Tokens(Written(n)'), m.flag = "normal"
               PROVE  m.node = n /\ m.off < Len(Data(n)')
    BY DEF Owned
  <2>1. CASE n = node + 1
    <3>1. m = Header
      BY <1>8, <2>1, HeaderIs
    <3> QED BY <3>1 DEF Header
  <2>2. CASE n # node + 1
    BY <1>6, <1>7, <1>8, <1>10, <2>2 DEF Files, Owned
  <2> QED BY <2>1, <2>2
<1>13. \A n \in Node : Found(n)' = Found(n)
  <2> TAKE n \in Node
  <2>1. CASE n = node + 1
    <3>1. Found(n) = NoMetas
      BY <1>6, <2>1, NoneAssumption DEF Found
    <3>3. metaFile'[n] = <<>> /\ <<>> \in Seq(Token)
      BY <1>6, <2>1
    <3>4. Written(n)' = <<Header>>
      BY <1>8, <2>1, Zenon
    <3>2. Found(n)' = Records(<<Header>>)
      BY <3>3, <3>4, Zenon DEF Found
    <3> QED BY <1>9, <3>1, <3>2
  <2>2. CASE n # node + 1
    BY <1>6, <1>7, <1>8, <2>2 DEF Found
  <2> QED BY <2>1, <2>2
<1> QED BY <1>2, <1>11, <1>12, <1>13 DEF Files

LEMMA ClosedFiles ==
    ASSUME Base, Base', Files, Closed, use' = use
    PROVE  Files' /\ \A n \in Node : Found(n)' = Found(n)
<1>1. TypeOK /\ TypeOK' /\ Phases
  BY DEF Base
<1>2. /\ UNCHANGED <<metaFile, nodeFile, node>>
      /\ state = "open" /\ state' = "closed" /\ job.pc = "closed"
      /\ buffer = <<>> /\ buffer' = <<>>
      /\ metaCache' \in {metaCache, [n \in Node |-> None]}
  BY <1>1 DEF Closed, At, Phases
<1>3. \A n \in Node : ~Writing(n) /\ ~Writing(n)' /\ Written(n)' = Written(n) /\ Data(n)' = Data(n)
                      /\ Written(n) = metaFile[n]
  BY <1>2 DEF Writing, Moved, Written, Data
<1>4. Formed'
  <2> SUFFICES ASSUME NEW n \in Node, metaFile[n] \in Seq(Token) PROVE Ended(metaFile[n])
    BY <1>2, <1>3 DEF Formed
  <2> QED BY <1>3 DEF Files, Formed
<1>5. Owned'
  <2> SUFFICES ASSUME NEW n \in Node, metaFile[n] \in Seq(Token),
                      NEW m \in Tokens(Written(n)), m.flag = "normal"
               PROVE  m.node = n /\ m.off < Len(Data(n))
    BY <1>2, <1>3 DEF Owned
  <2> QED BY DEF Files, Owned
<1>6. \A n \in Node : Found(n)' = Found(n)
  BY <1>2, <1>3 DEF Found
<1>7. ~use.cacheKept => \A n \in Node : metaCache'[n] = None
  BY <1>2 DEF Files
<1> QED BY <1>2, <1>4, <1>5, <1>6, <1>7 DEF Files

LEMMA OpenFiles ==
    ASSUME Base, Files, ~torn', Open, use' = use
    PROVE  Files' /\ \A n \in Node : Found(n)' = Found(n)
<1>1. TypeOK /\ Phases
  BY DEF Base
<1>2. /\ state # "open" /\ state' = "open" /\ job = NoJob /\ job' = job /\ buffer = <<>>
      /\ nodeFile' = nodeFile /\ MetaNodes # {} /\ AfterReading(MetaNodes)
      /\ node' = Last(MetaNodes) /\ buffer' = <<>> /\ held' = <<>> /\ buffered' = <<Header>>
  BY <1>1 DEF Open, OpenStreams, Phases
<1>3. /\ MetaNodes \subseteq Node
      /\ \A n \in MetaNodes : metaFile[n] \in Seq(Token)
      /\ \A n \in Node : n \notin MetaNodes => metaFile[n] = None
  BY <1>1 DEF MetaNodes, TypeOK
<1>4. node' \in MetaNodes /\ node' \in Node
  BY <1>2, <1>3, LastNode
<1>5. ~Moved'
  BY <1>2 DEF Moved, NoJob
<1>6. \A n \in Node : ~Writing(n) /\ Written(n) = metaFile[n] /\ (Writing(n)' <=> n = node')
  BY <1>2, <1>5 DEF Writing, Written
<1>7. \A n \in MetaNodes : Ended(metaFile[n])
  BY <1>3, <1>6 DEF Files, Formed
<1>8. \A n \in MetaNodes : /\ metaFile'[n] \in Seq(Token) /\ Ended(metaFile'[n])
                           /\ Records(metaFile'[n]) = Records(metaFile[n])
                           /\ Tokens(metaFile'[n]) \subseteq Tokens(metaFile[n])
  BY <1>1, <1>2, <1>3, <1>7, ReadingSpares
<1>9. \A n \in Node : n \notin MetaNodes => metaFile'[n] = None
  BY <1>1, <1>2, <1>3, AfterReadingEffect
<1>10. \A n \in Node : Written(n)' = IF n = node' THEN Append(metaFile'[n], Header) ELSE metaFile'[n]
  <2> TAKE n \in Node
  <2>1. CASE n = node'
    <3> DEFINE file == metaFile'[n]
               t == Header
    <3>1. file \in Seq(Token) /\ t \in Token
      BY <1>4, <1>8, <2>1, HeaderIs
    <3>2. Written(n)' = file \o <<t>> \o <<>>
      BY <1>2, <1>6, <2>1 DEF Written
    <3> HIDE DEF file, t
    <3>3. file \o <<t>> \o <<>> = Append(file, t)
      BY <3>1
    <3> QED BY <2>1, <3>2, <3>3 DEF file, t
  <2>2. CASE n # node'
    BY <1>6, <2>2 DEF Written
  <2> QED BY <2>1, <2>2
<1>11. \A n \in MetaNodes : /\ n = node' => Begun(Written(n)')
                            /\ Records(Written(n)') = Records(metaFile[n])
                            /\ \A m \in Tokens(Written(n)') : m \in Tokens(metaFile[n]) \/ m = Header
  <2> TAKE n \in MetaNodes
  <2>1. CASE n = node'
    <3> DEFINE file == metaFile'[n]
    <3>1. file \in Seq(Token) /\ Ended(file) /\ Written(n)' = Append(file, Header)
      BY <1>3, <1>8, <1>10, <2>1
    <3> HIDE DEF file
    <3>2. Begun(Append(file, Header)) /\ Records(Append(file, Header)) = Records(file)
          /\ Tokens(Append(file, Header)) = Tokens(file) \union {Header}
      BY <3>1, BeginMember, TokensAppend, HeaderIs
    <3> QED BY <1>8, <3>1, <3>2 DEF file
  <2>2. CASE n # node'
    <3>1. Written(n)' = metaFile'[n]
      BY <1>3, <1>10, <2>2
    <3> QED BY <1>8, <2>2, <3>1
  <2> QED BY <2>1, <2>2
<1>12. \A n \in Node : Data(n)' = Data(n)
  <2> TAKE n \in Node
  <2>1. Data(n) = nodeFile[n]
    BY <1>1, <1>2, DataIs
  <2>2. nodeFile[n] \o <<>> = nodeFile[n]
    BY <1>1 DEF TypeOK
  <2>3. Data(n)' = nodeFile[n]
    BY <1>2, <2>2 DEF Data
  <2> QED BY <2>1, <2>3
<1>13. Formed'
  <2> SUFFICES ASSUME NEW n \in Node, metaFile'[n] \in Seq(Token)
               PROVE  IF Writing(n)' THEN Begun(Written(n)') ELSE Ended(metaFile'[n])
    BY DEF Formed
  <2>1. n \in MetaNodes
    BY <1>9, NoneAssumption
  <2> QED BY <1>6, <1>8, <1>11, <2>1
<1>14. Owned'
  <2> SUFFICES ASSUME NEW n \in Node, metaFile'[n] \in Seq(Token),
                      NEW m \in Tokens(Written(n)'), m.flag = "normal"
               PROVE  m.node = n /\ m.off < Len(Data(n)')
    BY DEF Owned
  <2>1. n \in MetaNodes
    BY <1>9, NoneAssumption
  <2>2. m # Header
    BY DEF Header
  <2>3. m \in Tokens(Written(n))
    BY <1>6, <1>11, <2>1, <2>2
  <2> QED BY <1>3, <1>12, <2>1, <2>3 DEF Files, Owned
<1>15. \A n \in Node : Found(n)' = Found(n)
  <2> TAKE n \in Node
  <2>1. CASE n \in MetaNodes
    BY <1>3, <1>6, <1>8, <1>11, <2>1 DEF Found
  <2>2. CASE n \notin MetaNodes
    BY <1>3, <1>9, <2>2, NoneAssumption DEF Found
  <2> QED BY <2>1, <2>2
<1>16. ~use.cacheKept => \A n \in Node : metaCache'[n] = None
  BY <1>2, CacheEmpty DEF Files
<1> QED BY <1>2, <1>13, <1>14, <1>15, <1>16 DEF Files

LEMMA PackReadMetaFiles ==
    ASSUME Base, Base', Files, ~torn', PackReadMeta, use' = use
    PROVE  Files' /\ \A n \in Node : Found(n)' = Found(n)
<1>1. TypeOK /\ TypeOK' /\ Phases /\ Packs
  BY DEF Base
<1>2. /\ UNCHANGED <<nodeFile, state, node, buffer, held, buffered>>
      /\ state = "open" /\ job.pc = "readMeta"
  BY DEF PackReadMeta, streams, At
<1>3. ~Moved /\ ~Moved'
  <2>1. job' = NoJob \/ job'.pc = "entry"
    BY <1>1, GotoEffect DEF PackReadMeta, Pcs
  <2> QED BY <1>2, <2>1 DEF Moved, NoJob
<1>4. \A n \in Node : Data(n)' = Data(n) /\ (Writing(n)' <=> Writing(n))
  BY <1>2, <1>3 DEF Data, Writing
<1>5. CASE toPack = {}
  <2>1. UNCHANGED <<metaFile, metaCache>>
    BY <1>5 DEF PackReadMeta
  <2>2. \A n \in Node : Len(Data(n)') >= Len(Data(n))
    BY <1>1, <1>2, DataLonger DEF Extends
  <2> QED BY <1>1, <1>2, <1>3, <2>1, <2>2, StreamsStay
<1>6. CASE toPack # {}
  <2>1. PICK f \in Node : f = First(toPack) /\ f \in toPack /\ AfterReading({f})
    BY <1>1, <1>6, FirstNode DEF TypeOK, PackReadMeta
  <2>2. f < node /\ metaFile[f] \in Seq(Token)
    BY <1>1, <1>2, <2>1 DEF Packs, Deleting
  <2>3. f # node
    BY <1>1, <2>1, <2>2, NodeNat DEF TypeOK
  <2>4. ~Writing(f) /\ Written(f) = metaFile[f] /\ Written(f)' = metaFile'[f]
    BY <1>2, <1>4, <2>3 DEF Writing, Written
  <2>5. Ended(metaFile[f])
    BY <2>1, <2>2, <2>4 DEF Files, Formed
  <2>6. /\ metaFile'[f] \in Seq(Token) /\ Ended(metaFile'[f])
        /\ Records(metaFile'[f]) = Records(metaFile[f])
        /\ Tokens(metaFile'[f]) \subseteq Tokens(metaFile[f])
    BY <1>1, <2>1, <2>2, <2>5, ReadingSpares
  <2>7. \A n \in Node : n # f => metaFile'[n] = metaFile[n]
    BY <1>1, <2>1, <2>2, AfterReadingEffect
  <2>8. \A n \in Node : n # f => Written(n)' = Written(n)
    BY <1>2, <1>4, <2>7 DEF Written
  <2>9. Formed'
    <3> SUFFICES ASSUME NEW n \in Node, metaFile'[n] \in Seq(Token)
                 PROVE  IF Writing(n)' THEN Begun(Written(n)') ELSE Ended(metaFile'[n])
      BY DEF Formed
    <3>1. CASE n = f
      BY <1>4, <2>4, <2>6, <3>1
    <3>2. CASE n # f
      BY <1>4, <2>7, <2>8, <3>2 DEF Files, Formed
    <3> QED BY <3>1, <3>2
  <2>10. Owned'
    <3> SUFFICES ASSUME NEW n \in Node, metaFile'[n] \in Seq(Token),
                        NEW m \in Tokens(Written(n)'), m.flag = "normal"
                 PROVE  m.node = n /\ m.off < Len(Data(n)')
      BY DEF Owned
    <3>1. CASE n = f
      <4>1. m \in Tokens(Written(n))
        BY <1>2, <1>4, <2>4, <2>6, <3>1 DEF Written
      <4> QED BY <1>4, <2>2, <3>1, <4>1 DEF Files, Owned
    <3>2. CASE n # f
      BY <1>4, <2>7, <2>8, <3>2 DEF Files, Owned
    <3> QED BY <3>1, <3>2
  <2>11. \A n \in Node : Found(n)' = Found(n)
    <3> TAKE n \in Node
    <3>1. CASE n = f
      <4>1. Written(n)' = metaFile'[n] /\ Written(n) = metaFile[n]
        BY <1>4, <2>4, <3>1 DEF Written
      <4> QED BY <2>2, <2>6, <3>1, <4>1 DEF Found
    <3>2. CASE n # f
      BY <2>7, <2>8, <3>2 DEF Found
    <3> QED BY <3>1, <3>2
  <2>12. ~use.cacheKept => \A n \in Node : metaCache'[n] = None
    BY <2>1, CacheEmpty DEF Files
  <2> QED BY <1>2, <2>9, <2>10, <2>11, <2>12 DEF Files
<1> QED BY <1>5, <1>6

LEMMA PackDeleteMetaFiles ==
    ASSUME Base, Files, PackDeleteMeta, use' = use
    PROVE  /\ Files'
           /\ First(toPack) \in Node /\ Found(First(toPack))' = NoMetas
           /\ \A n \in Node : n # First(toPack) => Found(n)' = Found(n)
<1>1. TypeOK /\ Phases /\ Packs
  BY DEF Base
<1> DEFINE f == First(toPack)
<1>2. /\ UNCHANGED <<nodeFile, metaCache, state, node, buffer, held, buffered, toPack>>
      /\ state = "open" /\ job.pc = "entry" /\ metaFile' = [metaFile EXCEPT ![f] = None]
  BY DEF PackDeleteMeta, streams, packing, At
<1>3. f \in toPack /\ f \in Node /\ f < node
  BY <1>1, <1>2, FirstNode DEF Packs, Deleting, TypeOK
<1>4. f' = f
  BY <1>2
<1> HIDE DEF f
<1>5. f # node
  BY <1>1, <1>3, NodeNat DEF TypeOK
<1>6. job'.pc = "deleteNode"
  BY <1>1, GotoEffect DEF PackDeleteMeta, Pcs
<1>7. \A n \in Node : Data(n)' = Data(n) /\ (Writing(n)' <=> Writing(n))
  BY <1>2, <1>6 DEF Data, Writing, Moved
<1>8. metaFile'[f] = None /\ \A n \in Node : n # f => metaFile'[n] = metaFile[n]
  BY <1>1, <1>2, <1>3 DEF TypeOK
<1>9. \A n \in Node : n # f => Written(n)' = Written(n)
  BY <1>2, <1>7, <1>8 DEF Written
<1>10. Formed'
  <2> SUFFICES ASSUME NEW n \in Node, metaFile'[n] \in Seq(Token)
               PROVE  IF Writing(n)' THEN Begun(Written(n)') ELSE Ended(metaFile'[n])
    BY DEF Formed
  <2>1. n # f
    BY <1>8, NoneAssumption
  <2> QED BY <1>7, <1>8, <1>9, <2>1 DEF Files, Formed
<1>11. Owned'
  <2> SUFFICES ASSUME NEW n \in Node, metaFile'[n] \in Seq(Token),
                      NEW m \in Tokens(Written(n)'), m.flag = "normal"
               PROVE  m.node = n /\ m.off < Len(Data(n)')
    BY DEF Owned
  <2>1. n # f
    BY <1>8, NoneAssumption
  <2> QED BY <1>7, <1>8, <1>9, <2>1 DEF Files, Owned
<1>12. \A n \in Node : Found(n)' = IF n = f THEN NoMetas ELSE Found(n)
  BY <1>8, <1>9, NoneAssumption DEF Found
<1>13. Files'
  BY <1>2, <1>10, <1>11 DEF Files
<1>14. Found(f)' = NoMetas
  BY <1>3, <1>4, <1>8, NoneAssumption DEF Found
<1> QED BY <1>3, <1>12, <1>13, <1>14 DEF f

LEMMA PackDeleteNodeFiles ==
    ASSUME Base, Base', Files, PackDeleteNode, use' = use
    PROVE  Files' /\ \A n \in Node : Found(n)' = Found(n)
<1>1. TypeOK /\ TypeOK' /\ Phases /\ Packs
  BY DEF Base
<1> DEFINE f == First(toPack)
<1>2. /\ UNCHANGED <<metaFile, metaCache, state, node, buffer, held, buffered>>
      /\ state = "open" /\ job.pc = "deleteNode" /\ nodeFile' = [nodeFile EXCEPT ![f] = <<>>]
  BY DEF PackDeleteNode, streams, At
<1>3. job'.pc = "readMeta"
  BY <1>1, GotoEffect DEF PackDeleteNode, Pcs
<1>4. metaFile[f] \notin Seq(Token)
  BY <1>1, <1>2, NoneAssumption DEF Packs
<1> HIDE DEF f
<1>5. \A n \in Node : metaFile[n] \in Seq(Token) => Len(Data(n)') >= Len(Data(n))
  <2> TAKE n \in Node
  <2> HAVE metaFile[n] \in Seq(Token)
  <2>1. n # f
    BY <1>4
  <2>2. Data(n)' = Data(n)
    BY <1>1, <1>2, <2>1 DEF Data, TypeOK
  <2>3. Len(Data(n)) \in Nat
    BY <1>1, DataType
  <2> QED BY <2>2, <2>3
<1> QED BY <1>1, <1>2, <1>3, <1>5, StreamsStay DEF Moved

(* Nothing changes but the state: the store cannot be opened, or nothing at all. *)
LEMMA StillFiles ==
    ASSUME Base, Base', Files, state' \in {state, "failed"}, state' = "open" <=> state = "open",
           UNCHANGED <<use, metaFile, nodeFile, metaCache, node, buffer, held, buffered, job>>
    PROVE  Files' /\ \A n \in Node : Found(n)' = Found(n)
<1>1. \A n \in Node : (Writing(n)' <=> Writing(n)) /\ Written(n)' = Written(n) /\ Data(n)' = Data(n)
  BY DEF Writing, Moved, Written, Data
<1>2. \A n \in Node : Len(Data(n)) \in Nat
  BY DataType DEF Base
<1>3. state' # "crashed" /\ TypeOK /\ TypeOK'
  BY DEF Files, Base
<1> QED BY <1>1, <1>2, <1>3, FilesStay


-----------------------------------------------------------------------------
(* What is kept over a close *)

(* The nodes whose files have a meta of the key, the last meta of the key, *)
(* and what it leads to.                                                   *)
Having(k) == {n \in Node : Found(n)[k] # None}

Latest(k) == IF Having(k) = {} THEN None ELSE Found(Last(Having(k)))[k]

LatestPut(k) == Content(Latest(k), IF Latest(k) = None THEN <<>> ELSE Data(Latest(k).node))

(* pack is at the entries of the first of its nodes. *)
Copying == job.pc = "entry" \/ (job.next = "entry" /\ job.pc \notin {"readMeta", "deleteNode"})

Kept ==
    \A k \in Keys : /\ state = "open" => fileMeta[k] = Latest(k)
                    /\ current[k] = LatestPut(k)

(* What pack has gone past in the first node is found in a later one, and  *)
(* what it is about to write is what the key has.                          *)
Copies ==
    /\ Copying => \A k \in Keys : \A f \in Node : f = First(toPack) =>
          /\ entries[k] \in {None, Found(f)[k]}
          /\ entries[k] = None /\ ~(Storing /\ job.value.key = k) /\ f \in Having(k) =>
                Last(Having(k)) # f
    /\ Storing /\ job.next = "entry" =>
          \A k \in Keys : job.value.key = k => job.value.put = LatestPut(k)
Session == "remove" \notin use.calls /\ ~use.cacheKept

LEMMA FoundIs ==
    ASSUME TypeOK, Owned, NEW n \in Node, NEW k \in Keys, Found(n)[k] # None
    PROVE  /\ metaFile[n] \in Seq(Token) /\ Found(n)[k] \in Token
           /\ Found(n)[k].flag = "normal" /\ Found(n)[k].key = k
           /\ Found(n)[k].node = n /\ Found(n)[k].off < Len(Data(n))
<1>1. metaFile[n] \in Seq(Token) /\ Found(n) = Records(Written(n))
  BY DEF Found, NoMetas
<1>2. Written(n) \in Seq(Token)
  BY <1>1, WrittenType
<1>3. /\ Found(n)[k] \in Tokens(Written(n)) /\ Found(n)[k] \in Token
      /\ Found(n)[k].flag = "normal" /\ Found(n)[k].key = k
  BY <1>1, <1>2, RecordsTokens
<1> QED BY <1>1, <1>3 DEF Owned

LEMMA LatestIs ==
    ASSUME TypeOK, Owned, NEW k \in Keys, Latest(k) # None
    PROVE  LET n == Last(Having(k))
           IN  /\ n \in Having(k) /\ n \in Node /\ metaFile[n] \in Seq(Token)
               /\ Latest(k) = Found(n)[k] /\ Latest(k) \in Token
               /\ Latest(k).flag = "normal" /\ Latest(k).key = k
               /\ Latest(k).node = n /\ Latest(k).off < Len(Data(n))
               /\ LatestPut(k) = Content(Latest(k), Data(n))
<1>1. Having(k) \subseteq Node
  BY DEF Having
<1>2. Having(k) # {} /\ Latest(k) = Found(Last(Having(k)))[k]
  BY DEF Latest
<1>3. PICK n \in Having(k) : n = Last(Having(k)) /\ n \in Node /\ Found(n)[k] # None
  BY <1>1, <1>2, LastNode DEF Having
<1>4. /\ metaFile[n] \in Seq(Token) /\ Found(n)[k] \in Token
      /\ Found(n)[k].flag = "normal" /\ Found(n)[k].key = k
      /\ Found(n)[k].node = n /\ Found(n)[k].off < Len(Data(n))
  BY <1>3, FoundIs
<1>5. LatestPut(k) = Content(Latest(k), Data(Latest(k).node))
  BY DEF LatestPut
<1> QED BY <1>2, <1>3, <1>4, <1>5

(* What a meta leads to stays while its data do. *)
LEMMA ContentStays ==
    ASSUME NEW m \in Token, NEW s, NEW t, Extends(s, t), m.off < Len(t), Len(t) \in Nat, Len(s) \in Nat
    PROVE  Content(m, s) = Content(m, t)
<1>1. m.off \in Nat
  BY DEF Token, Meta, Header, End
<1>2. m.off + 1 \in 1 .. Len(t)
  BY <1>1
<1>3. s[m.off + 1] = t[m.off + 1] /\ m.off < Len(s)
  BY <1>1, <1>2 DEF Extends
<1> QED BY <1>3 DEF Content

LEMMA LatestStays ==
    ASSUME NEW k \in Keys, \A n \in Node : Found(n)'[k] = Found(n)[k]
    PROVE  Having(k)' = Having(k) /\ Latest(k)' = Latest(k)
<1>1. Having(k)' = Having(k)
  BY DEF Having
<1>2. Having(k) \subseteq Node
  BY DEF Having
<1>3. CASE Having(k) = {}
  BY <1>1, <1>3 DEF Latest
<1>4. CASE Having(k) # {}
  <2>1. PICK n \in Node : n = Last(Having(k))
    BY <1>2, <1>4, LastNode
  <2>2. n = Last(Having(k))'
    BY <1>1, <2>1 DEF Last
  <2>3. Latest(k) = Found(n)[k]
    BY <1>4, <2>1 DEF Latest
  <2>4. Latest(k)' = Found(n)'[k]
    BY <1>1, <1>4, <2>2, Zenon DEF Latest
  <2> QED BY <1>1, <2>3, <2>4
<1> QED BY <1>3, <1>4

LEMMA LatestPutStays ==
    ASSUME TypeOK, TypeOK', Owned, NEW k \in Keys, Latest(k)' = Latest(k),
           \A n \in Node : metaFile[n] \in Seq(Token) => Extends(Data(n)', Data(n))
    PROVE  LatestPut(k)' = LatestPut(k)
<1>1. CASE Latest(k) = None
  BY <1>1 DEF LatestPut, Content
<1>2. CASE Latest(k) # None
  <2>1. PICK n \in Node : /\ metaFile[n] \in Seq(Token) /\ Latest(k) \in Token
                          /\ Latest(k).node = n /\ Latest(k).off < Len(Data(n))
                          /\ LatestPut(k) = Content(Latest(k), Data(n))
    BY <1>2, LatestIs
  <2>2. PICK m \in Token : m = Latest(k)
    BY <2>1
  <2>3. LatestPut(k)' = Content(m, Data(n)')
    <3>1. m = Latest(k)' /\ m # None /\ m.node = n
      BY <1>2, <2>1, <2>2
    <3>2. LatestPut(k)' = Content(m, Data(m.node)')
      BY <3>1, Zenon DEF LatestPut
    <3> QED BY <3>1, <3>2
  <2>4. Len(Data(n)) \in Nat /\ Len(Data(n)') \in Nat
    <3>1. nodeFile'[n] \in Seq(Value') /\ buffer' \in Seq(Value')
      BY DEF TypeOK
    <3>2. Data(n)' \in Seq(Value')
      BY <3>1 DEF Data
    <3> QED BY <3>2, DataType
  <2> QED BY <2>1, <2>2, <2>3, <2>4, ContentStays
<1> QED BY <1>1, <1>2

(* The files have what they had, and so has every key. *)
LEMMA KeptStays ==
    ASSUME TypeOK, TypeOK', Owned, Kept, current' = current,
           state' = "open" => state = "open" /\ fileMeta' = fileMeta,
           \A n \in Node : Found(n)' = Found(n),
           \A n \in Node : metaFile[n] \in Seq(Token) => Extends(Data(n)', Data(n))
    PROVE  /\ Kept'
           /\ \A k \in Keys : /\ Having(k)' = Having(k) /\ Latest(k)' = Latest(k)
                              /\ LatestPut(k)' = LatestPut(k)
<1>1. \A k \in Keys : /\ Having(k)' = Having(k) /\ Latest(k)' = Latest(k)
                      /\ LatestPut(k)' = LatestPut(k)
  BY LatestStays, LatestPutStays
<1> QED BY <1>1 DEF Kept

(* Outside of pack there is nothing to say of it. *)
LEMMA CopiesOutside ==
    ASSUME ~Copying', ~(Storing' /\ job'.next = "entry")
    PROVE  Copies'
BY DEF Copies

(* A step that is not one of pack leaves what it has done. *)
LEMMA CopiesStay ==
    ASSUME Copies, UNCHANGED <<toPack, entries>>, Copying' => Copying,
           Storing' <=> Storing, job'.value = job.value, job'.next = job.next,
           \A n \in Node : Found(n)' = Found(n),
           \A k \in Keys : Having(k)' = Having(k) /\ LatestPut(k)' = LatestPut(k)
    PROVE  Copies'
<1>1. First(toPack)' = First(toPack) /\ \A k \in Keys : Last(Having(k))' = Last(Having(k))
  BY DEF First, Last
<1>2. ASSUME Copying', NEW k \in Keys, NEW f \in Node, f = First(toPack)'
      PROVE  /\ entries'[k] \in {None, Found(f)'[k]}
             /\ entries'[k] = None /\ ~(Storing' /\ job'.value.key = k) /\ f \in Having(k)' =>
                   Last(Having(k))' # f
  BY <1>1, <1>2 DEF Copies
<1>3. ASSUME Storing', job'.next = "entry", NEW k \in Keys, job'.value.key = k
      PROVE  job'.value.put = LatestPut(k)'
  BY <1>3 DEF Copies
<1> QED BY <1>2, <1>3 DEF Copies

(* The steps of an operation on the data and the streams, but for those    *)
(* that store a value.                                                     *)
LEMMA QuietKept ==
    ASSUME Base, Base', Files, Kept, Copies, use' = use,
           PutSync \/ PutSize \/ Close \/ CloseData \/ Flush \/ Pack
    PROVE  Kept' /\ Copies'
<1>1. TypeOK /\ TypeOK' /\ Owned /\ job \in Jobs /\ job.next \in Nexts /\ Packs
  BY JobType DEF Base, Files, Jobs
<1>2. \A n \in Node : Found(n)' = Found(n) /\ Extends(Data(n)', Data(n))
  BY QuietFiles
<1>3. UNCHANGED <<current, state, fileMeta, entries>> /\ (~Pack => toPack' = toPack)
  BY DEF PutSync, PutSize, Close, CloseData, Flush, Pack, streams, packing, history
<1>4. /\ Kept'
      /\ \A k \in Keys : Having(k)' = Having(k) /\ LatestPut(k)' = LatestPut(k)
  BY <1>1, <1>2, <1>3, KeptStays
<1>5. ~Storing
  BY DEF Storing, PutSync, PutSize, Close, CloseData, Flush, Pack, At
<1>6. CASE Close \/ Flush \/ Pack
  <2>1. job'.pc \in {"closeData", "callback"} /\ job'.next # "entry"
    BY <1>6 DEF Close, Flush, Pack, NoJob
  <2> QED BY <1>4, <2>1, CopiesOutside DEF Copying
<1>7. CASE PutSync
  <2>1. /\ job.pc = "sync" /\ job'.value = job.value /\ job'.next = job.next
        /\ job'.pc = "size" \/ (job'.pc = "callback" /\ job'.then = "size")
    BY <1>1, <1>7, GotoEffect, GotoThen DEF PutSync, Pcs, Thens, At
  <2>2. ~Storing' /\ (Copying' <=> Copying)
    BY <2>1 DEF Storing, Copying
  <2>3. ~Pack
    BY <2>1 DEF Pack, At
  <2> QED BY <1>2, <1>3, <1>4, <1>5, <2>1, <2>2, <2>3, CopiesStay
<1>8. CASE PutSize
  <2>1. /\ job.pc = "size" /\ job'.value = job.value /\ job'.next = job.next
        /\ job'.pc \in {"closeData", job.next}
    BY <1>1, <1>8, GotoEffect, GotoThen DEF PutSize, Pcs, Thens, Nexts, At
  <2>2. ~Storing' /\ (Copying' => Copying)
    BY <1>1, <2>1 DEF Storing, Copying, Nexts
  <2>3. ~Pack
    BY <2>1 DEF Pack, At
  <2> QED BY <1>2, <1>3, <1>4, <1>5, <2>1, <2>2, <2>3, CopiesStay
<1>9. CASE CloseData
  <2>1. /\ job.pc = "closeData" /\ job'.value = job.value /\ job'.next = job.next
        /\ job'.pc \in {"closeCallback", "closeMeta"}
    BY <1>1, <1>9, GotoEffect DEF CloseData, Pcs, At
  <2>2. ~Storing' /\ (Copying' <=> Copying)
    BY <2>1 DEF Storing, Copying
  <2>3. ~Pack
    BY <2>1 DEF Pack, At
  <2> QED BY <1>2, <1>3, <1>4, <1>5, <2>1, <2>2, <2>3, CopiesStay
<1> QED BY <1>6, <1>7, <1>8, <1>9

LEMMA PutKept ==
    ASSUME Base, Base', Files, Kept, Copies, NEW k \in Keys, Put(k), use' = use
    PROVE  Kept' /\ Copies'
<1>1. TypeOK /\ TypeOK' /\ Owned
  BY DEF Base, Files
<1>2. \A n \in Node : Found(n)' = Found(n) /\ Extends(Data(n)', Data(n))
  BY QuietFiles
<1>3. UNCHANGED <<current, state, fileMeta>>
  BY DEF Put, history
<1>4. Kept'
  BY <1>1, <1>2, <1>3, KeptStays
<1>5. job'.pc \in {"callback", "meta"} /\ job'.next = "idle"
  BY DEF Put, Write
<1> QED BY <1>4, <1>5, CopiesOutside DEF Copying

LEMMA CallbackKept ==
    ASSUME Base, Base', Files, Kept, Copies, Callback \/ CloseCallback, use' = use
    PROVE  Kept' /\ Copies'
<1>1. TypeOK /\ TypeOK' /\ Owned /\ Phases
  BY DEF Base, Files
<1>2. \A n \in Node : Found(n)' = Found(n)
  BY CallbackFiles
<1>3. /\ UNCHANGED <<current, state, fileMeta, nodeFile, node, buffer, toPack, entries>>
      /\ \/ job.pc = "callback" /\ job.then \in {"idle", "meta", "size"}
         \/ job.pc = "closeCallback" /\ job.then \in {"newNode", "closed"}
  BY <1>1 DEF Callback, CloseCallback, packing, history, At, Phases
<1>4. \A n \in Node : Extends(Data(n)', Data(n))
  BY <1>1, <1>3, DataLonger
<1>5. /\ Kept'
      /\ \A k \in Keys : Having(k)' = Having(k) /\ LatestPut(k)' = LatestPut(k)
  BY <1>1, <1>2, <1>3, <1>4, KeptStays
<1>6. /\ job'.pc = IF job.pc = "callback" THEN job.then ELSE "closeMeta"
      /\ job'.value = job.value /\ job'.then = job.then /\ job'.next = job.next
  BY <1>1, <1>3, GotoEffect DEF Callback, CloseCallback, At, Pcs
<1>7. (Storing' <=> Storing) /\ (Copying' => Copying)
  BY <1>3, <1>6 DEF Storing, Copying
<1> QED BY <1>2, <1>3, <1>5, <1>6, <1>7, CopiesStay

LEMMA CloseMetaKept ==
    ASSUME Base, Base', Files, Kept, Copies, CloseMeta, use' = use
    PROVE  Kept' /\ Copies'
<1>1. TypeOK /\ TypeOK' /\ Owned /\ Phases
  BY DEF Base, Files
<1>2. \A n \in Node : Found(n)' = Found(n)
  BY CloseMetaFiles
<1>3. /\ UNCHANGED <<current, state, fileMeta, nodeFile, node, buffer, toPack, entries>>
      /\ job.pc = "closeMeta" /\ job.then \in {"newNode", "closed"}
  BY <1>1 DEF CloseMeta, streams, packing, history, At, Phases
<1>4. \A n \in Node : Extends(Data(n)', Data(n))
  BY <1>1, <1>3, DataLonger
<1>5. /\ Kept'
      /\ \A k \in Keys : Having(k)' = Having(k) /\ LatestPut(k)' = LatestPut(k)
  BY <1>1, <1>2, <1>3, <1>4, KeptStays
<1>6. job'.pc = job.then /\ job'.value = job.value /\ job'.then = job.then /\ job'.next = job.next
  BY <1>1, <1>3, GotoEffect DEF CloseMeta, Pcs
<1>7. (Storing' <=> Storing) /\ (Copying' => Copying)
  BY <1>3, <1>6 DEF Storing, Copying
<1> QED BY <1>2, <1>3, <1>5, <1>6, <1>7, CopiesStay

LEMMA NewNodeKept ==
    ASSUME Base, Base', Files, Kept, Copies, NewNode, use' = use
    PROVE  Kept' /\ Copies'
<1>1. TypeOK /\ TypeOK' /\ Owned /\ Phases /\ job \in Jobs
  BY JobType DEF Base, Files
<1>2. \A n \in Node : Found(n)' = Found(n)
  BY NewNodeFiles
<1>3. /\ UNCHANGED <<current, state, fileMeta, nodeFile, toPack, entries>>
      /\ job.pc = "newNode" /\ buffer = <<>> /\ buffer' = <<>> /\ Goto(job.next) /\ job.next \in Nexts
  BY <1>1 DEF NewNode, OpenStreams, packing, history, At, Phases, Jobs
<1>4. \A n \in Node : Extends(Data(n)', Data(n))
  <2> TAKE n \in Node
  <2>1. nodeFile[n] \in Seq(Value) /\ nodeFile[n] \o <<>> = nodeFile[n]
    BY <1>1 DEF TypeOK
  <2>2. Data(n)' = nodeFile[n] /\ Data(n) = nodeFile[n]
    BY <1>3, <2>1 DEF Data
  <2> QED BY <2>1, <2>2 DEF Extends
<1>5. /\ Kept'
      /\ \A k \in Keys : Having(k)' = Having(k) /\ LatestPut(k)' = LatestPut(k)
  BY <1>1, <1>2, <1>3, <1>4, KeptStays
<1>6. job'.pc = job.next /\ job'.value = job.value /\ job'.then = job.then /\ job'.next = job.next
  BY <1>1, <1>3, GotoEffect DEF Pcs, Nexts
<1>7. ~Storing' /\ ~Storing /\ (Copying' => Copying)
  BY <1>3, <1>6 DEF Storing, Copying, Nexts
<1> QED BY <1>2, <1>3, <1>5, <1>6, <1>7, CopiesStay

LEMMA ClosedKept ==
    ASSUME Base, Base', Files, Kept, Copies, Closed, use' = use
    PROVE  Kept' /\ Copies'
<1>1. TypeOK /\ TypeOK' /\ Owned /\ Phases
  BY DEF Base, Files
<1>2. \A n \in Node : Found(n)' = Found(n)
  BY ClosedFiles
<1>3. /\ UNCHANGED <<current, nodeFile, node>> /\ state' = "closed"
      /\ job.pc = "closed" /\ buffer = <<>> /\ buffer' = <<>> /\ job' = NoJob
  BY <1>1 DEF Closed, At, Phases
<1>4. \A n \in Node : Extends(Data(n)', Data(n))
  BY <1>1, <1>3, DataLonger
<1>5. Kept'
  BY <1>1, <1>2, <1>3, <1>4, KeptStays
<1>6. job'.pc = "idle" /\ job'.next = "idle"
  BY <1>3 DEF NoJob
<1> QED BY <1>5, <1>6, CopiesOutside DEF Copying

(* Opening finds of each key the last meta of the files. *)
LEMMA OpenKept ==
    ASSUME Base, Base', Files, ~torn', Session, Kept, Copies, Open, use' = use
    PROVE  Kept' /\ Copies'
<1>1. TypeOK /\ TypeOK' /\ Owned /\ Phases
  BY DEF Base, Files
<1>2. \A n \in Node : Found(n)' = Found(n)
  BY OpenFiles
<1>3. /\ nodeFile' = nodeFile /\ state \in {"closed", "crashed"} /\ state # "crashed"
      /\ job = NoJob /\ job' = job /\ buffer = <<>> /\ buffer' = <<>> /\ fileMeta' = AllMetas
  BY <1>1 DEF Open, OpenStreams, Files, Phases
<1>4. current' = current /\ state' = "open"
  BY <1>3 DEF Open
<1>5. \A n \in Node : Extends(Data(n)', Data(n))
  <2> TAKE n \in Node
  <2>1. nodeFile[n] \in Seq(Value) /\ nodeFile[n] \o <<>> = nodeFile[n]
    BY <1>1 DEF TypeOK
  <2>2. Data(n)' = nodeFile[n] /\ Data(n) = nodeFile[n]
    BY <1>3, <2>1 DEF Data
  <2> QED BY <2>1, <2>2 DEF Extends
<1>6. \A n \in MetaNodes : metaFile[n] \in Seq(Token) /\ ReadMeta(n) = Found(n)
  <2> TAKE n \in MetaNodes
  <2>1. n \in Node /\ metaFile[n] \in Seq(Token) /\ metaCache[n] = None
    BY <1>1 DEF MetaNodes, TypeOK, Files, Session
  <2>2. Written(n) = metaFile[n]
    BY <1>3 DEF Written, Writing
  <2> QED BY <2>1, <2>2 DEF ReadMeta, Found
<1>7. \A k \in Keys : {n \in MetaNodes : ReadMeta(n)[k] # None} = Having(k)
  <2> TAKE k \in Keys
  <2>1. \A n \in Node : n \notin MetaNodes => Found(n)[k] = None
    BY NoneAssumption DEF MetaNodes, Found, NoMetas
  <2>2. \A n \in MetaNodes : n \in Node
    BY DEF MetaNodes
  <2> QED BY <1>6, <2>1, <2>2 DEF Having
<1>8. \A k \in Keys : AllMetas[k] = Latest(k)
  <2> TAKE k \in Keys
  <2>1. AllMetas[k] = IF Having(k) = {} THEN None ELSE ReadMeta(Last(Having(k)))[k]
    BY <1>7 DEF AllMetas
  <2>2. Having(k) # {} => Last(Having(k)) \in Having(k)
    <3>1. Having(k) \subseteq Node
      BY DEF Having
    <3> QED BY <3>1, LastNode
  <2>3. Having(k) \subseteq MetaNodes
    BY <1>7
  <2> QED BY <1>6, <2>1, <2>2, <2>3 DEF Latest
<1>9. \A k \in Keys : Latest(k)' = Latest(k) /\ LatestPut(k)' = LatestPut(k)
  BY <1>1, <1>2, <1>5, LatestStays, LatestPutStays
<1>10. Kept'
  BY <1>3, <1>4, <1>8, <1>9 DEF Kept
<1>11. job'.pc = "idle" /\ job'.next = "idle"
  BY <1>3 DEF NoJob
<1> QED BY <1>10, <1>11, CopiesOutside DEF Copying

(* The meta m of a put to the key k is the last one of that key, and it is *)
(* in the current node n.                                                  *)
MetaPut(n, k, m) ==
    /\ n = node /\ k = job.value.key
    /\ fileMeta' = [fileMeta EXCEPT ![k] = m]
    /\ \A l \in Keys : Found(n)'[l] = IF l = k THEN m ELSE Found(n)[l]
    /\ \A p \in Node : p # n => Found(p)' = Found(p)
    /\ Last(Having(k)') = n /\ Latest(k)' = m /\ LatestPut(k)' = job.value.put
    /\ \A l \in Keys : l # k => /\ Having(l)' = Having(l) /\ Latest(l)' = Latest(l)
                                /\ LatestPut(l)' = LatestPut(l)

LEMMA PutMetaLatest ==
    ASSUME Base, Base', Files, PutMeta, use' = use
    PROVE  \E n \in Node : \E k \in Keys : \E m \in Token : MetaPut(n, k, m)
<1>1. TypeOK /\ TypeOK' /\ Owned /\ Phases /\ Packs /\ job \in Jobs
  BY JobType DEF Base, Files
<1>2. /\ UNCHANGED <<nodeFile, state, node, buffer, toPack, entries>>
      /\ state = "open" /\ job.pc = "meta" /\ job.value.key \in Keys
  BY <1>1 DEF PutMeta, packing, At, Phases, Storing
<1>3. PICK n \in Node : n = node
  BY <1>1 DEF TypeOK
<1>4. PICK k \in Keys : k = job.value.key
  BY <1>2
<1>5. PICK m \in Token : /\ m = [flag |-> "normal", key |-> k, node |-> n, off |-> Size - 1]
                         /\ \A l \in Keys : Found(n)'[l] = IF l = k THEN m ELSE Found(n)[l]
                         /\ \A p \in Node : p # n => Found(p)' = Found(p)
                         /\ m.off < Len(Data(n)) /\ Data(n)[m.off + 1] = job.value
  <2> DEFINE t == [flag |-> "normal", key |-> job.value.key, node |-> node, off |-> Size - 1]
  <2>1. /\ \A p \in Node : p # node => Found(p)' = Found(p)
        /\ \A l \in Keys : Found(node)'[l] = IF l = t.key THEN t ELSE Found(node)[l]
        /\ t \in Token /\ t.off < Len(Data(node)) /\ Data(node)[t.off + 1] = job.value
    BY PutMetaFiles
  <2>2. t.key = k /\ t = [flag |-> "normal", key |-> k, node |-> n, off |-> Size - 1]
    BY <1>3, <1>4
  <2> HIDE DEF t
  <2>3. \A l \in Keys : Found(n)'[l] = Found(node)'[l]
    BY <1>2, <1>3 DEF Found, Written, Writing
  <2> QED BY <1>3, <2>1, <2>2, <2>3
<1>6. m.key = k /\ m.node = n /\ m # None
  BY <1>5, NoneAssumption
<1>7. /\ fileMeta' = [fileMeta EXCEPT ![k] = m]
      /\ current' = IF job.next = "idle" THEN [current EXCEPT ![k] = job.value.put] ELSE current
  BY <1>3, <1>4, <1>5 DEF PutMeta
<1>8. \A p \in Node : Data(p)' = Data(p) /\ Len(Data(p)) \in Nat
  BY <1>1, <1>2, DataType DEF Data
<1>9. job'.pc = "sync" /\ job'.value = job.value /\ job'.next = job.next
  BY <1>1, GotoEffect DEF PutMeta, Pcs
<1>10. Having(k)' = Having(k) \union {n} /\ Having(k)' \subseteq Node
  BY <1>3, <1>5, <1>6 DEF Having
<1>11. \A p \in Having(k)' : p <= n
  <2> SUFFICES ASSUME NEW p \in Having(k), p # n PROVE p <= n
    BY <1>3, <1>10, NodeNat
  <2>1. p \in Node /\ Found(p)[k] # None
    BY DEF Having
  <2>2. metaFile[p] # None
    BY <1>1, <2>1, FoundIs, NoneAssumption
  <2>3. ~(n < p)
    BY <1>1, <1>2, <1>3, <2>1, <2>2 DEF Phases
  <2> QED BY <1>3, <2>1, <2>3, NodeNat
<1>12. Last(Having(k)') = n
  BY <1>10, <1>11, LastIs
<1>13. Latest(k)' = m
  <2>1. Having(k)' # {} /\ Last(Having(k))' = n
    BY <1>10, <1>12 DEF Last
  <2>2. Latest(k)' = Found(n)'[k]
    BY <2>1, Zenon DEF Latest
  <2> QED BY <1>5, <2>2
<1>14. LatestPut(k)' = job.value.put
  <2>1. LatestPut(k)' = Content(m, Data(m.node)')
    BY <1>6, <1>13, Zenon DEF LatestPut
  <2>2. Data(m.node)' = Data(n)
    BY <1>6, <1>8
  <2>3. Content(m, Data(n)) = job.value.put
    BY <1>4, <1>5, <1>6 DEF Content
  <2> QED BY <2>1, <2>2, <2>3
<1>15. \A l \in Keys : l # k => /\ Having(l)' = Having(l) /\ Latest(l)' = Latest(l)
                                /\ LatestPut(l)' = LatestPut(l)
  <2> TAKE l \in Keys
  <2> HAVE l # k
  <2>1. \A p \in Node : Found(p)'[l] = Found(p)[l]
    BY <1>5
  <2>2. Having(l)' = Having(l) /\ Latest(l)' = Latest(l)
    BY <2>1, LatestStays
  <2>3. \A p \in Node : Extends(Data(p)', Data(p))
    BY <1>8 DEF Extends
  <2> QED BY <1>1, <2>2, <2>3, LatestPutStays
<1>16. MetaPut(n, k, m)
  BY <1>3, <1>4, <1>5, <1>6, <1>7, <1>12, <1>13, <1>14, <1>15 DEF MetaPut
<1> QED BY <1>16

LEMMA PutMetaKept ==
    ASSUME Base, Base', Files, Kept, Copies, PutMeta, use' = use
    PROVE  Kept' /\ Copies'
<1>1. TypeOK /\ TypeOK' /\ Owned /\ Phases /\ Packs /\ job \in Jobs
  BY JobType DEF Base, Files
<1>2. /\ UNCHANGED <<nodeFile, state, node, buffer, toPack, entries>>
      /\ state = "open" /\ job.pc = "meta" /\ job.value.key \in Keys
  BY <1>1 DEF PutMeta, packing, At, Phases, Storing
<1>3. PICK n \in Node : \E k \in Keys : \E m \in Token : MetaPut(n, k, m)
  BY PutMetaLatest
<1>4. PICK k \in Keys : \E m \in Token : MetaPut(n, k, m)
  BY <1>3
<1>5. PICK m \in Token : MetaPut(n, k, m)
  BY <1>4
<1>6. /\ n = node /\ k = job.value.key
      /\ fileMeta' = [fileMeta EXCEPT ![k] = m]
      /\ \A l \in Keys : Found(n)'[l] = IF l = k THEN m ELSE Found(n)[l]
      /\ \A p \in Node : p # n => Found(p)' = Found(p)
      /\ Last(Having(k)') = n /\ Latest(k)' = m /\ LatestPut(k)' = job.value.put
      /\ \A l \in Keys : l # k => /\ Having(l)' = Having(l) /\ Latest(l)' = Latest(l)
                                  /\ LatestPut(l)' = LatestPut(l)
  BY <1>5 DEF MetaPut
<1>7. current' = IF job.next = "idle" THEN [current EXCEPT ![k] = job.value.put] ELSE current
  BY <1>6 DEF PutMeta
<1>8. job'.pc = "sync" /\ job'.value = job.value /\ job'.next = job.next
  BY <1>1, GotoEffect DEF PutMeta, Pcs
<1>9. job.next \in {"idle", "entry"}
  <2>1. job.next \in Nexts
    BY <1>1 DEF Jobs
  <2> QED BY <1>1, <1>2, <2>1 DEF Packs, Nexts
<1>10. Kept'
  <2> SUFFICES ASSUME NEW l \in Keys PROVE fileMeta'[l] = Latest(l)' /\ current'[l] = LatestPut(l)'
    BY DEF Kept
  <2>1. fileMeta[l] = Latest(l) /\ current[l] = LatestPut(l) /\ l \in DOMAIN fileMeta /\ l \in DOMAIN current
    BY <1>1, <1>2 DEF Kept, TypeOK
  <2>2. CASE l # k
    BY <1>7, <1>6, <2>1, <2>2
  <2>3. CASE l = k
    <3>1. fileMeta'[l] = m
      BY <1>6, <2>1, <2>3
    <3>2. CASE job.next = "idle"
      BY <1>7, <1>6, <2>1, <2>3, <3>1, <3>2
    <3>3. CASE job.next = "entry"
      <4>1. job.value.put = LatestPut(k)
        BY <1>2, <1>6, <3>3 DEF Copies, Storing
      <4> QED BY <1>7, <1>6, <2>1, <2>3, <3>1, <3>3, <4>1
    <3> QED BY <1>9, <3>2, <3>3
  <2> QED BY <2>2, <2>3
<1>11. Copies'
  <2>1. ~Storing' /\ (Copying' <=> Copying) /\ Storing
    BY <1>2, <1>8 DEF Storing, Copying
  <2>2. ASSUME Copying', NEW l \in Keys, NEW f \in Node, f = First(toPack)'
        PROVE  /\ entries'[l] \in {None, Found(f)'[l]}
               /\ entries'[l] = None /\ f \in Having(l)' => Last(Having(l))' # f
    <3>1. f = First(toPack) /\ Copying
      BY <1>2, <2>1, <2>2 DEF First
    <3>2. job.next = "entry"
      BY <1>2, <3>1 DEF Copying
    <3>3. f \in toPack /\ f < node
      <4>1. toPack # {} /\ toPack \subseteq Node
        BY <1>1, <1>2, <3>2 DEF Packs, TypeOK
      <4> QED BY <1>1, <3>1, <3>2, <4>1, FirstNode DEF Packs, Deleting
    <3>4. f # n
      BY <1>6, <3>3, NodeNat
    <3>5. entries[l] \in {None, Found(f)[l]}
          /\ (entries[l] = None /\ ~(Storing /\ job.value.key = l) /\ f \in Having(l) => Last(Having(l)) # f)
      BY <3>1 DEF Copies
    <3>6. CASE l = k
      BY <1>2, <1>6, <3>4, <3>5, <3>6 DEF Last
    <3>7. CASE l # k
      <4>1. Last(Having(l))' = Last(Having(l)) /\ Having(l)' = Having(l)
        BY <1>6, <3>7 DEF Last
      <4> QED BY <1>2, <1>6, <3>4, <3>5, <3>7, <4>1
    <3> QED BY <3>6, <3>7
  <2> QED BY <2>1, <2>2 DEF Copies
<1> QED BY <1>10, <1>11

LEMMA PackReadMetaKept ==
    ASSUME Base, Base', Files, ~torn', Session, Kept, Copies, PackReadMeta, use' = use
    PROVE  Kept' /\ Copies'
<1>1. TypeOK /\ TypeOK' /\ Owned /\ Phases /\ Packs
  BY DEF Base, Files
<1>2. \A n \in Node : Found(n)' = Found(n)
  BY PackReadMetaFiles
<1>3. /\ UNCHANGED <<nodeFile, state, node, buffer, fileMeta, toPack, current>>
      /\ state = "open" /\ job.pc = "readMeta"
  BY DEF PackReadMeta, streams, At
<1>4. \A n \in Node : Extends(Data(n)', Data(n))
  BY <1>1, <1>3, DataLonger
<1>5. /\ Kept'
      /\ \A k \in Keys : Having(k)' = Having(k) /\ LatestPut(k)' = LatestPut(k)
  BY <1>1, <1>2, <1>3, <1>4, KeptStays
<1>6. CASE toPack = {}
  <2>1. job' = NoJob
    BY <1>6 DEF PackReadMeta
  <2>2. job'.pc = "idle" /\ job'.next = "idle"
    BY <2>1 DEF NoJob
  <2> QED BY <1>5, <2>2, CopiesOutside DEF Copying
<1>7. CASE toPack # {}
  <2>1. PICK f \in Node : f = First(toPack) /\ f \in toPack
    BY <1>1, <1>7, FirstNode DEF TypeOK
  <2>2. entries' = ReadMeta(f) /\ job'.pc = "entry"
    BY <1>1, <1>7, <2>1, GotoEffect DEF PackReadMeta, Pcs
  <2>3. metaFile[f] \in Seq(Token) /\ f < node /\ f # node
    <3>1. metaFile[f] \in Seq(Token) /\ f < node
      BY <1>1, <1>3, <2>1 DEF Packs, Deleting
    <3> QED BY <1>1, <3>1, NodeNat DEF TypeOK
  <2>4. ReadMeta(f) = Found(f)
    BY <2>3 DEF ReadMeta, Found, Written, Writing, Files, Session
  <2>5. ~Storing'
    BY <2>2 DEF Storing
  <2>6. ASSUME NEW k \in Keys, NEW g \in Node, g = First(toPack)'
        PROVE  /\ entries'[k] \in {None, Found(g)'[k]}
               /\ entries'[k] = None /\ g \in Having(k)' => Last(Having(k))' # g
    <3>1. g = f
      BY <1>3, <2>1, <2>6 DEF First
    <3>2. entries'[k] = Found(f)'[k]
      BY <1>2, <2>2, <2>4
    <3>3. f \in Having(k)' => Found(f)'[k] # None
      BY DEF Having
    <3> QED BY <3>1, <3>2, <3>3
  <2>7. Copies'
    BY <2>5, <2>6 DEF Copies
  <2> QED BY <1>5, <2>7
<1> QED BY <1>6, <1>7

LEMMA PackEntryKept ==
    ASSUME Base, Base', Files, Kept, Copies, NEW k \in Keys, PackEntry(k), use' = use
    PROVE  Kept' /\ Copies'
<1>1. TypeOK /\ TypeOK' /\ Owned /\ Phases /\ Packs
  BY DEF Base, Files
<1>2. \A n \in Node : Found(n)' = Found(n) /\ Extends(Data(n)', Data(n))
  BY QuietFiles
<1>3. /\ UNCHANGED <<state, node, fileMeta, toPack, current>>
      /\ state = "open" /\ job.pc = "entry" /\ entries[k] # None
      /\ entries' = [entries EXCEPT ![k] = None]
  BY DEF PackEntry, history, At
<1>4. /\ Kept'
      /\ \A l \in Keys : Having(l)' = Having(l) /\ LatestPut(l)' = LatestPut(l)
  BY <1>1, <1>2, <1>3, KeptStays
<1>5. PICK f \in Node : f = First(toPack) /\ f \in toPack /\ f < node /\ f # node
  <2>1. toPack # {} /\ toPack \subseteq Node
    BY <1>1, <1>3 DEF Packs, TypeOK
  <2>2. First(toPack) \in toPack /\ First(toPack) < node
    BY <1>1, <1>3, <2>1, FirstNode DEF Packs, Deleting
  <2>3. PICK g \in Node : g = First(toPack)
    BY <2>1, <2>2
  <2>4. g # node
    BY <1>1, <2>2, <2>3, NodeNat DEF TypeOK
  <2> QED BY <2>2, <2>3, <2>4
<1>6. f = First(toPack)'
  BY <1>3, <1>5 DEF First
<1>7. entries[k] = Found(f)[k] /\ Found(f)[k] # None
  BY <1>3, <1>5 DEF Copies, Copying
<1>8. entries[k].flag = "normal" /\ entries[k].node = f /\ entries[k].key = k
  BY <1>1, <1>7, FoundIs
<1>9. \A l \in Keys : entries'[l] = IF l = k THEN None ELSE entries[l]
  BY <1>1, <1>3 DEF TypeOK
<1>10. \A l \in Keys : Last(Having(l))' = Last(Having(l))
  BY <1>4 DEF Last
<1>11. \A l \in Keys : /\ entries[l] \in {None, Found(f)[l]}
                       /\ entries[l] = None /\ f \in Having(l) => Last(Having(l)) # f
  BY <1>3, <1>5 DEF Copies, Copying, Storing
<1>12. fileMeta[k] = Latest(k) /\ current[k] = LatestPut(k)
  BY <1>3 DEF Kept
<1>13. CASE fileMeta[k] = entries[k]
  <2> DEFINE v == [key |-> k, put |-> Content(entries[k], nodeFile[entries[k].node])]
  <2>1. Write(v, "entry")
    BY <1>8, <1>13 DEF PackEntry
  <2>2. v.key = k /\ v.put = LatestPut(k)
    <3>1. Latest(k) # None /\ Latest(k) = entries[k]
      BY <1>7, <1>12, <1>13
    <3>2. LatestPut(k) = Content(entries[k], Data(f))
      BY <1>8, <3>1 DEF LatestPut
    <3>3. Data(f) = nodeFile[f]
      BY <1>5 DEF Data
    <3> QED BY <1>8, <3>2, <3>3
  <2> HIDE DEF v
  <2>3. job'.pc \in {"callback", "meta"} /\ job'.value = v /\ job'.then = "meta" /\ job'.next = "entry"
    BY <2>1 DEF Write
  <2>4. Storing'
    BY <2>3 DEF Storing
  <2>5. ASSUME NEW l \in Keys, job'.value.key = l PROVE job'.value.put = LatestPut(l)'
    BY <1>4, <2>2, <2>3, <2>5
  <2>6. ASSUME NEW l \in Keys, NEW g \in Node, g = First(toPack)'
        PROVE  /\ entries'[l] \in {None, Found(g)'[l]}
               /\ entries'[l] = None /\ ~(Storing' /\ job'.value.key = l) /\ g \in Having(l)' =>
                     Last(Having(l))' # g
    <3>1. g = f
      BY <1>6, <2>6
    <3> QED BY <1>2, <1>4, <1>9, <1>10, <1>11, <2>2, <2>3, <2>4, <3>1
  <2>7. Copies'
    BY <2>4, <2>5, <2>6 DEF Copies
  <2> QED BY <1>4, <2>7
<1>14. CASE fileMeta[k] # entries[k]
  <2>1. job' = job
    BY <1>14 DEF PackEntry
  <2>2. ~Storing' /\ job'.pc = "entry"
    BY <1>3, <2>1 DEF Storing
  <2>3. Last(Having(k)) # f
    <3> SUFFICES ASSUME Last(Having(k)) = f PROVE FALSE
      OBVIOUS
    <3>1. f \in Having(k)
      BY <1>7 DEF Having
    <3>2. Latest(k) = Found(f)[k]
      BY <3>1 DEF Latest
    <3> QED BY <1>7, <1>12, <1>14, <3>2
  <2>4. ASSUME NEW l \in Keys, NEW g \in Node, g = First(toPack)'
        PROVE  /\ entries'[l] \in {None, Found(g)'[l]}
               /\ entries'[l] = None /\ g \in Having(l)' => Last(Having(l))' # g
    <3>1. g = f
      BY <1>6, <2>4
    <3> QED BY <1>2, <1>4, <1>9, <1>10, <1>11, <2>3, <3>1
  <2>5. Copies'
    BY <2>2, <2>4 DEF Copies
  <2> QED BY <1>4, <2>5
<1> QED BY <1>13, <1>14

LEMMA PackDeleteMetaKept ==
    ASSUME Base, Base', Files, Kept, Copies, PackDeleteMeta, use' = use
    PROVE  Kept' /\ Copies'
<1>1. TypeOK /\ TypeOK' /\ Owned /\ Phases /\ Packs
  BY DEF Base, Files
<1>2. /\ UNCHANGED <<nodeFile, state, node, buffer, fileMeta, toPack, current>>
      /\ state = "open" /\ job.pc = "entry" /\ entries = NoMetas
      /\ metaFile' = [metaFile EXCEPT ![First(toPack)] = None]
  BY DEF PackDeleteMeta, streams, packing, history, At
<1>3. PICK f \in Node : f = First(toPack)
  BY PackDeleteMetaFiles
<1>4. \A n \in Node : Found(n)' = IF n = f THEN NoMetas ELSE Found(n)
  <2>1. \A n \in Node : n # f => Found(n)' = Found(n)
    BY <1>3, PackDeleteMetaFiles
  <2>2. Found(f)' = NoMetas
    <3>1. metaFile'[f] = None
      BY <1>1, <1>2, <1>3 DEF TypeOK
    <3> QED BY <3>1, NoneAssumption DEF Found
  <2> QED BY <2>1, <2>2
<1>5. \A n \in Node : Data(n)' = Data(n) /\ Len(Data(n)) \in Nat
  BY <1>1, <1>2, DataType DEF Data
<1>6. \A k \in Keys : Latest(k)' = Latest(k)
  <2> TAKE k \in Keys
  <2>1. f \in Having(k) => Last(Having(k)) # f
    BY <1>2, <1>3 DEF Copies, Copying, Storing, NoMetas
  <2>2. Having(k) \subseteq Node /\ Having(k)' = Having(k) \ {f}
    BY <1>4 DEF Having, NoMetas
  <2>3. CASE Having(k) = {}
    BY <2>2, <2>3 DEF Latest
  <2>4. CASE Having(k) # {}
    <3>1. PICK n \in Having(k) : n = Last(Having(k)) /\ \A p \in Having(k) : p <= n
      BY <2>2, <2>4, LastNode
    <3>2. n # f /\ n \in Node
      BY <2>1, <2>2, <3>1
    <3>3. n \in Having(k)' /\ Having(k)' \subseteq Node /\ \A p \in Having(k)' : p <= n
      BY <2>2, <3>1, <3>2
    <3>4. Last(Having(k)') = n
      BY <3>3, LastIs
    <3>5. Having(k)' # {} /\ Last(Having(k))' = n
      BY <3>3, <3>4 DEF Last
    <3>6. Latest(k)' = Found(n)'[k]
      BY <3>5, Zenon DEF Latest
    <3>7. Latest(k) = Found(n)[k]
      BY <2>4, <3>1 DEF Latest
    <3> QED BY <1>4, <3>2, <3>6, <3>7
  <2> QED BY <2>3, <2>4
<1>7. \A k \in Keys : LatestPut(k)' = LatestPut(k)
  <2>1. \A n \in Node : Extends(Data(n)', Data(n))
    BY <1>5 DEF Extends
  <2> QED BY <1>1, <1>6, <2>1, LatestPutStays
<1>8. Kept'
  BY <1>2, <1>6, <1>7 DEF Kept
<1>9. job'.pc = "deleteNode"
  BY <1>1, GotoEffect DEF PackDeleteMeta, Pcs
<1>10. ~Storing' /\ ~Copying'
  BY <1>9 DEF Storing, Copying
<1> QED BY <1>8, <1>10, CopiesOutside

LEMMA PackDeleteNodeKept ==
    ASSUME Base, Base', Files, Kept, Copies, PackDeleteNode, use' = use
    PROVE  Kept' /\ Copies'
<1>1. TypeOK /\ TypeOK' /\ Owned /\ Phases /\ Packs
  BY DEF Base, Files
<1>2. /\ UNCHANGED <<metaFile, state, node, buffer, fileMeta, current>>
      /\ state = "open" /\ job.pc = "deleteNode"
      /\ nodeFile' = [nodeFile EXCEPT ![First(toPack)] = <<>>]
  BY DEF PackDeleteNode, streams, history, At
<1>3. metaFile[First(toPack)] = None
  BY <1>1, <1>2 DEF Packs
<1>4. \A n \in Node : Found(n)' = Found(n)
  BY PackDeleteNodeFiles
<1>5. \A n \in Node : metaFile[n] \in Seq(Token) => Extends(Data(n)', Data(n))
  <2> TAKE n \in Node
  <2> HAVE metaFile[n] \in Seq(Token)
  <2>1. n # First(toPack)
    BY <1>3, NoneAssumption
  <2>2. nodeFile'[n] = nodeFile[n]
    BY <1>1, <1>2, <2>1 DEF TypeOK
  <2>3. Data(n)' = Data(n)
    BY <1>2, <2>2 DEF Data
  <2>4. Len(Data(n)) \in Nat
    BY <1>1, DataType
  <2> QED BY <2>3, <2>4 DEF Extends
<1>6. Kept'
  BY <1>1, <1>2, <1>4, <1>5, KeptStays
<1>7. job'.pc = "readMeta"
  BY <1>1, GotoEffect DEF PackDeleteNode, Pcs
<1> QED BY <1>6, <1>7, CopiesOutside DEF Copying, Storing

LEMMA StillKept ==
    ASSUME Base, Base', Files, Kept, Copies,
           state' \in {state, "failed"}, state' = "open" <=> state = "open",
           UNCHANGED <<use, metaFile, nodeFile, metaCache, node, buffer, held, buffered, job>>,
           UNCHANGED <<fileMeta, current, toPack, entries>>
    PROVE  Kept' /\ Copies'
<1>1. TypeOK /\ TypeOK' /\ Owned
  BY DEF Base, Files
<1>2. \A n \in Node : Found(n)' = Found(n)
  BY StillFiles
<1>3. \A n \in Node : Extends(Data(n)', Data(n))
  BY <1>1, DataLonger
<1>4. /\ Kept'
      /\ \A k \in Keys : Having(k)' = Having(k) /\ LatestPut(k)' = LatestPut(k)
  BY <1>1, <1>2, <1>3, KeptStays
<1>5. (Copying' <=> Copying) /\ (Storing' <=> Storing) /\ First(toPack)' = First(toPack)
      /\ \A k \in Keys : Last(Having(k))' = Last(Having(k))
  BY <1>4 DEF Copying, Storing, First, Last
<1>6. ASSUME Copying, NEW k \in Keys, NEW f \in Node, f = First(toPack)
      PROVE  /\ entries'[k] \in {None, Found(f)'[k]}
             /\ entries'[k] = None /\ ~(Storing' /\ job'.value.key = k) /\ f \in Having(k)' =>
                   Last(Having(k))' # f
  BY <1>2, <1>4, <1>5, <1>6 DEF Copies
<1>7. ASSUME Storing', job'.next = "entry", NEW k \in Keys, job'.value.key = k
      PROVE  job'.value.put = LatestPut(k)'
  BY <1>4, <1>5, <1>7 DEF Copies
<1> QED BY <1>4, <1>5, <1>6, <1>7 DEF Copies

LEMMA InitKept == Init => Kept /\ Copies
<1> SUFFICES ASSUME Init PROVE Kept /\ Copies
  OBVIOUS
<1>1. /\ state = "closed" /\ job = NoJob /\ current = [k \in Keys |-> 0]
      /\ \A n \in Node : metaFile[n] \in {<<>>, None}
  BY DEF Init
<1>2. \A n \in Node : Found(n) = NoMetas
  <2> TAKE n \in Node
  <2>1. Written(n) = metaFile[n]
    BY <1>1 DEF Written, Writing
  <2>2. CASE metaFile[n] = <<>>
    <3>1. <<>> \in Seq(Token)
      OBVIOUS
    <3> QED BY <2>1, <2>2, <3>1, NoRecords DEF Found
  <2>3. CASE metaFile[n] = None
    BY <2>3, NoneAssumption DEF Found
  <2> QED BY <1>1, <2>2, <2>3
<1>3. \A k \in Keys : Having(k) = {}
  BY <1>2 DEF Having, NoMetas
<1>4. \A k \in Keys : LatestPut(k) = 0
  BY <1>3 DEF Latest, LatestPut, Content
<1>5. job.pc = "idle" /\ job.next = "idle"
  BY <1>1 DEF NoJob
<1>6. Kept
  BY <1>1, <1>4 DEF Kept
<1>7. Copies
  BY <1>5 DEF Copies, Copying, Storing
<1> QED BY <1>6, <1>7

(* The invariant of the sessions. *)
Sessions == Base /\ (Undisturbed => Files /\ (Session => Kept /\ Copies))

LEMMA StepSessions == Sessions /\ [Next]_vars => Sessions'
<1> SUFFICES ASSUME Sessions, [Next]_vars, Undisturbed'
             PROVE  Files' /\ (Session' => Kept' /\ Copies')
  BY StepBase DEF Sessions
<1>1. Base /\ Base'
  BY StepBase DEF Sessions
<1>2. use' = use /\ (Session' <=> Session)
  BY DEF Next, vars, Session
<1>3. crashes \in Nat /\ torn \in BOOLEAN
  <2>1. use.maxCrashes \in Nat /\ crashes \in 0 .. use.maxCrashes /\ torn \in BOOLEAN
    BY <1>1, UseTypes DEF Base, TypeOK
  <2> QED BY <2>1
<1>4. CASE UNCHANGED vars
  <2>1. /\ UNCHANGED <<metaFile, nodeFile, metaCache, node, buffer, held, buffered, job>>
        /\ UNCHANGED <<fileMeta, current, toPack, entries, state, torn, crashes>>
    BY <1>4 DEF vars, disk, streams, packing, counts, history
  <2>2. Files /\ (Session => Kept /\ Copies)
    BY <2>1 DEF Sessions, Undisturbed
  <2> QED BY <1>1, <1>2, <2>1, <2>2, StillFiles, StillKept
<1>5. CASE Step
  <2>1. ~Crash
    BY <1>3 DEF Crash, Undisturbed
  <2>2. CASE OpenFails
    <3>1. /\ UNCHANGED <<metaFile, nodeFile, metaCache, node, buffer, held, buffered, job>>
          /\ UNCHANGED <<fileMeta, current, toPack, entries, torn, crashes>>
          /\ state # "open" /\ state' = "failed"
      BY <2>2 DEF OpenFails, disk, streams, packing, history
    <3>2. Files /\ (Session => Kept /\ Copies)
      BY <3>1 DEF Sessions, Undisturbed
    <3> QED BY <1>1, <1>2, <3>1, <3>2, StillFiles, StillKept
  <2>3. CASE Open \/ PackReadMeta
    <3>1. crashes' = crashes /\ (torn => torn')
      BY <2>3 DEF Open, PackReadMeta, AfterReading, counts
    <3>2. Files /\ (Session => Kept /\ Copies) /\ ~torn'
      BY <3>1 DEF Sessions, Undisturbed
    <3> QED BY <1>1, <1>2, <2>3, <3>2, OpenFiles, OpenKept, PackReadMetaFiles, PackReadMetaKept
  <2>4. ASSUME NEW k \in Keys, Remove(k) PROVE Files' /\ ~Session
    <3>1. crashes' = crashes /\ torn' = torn /\ ~Session
      BY <2>4 DEF Remove, counts, Session
    <3>2. Files
      BY <3>1 DEF Sessions, Undisturbed
    <3> QED BY <1>1, <1>2, <2>4, <3>1, <3>2, RemoveFiles
  <2>5. ASSUME NEW k \in Keys, Put(k) \/ PackEntry(k) PROVE Files' /\ (Session => Kept' /\ Copies')
    <3>1. crashes' = crashes /\ torn' = torn
      BY <2>5 DEF Put, PackEntry, counts, history
    <3>2. Files /\ (Session => Kept /\ Copies)
      BY <3>1 DEF Sessions, Undisturbed
    <3>3. Files'
      BY <1>1, <1>2, <2>5, <3>2, QuietFiles
    <3>4. Session => Kept' /\ Copies'
      BY <1>1, <1>2, <2>5, <3>2, PutKept, PackEntryKept
    <3> QED BY <3>3, <3>4
  <2>6. CASE PutSync \/ PutSize \/ Close \/ CloseData \/ Flush \/ Pack
    <3>1. crashes' = crashes /\ torn' = torn
      BY <2>6 DEF PutSync, PutSize, Close, CloseData, Flush, Pack, counts, history
    <3>2. Files /\ (Session => Kept /\ Copies)
      BY <3>1 DEF Sessions, Undisturbed
    <3>3. Files'
      BY <1>1, <1>2, <2>6, <3>2, QuietFiles
    <3>4. Session => Kept' /\ Copies'
      BY <1>1, <1>2, <2>6, <3>2, QuietKept
    <3> QED BY <1>2, <3>3, <3>4
  <2>7. CASE Callback \/ CloseCallback \/ PutMeta \/ CloseMeta \/ NewNode \/ Closed
    <3>1. crashes' = crashes /\ torn' = torn
      BY <2>7 DEF Callback, CloseCallback, PutMeta, CloseMeta, NewNode, Closed, counts, history
    <3>2. Files /\ (Session => Kept /\ Copies)
      BY <3>1 DEF Sessions, Undisturbed
    <3>3. Files'
      BY <1>1, <1>2, <2>7, <3>2, CallbackFiles, PutMetaFiles, CloseMetaFiles, NewNodeFiles, ClosedFiles
    <3>4. Session => Kept' /\ Copies'
      BY <1>1, <1>2, <2>7, <3>2, CallbackKept, PutMetaKept, CloseMetaKept, NewNodeKept, ClosedKept
    <3> QED BY <1>2, <3>3, <3>4
  <2>8. CASE PackDeleteMeta \/ PackDeleteNode
    <3>1. crashes' = crashes /\ torn' = torn
      BY <2>8 DEF PackDeleteMeta, PackDeleteNode, counts, history
    <3>2. Files /\ (Session => Kept /\ Copies)
      BY <3>1 DEF Sessions, Undisturbed
    <3>3. Files'
      BY <1>1, <1>2, <2>8, <3>2, PackDeleteMetaFiles, PackDeleteNodeFiles
    <3>4. Session => Kept' /\ Copies'
      BY <1>1, <1>2, <2>8, <3>2, PackDeleteMetaKept, PackDeleteNodeKept
    <3> QED BY <1>2, <3>3, <3>4
  <2> QED BY <1>2, <1>5, <2>1, <2>2, <2>3, <2>4, <2>5, <2>6, <2>7, <2>8 DEF Step
<1> QED BY <1>4, <1>5 DEF Next

LEMMA SessionsInvariant == Spec => []Sessions
<1>1. Init => Sessions
  BY InitBase, InitFiles, InitKept DEF Sessions
<1> QED BY <1>1, StepSessions, PTL DEF Spec

(***************************************************************************)
(* As long as nothing is removed, no process dies and no reading tears a   *)
(* meta file, the store shows of every key the last put, now and in every  *)
(* later session, whatever the sizes of records and buffers and the        *)
(* moments at which nodes end and pack is called                           *)
(* (FileStore.java:96-152, 189-204, 335-403).                              *)
(***************************************************************************)
THEOREM SessionsKeepPuts == Spec => []SessionsKeep
<1>1. Sessions => SessionsKeep
  <2> SUFFICES ASSUME Sessions, "remove" \notin use.calls, ~use.cacheKept, crashes = 0, ~torn,
                      state = "open", NEW k \in Keys
               PROVE  Shown(k) = current[k]
    BY DEF SessionsKeep, ReopenShowsCurrent
  <2>1. fileMeta[k] = Latest(k) /\ current[k] = LatestPut(k)
    BY DEF Sessions, Undisturbed, Session, Kept
  <2>2. Shown(k) = LatestPut(k)
    BY <2>1 DEF Shown, LatestPut, Data
  <2> QED BY <2>1, <2>2
<1> QED BY <1>1, SessionsInvariant, PTL

-----------------------------------------------------------------------------
(* The correction of a file whose members all have records *)

RecordsIn(file) == {i \in 1 .. Len(file) : IsRecord(file[i])}
HeadersIn(file) == {i \in 1 .. Len(file) : file[i] = Header}
EndsIn(file) == {i \in 1 .. Len(file) : file[i] = End}

LEMMA UpTo == \A n \in Nat : IsFiniteSet(1 .. n) /\ Cardinality(1 .. n) = n
<1> SUFFICES ASSUME NEW n \in Nat PROVE IsFiniteSet(1 .. n) /\ Cardinality(1 .. n) = n
  OBVIOUS
<1>1. 1 \in Int /\ n \in Int
  OBVIOUS
<1>2. IsFiniteSet(1 .. n) /\ Cardinality(1 .. n) = IF 1 > n THEN 0 ELSE n - 1 + 1
  BY <1>1, FS_Interval, Zenon
<1> QED BY <1>2

(* Going one on from each header, or one back from each end, one comes to  *)
(* a record, and to a different one each time.                             *)
LEMMA FewerMarks ==
    ASSUME NEW L \in Nat, NEW S \in SUBSET (1 .. L), NEW R \in SUBSET (1 .. L),
           \/ \A i \in S : i + 1 \in R
           \/ \A i \in S : i - 1 \in R
    PROVE  Cardinality(S) <= Cardinality(R)
<1>1. IsFiniteSet(R) /\ IsFiniteSet(S)
  BY UpTo, FS_Subset
<1>2. CASE \A i \in S : i + 1 \in R
  <2>1. [i \in S |-> i + 1] \in Injection(S, R)
    BY <1>2 DEF Injection, IsInjective
  <2> QED BY <1>1, <2>1, FS_Injection
<1>3. CASE \A i \in S : i - 1 \in R
  <2>1. [i \in S |-> i - 1] \in Injection(S, R)
    BY <1>3 DEF Injection, IsInjective
  <2> QED BY <1>1, <2>1, FS_Injection
<1> QED BY <1>2, <1>3

LEMMA FilledLength ==
    ASSUME NEW file \in Seq(Token), Ended(file), Filled(file)
    PROVE  Cardinality(RecordsIn(file)) \in Nat /\ Len(file) <= 3 * Cardinality(RecordsIn(file))
<1> DEFINE L == Len(file)
           R == RecordsIn(file)
           H == HeadersIn(file)
           E == EndsIn(file)
<1>1. L \in Nat /\ R \in SUBSET (1 .. L) /\ H \in SUBSET (1 .. L) /\ E \in SUBSET (1 .. L)
  BY DEF RecordsIn, HeadersIn, EndsIn
<1>2. IsFiniteSet(1 .. L) /\ Cardinality(1 .. L) = L
  BY <1>1, UpTo
<1>3. /\ IsFiniteSet(R) /\ IsFiniteSet(H) /\ IsFiniteSet(E)
      /\ Cardinality(R) \in Nat /\ Cardinality(H) \in Nat /\ Cardinality(E) \in Nat
  BY <1>1, <1>2, FS_Subset, FS_CardinalityType
<1>4. \A i \in 1 .. L : i \in R \/ i \in H \/ i \in E
  <2> SUFFICES ASSUME NEW i \in 1 .. L PROVE i \in R \/ i \in H \/ i \in E
    OBVIOUS
  <2>1. file[i] \in Token
    OBVIOUS
  <2>2. IsRecord(file[i]) \/ file[i] = Header \/ file[i] = End
    BY <2>1 DEF Token, Meta, IsRecord
  <2> QED BY <2>2 DEF RecordsIn, HeadersIn, EndsIn
<1>5. CASE file = <<>>
  <2>1. L = 0
    BY <1>5
  <2> QED BY <2>1, <1>3
<1>6. CASE file # <<>>
  <2>1. Whole(file) /\ file[L] = End /\ L \in 1 .. L
    BY <1>1, <1>6 DEF Ended
  <2>2. \A i \in H : i + 1 \in R
    <3> SUFFICES ASSUME NEW i \in H PROVE i + 1 \in R
      OBVIOUS
    <3>1. i \in 1 .. L /\ file[i] = Header
      BY DEF HeadersIn
    <3>2. i # L
      BY <2>1, <3>1 DEF Header, End
    <3>3. i \in 1 .. L - 1 /\ i + 1 \in 1 .. L
      BY <1>1, <3>1, <3>2
    <3> QED BY <3>1, <3>3 DEF Filled, RecordsIn
  <2>3. \A i \in E : i - 1 \in R
    <3> SUFFICES ASSUME NEW i \in E PROVE i - 1 \in R
      OBVIOUS
    <3>1. i \in 1 .. L /\ file[i] = End /\ ~Broken(file, i)
      BY <2>1 DEF EndsIn, Whole
    <3>2. file[i] # Header
      BY <3>1 DEF Header, End
    <3>3. i # 1
      BY <3>1, <3>2 DEF Broken
    <3>4. file[i - 1] # End
      BY <3>1, <3>2, <3>3 DEF Broken
    <3>5. i - 1 \in 1 .. L - 1 /\ i - 1 \in 1 .. L /\ (i - 1) + 1 = i
      BY <1>1, <3>1, <3>3
    <3>6. file[i - 1] # Header
      <4>1. file[i - 1] = Header => IsRecord(file[i])
        BY <3>5 DEF Filled
      <4>2. ~IsRecord(End)
        BY DEF IsRecord, End
      <4> QED BY <3>1, <4>1, <4>2
    <3> QED BY <1>4, <3>4, <3>5, <3>6 DEF HeadersIn, EndsIn
  <2> HIDE DEF L, R, H, E
  <2>4. Cardinality(H) <= Cardinality(R) /\ Cardinality(E) <= Cardinality(R)
    BY <1>1, <2>2, <2>3, FewerMarks
  <2>5. IsFiniteSet(H \union E) /\ Cardinality(H \union E) <= Cardinality(H) + Cardinality(E)
        /\ Cardinality(H \union E) \in Nat
    <3>1. /\ IsFiniteSet(H \union E)
          /\ Cardinality(H \union E) = Cardinality(H) + Cardinality(E) - Cardinality(H \cap E)
      BY <1>3, FS_Union
    <3>2. Cardinality(H \cap E) \in Nat /\ Cardinality(H \union E) \in Nat
      BY <1>3, <3>1, FS_Intersection, FS_CardinalityType
    <3> QED BY <1>3, <3>1, <3>2
  <2>6. Cardinality(R \union (H \union E)) <= Cardinality(R) + Cardinality(H \union E)
    <3>1. /\ IsFiniteSet(R \union (H \union E))
          /\ Cardinality(R \union (H \union E))
                = Cardinality(R) + Cardinality(H \union E) - Cardinality(R \cap (H \union E))
      BY <1>3, <2>5, FS_Union
    <3>2. Cardinality(R \cap (H \union E)) \in Nat
      BY <1>3, FS_Intersection, FS_CardinalityType
    <3> QED BY <1>3, <2>5, <3>1, <3>2
  <2>7. R \union (H \union E) = 1 .. L
    BY <1>1, <1>4
  <2>8. L <= Cardinality(R) + Cardinality(H \union E)
    BY <1>2, <2>6, <2>7
  <2> QED BY <1>1, <1>3, <2>4, <2>5, <2>8 DEF L, R
<1> QED BY <1>5, <1>6

LEMMA SparedFile ==
    ASSUME TypeOK, use.recordSize >= 3, NEW file \in Seq(Token), Ended(file), Filled(file)
    PROVE  Corrected(file) = file
<1> DEFINE c == Cardinality(RecordsIn(file))
<1>1. c \in Nat /\ Len(file) <= 3 * c
  BY FilledLength
<1>2. Readable(file) = 1 .. Len(file)
  <2>1. Whole(file)
    BY DEF Ended, Whole
  <2> QED BY <2>1, WholeReadable
<1>3. Position(file) = use.recordSize * c
  BY <1>2 DEF Position, RecordsIn
<1>4. use.recordSize \in Nat
  BY UseTypes DEF TypeOK
<1> HIDE DEF c
<1>5. 3 * c <= use.recordSize * c
  <2>1. \A a, b \in Nat : a >= 3 => 3 * b <= a * b
    <3> SUFFICES ASSUME NEW a \in Nat, NEW b \in Nat, a >= 3 PROVE 3 * b <= a * b
      OBVIOUS
    <3>1. a = 3 + (a - 3) /\ a - 3 \in Nat
      OBVIOUS
    <3>2. a * b = 3 * b + (a - 3) * b /\ (a - 3) * b \in Nat
      BY <3>1
    <3> QED BY <3>2
  <2> QED BY <2>1, <1>1, <1>4
<1>6. Len(file) <= Position(file) /\ Position(file) \in Nat
  BY <1>1, <1>3, <1>4, <1>5
<1>7. Smaller(Len(file), Position(file)) = Len(file)
  BY <1>6 DEF Smaller
<1>8. SubSeq(file, 1, Len(file)) = file
  OBVIOUS
<1> QED BY <1>7, <1>8 DEF Corrected

(* Every file of a closed store that no crash and no correction has        *)
(* touched is a sequence of ended members; of those that each have a       *)
(* record readMeta counts at least as many bytes as the file has, and it   *)
(* cuts nothing (MetaUtils.java:50-74).                                    *)
THEOREM FilledFilesSpared == Spec => []CorrectionSpares
<1>1. Sessions => CorrectionSpares
  <2> SUFFICES ASSUME Sessions, state = "closed", crashes = 0, ~torn, use.recordSize >= 3,
                      NEW n \in MetaNodes, Filled(metaFile[n])
               PROVE  Corrected(metaFile[n]) = metaFile[n]
    BY DEF CorrectionSpares
  <2>1. TypeOK /\ Formed
    BY DEF Sessions, Base, Undisturbed, Files
  <2>2. n \in Node /\ metaFile[n] \in Seq(Token) /\ ~Writing(n)
    BY <2>1 DEF MetaNodes, TypeOK, Writing
  <2>3. Ended(metaFile[n])
    BY <2>1, <2>2 DEF Formed
  <2> QED BY <2>1, <2>2, <2>3, SparedFile
<1> QED BY <1>1, SessionsInvariant, PTL

-----------------------------------------------------------------------------
(* What outlives a crash *)

(* What a meta shows, 0 for none. *)
PutOf(m) == Content(m, IF m = None THEN <<>> ELSE Data(m.node))

Reaches(m, p) == PutOf(m) \in p .. use.maxPuts

(* The metas in a file, the nodes whose files have one of the key, and the *)
(* last one on disk.                                                       *)
OnDisk(n) == IF metaFile[n] \in Seq(Token) THEN Records(metaFile[n]) ELSE NoMetas

Storers(k) == {n \in Node : OnDisk(n)[k] # None}

Stored(k) == IF Storers(k) = {} THEN None ELSE OnDisk(Last(Storers(k)))[k]

(* What was closed is shown by the last meta on disk, and by every meta    *)
(* that may come to be the last one.                                       *)
Lasting(k) ==
    /\ Reaches(Stored(k), closed[k])
    /\ state = "open" => Reaches(fileMeta[k], closed[k])
    /\ \A m \in Tokens(buffered) \union Tokens(held) :
          m.flag = "normal" /\ m.key = k => Reaches(m, closed[k])

(* Before a crash the last meta written, on disk or not, shows what was    *)
(* put last, which the next close makes what was closed.                   *)
Awaited(k) == current[k] \in 0 .. puts /\ (current[k] # 0 => Reaches(Latest(k), current[k]))

Surviving ==
    /\ \A n \in Node : metaCache[n] = None
    /\ Storing => job.value.put = puts
    /\ \A k \in Keys : /\ closed[k] \in 0 .. puts
                       /\ closed[k] # 0 => Lasting(k)
                       /\ crashes = 0 => Awaited(k)

LEMMA PutsAre ==
    ASSUME TypeOK
    PROVE  puts \in Nat /\ use.maxPuts \in Nat /\ puts <= use.maxPuts /\ crashes \in Nat
<1>1. use.maxPuts \in Nat /\ use.maxCrashes \in Nat
  BY UseTypes DEF TypeOK
<1>2. puts \in 0 .. use.maxPuts /\ crashes \in 0 .. use.maxCrashes
  BY DEF TypeOK
<1> QED BY <1>1, <1>2

(* A meta that shows a put goes on showing it while the data are there. *)
LEMMA PutOfStays ==
    ASSUME TypeOK, TypeOK', NEW m \in Token, PutOf(m) \in Nat,
           \A n \in Node : Extends(Data(n)', Data(n))
    PROVE  PutOf(m)' = PutOf(m)
<1>1. m # None /\ m.node \in Node /\ m.off \in Nat
  BY TokenFields, NoneAssumption
<1>2. PICK n \in Node : n = m.node
  BY <1>1
<1>3. PutOf(m) = Content(m, Data(n)) /\ PutOf(m)' = Content(m, Data(n)')
  BY <1>1, <1>2 DEF PutOf
<1>4. m.off < Len(Data(n))
  BY <1>1, <1>3, NoneAssumption DEF Content
<1>5. Len(Data(n)) \in Nat /\ Len(Data(n)') \in Nat
  <2>1. nodeFile'[n] \in Seq(Value') /\ buffer' \in Seq(Value')
    BY DEF TypeOK
  <2>2. Data(n)' \in Seq(Value')
    BY <2>1 DEF Data
  <2> QED BY <2>2, DataType
<1> QED BY <1>3, <1>4, <1>5, ContentStays

(* Who reaches a put other than 0 is a meta. *)
LEMMA ReachesStays ==
    ASSUME TypeOK, TypeOK', use' = use, NEW p \in Nat, p # 0, NEW m \in Token \union {None},
           Reaches(m, p), \A n \in Node : Extends(Data(n)', Data(n))
    PROVE  m \in Token /\ Reaches(m, p)'
<1>1. PutOf(m) \in Nat /\ PutOf(m) # 0 /\ use.maxPuts \in Nat
  BY PutsAre DEF Reaches
<1>2. m # None
  BY <1>1 DEF PutOf, Content
<1>3. m \in Token /\ PutOf(m)' = PutOf(m)
  BY <1>1, <1>2, PutOfStays
<1> QED BY <1>3 DEF Reaches

(* The last meta on disk. *)
LEMMA StoredIs ==
    ASSUME TypeOK, NEW k \in Keys
    PROVE  /\ Stored(k) \in Token \union {None}
           /\ Stored(k) # None =>
                 LET n == Last(Storers(k))
                 IN  /\ n \in Node /\ n \in Storers(k) /\ metaFile[n] \in Seq(Token)
                     /\ Stored(k) = OnDisk(n)[k] /\ Stored(k) \in Tokens(metaFile[n])
                     /\ Stored(k).flag = "normal" /\ Stored(k).key = k
<1>1. Storers(k) \subseteq Node
  BY DEF Storers
<1>2. CASE Storers(k) = {}
  BY <1>2 DEF Stored
<1>3. CASE Storers(k) # {}
  <2>1. PICK n \in Node : n = Last(Storers(k)) /\ n \in Storers(k)
    BY <1>1, <1>3, LastNode
  <2>2. Stored(k) = OnDisk(n)[k] /\ OnDisk(n)[k] # None
    BY <1>3, <2>1 DEF Stored, Storers
  <2>3. metaFile[n] \in Seq(Token) /\ OnDisk(n) = Records(metaFile[n])
    BY <2>2 DEF OnDisk, NoMetas
  <2>4. /\ OnDisk(n)[k] \in Tokens(metaFile[n]) /\ OnDisk(n)[k] \in Token
        /\ OnDisk(n)[k].flag = "normal" /\ OnDisk(n)[k].key = k
    BY <2>2, <2>3, RecordsTokens
  <2> QED BY <2>1, <2>2, <2>3, <2>4
<1> QED BY <1>2, <1>3

LEMMA StoredStays ==
    ASSUME NEW k \in Keys, \A n \in Node : OnDisk(n)'[k] = OnDisk(n)[k]
    PROVE  Stored(k)' = Stored(k)
<1>1. Storers(k)' = Storers(k)
  BY DEF Storers
<1>2. Storers(k) \subseteq Node
  BY DEF Storers
<1>3. CASE Storers(k) = {}
  BY <1>1, <1>3 DEF Stored
<1>4. CASE Storers(k) # {}
  <2>1. PICK n \in Node : n = Last(Storers(k))
    BY <1>2, <1>4, LastNode
  <2>2. n = Last(Storers(k))'
    BY <1>1, <2>1 DEF Last
  <2>3. Stored(k) = OnDisk(n)[k]
    BY <1>4, <2>1 DEF Stored
  <2>4. Stored(k)' = OnDisk(n)'[k]
    BY <1>1, <1>4, <2>2, Zenon DEF Stored
  <2> QED BY <1>1, <2>3, <2>4
<1> QED BY <1>3, <1>4

(* What is added to a file leaves what could be read of it, and may add to *)
(* it.                                                                     *)
LEMMA RecordsGrow ==
    ASSUME NEW file \in Seq(Token), NEW more \in Seq(Token), NEW k \in Keys
    PROVE  LET r == Records(file \o more)[k]
           IN  \/ r = Records(file)[k]
               \/ r \in Tokens(more) /\ r \in Token /\ r.flag = "normal" /\ r.key = k
<1> DEFINE longer == file \o more
<1>1. /\ longer \in Seq(Token) /\ Len(longer) = Len(file) + Len(more)
      /\ Len(file) \in Nat /\ Len(more) \in Nat
      /\ \A i \in 1 .. Len(file) : longer[i] = file[i]
      /\ \A i \in 1 .. Len(longer) : i \notin 1 .. Len(file) =>
            i - Len(file) \in 1 .. Len(more) /\ longer[i] = more[i - Len(file)]
  OBVIOUS
<1> HIDE DEF longer
<1>2. \A i \in 1 .. Len(file) : Broken(longer, i) <=> Broken(file, i)
  <2> TAKE i \in 1 .. Len(file)
  <2>1. CASE i = 1
    BY <1>1, <2>1 DEF Broken
  <2>2. CASE i # 1
    <3>1. longer[i - 1] = file[i - 1]
      BY <1>1, <2>2
    <3> QED BY <1>1, <2>2, <3>1 DEF Broken
  <2> QED BY <2>1, <2>2
<1>3. \A i \in 1 .. Len(file) : i \in Readable(longer) <=> i \in Readable(file)
  <2> TAKE i \in 1 .. Len(file)
  <2>1. i \in 1 .. Len(longer) /\ 1 .. i \subseteq 1 .. Len(file)
    BY <1>1
  <2> QED BY <1>1, <1>2, <2>1 DEF Readable
<1>4. /\ Normal(file, k) \subseteq 1 .. Len(file)
      /\ Normal(longer, k) \subseteq 1 .. Len(longer)
      /\ \A i \in 1 .. Len(file) : i \in Normal(longer, k) <=> i \in Normal(file, k)
  BY <1>1, <1>3 DEF Normal, Readable
<1>5. /\ Normal(longer, k) = {} => Records(longer)[k] = None
      /\ Normal(longer, k) # {} => \E i \in Normal(longer, k) :
            Records(longer)[k] = longer[i] /\ \A j \in Normal(longer, k) : i >= j
      /\ Normal(file, k) = {} => Records(file)[k] = None
      /\ Normal(file, k) # {} => \E i \in Normal(file, k) :
            Records(file)[k] = file[i] /\ \A j \in Normal(file, k) : i >= j
  BY <1>1, RecordsAre
<1>6. CASE Normal(longer, k) = {}
  <2>1. Normal(file, k) = {}
    BY <1>4, <1>6
  <2> QED BY <1>5, <1>6, <2>1 DEF longer
<1>7. CASE Normal(longer, k) # {}
  <2>1. PICK i \in Normal(longer, k) : Records(longer)[k] = longer[i]
                                        /\ \A j \in Normal(longer, k) : i >= j
    BY <1>5, <1>7
  <2>2. i \in 1 .. Len(longer) /\ longer[i].flag = "normal" /\ longer[i].key = k
    BY <1>4 DEF Normal
  <2>3. CASE i \in 1 .. Len(file)
    <3>1. i \in Normal(file, k)
      BY <1>4, <2>3
    <3>2. PICK j \in Normal(file, k) : Records(file)[k] = file[j]
                                       /\ \A l \in Normal(file, k) : j >= l
      BY <1>5, <3>1
    <3>3. j \in 1 .. Len(file) /\ j >= i /\ i >= j
      BY <1>4, <2>1, <3>1, <3>2
    <3>4. i = j
      BY <2>2, <3>3
    <3> QED BY <1>1, <2>1, <2>3, <3>2, <3>4 DEF longer
  <2>4. CASE i \notin 1 .. Len(file)
    <3>1. i - Len(file) \in 1 .. Len(more) /\ longer[i] = more[i - Len(file)]
      BY <1>1, <2>2, <2>4
    <3>2. longer[i] \in Tokens(more) /\ longer[i] \in Token
      BY <3>1 DEF Tokens
    <3> QED BY <2>1, <2>2, <3>2 DEF longer
  <2> QED BY <2>3, <2>4
<1> QED BY <1>6, <1>7

(* What goes to the current file is the last meta on disk, or does not     *)
(* matter.                                                                 *)
LEMMA StoredAppended ==
    ASSUME TypeOK, TypeOK', Phases, state = "open", NEW more \in Seq(Token), NEW k \in Keys,
           metaFile'[node] = metaFile[node] \o more,
           \A n \in Node : n # node => metaFile'[n] = metaFile[n]
    PROVE  \/ Stored(k)' = Stored(k)
           \/ \E m \in Token : Stored(k)' = m /\ m \in Tokens(more) /\ m.flag = "normal" /\ m.key = k
<1>1. PICK c \in Node : c = node
  BY DEF TypeOK
<1>2. metaFile[c] \in Seq(Token) /\ metaFile'[c] \in Seq(Token) /\ metaFile'[c] = metaFile[c] \o more
  <2> DEFINE file == metaFile[c]
  <2>1. file \in Seq(Token) /\ metaFile'[c] = file \o more
    BY <1>1 DEF Phases
  <2> HIDE DEF file
  <2>2. file \o more \in Seq(Token)
    BY <2>1
  <2> QED BY <2>1, <2>2 DEF file
<1>3. \A n \in Node : n # c => OnDisk(n)' = OnDisk(n)
  BY <1>1 DEF OnDisk
<1>4. OnDisk(c) = Records(metaFile[c]) /\ OnDisk(c)' = Records(metaFile[c] \o more)
  BY <1>2 DEF OnDisk
<1>5. CASE OnDisk(c)'[k] = OnDisk(c)[k]
  <2>1. \A n \in Node : OnDisk(n)'[k] = OnDisk(n)[k]
    BY <1>3, <1>5
  <2> QED BY <2>1, StoredStays
<1>6. CASE OnDisk(c)'[k] # OnDisk(c)[k]
  <2>1. PICK m \in Token : m = OnDisk(c)'[k] /\ m \in Tokens(more) /\ m.flag = "normal" /\ m.key = k
    BY <1>2, <1>4, <1>6, RecordsGrow
  <2>2. c \in Storers(k)' /\ Storers(k)' \subseteq Node
    BY <2>1, NoneAssumption DEF Storers
  <2>3. \A n \in Storers(k)' : n <= c
    <3> SUFFICES ASSUME NEW n \in Storers(k)', n # c PROVE n <= c
      BY <1>1, NodeNat
    <3>1. n \in Node /\ OnDisk(n)[k] # None
      BY <1>3 DEF Storers
    <3>2. metaFile[n] # None
      BY <3>1, NoneAssumption DEF OnDisk, NoMetas
    <3>3. ~(c < n)
      BY <1>1, <3>1, <3>2 DEF Phases
    <3> QED BY <1>1, <3>1, <3>3, NodeNat
  <2>4. Last(Storers(k)') = c
    BY <2>2, <2>3, LastIs
  <2>5. Storers(k)' # {} /\ Last(Storers(k))' = c
    BY <2>2, <2>4 DEF Last
  <2>6. Stored(k)' = OnDisk(c)'[k]
    BY <2>5, Zenon DEF Stored
  <2> QED BY <2>1, <2>6
<1> QED BY <1>5, <1>6

(* Of the current file and what is on its way to it, only the beginning is *)
(* written when a record is added.                                         *)
LEMMA StoredWritten ==
    ASSUME TypeOK, TypeOK', Phases, state = "open", NEW t \in Token, WriteMeta(t), NEW k \in Keys
    PROVE  \/ Stored(k)' = Stored(k)
           \/ \E m \in Token : /\ Stored(k)' = m /\ m \in Tokens(buffered)
                               /\ m.flag = "normal" /\ m.key = k
<1>1. metaFile[node] \in Seq(Token) /\ buffered \in Seq(Token)
  BY DEF Phases, TypeOK
<1>2. /\ \A n \in Node : n # node => metaFile'[n] = metaFile[n]
      /\ metaFile'[node] = metaFile[node] \/ metaFile'[node] = metaFile[node] \o buffered
  BY <1>1, WriteMetaEffect
<1>3. CASE metaFile'[node] = metaFile[node]
  <2>1. \A n \in Node : OnDisk(n)' = OnDisk(n)
    BY <1>2, <1>3 DEF OnDisk
  <2> QED BY <2>1, StoredStays
<1>4. CASE metaFile'[node] = metaFile[node] \o buffered
  BY <1>1, <1>2, <1>4, StoredAppended
<1> QED BY <1>2, <1>3, <1>4

(* Of the metas of a key, those on disk come from those on the way, and    *)
(* all others are kept or lead to the last put.                            *)
Handed(k) ==
    /\ \/ Stored(k)' = Stored(k)
       \/ \E m \in Token : /\ Stored(k)' = m /\ m \in Tokens(buffered) \union Tokens(held)
                           /\ m.flag = "normal" /\ m.key = k
    /\ state' = "open" => \/ state = "open" /\ fileMeta'[k] = fileMeta[k]
                          \/ fileMeta'[k] = Stored(k)
                          \/ \E m \in Token : fileMeta'[k] = m /\ PutOf(m)' = puts
    /\ \A m \in Tokens(buffered') \union Tokens(held') : m.flag = "normal" /\ m.key = k =>
          m \in Tokens(buffered) \union Tokens(held) \/ PutOf(m)' = puts

LEMMA LastingStays ==
    ASSUME TypeOK, TypeOK', use' = use, NEW k \in Keys, NEW p \in 1 .. puts,
           closed[k] = p, closed'[k] = p, Lasting(k), Handed(k),
           \A n \in Node : Extends(Data(n)', Data(n))
    PROVE  Lasting(k)'
<1>1. /\ puts \in Nat /\ use.maxPuts \in Nat /\ puts <= use.maxPuts /\ p \in Nat /\ p # 0
      /\ fileMeta \in [Keys -> Token \union {None}]
      /\ buffered \in Seq(Token) /\ held \in Seq(Token)
      /\ buffered' \in Seq(Token) /\ held' \in Seq(Token)
  <2>1. puts \in Nat /\ use.maxPuts \in Nat /\ puts <= use.maxPuts
    BY PutsAre
  <2>2. fileMeta \in [Keys -> Token \union {None}] /\ buffered \in Seq(Token) /\ held \in Seq(Token)
    BY DEF TypeOK
  <2>3. buffered' \in Seq(Token) /\ held' \in Seq(Token)
    BY DEF TypeOK
  <2> QED BY <2>1, <2>2, <2>3
<1>2. /\ Reaches(Stored(k), p)
      /\ state = "open" => Reaches(fileMeta[k], p)
      /\ \A m \in Tokens(buffered) \union Tokens(held) :
            m.flag = "normal" /\ m.key = k => Reaches(m, p)
  BY DEF Lasting
<1>3. ASSUME NEW m \in Token \union {None}, Reaches(m, p) PROVE Reaches(m, p)'
  BY <1>1, <1>3, ReachesStays
<1>4. ASSUME NEW m \in Token, PutOf(m)' = puts PROVE Reaches(m, p)'
  BY <1>1, <1>4 DEF Reaches
<1>5. /\ Tokens(buffered) \subseteq Token /\ Tokens(held) \subseteq Token
      /\ Tokens(buffered') \subseteq Token /\ Tokens(held') \subseteq Token
  BY <1>1 DEF Tokens
<1>6. Stored(k) \in Token \union {None}
  BY StoredIs
<1>7. \E m \in Token \union {None} : Stored(k)' = m /\ Reaches(m, p)'
  <2>1. CASE Stored(k)' = Stored(k)
    <3>1. PICK m \in Token \union {None} : m = Stored(k)
      BY <1>6
    <3> QED BY <1>2, <1>3, <2>1, <3>1
  <2>2. CASE Stored(k)' # Stored(k)
    <3>1. PICK m \in Token : /\ Stored(k)' = m /\ m \in Tokens(buffered) \union Tokens(held)
                             /\ m.flag = "normal" /\ m.key = k
      BY <2>2 DEF Handed
    <3> QED BY <1>2, <1>3, <3>1
  <2> QED BY <2>1, <2>2
<1>8. state' = "open" => \E m \in Token \union {None} : fileMeta'[k] = m /\ Reaches(m, p)'
  <2> SUFFICES ASSUME state' = "open"
               PROVE  \E m \in Token \union {None} : fileMeta'[k] = m /\ Reaches(m, p)'
    OBVIOUS
  <2>1. CASE state = "open" /\ fileMeta'[k] = fileMeta[k]
    <3>1. PICK m \in Token \union {None} : m = fileMeta[k]
      BY <1>1
    <3> QED BY <1>2, <1>3, <2>1, <3>1
  <2>2. CASE fileMeta'[k] = Stored(k)
    <3>1. PICK m \in Token \union {None} : m = Stored(k)
      BY <1>6
    <3> QED BY <1>2, <1>3, <2>2, <3>1
  <2>3. CASE \E m \in Token : fileMeta'[k] = m /\ PutOf(m)' = puts
    BY <1>4, <2>3
  <2> QED BY <2>1, <2>2, <2>3 DEF Handed
<1>9. ASSUME NEW m \in Tokens(buffered') \union Tokens(held'), m.flag = "normal", m.key = k
      PROVE  Reaches(m, p)'
  <2>1. m \in Token
    BY <1>5
  <2>2. m \in Tokens(buffered) \union Tokens(held) \/ PutOf(m)' = puts
    BY <1>9 DEF Handed
  <2> QED BY <1>2, <1>3, <1>4, <1>9, <2>1, <2>2
<1>10. Reaches(Stored(k), p)'
  <2>1. PICK m \in Token \union {None} : Stored(k)' = m /\ Reaches(m, p)'
    BY <1>7
  <2> QED BY <2>1 DEF Reaches, PutOf
<1>11. state' = "open" => Reaches(fileMeta[k], p)'
  <2> SUFFICES ASSUME state' = "open" PROVE Reaches(fileMeta[k], p)'
    OBVIOUS
  <2>1. PICK m \in Token \union {None} : fileMeta'[k] = m /\ Reaches(m, p)'
    BY <1>8
  <2> QED BY <2>1 DEF Reaches, PutOf
<1>12. \A m \in Tokens(buffered') \union Tokens(held') :
            m.flag = "normal" /\ m.key = k => Reaches(m, p)'
  BY <1>9
<1> QED BY <1>10, <1>11, <1>12 DEF Lasting

LEMMA AwaitedStays ==
    ASSUME TypeOK, TypeOK', Owned, use' = use, NEW k \in Keys, Awaited(k), puts' \in {puts, puts + 1},
           current'[k] \in {current[k], 0}, current'[k] # 0 => Latest(k)' = Latest(k),
           \A n \in Node : Extends(Data(n)', Data(n))
    PROVE  Awaited(k)'
<1>1. puts \in Nat /\ puts' \in Nat /\ puts' >= puts /\ current[k] \in 0 .. puts
  BY PutsAre DEF Awaited
<1>2. CASE current'[k] = 0
  BY <1>1, <1>2 DEF Awaited
<1>3. CASE current'[k] # 0
  <2>1. PICK p \in Nat : p = current[k] /\ p = current'[k] /\ p # 0 /\ p \in 0 .. puts
    BY <1>1, <1>3
  <2>2. Latest(k) \in Token \union {None}
    BY LatestIs
  <2>3. PICK m \in Token \union {None} : m = Latest(k) /\ m = Latest(k)'
    BY <1>3, <2>2
  <2>4. Reaches(m, p)
    BY <2>1, <2>3 DEF Awaited
  <2>5. Reaches(m, p)'
    BY <2>1, <2>4, ReachesStays
  <2>6. Reaches(Latest(k), current[k])'
    BY <2>1, <2>3, <2>5 DEF Reaches, PutOf
  <2>7. current'[k] \in 0 .. puts'
    BY <1>1, <2>1
  <2> QED BY <2>6, <2>7 DEF Awaited
<1> QED BY <1>2, <1>3

(* The steps that make nothing closed. *)
LEMMA SurvivingKept ==
    ASSUME TypeOK, TypeOK', use' = use, Surviving, \A n \in Node : metaCache'[n] = None,
           Storing' => job'.value.put = puts', puts' \in {puts, puts + 1},
           \A k \in Keys : closed'[k] \in {closed[k], 0} /\ (closed'[k] # 0 => Handed(k)),
           \A n \in Node : Extends(Data(n)', Data(n)),
           \A k \in Keys : crashes' = 0 => Awaited(k)'
    PROVE  Surviving'
<1>1. puts \in Nat /\ puts' \in Nat /\ puts' >= puts
  BY PutsAre
<1>2. ASSUME NEW k \in Keys PROVE closed'[k] \in 0 .. puts' /\ (closed'[k] # 0 => Lasting(k)')
  <2>1. closed[k] \in 0 .. puts /\ (closed[k] # 0 => Lasting(k))
    BY DEF Surviving
  <2>2. CASE closed'[k] = 0
    BY <1>1, <2>2
  <2>3. CASE closed'[k] # 0
    <3>1. PICK p \in 1 .. puts : p = closed[k] /\ p = closed'[k]
      BY <2>1, <2>3, <1>1
    <3>2. Lasting(k) /\ Handed(k)
      BY <2>1, <2>3, <3>1
    <3>3. Lasting(k)'
      BY <3>1, <3>2, LastingStays
    <3>4. p \in 0 .. puts'
      BY <1>1
    <3> QED BY <3>1, <3>3, <3>4
  <2> QED BY <2>2, <2>3
<1> QED BY <1>2 DEF Surviving

(* What the steps of a store that writes synchronously, keeps no cache and *)
(* has lost nothing to a correction rely on.                               *)
Careful == Base /\ Synchronous /\ Placed /\ ~use.cacheKept /\ Surviving /\ (crashes = 0 => Files)

(* The metas on disk are those they were. *)
LEMMA HandedKept ==
    ASSUME NEW k \in Keys, UNCHANGED <<metaFile, held, buffered>>,
           state' = "open" => state = "open" /\ fileMeta' = fileMeta
    PROVE  Handed(k)
<1>1. \A n \in Node : OnDisk(n)' = OnDisk(n)
  BY DEF OnDisk
<1>2. Stored(k)' = Stored(k)
  BY <1>1, StoredStays
<1> QED BY <1>2 DEF Handed

LEMMA QuietSurviving ==
    ASSUME Careful, Base', use' = use,
           \/ \E k \in Keys : Put(k)
           \/ PutSync \/ PutSize \/ Close \/ CloseData \/ Flush
    PROVE  Surviving'
<1>1. TypeOK /\ TypeOK' /\ Phases /\ job \in Jobs /\ job.next \in Nexts /\ Base /\ Surviving
  BY JobType DEF Careful, Base, Jobs
<1>2. /\ UNCHANGED <<metaFile, metaCache, state, node, held, buffered>>
      /\ \A n \in Node : Extends(Data(n)', Data(n))
  BY <1>1, QuietSteps
<1>3. UNCHANGED <<fileMeta, current, closed, crashes>> /\ state = "open"
  BY DEF Put, PutSync, PutSize, Close, CloseData, Flush, At, disk, streams, counts, history
<1>4. puts' \in {puts, puts + 1} /\ (Storing' => job'.value.put = puts')
  <2>1. ASSUME NEW k \in Keys, Put(k) PROVE puts' = puts + 1 /\ job'.value.put = puts'
    BY <2>1 DEF Put, Write
  <2>2. ASSUME PutSync PROVE puts' = puts /\ ~Storing'
    BY <1>1, <2>2, GotoEffect, GotoThen DEF PutSync, counts, Pcs, Thens, Storing
  <2>3. ASSUME PutSize PROVE puts' = puts /\ ~Storing'
    BY <1>1, <2>3, GotoEffect, GotoThen DEF PutSize, counts, Pcs, Thens, Nexts, Storing
  <2>4. ASSUME Close PROVE puts' = puts /\ ~Storing'
    BY <2>4 DEF Close, counts, NoJob, Storing
  <2>5. ASSUME CloseData \/ Flush PROVE puts' = puts /\ ~Storing'
    BY <1>1, <2>5, GotoEffect DEF CloseData, Flush, counts, NoJob, Pcs, Storing
  <2> QED BY <2>1, <2>2, <2>3, <2>4, <2>5
<1>5. \A k \in Keys : Handed(k)
  BY <1>2, <1>3, HandedKept
<1>6. ASSUME NEW k \in Keys, crashes' = 0 PROVE Awaited(k)'
  <2>1. Files /\ Owned /\ Awaited(k)
    BY <1>3, <1>6 DEF Careful, Files, Surviving
  <2>2. \A n \in Node : Found(n)' = Found(n)
    BY <1>1, <2>1, QuietFiles
  <2>3. Latest(k)' = Latest(k)
    BY <2>2, LatestStays
  <2> QED BY <1>1, <1>2, <1>3, <1>4, <2>1, <2>3, AwaitedStays
<1>7. \A n \in Node : metaCache'[n] = None
  BY <1>1, <1>2 DEF Surviving
<1> QED BY <1>1, <1>2, <1>3, <1>4, <1>5, <1>6, <1>7, SurvivingKept

LEMMA CallbackSurviving ==
    ASSUME Careful, Base', Callback \/ CloseCallback, use' = use
    PROVE  Surviving'
<1>1. TypeOK /\ TypeOK' /\ Phases /\ Base /\ Surviving /\ Placed
  BY DEF Careful, Base
<1>2. /\ UNCHANGED <<nodeFile, metaCache, state, node, buffer, fileMeta, current, closed, crashes, puts>>
      /\ state = "open"
      /\ \/ job.pc = "callback" /\ job.then \in {"idle", "size"}
         \/ job.pc = "closeCallback"
      /\ metaFile[node] \in Seq(Token) /\ buffered \in Seq(Token) /\ held \in Seq(Token)
  BY <1>1 DEF Callback, CloseCallback, At, Phases, Placed, counts, history, TypeOK
<1>3. /\ metaFile'[node] = metaFile[node] \o buffered /\ buffered' = <<>> /\ held' = held
      /\ \A n \in Node : n # node => metaFile'[n] = metaFile[n]
  BY <1>1, <1>2, FlushMetaEffect DEF Callback, CloseCallback
<1>4. ~Storing'
  BY <1>1, <1>2, GotoEffect DEF Callback, CloseCallback, At, Pcs, Storing
<1>5. \A n \in Node : Extends(Data(n)', Data(n))
  BY <1>1, <1>2, DataLonger
<1>6. ASSUME NEW k \in Keys PROVE Handed(k)
  <2>1. \/ Stored(k)' = Stored(k)
        \/ \E m \in Token : Stored(k)' = m /\ m \in Tokens(buffered) /\ m.flag = "normal" /\ m.key = k
    BY <1>1, <1>2, <1>3, StoredAppended
  <2>2. Tokens(buffered') = {} /\ Tokens(held') = Tokens(held)
    BY <1>3, NoTokens
  <2> QED BY <1>2, <2>1, <2>2 DEF Handed
<1>7. ASSUME NEW k \in Keys, crashes' = 0 PROVE Awaited(k)'
  <2>1. Files /\ Owned /\ Awaited(k)
    BY <1>2, <1>7 DEF Careful, Files, Surviving
  <2>2. \A n \in Node : Found(n)' = Found(n)
    BY <1>1, <2>1, CallbackFiles
  <2>3. Latest(k)' = Latest(k)
    BY <2>2, LatestStays
  <2> QED BY <1>1, <1>2, <1>5, <2>1, <2>3, AwaitedStays
<1>8. \A n \in Node : metaCache'[n] = None
  BY <1>1, <1>2 DEF Surviving
<1> QED BY <1>1, <1>2, <1>4, <1>5, <1>6, <1>7, <1>8, SurvivingKept

LEMMA CloseMetaSurviving ==
    ASSUME Careful, Base', CloseMeta, use' = use
    PROVE  Surviving'
<1>1. TypeOK /\ TypeOK' /\ Phases /\ Base /\ Surviving /\ Placed
  BY DEF Careful, Base
<1>2. /\ UNCHANGED <<nodeFile, metaCache, state, node, buffer, held, buffered>>
      /\ UNCHANGED <<fileMeta, current, closed, crashes, puts>>
      /\ state = "open" /\ job.pc = "closeMeta" /\ job.then \in {"newNode", "closed"}
      /\ metaFile[node] \in Seq(Token) /\ buffered \in Seq(Token) /\ held \in Seq(Token)
  BY <1>1 DEF CloseMeta, At, Phases, streams, counts, history, TypeOK
<1>3. /\ metaFile'[node] = Append(metaFile[node] \o buffered \o held, End)
      /\ \A n \in Node : n # node => metaFile'[n] = metaFile[n]
  BY <1>1, <1>2, CloseMetaEffect
<1> DEFINE more == Append(buffered \o held, End)
<1>4. /\ more \in Seq(Token) /\ metaFile'[node] = metaFile[node] \o more
      /\ Tokens(more) = Tokens(buffered) \union Tokens(held) \union {End}
  <2> DEFINE file == metaFile[node]
             gathered == buffered \o held
  <2>1. file \in Seq(Token) /\ gathered \in Seq(Token)
    BY <1>2
  <2>2. Tokens(gathered) = Tokens(buffered) \union Tokens(held)
    BY <1>2, TokensConcat
  <2> HIDE DEF file
  <2>3. file \o buffered \o held = file \o gathered
    BY <1>2, <2>1
  <2> HIDE DEF gathered
  <2>4. PICK t \in Token : t = End
    BY EndIs
  <2>5. /\ Append(gathered, t) \in Seq(Token)
        /\ Append(file \o gathered, t) = file \o Append(gathered, t)
    BY <2>1
  <2>6. Tokens(Append(gathered, t)) = Tokens(gathered) \union {t}
    BY <2>1, TokensAppend
  <2>7. metaFile'[node] = Append(file \o gathered, t) /\ more = Append(gathered, t)
    BY <1>3, <2>4, <2>3 DEF file, gathered
  <2> QED BY <2>2, <2>4, <2>5, <2>6, <2>7 DEF file
<1> HIDE DEF more
<1>5. ~Storing'
  BY <1>1, <1>2, GotoEffect DEF CloseMeta, Pcs, Storing
<1>6. \A n \in Node : Extends(Data(n)', Data(n))
  BY <1>1, <1>2, DataLonger
<1>7. ASSUME NEW k \in Keys PROVE Handed(k)
  <2>1. \/ Stored(k)' = Stored(k)
        \/ \E m \in Token : Stored(k)' = m /\ m \in Tokens(more) /\ m.flag = "normal" /\ m.key = k
    BY <1>1, <1>2, <1>3, <1>4, StoredAppended
  <2>2. End.flag # "normal"
    BY DEF End
  <2> QED BY <1>2, <1>4, <2>1, <2>2 DEF Handed
<1>8. ASSUME NEW k \in Keys, crashes' = 0 PROVE Awaited(k)'
  <2>1. Files /\ Owned /\ Awaited(k)
    BY <1>2, <1>8 DEF Careful, Files, Surviving
  <2>2. \A n \in Node : Found(n)' = Found(n)
    BY <1>1, <2>1, CloseMetaFiles
  <2>3. Latest(k)' = Latest(k)
    BY <2>2, LatestStays
  <2> QED BY <1>1, <1>2, <1>6, <2>1, <2>3, AwaitedStays
<1>9. \A n \in Node : metaCache'[n] = None
  BY <1>1, <1>2 DEF Surviving
<1> QED BY <1>1, <1>2, <1>5, <1>6, <1>7, <1>8, <1>9, SurvivingKept

LEMMA NewNodeSurviving ==
    ASSUME Careful, Base', NewNode, use' = use
    PROVE  Surviving'
<1>1. TypeOK /\ TypeOK' /\ Phases /\ Base /\ Surviving /\ Placed /\ job \in Jobs
  BY JobType DEF Careful, Base
<1>2. /\ UNCHANGED <<nodeFile, metaCache, state, fileMeta, current, closed, crashes, puts>>
      /\ state = "open" /\ job.pc = "newNode" /\ node < MaxNode /\ buffer = <<>>
      /\ node' = node + 1 /\ buffer' = <<>> /\ held' = <<>> /\ buffered' = <<Header>>
      /\ metaFile' = [metaFile EXCEPT ![node + 1] = <<>>] /\ Goto(job.next)
  BY <1>1 DEF NewNode, OpenStreams, At, Phases, counts, history
<1>3. node \in Nat /\ node + 1 \in Node /\ node < node + 1 /\ job.next \in Nexts
  BY <1>1, <1>2, MetaLogAssumption DEF TypeOK, Node, Jobs
<1>4. ~Storing'
  BY <1>1, <1>2, <1>3, GotoEffect DEF Pcs, Nexts, Storing
<1>5. /\ metaFile[node + 1] = None /\ metaFile'[node + 1] = <<>>
      /\ \A n \in Node : n # node + 1 => metaFile'[n] = metaFile[n]
  BY <1>1, <1>2, <1>3 DEF TypeOK, Phases
<1>6. \A n \in Node : OnDisk(n)' = OnDisk(n)
  <2> TAKE n \in Node
  <2>1. CASE n # node + 1
    BY <1>5, <2>1 DEF OnDisk
  <2>2. CASE n = node + 1
    <3>1. OnDisk(n) = NoMetas
      BY <1>5, <2>2, NoneAssumption DEF OnDisk
    <3>2. metaFile'[n] = <<>> /\ <<>> \in Seq(Token)
      BY <1>5, <2>2
    <3>3. OnDisk(n)' = Records(<<>>)
      BY <3>2, Zenon DEF OnDisk
    <3> QED BY <3>1, <3>3, NoRecords
  <2> QED BY <2>1, <2>2
<1>7. \A n \in Node : Extends(Data(n)', Data(n))
  <2> TAKE n \in Node
  <2>1. nodeFile[n] \in Seq(Value) /\ nodeFile[n] \o <<>> = nodeFile[n]
    BY <1>1 DEF TypeOK
  <2>2. Data(n)' = nodeFile[n] /\ Data(n) = nodeFile[n]
    BY <1>2, <2>1 DEF Data
  <2> QED BY <2>1, <2>2 DEF Extends
<1>8. ASSUME NEW k \in Keys PROVE Handed(k)
  <2>1. Stored(k)' = Stored(k)
    BY <1>6, StoredStays
  <2>2. Tokens(buffered') \union Tokens(held') = {Header} /\ Header.flag # "normal"
    BY <1>2, NoTokens, HeaderIs DEF Header
  <2> QED BY <1>2, <2>1, <2>2 DEF Handed
<1>9. ASSUME NEW k \in Keys, crashes' = 0 PROVE Awaited(k)'
  <2>1. Files /\ Owned /\ Awaited(k)
    BY <1>2, <1>9 DEF Careful, Files, Surviving
  <2>2. \A n \in Node : Found(n)' = Found(n)
    BY <1>1, <2>1, NewNodeFiles
  <2>3. Latest(k)' = Latest(k)
    BY <2>2, LatestStays
  <2> QED BY <1>1, <1>2, <1>7, <2>1, <2>3, AwaitedStays
<1>10. \A n \in Node : metaCache'[n] = None
  BY <1>1, <1>2 DEF Surviving
<1> QED BY <1>1, <1>2, <1>4, <1>7, <1>8, <1>9, <1>10, SurvivingKept

LEMMA PutMetaSurviving ==
    ASSUME Careful, Base', PutMeta, use' = use
    PROVE  Surviving'
<1>1. TypeOK /\ TypeOK' /\ Phases /\ Base /\ Surviving /\ Placed
  BY DEF Careful, Base
<1>2. /\ UNCHANGED <<nodeFile, metaCache, state, node, buffer, closed, crashes, puts>>
      /\ state = "open" /\ job.pc = "meta" /\ job.value.key \in Keys /\ Storing
      /\ fileMeta \in [Keys -> Token \union {None}]
  BY <1>1 DEF PutMeta, At, Phases, Storing, counts, TypeOK
<1>3. PICK n \in Node : n = node
  BY <1>1 DEF TypeOK
<1>4. PICK c \in Keys : c = job.value.key
  BY <1>2
<1>5. PICK t \in Token : /\ t = [flag |-> "normal", key |-> c, node |-> n, off |-> Size - 1]
                         /\ t.off < Len(Data(n)) /\ Data(n)[t.off + 1] = job.value
  BY <1>1, <1>3, <1>4, NewMeta
<1>6. /\ fileMeta' = [fileMeta EXCEPT ![c] = t] /\ WriteMeta(t) /\ Goto("sync")
      /\ current' = IF job.next = "idle" THEN [current EXCEPT ![c] = job.value.put] ELSE current
  BY <1>3, <1>4, <1>5 DEF PutMeta
<1>7. ~Storing'
  BY <1>1, <1>6, GotoEffect DEF Pcs, Storing
<1>8. \A p \in Node : Data(p)' = Data(p) /\ Extends(Data(p)', Data(p))
  <2>1. \A p \in Node : Data(p)' = Data(p)
    BY <1>2 DEF Data
  <2> QED BY <1>1, <1>2, <2>1, DataLonger
<1>9. PutOf(t)' = puts
  <2>1. t # None /\ t.node = n /\ t.key = c
    BY <1>5, NoneAssumption
  <2>2. PutOf(t)' = Content(t, Data(n)')
    BY <2>1 DEF PutOf
  <2>3. Content(t, Data(n)) = job.value.put
    BY <1>4, <1>5, <2>1 DEF Content
  <2>4. job.value.put = puts
    BY <1>1, <1>2 DEF Surviving
  <2> QED BY <1>8, <2>2, <2>3, <2>4
<1>10. Tokens(buffered') \union Tokens(held') \subseteq Tokens(buffered) \union Tokens(held) \union {t}
  <2>1. metaFile[node] \in Seq(Token)
    BY <1>1, <1>2 DEF Phases
  <2> QED BY <1>1, <1>6, <2>1, WriteMetaTokens
<1>11. ASSUME NEW k \in Keys PROVE Handed(k)
  <2>1. \/ Stored(k)' = Stored(k)
        \/ \E m \in Token : Stored(k)' = m /\ m \in Tokens(buffered) /\ m.flag = "normal" /\ m.key = k
    BY <1>1, <1>2, <1>6, StoredWritten
  <2>2. fileMeta'[k] = fileMeta[k] \/ fileMeta'[k] = t
    BY <1>2, <1>6
  <2>3. \A m \in Tokens(buffered') \union Tokens(held') :
           m \in Tokens(buffered) \union Tokens(held) \/ PutOf(m)' = puts
    BY <1>9, <1>10
  <2> QED BY <1>2, <1>9, <2>1, <2>2, <2>3 DEF Handed
<1>12. ASSUME NEW k \in Keys, crashes' = 0 PROVE Awaited(k)'
  <2>1. Files /\ Owned /\ \A l \in Keys : Awaited(l)
    BY <1>2, <1>12 DEF Careful, Files, Surviving
  <2>2. PICK p \in Node : \E l \in Keys : \E m \in Token : MetaPut(p, l, m)
    BY <1>1, <2>1, PutMetaLatest
  <2>3. PICK l \in Keys : \E m \in Token : MetaPut(p, l, m)
    BY <2>2
  <2>4. PICK m \in Token : MetaPut(p, l, m)
    BY <2>3
  <2>5. /\ p = n /\ l = c /\ fileMeta' = [fileMeta EXCEPT ![c] = m] /\ Latest(c)' = m
        /\ \A j \in Keys : j # c => Latest(j)' = Latest(j)
    BY <1>3, <1>4, <2>4 DEF MetaPut
  <2>6. m = t
    BY <1>2, <1>6, <2>5
  <2>7. puts \in Nat /\ use.maxPuts \in Nat /\ puts <= use.maxPuts /\ job.value.put = puts
    BY <1>1, <1>2, PutsAre DEF Surviving
  <2>8. current \in [Keys -> 0 .. use.maxPuts \union {None}]
    BY <1>1 DEF TypeOK
  <2>9. current'[k] = current[k] \/ (k = c /\ current'[k] = puts)
    BY <1>6, <2>7, <2>8
  <2>10. CASE k # c
    <3>1. current'[k] = current[k] /\ Latest(k)' = Latest(k)
      BY <2>5, <2>9, <2>10
    <3> QED BY <1>1, <1>2, <1>8, <2>1, <3>1, AwaitedStays
  <2>11. CASE k = c
    <3>1. Latest(k)' = t
      BY <2>5, <2>6, <2>11
    <3>2. PutOf(Latest(k))' = puts
      BY <1>9, <3>1 DEF PutOf
    <3>3. current'[k] \in 0 .. puts
      BY <2>1, <2>7, <2>9 DEF Awaited
    <3> QED BY <1>2, <2>7, <3>2, <3>3 DEF Awaited, Reaches
  <2> QED BY <2>10, <2>11
<1>13. \A p \in Node : metaCache'[p] = None
  BY <1>1, <1>2 DEF Surviving
<1> QED BY <1>1, <1>2, <1>7, <1>8, <1>11, <1>12, <1>13, SurvivingKept

LEMMA RemoveSurviving ==
    ASSUME Careful, Base', NEW c \in Keys, Remove(c), use' = use
    PROVE  Surviving'
<1>1. TypeOK /\ TypeOK' /\ Phases /\ Base /\ Surviving /\ Placed
  BY DEF Careful, Base
<1>2. /\ UNCHANGED <<nodeFile, state, node, buffer, job, crashes, puts>>
      /\ state = "open" /\ job.pc = "idle" /\ fileMeta[c] # None
      /\ fileMeta \in [Keys -> Token \union {None}]
      /\ metaFile[node] \in Seq(Token)
  BY <1>1 DEF Remove, At, Phases, counts, TypeOK
<1>3. PICK t \in Token : t.flag = "delete" /\ WriteMeta(t)
  <2>1. [fileMeta[c] EXCEPT !.flag = "delete"] \in Token
        /\ [fileMeta[c] EXCEPT !.flag = "delete"].flag = "delete"
    BY MetaLogAssumption, <1>2 DEF Token, Meta, Header, End, Node
  <2>2. WriteMeta([fileMeta[c] EXCEPT !.flag = "delete"])
    BY DEF Remove
  <2> QED BY <2>1, <2>2
<1>4. /\ fileMeta' = [fileMeta EXCEPT ![c] = None]
      /\ current' = [current EXCEPT ![c] = 0] /\ closed' = [closed EXCEPT ![c] = 0]
      /\ {current, closed} \subseteq [Keys -> 0 .. use.maxPuts \union {None}]
  BY <1>1 DEF Remove, TypeOK
<1>5. ~Storing'
  BY <1>2 DEF Storing
<1>6. \A p \in Node : Extends(Data(p)', Data(p))
  BY <1>1, <1>2, DataLonger
<1>7. Tokens(buffered') \union Tokens(held') \subseteq Tokens(buffered) \union Tokens(held) \union {t}
  BY <1>1, <1>2, <1>3, WriteMetaTokens
<1>8. \A k \in Keys : /\ k = c => closed'[k] = 0 /\ current'[k] = 0
                      /\ k # c => closed'[k] = closed[k] /\ current'[k] = current[k]
                                  /\ fileMeta'[k] = fileMeta[k]
  BY <1>2, <1>4
<1>9. ASSUME NEW k \in Keys, k # c PROVE Handed(k)
  <2>1. \/ Stored(k)' = Stored(k)
        \/ \E m \in Token : Stored(k)' = m /\ m \in Tokens(buffered) /\ m.flag = "normal" /\ m.key = k
    BY <1>1, <1>2, <1>3, StoredWritten
  <2>2. \A m \in Tokens(buffered') \union Tokens(held') : m.flag = "normal" =>
           m \in Tokens(buffered) \union Tokens(held)
    BY <1>3, <1>7
  <2> QED BY <1>2, <1>8, <1>9, <2>1, <2>2 DEF Handed
<1>10. ASSUME NEW k \in Keys, crashes' = 0 PROVE Awaited(k)'
  <2>1. Files /\ Owned /\ Awaited(k)
    BY <1>2, <1>10 DEF Careful, Files, Surviving
  <2>2. \A n \in Node : Found(n)'[k] = Found(n)[k]
    BY <1>1, <2>1, RemoveFiles
  <2>3. Latest(k)' = Latest(k)
    BY <2>2, LatestStays
  <2>4. current'[k] \in {current[k], 0}
    BY <1>8
  <2> QED BY <1>1, <1>2, <1>6, <2>1, <2>3, <2>4, AwaitedStays
<1>11. \A n \in Node : metaCache'[n] = None
  BY <1>1 DEF Surviving, Remove
<1>12. \A k \in Keys : closed'[k] \in {closed[k], 0} /\ (closed'[k] # 0 => Handed(k))
  BY <1>8, <1>9
<1> QED BY <1>1, <1>2, <1>5, <1>6, <1>10, <1>11, <1>12, SurvivingKept

(* Opening finds of each key the last meta on disk. *)
LEMMA OpenSurviving ==
    ASSUME Careful, Base', ~torn', Open, use' = use
    PROVE  Surviving'
<1>1. TypeOK /\ TypeOK' /\ Phases /\ Base /\ Surviving /\ Placed
  BY DEF Careful, Base
<1>2. /\ state # "open" /\ state' = "open" /\ job = NoJob /\ job' = job /\ buffer = <<>>
      /\ nodeFile' = nodeFile /\ MetaNodes # {} /\ AfterReading(MetaNodes)
      /\ node' = Last(MetaNodes) /\ buffer' = <<>> /\ held' = <<>> /\ buffered' = <<Header>>
      /\ fileMeta' = AllMetas /\ puts' = puts /\ crashes' = crashes /\ closed' = closed
      /\ state \in {"closed", "crashed"}
  BY <1>1 DEF Open, OpenStreams, Phases
<1>3. /\ MetaNodes \subseteq Node
      /\ \A n \in MetaNodes : metaFile[n] \in Seq(Token) /\ metaCache[n] = None
      /\ \A n \in Node : n \notin MetaNodes => metaFile[n] = None
  BY <1>1 DEF MetaNodes, TypeOK, Surviving
<1>4. \A n \in MetaNodes : metaFile'[n] \in Seq(Token) /\ Records(metaFile'[n]) = Records(metaFile[n])
  <2> TAKE n \in MetaNodes
  <2>1. n \in Node /\ metaFile[n] \in Seq(Token) /\ metaCache[n] = None
    BY <1>3
  <2>2. metaFile'[n] = Corrected(metaFile[n]) /\ ~Tears(metaFile[n])
    BY <1>2, <2>1 DEF AfterReading
  <2>3. Records(Corrected(metaFile[n])) = Records(metaFile[n])
    BY <2>2 DEF Tears
  <2> QED BY <1>1, <2>1, <2>2, <2>3, CorrectedType
<1>5. \A n \in Node : n \notin MetaNodes => metaFile'[n] = None
  BY <1>1, <1>2, <1>3, AfterReadingEffect
<1>6. \A n \in Node : OnDisk(n)' = OnDisk(n)
  <2> TAKE n \in Node
  <2>1. CASE n \in MetaNodes
    BY <1>3, <1>4, <2>1 DEF OnDisk
  <2>2. CASE n \notin MetaNodes
    BY <1>3, <1>5, <2>2, NoneAssumption DEF OnDisk
  <2> QED BY <2>1, <2>2
<1>7. \A n \in MetaNodes : ReadMeta(n) = OnDisk(n)
  BY <1>3 DEF ReadMeta, OnDisk
<1>8. ASSUME NEW k \in Keys PROVE AllMetas[k] = Stored(k)
  <2>1. \A n \in Node : n \notin MetaNodes => OnDisk(n)[k] = None
    BY <1>3, NoneAssumption DEF OnDisk, NoMetas
  <2>2. {n \in MetaNodes : ReadMeta(n)[k] # None} = Storers(k)
    BY <1>3, <1>7, <2>1 DEF Storers
  <2>3. AllMetas[k] = IF Storers(k) = {} THEN None ELSE ReadMeta(Last(Storers(k)))[k]
    BY <2>2 DEF AllMetas
  <2>4. Storers(k) # {} => Last(Storers(k)) \in Storers(k)
    <3>1. Storers(k) \subseteq Node
      BY DEF Storers
    <3> QED BY <3>1, LastNode
  <2>5. Storers(k) \subseteq MetaNodes
    BY <2>2
  <2> QED BY <1>7, <2>3, <2>4, <2>5 DEF Stored
<1>9. \A n \in Node : Extends(Data(n)', Data(n))
  <2> TAKE n \in Node
  <2>1. nodeFile[n] \in Seq(Value) /\ nodeFile[n] \o <<>> = nodeFile[n]
    BY <1>1 DEF TypeOK
  <2>2. Data(n)' = nodeFile[n] /\ Data(n) = nodeFile[n]
    BY <1>2, <2>1 DEF Data
  <2> QED BY <2>1, <2>2 DEF Extends
<1>10. ASSUME NEW k \in Keys PROVE Handed(k)
  <2>1. Stored(k)' = Stored(k)
    BY <1>6, StoredStays
  <2>2. Tokens(buffered') \union Tokens(held') = {Header} /\ Header.flag # "normal"
    BY <1>2, NoTokens, HeaderIs DEF Header
  <2>3. fileMeta'[k] = Stored(k)
    BY <1>2, <1>8
  <2> QED BY <2>1, <2>2, <2>3 DEF Handed
<1>11. ASSUME NEW k \in Keys, crashes' = 0 PROVE Awaited(k)'
  <2>1. Files /\ Owned /\ Awaited(k)
    BY <1>2, <1>11 DEF Careful, Files, Surviving
  <2>2. current' = current
    BY <1>2, <2>1 DEF Files, Open
  <2>3. \A n \in Node : Found(n)' = Found(n)
    BY <1>1, <2>1, OpenFiles
  <2>4. Latest(k)' = Latest(k)
    BY <2>3, LatestStays
  <2> QED BY <1>1, <1>2, <1>9, <2>1, <2>2, <2>4, AwaitedStays
<1>12. ~Storing'
  BY <1>2 DEF NoJob, Storing
<1>13. \A n \in Node : metaCache'[n] = None
  <2>1. \A n \in Node : metaCache[n] = None
    BY <1>1 DEF Surviving
  <2> QED BY <1>2, <2>1, CacheEmpty DEF Careful
<1> QED BY <1>1, <1>2, <1>9, <1>10, <1>11, <1>12, <1>13, SurvivingKept

(* What a close leaves on disk is what the store had. *)
LEMMA ClosedSurviving ==
    ASSUME Careful, Base', Closed, use' = use
    PROVE  Surviving'
<1>1. TypeOK /\ TypeOK' /\ Phases /\ Base /\ Surviving /\ Placed
  BY DEF Careful, Base
<1>2. /\ UNCHANGED <<metaFile, nodeFile, node, current, crashes, puts>>
      /\ state = "open" /\ state' = "closed" /\ job.pc = "closed"
      /\ buffer = <<>> /\ buffer' = <<>> /\ held' = <<>> /\ buffered' = <<>> /\ job' = NoJob
      /\ metaCache' \in {metaCache, [n \in Node |-> None]}
      /\ closed' = IF crashes = 0 THEN current ELSE closed
  BY <1>1 DEF Closed, At, Phases, counts
<1>3. \A n \in Node : OnDisk(n)' = OnDisk(n) /\ Data(n)' = Data(n)
  BY <1>2 DEF OnDisk, Data
<1>4. \A n \in Node : Extends(Data(n)', Data(n))
  BY <1>1, <1>2, DataLonger
<1>5. Tokens(buffered') = {} /\ Tokens(held') = {}
  BY <1>2, NoTokens
<1>6. ~Storing'
  BY <1>2 DEF NoJob, Storing
<1>7. \A n \in Node : metaCache'[n] = None
  BY <1>1, <1>2 DEF Surviving
<1>8. ASSUME NEW k \in Keys, crashes' = 0 PROVE Latest(k)' = Latest(k) /\ Awaited(k)'
  <2>1. Files /\ Owned /\ Awaited(k)
    BY <1>2, <1>8 DEF Careful, Files, Surviving
  <2>2. \A n \in Node : Found(n)' = Found(n)
    BY <1>1, <2>1, ClosedFiles
  <2>3. Latest(k)' = Latest(k)
    BY <2>2, LatestStays
  <2> QED BY <1>1, <1>2, <1>4, <2>1, <2>3, AwaitedStays
<1>9. CASE crashes = 0
  <2>1. ASSUME NEW k \in Keys PROVE closed'[k] \in 0 .. puts' /\ (closed'[k] # 0 => Lasting(k)')
    <3>1. Awaited(k)' /\ closed'[k] = current'[k]
      BY <1>2, <1>8, <1>9
    <3>2. closed'[k] \in 0 .. puts'
      BY <3>1 DEF Awaited
    <3>3. \A n \in Node : OnDisk(n)' = Found(n)'
      BY <1>2 DEF OnDisk, Found, Written, Writing
    <3>4. Stored(k)' = Latest(k)'
      <4>1. Storers(k)' = Having(k)'
        BY <3>3 DEF Storers, Having
      <4>2. Having(k)' \subseteq Node
        BY DEF Having
      <4>3. CASE Having(k)' = {}
        BY <4>1, <4>3 DEF Stored, Latest
      <4>4. CASE Having(k)' # {}
        <5>1. PICK n \in Node : n = Last(Having(k)')
          BY <4>2, <4>4, LastNode
        <5>2. n = Last(Having(k))' /\ n = Last(Storers(k))'
          BY <4>1, <5>1 DEF Last
        <5>3. Latest(k)' = Found(n)'[k]
          BY <4>4, <5>2, Zenon DEF Latest
        <5>4. Stored(k)' = OnDisk(n)'[k]
          BY <4>1, <4>4, <5>2, Zenon DEF Stored
        <5> QED BY <3>3, <5>3, <5>4
      <4> QED BY <4>3, <4>4
    <3>5. closed'[k] # 0 => Lasting(k)'
      <4> SUFFICES ASSUME closed'[k] # 0 PROVE Lasting(k)'
        OBVIOUS
      <4>1. Reaches(Latest(k), current[k])'
        BY <3>1 DEF Awaited
      <4>2. Reaches(Stored(k), closed[k])'
        BY <3>1, <3>4, <4>1 DEF Reaches, PutOf
      <4> QED BY <1>2, <1>5, <4>2 DEF Lasting
    <3> QED BY <3>2, <3>5
  <2> QED BY <1>6, <1>7, <1>8, <2>1 DEF Surviving
<1>10. CASE crashes # 0
  <2>1. closed' = closed /\ crashes' # 0
    BY <1>2, <1>10
  <2>2. ASSUME NEW k \in Keys PROVE Handed(k)
    <3>1. Stored(k)' = Stored(k)
      BY <1>3, StoredStays
    <3> QED BY <1>2, <1>5, <3>1 DEF Handed
  <2> QED BY <1>1, <1>2, <1>4, <1>6, <1>7, <2>1, <2>2, SurvivingKept
<1> QED BY <1>9, <1>10

(* A crash loses what is in memory; what is on disk points to data on disk. *)
LEMMA CrashSurviving ==
    ASSUME Careful, Base', Crash, use' = use
    PROVE  Surviving'
<1>1. TypeOK /\ TypeOK' /\ Base /\ Surviving /\ Placed
  BY DEF Careful, Base
<1>2. /\ UNCHANGED <<metaFile, nodeFile, node, closed, puts>>
      /\ state' = "crashed" /\ crashes' = crashes + 1
      /\ buffer' = <<>> /\ held' = <<>> /\ buffered' = <<>> /\ job' = NoJob
      /\ metaCache' = [n \in Node |-> None]
  BY DEF Crash, history
<1>3. puts \in Nat /\ crashes' # 0
  BY <1>1, <1>2, PutsAre
<1>4. ASSUME NEW k \in Keys, closed[k] # 0 PROVE Lasting(k)'
  <2>1. Reaches(Stored(k), closed[k]) /\ closed[k] \in 0 .. puts
    BY <1>1, <1>4 DEF Surviving, Lasting
  <2>2. PICK p \in Nat : p = closed[k] /\ p # 0
    BY <1>3, <1>4, <2>1
  <2>3. Stored(k) # None
    <3> SUFFICES ASSUME Stored(k) = None PROVE FALSE
      OBVIOUS
    <3>1. PutOf(Stored(k)) = 0 /\ use.maxPuts \in Nat
      BY <1>1, PutsAre DEF PutOf, Content
    <3> QED BY <2>1, <2>2, <3>1 DEF Reaches
  <2>4. PICK n \in Node : /\ metaFile[n] \in Seq(Token) /\ Stored(k) \in Tokens(metaFile[n])
                          /\ Stored(k).flag = "normal" /\ Stored(k) \in Token
    BY <1>1, <2>3, StoredIs
  <2>5. PICK m \in Token : m = Stored(k) /\ m # None /\ m.node \in Node /\ m.off \in Nat
    BY <2>3, <2>4, TokenFields
  <2>6. Saved(m)
    BY <1>1, <2>4, <2>5 DEF Placed, IsRecord
  <2>7. \A i \in Node : OnDisk(i)' = OnDisk(i)
    BY <1>2 DEF OnDisk
  <2>8. Stored(k)' = m
    BY <2>5, <2>7, StoredStays
  <2>9. PICK f \in Seq(Value) : f = nodeFile[m.node]
    BY <1>1, <2>5 DEF TypeOK
  <2>10. Data(m.node)' = f
    BY <1>2, <2>9 DEF Data
  <2>11. Extends(Data(m.node), f) /\ Len(Data(m.node)) \in Nat
    <3>1. buffer \in Seq(Value) /\ Data(m.node) \in {f, f \o buffer}
      BY <1>1, <2>9 DEF Data, TypeOK
    <3>2. CASE Data(m.node) = f
      BY <3>2 DEF Extends
    <3>3. CASE Data(m.node) = f \o buffer
      <4>1. Extends(f \o buffer, f) /\ Len(f \o buffer) \in Nat
        BY <3>1 DEF Extends
      <4> QED BY <3>3, <4>1
    <3> QED BY <3>1, <3>2, <3>3
  <2>12. Content(m, Data(m.node)) = Content(m, f)
    BY <2>6, <2>9, <2>11, ContentStays DEF Saved, HasValue
  <2>13. PutOf(m)' = PutOf(m)
    BY <2>5, <2>10, <2>12 DEF PutOf
  <2>14. Reaches(Stored(k), closed[k])'
    BY <1>2, <2>1, <2>5, <2>8, <2>13 DEF Reaches, PutOf
  <2>15. Tokens(buffered') = {} /\ Tokens(held') = {}
    BY <1>2, NoTokens
  <2> QED BY <1>2, <2>14, <2>15 DEF Lasting
<1>5. ~Storing'
  BY <1>2 DEF NoJob, Storing
<1> QED BY <1>1, <1>2, <1>3, <1>4, <1>5 DEF Surviving

LEMMA StillSurviving ==
    ASSUME Careful, Base', use' = use, state' \in {state, "failed"}, state' = "open" <=> state = "open",
           UNCHANGED <<disk, streams, fileMeta, job, puts, crashes, history>>
    PROVE  Surviving'
<1>1. TypeOK /\ TypeOK' /\ Base /\ Surviving
  BY DEF Careful, Base
<1>2. /\ UNCHANGED <<use, metaFile, nodeFile, metaCache, node, buffer, held, buffered, job>>
      /\ UNCHANGED <<current, closed>>
  BY DEF disk, streams, history
<1>3. \A n \in Node : Extends(Data(n)', Data(n))
  BY <1>1, <1>2, DataLonger
<1>4. \A k \in Keys : Handed(k)
  BY <1>2, HandedKept
<1>5. ASSUME NEW k \in Keys, crashes' = 0 PROVE Awaited(k)'
  <2>1. Files /\ Owned /\ Awaited(k)
    BY <1>5 DEF Careful, Files, Surviving
  <2>2. \A n \in Node : Found(n)' = Found(n)
    BY <1>1, <1>2, <2>1, StillFiles
  <2>3. Latest(k)' = Latest(k)
    BY <2>2, LatestStays
  <2> QED BY <1>1, <1>2, <1>3, <2>1, <2>3, AwaitedStays
<1>6. (Storing' <=> Storing) /\ \A n \in Node : metaCache'[n] = None
  BY <1>1, <1>2 DEF Storing, Surviving
<1> QED BY <1>1, <1>2, <1>3, <1>4, <1>5, <1>6, SurvivingKept DEF Surviving

LEMMA InitSurviving == Init => Surviving
<1> SUFFICES ASSUME Init PROVE Surviving
  OBVIOUS
<1>1. /\ metaCache = [n \in Node |-> None] /\ job = NoJob /\ puts = 0
      /\ \A k \in Keys : current[k] = 0 /\ closed[k] = 0
  BY DEF Init
<1>2. ~Storing
  BY <1>1 DEF NoJob, Storing
<1> QED BY <1>1, <1>2 DEF Surviving, Awaited

(* The invariant of what was closed. *)
Survivors ==
    /\ Recovered /\ Sessions
    /\ Synchronous /\ ~use.cacheKept /\ ~torn => Surviving

LEMMA StepSurvivors == Survivors /\ [Next]_vars => Survivors'
<1> SUFFICES ASSUME Survivors, [Next]_vars PROVE Survivors'
  OBVIOUS
<1>1. Recovered /\ Recovered' /\ Sessions /\ Sessions'
  BY StepRecovered, StepSessions DEF Survivors
<1>2. use' = use /\ Base /\ Base'
  BY <1>1 DEF Next, vars, Recovered
<1> SUFFICES ASSUME Synchronous, ~use.cacheKept, ~torn' PROVE Surviving'
  BY <1>1, <1>2 DEF Survivors, Synchronous
<1>3. ~torn
  <2>1. CASE UNCHANGED vars
    BY <2>1 DEF vars, history
  <2>2. CASE Open \/ PackReadMeta
    BY <2>2 DEF Open, PackReadMeta, AfterReading
  <2>3. CASE Step /\ ~Open /\ ~PackReadMeta
    <3>1. torn' = torn
      BY <2>3 DEF Step, OpenFails, Crash, Put, Remove, PackEntry, Callback, PutMeta, PutSync,
         PutSize, Close, CloseData, CloseCallback, CloseMeta, NewNode, Closed, Flush, Pack, PackDeleteMeta,
         PackDeleteNode, history
    <3> QED BY <3>1
  <2> QED BY <2>1, <2>2, <2>3 DEF Next
<1>4. Careful
  BY <1>1, <1>2, <1>3 DEF Careful, Survivors, Recovered, Sessions, Undisturbed
<1>5. CASE UNCHANGED vars
  <2>1. state' = state /\ UNCHANGED <<disk, streams, fileMeta, job, puts, crashes, history>>
    BY <1>5 DEF vars, counts
  <2> QED BY <1>2, <1>4, <2>1, StillSurviving
<1>6. CASE OpenFails
  <2>1. /\ state # "open" /\ state' = "failed"
        /\ UNCHANGED <<disk, streams, fileMeta, job, puts, crashes, history>>
    BY <1>6 DEF OpenFails
  <2> QED BY <1>2, <1>4, <2>1, StillSurviving
<1>7. ~Pack /\ job.pc \notin {"readMeta", "entry", "deleteNode"}
  BY <1>4 DEF Careful, Pack, Synchronous, Placed, Packing
<1>8. ~PackReadMeta /\ ~PackDeleteMeta /\ ~PackDeleteNode /\ \A k \in Keys : ~PackEntry(k)
  BY <1>7 DEF PackReadMeta, PackDeleteMeta, PackDeleteNode, PackEntry, At
<1>9. CASE Step
  BY <1>2, <1>4, <1>6, <1>7, <1>8, <1>9, QuietSurviving, CallbackSurviving, CloseMetaSurviving,
     NewNodeSurviving, PutMetaSurviving, RemoveSurviving, OpenSurviving, ClosedSurviving,
     CrashSurviving DEF Step
<1> QED BY <1>5, <1>9 DEF Next

(***************************************************************************)
(* Written synchronously and never packed, a store opened after any number *)
(* of crashes shows of every key at least the put it had when it was last  *)
(* closed before the first of them, unless the key was removed, as long as *)
(* no correction of a meta file has taken a record away                    *)
(* (FileStore.java:189-204, 335-403, MetaUtils.java:58-74).                *)
(***************************************************************************)
THEOREM ClosedOutlivesCrashes == Spec => []ClosedSurvives
<1>1. Init => Survivors
  BY InitBase, InitPlaced, InitFiles, InitKept, InitSurviving DEF Survivors, Recovered, Sessions
<1>2. Survivors /\ RecoveredIsWhole => ClosedSurvives
  <2> SUFFICES ASSUME Survivors, RecoveredIsWhole, use.sync, "pack" \notin use.calls, ~use.cacheKept,
                      ~torn, state = "open", NEW k \in Keys
               PROVE  Shown(k) \in closed[k] .. use.maxPuts
    BY DEF ClosedSurvives
  <2>1. TypeOK /\ Surviving
    BY DEF Survivors, Recovered, Base, Synchronous
  <2>2. Shown(k) = PutOf(fileMeta[k])
    BY DEF Shown, PutOf, Data
  <2>3. CASE closed[k] # 0
    BY <2>1, <2>2, <2>3 DEF Surviving, Lasting, Reaches
  <2>4. CASE closed[k] = 0
    <3>1. Shown(k) # None
      BY DEF RecoveredIsWhole
    <3>2. fileMeta[k] \in Token \union {None} /\ use.maxPuts \in Nat
      BY <2>1, PutsAre DEF TypeOK
    <3>3. CASE fileMeta[k] = None
      BY <2>2, <2>4, <3>2, <3>3 DEF PutOf, Content
    <3>4. CASE fileMeta[k] # None
      <4>1. PICK m \in Token : m = fileMeta[k] /\ m # None /\ m.node \in Node
        BY <3>2, <3>4, TokenFields
      <4>2. Shown(k) = Content(m, Data(m.node)) /\ Data(m.node) \in Seq(Value)
        BY <2>1, <2>2, <4>1, DataType DEF PutOf
      <4>3. Shown(k) \in 0 .. use.maxPuts \union {None}
        BY <2>1, <4>1, <4>2, ContentType
      <4> QED BY <2>4, <3>1, <4>3
    <3> QED BY <3>3, <3>4
  <2> QED BY <2>3, <2>4
<1> QED BY <1>1, <1>2, StepSurvivors, RecoveredShowsPuts, PTL DEF Spec
=============================================================================
