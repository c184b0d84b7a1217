----------------------------- MODULE AppendLog -----------------------------
(***************************************************************************)
(* What a BlockOutputStream promises its callers, with no buffer in sight: *)
(* an append-only log of bytes, the blocks handed out for what was         *)
(* appended, and how much of the log would survive a crash.                *)
(***************************************************************************)
EXTENDS Naturals, Sequences

CONSTANT Chunks   \* the byte sequences that may be appended

VARIABLES log,       \* every byte accepted so far, in order
          durable,   \* the length of the prefix a crash cannot take away
          blocks     \* the blocks returned to callers, with what was written

logVars == <<log, durable, blocks>>

End(b) == b.off + Len(b.data)

LogInit ==
    /\ log = <<>>
    /\ durable = 0
    /\ blocks = {}

(* Accept a chunk; any part of the log may become durable on the way. *)
Accept(c) ==
    /\ log' = log \o c
    /\ durable' \in durable .. Len(log')
    /\ blocks' = blocks \union {[off |-> Len(log), data |-> c]}

Sync ==
    /\ durable' \in durable .. Len(log)
    /\ UNCHANGED <<log, blocks>>

(* A crash keeps at least the durable prefix, and only the blocks that lie *)
(* wholly in what is kept.                                                 *)
Lose ==
    \E n \in durable .. Len(log) :
        /\ log' = SubSeq(log, 1, n)
        /\ durable' = n
        /\ blocks' = {b \in blocks : End(b) <= n}

(* A crash in the middle of an append: bytes of the chunk may be left      *)
(* behind at the end of the log, and belong to no block.                   *)
Torn(c) ==
    \E n \in 1 .. Len(c) :
        /\ log' = log \o SubSeq(c, 1, n)
        /\ durable' = Len(log')
        /\ UNCHANGED blocks

LogNext ==
    \/ \E c \in Chunks : Accept(c)
    \/ \E c \in Chunks : Torn(c)
    \/ Sync
    \/ Lose

LogSpec == LogInit /\ [][LogNext]_logVars
=============================================================================
