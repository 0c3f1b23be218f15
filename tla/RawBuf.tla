------------------------------- MODULE RawBuf -------------------------------
(***************************************************************************)
(* The chunked byte buffer of src/rawbuf.c: appended at the tail, written to     *)
(* a socket or copied out at the head, with one offset for the head chunk.       *)
(* A buffer is either flushed or read with op_rawbuf_get, never both.            *)
(*                                                                          *)
(* Bytes are numbered in the order in which they are appended.                *)
(***************************************************************************)
EXTENDS Integers, Sequences, SequencesExt

CONSTANTS
    ChunkSize,  \* RAWBUF_SIZE
    MaxIov,     \* OP_UIO_MAXIOV
    Ssl,        \* does the descriptor write through TLS (op_fd_ssl)?
    Reads,      \* is the buffer read with op_rawbuf_get instead of flushed?
    MaxAppend,  \* bound: bytes in one append
    MaxBytes    \* bound: bytes appended

(* What the constants have to satisfy.                                      *)
RawBufAssumption ==
    /\ {ChunkSize, MaxIov, MaxAppend, MaxBytes} \subseteq Nat \ {0}
    /\ {Ssl, Reads} \subseteq BOOLEAN

VARIABLES
    rep,    \* the rawbuf_head_t: chunks, len, written
    out,    \* the bytes that left at the head
    fed     \* how many bytes were appended

vars == <<rep, out, fed>>

Init == rep = [list |-> <<>>, len |-> 0, written |-> 0] /\ out = <<>> /\ fed = 0

AtMost(a, b) == IF a < b THEN a ELSE b
Chunk(bytes) == [data |-> bytes, flushing |-> FALSE]
rawbuf_free_head(rb) == [rb EXCEPT !.list = Tail(@)]

(* The bytes of a list of chunks that are still to leave, given the offset.    *)
Unsent(rb, k) == IF k.flushing THEN SubSeq(k.data, rb.written + 1, Len(k.data)) ELSE k.data

-----------------------------------------------------------------------------
(* Cut bytes into new chunks behind the list.                                *)
RECURSIVE NewChunks(_, _)
NewChunks(rb, bytes) ==
    IF bytes = <<>> THEN rb
    ELSE LET n == AtMost(Len(bytes), ChunkSize)
         IN  NewChunks([rb EXCEPT !.list = Append(@, Chunk(SubSeq(bytes, 1, n))), !.len = @ + n],
                       SubSeq(bytes, n + 1, Len(bytes)))

(* op_rawbuf_append: the tail chunk is filled first unless it is being flushed.  *)
op_rawbuf_append(rb, bytes) ==
    LET room == /\ rb.list # <<>> /\ ~Last(rb.list).flushing
                /\ Len(Last(rb.list).data) < ChunkSize
        n == IF room THEN AtMost(Len(bytes), ChunkSize - Len(Last(rb.list).data)) ELSE 0
        filled == IF room THEN [rb EXCEPT !.list[Len(rb.list)].data = @ \o SubSeq(bytes, 1, n),
                                          !.len = @ + n]
                  ELSE rb
    IN  NewChunks(filled, SubSeq(bytes, n + 1, Len(bytes)))

(* The buffer after sxret bytes of the vector were written.                  *)
RECURSIVE Written(_, _)
Written(rb, sxret) ==
    IF rb.list = <<>> THEN rb
    ELSE LET k == Head(rb.list)
             remaining == Len(Unsent(rb, k))
         IN  IF sxret >= remaining
             THEN Written([rawbuf_free_head(rb) EXCEPT !.len = @ - remaining,
                                 !.written = IF k.flushing THEN 0 ELSE @], sxret - remaining)
             ELSE [rb EXCEPT !.list[1].flushing = TRUE, !.len = @ - sxret,
                             !.written = IF k.flushing THEN @ + sxret ELSE sxret]

(* op_rawbuf_flush_writev: what sendmsg may take, and the buffer afterwards.  *)
Vector(rb) ==
    FlattenSeq([i \in 1..AtMost(Len(rb.list), MaxIov) |-> Unsent(rb, rb.list[i])])

op_rawbuf_flush_writev ==
    /\ rep.list # <<>>
    /\ \E n \in 1..Len(Vector(rep)) :
          rep' = Written(rep, n) /\ out' = out \o SubSeq(Vector(rep), 1, n)

(* The TLS path of op_rawbuf_flush: the head chunk alone; the flag is set even   *)
(* when the write fails.                                                     *)
FlushHead ==
    /\ rep.list # <<>>
    /\ LET k == Head(rep.list)
           rb == IF k.flushing THEN rep ELSE [rep EXCEPT !.list[1].flushing = TRUE, !.written = 0]
           v == Unsent(rb, Head(rb.list))
       IN  \E n \in 0..Len(v) :
             LET moved == [rb EXCEPT !.written = @ + n, !.len = @ - n]
             IN  /\ rep' = IF moved.written = Len(k.data)
                           THEN [rawbuf_free_head(moved) EXCEPT !.written = 0] ELSE moved
                 /\ out' = out \o SubSeq(v, 1, n)

op_rawbuf_flush ==
    /\ ~Reads /\ (IF Ssl THEN FlushHead ELSE op_rawbuf_flush_writev) /\ UNCHANGED fed

(* op_rawbuf_get: up to n bytes, from the head chunk only.                   *)
op_rawbuf_get(n) ==
    /\ Reads /\ rep.list # <<>> /\ UNCHANGED fed
    /\ LET k == Head(rep.list)
           v == Unsent(rep, k)
           c == AtMost(n, Len(v))
       IN  /\ out' = out \o SubSeq(v, 1, c)
           /\ rep' = IF c = Len(v)
                     THEN [rawbuf_free_head(rep) EXCEPT !.written = 0, !.len = @ - c]
                     ELSE [rep EXCEPT !.list[1].flushing = TRUE, !.written = @ + c, !.len = @ - c]

Appends(n) ==
    /\ n <= MaxBytes - fed /\ fed' = fed + n /\ UNCHANGED out
    /\ rep' = op_rawbuf_append(rep, [i \in 1..n |-> fed + i])

Next ==
    \/ \E n \in 1..MaxAppend : Appends(n) \/ op_rawbuf_get(n)
    \/ op_rawbuf_flush

Spec == Init /\ [][Next]_vars

-----------------------------------------------------------------------------
(* Properties.                                                              *)

TypeOK == rep.len \in Nat /\ rep.written \in 0..ChunkSize /\ fed \in 0..MaxBytes

(* A rawbuf is a byte queue: what left, followed by what the chunks still       *)
(* hold, is what was appended, and len is its length, after any mix of           *)
(* appends, short writes and partial reads.                                  *)
ByteQueue ==
    LET held == FlattenSeq([i \in DOMAIN rep.list |-> Unsent(rep, rep.list[i])])
    IN  out \o held = [i \in 1..fed |-> i] /\ rep.len = Len(held)
=============================================================================
