------------------------------ MODULE SendBuf ------------------------------
(***************************************************************************)
(* Send queues over shared lines (src/sendbuf.c, and the line life cycle of    *)
(* src/linebuf.c).                                                           *)
(*                                                                          *)
(* A line is written once by op_linebuf_put, referenced by every client's       *)
(* queue that it is fanned out to, and freed by whoever drops the last          *)
(* reference.  Workers push chunks on a client's inbox without a lock and add    *)
(* their bytes to its length afterwards; the I/O thread moves the inbox to the    *)
(* active queue, writes from it, and advances.                                *)
(***************************************************************************)
EXTENDS Integers, FiniteSets, Sequences, SequencesExt

CONSTANTS
    Clients,    \* the send queues
    Workers,    \* threads that fan lines out
    Lines,      \* line objects, each used once
    LineLen,    \* bytes in a line
    BlockSize,  \* OP_SENDBUF_BLOCK_SIZE
    MaxIov,     \* OP_UIO_MAXIOV
    Gathers,    \* does op_sendbuf_flush use writev (no TLS, no WebSocket)?
    IoLines,    \* does the I/O thread queue lines itself?
    MaxRaw      \* bound: bytes the I/O thread writes raw to one client

(* What the constants have to satisfy.                                      *)
SendBufAssumption ==
    /\ Clients # {} /\ IsFiniteSet(Lines) /\ "io" \notin Workers
    /\ {LineLen, BlockSize, MaxIov} \subseteq Nat \ {0} /\ MaxRaw \in Nat
    /\ {Gathers, IoLines} \subseteq BOOLEAN

VARIABLES
    line,   \* life and reference count of every buf_line_t
    head,   \* the buf_head_t a thread composes its lines in
    sb,     \* per client: the active queue, the inbox (top first), the length
    prod,   \* a thread inside op_sendbuf_write_linebuf: client, next line, bytes pushed
    io,     \* the I/O thread inside op_sendbuf_flush: its client and what it wrote
    wire,   \* bytes that reached the socket
    given   \* per client and thread: the bytes handed over, in order

vars == <<line, head, sb, prod, io, wire, given>>

Threads == Workers \cup {"io"}
Idle == [c |-> "none", pos |-> 0, total |-> 0, pc |-> "idle"]
IoIdle == [c |-> "none", pc |-> "idle", n |-> 0]

Init ==
    /\ line = [l \in Lines |-> [life |-> "free", ref |-> 0]]
    /\ head = [t \in Threads |-> <<>>]
    /\ sb = [c \in Clients |-> [queue |-> <<>>, inbox |-> <<>>, len |-> 0]]
    /\ prod = [t \in Threads |-> Idle]
    /\ io = IoIdle
    /\ wire = [c \in Clients |-> <<>>]
    /\ given = [c \in Clients |-> [t \in Threads |-> <<>>]]

-----------------------------------------------------------------------------
(* Chunks.                                                                  *)

BytesOf(l) == [i \in 1..LineLen |-> <<l, i>>]
LineChunk(l) == [kind |-> "line", line |-> l, data |-> BytesOf(l), rpos |-> 0]
BlockChunk == [kind |-> "block", line |-> "none", data |-> <<>>, rpos |-> 0]
Avail(k) == Len(k.data) - k.rpos
Rest(k) == SubSeq(k.data, k.rpos + 1, Len(k.data))
RestOf(ks) == FlattenSeq([i \in DOMAIN ks |-> Rest(ks[i])])

(* Drop one reference; the last one frees the line (op_linebuf_unref).       *)
op_linebuf_unref(L, l) ==
    [L EXCEPT ![l].ref = @ - 1, ![l].life = IF L[l].ref = 1 THEN "freed" ELSE @]

op_linebuf_ref(L, l) == [L EXCEPT ![l].ref = @ + 1]

(* The lines after the references of the given chunks are dropped.           *)
Unref(L, ks) ==
    FoldLeft(LAMBDA a, k : IF k.kind = "line" THEN op_linebuf_unref(a, k.line) ELSE a, L, ks)

-----------------------------------------------------------------------------
(* Composing and fanning out.                                               *)

(* op_linebuf_put: a new terminated line at the end of the thread's head.    *)
op_linebuf_put(t, l) ==
    /\ prod[t] = Idle /\ line[l].life = "free" /\ (t = "io" => IoLines)
    /\ line' = [line EXCEPT ![l] = [life |-> "live", ref |-> 1]]
    /\ head' = [head EXCEPT ![t] = Append(@, l)]
    /\ UNCHANGED <<sb, prod, io, wire, given>>

(* op_sendbuf_write_linebuf: take a reference on the next line, ...  A line is   *)
(* fanned out to a client once.                                              *)
WriteLinebufRef(t, c) ==
    /\ prod[t] = Idle \/ (prod[t].pc = "next" /\ prod[t].c = c)
    /\ prod[t] = Idle => (head[t] # <<>> /\ (t = "io" => IoLines /\ io = IoIdle))
    /\ LET p == prod[t].pos + 1
       IN  /\ p <= Len(head[t]) /\ <<head[t][p], 1>> \notin Range(given[c][t])
           /\ line' = op_linebuf_ref(line, head[t][p])
           /\ prod' = [prod EXCEPT ![t] = [@ EXCEPT !.c = c, !.pos = p, !.pc = "push"]]
    /\ UNCHANGED <<head, sb, io, wire, given>>

(* ... push its chunk on the inbox, ...                                     *)
sendbuf_inbox_push(t) ==
    /\ prod[t].pc = "push"
    /\ LET c == prod[t].c
           l == head[t][prod[t].pos]
       IN  /\ sb' = [sb EXCEPT ![c].inbox = <<LineChunk(l)>> \o @]
           /\ given' = [given EXCEPT ![c][t] = @ \o BytesOf(l)]
    /\ prod' = [prod EXCEPT ![t].pc = "next", ![t].total = @ + LineLen]
    /\ UNCHANGED <<line, head, io, wire>>

(* ... and after the last one add the bytes to the length.                   *)
WriteLinebufLen(t) ==
    /\ prod[t].pc = "next" /\ prod[t].pos = Len(head[t])
    /\ sb' = [sb EXCEPT ![prod[t].c].len = @ + prod[t].total]
    /\ prod' = [prod EXCEPT ![t] = Idle]
    /\ UNCHANGED <<line, head, io, wire, given>>

(* op_linebuf_donebuf, one line at a time: op_linebuf_done_line.             *)
op_linebuf_done_line(t) ==
    /\ prod[t] = Idle /\ head[t] # <<>>
    /\ line' = op_linebuf_unref(line, Head(head[t]))
    /\ head' = [head EXCEPT ![t] = Tail(@)]
    /\ UNCHANGED <<sb, prod, io, wire, given>>

-----------------------------------------------------------------------------
(* The I/O thread.                                                          *)

RawBytes(c, n) == [i \in 1..n |-> <<"raw", Len(SelectSeq(given[c]["io"], LAMBDA b : b[1] = "raw")) + i>>]

(* The queue with bytes packed into its tail block, then into new blocks.     *)
RECURSIVE Packed(_, _)
Packed(q, bytes) ==
    IF bytes = <<>> THEN q
    ELSE LET fits == q # <<>> /\ Last(q).kind = "block" /\ Len(Last(q).data) < BlockSize
             r == IF fits THEN q ELSE Append(q, BlockChunk)
             space == BlockSize - Len(Last(r).data)
             n == IF Len(bytes) < space THEN Len(bytes) ELSE space
         IN  Packed([r EXCEPT ![Len(r)].data = @ \o SubSeq(bytes, 1, n)],
                    SubSeq(bytes, n + 1, Len(bytes)))

op_sendbuf_write(c, n) ==
    /\ io = IoIdle /\ prod["io"] = Idle
    /\ LET bytes == RawBytes(c, n)
       IN  /\ sb' = [sb EXCEPT ![c].queue = Packed(@, bytes), ![c].len = @ + n]
           /\ given' = [given EXCEPT ![c]["io"] = @ \o bytes]
    /\ UNCHANGED <<line, head, prod, io, wire>>

(* A bug for comparison: the drained stack is appended as it was, newest first.*)
DrainedUnreversed(s) == [s EXCEPT !.queue = @ \o s.inbox, !.inbox = <<>>]

(* sendbuf_drain_inbox: the stack, reversed, goes behind the active queue.   *)
sendbuf_drain_inbox(s) == [s EXCEPT !.queue = @ \o Reverse(s.inbox), !.inbox = <<>>]

(* op_sendbuf_flush, first step: the inbox is emptied.                      *)
FlushDrain(c) ==
    /\ io = IoIdle /\ prod["io"] = Idle
    /\ sb' = [sb EXCEPT ![c] = sendbuf_drain_inbox(@)]
    /\ io' = [c |-> c, pc |-> "send", n |-> 0]
    /\ UNCHANGED <<line, head, prod, wire, given>>

(* The bytes one write may take: up to MaxIov chunks that hold any, or the     *)
(* first chunk only.                                                        *)
Vector(q) ==
    LET full == SelectSeq(q, LAMBDA k : Avail(k) > 0)
    IN  IF Gathers THEN RestOf(SubSeq(full, 1, IF Len(full) < MaxIov THEN Len(full) ELSE MaxIov))
        ELSE IF q = <<>> THEN <<>> ELSE Rest(Head(q))

(* Second step: with a length of zero nothing is tried; else the socket takes  *)
(* some of the bytes, or none.                                              *)
FlushSend ==
    /\ io.pc = "send"
    /\ LET c == io.c
           v == Vector(sb[c].queue)
       IN  IF sb[c].len = 0 \/ v = <<>> THEN io' = IoIdle /\ UNCHANGED wire
           ELSE \E n \in 0..Len(v) :
                   /\ wire' = [wire EXCEPT ![c] = @ \o SubSeq(v, 1, n)]
                   /\ io' = IF n = 0 THEN IoIdle ELSE [io EXCEPT !.pc = "advance", !.n = n]
    /\ UNCHANGED <<line, head, sb, prod, given>>

(* The queue after n bytes, and the chunks that were freed on the way.        *)
RECURSIVE Advanced(_, _, _)
Advanced(q, n, gone) ==
    IF n = 0 \/ q = <<>> THEN <<q, gone>>
    ELSE LET k == Head(q)
         IN  IF n < Avail(k) THEN <<[q EXCEPT ![1].rpos = @ + n], gone>>
             ELSE Advanced(Tail(q), n - Avail(k), Append(gone, k))

(* Third step: sendbuf_advance.                                             *)
sendbuf_advance ==
    /\ io.pc = "advance"
    /\ LET a == Advanced(sb[io.c].queue, io.n, <<>>)
       IN  /\ sb' = [sb EXCEPT ![io.c].queue = a[1], ![io.c].len = @ - io.n]
           /\ line' = Unref(line, a[2])
    /\ io' = IoIdle
    /\ UNCHANGED <<head, prod, wire, given>>

(* op_sendbuf_drain_to_buf hands at most `limit` bytes to a transport layer.   *)
op_sendbuf_drain_to_buf(c, limit) ==
    /\ io = IoIdle /\ prod["io"] = Idle
    /\ LET s == sendbuf_drain_inbox(sb[c])
           all == RestOf(s.queue)
           n == IF limit < Len(all) THEN limit ELSE Len(all)
           a == Advanced(s.queue, n, <<>>)
       IN  /\ n > 0
           /\ sb' = [sb EXCEPT ![c] = [s EXCEPT !.queue = a[1], !.len = @ - n]]
           /\ line' = Unref(line, a[2])
           /\ wire' = [wire EXCEPT ![c] = @ \o SubSeq(all, 1, n)]
    /\ UNCHANGED <<head, prod, io, given>>

(* What is queued for a client but not written to the socket yet.            *)
Backlog(c) ==
    LET q == RestOf(sb[c].queue) \o RestOf(Reverse(sb[c].inbox))
    IN  IF io.c = c /\ io.pc = "advance" THEN SubSeq(q, io.n + 1, Len(q)) ELSE q

(* op_sendbuf_donebuf at the client's end, when no producer can be racing:    *)
(* what was queued is dropped (and counted as delivered here).               *)
op_sendbuf_donebuf(c) ==
    /\ io = IoIdle /\ \A t \in Threads : prod[t].c # c
    /\ LET s == sendbuf_drain_inbox(sb[c])
       IN  /\ s.queue # <<>>
           /\ line' = Unref(line, s.queue)
           /\ sb' = [sb EXCEPT ![c] = [queue |-> <<>>, inbox |-> <<>>, len |-> 0]]
    /\ wire' = [wire EXCEPT ![c] = @ \o Backlog(c)]
    /\ UNCHANGED <<head, prod, io, given>>

Next ==
    \/ \E t \in Threads, l \in Lines : op_linebuf_put(t, l)
    \/ \E t \in Threads, c \in Clients : WriteLinebufRef(t, c)
    \/ \E t \in Threads : sendbuf_inbox_push(t) \/ WriteLinebufLen(t) \/ op_linebuf_done_line(t)
    \/ \E c \in Clients, n \in 1..MaxRaw :
          Len(SelectSeq(given[c]["io"], LAMBDA b : b[1] = "raw")) + n <= MaxRaw /\ op_sendbuf_write(c, n)
    \/ \E c \in Clients : FlushDrain(c) \/ op_sendbuf_donebuf(c)
    \/ \E c \in Clients, n \in 1..LineLen : op_sendbuf_drain_to_buf(c, n)
    \/ FlushSend \/ sendbuf_advance

Spec == Init /\ [][Next]_vars

-----------------------------------------------------------------------------
(* Properties.                                                              *)

TypeOK ==
    /\ \A l \in Lines : line[l].life \in {"free", "live", "freed"} /\ line[l].ref \in Nat
    /\ \A t \in Threads : Range(head[t]) \subseteq Lines
    /\ \A c \in Clients : sb[c].len \in Int

Chunks(c) == sb[c].queue \o sb[c].inbox
Holders(l) ==
    LET inQueues == {<<c, i>> \in Clients \X (1..8 * Cardinality(Lines)) :
                        i \in DOMAIN Chunks(c) /\ Chunks(c)[i].line = l}
        heads == {<<t, i>> \in Threads \X (1..Cardinality(Lines)) :
                        i \in DOMAIN head[t] /\ head[t][i] = l}
        taken == {t \in Threads : prod[t].pc = "push" /\ head[t][prod[t].pos] = l}
    IN  Cardinality(inQueues) + Cardinality(heads) + Cardinality(taken)

(* A line's reference count is the number of heads, chunks and producers that   *)
(* hold it, and it is freed exactly when nobody does: no chunk is flushed from   *)
(* a freed line and no line is left behind ("the bytes remain accessible via     *)
(* the refs").                                                               *)
RefsExact ==
    \A l \in Lines : /\ line[l].ref = Holders(l)
                     /\ line[l].life = "live" <=> Holders(l) > 0

(* A client receives every thread's bytes once, and in the order in which the thread   *)
(* handed them over, whatever the partial writes, the drains and the other threads do,   *)
(* but for one case: op_sendbuf_write puts raw bytes on the active queue while lines       *)
(* queued before them may still be in the inbox, so the I/O thread's raw bytes may          *)
(* overtake its lines, never its lines the raw bytes (op_sendbuf.h:5 says that the "two      *)
(* chunk types share a single ordered queue").                                           *)
OneOrderedQueue ==
    \A c \in Clients, t \in Threads :
        LET sent == given[c][t]
            got == SelectSeq(wire[c] \o Backlog(c), LAMBDA b : b \in Range(sent))
            raw(b) == b[1] = "raw"
        IN  /\ Len(got) = Len(sent) /\ Range(got) = Range(sent)
            /\ \A i, j \in DOMAIN sent :
                  (i < j /\ ~(raw(sent[j]) /\ ~raw(sent[i]))) =>
                      \E m, n \in DOMAIN got : m < n /\ got[m] = sent[i] /\ got[n] = sent[j]

(* The length counts the bytes in queue and inbox, less what producers have      *)
(* pushed and not yet added.                                                 *)
LenAccounted ==
    \A c \in Clients :
        sb[c].len = Len(RestOf(Chunks(c)))
            - FoldLeft(LAMBDA a, t : a + (IF prod[t].c = c THEN prod[t].total ELSE 0),
                       0, SetToSeq(Threads))

(* "Total queued bytes (active + inbox)", stored in a size_t: it never goes      *)
(* below zero.                                                               *)
LenNeverWraps == \A c \in Clients : sb[c].len >= 0
=============================================================================
