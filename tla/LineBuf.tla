------------------------------ MODULE LineBuf ------------------------------
(***************************************************************************)
(* The line buffer of src/linebuf.c: a byte stream that arrives in arbitrary     *)
(* pieces is cut into lines, which are fetched or written to a socket.           *)
(*                                                                          *)
(* Every loop of the file treats CR and LF alike, so both are Eol; content       *)
(* bytes are numbered; Nul is the byte the stripping loops write.               *)
(***************************************************************************)
EXTENDS Integers, Sequences, SequencesExt

CONSTANTS
    LinebufSize,  \* LINEBUF_SIZE
    Raw,          \* are the lines parsed LINEBUF_RAW?
    MaxIov,       \* OP_UIO_MAXIOV
    Gathers,      \* does op_linebuf_flush use writev?
    MaxLine,      \* bound: content bytes and terminators of one line
    MaxPiece,     \* bound: bytes in one op_linebuf_parse
    MaxBytes      \* bound: bytes in all

(* What the constants have to satisfy.                                      *)
LineBufAssumption ==
    /\ {LinebufSize, MaxIov, MaxLine, MaxPiece, MaxBytes} \subseteq Nat \ {0}
    /\ {Raw, Gathers} \subseteq BOOLEAN

VARIABLES
    rep,    \* the buf_head_t: list of lines, len, writeofs
    out,    \* the lines fetched, or the bytes written
    fed,    \* the bytes parsed so far
    mode    \* "get" or "flush": how the buffer is emptied

vars == <<rep, out, fed, mode>>

Eol == 0
Nul == -1
Init ==
    /\ rep = [list |-> <<>>, len |-> 0, writeofs |-> 0] /\ out = <<>> /\ fed = <<>>
    /\ mode \in {"get", "flush"}

NewLine == [buf |-> <<>>, terminated |-> FALSE, raw |-> FALSE]
AtMost(a, b) == IF a < b THEN a ELSE b
Drop(s, n) == SubSeq(s, n + 1, Len(s))

-----------------------------------------------------------------------------
(* linebuf_skip_crlf: the length of content and terminators at the front.     *)
linebuf_skip_crlf(data) ==
    LET stops == {i \in 1..Len(data) : data[i] # Eol /\ (i > 1 => data[i - 1] = Eol)}
        next == {i \in stops : i > 1 /\ \E j \in 1..(i - 1) : data[j] = Eol}
    IN  IF next = {} THEN Len(data) ELSE (CHOOSE i \in next : \A j \in next : i <= j) - 1

(* The content length once trailing terminators are taken off, never past      *)
(* the piece just copied.                                                   *)
Stripped(bytes) ==
    LET keep == {i \in 0..Len(bytes) : \A j \in (i + 1)..Len(bytes) : bytes[j] = Eol}
    IN  CHOOSE i \in keep : \A j \in keep : i <= j

(* linebuf_copy: the line after it took one logical line from data.  A line     *)
(* that overflows is cut at LinebufSize; its stripped tail stays, as Nul.       *)
linebuf_copy(l, data) ==
    LET consumed == linebuf_skip_crlf(data)
        avail == LinebufSize - Len(l.buf)
        piece == SubSeq(data, 1, AtMost(consumed, avail))
        keep == IF Raw THEN Len(piece) ELSE Stripped(piece)
        body == SubSeq(piece, 1, keep)
    IN  IF consumed > avail
        THEN [l EXCEPT !.buf = @ \o body \o [i \in 1..(Len(piece) - keep) |-> Nul],
                       !.terminated = TRUE, !.raw = Raw]
        ELSE IF Last(piece) # Eol THEN [l EXCEPT !.buf = @ \o piece, !.raw = Raw]
        ELSE [l EXCEPT !.buf = @ \o body, !.terminated = TRUE, !.raw = Raw]

(* One round of op_linebuf_parse: the tail line when it is open, else a new    *)
(* one.  Yields the head and the bytes consumed.                             *)
ParseOne(h, data) ==
    LET open == h.list # <<>> /\ ~Last(h.list).terminated
        old == IF open THEN Last(h.list) ELSE NewLine
        l == linebuf_copy(old, data)
        list == IF open THEN [h.list EXCEPT ![Len(h.list)] = l] ELSE Append(h.list, l)
    IN  <<[h EXCEPT !.list = list, !.len = @ + Len(l.buf) - Len(old.buf)], linebuf_skip_crlf(data)>>

RECURSIVE ParseAll(_, _)
ParseAll(h, data) ==
    IF data = <<>> THEN h
    ELSE LET r == ParseOne(h, data) IN ParseAll(r[1], Drop(data, r[2]))

(* Bytes that extend the stream: the next content numbers, or Eol; no line      *)
(* grows past MaxLine.                                                       *)
Pieces == UNION {[1..n -> {"c", "e"}] : n \in 1..AtMost(MaxPiece, MaxBytes - Len(fed))}
Number(shape) == [i \in DOMAIN shape |-> IF shape[i] = "e" THEN Eol ELSE Len(fed) + i]

RECURSIVE Split(_)
Split(s) ==
    IF s = <<>> THEN <<>>
    ELSE LET n == linebuf_skip_crlf(s) IN <<SubSeq(s, 1, n)>> \o Split(Drop(s, n))

op_linebuf_parse(shape) ==
    LET data == Number(shape)
    IN  /\ \A i \in DOMAIN Split(fed \o data) : Len(Split(fed \o data)[i]) <= MaxLine
        /\ fed' = fed \o data
        /\ rep' = ParseAll(rep, data)
        /\ UNCHANGED <<out, mode>>

-----------------------------------------------------------------------------
(* op_linebuf_done_line.                                                    *)
op_linebuf_done_line(h) == [h EXCEPT !.list = Tail(@), !.len = @ - Len(Head(h.list).buf)]

(* op_linebuf_get for LINEBUF_COMPLETE, LINEBUF_PARSED: empty lines are         *)
(* discarded; a line stored raw is stripped at both ends.                     *)
Fetched(l) ==
    LET from == IF l.raw
                THEN CHOOSE i \in 0..Len(l.buf) : /\ \A j \in 1..i : l.buf[j] = Eol
                                                  /\ i < Len(l.buf) => l.buf[i + 1] # Eol
                ELSE 0
        rest == Drop(l.buf, from)
    IN  IF l.raw THEN SubSeq(rest, 1, Stripped(rest)) ELSE rest

RECURSIVE SkipEmpty(_)
SkipEmpty(h) ==
    IF h.list # <<>> /\ Head(h.list).terminated /\ Fetched(Head(h.list)) = <<>>
    THEN SkipEmpty(op_linebuf_done_line(h)) ELSE h

op_linebuf_get ==
    /\ mode = "get" /\ rep.list # <<>> /\ Head(rep.list).terminated
    /\ LET h == SkipEmpty(rep)
       IN  IF h.list = <<>> \/ ~Head(h.list).terminated
           THEN rep' = h /\ UNCHANGED out
           ELSE rep' = op_linebuf_done_line(h) /\ out' = Append(out, Fetched(Head(h.list)))
    /\ UNCHANGED <<fed, mode>>

(* op_linebuf_peek and op_linebuf_consume: the first complete line as stored.  *)
op_linebuf_consume ==
    /\ mode = "get" /\ rep.list # <<>> /\ Head(rep.list).terminated
    /\ rep' = op_linebuf_done_line(rep)
    /\ out' = IF Fetched(Head(rep.list)) = <<>> THEN out ELSE Append(out, Fetched(Head(rep.list)))
    /\ UNCHANGED <<fed, mode>>

-----------------------------------------------------------------------------
(* op_linebuf_flush: the terminated lines at the head, up to MaxIov or the        *)
(* first, from writeofs; the socket takes at least one byte.                   *)
Batch(h) ==
    LET ready == {n \in 0..AtMost(Len(h.list), IF Gathers THEN MaxIov ELSE 1) :
                     \A i \in 1..n : h.list[i].terminated}
    IN  CHOOSE m \in ready : \A k \in ready : k <= m
Vector(h) == Drop(FlattenSeq([i \in 1..Batch(h) |-> h.list[i].buf]), h.writeofs)

(* The head after n bytes of a batch of x lines were taken.                  *)
RECURSIVE Sent(_, _, _)
Sent(h, n, x) ==
    LET remaining == Len(Head(h.list).buf) - h.writeofs
    IN  IF x = 0 THEN h
        ELSE IF n < remaining THEN [h EXCEPT !.writeofs = @ + n]
        ELSE Sent([op_linebuf_done_line(h) EXCEPT !.writeofs = 0], n - remaining, x - 1)

op_linebuf_flush ==
    /\ mode = "flush" /\ \E n \in 1..Len(Vector(rep)) :
          rep' = Sent(rep, n, Batch(rep)) /\ out' = out \o SubSeq(Vector(rep), 1, n)
    /\ UNCHANGED <<fed, mode>>

Next ==
    \/ \E shape \in Pieces : op_linebuf_parse(shape)
    \/ op_linebuf_get \/ op_linebuf_consume \/ op_linebuf_flush

Spec == Init /\ [][Next]_vars

-----------------------------------------------------------------------------
(* Properties.                                                              *)

TypeOK == rep.len \in Nat /\ rep.writeofs \in 0..LinebufSize /\ Len(fed) <= MaxBytes

(* The lines of the stream, by definition: its maximal runs of content; and those     *)
(* that, with their terminators, do not fit a buffer.                           *)
Content(s) == SelectSeq(s, LAMBDA b : b # Eol)
TrueLines == SelectSeq([i \in DOMAIN Split(fed) |-> Content(Split(fed)[i])], LAMBDA l : l # <<>>)
LongBytes ==
    UNION {Range(Split(fed)[i]) : i \in {j \in DOMAIN Split(fed) : Len(Split(fed)[j]) > LinebufSize}} \ {Eol}
Fits(l) == l[1] \notin LongBytes

(* The lines fetched and those still held, without the bytes stripped to Nul.       *)
StoredLines ==
    LET kept(l) == SelectSeq(l, LAMBDA b : b # Nul)
        lines == out \o [i \in DOMAIN rep.list |-> Fetched(rep.list[i])]
    IN  SelectSeq([i \in DOMAIN lines |-> kept(lines[i])], LAMBDA l : l # <<>>)

(* However the stream was cut into pieces (linebuf_copy: "strip trailing CRLF before     *)
(* storing"), the lines that fit are stored as they are, in order, whatever came before;   *)
(* of a longer one the first LINEBUF_SIZE bytes are ("truncates to capacity"), and any      *)
(* other line is a further run of its bytes: what arrives after the cut starts a new line.  *)
LinesOfStream ==
    mode = "get" =>
        /\ SelectSeq(StoredLines, Fits) = SelectSeq(TrueLines, Fits)
        /\ \A t \in Range(TrueLines) : SubSeq(t, 1, AtMost(Len(t), LinebufSize)) \in Range(StoredLines)
        /\ \A l \in Range(StoredLines) :
              /\ \E t \in Range(TrueLines) : Range(l) \subseteq Range(t)
              /\ l = [i \in DOMAIN l |-> l[1] + i - 1] /\ Len(l) <= LinebufSize

(* bufhead->len is the sum of its lines; what a flush sent, followed by what is left       *)
(* from writeofs on, is the content of the stream, less what was cut off long lines.         *)
FlushExact ==
    LET held == FlattenSeq([i \in DOMAIN rep.list |-> rep.list[i].buf])
        all == out \o Drop(held, rep.writeofs)
        short(s) == SelectSeq(s, LAMBDA b : b \notin LongBytes \cup {Eol, Nul})
    IN  /\ rep.len = Len(held)
        /\ mode = "flush" =>
             /\ short(all) = short(fed)
             /\ LongBytes = {} => all = (IF Raw THEN fed ELSE Content(fed))
             /\ \A i, j \in DOMAIN all : (i < j /\ {all[i], all[j]} \cap {Eol, Nul} = {}) => all[i] < all[j]
=============================================================================
