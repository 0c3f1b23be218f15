----------------------------- MODULE WebSocket -----------------------------
(***************************************************************************)
(* The in-process WebSocket layer (src/websocket.c): the HTTP upgrade, the       *)
(* frame parser behind op_ws_read, and op_ws_write.                           *)
(*                                                                          *)
(* The stream from the client is a sequence of units that TCP may split           *)
(* anywhere: pieces of the HTTP request, its end, and for every frame a header    *)
(* (all that precedes the payload) followed by payload units.  A payload unit     *)
(* is <<class, number>>: "x" a whole character, "L" and "C" the lead and the       *)
(* continuation byte of one.  frame_out is the byte queue of RawBuf.            *)
(***************************************************************************)
EXTENDS Integers, FiniteSets, Sequences, SequencesExt

CONSTANTS
    Requests,   \* upgrade requests a client may send: sequences of header lines
    Frames,     \* frames a client may send: [op, fin, rsv, masked, big, load]
    MaxHeader,  \* WS_MAX_HEADER_SIZE, in units
    MaxMessage, \* WS_MAX_MESSAGE_SIZE, in payload units
    Early,      \* may frames arrive behind the request, before it is answered?
    Grows,      \* may a write that has to be repeated come back longer?
    Writes,     \* bound: how many messages are written
    MaxFrames   \* bound: how many frames the client sends

(* What the constants have to satisfy.                                      *)
WebSocketAssumption ==
    /\ {MaxHeader, MaxMessage} \subseteq Nat \ {0} /\ {Writes, MaxFrames} \subseteq Nat
    /\ {Early, Grows} \subseteq BOOLEAN

VARIABLES
    ws,      \* the ws_state_t
    net,     \* units the client sent that were not received yet
    sent,    \* the frames the client sent
    accept,  \* F->accept: the callback is still to be called
    timer,   \* the handshake timeout is set
    calls,   \* what the callback was told
    out,     \* payload units op_ws_read returned
    write,   \* the message being written: bytes, and whether it is a repetition
    given,   \* bytes of the writes that returned their count
    wire     \* units that reached the socket

vars == <<ws, net, sent, accept, timer, calls, out, write, given, wire>>

Fresh == [life |-> "on", hs |-> 0, keyed |-> FALSE, inbuf |-> <<>>, decoded |-> <<>>, pos |-> 0,
          frame_out |-> <<>>, sent_close |-> FALSE, in_fragment |-> FALSE,
          fragment_opcode |-> "text", fragment_start |-> 0]
NoWrite == [buf |-> <<>>, again |-> FALSE]

(* op_ws_start_accepted; the client has begun to send its request.           *)
Init ==
    /\ ws = Fresh /\ accept = TRUE /\ timer = TRUE /\ calls = <<>>
    /\ \E r \in Requests, n \in 0..MaxHeader :
          net = [i \in 1..n |-> [u |-> "http"]] \o <<[u |-> "end", lines |-> r]>>
    /\ sent = <<>> /\ out = <<>> /\ write = NoWrite /\ given = <<>> /\ wire = <<>>

-----------------------------------------------------------------------------
(* The client.                                                              *)

Load(f, k) == [i \in DOMAIN f.load |-> [u |-> "byte", c |-> f.load[i], id |-> <<k, i>>]]

ClientSends(f) ==
    /\ Len(sent) < MaxFrames /\ (ws.keyed \/ Early)
    /\ sent' = Append(sent, f)
    /\ net' = net \o <<[u |-> "head", f |-> f]>> \o Load(f, Len(sent) + 1)
    /\ UNCHANGED <<ws, accept, timer, calls, out, write, given, wire>>

-----------------------------------------------------------------------------
(* The handshake.                                                           *)

(* The fields the header lines leave: each name's last line wins, and a line     *)
(* that is too long is skipped.                                              *)
Field(lines, name) ==
    LET at == {i \in DOMAIN lines : lines[i].name = name /\ ~lines[i].long}
    IN  at # {} /\ lines[CHOOSE i \in at : \A j \in at : j <= i].good

Upgrades(lines) ==
    \A name \in {"request", "upgrade", "connection", "version", "key"} : Field(lines, name)

(* The callback is called once: F->accept is cleared with it.                *)
Answer(code) ==
    /\ accept' = FALSE
    /\ calls' = IF accept THEN Append(calls, code) ELSE calls

HasEnd(n) == \E i \in 1..n : net[i].u = "end"
AfterEnd(n) == SelectSeq(SubSeq(net, 1, n), LAMBDA x : x.u \in {"head", "byte"})
TheRequest == net[CHOOSE i \in DOMAIN net : net[i].u = "end"].lines

(* op_ws_handshake_read, one round of its loop: n more units.  Too long a       *)
(* request fails; a complete one is judged, and what follows it is kept.       *)
op_ws_handshake_read(n) ==
    /\ ws.life = "on" /\ ~ws.keyed /\ n \in 1..Len(net)
    /\ net' = SubSeq(net, n + 1, Len(net))
    /\ IF ws.hs + n > MaxHeader
       THEN Answer("error") /\ UNCHANGED <<ws, timer>>
       ELSE IF ~HasEnd(n)
       THEN ws' = [ws EXCEPT !.hs = @ + n] /\ UNCHANGED <<accept, timer, calls>>
       ELSE LET kept == [ws EXCEPT !.hs = 0, !.inbuf = @ \o AfterEnd(n)]
            IN  IF Upgrades(TheRequest)
                THEN ws' = [kept EXCEPT !.keyed = TRUE] /\ timer' = FALSE /\ Answer("ok")
                ELSE ws' = kept /\ Answer("error") /\ UNCHANGED timer
    /\ UNCHANGED <<sent, out, write, given, wire>>

(* The client is gone during the handshake, or a read or write fails.        *)
HandshakeFails ==
    /\ ws.life = "on" /\ ~ws.keyed /\ accept /\ Answer("error")
    /\ UNCHANGED <<ws, net, sent, timer, out, write, given, wire>>

op_ws_timeout_cb ==
    /\ timer /\ timer' = FALSE /\ Answer("timeout")
    /\ UNCHANGED <<ws, net, sent, out, write, given, wire>>

-----------------------------------------------------------------------------
(* Frames.                                                                  *)

ws_write_frame_raw(w, kind, load) ==
    [w EXCEPT !.frame_out = @ \o <<[u |-> kind, n |-> load]>> \o [i \in DOMAIN load |-> [u |-> "load", n |-> load]]]

ws_write_close_frame(w, code) ==
    IF w.sent_close THEN w
    ELSE [ws_write_frame_raw(w, "close", <<code>>) EXCEPT !.sent_close = TRUE]

(* The connection is to be torn down, with a reason.                         *)
Fail(w, code) == [go |-> FALSE, ws |-> ws_write_close_frame(w, code)]

decoded_compact(w) ==
    [w EXCEPT !.decoded = SubSeq(@, w.pos + 1, Len(@)), !.pos = 0]

(* decoded_append, given that the caller has compacted.                     *)
TooLarge(w, load) == Len(w.decoded) + Len(load) > MaxMessage
decoded_append(w, load) == [w EXCEPT !.decoded = @ \o load]

(* ws_is_valid_utf8 on classes: a lead is followed by its continuation.       *)
ws_is_valid_utf8(bytes) ==
    \A i \in DOMAIN bytes :
        /\ bytes[i].c = "L" => i < Len(bytes) /\ bytes[i + 1].c = "C"
        /\ bytes[i].c = "C" => i > 1 /\ bytes[i - 1].c = "L"

(* What the check of a text message says: it looks at decoded from msg_start on; *)
(* past the end the length wraps, and it reads what is there.                 *)
Verdicts(w, isText, start) ==
    IF ~isText THEN {TRUE}
    ELSE IF start > Len(w.decoded) THEN BOOLEAN
    ELSE {ws_is_valid_utf8(SubSeq(w.decoded, start + 1, Len(w.decoded)))}

EolOf(load) == [u |-> "byte", c |-> "eol", id |-> IF load = <<>> THEN <<0, 0>> ELSE Last(load).id]

(* A data frame: append, and at the end of the message check and add CRLF.     *)
DataFrame(w0, f, load) ==
    LET w == decoded_compact(w0)
        cont == f.op = "cont"
        start == IF cont THEN w.fragment_start ELSE Len(w.decoded)
        isText == f.op = "text" \/ (cont /\ w.fragment_opcode = "text")
        added == decoded_append(w, load)
        state == [added EXCEPT !.in_fragment = ~f.fin,
                     !.fragment_opcode = IF cont THEN @ ELSE f.op,
                     !.fragment_start = IF cont THEN (IF f.fin THEN 0 ELSE @) ELSE start]
    IN  IF TooLarge(w, load) THEN {Fail(w, "1009")}
        ELSE IF ~f.fin THEN {[go |-> TRUE, ws |-> state]}
        ELSE {IF ~ok THEN Fail(added, "1007")
              ELSE IF Len(added.decoded) + 2 > MaxMessage THEN Fail(added, "1009")
              ELSE [go |-> TRUE, ws |-> [state EXCEPT !.decoded = @ \o <<EolOf(load)>>]]
                 : ok \in Verdicts(added, isText, start)}

(* The checks on a header, before the payload is there.                      *)
HeaderError(w, f) ==
    CASE f.rsv -> "1002"
      [] f.big -> "1009"
      [] ~f.masked -> "1002"
      [] f.op \in {"ping", "pong", "close"} /\ (~f.fin \/ Len(f.load) > 2) -> "1002"
      [] f.op \in {"text", "binary"} /\ w.in_fragment -> "1002"
      [] f.op = "cont" /\ ~w.in_fragment -> "1002"
      [] OTHER -> "none"

(* One round of ws_parse_frames; the empty set when the frame is incomplete.   *)
ParseOne(w) ==
    LET f == Head(w.inbuf).f
        load == SubSeq(w.inbuf, 2, 1 + Len(f.load))
        used == [w EXCEPT !.inbuf = SubSeq(@, 2 + Len(f.load), Len(@))]
    IN  IF w.inbuf = <<>> THEN {}
        ELSE IF HeaderError(w, f) # "none" THEN {Fail(w, HeaderError(w, f))}
        ELSE IF Len(w.inbuf) < 1 + Len(f.load) THEN {}
        ELSE CASE f.op \in {"text", "binary", "cont"} -> DataFrame(used, f, load)
               [] f.op = "ping" -> {[go |-> TRUE, ws |-> ws_write_frame_raw(used, "pong", f.load)]}
               [] f.op = "pong" -> {[go |-> TRUE, ws |-> used]}
               [] f.op = "close" -> {Fail(used, "1000")}
               [] OTHER -> {Fail(w, "1002")}

RECURSIVE ParseAll(_)
ParseAll(r) ==
    IF ~r.go THEN {r}
    ELSE LET next == ParseOne(r.ws)
         IN  IF next = {} THEN {r} ELSE UNION {ParseAll(x) : x \in next}

(* op_rawbuf_flush: the socket takes some of frame_out.                     *)
Flushed(w, n) == [w EXCEPT !.frame_out = SubSeq(@, n + 1, Len(@))]

(* op_ws_read returns decoded units if there are any, ...                    *)
ReadDecoded ==
    /\ ws.life = "on" /\ ws.keyed /\ Len(ws.decoded) > ws.pos
    /\ \E n \in 1..(Len(ws.decoded) - ws.pos) :
          /\ out' = out \o SubSeq(ws.decoded, ws.pos + 1, ws.pos + n)
          /\ ws' = [ws EXCEPT !.pos = @ + n]
    /\ UNCHANGED <<net, sent, accept, timer, calls, write, given, wire>>

(* ... and else receives, parses and flushes what the parser queued.  A false    *)
(* result makes it return 0: the caller closes.                              *)
op_ws_read(n) ==
    /\ ws.life = "on" /\ ws.keyed /\ Len(ws.decoded) = ws.pos /\ n \in 1..Len(net)
    /\ net' = SubSeq(net, n + 1, Len(net))
    /\ \E r \in ParseAll([go |-> TRUE, ws |-> [ws EXCEPT !.inbuf = @ \o SubSeq(net, 1, n)]]) :
          \E m \in 0..Len(r.ws.frame_out) :
             /\ ws' = [Flushed(r.ws, m) EXCEPT !.life = IF r.go THEN @ ELSE "ending"]
             /\ wire' = wire \o SubSeq(r.ws.frame_out, 1, m)
    /\ UNCHANGED <<sent, accept, timer, calls, out, write, given>>

-----------------------------------------------------------------------------
(* Writing.                                                                 *)

NextByte == Len(given) + 1

(* The caller's message: two bytes, or the old one again, perhaps longer.      *)
Messages ==
    IF write.again THEN {write.buf} \cup (IF Grows THEN {Append(write.buf, Last(write.buf) + 1)} ELSE {})
    ELSE IF Len(given) < 2 * Writes THEN {<<NextByte, NextByte + 1>>} ELSE {}

(* op_ws_write: bytes pending from an earlier call, or from the parser's answer to   *)
(* a PING, are flushed, and then buf counts as framed; else buf is framed and      *)
(* flushed.                                                                 *)
op_ws_write(buf) ==
    /\ ws.life = "on" /\ ws.keyed
    /\ LET w == IF ws.frame_out # <<>> THEN ws ELSE ws_write_frame_raw(ws, "text", buf)
       IN  \E n \in 0..Len(w.frame_out) :
             /\ ws' = Flushed(w, n) /\ wire' = wire \o SubSeq(w.frame_out, 1, n)
             /\ IF n < Len(w.frame_out)
                THEN write' = [buf |-> buf, again |-> TRUE] /\ UNCHANGED given
                ELSE write' = NoWrite /\ given' = given \o buf
    /\ UNCHANGED <<net, sent, accept, timer, calls, out>>

(* op_close calls op_ws_shutdown: a CLOSE frame, one flush, the end.          *)
op_ws_shutdown ==
    /\ ws.life = "ending" \/ (ws.life = "on" /\ ~accept)
    /\ LET w == IF ws.keyed THEN ws_write_close_frame(ws, "1000") ELSE ws
       IN  \E n \in 0..Len(w.frame_out) :
             ws' = [Flushed(w, n) EXCEPT !.life = "off"] /\ wire' = wire \o SubSeq(w.frame_out, 1, n)
    /\ timer' = FALSE /\ write' = NoWrite
    /\ UNCHANGED <<net, sent, accept, calls, out, given>>

Reading == ReadDecoded \/ \E n \in 1..Len(net) : op_ws_read(n) \/ op_ws_handshake_read(n)

Next ==
    \/ \E f \in Frames : ClientSends(f)
    \/ Reading \/ HandshakeFails \/ op_ws_timeout_cb \/ op_ws_shutdown
    \/ \E buf \in Messages : op_ws_write(buf)

Spec == Init /\ [][Next]_vars

(* The caller reads whenever the descriptor is readable or data is decoded,      *)
(* and the handshake's timeout is checked.                                   *)
FairSpec == Spec /\ WF_vars(Reading) /\ WF_vars(op_ws_timeout_cb)

-----------------------------------------------------------------------------
(* Properties.                                                              *)

TypeOK ==
    /\ ws.life \in {"on", "ending", "off"} /\ ws.pos \in 0..Len(ws.decoded)
    /\ Len(ws.decoded) <= MaxMessage /\ ws.hs \in 0..MaxHeader
    /\ accept \in BOOLEAN /\ timer \in BOOLEAN

(* While the accept callback is to be told, the handshake's timeout is set; once it   *)
(* was told OK the connection is upgraded and no timeout is left to end it          *)
(* (op_ws_handshake_read, op_ws_timeout_cb).                                  *)
UpgradeAttended ==
    /\ (ws.life = "on" /\ accept) => timer
    /\ calls = <<"ok">> => ws.keyed /\ ~timer

(* The payload of the data frames sent, with a line end after each message.     *)
PayloadOf(k) ==
    LET f == sent[k]
    IN  IF f.op \in {"text", "binary", "cont"}
        THEN Load(f, k) \o (IF f.fin THEN <<EolOf(Load(f, k))>> ELSE <<>>) ELSE <<>>

(* What op_ws_read returns is the payload of the client's messages, in order and *)
(* unbroken, however TCP split the frames and whatever control frames came in     *)
(* between.                                                                 *)
DecodedInOrder ==
    IsPrefix(out \o SubSeq(ws.decoded, ws.pos + 1, Len(ws.decoded)),
             FlattenSeq([k \in DOMAIN sent |-> PayloadOf(k)]))

(* A message whose bytes are valid UTF-8 is never refused as invalid (RFC 6455   *)
(* section 8.1, ws_is_valid_utf8), fragmented or not.                        *)
ValidNotRefused ==
    (\E i \in DOMAIN (wire \o ws.frame_out) : (wire \o ws.frame_out)[i] = [u |-> "close", n |-> <<"1007">>])
        => ~ws_is_valid_utf8(SelectSeq(FlattenSeq([k \in DOMAIN sent |-> Load(sent[k], k)]), LAMBDA b : TRUE))

(* Writes leave as text frames in their order; and while the client sends nothing,     *)
(* those that returned their count ("Returns `count` on success (all plaintext        *)
(* consumed)") leave once each.  With frames of the client in between the comment is    *)
(* wrong: a message first written while the answer to a PING waits in frame_out is     *)
(* taken for one that was framed already and lost, and one that blocked is framed       *)
(* again when op_ws_read has flushed it before its repetition.                   *)
WritesFramed ==
    LET all == wire \o ws.frame_out
        texts == SelectSeq(all, LAMBDA x : x.u = "text")
        bytes == FlattenSeq([i \in DOMAIN texts |-> texts[i].n])
    IN  /\ \A i, j \in DOMAIN texts : i < j => texts[i].n[1] <= texts[j].n[1]
        /\ (ws.life # "off" /\ sent = <<>>) =>
              IsPrefix(given, bytes) /\ Len(bytes) <= Len(given) + Len(write.buf)

(* The callback is told of the handshake's end in the end.                    *)
HandshakeWaits == ws.life = "on" /\ accept
HandshakeAnswered == []<>~HandshakeWaits
=============================================================================
