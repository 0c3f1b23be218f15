-------------------------------- MODULE Tls --------------------------------
(***************************************************************************)
(* The TLS layer of a descriptor (src/opssl_backend.c): handshakes in both         *)
(* directions driven by the I/O loop, with a timeout; reads and writes; the        *)
(* switch to kernel TLS; and the server's contexts.                           *)
(*                                                                          *)
(* opssl itself is external: a handshake step and a write may succeed, ask to      *)
(* read or to write first, or fail, and ciphertext may stay pending in it.       *)
(***************************************************************************)
EXTENDS Integers, FiniteSets, Sequences, SequencesExt

CONSTANTS
    Dir,        \* "in" (accepted) or "out" (connected)
    KernelTls,  \* HAVE_KERNEL_TLS, and the kernel offers it
    ReadAhead,  \* may opssl read past the handshake's last record?
    Control,    \* does a protocol layer write on its own, as WebSocket's parser does?
    Hosts,      \* names with a certificate of their own
    SniMax,     \* SNI_CTX_MAX
    MaxCtx,     \* bound: contexts built
    MaxBytes    \* bound: bytes sent in each direction

(* What the constants have to satisfy.                                      *)
TlsAssumption ==
    /\ Dir \in {"in", "out"} /\ {KernelTls, ReadAhead, Control} \subseteq BOOLEAN
    /\ {SniMax, MaxCtx, MaxBytes} \subseteq Nat

VARIABLES
    F,       \* the FDE: ssl, ktls, accept or connect, timer, handlers; how its stream ended
    calls,   \* what the accept or connect callback was told
    rx,      \* records from the peer: in the kernel, and read ahead by opssl
    tx,      \* bytes opssl took and still holds, how many reached the socket, and
             \* whether sending failed
    got,     \* bytes op_ssl_read returned
    waiter,  \* the handler that a writer told OP_RW_SSL_NEED_WRITE or _READ waits for
    ctx      \* ssl_ctx, sni_table, what is attached to ssl_ctx, what could not be

vars == <<F, calls, rx, tx, got, waiter, ctx>>

None == "none"
CountCap == 2

(* Records that carry no data: an alert that closes the stream, or its end; and     *)
(* what TLS sends for itself.                                                *)
Close == 0 - 1
Ctl == 0

Init ==
    /\ F = [life |-> "new", ssl |-> None, ktls |-> FALSE, answer |-> FALSE, timer |-> FALSE,
            rh |-> None, wh |-> None, count |-> 0, end |-> None]
    /\ calls = <<>> /\ rx = [kernel |-> <<>>, ahead |-> <<>>, sent |-> 0, ctl |-> FALSE, closed |-> FALSE]
    /\ tx = [held |-> 0, out |-> 0, taken |-> 0, dead |-> FALSE] /\ got = <<>> /\ waiter = None
    /\ ctx = [default |-> 0, table |-> [h \in {} |-> 0], attached |-> [h \in {} |-> 0],
              unattached |-> {}, built |-> 0]

Unselected(x) == [x EXCEPT !.rh = None, !.wh = None, !.timer = FALSE]

-----------------------------------------------------------------------------
(* Server contexts.                                                         *)

(* op_setup_ssl_server replaces the default context; the table is emptied, and   *)
(* the new context starts without attached names.  Nothing changes when the       *)
(* context cannot be built.                                                  *)
op_setup_ssl_server ==
    /\ ctx.built < MaxCtx
    /\ ctx' = [default |-> ctx.built + 1, table |-> [h \in {} |-> 0],
               attached |-> [h \in {} |-> 0], unattached |-> {}, built |-> ctx.built + 1]
    /\ UNCHANGED <<F, calls, rx, tx, got, waiter>>

(* op_setup_ssl_server_sni: a new or replaced entry, attached to the default      *)
(* context if there is one.  A full table refuses a new name; a failing attach     *)
(* is only logged, and the default context keeps what it had for the name.        *)
op_setup_ssl_server_sni(h) ==
    /\ ctx.built < MaxCtx
    /\ h \in DOMAIN ctx.table \/ Cardinality(DOMAIN ctx.table) < SniMax
    /\ LET c == ctx.built + 1
           put(f) == [x \in DOMAIN f \cup {h} |-> IF x = h THEN c ELSE f[x]]
       IN  \E ok \in BOOLEAN :
             /\ ok \/ ctx.default # 0
             /\ ctx' = [ctx EXCEPT !.built = c, !.table = put(@),
                          !.attached = IF ok /\ ctx.default # 0 THEN put(@) ELSE @,
                          !.unattached = IF ok THEN @ \ {h} ELSE @ \cup {h}]
    /\ UNCHANGED <<F, calls, rx, tx, got, waiter>>

-----------------------------------------------------------------------------
(* The handshake.                                                           *)

(* The callback, once; the caller may close in it.                           *)
Answered(x, code) ==
    /\ calls' = IF F.answer \/ F.life = "new" THEN Append(calls, code) ELSE calls
    /\ F' = [x EXCEPT !.answer = FALSE]

(* accept_teardown, and the failing end of op_ssl_connect_common.             *)
Teardown(x, code) == Answered(Unselected(x), code)

(* handshake_count, capped where the model stops telling counts apart.        *)
Counted(n) == IF n < CountCap THEN n + 1 ELSE n

(* What opssl reads beyond the handshake.                                    *)
Ahead(n) == rx' = [rx EXCEPT !.kernel = SubSeq(@, n + 1, Len(@)), !.ahead = @ \o SubSeq(rx.kernel, 1, n)]
MayReadAhead == {n \in 0..Len(rx.kernel) : n > 0 => ReadAhead}

(* do_ktls_setsockopt: no kernel support (0), both directions in the kernel (1),   *)
(* or the socket left in between (-1).                                       *)
do_ktls_setsockopt(failing) == CASE failing = "ulp" -> 0
                                 [] failing \in {"tx", "rx"} -> -1
                                 [] OTHER -> 1

(* op_ssl_try_ktls: not for outgoing connections, nor for every cipher.        *)
op_ssl_try_ktls ==
    {0} \cup (IF KernelTls /\ Dir = "in"
              THEN {do_ktls_setsockopt(f) : f \in {"ulp", "tx", "rx", None}} ELSE {})

(* opssl says the accept is complete: pending handshake bytes are flushed first,  *)
(* which may have to wait for the socket; then kernel TLS, then the callback.    *)
AcceptOk(x0) ==
    LET x == [x0 EXCEPT !.ssl = "up", !.count = Counted(@)]
    IN  \E n \in MayReadAhead :
          /\ Ahead(n)
          /\ \/ F' = [x EXCEPT !.rh = None, !.wh = "handshake"] /\ UNCHANGED calls
             \/ Teardown(x, "error")
             \/ \E k \in op_ssl_try_ktls :
                   IF k < 0 THEN Teardown([x EXCEPT !.ssl = "broken"], "error")
                   ELSE Answered([Unselected(x) EXCEPT !.ktls = (k = 1)], "ok")

(* A bug for comparison: a handshake that wants to write is not registered.     *)
AcceptForgetsWrite(x) ==
    /\ \/ AcceptOk(x)
       \/ x.ssl = "hs" /\ UNCHANGED rx /\ F' = [x EXCEPT !.rh = None] /\ UNCHANGED calls
    /\ UNCHANGED <<tx, got, waiter, ctx>>

(* op_ssl_accept_common.                                                    *)
op_ssl_accept_common(x) ==
    /\ \/ AcceptOk(x)
       \/ /\ x.ssl = "hs" /\ UNCHANGED rx
          /\ \/ F' = [x EXCEPT !.rh = "handshake", !.wh = None] /\ UNCHANGED calls
             \/ F' = [x EXCEPT !.rh = None, !.wh = "handshake"] /\ UNCHANGED calls
             \/ Teardown(x, "error")
    /\ UNCHANGED <<tx, got, waiter, ctx>>

(* op_ssl_connect_common; the result goes through op_ssl_connect_realcb.      *)
op_ssl_connect_common(x) ==
    /\ \/ \E n \in MayReadAhead :
             Ahead(n) /\ Answered([Unselected(x) EXCEPT !.ssl = "up", !.count = Counted(@)], "ok")
       \/ /\ UNCHANGED rx
          /\ \/ F' = [x EXCEPT !.rh = "handshake", !.wh = None] /\ UNCHANGED calls
             \/ F' = [x EXCEPT !.rh = None, !.wh = "handshake"] /\ UNCHANGED calls
             \/ Teardown(x, "error")
    /\ UNCHANGED <<tx, got, waiter, ctx>>

HandshakeStep(x) == IF Dir = "in" THEN op_ssl_accept_common(x) ELSE op_ssl_connect_common(x)

(* op_ssl_init_fd: may it make a connection object? An incoming one needs the      *)
(* server's context; an outgoing one builds its own, and checks name and ALPN.   *)
op_ssl_init_fd == IF Dir = "in" THEN {ctx.default # 0} ELSE BOOLEAN

Started == [F EXCEPT !.life = "open", !.answer = TRUE, !.timer = TRUE, !.ssl = "hs"]

Begin ==
    /\ F.life = "new"
    /\ \E ok \in op_ssl_init_fd :
         IF ok THEN HandshakeStep(Started)
         ELSE /\ Teardown([Started EXCEPT !.ssl = None], "error")
              /\ UNCHANGED <<rx, tx, got, waiter, ctx>>

(* op_ssl_start_accepted, and op_ssl_accept_setup for a listener's connection.   *)
op_ssl_start_accepted == Dir = "in" /\ Begin

(* op_ssl_tryconn: the TCP connection's callback, with its status.            *)
op_ssl_tryconn ==
    /\ Dir = "out" /\ F.life = "tcp"
    /\ \/ /\ Answered([F EXCEPT !.life = "open"], "error")
          /\ UNCHANGED <<rx, tx, got, waiter, ctx>>
       \/ \E ok \in op_ssl_init_fd :
            IF ok THEN HandshakeStep(Started)
            ELSE /\ Teardown([Started EXCEPT !.ssl = None], "error")
                 /\ UNCHANGED <<rx, tx, got, waiter, ctx>>

(* op_connect_tcp_ssl_ex: a name or ALPN that is not valid is refused at once;      *)
(* otherwise op_connect_tcp is to call op_ssl_tryconn.                         *)
op_connect_tcp_ssl_ex ==
    /\ Dir = "out" /\ F.life = "new"
    /\ \/ Answered([F EXCEPT !.life = "open"], "error")
       \/ F' = [F EXCEPT !.life = "tcp", !.answer = TRUE] /\ UNCHANGED calls
    /\ UNCHANGED <<rx, tx, got, waiter, ctx>>

(* op_ssl_start_connected: on a descriptor that is connected already.          *)
op_ssl_start_connected == Dir = "out" /\ Begin

(* The I/O loop calls a registered handler, taking it off first.             *)
HandshakeEvent ==
    /\ F.life = "open" /\ "handshake" \in {F.rh, F.wh}
    /\ HandshakeStep(IF F.rh = "handshake" THEN [F EXCEPT !.rh = None] ELSE [F EXCEPT !.wh = None])

(* op_ssl_timeout_cb, op_ssl_tryconn_timeout_cb.                            *)
op_ssl_timeout_cb ==
    /\ F.life = "open" /\ F.timer
    /\ Answered(Unselected(F), "timeout")
    /\ UNCHANGED <<rx, tx, got, waiter, ctx>>

-----------------------------------------------------------------------------
(* Data.                                                                    *)

Up == F.life = "open" /\ ~F.answer /\ F.ssl = "up" /\ calls = <<"ok">>

(* The user reads and writes until it is told of an end or an error; then it closes. *)
InUse == Up /\ F.end = None

PeerSends ==
    /\ F.life = "open" /\ F.ssl \in {"hs", "up"} /\ ~rx.closed
    /\ \/ /\ rx.sent < MaxBytes
          /\ rx' = [rx EXCEPT !.sent = @ + 1, !.kernel = Append(@, rx.sent + 1)]
       \/ ~rx.ctl /\ rx' = [rx EXCEPT !.ctl = TRUE, !.kernel = Append(@, Ctl)]
       \/ rx' = [rx EXCEPT !.closed = TRUE, !.kernel = Append(@, Close)]
    /\ UNCHANGED <<F, calls, tx, got, waiter, ctx>>

(* What op_ssl_read finds: under kernel TLS the records of the socket, else those   *)
(* of opssl, which keeps its own to itself.                                   *)
Readable == IF F.ktls THEN rx.kernel ELSE SelectSeq(rx.ahead \o rx.kernel, LAMBDA b : b # Ctl)

Consume(n) ==
    rx' = IF F.ktls THEN [rx EXCEPT !.kernel = SubSeq(@, n + 1, Len(@))]
          ELSE [rx EXCEPT !.ahead = <<>>, !.kernel = SubSeq(Readable, n + 1, Len(Readable))]

(* op_ssl_read: bytes; the end of the stream; or an error, which under kernel TLS   *)
(* any other control record is.  Told to wait (NEED_READ, or NEED_WRITE while       *)
(* opssl has something to send) the caller reads again at its next event.         *)
op_ssl_read ==
    /\ InUse
    /\ \/ \E n \in 1..Len(Readable) :
             /\ \A i \in 1..n : Readable[i] > 0
             /\ got' = got \o SubSeq(Readable, 1, n) /\ Consume(n)
             /\ UNCHANGED F
       \/ /\ Readable # <<>> /\ Head(Readable) \in {Close, Ctl}
          /\ F' = [F EXCEPT !.end = IF Head(Readable) = Close THEN "eof" ELSE "error"]
          /\ Consume(1) /\ UNCHANGED got
       \/ F' = [F EXCEPT !.end = "error"] /\ UNCHANGED <<rx, got>>
    /\ UNCHANGED <<calls, tx, waiter, ctx>>

(* op_ssl_pending: what a caller must read before it waits for the socket.     *)
op_ssl_pending == IF F.ktls THEN 0 ELSE Len(rx.ahead)

Taken == [tx EXCEPT !.taken = @ + 1]
Outcome(f, t, says) == [f |-> f, tx |-> t, says |-> says]

(* What op_ssl_write does with one byte, under kernel TLS and without: taken and    *)
(* sent; taken and held, with op_ssl_flush_pending_write registered; taken though    *)
(* sending it failed, which is only logged; refused until the socket can be         *)
(* written, or, once opssl holds nothing, read; or an error, as ever after a send    *)
(* that failed.                                                              *)
op_ssl_write(x) ==
    {Outcome(x, tx, "error")}
      \cup (IF tx.dead /\ ~x.ktls THEN {} ELSE {Outcome(x, tx, "write")})
      \cup (IF x.ktls THEN {Outcome(x, [Taken EXCEPT !.out = @ + 1], "ok")}
            ELSE IF tx.dead THEN {}
            ELSE {Outcome(x, [Taken EXCEPT !.out = @ + tx.held + 1, !.held = 0], "ok"),
                  Outcome([x EXCEPT !.wh = "flush"], [Taken EXCEPT !.held = @ + 1], "ok"),
                  Outcome(x, [Taken EXCEPT !.held = @ + 1, !.dead = TRUE], "ok")}
                 \cup (IF tx.held = 0 THEN {Outcome(x, tx, "read")} ELSE {}))

(* The user writes from its own code or from the handler it waits for, and          *)
(* registers that handler when told to wait.                                  *)
UserWrites ==
    /\ InUse /\ tx.taken < MaxBytes
    /\ waiter = "write" => F.wh = "user"
    /\ waiter = "read" => F.rh = "user"
    /\ \E r \in op_ssl_write(CASE waiter = "write" -> [F EXCEPT !.wh = None]
                               [] waiter = "read" -> [F EXCEPT !.rh = None]
                               [] OTHER -> F) :
          /\ F' = CASE r.says = "write" -> [r.f EXCEPT !.wh = "user"]
                    [] r.says = "read" -> [r.f EXCEPT !.rh = "user"]
                    [] r.says = "error" -> [r.f EXCEPT !.end = "error"]
                    [] OTHER -> r.f
          /\ tx' = r.tx
          /\ waiter' = IF r.says \in {"write", "read"} THEN r.says ELSE None
    /\ UNCHANGED <<calls, rx, got, ctx>>

(* A protocol layer flushes something of its own while the user may be waiting.   *)
ControlWrites ==
    /\ Control /\ InUse /\ tx.taken < MaxBytes
    /\ \E r \in op_ssl_write(F) : F' = r.f /\ tx' = r.tx
    /\ UNCHANGED <<calls, rx, got, waiter, ctx>>

(* op_ssl_flush_pending_write, called by the I/O loop: a failure is only logged.   *)
op_ssl_flush_pending_write ==
    /\ F.life = "open" /\ F.wh = "flush"
    /\ \/ F' = [F EXCEPT !.wh = None] /\ tx' = [tx EXCEPT !.out = @ + tx.held, !.held = 0]
       \/ UNCHANGED <<F, tx>>
       \/ F' = [F EXCEPT !.wh = None] /\ tx' = [tx EXCEPT !.dead = TRUE]
    /\ UNCHANGED <<calls, rx, got, waiter, ctx>>

(* op_ssl_promote_ktls, later in the connection's life.                      *)
op_ssl_promote_ktls ==
    /\ InUse /\ Dir = "in" /\ ~F.ktls
    /\ \E k \in op_ssl_try_ktls : /\ k # 0
                                  /\ F' = [F EXCEPT !.ktls = (k = 1), !.ssl = IF k < 0 THEN "broken" ELSE @]
    /\ UNCHANGED <<calls, rx, tx, got, waiter, ctx>>

(* op_close: op_ssl_shutdown frees the connection object.                     *)
op_ssl_shutdown ==
    /\ F.life = "open"
    /\ F' = [Unselected(F) EXCEPT !.life = "closed", !.ssl = None, !.ktls = FALSE, !.answer = FALSE]
    /\ waiter' = None
    /\ UNCHANGED <<calls, rx, tx, got, ctx>>

Next ==
    \/ op_setup_ssl_server \/ \E h \in Hosts : op_setup_ssl_server_sni(h)
    \/ op_ssl_start_accepted \/ op_connect_tcp_ssl_ex \/ op_ssl_tryconn
    \/ op_ssl_start_connected \/ HandshakeEvent \/ op_ssl_timeout_cb
    \/ PeerSends \/ op_ssl_read \/ UserWrites \/ ControlWrites
    \/ op_ssl_flush_pending_write \/ op_ssl_promote_ktls \/ op_ssl_shutdown

Spec == Init /\ [][Next]_vars

(* Timeouts are checked, a writable socket is reported again and again, and       *)
(* opssl does not report a full socket for ever.                              *)
FairSpec ==
    /\ Spec /\ WF_vars(op_ssl_timeout_cb)
    /\ SF_vars(op_ssl_flush_pending_write /\ tx'.held = 0)
    /\ SF_vars(UserWrites /\ waiter' = None)

-----------------------------------------------------------------------------
(* Properties.                                                              *)

TypeOK ==
    /\ F.life \in {"new", "tcp", "open", "closed"} /\ F.ssl \in {None, "hs", "up", "broken"}
    /\ {F.rh, F.wh} \subseteq {None, "handshake", "flush", "user"}
    /\ F.count \in 0..CountCap /\ tx.out + tx.held = tx.taken

(* The user hears of the handshake's end once, and while it has not ended          *)
(* something is registered that will end it: a handler, and the timeout.        *)
HandshakeAttended ==
    /\ F.life # "closed" => Len(calls) = (IF F.life = "new" \/ F.answer THEN 0 ELSE 1)
    /\ Len(calls) <= 1
    /\ (F.life = "open" /\ F.answer) => F.timer /\ "handshake" \in {F.rh, F.wh}

(* What op_ssl_read returned is a prefix of what the peer sent, and all of it when   *)
(* it has reported the end of the stream; nothing is stranded: bytes read ahead       *)
(* stay within op_ssl_pending's reach.                                         *)
StreamKept ==
    /\ got = [i \in 1..Len(got) |-> i]
    /\ F.end = "eof" => Len(got) = rx.sent
    /\ Up => op_ssl_pending = Len(rx.ahead)

(* Ciphertext opssl holds is followed up by a write handler, until sending it has    *)
(* failed; what it holds when op_ssl_promote_ktls hands the socket to the kernel is  *)
(* nobody's any more.                                                        *)
CiphertextWaits == InUse /\ tx.held > 0 /\ ~tx.dead /\ ~F.ktls
PendingAttended == CiphertextWaits => F.wh # None

(* A name's entry is the certificate that incoming connections are served with,       *)
(* unless attaching it has failed (op_setup_ssl_server_sni goes on).               *)
SniCurrent ==
    ctx.default # 0 =>
        /\ DOMAIN ctx.attached \subseteq DOMAIN ctx.table
        /\ \A h \in DOMAIN ctx.table \ ctx.unattached :
              h \in DOMAIN ctx.attached /\ ctx.attached[h] = ctx.table[h]

(* Every handshake is answered in the end, and what was written leaves.       *)
HandshakeWaits == F.life = "open" /\ F.answer
HandshakeAnswered == []<>~HandshakeWaits
PendingLeaves == []<>~CiphertextWaits
=============================================================================
