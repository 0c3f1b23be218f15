----------------------------- MODULE MCHandoff -----------------------------
(* Small instances of Async and AsyncLog; of SendBuf, RawBuf, LineBuf, WebSocket, Tls and Helper; a        *)
(* behaviour is one of one of them.                                                               *)
(*   port:      three tasks, one without a done_fn, two workers, an op_async_init *)
(*              that may fail;                                                  *)
(*   portAgain: a port that is started again after its shutdown;                *)
(*   log:       two producers of two messages each, a writer whose poll() does  *)
(*              not time out, stores visible at once;                           *)
(*   logWeak:   ... whose poll() times out, and whose relaxed store may become   *)
(*              visible late, started once;                                     *)
(*   fanOut:    two clients, one worker; handOver: one client, two workers; ioLines: one client,  *)
(*              one worker, lines and raw bytes of the I/O thread;                            *)
(*   rawbuf, rawbufTls, rawbufRead: flushed with writev, through TLS, read with op_rawbuf_get;   *)
(*   linebuf, linebufRaw: lines cut anywhere, parsed or LINEBUF_RAW;                          *)
(*   wsRead:    three kinds of upgrade request and two frames; wsWrite: two messages written;    *)
(*   tlsIn, tlsInUser, tlsOut: a connection accepted with and without kernel TLS, and made;      *)
(*   tlsControl: ... whose protocol layer writes on its own; tlsNames: contexts set up meanwhile;   *)
(*   helpers:   two threads that start helpers; helper, helperInside: a running helper, which    *)
(*              the user closes from an event of its own, or from error_cb.                    *)
(* The recurring form []<>~P says the same as P ~> ~P.                          *)
EXTENDS Integers, FiniteSets, Sequences

VARIABLES
    scenario,
    given, wire, rep, fed, left, calls,            \* of more than one component
    line, heads, sb, prod, io,                      \* of SendBuf
    mode,                                           \* of LineBuf
    ws, net, frames, accept, timer, write,          \* of WebSocket
    F, rx, tx, got, waiter, ctx,                    \* of Tls
    st, env, child, h, pc                           \* of Helper

In(s) == scenario = s
Absent == "absent"

SendBufs == {"fanOut", "handOver", "ioLines"}
S(s) ==
    INSTANCE SendBuf WITH
        Clients <- IF s = "fanOut" THEN {"c1", "c2"} ELSE {"c1"},
        Workers <- IF s = "handOver" THEN {"w1", "w2"} ELSE {"w1"},
        LineLen <- IF s = "fanOut" THEN 1 ELSE 2,
        MaxRaw <- IF s = "fanOut" THEN 0 ELSE IF s = "handOver" THEN 1 ELSE 2,
        Lines <- {"l1", "l2"}, BlockSize <- 2, MaxIov <- 2, Gathers <- TRUE,
        IoLines <- s = "ioLines", head <- heads

RawBufs == {"rawbuf", "rawbufTls", "rawbufRead"}
R(s) ==
    INSTANCE RawBuf WITH
        ChunkSize <- 3, MaxIov <- 2, Ssl <- s = "rawbufTls", Reads <- s = "rawbufRead",
        MaxAppend <- 4, MaxBytes <- 10, out <- left

LineBufs == {"linebuf", "linebufRaw"}
L(s) ==
    INSTANCE LineBuf WITH
        LinebufSize <- 3, Raw <- s = "linebufRaw", MaxIov <- 2, Gathers <- TRUE,
        MaxLine <- 5, MaxPiece <- 3, MaxBytes <- 7, out <- left

HeaderLine(name, good) == [name |-> name, good |-> good, long |-> FALSE]
Request ==
    <<HeaderLine("request", TRUE), HeaderLine("upgrade", TRUE), HeaderLine("connection", TRUE),
      HeaderLine("version", TRUE), HeaderLine("key", TRUE)>>
Frame(op, fin, load) == [op |-> op, fin |-> fin, rsv |-> FALSE, masked |-> TRUE, big |-> FALSE, load |-> load]

WebSockets == {"wsRead", "wsWrite"}
W(s) ==
    INSTANCE WebSocket WITH
        Requests <- {Request, Append(Request, HeaderLine("upgrade", FALSE)), Tail(Request)},
        Frames <- IF s = "wsWrite" THEN {Frame("ping", TRUE, <<"x">>), Frame("text", TRUE, <<"x">>)}
                  ELSE {Frame("text", TRUE, <<"x">>), Frame("text", FALSE, <<"x">>), Frame("cont", TRUE, <<"x">>),
                        Frame("text", TRUE, <<"x", "C">>), Frame("binary", TRUE, <<"C", "x">>),
                        Frame("ping", TRUE, <<"x">>), Frame("close", TRUE, <<>>),
                        [Frame("text", TRUE, <<"x">>) EXCEPT !.rsv = TRUE]},
        MaxHeader <- IF s = "wsWrite" THEN 1 ELSE 2, MaxMessage <- 4, Early <- s = "wsRead", Grows <- FALSE,
        Writes <- IF s = "wsWrite" THEN 2 ELSE 0, MaxFrames <- IF s = "wsWrite" THEN 1 ELSE 2,
        sent <- frames, out <- left

Tlses == {"tlsIn", "tlsInUser", "tlsOut", "tlsControl", "tlsNames"}
T(s) ==
    INSTANCE Tls WITH
        Dir <- IF s = "tlsOut" THEN "out" ELSE "in", KernelTls <- s # "tlsInUser",
        ReadAhead <- s \in {"tlsInUser", "tlsOut"}, Control <- s = "tlsControl",
        Hosts <- IF s = "tlsNames" THEN {"host", "other"} ELSE {}, SniMax <- 1,
        MaxCtx <- IF s = "tlsNames" THEN 4 ELSE 1, MaxBytes <- IF s = "tlsNames" THEN 0 ELSE 2

Helpers == {"helpers", "helper", "helperInside"}
H(s) ==
    INSTANCE Helper WITH
        Starters <- IF s = "helpers" THEN {"t1", "t2"} ELSE {}, Base <- 3, MaxFd <- 9,
        ErrorCloses <- IF s = "helperInside" THEN "inside" ELSE "later", MaxLines <- 2

ASSUME
    /\ \A s \in SendBufs : S(s)!SendBufAssumption
    /\ \A s \in RawBufs : R(s)!RawBufAssumption
    /\ \A s \in LineBufs : L(s)!LineBufAssumption
    /\ \A s \in WebSockets : W(s)!WebSocketAssumption
    /\ \A s \in Tlses : T(s)!TlsAssumption
    /\ \A s \in Helpers : H(s)!HelperAssumption

queueOnly == <<line, heads, sb, prod, io>>
wsOnly == <<ws, net, frames, accept, timer, write>>
tlsOnly == <<F, rx, tx, got, waiter, ctx>>
helperOnly == <<st, env, child, h, pc>>
streamVars == <<given, wire, rep, fed, left, calls, mode, queueOnly, wsOnly, tlsOnly, helperOnly>>

(* The variables of the components that a behaviour is not about.                       *)
NoQueue == line = Absent /\ heads = Absent /\ sb = Absent /\ prod = Absent /\ io = Absent
NoBuf == rep = Absent /\ fed = Absent
NoWs == ws = Absent /\ net = Absent /\ frames = Absent /\ accept = Absent /\ timer = Absent /\ write = Absent
NoTls == F = Absent /\ rx = Absent /\ tx = Absent /\ got = Absent /\ waiter = Absent /\ ctx = Absent
NoHelper == st = Absent /\ env = Absent /\ child = Absent /\ h = Absent /\ pc = Absent
NoWire == given = Absent /\ wire = Absent
NoStream ==
    /\ NoQueue /\ NoBuf /\ NoWs /\ NoTls /\ NoHelper /\ NoWire
    /\ mode = Absent /\ left = Absent /\ calls = Absent

StreamsInit ==
    \/ \E s \in SendBufs : /\ In(s) /\ S(s)!Init /\ NoBuf /\ NoWs /\ NoTls /\ NoHelper
                           /\ mode = Absent /\ left = Absent /\ calls = Absent
    \/ /\ NoQueue /\ NoWs /\ NoTls /\ NoHelper /\ NoWire /\ calls = Absent
       /\ \/ \E s \in RawBufs : In(s) /\ R(s)!Init /\ mode = Absent
          \/ \E s \in LineBufs : In(s) /\ L(s)!Init
    \/ \E s \in WebSockets : In(s) /\ W(s)!Init /\ NoQueue /\ NoBuf /\ NoTls /\ NoHelper /\ mode = Absent
    \/ /\ NoQueue /\ NoBuf /\ NoWs /\ NoWire /\ mode = Absent /\ left = Absent
       /\ \/ \E s \in Tlses : In(s) /\ T(s)!Init /\ NoHelper
          \/ \E s \in Helpers : In(s) /\ H(s)!Init /\ NoTls /\ calls = Absent

(* A step of one component leaves the variables of the others alone.                     *)
InSendBuf(s) == In(s) /\ UNCHANGED <<rep, fed, left, calls, mode, wsOnly, tlsOnly, helperOnly>>
InRawBuf(s) == In(s) /\ UNCHANGED <<given, wire, calls, mode, queueOnly, wsOnly, tlsOnly, helperOnly>>
InLineBuf(s) == In(s) /\ UNCHANGED <<given, wire, calls, queueOnly, wsOnly, tlsOnly, helperOnly>>
InWs(s) == In(s) /\ UNCHANGED <<rep, fed, mode, queueOnly, tlsOnly, helperOnly>>
InTls(s) == In(s) /\ UNCHANGED <<given, wire, rep, fed, left, mode, queueOnly, wsOnly, helperOnly>>
InHelper(s) == In(s) /\ UNCHANGED <<given, wire, rep, fed, left, calls, mode, queueOnly, wsOnly, tlsOnly>>

StreamsNext ==
    \/ \E s \in SendBufs : InSendBuf(s) /\ S(s)!Next
    \/ \E s \in RawBufs : InRawBuf(s) /\ R(s)!Next
    \/ \E s \in LineBufs : InLineBuf(s) /\ L(s)!Next
    \/ \E s \in WebSockets : InWs(s) /\ W(s)!Next
    \/ \E s \in Tlses : InTls(s) /\ T(s)!Next
    \/ \E s \in Helpers : InHelper(s) /\ H(s)!Next

(* The steps that are fair.                                                               *)
HandlersRun ==
    \/ InWs("wsRead") /\ W("wsRead")!Reading
    \/ \E s \in {"helper", "helperInside"} : InHelper(s) /\ H(s)!Loop

TimeoutsRun ==
    \/ InWs("wsRead") /\ W("wsRead")!op_ws_timeout_cb
    \/ \E s \in Tlses : InTls(s) /\ T(s)!op_ssl_timeout_cb

SocketDrains == \E s \in Tlses : InTls(s) /\ T(s)!op_ssl_flush_pending_write /\ tx'.held = 0
WriterSucceeds == \E s \in Tlses : InTls(s) /\ T(s)!UserWrites /\ waiter' = T(s)!None

-----------------------------------------------------------------------------
(* The properties of the components, each where it holds.                               *)

(* What goes in comes out, once and in order, however it is cut: the bytes of every thread that   *)
(* op_sendbuf_write_linebuf queues, with the lines' references exact; the chunks of              *)
(* op_rawbuf_append; the lines of op_linebuf_parse; the payload of WebSocket frames               *)
(* (op_ws_read) and the frames of op_ws_write; and the bytes of a TLS connection (op_ssl_read),     *)
(* whose held ciphertext keeps a write handler (op_ssl_write).                               *)
StreamsInOrder ==
    /\ \A s \in SendBufs : In(s) => /\ S(s)!TypeOK /\ S(s)!RefsExact
                                    /\ S(s)!OneOrderedQueue /\ S(s)!LenAccounted
    /\ \A s \in RawBufs : In(s) => R(s)!TypeOK /\ R(s)!ByteQueue
    /\ \A s \in LineBufs : In(s) => L(s)!TypeOK /\ L(s)!LinesOfStream /\ L(s)!FlushExact
    /\ \A s \in WebSockets : In(s) => W(s)!TypeOK /\ W(s)!DecodedInOrder /\ W(s)!WritesFramed
    /\ \A s \in Tlses : In(s) => T(s)!TypeOK /\ T(s)!StreamKept /\ T(s)!PendingAttended

(* Whoever waits is attended to: until a handshake is answered its handler and its timeout are set,  *)
(* and no timeout is left afterwards (op_ws_handshake_read, op_ssl_accept_common); a connection is    *)
(* served the certificate of its name (op_setup_ssl_server_sni); a helper has its own pipes and its   *)
(* death shows (op_helper_start, op_helper_child), a live one has its handlers, and no callback uses   *)
(* a closed one, except where error_cb closes it inside read_cb (op_helper_close).                  *)
PartiesAttended ==
    /\ \A s \in WebSockets : In(s) => W(s)!UpgradeAttended
    /\ \A s \in Tlses : In(s) => T(s)!HandshakeAttended /\ T(s)!SniCurrent
    /\ \A s \in Helpers : In(s) => /\ H(s)!TypeOK /\ H(s)!ChildHasItsPipes /\ H(s)!DeathVisible
                                   /\ H(s)!HelperAttended /\ H(s)!NoTouchAfterClose

(* A handshake that was not answered; ciphertext that was not sent; a helper's death that was not      *)
(* reported.                                                                            *)
StreamWaits ==
    \/ In("wsRead") /\ W("wsRead")!HandshakeWaits
    \/ \E s \in Tlses : In(s) /\ (T(s)!HandshakeWaits \/ T(s)!CiphertextWaits)
    \/ \E s \in {"helper", "helperInside"} : In(s) /\ H(s)!DeathUnreported
-----------------------------------------------------------------------------
(* The hand-offs between threads. *)

CONSTANTS Unused, Main, Sentinel, t1, t2, t3, w1, w2, p1, p2

VARIABLES
    pending, efd, wpc, mpc,                                   \* of both
    todo, up, pool, sub, wtask, wold, alive, next, head, tail, armed, drains,
    called, nfd, kopen, closing, aged, fails, shut,            \* of Async
    stack, cleared, hook, stop, batch, starts, ppc, sent, pushed, out, sync

Port ==
    INSTANCE Async WITH None <- Unused,
        Tasks <- {t1, t2, t3}, Silent <- {t3}, Workers <- {w1, w2}, Fds <- {1},
        MaxFail <- 1, Reenter <- 0, LateSubmit <- FALSE, Restart <- "never"

PortAgain ==
    INSTANCE Async WITH None <- Unused,
        Tasks <- {t1, t2}, Silent <- {t2}, Workers <- {w1}, Fds <- {1, 2},
        MaxFail <- 1, Reenter <- 0, LateSubmit <- FALSE, Restart <- "flushed"

Log ==
    INSTANCE AsyncLog WITH
        Producers <- {p1, p2}, PerProducer <- 2, MaxStarts <- 2,
        InFlight <- FALSE, Timeout <- FALSE, Weak <- FALSE

LogWeak ==
    INSTANCE AsyncLog WITH
        Producers <- {p1, p2}, PerProducer <- 2, MaxStarts <- 1,
        InFlight <- FALSE, Timeout <- TRUE, Weak <- TRUE

ASSUME
    /\ Port!AsyncAssumption /\ PortAgain!AsyncAssumption
    /\ Log!AsyncLogAssumption /\ LogWeak!AsyncLogAssumption

asyncOnly == <<todo, up, pool, sub, wtask, wold, alive, next, head, tail, armed, drains,
               called, nfd, kopen, closing, aged, fails, shut>>
logOnly == <<stack, cleared, hook, stop, batch, starts, ppc, sent, pushed, out, sync>>
vars == <<pending, efd, wpc, mpc, asyncOnly, logOnly>>

(* The variables of the component that a behaviour is not about.                *)
NoAsync ==
    /\ todo = Unused /\ up = Unused /\ pool = Unused /\ sub = Unused /\ wtask = Unused /\ wold = Unused
    /\ alive = Unused /\ next = Unused /\ head = Unused /\ tail = Unused /\ armed = Unused
    /\ drains = Unused /\ called = Unused /\ nfd = Unused /\ kopen = Unused /\ closing = Unused
    /\ aged = Unused /\ fails = Unused /\ shut = Unused

NoLog ==
    /\ stack = Unused /\ cleared = Unused /\ hook = Unused /\ stop = Unused /\ batch = Unused
    /\ starts = Unused /\ ppc = Unused /\ sent = Unused /\ pushed = Unused /\ out = Unused /\ sync = Unused

Init ==
    \/ NoStream /\ NoLog /\ \/ In("port") /\ Port!Init
                            \/ In("portAgain") /\ PortAgain!Init
    \/ NoStream /\ NoAsync /\ \/ In("log") /\ Log!Init
                              \/ In("logWeak") /\ LogWeak!Init
    \/ /\ StreamsInit /\ NoAsync /\ NoLog
       /\ pending = Unused /\ efd = Unused /\ wpc = Unused /\ mpc = Unused

AsyncNext ==
    \/ In("port") /\ Port!Next
    \/ In("portAgain") /\ PortAgain!Next

LogNext ==
    \/ In("log") /\ Log!Next
    \/ In("logWeak") /\ LogWeak!Next

Next ==
    /\ \/ AsyncNext /\ UNCHANGED <<logOnly, streamVars>>
       \/ LogNext /\ UNCHANGED <<asyncOnly, streamVars>>
       \/ StreamsNext /\ UNCHANGED vars
    /\ UNCHANGED scenario

InPort == In("port") /\ UNCHANGED <<logOnly, streamVars>>
InLog(s) == In(s) /\ UNCHANGED <<asyncOnly, streamVars>>
InStreams == UNCHANGED vars

Enqueue(p) ==
    \/ InLog("log") /\ Log!op_async_log_enqueue(p)
    \/ InLog("logWeak") /\ LogWeak!op_async_log_enqueue(p)

(* Workers, producers and timers; the threads they hand over to; and the thread    *)
(* that stops the log.                                                          *)
FirstRuns ==
    \/ InPort /\ Port!WorkerStep(w1)
    \/ Enqueue(p1)
    \/ InStreams /\ TimeoutsRun
SecondRuns ==
    \/ InPort /\ Port!WorkerStep(w2)
    \/ Enqueue(p2)
ReceiverRuns ==
    \/ InPort /\ Port!MainStep
    \/ InLog("log") /\ Log!log_writer_fn
    \/ InLog("logWeak") /\ LogWeak!log_writer_fn
    \/ InStreams /\ HandlersRun
LogMain ==
    \/ InLog("log") /\ Log!MainStep
    \/ InLog("logWeak") /\ LogWeak!MainStep

allVars == <<vars, streamVars>>
(* The fairness of Async's and of AsyncLog's LiveSpec, and of the streams.  A       *)
(* behaviour stays in one scenario, so fairness of a disjunction over the           *)
(* scenarios is fairness in each.                                               *)
Spec ==
    /\ Init /\ [][Next]_<<scenario, allVars>>
    /\ WF_allVars(FirstRuns) /\ WF_allVars(SecondRuns) /\ WF_allVars(ReceiverRuns)
    /\ WF_allVars(LogMain) /\ WF_allVars(InLog("logWeak") /\ LogWeak!StoreVisible)
    /\ SF_allVars(InStreams /\ SocketDrains) /\ SF_allVars(InStreams /\ WriterSucceeds)

-----------------------------------------------------------------------------
(* The properties of Async and AsyncLog, each where it holds.                   *)

(* No freed completion node is used again (op_async_drain,                      *)
(* async_post_completion), op_async_pending counts exactly the tasks that are     *)
(* under way, and the eventfd of a port that is started again after op_select has *)
(* caught up with the closing of the last one stays open (op_async_shutdown).     *)
Consistent ==
    /\ In("port") => Port!TypeOK /\ Port!HeldNodesAllocated /\ Port!PendingIsExact
    /\ In("portAgain") => /\ PortAgain!HeldNodesAllocated /\ PortAgain!PendingIsExact
                          /\ PortAgain!NotifyFdOpen
    /\ In("log") => Log!TypeOK
    /\ In("logWeak") => LogWeak!TypeOK

(* A done_fn is called once, after its work_fn (op_async_drain); messages come   *)
(* out in the order of their pushes, each once (drain_stack).                   *)
DeliveredOnce ==
    /\ In("port") => Port!DeliveredOnce
    /\ In("portAgain") => PortAgain!DeliveredOnce
    /\ In("log") => Log!Chronological
    /\ In("logWeak") => LogWeak!Chronological

(* The event loop never waits while a completion waits for it                   *)
(* (async_notify_handler, async_post_completion), nor the writer while a         *)
(* message does (op_async_log_enqueue, log_writer_fn), where stores are visible  *)
(* at once.                                                                    *)
WakeupNotLost ==
    /\ In("port") => Port!WakeupNotLost
    /\ In("portAgain") => PortAgain!WakeupNotLost
    /\ In("log") => Log!WakeupNotLost

(* op_async_shutdown leaves nothing behind, nor does op_stop_async_log when no   *)
(* op_lib_log call is under way as it begins.                                  *)
StopLeavesNothing ==
    /\ In("port") => Port!ShutdownIsClean
    /\ In("portAgain") => PortAgain!ShutdownIsClean
    /\ In("log") => Log!StopDrains
    /\ In("logWeak") => LogWeak!StopDrains

Awaited(k) == In("port") /\ Port!Awaited(k)
Unwritten(i) == (In("log") \/ In("logWeak")) /\ Log!Unwritten(p1, i)
Stopping == (In("log") \/ In("logWeak")) /\ Log!Stopping

(* Every done_fn is called in the end (op_async_submit to op_async_drain), and   *)
(* every op_lib_log call ends in a call of the callback; without the timeout of   *)
(* poll() where stores are ordered, with it where they are not; op_stop_async_log *)
(* returns.  t1 and t2, and the producers, are interchangeable.  A handshake is   *)
(* answered (op_ws_timeout_cb, op_ssl_timeout_cb), TLS ciphertext sent             *)
(* (op_ssl_flush_pending_write), and a helper's death reported                    *)
(* (op_helper_read_cb).                                                         *)
EverythingDelivered ==
    /\ []<>~(Awaited(t1) \/ Stopping \/ StreamWaits)
    /\ \A i \in {1, 2} : []<>~Unwritten(i)
=============================================================================
