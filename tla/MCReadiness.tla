---------------------------- MODULE MCReadiness ----------------------------
(* Small instances of Backends, Uring and Descriptors; a behaviour is one of one of    *)
(* them.                                                                           *)
(*   poll, select, devpoll, ports, sigio, kqueue, iocp: that backend, two              *)
(*             descriptors (kqueue and iocp one), workers where the backend allows them;  *)
(*             sigioBoth: SIGIO, both kinds of interest in one descriptor;                *)
(*   kqueueNative, kqThread: kqueue without timeouts and workers; with its poll thread;    *)
(*   uring:    io_uring, read and write interest on one FDE; uringFull: read interest and a    *)
(*             submission queue that stays full; uringWorker: read interest, a worker;      *)
(*             uringReopen: a kTLS FDE that is closed and opened again; uringMulti: the       *)
(*             same with multishot polls; uringThread: with the CQ thread;                   *)
(*   fds:      the descriptor table, two numbers, three objects, two attempts;              *)
(*   accepts:  ... three numbers, one attempt, a connection to accept.                       *)
EXTENDS Integers, FiniteSets, Sequences, TLC

CONSTANT Unused

VARIABLES
    scenario,
    life, ready, iopc, ring, notify, cur, fde,     \* of more than one component
    be, batch, sigs, thr,                          \* of Backends
    inbox, list, reqs, cq, worker,                 \* of Uring
    kernel, number_fd, accepting, backlog, calls, asked, answered, trouble

In(s) == scenario = s

BackendIs(kind, fds, dirs, workers) == [kind |-> kind, fds |-> fds, dirs |-> dirs, workers |-> workers]
Untimed == {"ports", "sigio", "sigioBoth", "iocp", "kqueueNative", "kqThread"}
RW == {"r", "w"}
Backend ==
    "poll" :> BackendIs("poll", {0, 2}, RW, TRUE) @@ "select" :> BackendIs("select", {0, 2}, RW, TRUE)
    @@ "devpoll" :> BackendIs("devpoll", {0, 2}, RW, TRUE) @@ "ports" :> BackendIs("ports", {0, 2}, RW, FALSE)
    @@ "sigio" :> BackendIs("sigio", {0, 2}, {"r"}, FALSE) @@ "sigioBoth" :> BackendIs("sigio", {2}, RW, FALSE)
    @@ "kqueue" :> BackendIs("kqueue", {2}, RW, TRUE) @@ "kqueueNative" :> BackendIs("kqueue", {2}, RW, FALSE)
    @@ "kqThread" :> BackendIs("kqueue", {2}, RW, TRUE)
    @@ "iocp" :> BackendIs("iocp", {2}, {"r"}, FALSE)

B(s) ==
    INSTANCE Backends WITH
        Kind <- Backend[s].kind, Fds <- Backend[s].fds, Dirs <- Backend[s].dirs, Workers <- Backend[s].workers,
        Timed <- s \notin Untimed,
        Threaded <- s = "kqThread", RingCap <- 2,
        ChangeCap <- IF s = "kqThread" THEN 1 ELSE 2, SigCap <- 1, MaxGen <- 3

Urings == {"uring", "uringFull", "uringWorker", "uringReopen", "uringMulti", "uringThread"}

U(s) ==
    INSTANCE Uring WITH
        Fds <- {"fd"}, Dirs <- IF s = "uring" THEN RW ELSE {"r"},
        Multishot <- s = "uringMulti", Ktls <- s = "uringReopen", Threaded <- s = "uringThread",
        Workers <- s = "uringWorker", SqFull <- s = "uringFull",
        MaxFile <- IF s = "uringReopen" THEN 1 ELSE 0,
        GenMod <- IF s = "uringThread" THEN 2 ELSE 3,
        RingCap <- 1, CqCap <- 1, Again <- TRUE, Outlive <- FALSE, Timed <- s = "uringMulti"

TableUses == {"fds", "accepts"}
Table(s) ==
    INSTANCE Descriptors WITH
        Fds <- IF s = "fds" THEN {3, 4} ELSE {3, 4, 5}, Objs <- {0, 1, 2}, Sctp <- FALSE, MaxConn <- 3,
        BatchMax <- 2, MaxBacklog <- IF s = "fds" THEN 0 ELSE 1, MaxAttempts <- IF s = "fds" THEN 2 ELSE 1

ASSUME
    /\ \A s \in DOMAIN Backend : B(s)!BackendsAssumption
    /\ \A s \in Urings : U(s)!UringAssumption
    /\ \A s \in TableUses : Table(s)!DescriptorsAssumption

backendOnly == <<be, batch, sigs, thr>>
uringOnly == <<inbox, list, reqs, cq, worker>>
tableOnly == <<kernel, number_fd, accepting, backlog, calls, asked, answered, trouble>>
vars == <<life, ready, iopc, ring, notify, cur, fde, backendOnly, uringOnly, tableOnly>>

(* The variables of the components that a behaviour is not about.                  *)
NoBackend == be = Unused /\ batch = Unused /\ sigs = Unused /\ thr = Unused
NoUring == inbox = Unused /\ list = Unused /\ reqs = Unused /\ cq = Unused /\ worker = Unused
NoTable ==
    /\ kernel = Unused /\ number_fd = Unused /\ accepting = Unused /\ backlog = Unused
    /\ calls = Unused /\ asked = Unused /\ answered = Unused /\ trouble = Unused
NoRing == ring = Unused /\ notify = Unused /\ cur = Unused

Init ==
    \/ \E s \in DOMAIN Backend : In(s) /\ B(s)!Init /\ NoUring /\ NoTable /\ NoRing /\ fde = Unused
    \/ \E s \in Urings : In(s) /\ U(s)!Init /\ NoBackend /\ NoTable /\ life = Unused
    \/ /\ \E s \in TableUses : In(s) /\ Table(s)!Init
       /\ NoBackend /\ NoUring /\ NoRing
       /\ life = Unused /\ ready = Unused /\ iopc = Unused

(* A step of one component leaves the variables of the others alone.                 *)
InBackend(s) == In(s) /\ UNCHANGED <<ring, notify, cur, fde, uringOnly, tableOnly>>
InUring(s) == In(s) /\ UNCHANGED <<life, backendOnly, tableOnly>>
InTable(s) == In(s) /\ UNCHANGED <<life, ready, iopc, ring, notify, cur, backendOnly, uringOnly>>

Next ==
    /\ \/ \E s \in DOMAIN Backend : InBackend(s) /\ B(s)!Next
       \/ \E s \in Urings : InUring(s) /\ U(s)!Next
       \/ \E s \in TableUses : InTable(s) /\ Table(s)!Next
    /\ UNCHANGED scenario

(* The fairness of the components.  A behaviour stays in one scenario, so fairness of     *)
(* a disjunction over the scenarios is fairness in each.                               *)
ServedUrings == {"uring", "uringWorker", "uringMulti", "uringReopen", "uringThread"}

IoRuns ==
    \/ \E s \in DOMAIN Backend : InBackend(s) /\ B(s)!FairIo
    \/ \E s \in ServedUrings : InUring(s) /\ U(s)!IoStep
    \/ InTable("fds") /\ Table("fds")!op_connect_outcome(0)

KernelRuns ==
    \/ \E s \in ServedUrings : InUring(s) /\ U(s)!KernelCompletes
    \/ InTable("fds") /\ Table("fds")!op_accept_tryaccept

ThreadsRun ==
    \/ \E s \in ServedUrings : InUring(s) /\ (U(s)!WorkerStep \/ U(s)!uring_cq_poll_thread_fn)
    \/ InBackend("kqThread") /\ B("kqThread")!PollStep
RingDrains(d) == InBackend("kqThread") /\ B("kqThread")!Dispatch(2, d)

TimersFire ==
    \/ \E s \in ServedUrings : InUring(s) /\ U(s)!uring_sweep_stale_polls("fd")
    \/ InTable("fds") /\ Table("fds")!op_connect_timeout(0)

Spec ==
    /\ Init /\ [][Next]_<<scenario, vars>>
    /\ WF_vars(IoRuns) /\ WF_vars(KernelRuns) /\ WF_vars(ThreadsRun) /\ SF_vars(TimersFire)
    /\ \A d \in RW : WF_vars(RingDrains(d))

-----------------------------------------------------------------------------
(* The properties of the components, each where it holds.                            *)

(* As long as an open descriptor has a handler, the backend knows of it: in the kernel, in *)
(* the arrays its wait is given, in a change list or a stack of dirty FDEs, or among the    *)
(* events it has fetched and not dispatched (op_setselect_*, op_select_*, op_arm_uring).    *)
(* Sockets on which iocp_post_io fails are excepted.                                     *)
InterestKept ==
    /\ \A s \in DOMAIN Backend : In(s) => B(s)!TypeOK /\ B(s)!InterestKept
    /\ \A s \in Urings : In(s) => U(s)!TypeOK /\ U(s)!InterestKept

(* While no worker is inside op_setselect_uring when its FDE is closed, no FDE is on          *)
(* io_uring's stack of dirty FDEs twice, or uring_flush_dirty would go round in a circle       *)
(* (uring_mark_dirty, uring_flush_dirty); and an I/O thread that waits is told of what workers  *)
(* have put there, and of the events kqueue's poll thread has put in its ring                 *)
(* (op_setselect_uring, kq_poll_thread_fn).                                              *)
HandedOver ==
    /\ \A s \in Urings : In(s) => U(s)!InboxSimple /\ U(s)!InboxAnnounced
    /\ In("kqThread") => B("kqThread")!RingAnnounced

(* The table of FDEs and the kernel's descriptors agree through open, close and the two-stage *)
(* release of closed FDEs; connect attempts are answered once and never after a close; a       *)
(* listener stays registered through its accept batches (op_open, op_close,                *)
(* op_close_pending_fds, op_connect_callback, op_accept_tryaccept).                       *)
DescriptorsSound ==
    \A s \in TableUses \cap {scenario} :
        /\ Table(s)!TypeOK /\ Table(s)!TableMatchesKernel /\ Table(s)!OpenFindsClosed
        /\ Table(s)!AnsweredOnce /\ Table(s)!ListenerHears

(* The waits of the components: for d on f with a backend, for d with io_uring, for the     *)
(* attempt of the object with that rank.                                              *)
Awaited(f, d) ==
    \/ \E s \in DOMAIN Backend \cap {scenario} : f \in Backend[s].fds /\ d \in Backend[s].dirs /\ B(s)!Unserved(f, d)
    \/ \E s \in ServedUrings \cap {scenario} : f = 2 /\ U(s)!Unserved("fd", d)
    \/ In("fds") /\ f = 2 /\ d = "r" /\ asked[0] /\ "silent" \notin trouble

(* A condition that a registered handler waits for is served: by io_uring through its requests *)
(* or the sweep, by the other backends through their wait; and a connect attempt is answered    *)
(* or its descriptor closed (op_connect_timeout, op_connect_outcome).                       *)
Served == \A f \in {0, 2}, d \in RW : []<>~Awaited(f, d)
=============================================================================
