---------------------------- MODULE Descriptors ----------------------------
(* The descriptor table of src/commio.c and what opens, connects, accepts on and  *)
(* closes the descriptors in it, all on the event-loop thread: op_socket,         *)
(* op_socketpair, op_pipe, op_listen, op_accept_tcp, op_connect_tcp,              *)
(* op_connect_sctp, op_recv_fd_buf, op_close and op_close_pending_fds. A callback  *)
(* of the caller runs inside the call that makes it; what it may do to the         *)
(* descriptors is the parameter `react`. The kernel's table is `kernel`.           *)
EXTENDS Integers, FiniteSets

CONSTANTS
    Fds,            \* descriptor numbers the kernel hands out
    Objs,           \* memory for op_fde_t, from fd_heap
    Sctp,           \* TRUE iff built with HAVE_LIBSCTP
    MaxConn,        \* op_maxconnections
    BatchMax,       \* ACCEPT_BATCH_MAX
    MaxBacklog,     \* bound: connections waiting on a listener
    MaxAttempts     \* bound: calls of op_connect_* and of op_accept_tcp

VARIABLES
    kernel,         \* Fds -> what the kernel's descriptor is
    fde,            \* Objs -> op_fde_t
    number_fd,
    accepting,      \* the op_accept_tryaccept in progress: listener and batch
    backlog,        \* connections waiting on the listening sockets
    calls,          \* calls made so far, against MaxAttempts
    asked,          \* Objs -> an attempt was started and is not answered
    answered,       \* Objs -> callbacks made for the last attempt
    trouble         \* what the code ran into: "clash", "null" or "silent"

vars == <<kernel, fde, number_fd, accepting, backlog, calls, asked, answered, trouble>>

NoFd == -1
Idle == [on |-> NoFd, batch |-> 0]
Reactions == {"keep", "closeNew", "closeListener"}

DescriptorsAssumption ==
    /\ Fds \subseteq Nat /\ Sctp \in BOOLEAN
    /\ MaxConn \in Nat /\ BatchMax \in Nat \ {0} /\ MaxBacklog \in Nat /\ MaxAttempts \in Nat

(* An op_fde_t as fd_heap or memset() leaves it.                                  *)
Blank(list) ==
    [fd |-> NoFd, list |-> list, open |-> FALSE, sctp |-> FALSE, listen |-> FALSE,
     connect |-> "none", accept |-> FALSE, timer |-> FALSE,
     outcome |-> FALSE, tryaccept |-> FALSE]

TypeOK ==
    /\ kernel \in [Fds -> {"closed", "open", "connecting", "connected", "refused",
                           "listening", "shut"}]
    /\ number_fd \in Nat /\ backlog \in 0 .. MaxBacklog /\ calls \in 0 .. MaxAttempts
    /\ trouble \subseteq {"clash", "null", "silent"}
    /\ \A o \in Objs :
        /\ fde[o].fd \in Fds \cup {NoFd}
        /\ fde[o].list \in {"heap", "table", "closed", "aged", "recycled"}
        /\ fde[o].connect \in {"none", "armed", "fired"}
    /\ asked \in [Objs -> BOOLEAN] /\ answered \in [Objs -> Nat]

Init ==
    /\ kernel = [d \in Fds |-> "closed"]
    /\ fde = [o \in Objs |-> Blank("heap")]
    /\ number_fd = 0 /\ accepting = Idle /\ backlog = 0 /\ calls = 0
    /\ asked = [o \in Objs |-> FALSE] /\ answered = [o \in Objs |-> 0]
    /\ trouble = {}

(* The number the kernel hands out: the lowest that is neither open nor in `taken`;   *)
(* none, as with EMFILE, when Objs is used up.                                     *)
LowestFd(taken) ==
    LET free == {d \in Fds \ taken : kernel[d] = "closed"}
    IN  IF \E o \in Objs : fde[o].list \in {"heap", "recycled"}
        THEN {d \in free : \A e \in free : d <= e} ELSE {}
FreeFds == LowestFd({})

-----------------------------------------------------------------------------
(* add_fd: the object of this number in the table, else one of recycled_list,     *)
(* else a new one.                                                               *)
add_fd(D, d) ==
    LET inTable == {o \in Objs : D[o].list = "table" /\ D[o].fd = d}
        recycled == {o \in Objs : D[o].list = "recycled"}
        new == {o \in Objs : D[o].list = "heap"}
        first == IF inTable # {} THEN inTable ELSE IF recycled # {} THEN recycled ELSE new
    IN  IF first = {} THEN {} ELSE {CHOOSE o \in first : TRUE}

(* op_open(fd, type) gives back NULL, with the assertion failed, for an object      *)
(* that is open.                                                                 *)
op_open(D, o, d) ==
    IF D[o].open THEN D
    ELSE [D EXCEPT ![o] = [Blank("table") EXCEPT !.fd = d, !.open = TRUE]]

Clash(D, o) == IF D[o].open THEN {"clash"} ELSE {}
Opened(D, o) == IF D[o].open THEN 0 ELSE 1

(* A bug for comparison: the interest and the timeout of the object are kept.      *)
CloseKeepsTimer(D, o) ==
    IF ~D[o].open THEN D
    ELSE [D EXCEPT ![o] = [Blank("closed") EXCEPT
            !.fd = D[o].fd, !.listen = D[o].listen, !.timer = D[o].timer,
            !.connect = D[o].connect]]

(* op_close: interest, timeout, conndata and acceptdata go, the object moves to    *)
(* closed_list; the number stays taken until op_close_pending_fds.                 *)
op_close(D, o) ==
    IF ~D[o].open THEN D
    ELSE [D EXCEPT ![o] = [Blank("closed") EXCEPT !.fd = D[o].fd, !.listen = D[o].listen]]

(* ... and the listening socket is shut down at the end of op_close.               *)
CloseInKernel(D, o) ==
    IF D[o].open /\ D[o].listen THEN [kernel EXCEPT ![D[o].fd] = "shut"] ELSE kernel

-----------------------------------------------------------------------------
(* op_socket. IPV6_V6ONLY may fail before the object exists (`early`); the SCTP     *)
(* options of op_setsockopt_sctp, tried in order, may fail after it exists: then    *)
(* the number is closed and the object left as it is; op_set_nb may fail last.      *)
op_setsockopt_sctp(proto) == IF proto = "sctp" THEN BOOLEAN ELSE {TRUE}

op_socket ==
    /\ accepting = Idle
    /\ number_fd < MaxConn
    /\ \E d \in FreeFds, proto \in {"tcp"} \cup (IF Sctp THEN {"sctp"} ELSE {}) :
       \E o \in add_fd(fde, d), optsOk \in op_setsockopt_sctp(proto), nbOk \in BOOLEAN :
        LET made == [op_open(fde, o, d) EXCEPT ![o].sctp = (proto = "sctp")]
        IN  /\ trouble' = trouble \cup Clash(fde, o)
            /\ number_fd' = number_fd + Opened(fde, o)
            /\ IF fde[o].open THEN UNCHANGED <<fde, kernel>>
               ELSE IF ~optsOk THEN fde' = made /\ UNCHANGED kernel
               ELSE /\ fde' = IF nbOk THEN made ELSE op_close(made, o)
                    /\ kernel' = [kernel EXCEPT ![d] = "open"]
    /\ UNCHANGED <<accepting, backlog, calls, asked, answered>>

(* op_socketpair and op_pipe: two numbers, two objects, undone together when one    *)
(* of them cannot be opened or made non-blocking.                                  *)
op_pair(nbOk) ==
    /\ accepting = Idle
    /\ number_fd < MaxConn
    /\ \E d1 \in FreeFds : \E d2 \in LowestFd({d1}), o1 \in add_fd(fde, d1) :
        LET D1 == op_open(fde, o1, d1)
        IN  \E o2 \in add_fd(D1, d2) \ {o1} :
            LET D2 == op_open(D1, o2, d2)
                bad1 == fde[o1].open
                bad2 == D1[o2].open
            IN  /\ trouble' = trouble \cup Clash(fde, o1) \cup Clash(D1, o2)
                /\ number_fd' = number_fd + Opened(fde, o1) + Opened(D1, o2)
                /\ fde' = IF ~bad1 /\ ~bad2 /\ nbOk THEN D2
                          ELSE LET E == IF bad1 THEN D2 ELSE op_close(D2, o1)
                               IN  IF bad2 THEN E ELSE op_close(E, o2)
                /\ kernel' = [kernel EXCEPT ![d1] = IF bad1 THEN "closed" ELSE "open",
                                            ![d2] = IF bad2 THEN "closed" ELSE "open"]
    /\ UNCHANGED <<accepting, backlog, calls, asked, answered>>

op_socketpair == \E nbOk \in BOOLEAN : op_pair(nbOk)
op_pipe == \E nbOk \in BOOLEAN : op_pair(nbOk)

(* op_recv_fd_buf: the kernel has installed the numbers; each gets an object, or    *)
(* none, and then stays open with nobody to close it.                              *)
op_recv_fd_buf ==
    /\ accepting = Idle
    /\ \E d \in FreeFds : \E o \in add_fd(fde, d) :
        /\ kernel' = [kernel EXCEPT ![d] = "open"]
        /\ fde' = op_open(fde, o, d)
        /\ number_fd' = number_fd + Opened(fde, o)
        /\ trouble' = trouble \cup Clash(fde, o)
    /\ UNCHANGED <<accepting, backlog, calls, asked, answered>>

(* The caller closes a descriptor.                                               *)
UserClose ==
    /\ accepting = Idle
    /\ \E o \in Objs :
        /\ fde[o].open
        /\ fde' = op_close(fde, o) /\ kernel' = CloseInKernel(fde, o)
        /\ asked' = [asked EXCEPT ![o] = FALSE]
    /\ UNCHANGED <<number_fd, accepting, backlog, calls, answered, trouble>>

(* op_close_pending_fds: the aged objects become free to use again, the closed      *)
(* ones age; the numbers of both are closed.                                       *)
op_close_pending_fds ==
    /\ accepting = Idle
    /\ \E o \in Objs : fde[o].list \in {"closed", "aged"}
    /\ kernel' = [d \in Fds |->
            IF \E o \in Objs : fde[o].list \in {"closed", "aged"} /\ fde[o].fd = d
            THEN "closed" ELSE kernel[d]]
    /\ fde' = [o \in Objs |->
            CASE fde[o].list = "aged" -> [fde[o] EXCEPT !.list = "recycled", !.fd = NoFd]
              [] fde[o].list = "closed" -> [fde[o] EXCEPT !.list = "aged", !.fd = NoFd]
              [] OTHER -> fde[o]]
    /\ number_fd' = number_fd - Cardinality({o \in Objs : fde[o].list = "aged"})
    /\ UNCHANGED <<accepting, backlog, calls, asked, answered, trouble>>

-----------------------------------------------------------------------------
(* op_connect_callback takes the callback out of the conndata and the timeout off   *)
(* before it calls; `before` is how often this attempt was answered already.         *)
Disarm(D, o) == [D EXCEPT ![o].connect = "fired", ![o].timer = FALSE]

op_connect_callback(D, o, kern, before) ==
    IF D[o].connect # "armed"
    THEN fde' = D /\ kernel' = kern /\ UNCHANGED <<asked, answered>>
    ELSE /\ answered' = [answered EXCEPT ![o] = before + 1]
         /\ asked' = [asked EXCEPT ![o] = FALSE]
         /\ kernel' = kern
         /\ \E react \in {"keep", "close"} :
                fde' = IF react = "close" THEN op_close(Disarm(D, o), o) ELSE Disarm(D, o)

(* What a caller of op_connect_* starts from: an open socket that is not connecting. *)
CanConnect(o) ==
    /\ accepting = Idle /\ calls < MaxAttempts
    /\ fde[o].open /\ ~fde[o].listen /\ fde[o].connect # "armed"
    /\ fde[o].fd \in Fds /\ kernel[fde[o].fd] \in {"open", "refused"}

Attempt(o) == [fde EXCEPT ![o].connect = "armed"]

(* What follows the allocation of the conndata in both: bind() may fail; the timeout *)
(* is set; connect() answers at once, or the answer is left to op_connect_outcome.   *)
StartConnect(o) ==
    LET d == fde[o].fd
        timed == [Attempt(o) EXCEPT ![o].timer = TRUE]
        waiting == [timed EXCEPT ![o].outcome = TRUE]
    IN  \/ op_connect_callback(Attempt(o), o, kernel, 0)              \* OP_ERR_BIND
        \/ op_connect_callback(timed, o, [kernel EXCEPT ![d] = "connected"], 0)
        \/ op_connect_callback(timed, o, [kernel EXCEPT ![d] = "refused"], 0)
        \/ /\ fde' = waiting /\ kernel' = [kernel EXCEPT ![d] = "connecting"]
           /\ asked' = [asked EXCEPT ![o] = TRUE] /\ answered' = [answered EXCEPT ![o] = 0]

op_connect_tcp(o) ==
    /\ CanConnect(o)
    /\ StartConnect(o)
    /\ calls' = calls + 1
    /\ UNCHANGED <<number_fd, accepting, backlog, trouble>>

(* op_connect_sctp refuses a wrong number of addresses, and without HAVE_LIBSCTP      *)
(* every call, before there is a conndata to hold the callback: op_connect_callback   *)
(* finds none to call, and the attempt is never answered.                          *)
op_connect_sctp(o) ==
    /\ CanConnect(o)
    /\ \/ \* dest_len out of range, or no SCTP
          /\ UNCHANGED <<fde, kernel, answered>>
          /\ asked' = [asked EXCEPT ![o] = TRUE] /\ trouble' = trouble \cup {"silent"}
       \/ /\ Sctp /\ UNCHANGED trouble
          /\ \/ \* not an SCTP socket, or no usable address
                op_connect_callback(Attempt(o), o, kernel, 0)
             \/ fde[o].sctp /\ StartConnect(o)
    /\ calls' = calls + 1
    /\ UNCHANGED <<number_fd, accepting, backlog>>

(* The network answers a connect() in progress.                                    *)
NetworkAnswers ==
    /\ \E d \in Fds, r \in {"connected", "refused"} :
        /\ kernel[d] = "connecting"
        /\ kernel' = [kernel EXCEPT ![d] = r]
    /\ UNCHANGED <<fde, number_fd, accepting, backlog, calls, asked, answered, trouble>>

(* op_connect_outcome, dispatched once, with its handler taken off.                 *)
op_connect_outcome(o) ==
    /\ accepting = Idle
    /\ fde[o].outcome /\ fde[o].fd \in Fds
    /\ kernel[fde[o].fd] \in {"connected", "refused"}
    /\ op_connect_callback([fde EXCEPT ![o].outcome = FALSE], o, kernel, answered[o])
    /\ UNCHANGED <<number_fd, accepting, backlog, calls, trouble>>

(* A bug for comparison: the timeout is unlinked and nobody is told.                *)
TimeoutForgets(o) ==
    /\ accepting = Idle
    /\ fde[o].timer
    /\ fde' = [fde EXCEPT ![o].timer = FALSE]
    /\ UNCHANGED <<kernel, number_fd, accepting, backlog, calls, asked, answered, trouble>>

(* op_checktimeouts unlinks the timeout, then calls op_connect_timeout.              *)
op_connect_timeout(o) ==
    /\ accepting = Idle
    /\ fde[o].timer
    /\ op_connect_callback([fde EXCEPT ![o].timer = FALSE], o, kernel, answered[o])
    /\ UNCHANGED <<number_fd, accepting, backlog, calls, trouble>>

-----------------------------------------------------------------------------
(* op_listen on a socket of the caller, after op_bind.                              *)
op_listen(o) ==
    /\ accepting = Idle
    /\ fde[o].open /\ fde[o].connect = "none" /\ fde[o].fd \in Fds
    /\ kernel[fde[o].fd] = "open"
    /\ fde' = [fde EXCEPT ![o].listen = TRUE]
    /\ kernel' = [kernel EXCEPT ![fde[o].fd] = "listening"]
    /\ UNCHANGED <<number_fd, accepting, backlog, calls, asked, answered, trouble>>

op_accept_tcp(o) ==
    /\ accepting = Idle /\ calls < MaxAttempts
    /\ fde[o].open /\ fde[o].listen /\ ~fde[o].accept
    /\ fde' = [fde EXCEPT ![o].accept = TRUE]
    /\ accepting' = [on |-> o, batch |-> 0]
    /\ calls' = calls + 1
    /\ UNCHANGED <<kernel, number_fd, backlog, asked, answered, trouble>>

(* The event loop finds the listener readable and runs op_accept_tryaccept.          *)
AcceptReady(o) ==
    /\ accepting = Idle
    /\ fde[o].tryaccept /\ fde[o].fd \in Fds
    /\ backlog > 0 \/ kernel[fde[o].fd] = "shut"
    /\ fde' = [fde EXCEPT ![o].tryaccept = FALSE]
    /\ accepting' = [on |-> o, batch |-> 0]
    /\ UNCHANGED <<kernel, number_fd, backlog, calls, asked, answered, trouble>>

ConnectionArrives ==
    /\ backlog < MaxBacklog /\ \E d \in Fds : kernel[d] = "listening"
    /\ backlog' = backlog + 1
    /\ UNCHANGED <<kernel, fde, number_fd, accepting, calls, asked, answered, trouble>>

(* op_accept_tryaccept returns to the loop with its interest registered.             *)
Yield(o) == fde' = [fde EXCEPT ![o].tryaccept = TRUE] /\ accepting' = Idle

(* op_accept_tryaccept, one turn of its loop: the batch is full, accept() fails, or  *)
(* a connection gets an object and is handed to the callbacks.                     *)
Accepted(o) ==
    \E d \in FreeFds : \E n \in add_fd(fde, d) \ {o}, nbOk \in BOOLEAN, react \in Reactions :
        LET D == op_open(fde, n, d)
            gone == CASE fde[n].open -> D
                      [] ~nbOk -> op_close(D, n)
                      [] react = "closeNew" -> op_close(D, n)
                      [] react = "closeListener" -> op_close(D, o)
                      [] OTHER -> D
            called == ~fde[n].open /\ nbOk
        IN  /\ backlog' = backlog - 1
            /\ fde' = gone
            /\ kernel' = [IF called /\ react = "closeListener" THEN CloseInKernel(D, o)
                          ELSE kernel
                          EXCEPT ![d] = IF fde[n].open THEN "closed" ELSE "open"]
            /\ number_fd' = number_fd + Opened(fde, n)
            /\ trouble' = trouble \cup Clash(fde, n)
                            \cup (IF called /\ ~fde[o].accept THEN {"null"} ELSE {})
            /\ accepting' = [accepting EXCEPT !.batch = @ + 1]

op_accept_tryaccept ==
    LET o == accepting.on
        kept == UNCHANGED <<kernel, number_fd, backlog, trouble>>
    IN  /\ accepting # Idle
        /\ \/ accepting.batch >= BatchMax /\ Yield(o) /\ kept
           \/ /\ accepting.batch < BatchMax
              /\ \/ /\ kernel[fde[o].fd] = "shut"                    \* EINVAL
                    /\ accepting' = Idle /\ UNCHANGED fde /\ kept
                 \/ /\ kernel[fde[o].fd] # "shut"                    \* EAGAIN, EMFILE, ...
                    /\ backlog = 0 \/ FreeFds = {}
                    /\ Yield(o) /\ kept
                 \/ kernel[fde[o].fd] # "shut" /\ backlog > 0 /\ Accepted(o)
        /\ UNCHANGED <<calls, asked, answered>>

Next ==
    \/ op_socket \/ op_socketpair \/ op_pipe \/ op_recv_fd_buf \/ UserClose
    \/ op_close_pending_fds \/ NetworkAnswers \/ ConnectionArrives \/ op_accept_tryaccept
    \/ \E o \in Objs :
        \/ op_connect_tcp(o) \/ op_connect_sctp(o) \/ op_connect_outcome(o)
        \/ op_connect_timeout(o) \/ op_listen(o) \/ op_accept_tcp(o) \/ AcceptReady(o)

Spec == Init /\ [][Next]_vars

-----------------------------------------------------------------------------
(* Every open object holds a number of its own that the kernel has open, no two      *)
(* objects hold the same one, and number_fd counts the objects that are in use or    *)
(* wait in closed_list and closed_list_aged (op_open, op_close,                    *)
(* op_close_pending_fds).                                                        *)
TableMatchesKernel ==
    /\ \A o \in Objs : fde[o].open => fde[o].fd \in Fds /\ kernel[fde[o].fd] # "closed"
    /\ \A o, p \in Objs : o # p /\ fde[o].fd # NoFd => fde[o].fd # fde[p].fd
    /\ number_fd = Cardinality({o \in Objs : fde[o].list \in {"table", "closed", "aged"}})

(* op_open never finds the object of a number the kernel just handed out open: its    *)
(* assertion slop_assert(!IsFDOpen(F)) holds.                                     *)
OpenFindsClosed == "clash" \notin trouble

(* A connect attempt is answered at most once, however its timeout, the outcome and   *)
(* the reactions of the callback fall (op_connect_callback), and never after the     *)
(* descriptor was closed: a closed object has no timeout and no conndata left.       *)
AnsweredOnce ==
    \A o \in Objs :
        /\ answered[o] <= 1
        /\ fde[o].connect = "armed" => fde[o].open /\ answered[o] = 0
        /\ fde[o].timer => fde[o].open

(* A listener that accepts is never deaf: outside its accept loop its interest is     *)
(* registered (op_accept_tryaccept), unless it was closed; and the loop never looks   *)
(* for the callbacks of a listener that a callback closed.                         *)
ListenerHears ==
    /\ "null" \notin trouble
    /\ \A o \in Objs : fde[o].open /\ fde[o].accept /\ accepting.on # o => fde[o].tryaccept

(* An attempt in progress is answered or its descriptor closed.                     *)
ConnectAnswered == \A o \in Objs : []<>~asked[o]
=============================================================================
