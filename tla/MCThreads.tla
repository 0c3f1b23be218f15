------------------------------ MODULE MCThreads ------------------------------
(* The threads that sleep until somebody wakes them: small instances of          *)
(* ThreadPool and Epoll; a behaviour is one of one of them.                      *)
(* The pool has two workers and two items submitted from outside, on one of       *)
(* three machines:                                                              *)
(*   ordered:  a store is visible at once; one item submits a follow-up;          *)
(*   buffered: it may stay in the worker's store buffer past later loads;         *)
(*   windows:  the pool's code for Windows.                                      *)
(* Of epoll:                                                                    *)
(*   inline:   the I/O thread calls epoll_wait itself; two FDEs that are closed   *)
(*             and opened again, read interest; used: ... one FDE, read and write  *)
(*             interest, a worker;                                               *)
(*   threaded: the poll thread is started and stopped; one FDE, read interest, a   *)
(*             worker, a ring of one entry;                                       *)
(*   steady:   the poll thread is started and stays; two FDEs with a ring that     *)
(*             has room for both, op_select without a timeout.                    *)
EXTENDS ThreadPool, FiniteSets, TLC

CONSTANTS
    a, b, c, d,
    f1, f2, w1,
    Machines    \* the instances to look at

UserRoots == {a, b, d}
AllItems == {a, b, c, d}
OneFollowUp == [i \in AllItems |-> IF i = a THEN c ELSE None]

VARIABLES
    machine,
    handler, pflags, kern, ready, life, gen, active, stopping, ppc,
    pbatch, any, ring, notify, iopc, iobatch, cur, held       \* of Epoll

Ordered == INSTANCE ThreadPool WITH StoreBuffer <- FALSE
Buffered == INSTANCE ThreadPool WITH StoreBuffer <- TRUE

Inline ==
    INSTANCE Epoll WITH
        Fdes <- {f1, f2}, Kinds <- {"r"}, Registers <- BOOLEAN, Workers <- {},
        EventsMax <- 2, RingCap <- 1, MaxGen <- 1,
        FiniteDelay <- TRUE, MayThread <- FALSE, MayStop <- FALSE

Used ==
    INSTANCE Epoll WITH
        Fdes <- {f1}, Kinds <- {"r", "w"}, Registers <- BOOLEAN, Workers <- {w1},
        EventsMax <- 1, RingCap <- 1, MaxGen <- 1,
        FiniteDelay <- TRUE, MayThread <- FALSE, MayStop <- FALSE

Threaded ==
    INSTANCE Epoll WITH
        Fdes <- {f1}, Kinds <- {"r"}, Registers <- BOOLEAN, Workers <- {w1},
        EventsMax <- 1, RingCap <- 1, MaxGen <- 0,
        FiniteDelay <- TRUE, MayThread <- TRUE, MayStop <- TRUE

Steady ==
    INSTANCE Epoll WITH
        Fdes <- {f1, f2}, Kinds <- {"r"}, Registers <- {TRUE}, Workers <- {},
        EventsMax <- 2, RingCap <- 2, MaxGen <- 0,
        FiniteDelay <- FALSE, MayThread <- TRUE, MayStop <- FALSE

ASSUME
    /\ Inline!EpollAssumption /\ Used!EpollAssumption
    /\ Threaded!EpollAssumption /\ Steady!EpollAssumption

In(m) == machine = m
epollVars == <<handler, pflags, kern, ready, life, gen, active, stopping, ppc,
               pbatch, any, ring, notify, iopc, iobatch, cur, held>>

(* Epoll has no state in a behaviour of the pool, and the pool is as created in       *)
(* one of epoll.                                                                *)
NoEpoll ==
    /\ handler = None /\ pflags = None /\ kern = None /\ ready = None /\ life = None /\ gen = None
    /\ active = None /\ stopping = None /\ ppc = None /\ pbatch = None /\ any = None
    /\ ring = None /\ notify = None /\ iopc = None /\ iobatch = None /\ cur = None /\ held = None

MCInit ==
    /\ machine \in Machines
    /\ \/ machine \in {"ordered", "buffered"} /\ Init /\ NoEpoll
       \/ In("windows") /\ WinInit /\ NoEpoll
       \/ /\ Init
          /\ \/ In("inline") /\ Inline!Init
             \/ In("used") /\ Used!Init
             \/ In("threaded") /\ Threaded!Init
             \/ In("steady") /\ Steady!Init

(* Bound: the items the user submits.                                           *)
UserItems == IF In("buffered") THEN {b, d} ELSE {a, b}

PoolNext ==
    /\ \/ In("ordered") /\ Ordered!Next
       \/ In("buffered") /\ Buffered!Next
       \/ In("windows") /\ WinNext
    /\ Roots \ UserItems \subseteq todo'

(* With every FDE closed, an op_select without a timeout waits for ever.           *)
Rest == In("steady") /\ (\A f \in {f1, f2} : life[f] # "open") /\ UNCHANGED epollVars

EpollNext ==
    \/ In("inline") /\ Inline!Next
    \/ In("used") /\ Used!Next
    \/ In("threaded") /\ Threaded!Next
    \/ In("steady") /\ Steady!Next
    \/ Rest

MCNext ==
    /\ \/ PoolNext /\ UNCHANGED epollVars
       \/ EpollNext /\ UNCHANGED vars
    /\ UNCHANGED machine

(* A worker's next step, the timeout of its poll() or of WaitForSingleObject      *)
(* included, and the creating thread's.                                          *)
Worker(w) ==
    \/ In("ordered") /\ Ordered!worker_entry(w)
    \/ In("buffered") /\ Buffered!worker_entry(w)
    \/ machine \in {"ordered", "buffered"} /\ (PollTimeout(w) \/ submit_to_worker(w))
    \/ In("windows") /\ (worker_entry_w32(w) \/ submit_to_worker_w32(w))

Creator ==
    \/ machine \in {"ordered", "buffered"} /\ submit_to_worker(0)
    \/ In("windows") /\ (op_tpool_create \/ submit_to_worker_w32(0))
    \/ mpc # "open" /\ op_tpool_shutdown

(* Every thread of the pool is scheduled, and a call of op_tpool_shutdown, once   *)
(* begun, goes on; nobody has to submit or to call it, and a store may stay in    *)
(* its buffer until the worker's next atomic read-modify-write.  The fairness of  *)
(* epoll is that of its FairSpec.                                                *)
MCSpec ==
    /\ MCInit /\ [][MCNext]_<<machine, vars, epollVars>>
    /\ \A w \in Workers : WF_vars(Worker(w))
    /\ WF_vars(Creator)
    /\ WF_epollVars(In("steady") /\ Steady!IoThread)
    /\ WF_epollVars(In("steady") /\ Steady!PollThread)

-----------------------------------------------------------------------------
(* The pool's other properties are ThreadPool's own.                            *)

(* Where stores are ordered, a worker that has cleared `awake` and looked at     *)
(* its inbox again never sleeps on work (worker_entry, submit_to_worker); nor     *)
(* does one on Windows, whose event every submission sets.                       *)
NoMissedWakeupOrdered == ~In("buffered") => NoMissedWakeup

(* F->pflags matches the handlers whatever threads and handlers do, and the      *)
(* ring stays within its bounds (op_setselect_epoll, ep_dispatch, ep_rearm,      *)
(* ep_ring_push).                                                               *)
FlagsConsistent ==
    /\ In("inline") => Inline!TypeOK /\ Inline!FlagsMatchHandlers
    /\ In("used") => Used!TypeOK /\ Used!FlagsMatchHandlers
    /\ In("threaded") => Threaded!TypeOK /\ Threaded!FlagsMatchHandlers
    /\ In("steady") => Steady!TypeOK

(* Registered interest is armed in the kernel unless an event of the fd is        *)
(* under way (op_setselect_epoll, ep_ctl), for fds with one kind of interest      *)
(* and a poll thread that is not stopped.                                        *)
InterestArmed ==
    /\ In("inline") => Inline!InterestArmed
    /\ In("steady") => Steady!InterestArmed

(* A handler is called for an event of the descriptor the FDE stands for now      *)
(* (op_close_pending_fds recycles an FDE two op_selects after its op_close).      *)
FreshDispatch ==
    /\ In("inline") => Inline!FreshDispatch
    /\ In("used") => Used!FreshDispatch

(* The I/O thread never sleeps on a filled ring (ep_poll_thread_fn,               *)
(* ep_select_threaded).                                                          *)
RingIsAnnounced ==
    /\ In("threaded") => Threaded!RingIsAnnounced
    /\ In("steady") => Steady!RingIsAnnounced

Waits(f) == In("steady") /\ Steady!Waits(f, "r")
(* A condition that a registered handler waits for is delivered, through the      *)
(* poll thread and the ring.  The FDEs are interchangeable, and []<>~P says        *)
(* the same as P ~> ~P.                                                          *)
Delivered == []<>~Waits(f1)
=============================================================================
