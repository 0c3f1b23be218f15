------------------------------ MODULE MCTimers ------------------------------
(* Small instances of Events, Timeouts and RateLimit; a behaviour is one of one *)
(* of them.                                                                   *)
(*   run:      op_event_run from the main loop, two entries, one module;        *)
(*   timerfd:  timers of the backend, two entries, one module;                  *)
(*   notified: ... timers whose notifications carry the entry, two entries;      *)
(*   runFair, timerfdFair, notifiedFair: the same without op_event_update, and     *)
(*             with the main loop running on;                                    *)
(*   heap, purged: the heap on its own, six entries; four, with a module;        *)
(*   alone:    socket timeouts, three FDEs, used by the I/O thread only;         *)
(*   shared:   ... two FDEs, used by a worker thread as well;                   *)
(*   bucket:   a rate limiter with a burst of two, two tokens per six units of    *)
(*             time, and costs that wrap; window: a meter of five units of time   *)
(*             in two buckets.                                                *)
(* The recurring form []<>~P says the same as P ~> ~P.                         *)
EXTENDS Integers, Sequences, FiniteSets

CONSTANTS None, Core, m1, f1, f2, f3, Io, w1, e1, e2

VARIABLES
    scenario,
    heap, hidx, when, freq, dead, owner, alloc, timer, fired, pc, cur,
    open, set, due, total, tev, live, call, iopc, scan, dispatch,
    rl, now, calls, told

eventVars == <<heap, hidx, when, freq, dead, owner, alloc, timer, fired, pc, cur>>
timeoutVars == <<open, set, due, total, tev, live, call, iopc, scan, dispatch>>
limitVars == <<rl, now, calls, told>>

Run ==
    INSTANCE Events WITH
        Entries <- {1, 2}, Owners <- {Core, m1}, Delays <- {1, 2}, Ish <- {}, Updates <- {1},
        SelfPurge <- FALSE, Native <- "none", SchedFails <- FALSE, Tidy <- TRUE,
        MaxLate <- 1, MaxDelay <- 3, Keys <- {}

Timerfd ==
    INSTANCE Events WITH
        Entries <- {1, 2}, Owners <- {Core, m1}, Delays <- {2}, Ish <- {3}, Updates <- {1},
        SelfPurge <- FALSE, Native <- "timerfd", SchedFails <- TRUE, Tidy <- TRUE,
        MaxLate <- 1, MaxDelay <- 3, Keys <- {}

Notified ==
    INSTANCE Events WITH
        Entries <- {1, 2}, Owners <- {Core, m1}, Delays <- {1, 2}, Ish <- {}, Updates <- {1},
        SelfPurge <- FALSE, Native <- "notified", SchedFails <- TRUE, Tidy <- TRUE,
        MaxLate <- 1, MaxDelay <- 3, Keys <- {}

RunFair ==
    INSTANCE Events WITH
        Entries <- {1, 2}, Owners <- {Core, m1}, Delays <- {1, 2}, Ish <- {3}, Updates <- {},
        SelfPurge <- FALSE, Native <- "none", SchedFails <- FALSE, Tidy <- TRUE,
        MaxLate <- 1, MaxDelay <- 3, Keys <- {}

TimerfdFair ==
    INSTANCE Events WITH
        Entries <- {1, 2}, Owners <- {Core, m1}, Delays <- {1, 2}, Ish <- {3}, Updates <- {},
        SelfPurge <- FALSE, Native <- "timerfd", SchedFails <- FALSE, Tidy <- TRUE,
        MaxLate <- 1, MaxDelay <- 3, Keys <- {}

NotifiedFair ==
    INSTANCE Events WITH
        Entries <- {1, 2}, Owners <- {Core, m1}, Delays <- {1, 2}, Ish <- {}, Updates <- {},
        SelfPurge <- FALSE, Native <- "notified", SchedFails <- FALSE, Tidy <- TRUE,
        MaxLate <- 1, MaxDelay <- 3, Keys <- {}

Heap ==
    INSTANCE Events WITH
        Entries <- 1 .. 6, Owners <- {Core}, Delays <- {}, Ish <- {}, Updates <- {},
        SelfPurge <- FALSE, Native <- "none", SchedFails <- FALSE, Tidy <- TRUE,
        MaxLate <- 0, MaxDelay <- 3, Keys <- {0, 1}

Purged ==
    INSTANCE Events WITH
        Entries <- 1 .. 4, Owners <- {Core, m1}, Delays <- {}, Ish <- {}, Updates <- {},
        SelfPurge <- FALSE, Native <- "none", SchedFails <- FALSE, Tidy <- TRUE,
        MaxLate <- 0, MaxDelay <- 3, Keys <- {0, 1}

Alone == INSTANCE Timeouts WITH Fdes <- {f1, f2, f3}, Workers <- {}, Evs <- {e1, e2}
Shared == INSTANCE Timeouts WITH Fdes <- {f1, f2}, Workers <- {w1}, Evs <- {e1, e2}

Bucket ==
    INSTANCE RateLimit WITH
        Use <- "bucket", Capacity <- 2, RatePerSec <- 2, Second <- 6, Scale <- 4, Word <- 16,
        Window <- 0, NBuckets <- 0, Counts <- {2, 5}, Steps <- {1, 2, 5}, Start <- 0, MaxTime <- 8,
        MaxCalls <- 3

Window ==
    INSTANCE RateLimit WITH
        Use <- "window", Capacity <- 0, RatePerSec <- 0, Second <- 6, Scale <- 4, Word <- 16,
        Window <- 5, NBuckets <- 2, Counts <- {1, 2}, Steps <- {1, 3}, Start <- 5, MaxTime <- 13,
        MaxCalls <- 3

ASSUME
    /\ Run!EventsAssumption /\ Timerfd!EventsAssumption /\ Heap!EventsAssumption /\ Purged!EventsAssumption
    /\ Notified!EventsAssumption /\ NotifiedFair!EventsAssumption
    /\ RunFair!EventsAssumption /\ TimerfdFair!EventsAssumption
    /\ Alone!TimeoutsAssumption /\ Shared!TimeoutsAssumption
    /\ Bucket!RateLimitAssumption /\ Window!RateLimitAssumption

In(s) == scenario = s

(* The variables of the components that a behaviour is not about.              *)
NoEvents ==
    /\ heap = None /\ hidx = None /\ when = None /\ freq = None /\ dead = None
    /\ owner = None /\ alloc = None /\ timer = None /\ fired = None /\ pc = None /\ cur = None

NoTimeouts ==
    /\ open = None /\ set = None /\ due = None /\ total = None /\ tev = None
    /\ live = None /\ call = None /\ iopc = None /\ scan = None /\ dispatch = None

NoLimit == rl = None /\ now = None /\ calls = None /\ told = None

Init ==
    \/ NoTimeouts /\ NoLimit
                  /\ \/ In("run") /\ Run!Init
                     \/ In("timerfd") /\ Timerfd!Init
                     \/ In("notified") /\ Notified!Init
                     \/ In("notifiedFair") /\ NotifiedFair!Init
                     \/ In("runFair") /\ RunFair!Init
                     \/ In("timerfdFair") /\ TimerfdFair!Init
                     \/ In("heap") /\ Heap!Init
                     \/ In("purged") /\ Purged!Init
    \/ NoEvents /\ NoLimit
                /\ \/ In("alone") /\ Alone!Init
                   \/ In("shared") /\ Shared!Init
    \/ NoEvents /\ NoTimeouts
                /\ \/ In("bucket") /\ Bucket!Init
                   \/ In("window") /\ Window!Init

EventsNext ==
    \/ In("run") /\ Run!Next
    \/ In("timerfd") /\ Timerfd!Next
    \/ In("notified") /\ Notified!Next
    \/ In("notifiedFair") /\ NotifiedFair!Next
    \/ In("runFair") /\ RunFair!Next
    \/ In("timerfdFair") /\ TimerfdFair!Next
    \/ In("heap") /\ Heap!HeapNext
    \/ In("purged") /\ Purged!HeapNext

TimeoutsNext ==
    \/ In("alone") /\ Alone!Next
    \/ In("shared") /\ Shared!Next

LimitNext ==
    \/ In("bucket") /\ Bucket!Next
    \/ In("window") /\ Window!Next

Next ==
    /\ \/ EventsNext /\ UNCHANGED <<timeoutVars, limitVars>>
       \/ TimeoutsNext /\ UNCHANGED <<eventVars, limitVars>>
       \/ LimitNext /\ UNCHANGED <<eventVars, timeoutVars>>
    /\ UNCHANGED scenario

Loop ==
    \/ In("runFair") /\ RunFair!Loop
    \/ In("timerfdFair") /\ TimerfdFair!Loop
    \/ In("notifiedFair") /\ NotifiedFair!Loop

TimePasses ==
    \/ In("runFair") /\ RunFair!TimePasses
    \/ In("timerfdFair") /\ TimerfdFair!TimePasses
    \/ In("notifiedFair") /\ NotifiedFair!TimePasses

InEvents == UNCHANGED <<timeoutVars, limitVars>>
InAlone == In("alone") /\ UNCHANGED <<eventVars, limitVars>>

(* The main loop goes on, or the call it is in; time passes, and timeouts are       *)
(* checked again.                                                             *)
Runs == (InEvents /\ Loop) \/ (InAlone /\ Alone!InCall(Io))
Recurs == (InEvents /\ TimePasses) \/ (InAlone /\ Alone!BeginCheck)

allVars == <<eventVars, timeoutVars, limitVars>>
(* The fairness of Events' and of Timeouts' FairSpec.  A behaviour stays in one     *)
(* scenario, so fairness of a disjunction over the scenarios is fairness in each.   *)
Spec ==
    /\ Init /\ [][Next]_<<scenario, allVars>>
    /\ WF_allVars(Runs) /\ SF_allVars(Recurs)
    /\ SF_allVars(InAlone /\ Alone!HandlerReturns)
    /\ WF_allVars(InAlone /\ Alone!op_checktimeouts /\ iopc # "user")

-----------------------------------------------------------------------------
(* The properties of the components, each where it holds.                      *)

(* The heap is sound whatever callbacks and users do: keys are in heap order    *)
(* and hidx tells where each entry is (heap_remove, heap_sift_up,               *)
(* heap_sift_down), it holds exactly the allocated entries (op_event_run,       *)
(* op_event_purge_module), and no entry is freed while its callback runs        *)
(* (op_event_delete marks it).                                                 *)
HeapSound ==
    /\ In("run") => /\ Run!TypeOK /\ Run!HeapSound
                    /\ Run!HeapHoldsAllocated /\ Run!RunningIsAllocated
    /\ In("timerfd") => /\ Timerfd!TypeOK /\ Timerfd!HeapSound
                        /\ Timerfd!HeapHoldsAllocated /\ Timerfd!RunningIsAllocated
    /\ In("notified") => /\ Notified!TypeOK /\ Notified!HeapSound
                         /\ Notified!HeapHoldsAllocated /\ Notified!RunningIsAllocated
    /\ In("heap") => Heap!HeapSound /\ Heap!HeapHoldsAllocated
    /\ In("purged") => Purged!HeapSound /\ Purged!HeapHoldsAllocated

(* timeout_total_count counts the linked timeouts (op_settimeout,               *)
(* op_checktimeouts).  When only the I/O thread calls op_settimeout, there is    *)
(* an event for op_checktimeouts while there is a timeout, and never two.       *)
TimeoutsCovered ==
    /\ In("alone") => /\ Alone!TypeOK /\ Alone!CountIsExact
                      /\ Alone!TimerCoversTimeouts /\ Alone!NoSecondTimer
    /\ In("shared") => Shared!TypeOK /\ Shared!CountIsExact


(* op_ratelimit_check_n never charges more than a full bucket and what the rate     *)
(* adds, nor grants more unless a cost wraps, and op_wm_count counts the events of    *)
(* its window, each once.                                                      *)
LimitKept ==
    /\ In("bucket") => Bucket!TypeOK /\ Bucket!RatesExact
    /\ In("window") => Window!TypeOK /\ Window!RatesExact

(* op_event_run returns with nothing due left in the heap, and op_lib_loop does    *)
(* not sleep past the next deadline.                                           *)
NothingDueLeft ==
    [][In("run") => /\ pc = "run" /\ pc' = "select" => \A e \in alloc : dead[e] \/ when[e] > 0
                    /\ pc = "select" /\ pc' = "run" => \A e \in alloc : dead[e] \/ when'[e] >= -1
      ]_eventVars

Scheduled(e) ==
    scenario \in {"runFair", "timerfdFair", "notifiedFair"} /\ e \in alloc /\ ~dead[e] /\ ~(pc = "callback" /\ cur = e)
Unreaped(e) == In("runFair") /\ e \in alloc /\ dead[e]
Overdue(f) == In("alone") /\ due[f]

(* Every scheduled entry runs, by op_event_run or by its timer, unless it is     *)
(* deleted or purged; op_event_run reaps what op_event_delete has marked; a       *)
(* socket timeout that has expired is handled (op_checktimeouts), removed, set    *)
(* anew or its FDE closed.  The FDEs are interchangeable.                       *)
EventuallyHandled ==
    /\ []<>~(Scheduled(1) \/ Overdue(f1)) /\ []<>~Scheduled(2)
    /\ []<>~Unreaped(1) /\ []<>~Unreaped(2)
=============================================================================
