------------------------------- MODULE Async -------------------------------
(***************************************************************************)
(* src/async.c: op_async_submit hands work to the thread pool; a worker     *)
(* that has run it appends a completion node to a linked queue (exchange    *)
(* the tail, link the old tail, write the eventfd); the main thread's       *)
(* handler reads the eventfd and drains the queue, calling the done_fns.    *)
(*                                                                          *)
(* The pool is the set of tasks it holds: ThreadPool shows that each is run *)
(* exactly once, at the latest by op_tpool_shutdown on the main thread.  A  *)
(* completion node is named by its task.  work_fn and done_fn are user      *)
(* code: both may submit more.                                              *)
(***************************************************************************)
EXTENDS Integers, Sequences, FiniteSets

CONSTANTS
    Tasks,
    Silent,      \* the tasks whose done_fn is NULL
    Workers,
    Main,
    Sentinel,    \* the node op_async_init allocates
    None,
    Fds,         \* descriptor numbers
    MaxFail,     \* bound: how often op_async_init fails
    Reenter,     \* bound: how deep a done_fn may call op_async_drain
    LateSubmit,  \* may a done_fn submit while op_async_shutdown drains?
    Restart      \* when op_async_init may follow op_async_shutdown (MayInit)

(* What the constants have to satisfy.                                      *)
AsyncAssumption ==
    /\ Silent \subseteq Tasks
    /\ Main \notin Workers
    /\ Sentinel \notin Tasks /\ None \notin Tasks \cup {Sentinel} \cup Fds
    /\ MaxFail \in Nat /\ Reenter \in Nat
    /\ LateSubmit \in BOOLEAN /\ Restart \in {"never", "flushed", "any"}

Nodes == Tasks \cup {Sentinel}
Threads == Workers \cup {Main}

VARIABLES
    todo,      \* tasks not yet submitted
    up,        \* async_pool # NULL
    pool,      \* tasks the pool holds
    sub,       \* op_async_submit: counted, not yet in the pool
    pending,   \* async_pending_count
    wpc,       \* where each thread is in async_worker_fn
    wtask,     \* its task
    wold,      \* async_post_completion's old_tail
    alive,     \* nodes that are allocated
    next,      \* node->next
    head, tail,
    efd,       \* the eventfd's counter is not zero
    armed,     \* the read handler is registered
    mpc,       \* where the main thread is
    drains,    \* its calls of op_async_drain, the innermost first: the node each is delivering
    called,    \* how often each task's done_fn has been called
    nfd,       \* async_notify_fd
    kopen,     \* descriptors open in the kernel
    closing,   \* descriptors in commio's closed_list
    aged,      \* ... and in closed_list_aged
    fails, shut

workVars == <<wpc, wtask, wold>>
queueVars == <<alive, next, tail>>
fdVars == <<nfd, kopen, closing, aged>>
lifeVars == <<up, fails, shut>>
vars == <<todo, up, pool, sub, pending, wpc, wtask, wold, alive, next, head, tail,
          efd, armed, mpc, drains, called, nfd, kopen, closing, aged, fails, shut>>

Init ==
    /\ todo = Tasks /\ up = FALSE /\ pool = {} /\ pending = 0
    /\ sub = [t \in Threads |-> None]
    /\ wpc = [t \in Threads |-> "idle"]
    /\ wtask = [t \in Threads |-> None]
    /\ wold = [t \in Threads |-> None]
    /\ alive = {} /\ next = [n \in Nodes |-> None]
    /\ head = None /\ tail = None
    /\ efd = FALSE /\ armed = FALSE
    /\ mpc = "loop" /\ drains = <<>> /\ called = [t \in Tasks |-> 0]
    /\ nfd = None /\ kopen = {} /\ closing = {} /\ aged = {}
    /\ fails = 0 /\ shut = FALSE

-----------------------------------------------------------------------------
(* op_async_submit, from the event loop, a done_fn or a work_fn.             *)

(* The main thread is inside a done_fn.                                      *)
InDone == drains # <<>> /\ Head(drains) # None

(* Is thread t in user code that may submit?                                 *)
MaySubmit(t) ==
    /\ sub[t] = None
    /\ \/ t \in Workers /\ wpc[t] = "work"
       \/ t = Main /\ up /\ (mpc = "loop" \/ InDone)
       \/ t = Main /\ LateSubmit /\ mpc = "shutdrain" /\ InDone

(* Allocate the task and count it ...                                        *)
CountTask(t) ==
    /\ MaySubmit(t)
    /\ \E k \in todo :
          /\ todo' = todo \ {k}
          /\ sub' = [sub EXCEPT ![t] = k]
    /\ pending' = pending + 1
    /\ UNCHANGED <<lifeVars, pool, workVars, queueVars, head, efd, armed, mpc, drains, called, fdVars>>

(* ... and submit it to the pool.                                            *)
SubmitTask(t) ==
    /\ sub[t] # None /\ up
    /\ pool' = pool \cup {sub[t]}
    /\ sub' = [sub EXCEPT ![t] = None]
    /\ UNCHANGED <<todo, lifeVars, pending, workVars, queueVars, head, efd, armed, mpc, drains, called, fdVars>>

op_async_submit(t) == CountTask(t) \/ SubmitTask(t)

-----------------------------------------------------------------------------
(* async_worker_fn, on a worker, or on the main thread inside                *)
(* op_tpool_shutdown once the workers have been joined.                      *)

Goto(t, pc) == wpc' = [wpc EXCEPT ![t] = pc]

(* The pool calls async_worker_fn.                                           *)
RunTask(t) ==
    /\ wpc[t] = "idle"
    /\ t = Main => mpc = "join" /\ \A w \in Workers : wpc[w] = "exited"
    /\ \E k \in pool :
          /\ pool' = pool \ {k}
          /\ wtask' = [wtask EXCEPT ![t] = k]
    /\ Goto(t, "work")
    /\ UNCHANGED <<todo, lifeVars, sub, pending, wold, queueVars, head, efd, armed, mpc, drains, called, fdVars>>

(* work_fn has returned and there is no done_fn.                             *)
FinishSilent(t) ==
    /\ wpc[t] = "work" /\ sub[t] = None /\ wtask[t] \in Silent
    /\ pending' = pending - 1
    /\ Goto(t, "idle")
    /\ wtask' = [wtask EXCEPT ![t] = None]
    /\ UNCHANGED <<todo, lifeVars, pool, sub, wold, queueVars, head, efd, armed, mpc, drains, called, fdVars>>

(* async_post_completion: allocate the node and exchange the tail ...        *)
SwingTail(t) ==
    /\ wpc[t] = "work" /\ sub[t] = None /\ wtask[t] \notin Silent
    /\ alive' = alive \cup {wtask[t]}
    /\ next' = [next EXCEPT ![wtask[t]] = None]
    /\ wold' = [wold EXCEPT ![t] = tail]
    /\ tail' = wtask[t]
    /\ Goto(t, "link")
    /\ UNCHANGED <<todo, lifeVars, pool, sub, pending, wtask, head, efd, armed, mpc, drains, called, fdVars>>

(* ... old_tail->next = node ...                                             *)
LinkNode(t) ==
    /\ wpc[t] = "link"
    /\ next' = [next EXCEPT ![wold[t]] = wtask[t]]
    /\ wold' = [wold EXCEPT ![t] = None]
    /\ Goto(t, "notify")
    /\ UNCHANGED <<todo, lifeVars, pool, sub, pending, wtask, alive, head, tail, efd, armed, mpc, drains, called, fdVars>>

(* ... and write the eventfd.                                                *)
NotifyMain(t) ==
    /\ wpc[t] = "notify"
    /\ efd' = TRUE
    /\ wtask' = [wtask EXCEPT ![t] = None]
    /\ Goto(t, "idle")
    /\ UNCHANGED <<todo, lifeVars, pool, sub, pending, wold, queueVars, head, armed, mpc, drains, called, fdVars>>

async_post_completion(t) == SwingTail(t) \/ LinkNode(t) \/ NotifyMain(t)

async_worker_fn(t) == RunTask(t) \/ FinishSilent(t) \/ async_post_completion(t)

(* Inside op_tpool_shutdown a worker that finds nothing to do returns.       *)
WorkerExits(w) ==
    /\ mpc = "join" /\ wpc[w] = "idle"
    /\ Goto(w, "exited")
    /\ UNCHANGED <<todo, lifeVars, pool, sub, pending, wtask, wold, queueVars, head, efd, armed, mpc, drains, called, fdVars>>

-----------------------------------------------------------------------------
(* The main thread.  mpc: "loop" (op_select and other user code), "tick" (an *)
(* explicit op_async_drain), "handler", "join", "shutdrain", "close".        *)

MainIdle == mpc = "loop" /\ sub[Main] = None

(* async_notify_handler: the backend clears the registration when it calls   *)
(* the handler; read the counter, then drain.                                *)
async_notify_handler ==
    /\ MainIdle /\ armed /\ efd /\ nfd \in kopen
    /\ efd' = FALSE /\ armed' = FALSE
    /\ mpc' = "handler" /\ drains' = <<None>>
    /\ UNCHANGED <<todo, lifeVars, pool, sub, pending, workVars, queueVars, head, called, fdVars>>

(* op_async_drain called from the event loop ...                             *)
TickDrains ==
    /\ MainIdle /\ up
    /\ mpc' = "tick" /\ drains' = <<None>>
    /\ UNCHANGED <<todo, lifeVars, pool, sub, pending, workVars, queueVars, head, efd, armed, called, fdVars>>

(* ... or from a done_fn.                                                    *)
DoneDrains ==
    /\ InDone /\ sub[Main] = None /\ Len(drains) <= Reenter
    /\ drains' = <<None>> \o drains
    /\ UNCHANGED <<todo, lifeVars, pool, sub, pending, workVars, queueVars, head, efd, armed, mpc, called, fdVars>>

Delivering(n) == [drains EXCEPT ![1] = n]

(* A bug for comparison: the node itself is freed, not the old sentinel.     *)
DeliverFreesNode ==
    /\ drains # <<>> /\ Head(drains) = None
    /\ next[head] # None
    /\ head' = next[head]
    /\ alive' = alive \ {next[head]}
    /\ called' = [called EXCEPT ![next[head]] = @ + 1]
    /\ drains' = Delivering(next[head])
    /\ UNCHANGED <<todo, lifeVars, pool, sub, pending, workVars, next, tail, efd, armed, mpc, fdVars>>

(* One iteration of op_async_drain: advance the head, free the old sentinel  *)
(* and call done_fn.                                                         *)
Deliver ==
    /\ drains # <<>> /\ Head(drains) = None
    /\ next[head] # None
    /\ head' = next[head]
    /\ alive' = alive \ {head}
    /\ called' = [called EXCEPT ![next[head]] = @ + 1]
    /\ drains' = Delivering(next[head])
    /\ UNCHANGED <<todo, lifeVars, pool, sub, pending, workVars, next, tail, efd, armed, mpc, fdVars>>

(* done_fn returns: uncount, and clear the node, the new sentinel.           *)
DoneReturns ==
    /\ InDone /\ sub[Main] = None
    /\ pending' = pending - 1
    /\ drains' = Delivering(None)
    /\ UNCHANGED <<todo, lifeVars, pool, sub, workVars, queueVars, head, efd, armed, mpc, called, fdVars>>

(* A bug for comparison: the handler does not register itself again.         *)
ReturnUnarmed ==
    /\ drains # <<>> /\ Head(drains) = None
    /\ next[head] = None
    /\ drains' = Tail(drains)
    /\ mpc' = IF Len(drains) > 1 THEN mpc ELSE IF mpc = "shutdrain" THEN "close" ELSE "loop"
    /\ UNCHANGED <<todo, lifeVars, pool, sub, pending, workVars, queueVars, head, efd, armed, called, fdVars>>

(* The queue is empty: op_async_drain returns, and the handler re-arms.      *)
DrainReturns ==
    /\ drains # <<>> /\ Head(drains) = None
    /\ next[head] = None
    /\ drains' = Tail(drains)
    /\ mpc' = IF Len(drains) > 1 THEN mpc ELSE IF mpc = "shutdrain" THEN "close" ELSE "loop"
    /\ armed' = (armed \/ (mpc = "handler" /\ Len(drains) = 1))
    /\ UNCHANGED <<todo, lifeVars, pool, sub, pending, workVars, queueVars, head, efd, called, fdVars>>

op_async_drain == Deliver \/ DoneReturns \/ DrainReturns

-----------------------------------------------------------------------------
(* op_async_init and op_async_shutdown                                       *)

(* Never again, once op_select has closed what op_close left to it, or at     *)
(* any time.                                                                 *)
MayInit ==
    \/ ~shut
    \/ Restart = "any"
    \/ Restart = "flushed" /\ closing \cup aged = {}

(* eventfd() or op_open fails: everything is released again but async_tail.  *)
InitFails ==
    /\ MainIdle /\ ~up /\ MayInit /\ fails < MaxFail
    /\ tail' = Sentinel
    /\ head' = None
    /\ fails' = fails + 1
    /\ UNCHANGED <<todo, up, shut, pool, sub, pending, workVars, alive, next, efd, armed, mpc, drains, called, fdVars>>

(* The kernel may return any number that is free.                            *)
op_async_init ==
    /\ MainIdle /\ ~up /\ MayInit
    /\ up' = TRUE /\ shut' = FALSE
    /\ alive' = alive \cup {Sentinel}
    /\ next' = [next EXCEPT ![Sentinel] = None]
    /\ head' = Sentinel /\ tail' = Sentinel
    /\ pending' = 0
    /\ \E n \in Fds \ kopen : nfd' = n /\ kopen' = kopen \cup {n}
    /\ efd' = FALSE /\ armed' = TRUE
    /\ wpc' = [t \in Threads |-> "idle"]
    /\ UNCHANGED <<todo, fails, pool, sub, wtask, wold, mpc, drains, called, closing, aged>>

BeginShutdown ==
    /\ MainIdle /\ up
    /\ mpc' = "join"
    /\ UNCHANGED <<todo, lifeVars, pool, sub, pending, workVars, queueVars, head, efd, armed, drains, called, fdVars>>

(* A bug for comparison: the last completions are not drained.               *)
JoinSkipsDrain ==
    /\ mpc = "join" /\ pool = {} /\ wpc[Main] = "idle"
    /\ \A w \in Workers : wpc[w] = "exited"
    /\ up' = FALSE /\ mpc' = "close"
    /\ UNCHANGED <<todo, fails, shut, pool, sub, pending, workVars, queueVars, head, efd, armed, drains, called, fdVars>>

(* op_tpool_shutdown returns; async_pool = NULL; op_async_drain().           *)
JoinReturns ==
    /\ mpc = "join" /\ pool = {} /\ wpc[Main] = "idle"
    /\ \A w \in Workers : wpc[w] = "exited"
    /\ up' = FALSE
    /\ mpc' = "shutdrain" /\ drains' = <<None>>
    /\ UNCHANGED <<todo, fails, shut, pool, sub, pending, workVars, queueVars, head, efd, armed, called, fdVars>>

(* op_close puts the descriptor on closed_list, close() closes it at once;   *)
(* the sentinel is freed.                                                    *)
FinishShutdown ==
    /\ mpc = "close"
    /\ closing' = closing \cup {nfd}
    /\ kopen' = kopen \ {nfd}
    /\ nfd' = None /\ armed' = FALSE /\ efd' = FALSE
    /\ alive' = alive \ {head}
    /\ head' = None /\ tail' = None
    /\ mpc' = "loop" /\ shut' = TRUE
    /\ UNCHANGED <<todo, up, fails, pool, sub, pending, workVars, next, drains, called, aged>>

op_async_shutdown == BeginShutdown \/ JoinReturns \/ FinishShutdown

(* op_close_pending_fds, called by op_select: close what has been on the     *)
(* list for one round.                                                       *)
op_close_pending_fds ==
    /\ MainIdle /\ closing \cup aged # {}
    /\ kopen' = kopen \ aged
    /\ aged' = closing
    /\ closing' = {}
    /\ UNCHANGED <<todo, lifeVars, pool, sub, pending, workVars, queueVars, head, efd, armed, mpc, drains, called, nfd>>

-----------------------------------------------------------------------------
MainNext ==
    \/ async_notify_handler \/ TickDrains \/ DoneDrains \/ op_async_drain
    \/ InitFails \/ op_async_init \/ op_async_shutdown \/ op_close_pending_fds

Next ==
    \/ MainNext
    \/ \E t \in Threads : op_async_submit(t) \/ async_worker_fn(t)
    \/ \E w \in Workers : WorkerExits(w)

Spec == Init /\ [][Next]_vars

(* Threads are scheduled, user functions return and the event loop keeps     *)
(* running; nobody has to submit, drain by hand, or shut down.  A work_fn or *)
(* done_fn that goes on submitting is bounded by Tasks.                      *)
WorkerStep(w) == SubmitTask(w) \/ async_worker_fn(w) \/ WorkerExits(w)

MainStep ==
    \/ SubmitTask(Main) \/ async_worker_fn(Main)
    \/ async_notify_handler \/ op_async_drain \/ JoinReturns \/ FinishShutdown

Fairness == WF_vars(MainStep) /\ \A w \in Workers : WF_vars(WorkerStep(w))

LiveSpec == Spec /\ Fairness

-----------------------------------------------------------------------------
TypeOK ==
    /\ todo \subseteq Tasks /\ pool \subseteq Tasks
    /\ up \in BOOLEAN /\ shut \in BOOLEAN /\ fails \in 0 .. MaxFail
    /\ sub \in [Threads -> Tasks \cup {None}]
    /\ pending \in 0 .. Cardinality(Tasks)
    /\ wpc \in [Threads -> {"idle", "work", "link", "notify", "exited"}]
    /\ wtask \in [Threads -> Tasks \cup {None}]
    /\ wold \in [Threads -> Nodes \cup {None}]
    /\ alive \subseteq Nodes /\ next \in [Nodes -> Nodes \cup {None}]
    /\ head \in Nodes \cup {None} /\ tail \in Nodes \cup {None}
    /\ efd \in BOOLEAN /\ armed \in BOOLEAN
    /\ mpc \in {"loop", "tick", "handler", "join", "shutdrain", "close"}
    /\ \A i \in DOMAIN drains : drains[i] \in Tasks \cup {None}
    /\ called \in [Tasks -> Nat]
    /\ nfd \in Fds \cup {None} /\ kopen \subseteq Fds /\ closing \subseteq Fds /\ aged \subseteq Fds

(* No freed node is used again: the main thread frees a node only after      *)
(* every producer that will link it, and every op_async_drain that will      *)
(* clear it, is done with it.                                                *)
HeldNodesAllocated ==
    /\ up => head \in alive /\ tail \in alive
    /\ \A t \in Threads : wold[t] # None => wold[t] \in alive
    /\ \A i \in DOMAIN drains : drains[i] # None => drains[i] \in alive

(* A task that has been submitted, by where it is now.                       *)
InHand(k) == \E t \in Threads : sub[t] = k \/ (wtask[t] = k /\ wpc[t] = "work")
Undelivered(k) == k \in alive /\ called[k] = 0
BeingDelivered(k) == \E i \in DOMAIN drains : drains[i] = k

(* op_async_pending counts exactly the tasks that are submitted and neither  *)
(* finished silently nor delivered: 0 means that nothing is under way.       *)
PendingIsExact ==
    pending = Cardinality({k \in Tasks : k \in pool \/ InHand(k) \/ Undelivered(k) \/ BeingDelivered(k)})

(* A done_fn is called once, and not before its work_fn has returned.        *)
DeliveredOnce ==
    \A k \in Tasks : called[k] <= 1 /\ (called[k] = 1 => k \notin todo \cup pool /\ ~InHand(k))

(* The main thread never waits while a completion waits for it: then the     *)
(* handler is registered, and either the eventfd is readable or a producer   *)
(* has yet to write it.                                                      *)
WakeupNotLost ==
    (mpc = "loop" /\ up /\ \E k \in Tasks : Undelivered(k)) =>
        armed /\ (efd \/ \E t \in Threads : wpc[t] \in {"link", "notify"})

(* op_async_shutdown returns with every completion delivered and every node  *)
(* freed.                                                                    *)
ShutdownIsClean ==
    shut /\ mpc = "loop" => alive = {} /\ pending = 0 /\ pool = {}

(* No submission meets a pool that is gone.                                  *)
SubmitHasPool == \A t \in Threads : sub[t] # None => up

(* While the task port is active its eventfd is open: op_async_shutdown      *)
(* closes the descriptor that op_close has queued for closing as well.       *)
NotifyFdOpen == up => nfd \in kopen

(* Every done_fn is called in the end, once its task has been submitted.     *)
Awaited(k) == k \notin todo \cup Silent /\ called[k] = 0
CompletionDelivered == \A k \in Tasks : Awaited(k) ~> ~Awaited(k)
=============================================================================
