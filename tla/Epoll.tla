------------------------------- MODULE Epoll -------------------------------
(***************************************************************************)
(* The epoll backend (src/epoll.c) with the life of an FDE around it        *)
(* (op_open, op_close, op_close_pending_fds and op_select of src/commio.c).  *)
(*                                                                          *)
(* Interest is one-shot: epoll_wait silences an fd as it reports it, the    *)
(* I/O thread clears the handler before it calls it, and the handler asks   *)
(* again with op_setselect.  Worker threads call op_setselect meanwhile,    *)
(* with an op_fde_t pointer they took some time before.  In threaded mode a  *)
(* poll thread owns epoll_wait and hands events over in a bounded ring.      *)
(*                                                                          *)
(* A handler is user code: it may register and unregister interest, close   *)
(* and open, in any order and number, and then returns.                     *)
(***************************************************************************)
EXTENDS Integers, FiniteSets, Sequences

CONSTANTS
    Fdes,        \* the op_fde_t slots
    Kinds,       \* the interest the users register: {"r"} or {"r", "w"}
    Registers,   \* do they register ({TRUE}), or also unregister (BOOLEAN)?
    Workers,     \* worker threads
    None,
    EventsMax,   \* pfd_size: events per epoll_wait
    RingCap,     \* EP_RING_CAP
    MaxGen,      \* bound: how often a slot is opened again
    FiniteDelay, \* is op_select called with a timeout?
    MayThread,   \* may op_epoll_start_pollthread be called?
    MayStop      \* may op_epoll_stop_pollthread be called?

(* What the constants have to satisfy.                                      *)
EpollAssumption ==
    /\ Kinds # {} /\ Kinds \subseteq {"r", "w"}
    /\ Registers \subseteq BOOLEAN /\ None \notin Fdes
    /\ EventsMax \in Nat \ {0} /\ RingCap \in Nat \ {0} /\ MaxGen \in Nat
    /\ {FiniteDelay, MayThread, MayStop} \subseteq BOOLEAN

Conditions == Kinds \cup {"hup"}      \* EPOLLIN, EPOLLOUT, EPOLLHUP | EPOLLERR
Registered(mask) == [in |-> TRUE, mask |-> mask]
Unregistered == [in |-> FALSE, mask |-> {}]
Events == [fde : Fdes, evs : (SUBSET Conditions) \ {{}}, gen : 0 .. MaxGen]

VARIABLES
    handler,   \* the kinds whose handler pointer is not NULL
    pflags,    \* F->pflags
    kern,      \* the kernel's side: in the epoll set?  armed for what ({}: silenced)?
    ready,     \* the conditions that hold of the fd
    life,      \* table (open), closed_list, closed_list_aged, recycled_list
    gen,       \* how often the slot has been opened: no field of the code
    active,    \* ep_thread_active
    stopping,  \* ep_thread_stop
    ppc,       \* the poll thread
    pbatch,    \* ep_thread_pfd: events it has not yet looked at
    any,       \* its `any`
    ring,      \* ep_ring
    notify,    \* is the counter of ep_notify_fd non-zero?
    iopc,      \* the I/O thread
    iobatch,   \* ep_info->pfd: events it has not yet dispatched
    cur,       \* the event it dispatches
    held       \* the op_fde_t pointer each worker holds

fdVars == <<handler, pflags, kern, ready, life, gen>>
pollVars == <<ppc, pbatch, any, ring, notify>>
modeVars == <<active, stopping>>
ioVars == <<iopc, iobatch, cur>>
vars == <<handler, pflags, kern, ready, life, gen, active, stopping, ppc,
          pbatch, any, ring, notify, iopc, iobatch, cur, held>>

IsFDOpen(f) == life[f] = "open"

Init ==
    /\ handler = [f \in Fdes |-> {}]
    /\ pflags = [f \in Fdes |-> {}]
    /\ kern = [f \in Fdes |-> Unregistered]
    /\ ready = [f \in Fdes |-> {}]
    /\ life = [f \in Fdes |-> "open"]
    /\ gen = [f \in Fdes |-> 0]
    /\ active = FALSE /\ stopping = FALSE
    /\ ppc = "off" /\ pbatch = {} /\ any = FALSE /\ ring = <<>> /\ notify = FALSE
    /\ iopc = "idle" /\ iobatch = {} /\ cur = None
    /\ held = [w \in Workers |-> None]

-----------------------------------------------------------------------------
(* The kernel.                                                              *)

(* A condition comes to hold of an open fd.                                 *)
BecomeReady(f, c) ==
    /\ life[f] \in {"open", "closed"} /\ c \notin ready[f]
    /\ ready' = [ready EXCEPT ![f] = @ \cup {c}]
    /\ UNCHANGED <<handler, pflags, kern, life, gen, modeVars, pollVars, ioVars, held>>

(* What epoll_wait reports of f: nothing when f is silenced.                *)
Firing(f) ==
    IF kern[f].mask = {} THEN {} ELSE ready[f] \cap (kern[f].mask \cup {"hup"})

(* The sets of fds one epoll_wait may report; none on a timeout.            *)
Batches ==
    LET firing == {f \in Fdes : Firing(f) # {}}
    IN  IF Cardinality(firing) <= EventsMax THEN {firing}
        ELSE {b \in SUBSET firing : Cardinality(b) = EventsMax}

EventsOf(b) == {[fde |-> f, evs |-> Firing(f), gen |-> gen[f]] : f \in b}

(* EPOLLONESHOT: what has been reported is silenced.                        *)
Silenced(b) == [f \in Fdes |-> IF f \in b THEN Registered({}) ELSE kern[f]]

(* epoll_ctl on f's descriptor: the new kernel state.  It fails (EBADF)     *)
(* once the descriptor has been closed.                                     *)
epoll_ctl_ok(op, f) ==
    /\ life[f] \in {"open", "closed"}
    /\ (op = "ADD") <=> ~kern[f].in

(* A bug for comparison: EEXIST and ENOENT are not retried.                *)
EpCtlNoRetry(op, f, mask) ==
    IF ~epoll_ctl_ok(op, f) THEN kern
    ELSE [kern EXCEPT ![f] = IF op = "DEL" THEN Unregistered ELSE Registered(mask)]

(* ep_ctl: EEXIST turns ADD into MOD, ENOENT turns MOD into ADD, and DEL of  *)
(* an unregistered fd is benign.                                            *)
ep_ctl(op, f, mask) ==
    IF life[f] \notin {"open", "closed"} THEN kern
    ELSE [kern EXCEPT ![f] = IF op = "DEL" THEN Unregistered ELSE Registered(mask)]

-----------------------------------------------------------------------------
(* op_setselect_epoll(F, type, on ? handler : NULL): one critical section    *)
(* of F->pflags_lock.                                                       *)

Apply(old, type, on) == IF on THEN old \cup type ELSE old \ type

op_setselect(f, type, on) ==
    LET old == pflags[f]
        new == Apply(old, type, on)
    IN  /\ handler' = [handler EXCEPT ![f] = Apply(@, type, on)]
        /\ pflags' = [pflags EXCEPT ![f] = new]
        /\ kern' = IF new = old THEN kern
                   ELSE ep_ctl(IF new = {} THEN "DEL"
                               ELSE IF old = {} THEN "ADD" ELSE "MOD", f, new)

-----------------------------------------------------------------------------
(* What user code does on the I/O thread: between two op_selects, or inside  *)
(* a handler.                                                               *)

UserCode == iopc \in {"idle", "in_read", "in_write"}

UserSetselect(f, type, on) ==
    /\ UserCode /\ IsFDOpen(f)
    /\ op_setselect(f, type, on)
    /\ UNCHANGED <<ready, life, gen, modeVars, pollVars, ioVars, held>>

(* A bug for comparison: the FDE is recycled at once.                      *)
CloseRecyclesNow(f) ==
    /\ UserCode /\ IsFDOpen(f)
    /\ op_setselect(f, Kinds, FALSE)
    /\ life' = [life EXCEPT ![f] = "recycled"]
    /\ UNCHANGED <<ready, gen, modeVars, pollVars, ioVars, held>>

(* op_close: interest is dropped, the FDE moves to closed_list; its          *)
(* descriptor stays open until op_close_pending_fds.                        *)
op_close(f) ==
    /\ UserCode /\ IsFDOpen(f)
    /\ op_setselect(f, Kinds, FALSE)
    /\ life' = [life EXCEPT ![f] = "closed"]
    /\ UNCHANGED <<ready, gen, modeVars, pollVars, ioVars, held>>

(* op_open on a new descriptor takes a slot from recycled_list and clears it.*)
op_open(f) ==
    /\ UserCode /\ life[f] = "recycled" /\ gen[f] < MaxGen
    /\ life' = [life EXCEPT ![f] = "open"]
    /\ gen' = [gen EXCEPT ![f] = @ + 1]
    /\ handler' = [handler EXCEPT ![f] = {}]
    /\ pflags' = [pflags EXCEPT ![f] = {}]
    /\ UNCHANGED <<kern, ready, modeVars, pollVars, ioVars, held>>

-----------------------------------------------------------------------------
(* A worker thread takes an FDE it finds open, and later calls op_setselect  *)
(* on it, without looking again whether it is open.                         *)

WorkerTake(w, f) ==
    /\ held[w] = None /\ IsFDOpen(f)
    /\ held' = [held EXCEPT ![w] = f]
    /\ UNCHANGED <<fdVars, modeVars, pollVars, ioVars>>

WorkerSetselect(w, type, on) ==
    /\ held[w] # None
    /\ op_setselect(held[w], type, on)
    /\ held' = [held EXCEPT ![w] = None]
    /\ UNCHANGED <<ready, life, gen, modeVars, pollVars, ioVars>>

-----------------------------------------------------------------------------
(* Dispatching one event on the I/O thread: ep_dispatch_event.               *)

Dispatching == {"read", "in_read", "write", "in_write", "rearm"}

BeginEvent(e) ==
    /\ cur' = e
    /\ iopc' = IF IsFDOpen(e.fde) THEN "read" ELSE "next"

(* A bug for comparison: the served interest stays in pflags.              *)
DispatchKeepsFlag(k, now, running, after) ==
    /\ iopc = now
    /\ LET f == cur.fde
           hit == cur.evs \cap {k, "hup"} # {} /\ k \in handler[f]
       IN  /\ handler' = [handler EXCEPT ![f] = IF hit THEN @ \ {k} ELSE @]
           /\ iopc' = IF hit THEN running ELSE after
    /\ UNCHANGED <<pflags, kern, ready, life, gen, modeVars, pollVars, iobatch, cur, held>>

(* ep_dispatch(F, is_read): take the handler under pflags_lock, and call it   *)
(* outside; the handler deals with the condition, or leaves it for later.    *)
ep_dispatch(k, now, running, after) ==
    /\ iopc = now
    /\ LET f == cur.fde
           fires == cur.evs \cap {k, "hup"} # {}
           hit == fires /\ k \in handler[f]
       IN  /\ handler' = [handler EXCEPT ![f] = IF fires THEN @ \ {k} ELSE @]
           /\ pflags' = [pflags EXCEPT ![f] = IF fires THEN @ \ {k} ELSE @]
           /\ iopc' = IF hit THEN running ELSE after
           /\ \E left \in {ready[f], IF hit THEN ready[f] \ {k} ELSE ready[f]} :
                 ready' = [ready EXCEPT ![f] = left]
    /\ UNCHANGED <<kern, life, gen, modeVars, pollVars, iobatch, cur, held>>

DispatchRead == ep_dispatch("r", "read", "in_read", "write")
DispatchWrite == ep_dispatch("w", "write", "in_write", "rearm")

(* The handler returns; if it closed F, the event is done.                   *)
HandlerReturns ==
    /\ iopc \in {"in_read", "in_write"}
    /\ iopc' = IF ~IsFDOpen(cur.fde) THEN "next"
               ELSE IF iopc = "in_read" THEN "write" ELSE "rearm"
    /\ UNCHANGED <<fdVars, modeVars, pollVars, iobatch, cur, held>>

(* ep_rearm: compare the handlers with pflags, and tell the kernel of a      *)
(* difference.                                                              *)
ep_rearm ==
    /\ iopc = "rearm"
    /\ LET f == cur.fde
           new == handler[f]
       IN  /\ pflags' = [pflags EXCEPT ![f] = new]
           /\ kern' = IF new = pflags[f] THEN kern
                      ELSE ep_ctl(IF new = {} THEN "DEL" ELSE "MOD", f, new)
    /\ iopc' = "next"
    /\ UNCHANGED <<handler, ready, life, gen, modeVars, pollVars, iobatch, cur, held>>

-----------------------------------------------------------------------------
(* op_select: op_select_epoll, inline or threaded, then op_close_pending_fds. *)

EpollWait ==
    /\ iopc = "idle" /\ ~active
    /\ \E b \in Batches :
          /\ b # {} \/ FiniteDelay
          /\ iobatch' = EventsOf(b)
          /\ kern' = Silenced(b)
    /\ iopc' = "next"
    /\ UNCHANGED <<handler, pflags, ready, life, gen, modeVars, pollVars, cur, held>>

(* A bug for comparison: ep_notify_fd is not polled.                       *)
WakeOnTimeoutOnly ==
    /\ iopc = "idle" /\ active
    /\ FiniteDelay
    /\ notify' = FALSE
    /\ iopc' = "next"
    /\ UNCHANGED <<fdVars, modeVars, ppc, pbatch, any, ring, iobatch, cur, held>>

(* ep_select_threaded: wake up, drain the counter, then pop the ring.        *)
WakeUp ==
    /\ iopc = "idle" /\ active
    /\ notify \/ FiniteDelay
    /\ notify' = FALSE
    /\ iopc' = "next"
    /\ UNCHANGED <<fdVars, modeVars, ppc, pbatch, any, ring, iobatch, cur, held>>

NextInline ==
    /\ iopc = "next" /\ ~active
    /\ \E e \in iobatch : iobatch' = iobatch \ {e} /\ BeginEvent(e)
    /\ UNCHANGED <<fdVars, modeVars, pollVars, held>>

ep_ring_pop ==
    /\ iopc = "next" /\ active /\ ring # <<>>
    /\ BeginEvent(Head(ring))
    /\ ring' = Tail(ring)
    /\ UNCHANGED <<fdVars, modeVars, ppc, pbatch, any, notify, iobatch, held>>

AfterDispatch ==
    /\ iopc = "next"
    /\ IF active THEN ring = <<>> ELSE iobatch = {}
    /\ iopc' = "idle" /\ cur' = None

(* closed_list_aged -> recycled_list, then closed_list -> closed_list_aged;   *)
(* close() ends the descriptor and its epoll registration.                   *)
op_close_pending_fds ==
    LET closing == {f \in Fdes : life[f] = "closed"}
    IN  /\ life' = [f \in Fdes |-> CASE life[f] = "aged" -> "recycled"
                                     [] life[f] = "closed" -> "aged"
                                     [] OTHER -> life[f]]
        /\ kern' = [f \in Fdes |-> IF f \in closing THEN Unregistered ELSE kern[f]]
        /\ ready' = [f \in Fdes |-> IF f \in closing THEN {} ELSE ready[f]]

SelectReturns ==
    /\ AfterDispatch
    /\ op_close_pending_fds
    /\ UNCHANGED <<handler, pflags, gen, modeVars, pollVars, iobatch, held>>

-----------------------------------------------------------------------------
(* ep_poll_thread_fn                                                        *)

(* epoll_wait, in which the thread may be when ep_thread_stop is set.        *)
PollWait ==
    /\ ppc = "wait"
    /\ \E b \in Batches :
          /\ b # {}
          /\ pbatch' = EventsOf(b)
          /\ kern' = Silenced(b)
    /\ ppc' = "push" /\ any' = FALSE
    /\ UNCHANGED <<handler, pflags, ready, life, gen, modeVars, ring, notify, ioVars, held>>

(* ep_ring_push of one event of the batch; a full ring drops it.             *)
ep_ring_push ==
    /\ ppc = "push"
    /\ \E e \in pbatch :
          /\ pbatch' = pbatch \ {e}
          /\ ring' = IF Len(ring) >= RingCap THEN ring ELSE Append(ring, e)
    /\ any' = (any \/ Len(ring) < RingCap)
    /\ UNCHANGED <<fdVars, modeVars, ppc, notify, ioVars, held>>

(* A bug for comparison: nothing is written to ep_notify_fd.               *)
SignalNever ==
    /\ ppc = "push" /\ pbatch = {}
    /\ ppc' = "wait"
    /\ UNCHANGED <<fdVars, modeVars, notify, pbatch, any, ring, ioVars, held>>

(* One write for the batch, then the loop's test of ep_thread_stop.          *)
SignalMain ==
    /\ ppc = "push" /\ pbatch = {}
    /\ notify' = (notify \/ any)
    /\ ppc' = IF stopping THEN "off" ELSE "wait"
    /\ UNCHANGED <<fdVars, modeVars, pbatch, any, ring, ioVars, held>>

(* The wait of 100 ms ends without an event and the loop with it.            *)
PollExit ==
    /\ ppc = "wait" /\ stopping
    /\ ppc' = "off"
    /\ UNCHANGED <<fdVars, modeVars, pbatch, any, ring, notify, ioVars, held>>

(* op_epoll_start_pollthread and op_epoll_stop_pollthread, called between     *)
(* two op_selects; the second waits for the thread.                          *)
op_epoll_start_pollthread ==
    /\ MayThread /\ iopc = "idle" /\ ~active
    /\ active' = TRUE /\ stopping' = FALSE
    /\ ring' = <<>> /\ notify' = FALSE /\ ppc' = "wait"
    /\ UNCHANGED <<fdVars, pbatch, any, ioVars, held>>

op_epoll_stop_pollthread ==
    /\ MayStop /\ iopc = "idle" /\ active
    /\ active' = FALSE /\ stopping' = TRUE
    /\ iopc' = "join"
    /\ UNCHANGED <<fdVars, pollVars, iobatch, cur, held>>

JoinPollThread ==
    /\ iopc = "join" /\ ppc = "off"
    /\ iopc' = "idle" /\ notify' = FALSE
    /\ UNCHANGED <<fdVars, modeVars, ppc, pbatch, any, ring, iobatch, cur, held>>

-----------------------------------------------------------------------------
IoThread ==
    \/ EpollWait \/ WakeUp \/ NextInline \/ ep_ring_pop
    \/ DispatchRead \/ DispatchWrite \/ HandlerReturns \/ ep_rearm
    \/ SelectReturns \/ JoinPollThread

PollThread == PollWait \/ ep_ring_push \/ SignalMain \/ PollExit

User ==
    \/ \E f \in Fdes, type \in (SUBSET Kinds) \ {{}}, on \in Registers : UserSetselect(f, type, on)
    \/ \E f \in Fdes : op_close(f) \/ op_open(f)
    \/ op_epoll_start_pollthread
    \/ op_epoll_stop_pollthread
    \/ \E w \in Workers, f \in Fdes : WorkerTake(w, f)
    \/ \E w \in Workers, type \in (SUBSET Kinds) \ {{}}, on \in Registers : WorkerSetselect(w, type, on)

Kernel == \E f \in Fdes, c \in Conditions : BecomeReady(f, c)

Next == IoThread \/ PollThread \/ User \/ Kernel

Spec == Init /\ [][Next]_vars

(* The two threads run, handlers return, and op_select is called again and   *)
(* again; nothing is assumed of users, workers and peers.                    *)
FairSpec == Spec /\ WF_vars(IoThread) /\ WF_vars(PollThread)

-----------------------------------------------------------------------------
(* PROPERTIES                                                               *)

TypeOK ==
    /\ handler \in [Fdes -> SUBSET Kinds] /\ pflags \in [Fdes -> SUBSET Kinds]
    /\ kern \in [Fdes -> [in : BOOLEAN, mask : SUBSET Kinds]]
    /\ ready \in [Fdes -> SUBSET Conditions]
    /\ life \in [Fdes -> {"open", "closed", "aged", "recycled"}]
    /\ gen \in [Fdes -> 0 .. MaxGen]
    /\ {active, stopping, any, notify} \subseteq BOOLEAN
    /\ ppc \in {"off", "wait", "push"}
    /\ pbatch \subseteq Events /\ iobatch \subseteq Events
    /\ ring \in Seq(Events) /\ Len(ring) <= RingCap
    /\ iopc \in {"idle", "next", "read", "in_read", "write", "in_write", "rearm", "join"}
    /\ cur \in Events \cup {None}
    /\ held \in [Workers -> Fdes \cup {None}]

(* "F->pflags reflects actual state at all times": whatever the workers, the *)
(* handlers and the dispatcher do, a bit of pflags is set exactly when its   *)
(* handler is, so that op_setselect_epoll computes its epoll operation from  *)
(* the truth.                                                               *)
FlagsMatchHandlers == \A f \in Fdes : pflags[f] = handler[f]

(* An event of f is under way between epoll_wait and the end of its dispatch. *)
InFlight(f) ==
    \/ \E e \in pbatch \cup iobatch : e.fde = f
    \/ active /\ \E i \in DOMAIN ring : ring[i].fde = f
    \/ iopc \in Dispatching /\ cur.fde = f

(* Interest is never lost: an open fd with a handler registered is armed in   *)
(* the kernel for it, unless an event of the fd is still to be dispatched.    *)
InterestArmed ==
    \A f \in Fdes :
        IsFDOpen(f) /\ pflags[f] # {} /\ ~InFlight(f)
            => pflags[f] \subseteq kern[f].mask

(* A handler is called for an event of the descriptor the FDE stands for now, *)
(* never for one reported of an earlier descriptor of a recycled FDE.         *)
FreshDispatch ==
    iopc \in {"in_read", "in_write"} => cur.gen = gen[cur.fde]

(* The I/O thread never sleeps on a filled ring: once the poll thread is done *)
(* with a batch, ring entries mean that its wakeup is pending or being served.*)
RingIsAnnounced ==
    active /\ ppc = "wait" /\ ring # <<>> => notify \/ iopc # "idle"

(* A condition that a registered handler waits for is delivered: the handler  *)
(* is taken for a call, or the interest or the condition goes away.           *)
Waits(f, k) == IsFDOpen(f) /\ k \in handler[f] /\ k \in ready[f]
Delivered == \A f \in Fdes, k \in Kinds : Waits(f, k) ~> ~Waits(f, k)
=============================================================================
