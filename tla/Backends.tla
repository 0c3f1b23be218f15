------------------------------ MODULE Backends ------------------------------
(***************************************************************************)
(* The readiness backends other than epoll and io_uring: poll.c, select.c,   *)
(* devpoll.c, ports.c, kqueue.c, sigio.c and iocp.c.  One specification,     *)
(* because all of them promise the same: an interest registered with         *)
(* op_setselect is one-shot, is remembered until its condition holds, and    *)
(* then clears the handler and calls it once.  What differs is where the     *)
(* interest is kept (`be`) and how op_select reports it (`batch`, `sigs`,    *)
(* `thr`).                                                                  *)
(*                                                                          *)
(* Descriptor and FDE are one here; Descriptors has their separate lives.    *)
(* A handler is user code: between two dispatch steps of the I/O thread      *)
(* anything may be registered, unregistered or closed.                      *)
(***************************************************************************)
EXTENDS Integers, FiniteSets, Sequences, SequencesExt, FiniteSetsExt

CONSTANTS
    Kind,      \* which backend op_init_netio has chosen
    Fds,       \* the descriptors, naturals
    Dirs,      \* the directions users register: "r", "w"
    Workers,   \* do worker threads call op_setselect while the I/O thread waits?
    Timed,     \* is op_select given a timeout?  Where the backend has timers of its
               \* own, and where no event is scheduled, op_lib_loop gives it none
    Threaded,  \* kqueue: does a poll thread run?
    RingCap,   \* KQ_RING_CAP
    ChangeCap, \* KQ_CHANGELIST_CAP
    SigCap,    \* sigio: the length of the kernel's RT signal queue
    MaxGen     \* bound: iocp arms a descriptor at most so often

Kinds == {"poll", "select", "devpoll", "ports", "kqueue", "sigio", "iocp"}

(* What the constants have to satisfy.                                      *)
BackendsAssumption ==
    /\ Kind \in Kinds /\ Fds # {} /\ Fds \subseteq Nat /\ IsFiniteSet(Fds)
    /\ Dirs # {} /\ Dirs \subseteq {"r", "w"}
    /\ {Workers, Timed, Threaded} \subseteq BOOLEAN /\ (Threaded => Kind = "kqueue")
    /\ {RingCap, ChangeCap, SigCap, MaxGen} \subseteq Nat \ {0}

Interests == Fds \X Dirs

VARIABLES
    life,     \* FLAG_OPEN, closed but not yet collected, or free
    be,       \* the backend: see Backend0
    ready,    \* the conditions that hold of a descriptor
    iopc,     \* the I/O thread: "user" code, in the "wait", in a "poll" over arrays
              \* it has given away, or "dispatch"ing what they reported or a "signal"
    batch,    \* what the wait reported and is not dispatched yet
    sigs,     \* sigio: the queued signals, and sigio_is_screwed
    thr       \* kqueue: the poll thread's kqout, `any` and the notify pipe

vars == <<life, be, ready, iopc, batch, sigs, thr>>

(* handler: the directions with a handler; pflags: F->pflags; reg: what the  *)
(* kernel, the pollfd array or the fd sets hold; maxindex (op_maxfd); gen     *)
(* and posted: iocp's F->uring_gen and its overlapped operations, dead: the   *)
(* sockets on which they fail; changes: kqlst; assoc: a worker's              *)
(* port_associate that is still to come; given: what poll() or select() was    *)
(* called with.                                                             *)
Backend0 ==
    [handler |-> [f \in Fds |-> {}], pflags |-> [f \in Fds |-> {}],
     reg |-> [f \in Fds |-> {}], maxindex |-> 0, gen |-> [f \in Fds |-> 0],
     posted |-> {}, dead |-> {}, changes |-> <<>>, assoc |-> {},
     given |-> [f \in Fds |-> {}]]

Init ==
    /\ life = [f \in Fds |-> "open"]
    /\ be = Backend0
    /\ ready = [f \in Fds |-> {}]
    /\ iopc = "user"
    /\ batch = [f \in Fds |-> {}]
    /\ sigs = [q |-> <<>>, overflow |-> FALSE, screwed |-> TRUE]
    /\ thr = [pc |-> "flush", kqout |-> {}, any |-> FALSE, notify |-> FALSE]

IsFDOpen(f) == life[f] = "open"
Waiting == iopc \in {"wait", "poll"}
Handlers(b, f, ds, on) ==
    [b.handler EXCEPT ![f] = IF on THEN @ \cup ds ELSE @ \ ds]

-----------------------------------------------------------------------------
(* op_setselect of each backend: the new backend state.                     *)

(* poll and sigio: the entry of pollfds.  maxindex shrinks only when its own  *)
(* descriptor leaves.                                                       *)
op_setselect_poll(b, f, ds, on) ==
    LET h == Handlers(b, f, ds, on)
        used == {g \in Fds : h[g] # {}} \cup {-1}
    IN  [b EXCEPT !.handler = h, !.reg[f] = h[f],
                  !.maxindex = IF h[f] # {} THEN Max({@, f})
                               ELSE IF f = @ THEN Max(used) ELSE @]

(* A bug for comparison: a descriptor above op_maxfd does not raise it.     *)
MaxfdNotRaised(b, f, ds, on) ==
    [b EXCEPT !.handler = Handlers(b, f, ds, on), !.reg[f] = Handlers(b, f, ds, on)[f]]

(* select_update_fds: op_maxfd shrinks to the highest registered descriptor.  *)
op_setselect_select(b, f, ds, on) ==
    LET h == Handlers(b, f, ds, on)
        used == {g \in Fds : h[g] # {} /\ g <= b.maxindex} \cup {-1}
    IN  [b EXCEPT !.handler = h, !.reg[f] = h[f],
                  !.maxindex = IF h[f] # {} THEN Max({@, f})
                               ELSE IF f <= @ THEN Max(used) ELSE @]

(* dp_sync: the mask is written again when it differs.                      *)
dp_sync(b, f, desired) == [b EXCEPT !.reg[f] = desired, !.pflags[f] = desired]

op_setselect_devpoll(b, f, ds, on) ==
    LET h == Handlers(b, f, ds, on)
    IN  dp_sync([b EXCEPT !.handler = h], f, h[f])

(* The part of op_setselect_ports under pflags_lock; the association follows. *)
PortFlags(b, f, ds, on) ==
    LET h == Handlers(b, f, ds, on)
    IN  [b EXCEPT !.handler = h, !.pflags[f] = h[f]]

(* port_associate or port_dissociate with the captured flags; nothing when    *)
(* there was and is no interest.                                            *)
op_setselect_ports(b, f, ds, on) ==
    LET n == PortFlags(b, f, ds, on)
    IN  IF b.pflags[f] = {} /\ n.pflags[f] = {} THEN n
        ELSE [n EXCEPT !.reg[f] = n.pflags[f]]

(* kevent over the change list: what the kernel has armed afterwards.  A      *)
(* change for a closed descriptor (EBADF) or a DELETE of what is not there     *)
(* (ENOENT) concerns that entry only.                                       *)
kq_flush_changes(b) ==
    LET Step(reg, c) ==
            IF life[c.fd] = "free" THEN reg
            ELSE [reg EXCEPT ![c.fd] = IF c.add THEN @ \cup {c.dir} ELSE @ \ {c.dir}]
    IN  [b EXCEPT !.reg = FoldLeft(Step, @, b.changes), !.changes = <<>>]

(* Only the transitions between NULL and a handler are changes; a full list   *)
(* is flushed first.                                                        *)
kq_arm_event(b, f, d, on) ==
    IF (d \in b.handler[f]) = on THEN b
    ELSE LET room == IF Len(b.changes) = ChangeCap THEN kq_flush_changes(b) ELSE b
         IN  [room EXCEPT !.changes = Append(@, [fd |-> f, dir |-> d, add |-> on])]

op_setselect_kqueue(b, f, ds, on) ==
    LET Arm(x, d) == IF d \in ds THEN kq_arm_event(x, f, d, on) ELSE x
        armed == Arm(Arm(b, "r"), "w")
    IN  [armed EXCEPT !.handler = Handlers(b, f, ds, on)]

(* A zero-byte overlapped operation carries the generation it was armed with. *)
(* On a dead socket WSARecv and WSASend fail, and nothing is posted.          *)
iocp_post_io(b, f, d) ==
    LET g == b.gen[f] + 1
        op == IF f \in b.dead THEN {} ELSE {[fd |-> f, dir |-> d, gen |-> g]}
    IN  [b EXCEPT !.gen[f] = g, !.posted = @ \cup op]

op_setselect_iocp(b, f, ds, on) ==
    LET Post(x, d) == IF on /\ d \in ds THEN iocp_post_io(x, f, d) ELSE x
    IN  Post(Post([b EXCEPT !.handler = Handlers(b, f, ds, on)], "r"), "w")

op_setselect(b, f, ds, on) ==
    CASE Kind \in {"poll", "sigio"} -> op_setselect_poll(b, f, ds, on)
      [] Kind = "select" -> op_setselect_select(b, f, ds, on)
      [] Kind = "devpoll" -> op_setselect_devpoll(b, f, ds, on)
      [] Kind = "ports" -> op_setselect_ports(b, f, ds, on)
      [] Kind = "kqueue" -> op_setselect_kqueue(b, f, ds, on)
      [] Kind = "iocp" -> op_setselect_iocp(b, f, ds, on)

-----------------------------------------------------------------------------
(* User code on the I/O thread, and on worker threads.                      *)

SigPending(f, d) == \E i \in DOMAIN sigs.q : sigs.q[i] = <<f, d>>

(* RT signals tell of edges: users of op_setselect read until EAGAIN before   *)
(* they register, so a condition that holds by now has its signal queued.    *)
SawEagain(f, d) ==
    Kind = "sigio" => d \notin ready[f] \/ SigPending(f, d) \/ sigs.overflow

UserSetselect(f, ds, on) ==
    /\ IsFDOpen(f) /\ (~Waiting \/ (Workers /\ Kind # "ports"))
    /\ on => \A d \in ds : SawEagain(f, d)
    /\ Kind = "iocp" => be.gen[f] + Cardinality(ds) <= MaxGen
    /\ be' = op_setselect(be, f, ds, on)
    /\ UNCHANGED <<life, ready, iopc, batch, sigs, thr>>

(* A worker's op_setselect_ports: flags under the lock, then the syscall.     *)
WorkerPortFlags(f, ds, on) ==
    /\ Kind = "ports" /\ Workers /\ IsFDOpen(f) /\ be.assoc = {}
    /\ LET n == PortFlags(be, f, ds, on)
       IN  be' = IF be.pflags[f] = {} /\ n.pflags[f] = {} THEN n
                 ELSE [n EXCEPT !.assoc = {<<f, n.pflags[f]>>}]
    /\ UNCHANGED <<life, ready, iopc, batch, sigs, thr>>

WorkerPortAssociate ==
    /\ be.assoc # {}
    /\ \E <<f, flags>> \in be.assoc : be' = [be EXCEPT !.assoc = {}, !.reg[f] = flags]
    /\ UNCHANGED <<life, ready, iopc, batch, sigs, thr>>

(* op_close: op_setselect(F, READ | WRITE, NULL), then no longer open.       *)
Close(f) ==
    /\ IsFDOpen(f) /\ ~Waiting
    /\ life' = [life EXCEPT ![f] = "closed"]
    /\ be' = op_setselect(be, f, Dirs, FALSE)
    /\ UNCHANGED <<ready, iopc, batch, sigs, thr>>

(* op_open of a descriptor the kernel hands out again.                      *)
Open(f) ==
    /\ life[f] = "free" /\ ~Waiting
    /\ life' = [life EXCEPT ![f] = "open"]
    /\ be' = [be EXCEPT !.gen[f] = 0, !.pflags[f] = {}]
    /\ UNCHANGED <<ready, iopc, batch, sigs, thr>>

(* A condition comes to hold.  With op_setup_fd_sigio done the kernel queues  *)
(* a signal, or SIGIO when the queue is full.                               *)
BecomeReady(f, d) ==
    /\ life[f] # "free" /\ d \notin ready[f]
    /\ ready' = [ready EXCEPT ![f] = @ \cup {d}]
    /\ sigs' = IF Kind # "sigio" THEN sigs
               ELSE IF Len(sigs.q) < SigCap
                    THEN [sigs EXCEPT !.q = Append(@, <<f, d>>)]
                    ELSE [sigs EXCEPT !.overflow = TRUE]
    /\ UNCHANGED <<life, be, iopc, batch, thr>>

(* A connection breaks; iocp's operations on it fail from now on.            *)
SocketDies(f) ==
    /\ Kind = "iocp" /\ life[f] # "free" /\ f \notin be.dead
    /\ be' = [be EXCEPT !.dead = @ \cup {f}]
    /\ UNCHANGED <<life, ready, iopc, batch, sigs, thr>>

-----------------------------------------------------------------------------
(* op_select: enter the wait.                                               *)

Reported(b) == [f \in Fds |-> b.reg[f] \cap ready[f]]
Nothing == [f \in Fds |-> {}]

(* poll(2) is given the entries up to the highest index, select(2) copies of   *)
(* the fd sets: what a worker registers from now on is for the next wait.      *)
Given(b) == [b EXCEPT !.given = [f \in Fds |-> IF f <= b.maxindex THEN b.reg[f] ELSE {}]]

(* The poll fallback of sigio drops the queued signals before it polls.       *)
SigioReset == [q |-> <<>>, overflow |-> FALSE, screwed |-> FALSE]

EnterWait ==
    /\ iopc = "user"
    /\ IF Kind \in {"poll", "select"} \/ (Kind = "sigio" /\ sigs.screwed)
       THEN /\ iopc' = "poll" /\ be' = Given(be)
            /\ sigs' = IF Kind = "sigio" THEN SigioReset ELSE sigs
       ELSE /\ iopc' = "wait" /\ UNCHANGED sigs
            /\ be' = IF Kind = "kqueue" /\ ~Threaded THEN kq_flush_changes(be) ELSE be
    /\ UNCHANGED <<life, ready, batch, thr>>

PollReport == [f \in Fds |-> be.given[f] \cap ready[f]]

(* An overlapped operation completes when its condition holds or its socket    *)
(* is closed or dead.                                                       *)
Completed ==
    {p \in be.posted : life[p.fd] # "open" \/ p.fd \in be.dead \/ p.dir \in ready[p.fd]}

(* There is something for the wait to report.                               *)
ToReport ==
    CASE iopc = "poll" -> PollReport # Nothing
      [] Kind = "sigio" -> sigs.overflow \/ sigs.q # <<>>
      [] Kind = "iocp" -> Completed # {}
      [] OTHER -> Reported(be) # Nothing

op_select_poll ==
    /\ iopc = "poll" /\ ToReport
    /\ iopc' = "dispatch" /\ batch' = PollReport
    /\ be' = [be EXCEPT !.given = Nothing]
    /\ UNCHANGED <<life, ready, sigs, thr>>

op_select_devpoll ==
    /\ Kind = "devpoll" /\ iopc = "wait" /\ ToReport
    /\ iopc' = "dispatch" /\ batch' = Reported(be)
    /\ UNCHANGED <<life, be, ready, sigs, thr>>

(* port_getn: a reported descriptor is no longer associated.                *)
op_select_ports ==
    /\ Kind = "ports" /\ iopc = "wait" /\ ToReport
    /\ iopc' = "dispatch" /\ batch' = Reported(be)
    /\ be' = [be EXCEPT !.reg = [f \in Fds |-> IF Reported(be)[f] # {} THEN {} ELSE @[f]]]
    /\ UNCHANGED <<life, ready, sigs, thr>>

(* kevent: EV_ONESHOT, a reported filter is deleted.                        *)
Harvested(b) == [b EXCEPT !.reg = [f \in Fds |-> @[f] \ ready[f]]]

op_select_kqueue ==
    /\ Kind = "kqueue" /\ ~Threaded /\ iopc = "wait" /\ ToReport
    /\ iopc' = "dispatch" /\ batch' = Reported(be) /\ be' = Harvested(be)
    /\ UNCHANGED <<life, ready, sigs, thr>>

(* sigwaitinfo or sigtimedwait: one signal at a time.  SIGIO tells of an       *)
(* overflow, and the kernel hands it out before any real-time signal; the      *)
(* fallback follows in the same call.                                       *)
op_select_sigio ==
    /\ Kind = "sigio" /\ iopc = "wait" /\ ToReport
    /\ IF sigs.overflow
       THEN /\ sigs' = SigioReset /\ iopc' = "poll" /\ be' = Given(be)
            /\ UNCHANGED batch
       ELSE /\ sigs' = [sigs EXCEPT !.q = Tail(@)] /\ iopc' = "signal"
            /\ LET s == Head(sigs.q) IN batch' = [Nothing EXCEPT ![s[1]] = {s[2]}]
            /\ UNCHANGED be
    /\ UNCHANGED <<life, ready, thr>>

(* GetQueuedCompletionStatus: a generation that is not the descriptor's is    *)
(* stale.                                                                   *)
op_select_iocp ==
    /\ Kind = "iocp" /\ iopc = "wait" /\ ToReport
    /\ iopc' = "dispatch" /\ be' = [be EXCEPT !.posted = @ \ Completed]
    /\ batch' = [f \in Fds |->
           {p.dir : p \in {q \in Completed : q.fd = f /\ IsFDOpen(f) /\ q.gen = be.gen[f]}}]
    /\ UNCHANGED <<life, ready, sigs, thr>>

-----------------------------------------------------------------------------
(* kq_poll_thread_fn: flush, wait, push what fits, write one byte.            *)

KqPollWait ==
    /\ Threaded /\ thr.pc = "flush"
    /\ LET b == kq_flush_changes(be)
       IN  be' = Harvested(b) /\ thr' = [thr EXCEPT !.pc = "push", !.any = FALSE,
                   !.kqout = {i \in Interests : i[2] \in Reported(b)[i[1]]}]
    /\ UNCHANGED <<life, ready, iopc, batch, sigs>>

RingLen == Cardinality({i \in Interests : i[2] \in batch[i[1]]})

KqPollPush ==
    /\ thr.pc = "push"
    /\ IF thr.kqout = {}
       THEN thr' = [thr EXCEPT !.pc = "flush", !.notify = @ \/ thr.any] /\ UNCHANGED batch
       ELSE \E i \in thr.kqout :
            /\ batch' = IF RingLen < RingCap
                        THEN [batch EXCEPT ![i[1]] = @ \cup {i[2]}] ELSE batch
            /\ thr' = [thr EXCEPT !.kqout = @ \ {i}, !.any = @ \/ RingLen < RingCap]
    /\ UNCHANGED <<life, be, ready, iopc, sigs>>

(* kq_select_threaded: poll() on the pipe, which is drained before the ring    *)
(* is, also when poll() has timed out.                                      *)
DrainPipe ==
    /\ Threaded /\ iopc = "wait" /\ iopc' = "dispatch"
    /\ thr' = [thr EXCEPT !.notify = FALSE]
    /\ UNCHANGED <<life, be, ready, batch, sigs>>

kq_select_threaded == thr.notify /\ DrainPipe

-----------------------------------------------------------------------------
(* Dispatch.                                                                *)

(* What claiming f's handler for d does to the backend before the call.      *)
(* poll and sigio (dispatch_read, dispatch_write) leave maxindex alone.       *)
ClaimInArray(f, d) ==
    [be EXCEPT !.handler[f] = @ \ {d}, !.reg[f] = be.handler[f] \ {d}]

ClaimInSets(f, d) == op_setselect(be, f, {d}, FALSE)

kq_dispatch(f, d) == [be EXCEPT !.handler[f] = @ \ {d}]

Claimed(f, d) ==
    CASE Kind \in {"poll", "sigio"} -> ClaimInArray(f, d)
      [] Kind \in {"select", "devpoll"} -> ClaimInSets(f, d)
      [] OTHER -> kq_dispatch(f, d)

(* ports: after both directions, whatever pflags says is associated again.   *)
PortAgain(f, b, left) ==
    IF Kind = "ports" /\ left = {} /\ IsFDOpen(f) /\ b.pflags[f] # {}
    THEN [b EXCEPT !.reg[f] = b.pflags[f]] ELSE b

(* One direction of one reported descriptor, reads before writes; kqueue's      *)
(* filters are events of their own, in any order.  A handler that is called     *)
(* uses up its condition, or leaves some of it.                              *)
Dispatch(f, d) ==
    /\ iopc \in {"dispatch", "signal"} /\ d \in batch[f] /\ (d = "w" => "r" \notin batch[f] \/ Kind = "kqueue")
    /\ batch' = [batch EXCEPT ![f] = @ \ {d}]
    /\ LET b == IF IsFDOpen(f) THEN Claimed(f, d) ELSE be
       IN  be' = PortAgain(f, b, batch[f] \ {d})
    /\ IF IsFDOpen(f) /\ d \in be.handler[f]
       THEN \E keep \in {k \in BOOLEAN : Kind = "sigio" => ~k} :
              ready' = IF keep THEN ready ELSE [ready EXCEPT ![f] = @ \ {d}]
       ELSE UNCHANGED ready
    /\ UNCHANGED <<life, iopc, sigs, thr>>

(* op_lib_loop goes on to op_close_pending_fds, which lets the kernel have     *)
(* closed descriptors back, with all it knows of them.                      *)
op_close_pending_fds ==
    LET gone == {f \in Fds : life[f] = "closed"}
    IN  /\ life' = [f \in Fds |-> IF f \in gone THEN "free" ELSE life[f]]
        /\ ready' = [f \in Fds |-> IF f \in gone THEN {} ELSE ready[f]]
        /\ be' = [be EXCEPT !.reg = [f \in Fds |-> IF f \in gone THEN {} ELSE @[f]],
                             !.dead = @ \ gone, !.given = Nothing]

(* Everything is dispatched: sigio waits for the next signal, the others        *)
(* return.                                                                  *)
SelectReturns ==
    /\ batch = Nothing
    /\ \/ iopc = "signal" /\ iopc' = "wait" /\ UNCHANGED <<life, be, ready>>
       \/ iopc = "dispatch" /\ iopc' = "user" /\ op_close_pending_fds
    /\ UNCHANGED <<batch, sigs, thr>>

(* The wait ends with nothing to report: by its timeout, or by a signal the     *)
(* process handles (EINTR).                                                 *)
WaitEnds ==
    \/ DrainPipe
    \/ /\ ~Threaded /\ Waiting /\ ~ToReport /\ iopc' = "user" /\ op_close_pending_fds
       /\ UNCHANGED <<batch, sigs, thr>>

-----------------------------------------------------------------------------
UserStep ==
    \/ \E f \in Fds, ds \in SUBSET Dirs \ {{}}, on \in BOOLEAN :
          UserSetselect(f, ds, on) \/ WorkerPortFlags(f, ds, on)
    \/ \E f \in Fds : Close(f) \/ Open(f) \/ SocketDies(f)
    \/ \E f \in Fds, d \in Dirs : BecomeReady(f, d)

Wait ==
    \/ op_select_poll \/ op_select_devpoll \/ op_select_ports
    \/ op_select_kqueue \/ op_select_sigio \/ op_select_iocp \/ kq_select_threaded

IoStep ==
    \/ EnterWait \/ Wait \/ SelectReturns
    \/ \E f \in Fds, d \in Dirs : Dispatch(f, d)

PollStep == KqPollWait \/ KqPollPush
Next == UserStep \/ WorkerPortAssociate \/ IoStep \/ WaitEnds \/ PollStep

Spec == Init /\ [][Next]_vars

(* op_lib_loop calls op_select again and again, and the poll thread runs.  A   *)
(* wait need not end unless it has something to report or a timeout.  The ring  *)
(* is drained in order, so each of its entries has its turn.                   *)
FairIo == IoStep \/ (Timed /\ WaitEnds)
FairSpec == Spec /\ WF_vars(FairIo) /\ WF_vars(PollStep)
            /\ \A f \in Fds, d \in Dirs : WF_vars(Threaded /\ Dispatch(f, d))

-----------------------------------------------------------------------------
(* Properties.                                                              *)

TypeOK ==
    /\ life \in [Fds -> {"open", "closed", "free"}]
    /\ be.handler \in [Fds -> SUBSET Dirs] /\ be.reg \in [Fds -> SUBSET Dirs]
    /\ be.maxindex \in Fds \cup {-1, 0} /\ Len(be.changes) <= ChangeCap
    /\ ready \in [Fds -> SUBSET Dirs] /\ batch \in [Fds -> SUBSET Dirs]
    /\ iopc \in {"user", "wait", "poll", "dispatch", "signal"}
    /\ Len(sigs.q) <= SigCap /\ thr.kqout \subseteq Interests

(* The change list makes the kernel's side of an interest after the next      *)
(* flush.                                                                   *)
AfterFlush(f) == kq_flush_changes(be).reg[f]

(* Where an interest in (f, d) may live until its handler is called.        *)
Kept(f, d) ==
    CASE Kind \in {"poll", "select"} -> d \in be.reg[f] /\ f <= be.maxindex
      [] Kind = "devpoll" -> d \in be.reg[f]
      [] Kind = "ports" -> \/ d \in be.reg[f] \/ (iopc = "dispatch" /\ batch[f] # {})
                           \/ be.assoc # {}
      [] Kind = "kqueue" -> \/ d \in AfterFlush(f) \/ d \in batch[f]
                            \/ <<f, d>> \in thr.kqout
      [] Kind = "iocp" -> \/ d \in batch[f]
                          \/ \E p \in be.posted : p.fd = f /\ p.dir = d /\ p.gen = be.gen[f]
      [] Kind = "sigio" ->
           /\ d \in be.reg[f] /\ f <= be.maxindex
           /\ d \in ready[f] => \/ SigPending(f, d) \/ sigs.overflow \/ sigs.screwed
                                \/ d \in batch[f] \/ (iopc = "poll" /\ d \in be.given[f])

(* No interest is lost: as long as an open descriptor has a handler for a     *)
(* direction, the backend knows of it, in the kernel, in the array or sets     *)
(* the next wait is given, in the change list, or among what has been          *)
(* reported and is not dispatched yet.  This is the contract all backends      *)
(* share ("the same readiness-notification contract", iocp.c).  A socket on    *)
(* which iocp's operations fail is excepted: iocp.c says that the handler       *)
(* "will get the error on the next real recv()/send() call", but nothing       *)
(* calls a handler that is registered on a dead socket.                      *)
InterestKept ==
    \A f \in Fds \ be.dead : IsFDOpen(f) => \A d \in be.handler[f] : Kept(f, d)

(* The ring of the poll thread is announced: while the I/O thread waits, an    *)
(* event in the ring has its byte in the notify pipe or the poll thread is     *)
(* about to write it.                                                       *)
RingAnnounced ==
    (Threaded /\ iopc = "wait" /\ batch # Nothing) => thr.notify \/ thr.any

(* An interest that waits for a condition that holds.                        *)
Unserved(f, d) == IsFDOpen(f) /\ f \notin be.dead /\ d \in be.handler[f] /\ d \in ready[f]

(* A registered interest whose condition holds is served: the handler is       *)
(* called, or the interest is given up.  Only a timeout lets op_select see      *)
(* what a worker registers while it waits in poll(), select() or kevent().     *)
InterestServed == \A f \in Fds, d \in Dirs : []<>~Unserved(f, d)
=============================================================================
